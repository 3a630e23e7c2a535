---------------------------- MODULE BuildProofs -----------------------------
(***************************************************************************)
(* Proofs about GraphBuild, Hnsw and HnswLevels.                           *)
(*                                                                         *)
(* About the first two for every number of points and threads, every list  *)
(* size and degree bound, every distance, every assignment of labels, every*)
(* level, sample and answer of the level below, from the contract of the   *)
(* prune rules.  For a flat graph: the type of the state, then isolation   *)
(* of the locations that are not published, the bound on the lengths,      *)
(* distinctness, connectivity and the final degree, each on top of those   *)
(* before.  The critical sections a level of an HNSW index takes over keep *)
(* these invariants; what is new there is the search that starts from the  *)
(* level below, the slots that are pruned, and the clean-up.               *)
(*                                                                         *)
(* About the levels of an HNSW index on disk, at the end, for any indexes  *)
(* and any number of saves, cut short or not: what the files at the path   *)
(* are, and what a search of the levels loaded from them meets.            *)
(***************************************************************************)
EXTENDS Hnsw, HnswLevels, TLAPS, FiniteSetTheorems, SequenceTheorems

USE DEF Points, Threads, None

----------------------------------------------------------------------------
(* Lemmas about the operators of the model.                                *)

\* The alpha rule returns a list of R distinct candidates at most, never the
\* point itself, and nothing only if there is no other candidate.
LEMMA AlphaRngFacts ==
    ASSUME NEW p \in Points, NEW S \in SUBSET Points
    PROVE  LET s == PruneAlphaRng(p, S)
           IN  /\ s \in Seq(Points)
               /\ Range(s) \subseteq S \ {p}
               /\ Len(s) \in Nat
               /\ Len(s) <= R
               /\ \A i, j \in 1..Len(s) : s[i] = s[j] => i = j
               /\ S \ {p} # {} => s # << >>
<1>1. PruneContract(PruneAlphaRng)
  BY PruneAssumption
<1>2. /\ PruneAlphaRng(p, S) \in Seq(S \ {p})
      /\ Len(PruneAlphaRng(p, S)) <= R
      /\ \A i, j \in 1..Len(PruneAlphaRng(p, S)) :
            PruneAlphaRng(p, S)[i] = PruneAlphaRng(p, S)[j] => i = j
      /\ S \ {p} # {} => PruneAlphaRng(p, S) # << >>
  BY <1>1 DEF PruneContract
<1>3. PruneAlphaRng(p, S) \in Seq(Points)
  BY <1>2, SeqMonotonic
<1>4. Range(PruneAlphaRng(p, S)) \subseteq S \ {p}
  BY <1>2, RangeOfSeq
<1> QED
  BY <1>2, <1>3, <1>4

\* So does the rule that add_reciprocal_edges was asked to use.
LEMMA ReciprocalPruneFacts ==
    ASSUME NEW p \in Points, NEW S \in SUBSET Points
    PROVE  LET s == ReciprocalPrune(p, S)
           IN  /\ s \in Seq(Points)
               /\ Range(s) \subseteq S \ {p}
               /\ Len(s) \in Nat
               /\ Len(s) <= R
               /\ \A i, j \in 1..Len(s) : s[i] = s[j] => i = j
               /\ S \ {p} # {} => s # << >>
<1>1. CASE PruningRule = 0
  BY <1>1, AlphaRngFacts DEF ReciprocalPrune
<1>2. CASE PruningRule # 0
  <2>1. PruneContract(PruneTopK)
    BY PruneAssumption
  <2>2. /\ PruneTopK(p, S) \in Seq(S \ {p})
        /\ Len(PruneTopK(p, S)) <= R
        /\ \A i, j \in 1..Len(PruneTopK(p, S)) :
              PruneTopK(p, S)[i] = PruneTopK(p, S)[j] => i = j
        /\ S \ {p} # {} => PruneTopK(p, S) # << >>
    BY <2>1 DEF PruneContract
  <2>3. PruneTopK(p, S) \in Seq(Points)
    BY <2>2, SeqMonotonic
  <2>4. Range(PruneTopK(p, S)) \subseteq S \ {p}
    BY <2>2, RangeOfSeq
  <2> QED
    BY <1>2, <2>2, <2>3, <2>4 DEF ReciprocalPrune
<1> QED
  BY <1>1, <1>2

\* What a list holds after something is put at its end.
LEMMA RangeFacts ==
    ASSUME NEW s \in Seq(Points), NEW r \in Seq(Points), NEW x \in Points
    PROVE  /\ Range(s) \in SUBSET Points
           /\ Range(s) = {s[i] : i \in 1..Len(s)}
           /\ s \o r \in Seq(Points)
           /\ Len(s \o r) = Len(s) + Len(r)
           /\ Range(s \o r) = Range(s) \cup Range(r)
           /\ Append(s, x) \in Seq(Points)
           /\ Len(Append(s, x)) = Len(s) + 1
           /\ Range(Append(s, x)) = Range(s) \cup {x}
           /\ << >> \in Seq(Points)
           /\ Range(<< >>) = {}
           /\ Len(s) \in Nat
           /\ s # << >> => Range(s) # {}
<1>1. /\ Append(s, x) = s \o <<x>>
      /\ Append(s, x) \in Seq(Points)
      /\ Len(Append(s, x)) = Len(s) + 1
  BY AppendIsConcat, AppendProperties
<1>2. <<x>> \in Seq(Points) /\ Range(<<x>>) = {x}
  BY DEF Range
<1>3. Range(s) \in SUBSET Points /\ Range(s) = {s[i] : i \in 1..Len(s)}
  BY RangeEquality, RangeOfSeq
<1>4. s \o r \in Seq(Points) /\ Len(s \o r) = Len(s) + Len(r)
  BY ConcatProperties
<1>5. Range(s \o r) = Range(s) \cup Range(r)
  BY RangeConcatenation
<1>6. Range(Append(s, x)) = Range(s) \cup {x}
  <2> DEFINE single == <<x>>
  <2>1. single \in Seq(Points) /\ Range(single) = {x} /\ Append(s, x) = s \o single
    BY <1>1, <1>2
  <2> HIDE DEF single
  <2>2. Range(s \o single) = Range(s) \cup Range(single)
    BY <2>1, RangeConcatenation
  <2> QED
    BY <2>1, <2>2
<1>7. << >> \in Seq(Points) /\ Range(<< >>) = {}
  BY EmptySeq DEF Range
<1>8. Len(s) \in Nat /\ (s # << >> => Len(s) \in Nat \ {0})
  BY EmptySeq, LenProperties
<1>9. s # << >> => Range(s) # {}
  BY <1>3, <1>8
<1> QED
  BY <1>1, <1>3, <1>4, <1>5, <1>6, <1>7, <1>8, <1>9

\* What a search starts from and what its pool becomes are points.
LEMMA PoolFacts ==
    ASSUME NEW p \in Points
    PROVE  /\ \A B \in Seeds(p) : B \in SUBSET Points
           /\ \A S \in SUBSET Points : \A B \in Closest(p, S) : B \in SUBSET S
<1>1. Entries[p] \in SUBSET Points
  BY DataAssumption
<1> QED
  BY <1>1 DEF Seeds, Closest

----------------------------------------------------------------------------
(* The control state: a thread in the body of the loop has a location of   *)
(* its own, which it took off its list, and once the loop is over no       *)
(* thread is in the body.                                                  *)
Control ==
    /\ \A t \in Threads :
          /\ todo[t] \subseteq Owned(t)
          /\ pc[t] # "next" => loc[t] \in Owned(t) \ todo[t]
          /\ idx[t] >= 1
          /\ pc[t] = "overwrite" => idx[t] <= Len(links[t])
    /\ phase # "build" => \A t \in Threads : pc[t] = "next" /\ todo[t] = {}

TypeInv == TypeOK /\ Control

LEMMA TypeInit == Init => TypeInv
<1> SUFFICES ASSUME Init
             PROVE  TypeInv
  OBVIOUS
<1>1. << >> \in Seq(Points)
  BY EmptySeq
<1>2. \A t \in Threads : Owned(t) \in SUBSET Points
  BY DEF Owned
<1>3. TypeOK
  BY <1>1, <1>2 DEF Init, TypeOK
<1>4. Control
  BY DEF Init, Control
<1> QED
  BY <1>3, <1>4 DEF TypeInv

\* Every step keeps the types and the control state.
LEMMA TypeStep == TypeInv /\ [Next]_vars => TypeInv'
<1> SUFFICES ASSUME TypeInv, [Next]_vars
             PROVE  TypeInv'
  OBVIOUS
<1> USE DEF TypeInv, TypeOK, Control
<1>0. \A t \in Threads : Owned(t) \in SUBSET Points
  BY DEF Owned
<1>1. ASSUME NEW t \in Threads, BeginLocation(t)
      PROVE  TypeInv'
  <2>1. PICK p \in todo[t] : /\ todo' = [todo EXCEPT ![t] = @ \ {p}]
                             /\ loc' = [loc EXCEPT ![t] = p]
                             /\ \E B \in Seeds(p) :
                                   /\ inserted' = [inserted EXCEPT ![t] = B]
                                   /\ pool' = [pool EXCEPT ![t] = B]
    BY <1>1 DEF BeginLocation
  <2>2. p \in Points /\ p \in Owned(t)
    OBVIOUS
  <2>3. \A B \in Seeds(p) : B \in SUBSET Points
    BY <2>2, PoolFacts
  <2>4. phase = "build"
    BY <2>1
  <2>5. TypeOK'
    BY <1>1, <2>1, <2>2, <2>3 DEF BeginLocation
  <2>6. Control'
    BY <1>1, <2>1, <2>2, <2>4 DEF BeginLocation
  <2> QED
    BY <2>5, <2>6
<1>2. ASSUME NEW t \in Threads, Expand(t)
      PROVE  TypeInv'
  <2>1. PICK n \in pool[t] \ expanded[t] :
            /\ expanded' = [expanded EXCEPT ![t] = @ \cup {n}]
            /\ LET new == {x \in Range(outNbrs[n]) \ inserted[t] : Accepts(loc[t], x)}
               IN  /\ inserted' = [inserted EXCEPT ![t] = @ \cup new]
                   /\ \E B \in Closest(loc[t], pool[t] \cup new) :
                          pool' = [pool EXCEPT ![t] = B]
    BY <1>2 DEF Expand
  <2> DEFINE new == {x \in Range(outNbrs[n]) \ inserted[t] : Accepts(loc[t], x)}
  <2>2. new \in SUBSET Points
    BY RangeFacts
  <2>3. loc[t] \in Points
    BY <1>0, <1>2 DEF Expand
  <2>4. \A B \in Closest(loc[t], pool[t] \cup new) : B \in SUBSET Points
    BY <2>2, <2>3, PoolFacts
  <2> HIDE DEF new
  <2>5. inserted' \in [Threads -> SUBSET Points] /\ pool' \in [Threads -> SUBSET Points]
    BY <2>1, <2>2, <2>4 DEF new
  <2>6. TypeOK'
    BY <1>2, <2>1, <2>5 DEF Expand
  <2>7. Control'
    BY <1>2, <2>1, <2>6 DEF Expand
  <2> QED
    BY <2>6, <2>7
<1>3. ASSUME NEW t \in Threads, Publish(t)
      PROVE  TypeInv'
  <2> DEFINE pruned == PruneAlphaRng(loc[t], expanded[t])
  <2>1. loc[t] \in Points
    BY <1>0, <1>3 DEF Publish
  <2>2. pruned \in Seq(Points)
    BY <2>1, AlphaRngFacts
  <2>3. outNbrs[loc[t]] \o pruned \in Seq(Points)
    BY <2>1, <2>2, ConcatProperties
  <2> HIDE DEF pruned
  <2>4. /\ links' = [links EXCEPT ![t] = pruned]
        /\ outNbrs' = [outNbrs EXCEPT ![loc[t]] = @ \o pruned]
    BY <1>3 DEF Publish, pruned
  <2>5. TypeOK'
    BY <1>3, <2>1, <2>2, <2>3, <2>4 DEF Publish, search
  <2>6. Control'
    BY <1>3, <2>4 DEF Publish, search
  <2> QED
    BY <2>5, <2>6
<1>4. ASSUME NEW t \in Threads, Reciprocal(t)
      PROVE  TypeInv'
  <2> DEFINE des == links[t][idx[t]]
  <2>1. /\ loc[t] \in Points
        /\ links[t] \in Seq(Points)
        /\ idx[t] \in 1..Len(links[t])
    BY <1>0, <1>4 DEF Reciprocal
  <2>2. des \in Points
    BY <2>1, ElementOfSeq
  <2>3. Append(outNbrs[des], loc[t]) \in Seq(Points)
    BY <2>1, <2>2, AppendProperties
  <2> HIDE DEF des
  <2>4. UNCHANGED <<phase, todo, loc, search, links, dirty>>
    BY <1>4 DEF Reciprocal
  <2>5. CASE /\ outNbrs' = IF loc[t] \in Range(outNbrs[des])
                           THEN outNbrs
                           ELSE [outNbrs EXCEPT ![des] = Append(@, loc[t])]
             /\ idx' = [idx EXCEPT ![t] = @ + 1]
             /\ UNCHANGED <<pc, copied>>
    <3>1. outNbrs' \in [Points -> Seq(Points)]
      BY <2>2, <2>3, <2>5
    <3>2. TypeOK'
      BY <2>4, <2>5, <3>1 DEF search
    <3>3. Control'
      BY <1>4, <2>4, <2>5 DEF Reciprocal
    <3> QED
      BY <3>2, <3>3
  <2>6. CASE /\ copied' = [copied EXCEPT ![t] = Append(outNbrs[des], loc[t])]
             /\ pc' = [pc EXCEPT ![t] = "overwrite"]
             /\ UNCHANGED <<outNbrs, idx>>
    <3>1. TypeOK'
      BY <2>3, <2>4, <2>6 DEF search
    <3>2. Control'
      BY <1>4, <2>1, <2>4, <2>6 DEF Reciprocal
    <3> QED
      BY <3>1, <3>2
  <2> QED
    BY <1>4, <2>5, <2>6 DEF Reciprocal, des
<1>5. ASSUME NEW t \in Threads, Overwrite(t)
      PROVE  TypeInv'
  <2> DEFINE des == links[t][idx[t]]
             rest == ReciprocalPrune(des, Range(copied[t]) \ {des})
  <2>1. /\ links[t] \in Seq(Points)
        /\ idx[t] \in 1..Len(links[t])
        /\ copied[t] \in Seq(Points)
    BY <1>5 DEF Overwrite
  <2>2. des \in Points
    BY <2>1, ElementOfSeq
  <2>3. Range(copied[t]) \in SUBSET Points
    BY <2>1, RangeOfSeq
  <2>4. rest \in Seq(Points)
    BY <2>2, <2>3, ReciprocalPruneFacts
  <2> HIDE DEF rest, des
  <2>5. /\ outNbrs' = [outNbrs EXCEPT ![des] = rest]
        /\ copied' = [copied EXCEPT ![t] = << >>]
        /\ idx' = [idx EXCEPT ![t] = @ + 1]
        /\ pc' = [pc EXCEPT ![t] = "reciprocal"]
        /\ UNCHANGED <<phase, todo, loc, search, links, dirty>>
    BY <1>5 DEF Overwrite, rest, des
  <2>6. << >> \in Seq(Points)
    BY EmptySeq
  <2>7. TypeOK'
    <3>1. outNbrs' \in [Points -> Seq(Points)]
      BY <2>4, <2>5
    <3>2. copied' \in [Threads -> Seq(Points)]
      BY <2>5, <2>6
    <3>3. /\ idx' \in [Threads -> Nat]
          /\ pc' \in [Threads -> {"next", "search", "reciprocal", "overwrite"}]
      BY <2>5
    <3>4. UNCHANGED <<phase, todo, loc, pool, inserted, expanded, links, dirty>>
      BY <2>5 DEF search
    <3> QED
      BY <3>1, <3>2, <3>3, <3>4
  <2>8. pc[t] = "overwrite"
    BY <1>5 DEF Overwrite
  <2>9. Control'
    BY <2>5, <2>8 DEF search
  <2> QED
    BY <2>7, <2>9
<1>6. ASSUME NEW t \in Threads, EndLocation(t)
      PROVE  TypeInv'
  BY <1>6, EmptySeq DEF EndLocation
<1>7. ASSUME Barrier
      PROVE  TypeInv'
  BY <1>7 DEF Barrier, locals, search
<1>8. ASSUME NEW node \in Points, CleanUp(node)
      PROVE  TypeInv'
  <2>1. Range(outNbrs[node]) \ {node} \in SUBSET Points
    <3>1. outNbrs[node] \in Seq(Points)
      OBVIOUS
    <3> QED
      BY <3>1, RangeOfSeq
  <2>2. PruneAlphaRng(node, Range(outNbrs[node]) \ {node}) \in Seq(Points)
    BY <2>1, AlphaRngFacts
  <2> QED
    BY <1>8, <2>2 DEF CleanUp, locals, search
<1>9. ASSUME Finish
      PROVE  TypeInv'
  BY <1>9 DEF Finish, locals, search
<1>10. CASE UNCHANGED vars
  BY <1>10 DEF vars, locals, search
<1> QED
  BY <1>1, <1>2, <1>3, <1>4, <1>5, <1>6, <1>7, <1>8, <1>9, <1>10 DEF Next, Step, Done

\* In every reachable state the variables have their types.
THEOREM TypeCorrect == Spec => []TypeOK
<1>1. Spec => []TypeInv
  BY TypeInit, TypeStep, PTL DEF Spec
<1>2. TypeInv => TypeOK
  BY DEF TypeInv
<1> QED
  BY <1>1, <1>2, PTL

----------------------------------------------------------------------------
(* What the four actions that write a list do to the lists, put so that    *)
(* the proofs below need not look at sequences again.                      *)

LEMMA PublishEffect ==
    ASSUME TypeInv, NEW t \in Threads, Publish(t)
    PROVE  /\ loc[t] \in Points
           /\ pc[t] = "search"
           /\ pool[t] \subseteq expanded[t]
           /\ Range(links'[t]) \subseteq expanded[t] \ {loc[t]}
           /\ Len(links'[t]) \in Nat /\ Len(links'[t]) <= R
           /\ \A i, j \in 1..Len(links'[t]) : links'[t][i] = links'[t][j] => i = j
           /\ expanded[t] \ {loc[t]} # {} => links'[t] # << >>
           /\ \A u \in Threads : u # t => links'[u] = links[u]
           /\ \A q \in Points : q # loc[t] => outNbrs'[q] = outNbrs[q]
           /\ outNbrs'[loc[t]] = outNbrs[loc[t]] \o links'[t]
           /\ Range(outNbrs'[loc[t]]) = Range(outNbrs[loc[t]]) \cup Range(links'[t])
           /\ Len(outNbrs'[loc[t]]) = Len(outNbrs[loc[t]]) + Len(links'[t])
           /\ pc' = [pc EXCEPT ![t] = "reciprocal"]
           /\ UNCHANGED <<phase, todo, loc, pool, inserted, expanded, copied, dirty>>
<1> DEFINE pruned == PruneAlphaRng(loc[t], expanded[t])
<1>1. loc[t] \in Points /\ expanded[t] \in SUBSET Points /\ outNbrs[loc[t]] \in Seq(Points)
  <2>1. loc[t] \in Points
    BY DEF TypeInv, Control, Publish, Owned
  <2> QED
    BY <2>1 DEF TypeInv, TypeOK
<1>2. /\ pruned \in Seq(Points)
      /\ Range(pruned) \subseteq expanded[t] \ {loc[t]}
      /\ Len(pruned) \in Nat /\ Len(pruned) <= R
      /\ \A i, j \in 1..Len(pruned) : pruned[i] = pruned[j] => i = j
      /\ expanded[t] \ {loc[t]} # {} => pruned # << >>
  BY <1>1, AlphaRngFacts
<1> HIDE DEF pruned
<1>3. /\ Range(outNbrs[loc[t]] \o pruned) = Range(outNbrs[loc[t]]) \cup Range(pruned)
      /\ Len(outNbrs[loc[t]] \o pruned) = Len(outNbrs[loc[t]]) + Len(pruned)
  BY <1>1, <1>2, RangeFacts
<1>4. /\ links' = [links EXCEPT ![t] = pruned]
      /\ outNbrs' = [outNbrs EXCEPT ![loc[t]] = @ \o pruned]
      /\ pc[t] = "search"
      /\ pool[t] \subseteq expanded[t]
      /\ pc' = [pc EXCEPT ![t] = "reciprocal"]
      /\ UNCHANGED <<phase, todo, loc, pool, inserted, expanded, copied, dirty>>
  BY DEF Publish, search, pruned
<1>5. links \in [Threads -> Seq(Points)] /\ outNbrs \in [Points -> Seq(Points)]
  BY DEF TypeInv, TypeOK
<1>6. links'[t] = pruned /\ \A u \in Threads : u # t => links'[u] = links[u]
  BY <1>4, <1>5
<1>7. /\ outNbrs'[loc[t]] = outNbrs[loc[t]] \o pruned
      /\ \A q \in Points : q # loc[t] => outNbrs'[q] = outNbrs[q]
  BY <1>1, <1>4, <1>5
<1>8. /\ Range(links'[t]) \subseteq expanded[t] \ {loc[t]}
      /\ Len(links'[t]) \in Nat /\ Len(links'[t]) <= R
      /\ \A i, j \in 1..Len(links'[t]) : links'[t][i] = links'[t][j] => i = j
      /\ expanded[t] \ {loc[t]} # {} => links'[t] # << >>
  BY <1>2, <1>6
<1>9. /\ outNbrs'[loc[t]] = outNbrs[loc[t]] \o links'[t]
      /\ Range(outNbrs'[loc[t]]) = Range(outNbrs[loc[t]]) \cup Range(links'[t])
      /\ Len(outNbrs'[loc[t]]) = Len(outNbrs[loc[t]]) + Len(links'[t])
  BY <1>3, <1>6, <1>7
<1> QED
  BY <1>1, <1>4, <1>6, <1>7, <1>8, <1>9

LEMMA ReciprocalEffect ==
    ASSUME TypeInv, NEW t \in Threads, Reciprocal(t)
    PROVE  LET des == links[t][idx[t]]
           IN  /\ loc[t] \in Points
               /\ pc[t] = "reciprocal"
               /\ des \in Points /\ des \in Range(links[t])
               /\ \A q \in Points : q # des => outNbrs'[q] = outNbrs[q]
               /\ \/ outNbrs' = outNbrs /\ pc' = pc /\ copied' = copied
                  \/ /\ loc[t] \notin Range(outNbrs[des])
                     /\ BelowSlack(outNbrs[des])
                     /\ outNbrs'[des] = Append(outNbrs[des], loc[t])
                     /\ Range(outNbrs'[des]) = Range(outNbrs[des]) \cup {loc[t]}
                     /\ Len(outNbrs[des]) \in Nat
                     /\ Len(outNbrs'[des]) = Len(outNbrs[des]) + 1
                     /\ pc' = pc /\ copied' = copied
                  \/ /\ outNbrs' = outNbrs
                     /\ pc' = [pc EXCEPT ![t] = "overwrite"]
                     /\ copied' = [copied EXCEPT ![t] = Append(outNbrs[des], loc[t])]
                     /\ Range(copied'[t]) = Range(outNbrs[des]) \cup {loc[t]}
                     /\ idx' = idx
               /\ UNCHANGED <<phase, todo, loc, pool, inserted, expanded, links, dirty>>
<1> DEFINE des == links[t][idx[t]]
<1>1. /\ links \in [Threads -> Seq(Points)]
      /\ outNbrs \in [Points -> Seq(Points)]
      /\ copied \in [Threads -> Seq(Points)]
      /\ idx[t] \in Nat
  BY DEF TypeInv, TypeOK
<1>2. loc[t] \in Points
  BY DEF TypeInv, Control, Reciprocal, Owned
<1>3. links[t] \in Seq(Points) /\ idx[t] \in 1..Len(links[t])
  BY <1>1 DEF TypeInv, Control, Reciprocal
<1>4. des \in Points /\ des \in Range(links[t])
  BY <1>3, ElementOfSeq, RangeEquality
<1> HIDE DEF des
<1>5. outNbrs[des] \in Seq(Points)
  BY <1>1, <1>4
<1>6. /\ Len(outNbrs[des]) \in Nat
      /\ Len(Append(outNbrs[des], loc[t])) = Len(outNbrs[des]) + 1
      /\ Range(Append(outNbrs[des], loc[t])) = Range(outNbrs[des]) \cup {loc[t]}
  BY <1>2, <1>5, RangeFacts
<1>7. /\ pc[t] = "reciprocal"
      /\ UNCHANGED <<phase, todo, loc, pool, inserted, expanded, links, dirty>>
  BY DEF Reciprocal, search
<1>8. \/ /\ loc[t] \in Range(outNbrs[des])
         /\ outNbrs' = outNbrs /\ pc' = pc /\ copied' = copied
      \/ /\ loc[t] \notin Range(outNbrs[des])
         /\ BelowSlack(outNbrs[des])
         /\ outNbrs' = [outNbrs EXCEPT ![des] = Append(@, loc[t])]
         /\ pc' = pc /\ copied' = copied
      \/ /\ outNbrs' = outNbrs
         /\ pc' = [pc EXCEPT ![t] = "overwrite"]
         /\ copied' = [copied EXCEPT ![t] = Append(outNbrs[des], loc[t])]
         /\ idx' = idx
  BY DEF Reciprocal, des
<1>9. \A q \in Points : q # des => outNbrs'[q] = outNbrs[q]
  BY <1>1, <1>4, <1>8
<1>10. CASE outNbrs' = outNbrs /\ pc' = pc /\ copied' = copied
  BY <1>2, <1>4, <1>7, <1>9, <1>10 DEF des
<1>11. CASE /\ loc[t] \notin Range(outNbrs[des])
            /\ BelowSlack(outNbrs[des])
            /\ outNbrs' = [outNbrs EXCEPT ![des] = Append(@, loc[t])]
            /\ pc' = pc /\ copied' = copied
  <2>1. outNbrs'[des] = Append(outNbrs[des], loc[t])
    BY <1>1, <1>4, <1>11
  <2> QED
    BY <1>2, <1>4, <1>6, <1>7, <1>9, <1>11, <2>1 DEF des
<1>12. CASE /\ outNbrs' = outNbrs
            /\ pc' = [pc EXCEPT ![t] = "overwrite"]
            /\ copied' = [copied EXCEPT ![t] = Append(outNbrs[des], loc[t])]
            /\ idx' = idx
  <2>1. copied'[t] = Append(outNbrs[des], loc[t])
    BY <1>1, <1>12
  <2> QED
    BY <1>2, <1>4, <1>6, <1>7, <1>9, <1>12, <2>1 DEF des
<1> QED
  BY <1>8, <1>10, <1>11, <1>12

LEMMA OverwriteEffect ==
    ASSUME TypeInv, NEW t \in Threads, Overwrite(t)
    PROVE  LET des == links[t][idx[t]]
           IN  /\ pc[t] = "overwrite"
               /\ des \in Points /\ des \in Range(links[t])
               /\ \A q \in Points : q # des => outNbrs'[q] = outNbrs[q]
               /\ Range(outNbrs'[des]) \subseteq Range(copied[t]) \ {des}
               /\ Range(copied[t]) \ {des} # {} => outNbrs'[des] # << >>
               /\ Len(outNbrs'[des]) \in Nat /\ Len(outNbrs'[des]) <= R
               /\ \A i, j \in 1..Len(outNbrs'[des]) :
                     outNbrs'[des][i] = outNbrs'[des][j] => i = j
               /\ pc' = [pc EXCEPT ![t] = "reciprocal"]
               /\ copied' = [copied EXCEPT ![t] = << >>]
               /\ UNCHANGED <<phase, todo, loc, pool, inserted, expanded, links, dirty>>
<1> DEFINE des == links[t][idx[t]]
           rest == ReciprocalPrune(des, Range(copied[t]) \ {des})
<1>1. /\ outNbrs \in [Points -> Seq(Points)]
      /\ links[t] \in Seq(Points)
      /\ copied[t] \in Seq(Points)
      /\ idx[t] \in 1..Len(links[t])
  BY DEF TypeInv, TypeOK, Control, Overwrite
<1>2. des \in Points /\ des \in Range(links[t])
  <2>1. links[t] \in Seq(Points) /\ idx[t] \in 1..Len(links[t])
    BY <1>1
  <2> QED
    BY <2>1, ElementOfSeq, RangeEquality
<1>3. Range(copied[t]) \in SUBSET Points
  BY <1>1, RangeOfSeq
<1> HIDE DEF des
<1> DEFINE others == Range(copied[t]) \ {des}
<1>a. others \in SUBSET Points /\ others \ {des} = others
  BY <1>3
<1>4. /\ Range(rest) \subseteq Range(copied[t]) \ {des}
      /\ Range(copied[t]) \ {des} # {} => rest # << >>
      /\ Len(rest) \in Nat /\ Len(rest) <= R
      /\ \A i, j \in 1..Len(rest) : rest[i] = rest[j] => i = j
  <2> HIDE DEF others
  <2>1. LET s == ReciprocalPrune(des, others)
        IN  /\ Range(s) \subseteq others \ {des}
            /\ Len(s) \in Nat
            /\ Len(s) <= R
            /\ \A i, j \in 1..Len(s) : s[i] = s[j] => i = j
            /\ others \ {des} # {} => s # << >>
    BY <1>2, <1>a, ReciprocalPruneFacts
  <2> QED
    BY <1>a, <2>1 DEF others
<1> HIDE DEF rest
<1>5. /\ pc[t] = "overwrite"
      /\ outNbrs' = [outNbrs EXCEPT ![des] = rest]
      /\ pc' = [pc EXCEPT ![t] = "reciprocal"]
      /\ copied' = [copied EXCEPT ![t] = << >>]
      /\ UNCHANGED <<phase, todo, loc, pool, inserted, expanded, links, dirty>>
  BY DEF Overwrite, search, rest, des
<1>6. /\ outNbrs'[des] = rest
      /\ \A q \in Points : q # des => outNbrs'[q] = outNbrs[q]
  BY <1>1, <1>2, <1>5
<1> QED
  BY <1>2, <1>4, <1>5, <1>6 DEF des

LEMMA CleanUpEffect ==
    ASSUME TypeInv, NEW node \in Points, CleanUp(node)
    PROVE  /\ phase = "cleanup"
           /\ \A q \in Points : q # node => outNbrs'[q] = outNbrs[q]
           /\ Len(outNbrs'[node]) \in Nat /\ Len(outNbrs'[node]) <= R
           /\ \/ outNbrs' = outNbrs
              \/ /\ outNbrs[node] # << >>
                 /\ Range(outNbrs[node]) # {}
                 /\ Range(outNbrs'[node]) \subseteq Range(outNbrs[node]) \ {node}
                 /\ Range(outNbrs[node]) \ {node} # {} => outNbrs'[node] # << >>
                 /\ \A i, j \in 1..Len(outNbrs'[node]) :
                       outNbrs'[node][i] = outNbrs'[node][j] => i = j
           /\ dirty' = dirty \ {node}
           /\ UNCHANGED <<phase, todo, pc, loc, pool, inserted, expanded, links, idx, copied>>
<1> DEFINE rest == PruneAlphaRng(node, Range(outNbrs[node]) \ {node})
<1>1. outNbrs \in [Points -> Seq(Points)] /\ outNbrs[node] \in Seq(Points)
  BY DEF TypeInv, TypeOK
<1>2. /\ Range(outNbrs[node]) \in SUBSET Points
      /\ Len(outNbrs[node]) \in Nat
      /\ outNbrs[node] # << >> => Range(outNbrs[node]) # {}
      /\ Len(<< >>) = 0
  BY <1>1, RangeFacts, EmptySeq
<1>3. /\ Range(rest) \subseteq Range(outNbrs[node]) \ {node}
      /\ Range(outNbrs[node]) \ {node} # {} => rest # << >>
      /\ Len(rest) \in Nat /\ Len(rest) <= R
      /\ \A i, j \in 1..Len(rest) : rest[i] = rest[j] => i = j
  <2> DEFINE others == Range(outNbrs[node]) \ {node}
  <2>1. others \in SUBSET Points /\ others \ {node} = others
    BY <1>2
  <2> HIDE DEF others
  <2>2. LET s == PruneAlphaRng(node, others)
        IN  /\ Range(s) \subseteq others \ {node}
            /\ Len(s) \in Nat
            /\ Len(s) <= R
            /\ \A i, j \in 1..Len(s) : s[i] = s[j] => i = j
            /\ others \ {node} # {} => s # << >>
    BY <2>1, AlphaRngFacts
  <2> QED
    BY <2>1, <2>2 DEF others
<1> HIDE DEF rest
<1>4. /\ phase = "cleanup"
      /\ outNbrs' = IF Len(outNbrs[node]) > R
                    THEN [outNbrs EXCEPT ![node] = rest] ELSE outNbrs
      /\ dirty' = dirty \ {node}
      /\ UNCHANGED <<phase, todo, pc, loc, pool, inserted, expanded, links, idx, copied>>
  BY DEF CleanUp, locals, search, rest
<1>5. CASE Len(outNbrs[node]) > R
  <2>1. /\ outNbrs'[node] = rest
        /\ \A q \in Points : q # node => outNbrs'[q] = outNbrs[q]
    BY <1>1, <1>4, <1>5
  <2>2. outNbrs[node] # << >>
    BY <1>2, <1>5, SizeAssumption
  <2> QED
    BY <1>2, <1>3, <1>4, <2>1, <2>2
<1>6. CASE ~ (Len(outNbrs[node]) > R)
  BY <1>2, <1>4, <1>6, SizeAssumption
<1> QED
  BY <1>5, <1>6

----------------------------------------------------------------------------
(* No self-loops.  The links of a location never hold the location, and a  *)
(* copy waiting to be pruned holds the location that asked for it.         *)
EdgeInv ==
    /\ NoSelfLoops
    /\ \A t \in Threads :
          /\ pc[t] \in {"reciprocal", "overwrite"} => loc[t] \notin Range(links[t])
          /\ pc[t] = "overwrite" => loc[t] \in Range(copied[t])

LEMMA EdgeStep == TypeInv /\ EdgeInv /\ [Next]_vars => EdgeInv'
<1> SUFFICES ASSUME TypeInv, EdgeInv, [Next]_vars
             PROVE  EdgeInv'
  OBVIOUS
<1>0. /\ links \in [Threads -> Seq(Points)] /\ copied \in [Threads -> Seq(Points)]
      /\ pc \in [Threads -> {"next", "search", "reciprocal", "overwrite"}]
      /\ loc \in [Threads -> Points \cup {None}]
  BY DEF TypeInv, TypeOK
<1>1. ASSUME NEW t \in Threads, Publish(t)
      PROVE  EdgeInv'
  <2>1. NoSelfLoops'
    BY <1>1, PublishEffect DEF EdgeInv, NoSelfLoops
  <2>2. \A u \in Threads :
          /\ pc'[u] \in {"reciprocal", "overwrite"} => loc'[u] \notin Range(links'[u])
          /\ pc'[u] = "overwrite" => loc'[u] \in Range(copied'[u])
    BY <1>0, <1>1, PublishEffect DEF EdgeInv
  <2> QED
    BY <2>1, <2>2 DEF EdgeInv
<1>2. ASSUME NEW t \in Threads, Reciprocal(t)
      PROVE  EdgeInv'
  <2> DEFINE des == links[t][idx[t]]
  <2>1. /\ des \in Points /\ des # loc[t]
        /\ \A q \in Points : q # des => outNbrs'[q] = outNbrs[q]
        /\ \/ outNbrs' = outNbrs
           \/ Range(outNbrs'[des]) = Range(outNbrs[des]) \cup {loc[t]}
        /\ links' = links /\ loc' = loc /\ pc[t] = "reciprocal"
    BY <1>2, ReciprocalEffect DEF EdgeInv
  <2>2. NoSelfLoops'
    <3> HIDE DEF des
    <3> QED
      BY <2>1 DEF EdgeInv, NoSelfLoops
  <2>a. \A u \in Threads : u # t => copied'[u] = copied[u] /\ pc'[u] = pc[u]
    BY <1>0, <1>2, ReciprocalEffect
  <2>b. pc'[t] = "reciprocal" \/ loc[t] \in Range(copied'[t])
    BY <1>0, <1>2, <2>1, ReciprocalEffect
  <2>3. \A u \in Threads :
          /\ pc'[u] \in {"reciprocal", "overwrite"} => loc'[u] \notin Range(links'[u])
          /\ pc'[u] = "overwrite" => loc'[u] \in Range(copied'[u])
    BY <1>0, <2>1, <2>a, <2>b DEF EdgeInv
  <2> QED
    BY <2>2, <2>3 DEF EdgeInv
<1>3. ASSUME NEW t \in Threads, Overwrite(t)
      PROVE  EdgeInv'
  <2>1. NoSelfLoops'
    BY <1>3, OverwriteEffect DEF EdgeInv, NoSelfLoops
  <2>a. /\ pc[t] = "overwrite"
        /\ pc' = [pc EXCEPT ![t] = "reciprocal"]
        /\ copied' = [copied EXCEPT ![t] = << >>]
        /\ links' = links /\ loc' = loc
    BY <1>3, OverwriteEffect
  <2>2. \A u \in Threads :
          /\ pc'[u] \in {"reciprocal", "overwrite"} => loc'[u] \notin Range(links'[u])
          /\ pc'[u] = "overwrite" => loc'[u] \in Range(copied'[u])
    BY <1>0, <2>a DEF EdgeInv
  <2> QED
    BY <2>1, <2>2 DEF EdgeInv
<1>4. ASSUME NEW node \in Points, CleanUp(node)
      PROVE  EdgeInv'
  <2>1. NoSelfLoops'
    BY <1>4, CleanUpEffect DEF EdgeInv, NoSelfLoops
  <2> QED
    BY <1>4, <2>1, CleanUpEffect DEF EdgeInv
<1>5. ASSUME NEW t \in Threads, BeginLocation(t) \/ Expand(t) \/ EndLocation(t)
      PROVE  EdgeInv'
  BY <1>0, <1>5 DEF EdgeInv, NoSelfLoops, BeginLocation, Expand, EndLocation
<1>6. CASE Barrier \/ Finish \/ UNCHANGED vars
  BY <1>6 DEF EdgeInv, NoSelfLoops, Barrier, Finish, vars, locals, search
<1> QED
  BY <1>1, <1>2, <1>3, <1>4, <1>5, <1>6 DEF Next, Step, Done

\* No list ever holds its own point.
THEOREM NoSelfLoopsEver == Spec => []NoSelfLoops
<1>1. Init => EdgeInv
  BY RangeFacts DEF Init, EdgeInv, NoSelfLoops, Range
<1>2. Spec => [](TypeInv /\ EdgeInv)
  BY <1>1, TypeInit, TypeStep, EdgeStep, PTL DEF Spec
<1>3. EdgeInv => NoSelfLoops
  BY DEF EdgeInv
<1> QED
  BY <1>2, <1>3, PTL

----------------------------------------------------------------------------
(* A location is published by the thread that owns it, once, and for good. *)

LEMMA HeldIsPublished ==
    ASSUME TypeInv, NEW t \in Threads, pc[t] \in {"reciprocal", "overwrite"}
    PROVE  Published(loc[t])
<1> SUFFICES ASSUME NEW u \in Threads
             PROVE  /\ loc[t] \notin todo[u]
                    /\ ~ (loc[u] = loc[t] /\ pc[u] = "search")
  BY DEF Published
<1>1. loc[t] \in Owned(t) \ todo[t]
  BY DEF TypeInv, Control
<1>2. todo[u] \subseteq Owned(u) /\ (pc[u] # "next" => loc[u] \in Owned(u))
  BY DEF TypeInv, Control
<1>3. loc[t] \in Owned(u) => u = t
  BY <1>1 DEF Owned
<1> QED
  BY <1>1, <1>2, <1>3

LEMMA PublishedStable ==
    ASSUME TypeInv, [Next]_vars, NEW p \in Points, Published(p)
    PROVE  Published(p)'
<1> SUFFICES ASSUME NEW u \in Threads
             PROVE  p \notin todo'[u] /\ ~ (loc'[u] = p /\ pc'[u] = "search")
  BY DEF Published
<1>0. /\ p \notin todo[u] /\ ~ (loc[u] = p /\ pc[u] = "search")
      /\ todo \in [Threads -> SUBSET Points]
      /\ pc \in [Threads -> {"next", "search", "reciprocal", "overwrite"}]
      /\ loc \in [Threads -> Points \cup {None}]
      /\ p # None
  BY DEF Published, TypeInv, TypeOK
<1>1. ASSUME NEW t \in Threads, BeginLocation(t)
      PROVE  p \notin todo'[u] /\ ~ (loc'[u] = p /\ pc'[u] = "search")
  <2>1. PICK q \in todo[t] : /\ todo' = [todo EXCEPT ![t] = @ \ {q}]
                             /\ loc' = [loc EXCEPT ![t] = q]
                             /\ pc' = [pc EXCEPT ![t] = "search"]
    BY <1>1 DEF BeginLocation
  <2>2. q # p
    BY <2>1 DEF Published
  <2> QED
    BY <1>0, <2>1, <2>2
<1>2. ASSUME NEW t \in Threads, Expand(t) \/ Publish(t) \/ Reciprocal(t)
                                \/ Overwrite(t) \/ EndLocation(t)
      PROVE  p \notin todo'[u] /\ ~ (loc'[u] = p /\ pc'[u] = "search")
  BY <1>0, <1>2 DEF Expand, Publish, Reciprocal, Overwrite, EndLocation
<1>3. ASSUME NEW node \in Points, CleanUp(node)
      PROVE  p \notin todo'[u] /\ ~ (loc'[u] = p /\ pc'[u] = "search")
  BY <1>0, <1>3 DEF CleanUp, locals
<1>4. CASE Barrier \/ Finish \/ UNCHANGED vars
  BY <1>0, <1>4 DEF Barrier, Finish, vars, locals
<1> QED
  BY <1>1, <1>2, <1>3, <1>4 DEF Next, Step, Done
----------------------------------------------------------------------------
(* Isolation.  A search only ever holds what it has inserted, and inserts  *)
(* entries and what it reads in lists.                                     *)
SearchInv == \A t \in Threads : pool[t] \cup expanded[t] \subseteq inserted[t]

\* HeldIsPublished for all threads at once, a state predicate that can be primed.
HeldPublished == \A u \in Threads : pc[u] = "reciprocal" => Published(loc[u])

LEMMA HeldArePublished == TypeInv => HeldPublished
BY HeldIsPublished DEF HeldPublished

LEMMA SearchStep == TypeInv /\ SearchInv /\ [Next]_vars => SearchInv'
<1> SUFFICES ASSUME TypeInv, SearchInv, [Next]_vars
             PROVE  SearchInv'
  OBVIOUS
<1>0. /\ pool \in [Threads -> SUBSET Points]
      /\ inserted \in [Threads -> SUBSET Points]
      /\ expanded \in [Threads -> SUBSET Points]
  BY DEF TypeInv, TypeOK
<1>1. ASSUME NEW t \in Threads, BeginLocation(t)
      PROVE  SearchInv'
  BY <1>0, <1>1 DEF BeginLocation, SearchInv
<1>2. ASSUME NEW t \in Threads, Expand(t)
      PROVE  SearchInv'
  <2>1. PICK n \in pool[t] \ expanded[t] :
            /\ expanded' = [expanded EXCEPT ![t] = @ \cup {n}]
            /\ LET new == {x \in Range(outNbrs[n]) \ inserted[t] : Accepts(loc[t], x)}
               IN  /\ inserted' = [inserted EXCEPT ![t] = @ \cup new]
                   /\ \E B \in Closest(loc[t], pool[t] \cup new) :
                          pool' = [pool EXCEPT ![t] = B]
    BY <1>2 DEF Expand
  <2> DEFINE new == {x \in Range(outNbrs[n]) \ inserted[t] : Accepts(loc[t], x)}
  <2>2. \A B \in Closest(loc[t], pool[t] \cup new) : B \subseteq pool[t] \cup new
    BY DEF Closest
  <2> HIDE DEF new
  <2>3. PICK B \in Closest(loc[t], pool[t] \cup new) : pool' = [pool EXCEPT ![t] = B]
    BY <2>1 DEF new
  <2>4. inserted' = [inserted EXCEPT ![t] = @ \cup new]
    BY <2>1 DEF new
  <2>5. new \in SUBSET Points
    <3>1. n \in Points
      BY <1>0
    <3>2. outNbrs[n] \in Seq(Points)
      BY <3>1 DEF TypeInv, TypeOK
    <3> QED
      BY <3>2, RangeOfSeq DEF new
  <2>6. expanded' = [expanded EXCEPT ![t] = @ \cup {n}]
    BY <2>1
  <2>7. ASSUME NEW u \in Threads
        PROVE  pool'[u] \cup expanded'[u] \subseteq inserted'[u]
    <3>1. CASE u = t
      BY <1>0, <2>2, <2>3, <2>4, <2>6, <3>1 DEF SearchInv
    <3>2. CASE u # t
      BY <1>0, <2>3, <2>4, <2>6, <3>2 DEF SearchInv
    <3> QED
      BY <3>1, <3>2
  <2> QED
    BY <2>7 DEF SearchInv
<1>3. ASSUME NEW t \in Threads, EndLocation(t)
      PROVE  SearchInv'
  BY <1>0, <1>3 DEF EndLocation, SearchInv
<1>4. CASE UNCHANGED search
  BY <1>4 DEF SearchInv, search
<1>5. ASSUME NEW t \in Threads, Publish(t) \/ Reciprocal(t) \/ Overwrite(t)
      PROVE  UNCHANGED search
  BY <1>5 DEF Publish, Reciprocal, Overwrite
<1>6. ASSUME NEW node \in Points, CleanUp(node)
      PROVE  UNCHANGED search
  BY <1>6 DEF CleanUp, locals
<1>7. ASSUME Barrier \/ Finish \/ UNCHANGED vars
      PROVE  UNCHANGED search
  BY <1>7 DEF Barrier, Finish, vars, locals
<1> QED
  BY <1>1, <1>2, <1>3, <1>4, <1>5, <1>6, <1>7 DEF Next, Step, Done

\* A point that is isolated stays so until it is published: the search that
\* could find it would have to have met it in a list.
LEMMA IsolatedStep ==
    ASSUME TypeInv, SearchInv, [Next]_vars,
           NEW p \in Points \ EntryPoints, Isolated(p), ~ Published(p)'
    PROVE  Isolated(p)'
<1>0. /\ inserted \in [Threads -> SUBSET Points]
      /\ links \in [Threads -> Seq(Points)]
      /\ copied \in [Threads -> Seq(Points)]
      /\ pc \in [Threads -> {"next", "search", "reciprocal", "overwrite"}]
      /\ TypeInv'
      /\ Range(<< >>) = {}
  <2>1. Range(<< >>) = {}
    BY DEF Range
  <2> QED
    BY <2>1, TypeStep DEF TypeInv, TypeOK
<1>a. /\ outNbrs[p] = << >>
      /\ \A q \in Points : p \notin Range(outNbrs[q])
      /\ \A t \in Threads :
            /\ p \notin inserted[t]
            /\ p \notin Range(links[t])
            /\ p \notin Range(copied[t])
  BY DEF Isolated
<1>b. ASSUME /\ outNbrs'[p] = << >>
             /\ \A q \in Points : p \notin Range(outNbrs'[q])
             /\ \A t \in Threads :
                   /\ p \notin inserted'[t]
                   /\ p \notin Range(links'[t])
                   /\ p \notin Range(copied'[t])
      PROVE  Isolated(p)'
  BY <1>b DEF Isolated
<1>1. ASSUME NEW t \in Threads, BeginLocation(t)
      PROVE  Isolated(p)'
  <2>1. PICK q \in todo[t] : \E B \in Seeds(q) : inserted' = [inserted EXCEPT ![t] = B]
    BY <1>1 DEF BeginLocation
  <2>2. q \in Points
    BY DEF TypeInv, TypeOK
  <2>3. \A B \in Seeds(q) : p \notin B
    BY <2>2 DEF Seeds, EntryPoints
  <2>4. UNCHANGED <<outNbrs, links, copied>>
    BY <1>1 DEF BeginLocation
  <2> QED
    BY <1>0, <1>a, <1>b, <2>1, <2>3, <2>4
<1>2. ASSUME NEW t \in Threads, Expand(t)
      PROVE  Isolated(p)'
  <2>1. PICK n \in pool[t] :
            inserted' = [inserted EXCEPT
                ![t] = @ \cup {x \in Range(outNbrs[n]) \ inserted[t] : Accepts(loc[t], x)}]
    BY <1>2 DEF Expand
  <2>2. n \in Points
    BY DEF TypeInv, TypeOK
  <2>3. UNCHANGED <<outNbrs, links, copied>>
    BY <1>2 DEF Expand
  <2> QED
    BY <1>0, <1>a, <1>b, <2>1, <2>2, <2>3
<1>3. ASSUME NEW t \in Threads, Publish(t)
      PROVE  Isolated(p)'
  <2>1. /\ pc'[t] = "reciprocal" /\ loc'[t] = loc[t] /\ loc[t] \in Points
        /\ Range(links'[t]) \subseteq expanded[t]
        /\ \A u \in Threads : u # t => links'[u] = links[u]
        /\ \A q \in Points : q # loc[t] => outNbrs'[q] = outNbrs[q]
        /\ Range(outNbrs'[loc[t]]) = Range(outNbrs[loc[t]]) \cup Range(links'[t])
        /\ inserted' = inserted /\ copied' = copied
    BY <1>0, <1>3, PublishEffect
  <2>2. p # loc[t]
    <3>1. (TypeInv => HeldPublished)'
      BY HeldArePublished, PTL
    <3>2. (Published(loc[t]))'
      BY <1>0, <2>1, <3>1 DEF HeldPublished
    <3>3. p = loc[t] => Published(p)'
      BY <2>1, <3>2 DEF Published
    <3> QED
      BY <3>3
  <2>3. p \notin expanded[t]
    BY <1>a DEF SearchInv
  <2> QED
    BY <1>a, <1>b, <2>1, <2>2, <2>3
<1>4. ASSUME NEW t \in Threads, Reciprocal(t)
      PROVE  Isolated(p)'
  <2> DEFINE des == links[t][idx[t]]
  <2>1. /\ des \in Points /\ des \in Range(links[t])
        /\ \A q \in Points : q # des => outNbrs'[q] = outNbrs[q]
        /\ \/ outNbrs' = outNbrs
           \/ Range(outNbrs'[des]) = Range(outNbrs[des]) \cup {loc[t]}
        /\ \/ copied' = copied
           \/ /\ copied' = [copied EXCEPT ![t] = Append(outNbrs[des], loc[t])]
              /\ Range(copied'[t]) = Range(outNbrs[des]) \cup {loc[t]}
        /\ links' = links /\ inserted' = inserted /\ pc[t] = "reciprocal"
    BY <1>4, ReciprocalEffect
  <2> HIDE DEF des
  <2>2. p # des
    BY <1>a, <2>1
  <2>3. p # loc[t]
    <3>1. Published(loc[t])
      BY <2>1, HeldIsPublished
    <3> QED
      BY <3>1, PublishedStable
  <2>4. \A u \in Threads : p \notin Range(copied'[u])
    BY <1>0, <1>a, <2>1, <2>3
  <2>5. outNbrs'[p] = << >> /\ \A q \in Points : p \notin Range(outNbrs'[q])
    BY <1>a, <2>1, <2>2, <2>3
  <2> QED
    BY <1>a, <1>b, <2>1, <2>4, <2>5
<1>5. ASSUME NEW t \in Threads, Overwrite(t)
      PROVE  Isolated(p)'
  <2> DEFINE des == links[t][idx[t]]
  <2>1. /\ des \in Points /\ des \in Range(links[t])
        /\ \A q \in Points : q # des => outNbrs'[q] = outNbrs[q]
        /\ Range(outNbrs'[des]) \subseteq Range(copied[t])
        /\ copied' = [copied EXCEPT ![t] = << >>]
        /\ links' = links /\ inserted' = inserted
    BY <1>5, OverwriteEffect
  <2> HIDE DEF des
  <2>2. p # des
    BY <1>a, <2>1
  <2>3. outNbrs'[p] = << >> /\ \A q \in Points : p \notin Range(outNbrs'[q])
    BY <1>a, <2>1, <2>2
  <2>4. \A u \in Threads : p \notin Range(copied'[u])
    BY <1>0, <1>a, <2>1
  <2> QED
    BY <1>a, <1>b, <2>1, <2>3, <2>4
<1>6. ASSUME NEW t \in Threads, EndLocation(t)
      PROVE  Isolated(p)'
  BY <1>0, <1>a, <1>b, <1>6 DEF EndLocation
<1>7. ASSUME NEW node \in Points, CleanUp(node)
      PROVE  Isolated(p)'
  <2>1. /\ \A q \in Points : q # node => outNbrs'[q] = outNbrs[q]
        /\ \/ outNbrs' = outNbrs
           \/ /\ outNbrs[node] # << >>
              /\ Range(outNbrs'[node]) \subseteq Range(outNbrs[node])
        /\ UNCHANGED <<inserted, links, copied>>
    BY <1>7, CleanUpEffect
  <2> QED
    BY <1>a, <1>b, <2>1
<1>8. CASE Barrier \/ Finish \/ UNCHANGED vars
  BY <1>a, <1>b, <1>8 DEF Barrier, Finish, vars, locals, search
<1> QED
  BY <1>1, <1>2, <1>3, <1>4, <1>5, <1>6, <1>7, <1>8 DEF Next, Step, Done

IsoInv == SearchInv /\ UnpublishedIsolated

LEMMA IsoInit == Init => IsoInv
<1> SUFFICES ASSUME Init
             PROVE  IsoInv
  OBVIOUS
<1>1. Range(<< >>) = {}
  BY DEF Range
<1>2. SearchInv
  BY DEF Init, SearchInv
<1>3. \A p \in Points : Isolated(p)
  BY <1>1 DEF Init, Isolated
<1> QED
  BY <1>2, <1>3 DEF IsoInv, UnpublishedIsolated

LEMMA IsoStep == TypeInv /\ IsoInv /\ [Next]_vars => IsoInv'
<1> SUFFICES ASSUME TypeInv, IsoInv, [Next]_vars
             PROVE  IsoInv'
  OBVIOUS
<1>1. SearchInv /\ SearchInv'
  BY SearchStep DEF IsoInv
<1>2. ASSUME NEW p \in Points \ EntryPoints, ~ Published(p)'
      PROVE  Isolated(p)'
  <2>1. ~ Published(p)
    BY <1>2, PublishedStable
  <2>2. Isolated(p)
    BY <2>1 DEF IsoInv, UnpublishedIsolated
  <2> QED
    BY <1>1, <1>2, <2>2, IsolatedStep
<1> QED
  BY <1>1, <1>2 DEF IsoInv, UnpublishedIsolated, EntryPoints

\* A location that is no entry point is isolated until it appends its links.
THEOREM Isolation == Spec => []UnpublishedIsolated
<1>1. Spec => [](TypeInv /\ IsoInv)
  BY TypeInit, TypeStep, IsoInit, IsoStep, PTL DEF Spec
<1>2. IsoInv => UnpublishedIsolated
  BY DEF IsoInv
<1> QED
  BY <1>1, <1>2, PTL

----------------------------------------------------------------------------
(* The lists that a step leaves alone.                                     *)

LEMMA ListsUnchanged ==
    ASSUME NEW t \in Threads,
           \/ BeginLocation(t) \/ Expand(t) \/ EndLocation(t)
           \/ Barrier \/ Finish \/ UNCHANGED vars
    PROVE  outNbrs' = outNbrs
BY DEF BeginLocation, Expand, EndLocation, Barrier, Finish, vars

\* Only the append of its links publishes a location.
LEMMA PublishedOnly ==
    ASSUME TypeInv, [Next]_vars, NEW p \in Points, Published(p)', ~ Published(p)
    PROVE  \E t \in Threads : /\ Publish(t) /\ loc[t] = p
                              /\ pc[t] = "search" /\ pc'[t] = "reciprocal"
<1> SUFFICES ASSUME \A t \in Threads : Publish(t) => loc[t] # p
             PROVE  FALSE
  <2>1. ASSUME NEW t \in Threads, Publish(t)
        PROVE  pc[t] = "search" /\ pc'[t] = "reciprocal"
    BY <2>1 DEF Publish, TypeInv, TypeOK
  <2> QED
    BY <2>1
<1>0. /\ todo \in [Threads -> SUBSET Points]
      /\ pc \in [Threads -> {"next", "search", "reciprocal", "overwrite"}]
      /\ loc \in [Threads -> Points \cup {None}]
      /\ p # None
  BY DEF TypeInv, TypeOK
<1>1. PICK u \in Threads : p \in todo[u] \/ (loc[u] = p /\ pc[u] = "search")
  BY DEF Published
<1>2. p \notin todo'[u] /\ ~ (loc'[u] = p /\ pc'[u] = "search")
  BY DEF Published
<1>3. ASSUME NEW t \in Threads, BeginLocation(t)
      PROVE  FALSE
  <2>1. PICK q \in todo[t] : /\ todo' = [todo EXCEPT ![t] = @ \ {q}]
                             /\ loc' = [loc EXCEPT ![t] = q]
    BY <1>3 DEF BeginLocation
  <2>2. pc[t] = "next" /\ pc' = [pc EXCEPT ![t] = "search"]
    BY <1>3 DEF BeginLocation
  <2> QED
    BY <1>0, <1>1, <1>2, <2>1, <2>2
<1>4. ASSUME NEW t \in Threads, Publish(t)
      PROVE  FALSE
  <2>1. /\ loc' = loc /\ todo' = todo /\ loc[t] # p
        /\ pc' = [pc EXCEPT ![t] = "reciprocal"]
    BY <1>4 DEF Publish
  <2> QED
    BY <1>0, <1>1, <1>2, <2>1
<1>5. ASSUME NEW t \in Threads, Expand(t) \/ Reciprocal(t)
      PROVE  FALSE
  BY <1>0, <1>1, <1>2, <1>5 DEF Expand, Reciprocal
<1>6. ASSUME NEW t \in Threads, Overwrite(t) \/ EndLocation(t)
      PROVE  FALSE
  BY <1>0, <1>1, <1>2, <1>6 DEF Overwrite, EndLocation
<1>7. ASSUME NEW node \in Points, CleanUp(node)
      PROVE  FALSE
  BY <1>1, <1>2, <1>7 DEF CleanUp, locals
<1>8. CASE Barrier \/ Finish \/ UNCHANGED vars
  BY <1>1, <1>2, <1>8 DEF Barrier, Finish, vars, locals
<1> QED
  BY <1>3, <1>4, <1>5, <1>6, <1>7, <1>8 DEF Next, Step, Done

----------------------------------------------------------------------------
(* The slack.  Whoever adds one edge has just seen the list below it; the  *)
(* append of R edges finds an empty list unless the location is an entry.  *)

\* The bound on the list of one point.
Within(p) ==
    10 * Len(outNbrs[p]) <
        13 * R + 10 + (IF p \in EntryPoints /\ Published(p) THEN 10 * R ELSE 0)

LEMMA SlackStep ==
    ASSUME TypeInv, IsoInv, [Next]_vars, NEW p \in Points, Within(p)
    PROVE  Within(p)'
<1>0. /\ R \in Nat \ {0} /\ Len(outNbrs[p]) \in Nat
      /\ EntryPoints' = EntryPoints
  <2>1. outNbrs[p] \in Seq(Points)
    BY DEF TypeInv, TypeOK
  <2> QED
    BY <2>1, RangeFacts, SizeAssumption DEF EntryPoints
<1>1. Published(p) => Published(p)'
  BY PublishedStable
<1>2. ASSUME outNbrs'[p] = outNbrs[p]
      PROVE  Within(p)'
  BY <1>0, <1>1, <1>2 DEF Within
<1>3. ASSUME Len(outNbrs'[p]) \in Nat, Len(outNbrs'[p]) <= R
      PROVE  Within(p)'
  BY <1>0, <1>3 DEF Within
<1>4. ASSUME NEW t \in Threads, Publish(t)
      PROVE  Within(p)'
  <2>1. CASE p # loc[t]
    BY <1>2, <1>4, <2>1, PublishEffect
  <2>2. CASE p = loc[t]
    <3>1. /\ Len(outNbrs'[p]) = Len(outNbrs[p]) + Len(links'[t])
          /\ Len(links'[t]) \in Nat /\ Len(links'[t]) <= R
          /\ pc[t] = "search"
      BY <1>4, <2>2, PublishEffect
    <3>2. ~ Published(p)
      BY <2>2, <3>1 DEF Published
    <3>3. CASE p \in EntryPoints
      <4>1. 10 * Len(outNbrs[p]) < 13 * R + 10
        BY <1>0, <3>2 DEF Within
      <4>2. Published(p)'
        <5>1. TypeInv'
          BY TypeStep
        <5>2. (TypeInv => HeldPublished)'
          BY HeldArePublished, PTL
        <5>3. pc'[t] = "reciprocal" /\ loc'[t] = p
          <6>1. pc' = [pc EXCEPT ![t] = "reciprocal"] /\ loc' = loc
            BY <1>4, PublishEffect
          <6> QED
            BY <2>2, <6>1 DEF TypeInv, TypeOK
        <5>4. (Published(loc[t]))'
          BY <5>1, <5>2, <5>3 DEF HeldPublished
        <5> QED
          BY <5>3, <5>4 DEF Published
      <4>3. 10 * Len(outNbrs'[p]) < 13 * R + 10 + 10 * R
        <5>1. \A a, b \in Nat :
                 10 * a < 13 * R + 10 /\ b <= R => 10 * (a + b) < 13 * R + 10 + 10 * R
          BY SizeAssumption
        <5>2. 10 * (Len(outNbrs[p]) + Len(links'[t])) < 13 * R + 10 + 10 * R
          BY <1>0, <3>1, <4>1, <5>1
        <5> QED
          BY <3>1, <5>2
      <4>4. p \in EntryPoints' /\ Published(p)'
        BY <1>0, <3>3, <4>2
      <4> QED
        BY <4>3, <4>4 DEF Within
    <3>4. CASE p \notin EntryPoints
      <4>1. outNbrs[p] = << >>
        BY <3>2, <3>4 DEF IsoInv, UnpublishedIsolated, Isolated
      <4>2. Len(outNbrs[p]) = 0
        BY <4>1
      <4> QED
        BY <1>3, <3>1, <4>2
    <3> QED
      BY <3>3, <3>4
  <2> QED
    BY <2>1, <2>2
<1>5. ASSUME NEW t \in Threads, Reciprocal(t)
      PROVE  Within(p)'
  <2>1. CASE outNbrs'[p] = outNbrs[p]
    BY <1>2, <2>1
  <2>2. CASE outNbrs'[p] # outNbrs[p]
    <3>1. BelowSlack(outNbrs[p]) /\ Len(outNbrs'[p]) = Len(outNbrs[p]) + 1
      BY <1>5, <2>2, ReciprocalEffect
    <3> QED
      BY <1>0, <3>1 DEF Within, BelowSlack
  <2> QED
    BY <2>1, <2>2
<1>6. ASSUME NEW t \in Threads, Overwrite(t)
      PROVE  Within(p)'
  BY <1>2, <1>3, <1>6, OverwriteEffect
<1>7. ASSUME NEW node \in Points, CleanUp(node)
      PROVE  Within(p)'
  BY <1>2, <1>3, <1>7, CleanUpEffect
<1>8. CASE outNbrs' = outNbrs
  BY <1>2, <1>8
<1>9. \E t \in Threads : TRUE
  BY SizeAssumption
<1> QED
  BY <1>4, <1>5, <1>6, <1>7, <1>8, <1>9, ListsUnchanged DEF Next, Step, Done

\* No list outgrows the slack by more than an edge, or R edges at an entry.
THEOREM Slack == Spec => []SlackBound
<1>1. Init => SlackBound
  <2>1. EntryPoints = EntryPoints /\ Len(<< >>) = 0 /\ R \in Nat \ {0}
    BY SizeAssumption
  <2> QED
    BY <2>1 DEF Init, SlackBound
<1>2. TypeInv /\ IsoInv /\ SlackBound /\ [Next]_vars => SlackBound'
  <2>1. SlackBound <=> \A p \in Points : Within(p)
    BY DEF SlackBound, Within
  <2>2. SlackBound' <=> \A p \in Points : Within(p)'
    BY DEF SlackBound, Within
  <2> QED
    BY <2>1, <2>2, SlackStep
<1> QED
  BY <1>1, <1>2, TypeInit, TypeStep, IsoInit, IsoStep, PTL DEF Spec

----------------------------------------------------------------------------
(* Distinctness.                                                           *)

\* The list of one point repeats no edge.
Distinct(p) == \A i, j \in 1..Len(outNbrs[p]) : outNbrs[p][i] = outNbrs[p][j] => i = j

LEMMA DistinctStep ==
    ASSUME TypeInv, IsoInv, [Next]_vars, NEW p \in Points \ EntryPoints, Distinct(p)
    PROVE  Distinct(p)'
<1>0. outNbrs[p] \in Seq(Points)
  BY DEF TypeInv, TypeOK
<1>1. ASSUME outNbrs'[p] = outNbrs[p]
      PROVE  Distinct(p)'
  BY <1>1 DEF Distinct
<1>2. ASSUME \A i, j \in 1..Len(outNbrs'[p]) : outNbrs'[p][i] = outNbrs'[p][j] => i = j
      PROVE  Distinct(p)'
  BY <1>2 DEF Distinct
<1>3. ASSUME NEW t \in Threads, Publish(t)
      PROVE  Distinct(p)'
  <2>1. CASE p # loc[t]
    BY <1>1, <1>3, <2>1, PublishEffect
  <2>2. CASE p = loc[t]
    <3>1. /\ outNbrs'[p] = outNbrs[p] \o links'[t]
          /\ \A i, j \in 1..Len(links'[t]) : links'[t][i] = links'[t][j] => i = j
          /\ pc[t] = "search"
      BY <1>3, <2>2, PublishEffect
    <3>2. outNbrs[p] = << >>
      BY <2>2, <3>1 DEF IsoInv, UnpublishedIsolated, Isolated, Published
    <3>3. links'[t] \in Seq(Points)
      BY TypeStep DEF TypeInv, TypeOK
    <3>4. << >> \o links'[t] = links'[t]
      BY <3>3, ConcatEmptySeq
    <3>5. outNbrs'[p] = links'[t]
      BY <3>1, <3>2, <3>4
    <3> QED
      BY <1>2, <3>1, <3>5
  <2> QED
    BY <2>1, <2>2
<1>4. ASSUME NEW t \in Threads, Reciprocal(t)
      PROVE  Distinct(p)'
  <2>1. CASE outNbrs'[p] = outNbrs[p]
    BY <1>1, <2>1
  <2>2. CASE outNbrs'[p] # outNbrs[p]
    <3>1. /\ loc[t] \notin Range(outNbrs[p])
          /\ outNbrs'[p] = Append(outNbrs[p], loc[t])
          /\ loc[t] \in Points
      BY <1>4, <2>2, ReciprocalEffect
    <3>2. \A i \in 1..Len(outNbrs[p]) : outNbrs[p][i] # loc[t]
      <4>1. Range(outNbrs[p]) = {outNbrs[p][i] : i \in 1..Len(outNbrs[p])}
        BY <1>0, RangeEquality
      <4> QED
        BY <3>1, <4>1
    <3>3. /\ Len(Append(outNbrs[p], loc[t])) = Len(outNbrs[p]) + 1
          /\ \A i \in 1..Len(outNbrs[p]) :
                Append(outNbrs[p], loc[t])[i] = outNbrs[p][i]
          /\ Append(outNbrs[p], loc[t])[Len(outNbrs[p]) + 1] = loc[t]
          /\ Len(outNbrs[p]) \in Nat
      BY <1>0, <3>1, AppendProperties, LenProperties
    <3> QED
      BY <1>2, <3>1, <3>2, <3>3 DEF Distinct
  <2> QED
    BY <2>1, <2>2
<1>5. ASSUME NEW t \in Threads, Overwrite(t)
      PROVE  Distinct(p)'
  BY <1>1, <1>2, <1>5, OverwriteEffect
<1>6. ASSUME NEW node \in Points, CleanUp(node)
      PROVE  Distinct(p)'
  BY <1>1, <1>2, <1>6, CleanUpEffect
<1>7. CASE outNbrs' = outNbrs
  BY <1>1, <1>7
<1>8. \E t \in Threads : TRUE
  BY SizeAssumption
<1> QED
  BY <1>3, <1>4, <1>5, <1>6, <1>7, <1>8, ListsUnchanged DEF Next, Step, Done

\* Only the list of an entry point may repeat an edge.
THEOREM Distinctness == Spec => []DistinctUnlessEntry
<1>1. Init => DistinctUnlessEntry
  <2>1. Len(<< >>) = 0
    OBVIOUS
  <2> QED
    BY <2>1 DEF Init, DistinctUnlessEntry
<1>2. TypeInv /\ IsoInv /\ DistinctUnlessEntry /\ [Next]_vars => DistinctUnlessEntry'
  <2>1. DistinctUnlessEntry <=> \A p \in Points \ EntryPoints : Distinct(p)
    BY DEF DistinctUnlessEntry, Distinct
  <2>2. DistinctUnlessEntry' <=> \A p \in Points \ EntryPoints : Distinct(p)'
    BY DEF DistinctUnlessEntry, Distinct, EntryPoints
  <2> QED
    BY <2>1, <2>2, DistinctStep
<1> QED
  BY <1>1, <1>2, TypeInit, TypeStep, IsoInit, IsoStep, PTL DEF Spec

----------------------------------------------------------------------------
(* Connectivity.  A search that could start elsewhere holds, and so in the *)
(* end has expanded, a point other than its location.                      *)

Elsewhere(t) == (pool[t] \cup expanded[t]) \ {loc[t]} # {}

\* A location that had somewhere else to start keeps an out-edge.
KeepsEdge == \A p \in Points : Published(p) /\ ~ Lone(p) => outNbrs[p] # << >>

StrandInv ==
    /\ KeepsEdge
    /\ \A t \in Threads : pc[t] = "search" =>
          /\ Cardinality(pool[t]) <= L
          /\ ~ Lone(loc[t]) => Elsewhere(t)

\* A pool that holds two points before the merge does not shrink to one.
LEMMA ClosestKeepsTwo ==
    ASSUME NEW p \in Points, NEW P \in SUBSET Points, NEW S \in SUBSET Points,
           P \subseteq S, Cardinality(P) <= L,
           NEW x \in P, NEW y \in P, x # y,
           NEW B \in Closest(p, S)
    PROVE  ~ (B \subseteq {x})
<1>1. /\ IsFiniteSet(Points)
      /\ IsFiniteSet(S) /\ IsFiniteSet(P) /\ IsFiniteSet(B)
  <2>1. IsFiniteSet(Points)
    BY FS_Interval, SizeAssumption
  <2> QED
    BY <2>1, FS_Subset DEF Closest
<1>2. Cardinality({x, y}) = 2
  <2>1. IsFiniteSet({x}) /\ Cardinality({x}) = 1
    BY FS_Singleton
  <2>2. Cardinality({x} \cup {y}) = 2
    <3>1. Cardinality({x} \cup {y}) = Cardinality({x}) + 1
      BY <2>1, FS_AddElement
    <3> QED
      BY <2>1, <3>1
  <2>3. {x, y} = {x} \cup {y}
    OBVIOUS
  <2> QED
    BY <2>2, <2>3
<1>3. Cardinality({x, y}) <= Cardinality(P) /\ Cardinality(P) <= Cardinality(S)
  BY <1>1, FS_Subset
<1>4. /\ Cardinality(S) \in Nat /\ Cardinality(P) \in Nat /\ Cardinality(B) \in Nat
      /\ L \in Nat
  BY <1>1, FS_CardinalityType, SizeAssumption
<1>5. Cardinality(B) = IF Cardinality(S) < L THEN Cardinality(S) ELSE L
  BY DEF Closest
<1>6. Cardinality(B) >= 2
  BY <1>2, <1>3, <1>4, <1>5
<1>7. B \subseteq {x} => Cardinality(B) <= 1
  <2>1. IsFiniteSet({x}) /\ Cardinality({x}) = 1
    BY FS_Singleton
  <2> QED
    BY <2>1, FS_Subset
<1> QED
  BY <1>4, <1>6, <1>7

\* No pool is longer than Lsize.
LEMMA PoolSizes ==
    ASSUME NEW p \in Points
    PROVE  /\ \A B \in Seeds(p) : Cardinality(B) <= L
           /\ \A S \in SUBSET Points : \A B \in Closest(p, S) : Cardinality(B) <= L
<1>1. \A S \in SUBSET Points : Cardinality(S) \in Nat
  <2>1. IsFiniteSet(Points)
    BY FS_Interval, SizeAssumption
  <2> QED
    BY <2>1, FS_Subset, FS_CardinalityType
<1>2. Entries[p] \in SUBSET Points /\ L \in Nat
  BY DataAssumption, SizeAssumption
<1>3. \A k \in Nat : (IF k < L THEN k ELSE L) <= L
  BY <1>2
<1> QED
  BY <1>1, <1>2, <1>3 DEF Seeds, Closest

LEMMA StrandedStep ==
    ASSUME TypeInv, EdgeInv, StrandInv, [Next]_vars,
           NEW p \in Points, Published(p)', ~ Lone(p)
    PROVE  outNbrs'[p] # << >>
<1>1. Published(p) => outNbrs[p] # << >>
  BY DEF StrandInv, KeepsEdge
<1>2. ~ Published(p) => \E t \in Threads :
          Publish(t) /\ loc[t] = p /\ pc[t] = "search" /\ pc'[t] = "reciprocal"
  BY PublishedOnly
<1>9. pc \in [Threads -> {"next", "search", "reciprocal", "overwrite"}]
  BY DEF TypeInv, TypeOK
<1>3. ASSUME NEW t \in Threads, Publish(t)
      PROVE  outNbrs'[p] # << >>
  <2>1. CASE p # loc[t]
    <3>1. Published(p)
      <4>1. loc = loc' /\ todo' = todo /\ pc' = [pc EXCEPT ![t] = "reciprocal"]
        BY <1>3, PublishEffect
      <4> QED
        BY <2>1, <4>1 DEF Published, TypeInv, TypeOK
    <3>2. outNbrs'[p] = outNbrs[p]
      BY <1>3, <2>1, PublishEffect
    <3> QED
      BY <1>1, <3>1, <3>2
  <2>2. CASE p = loc[t]
    <3>1. /\ pc[t] = "search" /\ pool[t] \subseteq expanded[t]
          /\ expanded[t] \ {p} # {} => links'[t] # << >>
          /\ Len(outNbrs'[p]) = Len(outNbrs[p]) + Len(links'[t])
      BY <1>3, <2>2, PublishEffect
    <3>2. expanded[t] \ {p} # {}
      BY <2>2, <3>1 DEF StrandInv, Elsewhere
    <3>3. links'[t] \in Seq(Points) /\ outNbrs[p] \in Seq(Points)
      BY TypeStep DEF TypeInv, TypeOK
    <3>4. Len(links'[t]) \in Nat \ {0} /\ Len(outNbrs[p]) \in Nat
      BY <3>1, <3>2, <3>3, EmptySeq, LenProperties
    <3>a. \A a \in Nat : \A b \in Nat \ {0} : a + b # 0
      OBVIOUS
    <3>5. Len(outNbrs'[p]) # 0
      BY <3>1, <3>4, <3>a
    <3> QED
      BY <3>5, EmptySeq
  <2> QED
    BY <2>1, <2>2
<1>4. ASSUME NEW t \in Threads, Reciprocal(t)
      PROVE  outNbrs'[p] # << >>
  <2>1. Published(p)
    <3>1. pc[t] = "reciprocal" /\ \A u \in Threads : u # t => pc'[u] = pc[u]
      BY <1>4, <1>9, ReciprocalEffect
    <3> QED
      BY <1>2, <3>1
  <2>2. CASE outNbrs'[p] = outNbrs[p]
    BY <1>1, <2>1, <2>2
  <2>3. CASE outNbrs'[p] # outNbrs[p]
    <3>1. /\ Len(outNbrs'[p]) = Len(outNbrs[p]) + 1
          /\ Len(outNbrs[p]) \in Nat
      BY <1>4, <2>3, ReciprocalEffect
    <3>2. Len(outNbrs'[p]) # 0
      BY <3>1
    <3> QED
      BY <3>2, EmptySeq
  <2> QED
    BY <2>2, <2>3
<1>5. ASSUME NEW t \in Threads, Overwrite(t)
      PROVE  outNbrs'[p] # << >>
  <2> DEFINE des == links[t][idx[t]]
  <2>1. /\ des \in Range(links[t])
        /\ \A q \in Points : q # des => outNbrs'[q] = outNbrs[q]
        /\ Range(copied[t]) \ {des} # {} => outNbrs'[des] # << >>
        /\ pc[t] = "overwrite"
    BY <1>5, OverwriteEffect
  <2> HIDE DEF des
  <2>2. loc[t] \in Range(copied[t]) /\ loc[t] # des
    BY <2>1 DEF EdgeInv
  <2>3. Published(p)
    <3>1. \A u \in Threads : u # t => pc'[u] = pc[u]
      BY <1>5, <1>9 DEF Overwrite
    <3> QED
      BY <1>2, <2>1, <3>1
  <2> QED
    BY <1>1, <2>1, <2>2, <2>3
<1>6. ASSUME NEW node \in Points, CleanUp(node)
      PROVE  outNbrs'[p] # << >>
  <2>1. /\ \A q \in Points : q # node => outNbrs'[q] = outNbrs[q]
        /\ \/ outNbrs' = outNbrs
           \/ /\ Range(outNbrs[node]) # {}
              /\ Range(outNbrs[node]) \ {node} # {} => outNbrs'[node] # << >>
        /\ UNCHANGED <<todo, pc, loc>>
    BY <1>6, CleanUpEffect
  <2>2. Published(p)
    BY <2>1 DEF Published
  <2>3. node \notin Range(outNbrs[node])
    BY DEF EdgeInv, NoSelfLoops
  <2> QED
    BY <1>1, <2>1, <2>2, <2>3
<1>7. ASSUME NEW t \in Threads, BeginLocation(t) \/ Expand(t) \/ EndLocation(t)
      PROVE  outNbrs'[p] # << >>
  <2>1. Published(p)
    <3>1. \A u \in Threads : pc[u] = "search" => pc'[u] # "reciprocal"
      BY <1>7, <1>9 DEF BeginLocation, Expand, EndLocation
    <3> QED
      BY <1>2, <3>1
  <2> QED
    BY <1>1, <1>7, <2>1, ListsUnchanged
<1>8. CASE Barrier \/ Finish \/ UNCHANGED vars
  <2>1. outNbrs' = outNbrs /\ Published(p)
    BY <1>8 DEF Barrier, Finish, vars, locals, Published
  <2> QED
    BY <1>1, <2>1
<1> QED
  BY <1>3, <1>4, <1>5, <1>6, <1>7, <1>8 DEF Next, Step, Done

LEMMA StrandStep == TypeInv /\ EdgeInv /\ StrandInv /\ [Next]_vars => StrandInv'
<1> SUFFICES ASSUME TypeInv, EdgeInv, StrandInv, [Next]_vars
             PROVE  StrandInv'
  OBVIOUS
<1>0. /\ pool \in [Threads -> SUBSET Points]
      /\ expanded \in [Threads -> SUBSET Points]
      /\ pc \in [Threads -> {"next", "search", "reciprocal", "overwrite"}]
      /\ loc \in [Threads -> Points \cup {None}]
  BY DEF TypeInv, TypeOK
<1>1. KeepsEdge'
  <2>1. \A p \in Points : Published(p)' /\ ~ Lone(p) => outNbrs'[p] # << >>
    BY StrandedStep
  <2>2. \A p \in Points : Lone(p)' <=> Lone(p)
    BY DEF Lone, Seeds
  <2> QED
    BY <2>1, <2>2 DEF KeepsEdge
<1>2. ASSUME \A t \in Threads : pc'[t] = "search" =>
                /\ Cardinality(pool'[t]) <= L
                /\ ~ Lone(loc'[t]) => (pool'[t] \cup expanded'[t]) \ {loc'[t]} # {}
      PROVE  StrandInv'
  <2>1. \A p : Lone(p)' <=> Lone(p)
    BY DEF Lone, Seeds
  <2> QED
    BY <1>1, <1>2, <2>1 DEF StrandInv, Elsewhere
<1>a. \A t \in Threads : pc[t] = "search" =>
          /\ Cardinality(pool[t]) <= L
          /\ ~ Lone(loc[t]) => (pool[t] \cup expanded[t]) \ {loc[t]} # {}
  BY DEF StrandInv, Elsewhere
<1>3. ASSUME NEW t \in Threads, BeginLocation(t)
      PROVE  StrandInv'
  <2>1. PICK p \in todo[t] : /\ loc' = [loc EXCEPT ![t] = p]
                             /\ \E B \in Seeds(p) : pool' = [pool EXCEPT ![t] = B]
    BY <1>3 DEF BeginLocation
  <2>2. p \in Points
    BY DEF TypeInv, TypeOK
  <2>3. PICK B \in Seeds(p) : pool' = [pool EXCEPT ![t] = B]
    BY <2>1
  <2>4. Cardinality(B) <= L
    BY <2>2, PoolSizes
  <2>5. ~ Lone(p) => B \ {p} # {}
    BY DEF Lone
  <2>6. /\ pc' = [pc EXCEPT ![t] = "search"]
        /\ expanded' = [expanded EXCEPT ![t] = {}]
    BY <1>3 DEF BeginLocation
  <2>7. ASSUME NEW u \in Threads, pc'[u] = "search"
        PROVE  /\ Cardinality(pool'[u]) <= L
               /\ ~ Lone(loc'[u]) => (pool'[u] \cup expanded'[u]) \ {loc'[u]} # {}
    <3>1. CASE u = t
      BY <1>0, <2>1, <2>3, <2>4, <2>5, <2>6, <3>1
    <3>2. CASE u # t
      BY <1>0, <1>a, <2>1, <2>3, <2>6, <2>7, <3>2
    <3> QED
      BY <3>1, <3>2
  <2> QED
    BY <1>2, <2>7
<1>4. ASSUME NEW t \in Threads, Expand(t)
      PROVE  StrandInv'
  <2>1. PICK n \in pool[t] \ expanded[t] :
            /\ expanded' = [expanded EXCEPT ![t] = @ \cup {n}]
            /\ LET new == {x \in Range(outNbrs[n]) \ inserted[t] : Accepts(loc[t], x)}
               IN  \E B \in Closest(loc[t], pool[t] \cup new) :
                       pool' = [pool EXCEPT ![t] = B]
    BY <1>4 DEF Expand
  <2> DEFINE new == {x \in Range(outNbrs[n]) \ inserted[t] : Accepts(loc[t], x)}
  <2>2. /\ n \in Points /\ loc[t] \in Points /\ new \in SUBSET Points
        /\ pool[t] \in SUBSET Points /\ pc[t] = "search"
    <3>1. n \in Points /\ pc[t] = "search"
      BY <1>0, <1>4 DEF Expand
    <3>2. loc[t] \in Points
      BY <3>1 DEF TypeInv, Control, Owned
    <3>3. outNbrs[n] \in Seq(Points)
      BY <3>1 DEF TypeInv, TypeOK
    <3> QED
      BY <1>0, <3>1, <3>2, <3>3, RangeOfSeq
  <2> HIDE DEF new
  <2>3. PICK B \in Closest(loc[t], pool[t] \cup new) : pool' = [pool EXCEPT ![t] = B]
    BY <2>1 DEF new
  <2>4. Cardinality(B) <= L
    BY <2>2, PoolSizes
  <2>5. /\ expanded' = [expanded EXCEPT ![t] = @ \cup {n}]
        /\ pc' = pc /\ loc' = loc
    BY <1>4, <2>1 DEF Expand
  <2>6. ~ Lone(loc[t]) => (B \cup expanded[t] \cup {n}) \ {loc[t]} # {}
    <3> SUFFICES ASSUME ~ Lone(loc[t]), n = loc[t], expanded[t] \subseteq {loc[t]}
                 PROVE  ~ (B \subseteq {loc[t]})
      OBVIOUS
    <3>1. PICK y \in pool[t] : y # n
      BY <1>a, <2>2
    <3>2. Cardinality(pool[t]) <= L
      BY <1>a, <2>2
    <3> QED
      BY <2>2, <3>1, <3>2, ClosestKeepsTwo
  <2>7. ASSUME NEW u \in Threads, pc'[u] = "search"
        PROVE  /\ Cardinality(pool'[u]) <= L
               /\ ~ Lone(loc'[u]) => (pool'[u] \cup expanded'[u]) \ {loc'[u]} # {}
    <3>1. CASE u = t
      BY <1>0, <2>3, <2>4, <2>5, <2>6, <3>1
    <3>2. CASE u # t
      BY <1>0, <1>a, <2>3, <2>5, <2>7, <3>2
    <3> QED
      BY <3>1, <3>2
  <2> QED
    BY <1>2, <2>7
<1>5. ASSUME NEW t \in Threads, EndLocation(t)
      PROVE  StrandInv'
  BY <1>0, <1>2, <1>a, <1>5 DEF EndLocation
<1>6. ASSUME NEW t \in Threads, Publish(t) \/ Reciprocal(t) \/ Overwrite(t)
      PROVE  StrandInv'
  <2>1. UNCHANGED <<pool, expanded, loc>> /\ \A u \in Threads : pc'[u] = "search" => pc[u] = "search"
    BY <1>0, <1>6 DEF Publish, Reciprocal, Overwrite, search
  <2> QED
    BY <1>2, <1>a, <2>1
<1>7. ASSUME NEW node \in Points, CleanUp(node)
      PROVE  StrandInv'
  BY <1>2, <1>a, <1>7 DEF CleanUp, locals, search
<1>8. CASE Barrier \/ Finish \/ UNCHANGED vars
  BY <1>2, <1>a, <1>8 DEF Barrier, Finish, vars, locals, search
<1> QED
  BY <1>3, <1>4, <1>5, <1>6, <1>7, <1>8 DEF Next, Step, Done

\* No list that has an edge loses its last one.
LEMMA EdgesStay ==
    ASSUME TypeInv, EdgeInv, [Next]_vars, NEW p \in Points, outNbrs'[p] = << >>
    PROVE  outNbrs[p] = << >>
<1>1. ASSUME NEW t \in Threads, Publish(t)
      PROVE  outNbrs[p] = << >>
  <2>1. /\ p # loc[t] => outNbrs'[p] = outNbrs[p]
        /\ p = loc[t] => Len(outNbrs'[p]) = Len(outNbrs[p]) + Len(links'[t])
        /\ Len(links'[t]) \in Nat
    BY <1>1, PublishEffect
  <2>2. outNbrs[p] \in Seq(Points) /\ Len(outNbrs'[p]) = 0
    BY EmptySeq DEF TypeInv, TypeOK
  <2>3. Len(outNbrs[p]) \in Nat
    BY <2>2, LenProperties
  <2>a. \A a, b \in Nat : 0 = a + b => a = 0
    OBVIOUS
  <2>4. p = loc[t] => Len(outNbrs[p]) = 0
    BY <2>1, <2>2, <2>3, <2>a
  <2> QED
    BY <2>1, <2>2, <2>4, EmptySeq
<1>2. ASSUME NEW t \in Threads, Reciprocal(t)
      PROVE  outNbrs[p] = << >>
  <2>1. CASE outNbrs'[p] = outNbrs[p]
    BY <2>1
  <2>2. CASE outNbrs'[p] # outNbrs[p]
    <3>1. Len(outNbrs'[p]) = Len(outNbrs[p]) + 1 /\ Len(outNbrs[p]) \in Nat
      BY <1>2, <2>2, ReciprocalEffect
    <3>2. Len(outNbrs'[p]) # 0
      BY <3>1
    <3> QED
      BY <3>2, EmptySeq
  <2> QED
    BY <2>1, <2>2
<1>3. ASSUME NEW t \in Threads, Overwrite(t)
      PROVE  outNbrs[p] = << >>
  <2> DEFINE des == links[t][idx[t]]
  <2>1. /\ des \in Range(links[t])
        /\ \A q \in Points : q # des => outNbrs'[q] = outNbrs[q]
        /\ Range(copied[t]) \ {des} # {} => outNbrs'[des] # << >>
        /\ pc[t] = "overwrite"
    BY <1>3, OverwriteEffect
  <2> HIDE DEF des
  <2>2. loc[t] \in Range(copied[t]) /\ loc[t] # des
    BY <2>1 DEF EdgeInv
  <2> QED
    BY <2>1, <2>2
<1>4. ASSUME NEW node \in Points, CleanUp(node)
      PROVE  outNbrs[p] = << >>
  <2>1. /\ \A q \in Points : q # node => outNbrs'[q] = outNbrs[q]
        /\ \/ outNbrs' = outNbrs
           \/ /\ Range(outNbrs[node]) # {}
              /\ Range(outNbrs[node]) \ {node} # {} => outNbrs'[node] # << >>
    BY <1>4, CleanUpEffect
  <2>2. node \notin Range(outNbrs[node])
    BY DEF EdgeInv, NoSelfLoops
  <2> QED
    BY <2>1, <2>2
<1>5. ASSUME NEW t \in Threads, BeginLocation(t) \/ Expand(t) \/ EndLocation(t)
      PROVE  outNbrs[p] = << >>
  BY <1>5, ListsUnchanged
<1>6. CASE Barrier \/ Finish \/ UNCHANGED vars
  BY <1>6 DEF Barrier, Finish, vars
<1> QED
  BY <1>1, <1>2, <1>3, <1>4, <1>5, <1>6 DEF Next, Step, Done

\* A location whose search starts at p alone finds no point but p while p has no
\* edge, links itself to p, and so gives it one.
AtEmpty(p, t) ==
    /\ pc[t] # "overwrite"
    /\ pc[t] = "search" => pool[t] = {p} /\ expanded[t] \subseteq {p}
    /\ pc[t] = "reciprocal" => idx[t] = 1 /\ links[t] = <<p>>

IdleHasNone == \A t \in Threads : pc[t] = "next" => loc[t] = None

HookInv ==
    \A p \in Points : outNbrs[p] = << >> =>
        \A q \in Points \ {p} : Entries[q] = {p} =>
            /\ ~ Processed(q)
            /\ \A t \in Threads : loc[t] = q => AtEmpty(p, t)

\* The best of one candidate, and the start of a search with one entry.
LEMMA OneCandidate ==
    ASSUME NEW q \in Points, NEW p \in Points
    PROVE  /\ \A B \in Closest(q, {p}) : B = {p}
           /\ Entries[q] = {p} => \A B \in Seeds(q) : B = {p}
<1>1. Cardinality({p}) = 1 /\ Cardinality({}) = 0
  BY FS_Singleton, FS_EmptySet
<1>2. (IF 1 < L THEN 1 ELSE L) # 0
  BY SizeAssumption
<1>3. \A B \in SUBSET {p} : B = {} \/ B = {p}
  OBVIOUS
<1>4. \A B \in SUBSET {p} :
          Cardinality(B) = (IF Cardinality({p}) < L THEN Cardinality({p}) ELSE L) => B = {p}
  <2> DEFINE k == IF Cardinality({p}) < L THEN Cardinality({p}) ELSE L
  <2>1. k # 0
    BY <1>1, <1>2
  <2> HIDE DEF k
  <2>2. \A B \in SUBSET {p} : Cardinality(B) = k => B = {p}
    BY <1>1, <1>3, <2>1
  <2> QED
    BY <2>2 DEF k
<1> QED
  BY <1>4 DEF Closest, Seeds

LEMMA IdleStep == TypeInv /\ IdleHasNone /\ [Next]_vars => IdleHasNone'
<1> SUFFICES ASSUME TypeInv, IdleHasNone, [Next]_vars, NEW t \in Threads, pc'[t] = "next"
             PROVE  loc'[t] = None
  BY DEF IdleHasNone
<1>1. /\ pc \in [Threads -> {"next", "search", "reciprocal", "overwrite"}]
      /\ loc \in [Threads -> Points \cup {None}]
      /\ pc[t] = "next" => loc[t] = None
  BY DEF TypeInv, TypeOK, IdleHasNone
<1>2. ASSUME NEW u \in Threads, Step(u)
      PROVE  loc'[t] = None
  <2>1. CASE BeginLocation(u)
    BY <1>1, <2>1 DEF BeginLocation
  <2>2. CASE Expand(u) \/ Publish(u) \/ Reciprocal(u) \/ Overwrite(u)
    BY <1>1, <2>2 DEF Expand, Publish, Reciprocal, Overwrite
  <2>3. CASE EndLocation(u)
    BY <1>1, <2>3 DEF EndLocation
  <2> QED
    BY <1>2, <2>1, <2>2, <2>3 DEF Step
<1>3. CASE (\E node \in Points : CleanUp(node)) \/ Barrier \/ Finish \/ UNCHANGED vars
  BY <1>1, <1>3 DEF CleanUp, Barrier, Finish, vars, locals
<1> QED
  BY <1>2, <1>3 DEF Next, Done

LEMMA HookStep == TypeInv /\ EdgeInv /\ IdleHasNone /\ HookInv /\ [Next]_vars => HookInv'
<1> SUFFICES ASSUME TypeInv, EdgeInv, IdleHasNone, HookInv, [Next]_vars,
                    NEW p \in Points, outNbrs'[p] = << >>,
                    NEW q \in Points \ {p}, Entries[q] = {p}
             PROVE  /\ ~ Processed(q)'
                    /\ \A t \in Threads : loc'[t] = q => AtEmpty(p, t)'
  BY DEF HookInv
<1>1. outNbrs[p] = << >>
  BY EdgesStay
<1>2. ~ Processed(q) /\ \A t \in Threads : loc[t] = q => AtEmpty(p, t)
  BY <1>1 DEF HookInv
<1>0. /\ todo \in [Threads -> SUBSET Points]
      /\ pool \in [Threads -> SUBSET Points]
      /\ expanded \in [Threads -> SUBSET Points]
      /\ links \in [Threads -> Seq(Points)] /\ idx \in [Threads -> Nat]
      /\ pc \in [Threads -> {"next", "search", "reciprocal", "overwrite"}]
      /\ loc \in [Threads -> Points \cup {None}]
      /\ None \notin Points
      /\ \A t \in Threads : pc[t] # "next" => loc[t] \in Points
  BY DEF TypeInv, TypeOK, Control, Owned, None, Points
<1>3. PICK u \in Threads : q \in todo[u] \/ loc[u] = q
  BY <1>2 DEF Processed
<1> DEFINE Kept(t) == /\ pc'[t] = pc[t] /\ loc'[t] = loc[t] /\ pool'[t] = pool[t]
                      /\ expanded'[t] = expanded[t] /\ idx'[t] = idx[t]
                      /\ links'[t] = links[t]
<1>4. ASSUME NEW t \in Threads, \A v \in Threads : v # t => Kept(v) /\ todo'[v] = todo[v],
             loc'[t] = q => AtEmpty(p, t)',
             (q \in todo[t] \/ loc[t] = q) => (q \in todo'[t] \/ loc'[t] = q)
      PROVE  /\ ~ Processed(q)'
             /\ \A v \in Threads : loc'[v] = q => AtEmpty(p, v)'
  <2>1. ~ Processed(q)'
    BY <1>3, <1>4 DEF Processed
  <2>2. \A v \in Threads : loc'[v] = q => AtEmpty(p, v)'
    BY <1>2, <1>4 DEF AtEmpty
  <2> QED
    BY <2>1, <2>2
<1>5. ASSUME NEW t \in Threads, BeginLocation(t)
      PROVE  /\ ~ Processed(q)'
             /\ \A v \in Threads : loc'[v] = q => AtEmpty(p, v)'
  <2>1. PICK x \in todo[t] :
            /\ todo' = [todo EXCEPT ![t] = @ \ {x}]
            /\ loc' = [loc EXCEPT ![t] = x]
            /\ \E B \in Seeds(x) : pool' = [pool EXCEPT ![t] = B]
    BY <1>5 DEF BeginLocation
  <2>2. PICK B \in Seeds(x) : pool' = [pool EXCEPT ![t] = B]
    BY <2>1
  <2>3. /\ expanded' = [expanded EXCEPT ![t] = {}] /\ pc' = [pc EXCEPT ![t] = "search"]
        /\ links' = links /\ idx' = idx /\ pc[t] = "next"
    BY <1>5 DEF BeginLocation
  <2>4. x = q => B = {p}
    BY OneCandidate
  <2>5. \A v \in Threads : v # t => Kept(v) /\ todo'[v] = todo[v]
    BY <1>0, <2>1, <2>2, <2>3
  <2>6. loc'[t] = q => AtEmpty(p, t)'
    BY <1>0, <2>1, <2>2, <2>3, <2>4 DEF AtEmpty
  <2>7. loc[t] # q
    BY <1>0, <2>3 DEF IdleHasNone
  <2>8. (q \in todo[t] \/ loc[t] = q) => (q \in todo'[t] \/ loc'[t] = q)
    BY <1>0, <2>1, <2>7
  <2> HIDE DEF Kept
  <2> QED
    BY <1>4, <2>5, <2>6, <2>8
<1>6. ASSUME NEW t \in Threads, Expand(t)
      PROVE  /\ ~ Processed(q)'
             /\ \A v \in Threads : loc'[v] = q => AtEmpty(p, v)'
  <2>1. PICK n \in pool[t] \ expanded[t] :
            /\ expanded' = [expanded EXCEPT ![t] = @ \cup {n}]
            /\ LET new == {x \in Range(outNbrs[n]) \ inserted[t] : Accepts(loc[t], x)}
               IN  \E B \in Closest(loc[t], pool[t] \cup new) :
                       pool' = [pool EXCEPT ![t] = B]
    BY <1>6 DEF Expand
  <2> DEFINE new == {x \in Range(outNbrs[n]) \ inserted[t] : Accepts(loc[t], x)}
  <2>2. PICK B \in Closest(loc[t], pool[t] \cup new) : pool' = [pool EXCEPT ![t] = B]
    BY <2>1
  <2>3. /\ todo' = todo /\ loc' = loc /\ pc' = pc /\ links' = links /\ idx' = idx
        /\ pc[t] = "search"
    BY <1>6 DEF Expand
  <2>4. \A v \in Threads : v # t => Kept(v) /\ todo'[v] = todo[v]
    BY <1>0, <2>1, <2>2, <2>3
  <2>5. ASSUME loc'[t] = q
        PROVE  AtEmpty(p, t)'
    <3>1. pool[t] = {p} /\ expanded[t] \subseteq {p} /\ loc[t] = q /\ n = p
      BY <1>2, <2>3, <2>5 DEF AtEmpty
    <3>2. Range(outNbrs[p]) = {}
      BY <1>1 DEF Range
    <3>3. pool[t] \cup new = {p}
      BY <3>1, <3>2
    <3> HIDE DEF new
    <3>4. B = {p}
      BY <3>1, <3>3, OneCandidate
    <3> QED
      BY <1>0, <2>1, <2>2, <2>3, <3>1, <3>4 DEF AtEmpty
  <2> HIDE DEF Kept
  <2> QED
    BY <1>4, <2>3, <2>4, <2>5
<1>7. ASSUME NEW t \in Threads, Publish(t)
      PROVE  /\ ~ Processed(q)'
             /\ \A v \in Threads : loc'[v] = q => AtEmpty(p, v)'
  <2>1. /\ Range(links'[t]) \subseteq expanded[t] \ {loc[t]}
        /\ \A i, j \in 1..Len(links'[t]) : links'[t][i] = links'[t][j] => i = j
        /\ expanded[t] \ {loc[t]} # {} => links'[t] # << >>
        /\ pool[t] \subseteq expanded[t] /\ pc[t] = "search"
        /\ pc' = [pc EXCEPT ![t] = "reciprocal"]
        /\ UNCHANGED <<todo, loc, pool, expanded>>
        /\ \A v \in Threads : v # t => links'[v] = links[v]
    BY <1>7, PublishEffect
  <2>2. idx' = [idx EXCEPT ![t] = 1]
    BY <1>7 DEF Publish
  <2>3. \A v \in Threads : v # t => Kept(v) /\ todo'[v] = todo[v]
    BY <1>0, <2>1, <2>2
  <2>4. ASSUME loc'[t] = q
        PROVE  AtEmpty(p, t)'
    <3>1. expanded[t] = {p} /\ loc[t] = q
      BY <1>2, <2>1, <2>4 DEF AtEmpty
    <3>2. /\ links'[t] \in Seq(Points) /\ links'[t] # << >>
          /\ Range(links'[t]) \subseteq {p}
      BY <2>1, <3>1, TypeStep DEF TypeInv, TypeOK
    <3>3. links'[t] = <<p>>
      <4> DEFINE s == links'[t]
      <4>1. /\ s \in Seq(Points) /\ s # << >> /\ Range(s) \subseteq {p}
            /\ \A i, j \in 1..Len(s) : s[i] = s[j] => i = j
        BY <2>1, <3>2
      <4> HIDE DEF s
      <4>2. Range(s) = {s[i] : i \in 1..Len(s)} /\ Len(s) \in Nat \ {0}
        BY <4>1, RangeEquality, EmptySeq, LenProperties
      <4>3. \A i \in 1..Len(s) : s[i] = p
        BY <4>1, <4>2
      <4>4. Len(s) = 1
        <5>1. 1 \in 1..Len(s) /\ Len(s) \in 1..Len(s)
          BY <4>2
        <5> QED
          BY <4>1, <4>3, <5>1
      <4>5. s = <<p>>
        BY <4>1, <4>3, <4>4
      <4> QED
        BY <4>5 DEF s
    <3> QED
      BY <1>0, <2>1, <2>2, <3>3 DEF AtEmpty
  <2> HIDE DEF Kept
  <2> QED
    BY <1>4, <2>1, <2>3, <2>4
<1>8. ASSUME NEW t \in Threads, Reciprocal(t)
      PROVE  /\ ~ Processed(q)'
             /\ \A v \in Threads : loc'[v] = q => AtEmpty(p, v)'
  <2>1. loc[t] # q
    <3> SUFFICES ASSUME loc[t] = q
                 PROVE  FALSE
      OBVIOUS
    <3>1. idx[t] = 1 /\ links[t] = <<p>> /\ links[t][idx[t]] = p
      BY <1>2, <1>8 DEF AtEmpty, Reciprocal
    <3>2. q \notin Range(outNbrs[p]) /\ BelowSlack(outNbrs[p])
      BY <1>1, SizeAssumption DEF Range, BelowSlack
    <3>3. outNbrs' = [outNbrs EXCEPT ![p] = Append(@, q)]
      BY <1>8, <3>1, <3>2 DEF Reciprocal
    <3>4. outNbrs \in [Points -> Seq(Points)]
      BY DEF TypeInv, TypeOK
    <3>5. outNbrs'[p] = Append(<< >>, q)
      BY <1>1, <3>3, <3>4
    <3>6. << >> \in Seq(Points) /\ Len(<< >>) = 0 /\ q \in Points
      BY EmptySeq
    <3>7. Len(Append(<< >>, q)) = 1
      BY <3>6, AppendProperties
    <3>8. Append(<< >>, q) = << >>
      BY <3>5
    <3> QED
      BY ONLY <3>6, <3>7, <3>8
  <2>2. /\ UNCHANGED <<todo, loc, pool, expanded, links>>
        /\ \A v \in Threads : v # t => pc'[v] = pc[v] /\ idx'[v] = idx[v]
    BY <1>0, <1>8 DEF Reciprocal, search
  <2>3. \A v \in Threads : v # t => Kept(v) /\ todo'[v] = todo[v]
    BY <2>2
  <2> HIDE DEF Kept
  <2> QED
    BY <1>4, <2>1, <2>2, <2>3
<1>9. ASSUME NEW t \in Threads, Overwrite(t)
      PROVE  /\ ~ Processed(q)'
             /\ \A v \in Threads : loc'[v] = q => AtEmpty(p, v)'
  <2>1. pc[t] = "overwrite" /\ UNCHANGED <<todo, loc, pool, expanded, links>>
        /\ \A v \in Threads : v # t => pc'[v] = pc[v] /\ idx'[v] = idx[v]
    BY <1>0, <1>9 DEF Overwrite, search
  <2>2. loc[t] # q
    BY <1>2, <2>1 DEF AtEmpty
  <2>3. \A v \in Threads : v # t => Kept(v) /\ todo'[v] = todo[v]
    BY <2>1
  <2> HIDE DEF Kept
  <2> QED
    BY <1>4, <2>1, <2>2, <2>3
<1>10. ASSUME NEW t \in Threads, EndLocation(t)
       PROVE  /\ ~ Processed(q)'
              /\ \A v \in Threads : loc'[v] = q => AtEmpty(p, v)'
  <2>1. /\ pc[t] = "reciprocal" /\ idx[t] > Len(links[t]) /\ todo' = todo
        /\ loc' = [loc EXCEPT ![t] = None]
    BY <1>10 DEF EndLocation
  <2>2. loc[t] # q
    <3> SUFFICES ASSUME loc[t] = q
                 PROVE  FALSE
      OBVIOUS
    <3>1. idx[t] = 1 /\ Len(links[t]) = 1
      BY <1>2, <2>1 DEF AtEmpty
    <3> QED
      BY <2>1, <3>1
  <2>3. \A v \in Threads : v # t => Kept(v) /\ todo'[v] = todo[v]
    BY <1>0, <1>10 DEF EndLocation
  <2>4. loc'[t] # q
    BY <1>0, <2>1
  <2> HIDE DEF Kept
  <2> QED
    BY <1>4, <2>1, <2>2, <2>3, <2>4
<1>11. CASE (\E node \in Points : CleanUp(node)) \/ Barrier \/ Finish \/ UNCHANGED vars
  <2>1. UNCHANGED <<todo, pc, loc, pool, expanded, links, idx>>
    BY <1>11 DEF CleanUp, Barrier, Finish, vars, locals, search
  <2> QED
    BY <1>2, <2>1 DEF Processed, AtEmpty
<1> QED
  BY <1>5, <1>6, <1>7, <1>8, <1>9, <1>10, <1>11 DEF Next, Step, Done

\* Only a location whose search could start nowhere but at itself may be without an
\* edge, and it has one as soon as a location whose search starts at it is processed:
\* add_reciprocal_edges may find an empty list of links, and leave one, only there.
THEOREM Connected == Spec => []NeverStranded
<1>1. Init => EdgeInv
  <2>1. Range(<< >>) = {}
    BY DEF Range
  <2> QED
    BY <2>1 DEF Init, EdgeInv, NoSelfLoops
<1>2. Init => StrandInv /\ IdleHasNone /\ HookInv
  <2>1. Init => \A p \in Points : p \in todo[(p \div CHUNK) % T]
    BY SizeAssumption DEF Init, Owned
  <2>2. \A p \in Points : (p \div CHUNK) % T \in Threads
    BY SizeAssumption
  <2>3. Init => StrandInv
    BY <2>1, <2>2 DEF Init, StrandInv, KeepsEdge, Published
  <2>4. Init => IdleHasNone
    BY DEF Init, IdleHasNone
  <2>5. Init => HookInv
    <3> SUFFICES ASSUME Init, NEW q \in Points
                 PROVE  /\ ~ Processed(q)
                        /\ \A t \in Threads : loc[t] # q
      BY DEF HookInv
    <3>1. None \notin Points
      BY DEF None, Points
    <3> QED
      BY <2>1, <2>2, <3>1 DEF Init, Processed
  <2> QED
    BY <2>3, <2>4, <2>5
<1>3. Spec => [](TypeInv /\ EdgeInv /\ StrandInv /\ IdleHasNone /\ HookInv)
  BY <1>1, <1>2, TypeInit, TypeStep, EdgeStep, StrandStep, IdleStep, HookStep, PTL DEF Spec
<1>4. StrandInv /\ HookInv => NeverStranded
  BY DEF StrandInv, KeepsEdge, HookInv, NeverStranded
<1> QED
  BY <1>3, <1>4, PTL

----------------------------------------------------------------------------
(* The final degree.  The clean-up loop visits every node, and no thread   *)
(* adds an edge any more.                                                  *)
DegreeInv ==
    /\ phase = "build" => dirty = Points
    /\ phase = "done" => dirty = {}
    /\ \A p \in Points \ dirty : Len(outNbrs[p]) <= R

LEMMA DegreeStep == TypeInv /\ DegreeInv /\ [Next]_vars => DegreeInv'
<1> SUFFICES ASSUME TypeInv, DegreeInv, [Next]_vars
             PROVE  DegreeInv'
  OBVIOUS
<1>1. ASSUME NEW t \in Threads, Step(t)
      PROVE  DegreeInv'
  <2>1. phase = "build"
    BY <1>1 DEF TypeInv, Control, Step, BeginLocation, Expand, Publish, Reciprocal,
                Overwrite, EndLocation
  <2>2. phase' = phase /\ dirty' = dirty
    BY <1>1 DEF Step, BeginLocation, Expand, Publish, Reciprocal, Overwrite, EndLocation
  <2> QED
    BY <2>1, <2>2 DEF DegreeInv
<1>2. ASSUME NEW node \in Points, CleanUp(node)
      PROVE  DegreeInv'
  BY <1>2, CleanUpEffect DEF DegreeInv
<1>3. CASE Barrier \/ Finish \/ UNCHANGED vars
  BY <1>3 DEF DegreeInv, Barrier, Finish, vars
<1> QED
  BY <1>1, <1>2, <1>3 DEF Next, Done

\* When the build is over no list is longer than the degree bound.
THEOREM DegreeBounded == Spec => []FinalDegree
<1>1. Init => DegreeInv
  BY DEF Init, DegreeInv
<1>2. Spec => [](TypeInv /\ DegreeInv)
  BY <1>1, TypeInit, TypeStep, DegreeStep, PTL DEF Spec
<1>3. DegreeInv => FinalDegree
  BY DEF DegreeInv, FinalDegree
<1> QED
  BY <1>2, <1>3, PTL

----------------------------------------------------------------------------
(* What the unlocked prune relies on.  If one thread runs all locations,   *)
(* nobody else writes a list between its copy and its overwrite.           *)

CopyInv(s) ==
    /\ \A t \in Threads : t # s => pc[t] = "next"
    /\ CopyIsCurrent

LEMMA CopyStep ==
    ASSUME NEW s \in Threads, \A t \in Threads : t # s => Owned(t) = {}
    PROVE  TypeInv /\ CopyInv(s) /\ [Next]_vars => CopyInv(s)'
<1> SUFFICES ASSUME TypeInv, CopyInv(s), [Next]_vars
             PROVE  CopyInv(s)'
  OBVIOUS
<1>0. pc \in [Threads -> {"next", "search", "reciprocal", "overwrite"}]
  BY DEF TypeInv, TypeOK
<1>1. \A t \in Threads : t # s => pc'[t] = "next"
  <2>1. TypeInv'
    BY TypeStep
  <2>2. \A t \in Threads : pc'[t] # "next" => loc'[t] \in Owned(t)
    BY <2>1 DEF TypeInv, Control, Owned
  <2> QED
    BY <2>2
<1>2. ASSUME pc'[s] = "overwrite"
      PROVE  copied'[s] = Append(outNbrs'[links'[s][idx'[s]]], loc'[s])
  <2>1. ASSUME NEW t \in Threads, BeginLocation(t) \/ Publish(t) \/ Overwrite(t) \/ EndLocation(t)
        PROVE  FALSE
    <3>1. t = s
      BY <1>0, <2>1 DEF CopyInv, Owned, BeginLocation, Publish, Overwrite, EndLocation,
                        TypeInv, Control
    <3> QED
      BY <1>0, <1>2, <2>1, <3>1 DEF BeginLocation, Publish, Overwrite, EndLocation
  <2>2. ASSUME NEW t \in Threads, Reciprocal(t)
        PROVE  copied'[s] = Append(outNbrs'[links'[s][idx'[s]]], loc'[s])
    <3>1. t = s /\ pc[s] = "reciprocal"
      BY <2>2 DEF CopyInv, Reciprocal
    <3> DEFINE des == links[s][idx[s]]
    <3>2. /\ copied' = [copied EXCEPT ![s] = Append(outNbrs[des], loc[s])]
          /\ outNbrs' = outNbrs /\ links' = links /\ loc' = loc /\ idx' = idx
      BY <1>2, <2>2, <3>1, ReciprocalEffect
    <3>3. copied \in [Threads -> Seq(Points)]
      BY DEF TypeInv, TypeOK
    <3> QED
      BY <3>2, <3>3
  <2>3. ASSUME NEW t \in Threads, Expand(t)
        PROVE  copied'[s] = Append(outNbrs'[links'[s][idx'[s]]], loc'[s])
    BY <1>2, <2>3 DEF CopyInv, CopyIsCurrent, Expand
  <2>4. ASSUME NEW node \in Points, CleanUp(node)
        PROVE  FALSE
    BY <1>2, <2>4 DEF CleanUp, TypeInv, Control, locals
  <2>5. CASE Barrier \/ Finish \/ UNCHANGED vars
    BY <1>2, <2>5 DEF CopyInv, CopyIsCurrent, Barrier, Finish, vars, locals
  <2> QED
    BY <2>1, <2>2, <2>3, <2>4, <2>5 DEF Next, Step, Done
<1> QED
  BY <1>1, <1>2 DEF CopyInv, CopyIsCurrent

\* When one thread owns every location, no edge is lost between the two
\* critical sections of add_reciprocal_edges.
THEOREM OneOwner ==
    ASSUME NEW s \in Threads, \A t \in Threads : t # s => Owned(t) = {}
    PROVE  Spec => []CopyIsCurrent
<1>1. Init => CopyInv(s)
  BY DEF Init, CopyInv, CopyIsCurrent
<1>2. TypeInv /\ CopyInv(s) /\ [Next]_vars => CopyInv(s)'
  BY CopyStep
<1>3. CopyInv(s) => CopyIsCurrent
  BY DEF CopyInv
<1> QED
  BY <1>1, <1>2, <1>3, TypeInit, TypeStep, PTL DEF Spec

\* So it is with a team of one, and with no more points than one chunk holds,
\* however large the team: schedule(static, 64) gives them all to thread 0.
THEOREM OneChunk ==
    ASSUME T = 1 \/ N <= CHUNK
    PROVE  Spec => []CopyIsCurrent
<1>1. 0 \in Threads
  BY SizeAssumption
<1>2. ASSUME NEW t \in Threads, t # 0
      PROVE  Owned(t) = {}
  <2>1. T # 1
    BY <1>2
  <2>2. ASSUME NEW p \in Points
        PROVE  p \div CHUNK = 0
    <3>1. p \in Nat /\ CHUNK \in Nat \ {0} /\ p < CHUNK
      BY <2>1, SizeAssumption
    <3>2. \A a \in Nat : \A b \in Nat \ {0} : a < b => a \div b = 0
      BY Z3
    <3> QED
      BY <3>1, <3>2
  <2>3. 0 % T = 0
    BY SizeAssumption
  <2> QED
    BY <1>2, <2>2, <2>3 DEF Owned
<1>3. \A t \in Threads : t # 0 => Owned(t) = {}
  BY <1>2
<1> QED
  BY <1>1, <1>3, OneOwner

----------------------------------------------------------------------------
(* A level of an HNSW index.                                               *)

\* A step of GraphBuild that Hnsw takes over.
Shared ==
    \/ \E t \in Threads : Reciprocal(t) \/ Overwrite(t) \/ EndLocation(t)
    \/ Barrier \/ Finish \/ UNCHANGED vars

LEMMA SharedIsNext == Shared => [Next]_vars
BY DEF Shared, Next, Step

----------------------------------------------------------------------------
(* Lemmas about the operators of the model.                                *)

\* The number of ids in a set.
LEMMA SizeOfIds ==
    ASSUME NEW S \in SUBSET Points
    PROVE  IsFiniteSet(S) /\ Cardinality(S) \in Nat
<1>1. IsFiniteSet(Points)
  BY FS_Interval, SizeAssumption
<1> QED
  BY <1>1, FS_Subset, FS_CardinalityType

\* A prune of the slots of a search for p returns up to R of the ids in them.
LEMMA SlotsFacts ==
    ASSUME NEW p \in Points, NEW S \in SUBSET Points, NEW n \in 0..(L + 1)
    PROVE  LET s == PruneSlots(p, S, n)
               ids == (S \cup (IF n > 0 THEN {0} ELSE {})) \ {p}
           IN  /\ s \in Seq(Points)
               /\ Range(s) \subseteq ids
               /\ Len(s) \in Nat
               /\ Len(s) <= R
               /\ \A i, j \in 1..Len(s) : s[i] = s[j] /\ s[i] # 0 => i = j
               /\ ids # {} => s # << >>
<1> DEFINE s == PruneSlots(p, S, n)
           ids == (S \cup (IF n > 0 THEN {0} ELSE {})) \ {p}
<1>1. /\ s \in Seq(ids)
      /\ Len(s) <= R
      /\ \A i, j \in 1..Len(s) : s[i] = s[j] /\ s[i] # 0 => i = j
      /\ ids # {} => s # << >>
  <2>1. SlotsContract
    BY HnswAssumption
  <2> QED
    BY <2>1 DEF SlotsContract
<1>2. ids \in SUBSET Points
  BY SizeAssumption
<1> HIDE DEF s, ids
<1>3. s \in Seq(Points)
  BY <1>1, <1>2, SeqMonotonic
<1>4. Range(s) \subseteq ids /\ Len(s) \in Nat
  BY <1>1, RangeOfSeq, LenProperties
<1>5. /\ s \in Seq(Points) /\ Range(s) \subseteq ids /\ Len(s) \in Nat /\ Len(s) <= R
      /\ \A i, j \in 1..Len(s) : s[i] = s[j] /\ s[i] # 0 => i = j
      /\ ids # {} => s # << >>
  BY <1>1, <1>3, <1>4
<1> QED
  BY <1>5 DEF s, ids

\* Where a search starts: some points, no more than fit into the pool.
LEMMA InitIdsFacts ==
    ASSUME NEW p \in Points, NEW B \in InitIds(p), sample \in SUBSET Points
    PROVE  B \in SUBSET Points /\ Cardinality(B) <= L
<1>1. Medoid \in Points /\ L \in Nat \ {0}
  BY HnswAssumption, SizeAssumption
<1>2. CASE level = 0
  <2>1. B = {Medoid}
    BY <1>2 DEF InitIds
  <2>2. Cardinality({Medoid}) = 1
    BY FS_Singleton
  <2> QED
    BY <1>1, <2>1, <2>2
<1>3. CASE level # 0
  <2>1. B \in InnerResults(sample, p)
    BY <1>3 DEF InitIds
  <2>2. B \subseteq sample /\ Cardinality(B) <= L
    BY <2>1, HnswAssumption
  <2> QED
    BY <2>2
<1> QED
  BY <1>2, <1>3

----------------------------------------------------------------------------
(* Types and control.  No pool is longer than Lsize, so that the slots of  *)
(* the array are enough for its candidates.                                *)
HTypeInv ==
    /\ TypeInv
    /\ HTypeOK
    /\ \A t \in Threads : Cardinality(pool[t]) <= L

LEMMA HTypeInit == HInit => HTypeInv
<1> SUFFICES ASSUME HInit
             PROVE  HTypeInv
  OBVIOUS
<1>1. TypeInv
  BY TypeInit DEF HInit
<1>2. HTypeOK
  BY <1>1, HnswAssumption DEF HInit, HTypeOK, TypeInv
<1>3. Cardinality({}) <= L
  BY FS_EmptySet, SizeAssumption
<1>4. \A t \in Threads : pool[t] = {}
  BY DEF HInit, Init
<1> QED
  BY <1>1, <1>2, <1>3, <1>4 DEF HTypeInv

\* What HPublish does to the lists.
LEMMA HPublishEffect ==
    ASSUME HTypeInv, NEW t \in Threads, HPublish(t)
    PROVE  /\ loc[t] \in Points
           /\ pc[t] = "search"
           /\ links'[t] \in Seq(Points)
           /\ loc[t] \notin Range(links'[t])
           /\ Len(links'[t]) \in Nat /\ Len(links'[t]) <= R
           /\ \A i, j \in 1..Len(links'[t]) :
                 links'[t][i] = links'[t][j] /\ links'[t][i] # 0 => i = j
           /\ loc[t] # 0 => links'[t] # << >>
           /\ \A u \in Threads : u # t => links'[u] = links[u]
           /\ \A q \in Points : q # loc[t] => outNbrs'[q] = outNbrs[q]
           /\ outNbrs' \in [Points -> Seq(Points)]
           /\ outNbrs'[loc[t]] = outNbrs[loc[t]] \o links'[t]
           /\ Range(outNbrs'[loc[t]]) = Range(outNbrs[loc[t]]) \cup Range(links'[t])
           /\ Len(outNbrs'[loc[t]]) = Len(outNbrs[loc[t]]) + Len(links'[t])
           /\ pc' = [pc EXCEPT ![t] = "reciprocal"]
           /\ idx' = [idx EXCEPT ![t] = 1]
           /\ spare' = [spare EXCEPT ![t] = None]
           /\ UNCHANGED <<phase, todo, loc, pool, inserted, expanded, copied, dirty>>
           /\ UNCHANGED below
<1> DEFINE n == L + 1 - Cardinality(Filled(t))
           pruned == PruneSlots(loc[t], Filled(t), n)
<1>1. /\ outNbrs \in [Points -> Seq(Points)] /\ links \in [Threads -> Seq(Points)]
      /\ pool[t] \in SUBSET Points /\ spare[t] \in Points \cup {None}
      /\ pc[t] = "search"
      /\ Cardinality(pool[t]) <= L /\ L \in Nat \ {0}
  BY SizeAssumption DEF HTypeInv, HTypeOK, TypeInv, TypeOK, HPublish
<1>2. loc[t] \in Points
  BY <1>1 DEF HTypeInv, TypeInv, Control, Owned
<1>3. Filled(t) \in SUBSET Points
  BY <1>1 DEF Filled
<1>4. /\ IsFiniteSet(pool[t]) /\ Cardinality(pool[t]) \in Nat
      /\ Cardinality(Filled(t)) \in Nat
      /\ IsFiniteSet(Filled(t))
  BY <1>1, <1>3, SizeOfIds
<1>5. Cardinality(Filled(t)) <= Cardinality(pool[t]) + 1
  <2>1. CASE Filled(t) = pool[t]
    BY <1>4, <2>1
  <2>2. CASE Filled(t) # pool[t]
    <3>1. Filled(t) = pool[t] \cup {spare[t]} /\ spare[t] \notin pool[t]
      BY <2>2 DEF Filled
    <3>2. Cardinality(pool[t] \cup {spare[t]}) = Cardinality(pool[t]) + 1
      BY <1>4, <3>1, FS_AddElement
    <3> QED
      BY <1>4, <3>1, <3>2
  <2> QED
    BY <2>1, <2>2
<1>6. n \in 0..(L + 1)
  BY <1>1, <1>4, <1>5
<1>7. loc[t] # 0 => (Filled(t) \cup (IF n > 0 THEN {0} ELSE {})) \ {loc[t]} # {}
  <2> SUFFICES ASSUME loc[t] # 0, ~ (n > 0)
               PROVE  Filled(t) \ {loc[t]} # {}
    OBVIOUS
  <2>1. Cardinality(Filled(t)) >= 2
    BY <1>1, <1>4, <1>6
  <2>2. IsFiniteSet({loc[t]}) /\ Cardinality({loc[t]}) = 1
    BY FS_Singleton
  <2>3. Filled(t) \subseteq {loc[t]} => Cardinality(Filled(t)) <= 1
    BY <2>2, FS_Subset
  <2> QED
    BY <1>4, <2>1, <2>3
<1>8. /\ pruned \in Seq(Points)
      /\ loc[t] \notin Range(pruned)
      /\ Len(pruned) \in Nat /\ Len(pruned) <= R
      /\ \A i, j \in 1..Len(pruned) : pruned[i] = pruned[j] /\ pruned[i] # 0 => i = j
      /\ loc[t] # 0 => pruned # << >>
  <2> DEFINE held == Filled(t)
             ids == (held \cup (IF n > 0 THEN {0} ELSE {})) \ {loc[t]}
  <2>1. n \in 0..(L + 1) /\ held \in SUBSET Points
    BY <1>3, <1>6
  <2>2. pruned = PruneSlots(loc[t], held, n) /\ (loc[t] # 0 => ids # {})
    BY <1>7
  <2> HIDE DEF n, held, pruned
  <2>3. LET s == PruneSlots(loc[t], held, n)
        IN  /\ s \in Seq(Points)
            /\ Range(s) \subseteq ids
            /\ Len(s) \in Nat
            /\ Len(s) <= R
            /\ \A i, j \in 1..Len(s) : s[i] = s[j] /\ s[i] # 0 => i = j
            /\ ids # {} => s # << >>
    BY <1>2, <2>1, SlotsFacts
  <2> QED
    BY <2>2, <2>3
<1>9. /\ links' = [links EXCEPT ![t] = pruned]
      /\ outNbrs' = [outNbrs EXCEPT ![loc[t]] = @ \o pruned]
      /\ pc' = [pc EXCEPT ![t] = "reciprocal"]
      /\ idx' = [idx EXCEPT ![t] = 1]
      /\ spare' = [spare EXCEPT ![t] = None]
      /\ UNCHANGED <<phase, todo, loc, pool, inserted, expanded, copied, dirty>>
      /\ UNCHANGED below
  BY DEF HPublish, search
<1> HIDE DEF pruned
<1>10. /\ outNbrs[loc[t]] \o pruned \in Seq(Points)
       /\ Range(outNbrs[loc[t]] \o pruned) = Range(outNbrs[loc[t]]) \cup Range(pruned)
       /\ Len(outNbrs[loc[t]] \o pruned) = Len(outNbrs[loc[t]]) + Len(pruned)
  BY <1>1, <1>2, <1>8, RangeFacts
<1>11. /\ links'[t] = pruned
       /\ \A u \in Threads : u # t => links'[u] = links[u]
       /\ outNbrs'[loc[t]] = outNbrs[loc[t]] \o pruned
       /\ outNbrs' \in [Points -> Seq(Points)]
       /\ \A q \in Points : q # loc[t] => outNbrs'[q] = outNbrs[q]
  BY <1>1, <1>2, <1>9, <1>10
<1> QED
  BY <1>1, <1>2, <1>8, <1>9, <1>10, <1>11

\* What HCleanUp does.
LEMMA HCleanUpEffect ==
    ASSUME TypeInv, NEW node \in Points, HCleanUp(node)
    PROVE  /\ outNbrs' \in [Points -> Seq(Points)]
           /\ \A q \in Points : q # node => outNbrs'[q] = outNbrs[q]
           /\ \/ outNbrs' = outNbrs
              \/ /\ outNbrs[node] # << >>
                 /\ Range(outNbrs[node]) # {}
                 /\ Range(outNbrs'[node]) \subseteq Range(outNbrs[node]) \ {node}
                 /\ Range(outNbrs[node]) \ {node} # {} => outNbrs'[node] # << >>
                 /\ Len(outNbrs'[node]) \in Nat /\ Len(outNbrs'[node]) <= R
                 /\ \A i, j \in 1..Len(outNbrs'[node]) :
                       outNbrs'[node][i] = outNbrs'[node][j] => i = j
           /\ dirty' = dirty \ {node}
           /\ phase = "cleanup"
           /\ UNCHANGED <<phase, locals, below, spare>>
<1> DEFINE others == Range(outNbrs[node]) \ {node}
           rest == ReciprocalPrune(node, others)
<1>1. outNbrs \in [Points -> Seq(Points)] /\ outNbrs[node] \in Seq(Points)
  BY DEF TypeInv, TypeOK
<1>2. /\ Range(outNbrs[node]) \in SUBSET Points
      /\ Len(outNbrs[node]) \in Nat
      /\ outNbrs[node] # << >> => Range(outNbrs[node]) # {}
      /\ Len(<< >>) = 0
  BY <1>1, RangeFacts, EmptySeq
<1>3. others \in SUBSET Points /\ others \ {node} = others
  BY <1>2
<1>4. /\ rest \in Seq(Points)
      /\ Range(rest) \subseteq others
      /\ others # {} => rest # << >>
      /\ Len(rest) \in Nat /\ Len(rest) <= R
      /\ \A i, j \in 1..Len(rest) : rest[i] = rest[j] => i = j
  <2> HIDE DEF others
  <2>1. LET s == ReciprocalPrune(node, others)
        IN  /\ s \in Seq(Points)
            /\ Range(s) \subseteq others \ {node}
            /\ Len(s) \in Nat
            /\ Len(s) <= R
            /\ \A i, j \in 1..Len(s) : s[i] = s[j] => i = j
            /\ others \ {node} # {} => s # << >>
    BY <1>3, ReciprocalPruneFacts
  <2> QED
    BY <1>3, <2>1
<1> HIDE DEF rest
<1>5. /\ phase = "cleanup"
      /\ outNbrs' = IF Len(outNbrs[node]) > R
                    THEN [outNbrs EXCEPT ![node] = rest] ELSE outNbrs
      /\ dirty' = dirty \ {node}
      /\ UNCHANGED <<phase, locals, below, spare>>
  BY DEF HCleanUp, rest
<1>6. CASE Len(outNbrs[node]) > R
  <2>1. /\ outNbrs'[node] = rest
        /\ \A q \in Points : q # node => outNbrs'[q] = outNbrs[q]
        /\ outNbrs' \in [Points -> Seq(Points)]
    BY <1>1, <1>4, <1>5, <1>6
  <2>2. outNbrs[node] # << >>
    BY <1>2, <1>6, SizeAssumption
  <2> QED
    BY <1>2, <1>4, <1>5, <2>1, <2>2
<1>7. CASE ~ (Len(outNbrs[node]) > R)
  BY <1>1, <1>5, <1>7
<1> QED
  BY <1>6, <1>7

\* What a search begins with and how it goes on keeps the types.
LEMMA HSearchTypes ==
    ASSUME HTypeInv, NEW t \in Threads, HBeginLocation(t) \/ HExpand(t)
    PROVE  HTypeInv'
<1>0. /\ TypeInv /\ TypeOK /\ Control
      /\ spare \in [Threads -> Points \cup {None}]
      /\ sample \in SUBSET Points
      /\ \A p \in Points : p # None
      /\ None \in Nat
      /\ \A u \in Threads : Owned(u) \in SUBSET Points
  BY SizeAssumption DEF HTypeInv, HTypeOK, TypeInv, Owned
<1>1. CASE HBeginLocation(t)
  <2>1. PICK p \in todo[t] : /\ todo' = [todo EXCEPT ![t] = @ \ {p}]
                             /\ loc' = [loc EXCEPT ![t] = p]
                             /\ \E B \in InitIds(p) :
                                   /\ inserted' = [inserted EXCEPT ![t] = B]
                                   /\ pool' = [pool EXCEPT ![t] = B]
    BY <1>1 DEF HBeginLocation
  <2>2. p \in Points /\ p \in Owned(t)
    BY <1>0 DEF TypeOK, Control
  <2>3. PICK B \in InitIds(p) : /\ inserted' = [inserted EXCEPT ![t] = B]
                                /\ pool' = [pool EXCEPT ![t] = B]
    BY <2>1
  <2>4. B \in SUBSET Points /\ Cardinality(B) <= L
    BY <1>0, <2>2, <2>3, InitIdsFacts
  <2>5. /\ pc[t] = "next"
        /\ expanded' = [expanded EXCEPT ![t] = {}]
        /\ spare' = [spare EXCEPT ![t] = None]
        /\ pc' = [pc EXCEPT ![t] = "search"]
        /\ UNCHANGED <<phase, outNbrs, links, idx, copied, dirty, below>>
    BY <1>1 DEF HBeginLocation
  <2>6. phase = "build"
    BY <1>0, <2>1 DEF TypeOK, Control
  <2>7. TypeOK'
    BY <1>0, <2>1, <2>2, <2>3, <2>4, <2>5 DEF TypeOK
  <2>8. Control'
    BY <1>0, <2>1, <2>2, <2>5, <2>6 DEF TypeOK, Control
  <2>9. HTypeOK'
    BY <1>0, <2>5, <2>7 DEF HTypeInv, HTypeOK, below
  <2>10. \A u \in Threads : Cardinality(pool'[u]) <= L
    BY <1>0, <2>3, <2>4 DEF HTypeInv, TypeOK
  <2> QED
    BY <2>7, <2>8, <2>9, <2>10 DEF HTypeInv, TypeInv
<1>2. CASE HExpand(t)
  <2>1. PICK n \in pool[t] \ expanded[t] :
            /\ expanded' = [expanded EXCEPT ![t] = @ \cup {n}]
            /\ LET new == Range(outNbrs[n]) \ inserted[t]
               IN  /\ inserted' = [inserted EXCEPT ![t] = @ \cup new]
                   /\ \E B \in Closest(loc[t], pool[t] \cup new) :
                          /\ pool' = [pool EXCEPT ![t] = B]
                          /\ \E x \in LeftOver(t, outNbrs[n], B) :
                                spare' = [spare EXCEPT ![t] = x]
    BY <1>2 DEF HExpand
  <2> DEFINE new == Range(outNbrs[n]) \ inserted[t]
  <2>2. PICK B \in Closest(loc[t], pool[t] \cup new) :
            /\ pool' = [pool EXCEPT ![t] = B]
            /\ \E x \in LeftOver(t, outNbrs[n], B) : spare' = [spare EXCEPT ![t] = x]
    BY <2>1
  <2>3. PICK x \in LeftOver(t, outNbrs[n], B) : spare' = [spare EXCEPT ![t] = x]
    BY <2>2
  <2>4. /\ pc[t] = "search"
        /\ UNCHANGED <<phase, outNbrs, todo, pc, loc, links, idx, copied, dirty, below>>
    BY <1>2 DEF HExpand
  <2>5. loc[t] \in Points /\ n \in Points /\ pool[t] \in SUBSET Points
    BY <1>0, <2>4 DEF TypeOK, Control
  <2>6. Range(outNbrs[n]) \in SUBSET Points
    <3>1. outNbrs[n] \in Seq(Points)
      BY <1>0, <2>5 DEF TypeOK
    <3> QED
      BY <3>1, RangeOfSeq
  <2>7. B \in SUBSET Points /\ Cardinality(B) <= L
    BY <2>2, <2>5, <2>6, PoolFacts, PoolSizes
  <2>8. x \in Points \cup {None}
    BY <1>0, <2>3, <2>5, <2>6 DEF LeftOver
  <2>9. inserted' = [inserted EXCEPT ![t] = @ \cup new] /\ new \in SUBSET Points
    BY <2>1, <2>6
  <2> HIDE DEF new
  <2>10. TypeOK'
    <3>1. expanded' = [expanded EXCEPT ![t] = @ \cup {n}]
      BY <2>1
    <3>2. pool' \in [Threads -> SUBSET Points]
      BY <1>0, <2>2, <2>7 DEF TypeOK
    <3>3. inserted' \in [Threads -> SUBSET Points]
      BY <1>0, <2>9 DEF TypeOK
    <3>4. expanded' \in [Threads -> SUBSET Points]
      BY <1>0, <2>5, <3>1 DEF TypeOK
    <3> QED
      BY <1>0, <2>4, <3>2, <3>3, <3>4 DEF TypeOK
  <2>11. Control'
    BY <1>0, <2>4 DEF Control
  <2>12. HTypeOK'
    BY <1>0, <2>3, <2>4, <2>8, <2>10 DEF HTypeInv, HTypeOK, below
  <2>13. \A u \in Threads : Cardinality(pool'[u]) <= L
    BY <1>0, <2>2, <2>7 DEF HTypeInv, TypeOK
  <2> QED
    BY <2>10, <2>11, <2>12, <2>13 DEF HTypeInv, TypeInv
<1> QED
  BY <1>1, <1>2

\* Every step keeps the types, the control state and the bound of the pools.
LEMMA HTypeStep == HTypeInv /\ [HNext]_hvars => HTypeInv'
<1> SUFFICES ASSUME HTypeInv, [HNext]_hvars
             PROVE  HTypeInv'
  OBVIOUS
<1>0. TypeInv /\ TypeOK /\ HTypeOK /\ \A u \in Threads : Cardinality(pool[u]) <= L
  BY DEF HTypeInv, TypeInv
<1>1. ASSUME NEW t \in Threads, HBeginLocation(t) \/ HExpand(t)
      PROVE  HTypeInv'
  BY <1>1, HSearchTypes
<1>2. ASSUME NEW t \in Threads, HPublish(t)
      PROVE  HTypeInv'
  <2>1. /\ links'[t] \in Seq(Points)
        /\ \A u \in Threads : u # t => links'[u] = links[u]
        /\ outNbrs' \in [Points -> Seq(Points)]
        /\ pc[t] = "search"
        /\ pc' = [pc EXCEPT ![t] = "reciprocal"]
        /\ idx' = [idx EXCEPT ![t] = 1]
        /\ spare' = [spare EXCEPT ![t] = None]
        /\ UNCHANGED <<phase, todo, loc, pool, inserted, expanded, copied, dirty>>
        /\ UNCHANGED below
    BY <1>2, HPublishEffect
  <2>2. links' \in [Threads -> Seq(Points)]
    <3>1. links' = [links EXCEPT ![t] = links'[t]]
      BY <1>0, <1>2 DEF HPublish, TypeOK
    <3> QED
      BY <1>0, <2>1, <3>1 DEF TypeOK
  <2>3. TypeOK'
    BY <1>0, <2>1, <2>2 DEF TypeOK
  <2>4. Control'
    BY <1>0, <2>1 DEF TypeInv, TypeOK, Control
  <2>5. HTypeOK'
    BY <1>0, <2>1, <2>3 DEF HTypeOK, below
  <2> QED
    BY <1>0, <2>1, <2>3, <2>4, <2>5 DEF HTypeInv, TypeInv
<1>3. CASE Shared /\ UNCHANGED <<below, spare>>
  <2>1. TypeInv'
    BY <1>0, <1>3, SharedIsNext, TypeStep
  <2>2. HTypeOK'
    BY <1>0, <1>3, <2>1 DEF TypeInv, HTypeOK, below
  <2>3. \A u \in Threads : pool'[u] = pool[u] \/ pool'[u] = {}
    BY <1>0, <1>3 DEF Shared, Reciprocal, Overwrite, EndLocation, Barrier, Finish,
                      vars, locals, search, TypeOK
  <2>4. Cardinality({}) <= L
    BY FS_EmptySet, SizeAssumption
  <2>5. \A u \in Threads : Cardinality(pool'[u]) <= L
    BY <1>0, <2>3, <2>4
  <2> QED
    BY <2>1, <2>2, <2>5 DEF HTypeInv
<1>4. ASSUME NEW node \in Points, HCleanUp(node)
      PROVE  HTypeInv'
  <2>1. /\ outNbrs' \in [Points -> Seq(Points)]
        /\ dirty' = dirty \ {node}
        /\ UNCHANGED <<phase, locals, below, spare>>
    BY <1>0, <1>4, HCleanUpEffect
  <2>2. TypeOK' /\ Control'
    BY <1>0, <2>1 DEF TypeInv, TypeOK, Control, locals, search
  <2> QED
    BY <1>0, <2>1, <2>2 DEF HTypeInv, HTypeOK, TypeInv, below, locals, search
<1>5. CASE BuildInner
  <2>1. TypeOK' /\ Control'
    BY <1>0, <1>5 DEF BuildInner, TypeInv, TypeOK, Control, vars, locals, search
  <2>2. HTypeOK'
    BY <1>0, <1>5, <2>1 DEF BuildInner, HTypeOK
  <2> QED
    BY <1>0, <1>5, <2>1, <2>2 DEF HTypeInv, TypeInv, BuildInner, vars, locals, search
<1>6. CASE UNCHANGED hvars
  <2>1. UNCHANGED vars /\ UNCHANGED <<below, spare>>
    BY <1>6 DEF hvars
  <2> QED
    BY <1>3, <2>1 DEF Shared
<1> QED
  BY <1>1, <1>2, <1>3, <1>4, <1>5, <1>6 DEF HNext, HStep, Done, Shared

\* In every reachable state of the build of a level the variables have their types.
THEOREM HTypeCorrect == HSpec => []HTypeOK
<1>1. HSpec => []HTypeInv
  BY HTypeInit, HTypeStep, PTL DEF HSpec
<1>2. HTypeInv => HTypeOK
  BY DEF HTypeInv
<1> QED
  BY <1>1, <1>2, PTL

----------------------------------------------------------------------------
(* When a location is published, and how the lists change.                 *)

\* What is left of a step besides those that write a list or publish a location.
LEMMA HQuietSteps ==
    ASSUME NEW t \in Threads,
           \/ HBeginLocation(t) \/ HExpand(t) \/ EndLocation(t)
           \/ BuildInner \/ Barrier \/ Finish \/ UNCHANGED hvars
    PROVE  outNbrs' = outNbrs
BY DEF HBeginLocation, HExpand, EndLocation, BuildInner, Barrier, Finish, hvars, vars

\* A location stays published.
LEMMA HPublishedStable ==
    ASSUME HTypeInv, [HNext]_hvars, NEW p \in Points, Published(p)
    PROVE  Published(p)'
<1> SUFFICES ASSUME NEW u \in Threads
             PROVE  p \notin todo'[u] /\ ~ (loc'[u] = p /\ pc'[u] = "search")
  BY DEF Published
<1>0. /\ p \notin todo[u] /\ ~ (loc[u] = p /\ pc[u] = "search")
      /\ todo \in [Threads -> SUBSET Points]
      /\ pc \in [Threads -> {"next", "search", "reciprocal", "overwrite"}]
      /\ loc \in [Threads -> Points \cup {None}]
      /\ p # None
      /\ TypeInv
  BY DEF Published, HTypeInv, TypeInv, TypeOK
<1>1. ASSUME NEW t \in Threads, HBeginLocation(t)
      PROVE  p \notin todo'[u] /\ ~ (loc'[u] = p /\ pc'[u] = "search")
  <2>1. PICK q \in todo[t] : /\ todo' = [todo EXCEPT ![t] = @ \ {q}]
                             /\ loc' = [loc EXCEPT ![t] = q]
                             /\ pc' = [pc EXCEPT ![t] = "search"]
    BY <1>1 DEF HBeginLocation
  <2>2. q # p
    BY <2>1 DEF Published
  <2> QED
    BY <1>0, <2>1, <2>2
<1>2. ASSUME NEW t \in Threads, HExpand(t) \/ HPublish(t)
      PROVE  p \notin todo'[u] /\ ~ (loc'[u] = p /\ pc'[u] = "search")
  BY <1>0, <1>2 DEF HExpand, HPublish
<1>3. ASSUME NEW node \in Points, HCleanUp(node)
      PROVE  p \notin todo'[u] /\ ~ (loc'[u] = p /\ pc'[u] = "search")
  BY <1>0, <1>3 DEF HCleanUp, locals
<1>4. CASE Shared
  <2>1. Published(p)'
    BY <1>0, <1>4, SharedIsNext, PublishedStable
  <2> QED
    BY <2>1 DEF Published
<1>5. CASE BuildInner \/ UNCHANGED hvars
  BY <1>0, <1>5 DEF BuildInner, hvars, vars, locals
<1> QED
  BY <1>1, <1>2, <1>3, <1>4, <1>5 DEF HNext, HStep, Done, Shared

\* Only the append of its links publishes a location.
LEMMA HPublishedOnly ==
    ASSUME HTypeInv, [HNext]_hvars, NEW p \in Points, Published(p)', ~ Published(p)
    PROVE  \E t \in Threads : HPublish(t) /\ loc[t] = p
<1> SUFFICES ASSUME \A t \in Threads : HPublish(t) => loc[t] # p
             PROVE  FALSE
  OBVIOUS
<1>0. /\ todo \in [Threads -> SUBSET Points]
      /\ pc \in [Threads -> {"next", "search", "reciprocal", "overwrite"}]
      /\ loc \in [Threads -> Points \cup {None}]
      /\ p # None
      /\ TypeInv
  BY DEF HTypeInv, TypeInv, TypeOK
<1>1. PICK u \in Threads : p \in todo[u] \/ (loc[u] = p /\ pc[u] = "search")
  BY DEF Published
<1>2. p \notin todo'[u] /\ ~ (loc'[u] = p /\ pc'[u] = "search")
  BY DEF Published
<1>3. ASSUME NEW t \in Threads, HBeginLocation(t)
      PROVE  FALSE
  <2>1. PICK q \in todo[t] : /\ todo' = [todo EXCEPT ![t] = @ \ {q}]
                             /\ loc' = [loc EXCEPT ![t] = q]
    BY <1>3 DEF HBeginLocation
  <2>2. pc[t] = "next" /\ pc' = [pc EXCEPT ![t] = "search"]
    BY <1>3 DEF HBeginLocation
  <2> QED
    BY <1>0, <1>1, <1>2, <2>1, <2>2
<1>4. ASSUME NEW t \in Threads, HPublish(t)
      PROVE  FALSE
  <2>1. /\ loc' = loc /\ todo' = todo /\ loc[t] # p
        /\ pc' = [pc EXCEPT ![t] = "reciprocal"]
    BY <1>4 DEF HPublish
  <2> QED
    BY <1>0, <1>1, <1>2, <2>1
<1>5. ASSUME NEW t \in Threads, HExpand(t) \/ Reciprocal(t)
      PROVE  FALSE
  BY <1>0, <1>1, <1>2, <1>5 DEF HExpand, Reciprocal
<1>6. ASSUME NEW t \in Threads, Overwrite(t) \/ EndLocation(t)
      PROVE  FALSE
  BY <1>0, <1>1, <1>2, <1>6 DEF Overwrite, EndLocation
<1>7. ASSUME NEW node \in Points, HCleanUp(node)
      PROVE  FALSE
  BY <1>1, <1>2, <1>7 DEF HCleanUp, locals
<1>8. CASE BuildInner \/ Barrier \/ Finish \/ UNCHANGED hvars
  BY <1>1, <1>2, <1>8 DEF BuildInner, Barrier, Finish, hvars, vars, locals
<1> QED
  BY <1>3, <1>4, <1>5, <1>6, <1>7, <1>8 DEF HNext, HStep, Done

\* A thread that publishes is done with the search.
LEMMA HPublishPublishes ==
    ASSUME HTypeInv, [HNext]_hvars, NEW t \in Threads, HPublish(t)
    PROVE  Published(loc[t])' /\ ~ Published(loc[t])
<1>1. /\ pc[t] = "search" /\ loc[t] \in Points /\ loc' = loc
      /\ pc' = [pc EXCEPT ![t] = "reciprocal"]
  BY HPublishEffect
<1>2. TypeInv'
  BY HTypeStep DEF HTypeInv
<1>3. (TypeInv => HeldPublished)'
  BY HeldArePublished, PTL
<1>4. pc'[t] = "reciprocal"
  BY <1>1 DEF HTypeInv, TypeInv, TypeOK
<1>5. (Published(loc[t]))'
  BY <1>2, <1>3, <1>4 DEF HeldPublished
<1> QED
  BY <1>1, <1>5 DEF Published

----------------------------------------------------------------------------
(* No self-loops: the slots are pruned of the location too.                *)

LEMMA HEdgeStep == HTypeInv /\ EdgeInv /\ [HNext]_hvars => EdgeInv'
<1> SUFFICES ASSUME HTypeInv, EdgeInv, [HNext]_hvars
             PROVE  EdgeInv'
  OBVIOUS
<1>0. /\ TypeInv
      /\ links \in [Threads -> Seq(Points)] /\ copied \in [Threads -> Seq(Points)]
      /\ pc \in [Threads -> {"next", "search", "reciprocal", "overwrite"}]
      /\ loc \in [Threads -> Points \cup {None}]
  BY DEF HTypeInv, TypeInv, TypeOK
<1>1. ASSUME NEW t \in Threads, HPublish(t)
      PROVE  EdgeInv'
  <2>1. NoSelfLoops'
    <3>1. /\ loc[t] \in Points /\ loc[t] \notin Range(links'[t])
          /\ \A q \in Points : q # loc[t] => outNbrs'[q] = outNbrs[q]
          /\ Range(outNbrs'[loc[t]]) = Range(outNbrs[loc[t]]) \cup Range(links'[t])
      BY <1>1, HPublishEffect
    <3>2. \A q \in Points : q \notin Range(outNbrs[q])
      BY DEF EdgeInv, NoSelfLoops
    <3>3. \A q \in Points : q \notin Range(outNbrs'[q])
      BY <3>1, <3>2
    <3> QED
      BY <3>3 DEF NoSelfLoops
  <2>2. \A u \in Threads :
          /\ pc'[u] \in {"reciprocal", "overwrite"} => loc'[u] \notin Range(links'[u])
          /\ pc'[u] = "overwrite" => loc'[u] \in Range(copied'[u])
    BY <1>0, <1>1, HPublishEffect DEF EdgeInv
  <2> QED
    BY <2>1, <2>2 DEF EdgeInv
<1>2. CASE Shared
  BY <1>0, <1>2, SharedIsNext, EdgeStep
<1>3. ASSUME NEW node \in Points, HCleanUp(node)
      PROVE  EdgeInv'
  <2>1. NoSelfLoops'
    BY <1>0, <1>3, HCleanUpEffect DEF EdgeInv, NoSelfLoops
  <2>2. UNCHANGED <<pc, loc, links, copied>>
    BY <1>0, <1>3, HCleanUpEffect DEF locals
  <2> QED
    BY <2>1, <2>2 DEF EdgeInv
<1>4. ASSUME NEW t \in Threads, HBeginLocation(t) \/ HExpand(t)
      PROVE  EdgeInv'
  BY <1>0, <1>4 DEF EdgeInv, NoSelfLoops, HBeginLocation, HExpand
<1>5. CASE BuildInner \/ UNCHANGED hvars
  BY <1>5 DEF EdgeInv, NoSelfLoops, BuildInner, hvars, vars, locals
<1> QED
  BY <1>1, <1>2, <1>3, <1>4, <1>5 DEF HNext, HStep, Done, Shared

\* In the build of a level, too, no list ever holds its own point.
THEOREM HNoSelfLoops == HSpec => []NoSelfLoops
<1>1. HInit => EdgeInv
  BY RangeFacts DEF HInit, Init, EdgeInv, NoSelfLoops, Range
<1>2. HSpec => [](HTypeInv /\ EdgeInv)
  BY <1>1, HTypeInit, HTypeStep, HEdgeStep, PTL DEF HSpec
<1>3. EdgeInv => NoSelfLoops
  BY DEF EdgeInv
<1> QED
  BY <1>2, <1>3, PTL

----------------------------------------------------------------------------
(* The slack.                                                              *)

\* The bound on the list of one point.
HWithin(p) ==
    10 * Len(outNbrs[p]) < 13 * R + 10 + (IF Published(p) THEN 10 * R ELSE 0)

LEMMA HSlackStep ==
    ASSUME HTypeInv, [HNext]_hvars, NEW p \in Points, HWithin(p)
    PROVE  HWithin(p)'
<1>0. R \in Nat \ {0} /\ Len(outNbrs[p]) \in Nat /\ TypeInv
  <2>1. outNbrs[p] \in Seq(Points)
    BY DEF HTypeInv, TypeInv, TypeOK
  <2> QED
    BY <2>1, RangeFacts, SizeAssumption DEF HTypeInv
<1>1. Published(p) => Published(p)'
  BY HPublishedStable
<1>2. ASSUME outNbrs'[p] = outNbrs[p]
      PROVE  HWithin(p)'
  BY <1>0, <1>1, <1>2 DEF HWithin
<1>3. ASSUME Len(outNbrs'[p]) \in Nat, Len(outNbrs'[p]) <= R
      PROVE  HWithin(p)'
  BY <1>0, <1>3 DEF HWithin
<1>4. ASSUME NEW t \in Threads, HPublish(t)
      PROVE  HWithin(p)'
  <2>1. CASE p # loc[t]
    BY <1>2, <1>4, <2>1, HPublishEffect
  <2>2. CASE p = loc[t]
    <3>1. /\ Len(outNbrs'[p]) = Len(outNbrs[p]) + Len(links'[t])
          /\ Len(links'[t]) \in Nat /\ Len(links'[t]) <= R
          /\ loc' = loc
      BY <1>4, <2>2, HPublishEffect
    <3>2. Published(loc[t])' /\ ~ Published(loc[t])
      BY <1>4, HPublishPublishes
    <3>3. 10 * Len(outNbrs[p]) < 13 * R + 10
      BY <1>0, <2>2, <3>2 DEF HWithin
    <3>4. 10 * Len(outNbrs'[p]) < 13 * R + 10 + 10 * R
      <4>1. \A a, b \in Nat :
               10 * a < 13 * R + 10 /\ b <= R => 10 * (a + b) < 13 * R + 10 + 10 * R
        BY SizeAssumption
      <4>2. 10 * (Len(outNbrs[p]) + Len(links'[t])) < 13 * R + 10 + 10 * R
        BY <1>0, <3>1, <3>3, <4>1
      <4> QED
        BY <3>1, <4>2
    <3>5. Published(p)'
      BY <2>2, <3>1, <3>2 DEF Published
    <3> QED
      BY <3>4, <3>5 DEF HWithin
  <2> QED
    BY <2>1, <2>2
<1>5. ASSUME NEW t \in Threads, Reciprocal(t)
      PROVE  HWithin(p)'
  <2>1. CASE outNbrs'[p] = outNbrs[p]
    BY <1>2, <2>1
  <2>2. CASE outNbrs'[p] # outNbrs[p]
    <3>1. BelowSlack(outNbrs[p]) /\ Len(outNbrs'[p]) = Len(outNbrs[p]) + 1
      BY <1>0, <1>5, <2>2, ReciprocalEffect
    <3> QED
      BY <1>0, <3>1 DEF HWithin, BelowSlack
  <2> QED
    BY <2>1, <2>2
<1>6. ASSUME NEW t \in Threads, Overwrite(t)
      PROVE  HWithin(p)'
  BY <1>0, <1>2, <1>3, <1>6, OverwriteEffect
<1>7. ASSUME NEW node \in Points, HCleanUp(node)
      PROVE  HWithin(p)'
  BY <1>0, <1>2, <1>3, <1>7, HCleanUpEffect
<1>8. CASE outNbrs' = outNbrs
  BY <1>2, <1>8
<1>9. \E t \in Threads : TRUE
  BY SizeAssumption
<1> QED
  BY <1>4, <1>5, <1>6, <1>7, <1>8, <1>9, HQuietSteps DEF HNext, HStep, Done

\* No list outgrows the slack by more than the links of its own location.
THEOREM HSlack == HSpec => []HSlackBound
<1>1. HInit => HSlackBound
  <2>1. Len(<< >>) = 0 /\ R \in Nat \ {0}
    BY SizeAssumption
  <2> QED
    BY <2>1 DEF HInit, Init, HSlackBound
<1>2. HTypeInv /\ HSlackBound /\ [HNext]_hvars => HSlackBound'
  <2>1. HSlackBound <=> \A p \in Points : HWithin(p)
    BY DEF HSlackBound, HWithin
  <2>2. HSlackBound' <=> \A p \in Points : HWithin(p)'
    BY DEF HSlackBound, HWithin
  <2> QED
    BY <2>1, <2>2, HSlackStep
<1> QED
  BY <1>1, <1>2, HTypeInit, HTypeStep, PTL DEF HSpec

----------------------------------------------------------------------------
(* Connectivity.                                                           *)

LEMMA HStrandedStep ==
    ASSUME HTypeInv, EdgeInv, HNeverStranded, [HNext]_hvars,
           NEW p \in Points \ {0}, Published(p)'
    PROVE  outNbrs'[p] # << >>
<1>0. TypeInv /\ outNbrs[p] \in Seq(Points) /\ p \notin Range(outNbrs[p])
  BY DEF HTypeInv, TypeInv, TypeOK, EdgeInv, NoSelfLoops
<1>1. ASSUME ~ Published(p)
      PROVE  outNbrs'[p] # << >>
  <2>1. PICK t \in Threads : HPublish(t) /\ loc[t] = p
    BY <1>1, HPublishedOnly
  <2>2. /\ outNbrs'[p] = outNbrs[p] \o links'[t]
        /\ links'[t] \in Seq(Points) /\ links'[t] # << >>
    BY <2>1, HPublishEffect
  <2> QED
    BY <1>0, <2>2, ConcatProperties
<1>2. ASSUME Published(p)
      PROVE  outNbrs'[p] # << >>
  <2>0. outNbrs[p] # << >> /\ Range(outNbrs[p]) # {}
    <3>1. outNbrs[p] # << >>
      BY <1>2 DEF HNeverStranded
    <3> QED
      BY <1>0, <3>1, RangeFacts
  <2>1. ASSUME NEW t \in Threads, HPublish(t)
        PROVE  outNbrs'[p] # << >>
    <3>1. p # loc[t]
      BY <1>2, <2>1, HPublishPublishes
    <3>2. \A q \in Points : q # loc[t] => outNbrs'[q] = outNbrs[q]
      BY <2>1, HPublishEffect
    <3> QED
      BY <2>0, <3>1, <3>2
  <2>2. ASSUME NEW t \in Threads, Reciprocal(t)
        PROVE  outNbrs'[p] # << >>
    <3>1. \/ outNbrs'[p] = outNbrs[p]
          \/ loc[t] \in Points /\ outNbrs'[p] = Append(outNbrs[p], loc[t])
      BY <1>0, <2>2, ReciprocalEffect
    <3> QED
      BY <1>0, <2>0, <3>1, AppendProperties
  <2>3. ASSUME NEW t \in Threads, Overwrite(t)
        PROVE  outNbrs'[p] # << >>
    <3> DEFINE des == links[t][idx[t]]
    <3>1. /\ pc[t] = "overwrite" /\ des \in Range(links[t])
          /\ \A q \in Points : q # des => outNbrs'[q] = outNbrs[q]
          /\ Range(copied[t]) \ {des} # {} => outNbrs'[des] # << >>
      BY <1>0, <2>3, OverwriteEffect
    <3>2. loc[t] \in Range(copied[t]) /\ loc[t] # des
      BY <3>1 DEF EdgeInv
    <3> HIDE DEF des
    <3> QED
      BY <2>0, <3>1, <3>2
  <2>4. ASSUME NEW node \in Points, HCleanUp(node)
        PROVE  outNbrs'[p] # << >>
    <3>1. /\ \A q \in Points : q # node => outNbrs'[q] = outNbrs[q]
          /\ \/ outNbrs' = outNbrs
             \/ Range(outNbrs[node]) \ {node} # {} => outNbrs'[node] # << >>
      BY <1>0, <2>4, HCleanUpEffect
    <3>2. CASE p # node
      BY <2>0, <3>1, <3>2
    <3>3. CASE p = node
      <4>1. Range(outNbrs[p]) \ {p} # {}
        BY <1>0, <2>0
      <4> QED
        BY <2>0, <3>1, <3>3, <4>1
    <3> QED
      BY <3>2, <3>3
  <2>5. CASE outNbrs' = outNbrs
    BY <2>0, <2>5
  <2>6. \E t \in Threads : TRUE
    BY SizeAssumption
  <2> QED
    BY <2>1, <2>2, <2>3, <2>4, <2>5, <2>6, HQuietSteps DEF HNext, HStep, Done
<1> QED
  BY <1>1, <1>2

\* A published location keeps an out-edge through every overwrite and prune.
THEOREM HConnected == HSpec => []HNeverStranded
<1>1. HInit => EdgeInv
  BY RangeFacts DEF HInit, Init, EdgeInv, NoSelfLoops, Range
<1>2. HInit => HNeverStranded
  <2> SUFFICES ASSUME HInit, NEW p \in Points
               PROVE  ~ Published(p)
    BY DEF HNeverStranded
  <2>1. \E t \in Threads : p \in Owned(t)
    <3>1. p \div CHUNK \in Nat
      BY SizeAssumption
    <3>2. (p \div CHUNK) % T \in Threads
      BY <3>1, SizeAssumption
    <3> QED
      BY <3>2 DEF Owned
  <2> QED
    BY <2>1 DEF HInit, Init, Published
<1>3. HTypeInv /\ EdgeInv /\ HNeverStranded /\ [HNext]_hvars => HNeverStranded'
  <2>1. HNeverStranded' <=> \A p \in Points \ {0} : Published(p)' => outNbrs'[p] # << >>
    BY DEF HNeverStranded
  <2> QED
    BY <2>1, HStrandedStep
<1> QED
  BY <1>1, <1>2, <1>3, HTypeInit, HTypeStep, HEdgeStep, PTL DEF HSpec

----------------------------------------------------------------------------
(* Repeated edges.  A list that only others have written repeats nothing;  *)
(* the links appended to it repeat nothing among themselves either.        *)

OnceIn(s) == \A i, j \in 1..Len(s) : s[i] = s[j] /\ s[i] # 0 => i = j

TwiceIn(s) ==
    \A i, j, k \in 1..Len(s) :
        s[i] = s[j] /\ s[j] = s[k] /\ s[i] # 0 => i = j \/ j = k \/ i = k

RepeatInv ==
    \A p \in Points : /\ TwiceIn(outNbrs[p])
                      /\ ~ Published(p) => OnceIn(outNbrs[p])

LEMMA OnceIsTwice ==
    ASSUME NEW s \in Seq(Points), OnceIn(s)
    PROVE  TwiceIn(s)
BY DEF OnceIn, TwiceIn

LEMMA OnceAndOnce ==
    ASSUME NEW s \in Seq(Points), NEW r \in Seq(Points), OnceIn(s), OnceIn(r)
    PROVE  TwiceIn(s \o r)
<1> DEFINE m == Len(s)
           n == Len(r)
<1>1. m \in Nat /\ n \in Nat
  BY LenProperties
<1>2. /\ Len(s \o r) = m + n
      /\ \A i \in 1..(m + n) : (s \o r)[i] = IF i <= m THEN s[i] ELSE r[i - m]
  BY ConcatProperties
<1>3. \A i, j \in 1..m : s[i] = s[j] /\ s[i] # 0 => i = j
  BY DEF OnceIn
<1>4. \A i, j \in 1..n : r[i] = r[j] /\ r[i] # 0 => i = j
  BY DEF OnceIn
<1> DEFINE c == s \o r
<1> HIDE DEF m, n, c
<1>5. \A i, j \in 1..(m + n) : c[i] = c[j] /\ c[i] # 0 =>
         i = j \/ (i <= m /\ j > m) \/ (j <= m /\ i > m)
  <2> SUFFICES ASSUME NEW i \in 1..(m + n), NEW j \in 1..(m + n), c[i] = c[j], c[i] # 0
               PROVE  i = j \/ (i <= m /\ j > m) \/ (j <= m /\ i > m)
    OBVIOUS
  <2>1. CASE i <= m /\ j <= m
    BY <1>1, <1>2, <1>3, <2>1 DEF c
  <2>2. CASE i > m /\ j > m
    <3>1. c[i] = r[i - m] /\ c[j] = r[j - m] /\ i - m \in 1..n /\ j - m \in 1..n
      BY <1>1, <1>2, <2>2 DEF c
    <3>2. i - m = j - m
      BY <1>4, <3>1
    <3> QED
      BY <1>1, <3>2
  <2> QED
    BY <1>1, <2>1, <2>2
<1>6. Len(c) = m + n
  BY <1>2 DEF c
<1>7. TwiceIn(c)
  <2> SUFFICES ASSUME NEW i \in 1..(m + n), NEW j \in 1..(m + n), NEW k \in 1..(m + n),
                      c[i] = c[j], c[j] = c[k], c[i] # 0
               PROVE  i = j \/ j = k \/ i = k
    BY <1>6 DEF TwiceIn
  <2>1. i = j \/ (i <= m /\ j > m) \/ (j <= m /\ i > m)
    BY <1>5
  <2>2. j = k \/ (j <= m /\ k > m) \/ (k <= m /\ j > m)
    BY <1>5
  <2>3. i = k \/ (i <= m /\ k > m) \/ (k <= m /\ i > m)
    BY <1>5
  <2> QED
    BY <1>1, <2>1, <2>2, <2>3
<1> QED
  BY <1>7 DEF c

\* An edge that the list does not hold is appended.
LEMMA AppendRepeatsNothing ==
    ASSUME NEW s \in Seq(Points), NEW x \in Points, x \notin Range(s)
    PROVE  /\ OnceIn(s) => OnceIn(Append(s, x))
           /\ TwiceIn(s) => TwiceIn(Append(s, x))
<1> DEFINE n == Len(s)
           a == Append(s, x)
<1>1. n \in Nat /\ Len(a) = n + 1
  BY LenProperties, AppendProperties
<1>2. a[n + 1] = x /\ \A i \in 1..n : a[i] = s[i]
  BY AppendProperties
<1>3. \A i \in 1..n : s[i] # x
  BY RangeEquality
<1> HIDE DEF a
<1>4. ASSUME OnceIn(s)
      PROVE  OnceIn(a)
  <2>1. \A i, j \in 1..n : s[i] = s[j] /\ s[i] # 0 => i = j
    BY <1>4 DEF OnceIn
  <2> HIDE DEF n
  <2> SUFFICES ASSUME NEW i \in 1..(n + 1), NEW j \in 1..(n + 1), a[i] = a[j], a[i] # 0
               PROVE  i = j
    BY <1>1 DEF OnceIn
  <2>2. CASE i \in 1..n /\ j \in 1..n
    BY <1>2, <2>1, <2>2
  <2>3. CASE i = n + 1 \/ j = n + 1
    BY <1>1, <1>2, <1>3, <2>3
  <2> QED
    BY <1>1, <2>2, <2>3
<1>5. ASSUME TwiceIn(s)
      PROVE  TwiceIn(a)
  <2>1. \A i, j, k \in 1..n :
           s[i] = s[j] /\ s[j] = s[k] /\ s[i] # 0 => i = j \/ j = k \/ i = k
    BY <1>5 DEF TwiceIn
  <2> HIDE DEF n
  <2> SUFFICES ASSUME NEW i \in 1..(n + 1), NEW j \in 1..(n + 1), NEW k \in 1..(n + 1),
                      a[i] = a[j], a[j] = a[k], a[i] # 0
               PROVE  i = j \/ j = k \/ i = k
    BY <1>1 DEF TwiceIn
  <2>2. CASE i \in 1..n /\ j \in 1..n /\ k \in 1..n
    BY <1>2, <2>1, <2>2
  <2>3. CASE i = n + 1 \/ j = n + 1 \/ k = n + 1
    BY <1>1, <1>2, <1>3, <2>3
  <2> QED
    BY <1>1, <2>2, <2>3
<1> QED
  BY <1>4, <1>5 DEF a

\* An edge is at two places at most.
LEMMA TwoPlaces ==
    ASSUME NEW s \in Seq(Points), TwiceIn(s), NEW x \in Points \ {0}
    PROVE  Cardinality({i \in 1..Len(s) : s[i] = x}) <= 2
<1> DEFINE S == {i \in 1..Len(s) : s[i] = x}
<1>1. \A i, j, k \in S : i = j \/ j = k \/ i = k
  BY DEF TwiceIn
<1> HIDE DEF S
<1>2. ASSUME S = {}
      PROVE  Cardinality(S) <= 2
  BY <1>2, FS_EmptySet
<1>3. ASSUME NEW i \in S
      PROVE  Cardinality(S) <= 2
  <2>1. IsFiniteSet({i}) /\ Cardinality({i}) = 1
    BY FS_Singleton
  <2>2. CASE S = {i}
    BY <2>1, <2>2
  <2>3. CASE S # {i}
    <3>1. PICK j \in S : j # i
      BY <1>3, <2>3
    <3>2. S = {i} \cup {j}
      BY <1>1, <1>3, <3>1
    <3>3. Cardinality({i} \cup {j}) = Cardinality({i}) + 1
      <4>1. j \notin {i}
        BY <3>1
      <4> QED
        BY ONLY <2>1, <4>1, FS_AddElement
    <3>4. Cardinality(S) = Cardinality({i}) + 1
      BY ONLY <3>2, <3>3
    <3>5. Cardinality({i}) + 1 = 2
      BY ONLY <2>1
    <3>6. Cardinality(S) = 2
      BY ONLY <3>4, <3>5
    <3> QED
      BY ONLY <3>6
  <2> QED
    BY <2>2, <2>3
<1>4. Cardinality(S) <= 2
  BY <1>2, <1>3
<1> QED
  BY <1>4 DEF S

LEMMA RepeatStep ==
    ASSUME HTypeInv, RepeatInv, [HNext]_hvars, NEW p \in Points
    PROVE  TwiceIn(outNbrs'[p]) /\ (~ Published(p)' => OnceIn(outNbrs'[p]))
<1> DEFINE Goal == TwiceIn(outNbrs'[p]) /\ (~ Published(p)' => OnceIn(outNbrs'[p]))
<1>0. /\ TypeInv /\ outNbrs[p] \in Seq(Points) /\ outNbrs'[p] \in Seq(Points)
      /\ TwiceIn(outNbrs[p]) /\ (~ Published(p) => OnceIn(outNbrs[p]))
  <2>1. HTypeInv'
    BY HTypeStep
  <2> QED
    BY <2>1 DEF HTypeInv, TypeInv, TypeOK, RepeatInv
<1>1. Published(p) => Published(p)'
  BY HPublishedStable
<1>2. ASSUME outNbrs'[p] = outNbrs[p]
      PROVE  Goal
  BY <1>0, <1>1, <1>2
<1>3. ASSUME \A i, j \in 1..Len(outNbrs'[p]) : outNbrs'[p][i] = outNbrs'[p][j] => i = j
      PROVE  Goal
  <2>1. OnceIn(outNbrs'[p])
    BY <1>3 DEF OnceIn
  <2> QED
    BY <1>0, <2>1, OnceIsTwice
<1>4. ASSUME NEW t \in Threads, HPublish(t)
      PROVE  Goal
  <2>1. CASE p # loc[t]
    BY <1>2, <1>4, <2>1, HPublishEffect
  <2>2. CASE p = loc[t]
    <3>1. /\ outNbrs'[p] = outNbrs[p] \o links'[t]
          /\ links'[t] \in Seq(Points)
          /\ \A i, j \in 1..Len(links'[t]) :
                links'[t][i] = links'[t][j] /\ links'[t][i] # 0 => i = j
          /\ loc' = loc
      BY <1>4, <2>2, HPublishEffect
    <3>2. OnceIn(links'[t])
      BY <3>1 DEF OnceIn
    <3>3. Published(loc[t])' /\ ~ Published(loc[t])
      BY <1>4, HPublishPublishes
    <3>4. OnceIn(outNbrs[p]) /\ Published(p)'
      BY <1>0, <2>2, <3>1, <3>3 DEF Published
    <3>5. TwiceIn(outNbrs[p] \o links'[t])
      BY <1>0, <3>1, <3>2, <3>4, OnceAndOnce
    <3> QED
      BY <3>1, <3>4, <3>5
  <2> QED
    BY <2>1, <2>2
<1>5. ASSUME NEW t \in Threads, Reciprocal(t)
      PROVE  Goal
  <2>1. CASE outNbrs'[p] = outNbrs[p]
    BY <1>2, <2>1
  <2>2. CASE outNbrs'[p] # outNbrs[p]
    <3>1. /\ outNbrs'[p] = Append(outNbrs[p], loc[t])
          /\ loc[t] \in Points /\ loc[t] \notin Range(outNbrs[p])
      BY <1>0, <1>5, <2>2, ReciprocalEffect
    <3>2. /\ OnceIn(outNbrs[p]) => OnceIn(Append(outNbrs[p], loc[t]))
          /\ TwiceIn(outNbrs[p]) => TwiceIn(Append(outNbrs[p], loc[t]))
      BY <1>0, <3>1, AppendRepeatsNothing
    <3> QED
      BY <1>0, <1>1, <3>1, <3>2
  <2> QED
    BY <2>1, <2>2
<1>6. ASSUME NEW t \in Threads, Overwrite(t)
      PROVE  Goal
  <2> DEFINE des == links[t][idx[t]]
  <2>1. /\ \A q \in Points : q # des => outNbrs'[q] = outNbrs[q]
        /\ \A i, j \in 1..Len(outNbrs'[des]) : outNbrs'[des][i] = outNbrs'[des][j] => i = j
    BY <1>0, <1>6, OverwriteEffect
  <2> HIDE DEF des
  <2>2. CASE p # des
    BY <1>2, <2>1, <2>2
  <2>3. CASE p = des
    BY <1>3, <2>1, <2>3
  <2> QED
    BY <2>2, <2>3
<1>7. ASSUME NEW node \in Points, HCleanUp(node)
      PROVE  Goal
  <2>1. /\ \A q \in Points : q # node => outNbrs'[q] = outNbrs[q]
        /\ \/ outNbrs' = outNbrs
           \/ \A i, j \in 1..Len(outNbrs'[node]) :
                 outNbrs'[node][i] = outNbrs'[node][j] => i = j
    BY <1>0, <1>7, HCleanUpEffect
  <2>2. CASE p # node \/ outNbrs' = outNbrs
    BY <1>2, <2>1, <2>2
  <2>3. CASE p = node /\ outNbrs' # outNbrs
    BY <1>3, <2>1, <2>3
  <2> QED
    BY <2>2, <2>3
<1>8. CASE outNbrs' = outNbrs
  BY <1>2, <1>8
<1>9. \E t \in Threads : TRUE
  BY SizeAssumption
<1> QED
  BY <1>4, <1>5, <1>6, <1>7, <1>8, <1>9, HQuietSteps DEF HNext, HStep, Done

\* Whatever is copied, pruned and overwritten without its lock, no list has an edge to a
\* point other than point 0 more than twice.
THEOREM HRepeatedOnce == HSpec => []RepeatedOnce
<1>1. HInit => RepeatInv
  BY DEF HInit, Init, RepeatInv, TwiceIn, OnceIn
<1>2. HTypeInv /\ RepeatInv /\ [HNext]_hvars => RepeatInv'
  <2>1. RepeatInv' <=> \A p \in Points :
            TwiceIn(outNbrs'[p]) /\ (~ Published(p)' => OnceIn(outNbrs'[p]))
    BY DEF RepeatInv, TwiceIn, OnceIn
  <2> QED
    BY <2>1, RepeatStep
<1>3. HTypeInv /\ RepeatInv => RepeatedOnce
  <2> SUFFICES ASSUME HTypeInv, RepeatInv, NEW p \in Points, NEW x \in Points \ {0}
               PROVE  Cardinality({i \in 1..Len(outNbrs[p]) : outNbrs[p][i] = x}) <= 2
    BY DEF RepeatedOnce
  <2>1. outNbrs[p] \in Seq(Points) /\ TwiceIn(outNbrs[p])
    BY DEF HTypeInv, TypeInv, TypeOK, RepeatInv
  <2> QED
    BY <2>1, TwoPlaces
<1> QED
  BY <1>1, <1>2, <1>3, HTypeInit, HTypeStep, PTL DEF HSpec

----------------------------------------------------------------------------
(* The levels on disk.                                                     *)

\* Level n of the path is that of index i.
OnDisk(i, n) == \A k \in Kinds : disk[<<n, k>>] = File(i, n)

\* The files of a level in the order of their writing.
Rank(k) == CASE k = "data" -> 1 [] k = "tags" -> 2 [] k = "graph" -> 3

Shape ==
    /\ disk = [f \in LevelNumbers \X Kinds |-> disk[f]]
    /\ obj = [n \in LevelNumbers |-> obj[n]]
    /\ mode \in Kinds \cup {"idle", "load", "ready", "search", "answered", "undefined"}
    /\ mode \in Kinds => saved \in Indexes /\ at \in 0..Height(saved)
    /\ at \in LevelNumbers /\ top \in LevelNumbers
    /\ mode = "load" => at <= top
    /\ mode = "search" => at <= top
    /\ committed \in Indexes \cup {NoIndex}
    /\ faults \in Nat

\* What a save has written is the index, in the levels below and in this one.
SaveInv ==
    mode \in Kinds =>
        \A n \in 0..Height(saved), k \in Kinds :
            n < at \/ (n = at /\ Rank(k) < Rank(mode)) => disk[<<n, k>>] = File(saved, n)

\* What it has not is still the index saved before.
RestInv ==
    mode \in Kinds /\ faults = 0 /\ committed # NoIndex =>
        \A n \in 0..Height(committed), k \in Kinds :
            n > at \/ (n = at /\ Rank(k) >= Rank(mode)) => disk[<<n, k>>] = File(committed, n)

\* A save that completes leaves its index.
WholeInv ==
    mode \notin Kinds /\ faults = 0 /\ committed # NoIndex =>
        \A n \in 0..Height(committed) : OnDisk(committed, n)

SplitAt(split) ==
    \A n \in LevelNumbers :
        /\ n < split => OnDisk(saved, n)
        /\ n > split /\ committed # NoIndex /\ n <= Height(committed) => OnDisk(committed, n)

SplitInv == mode \notin Kinds /\ faults = 1 => \E split \in LevelNumbers : SplitAt(split)

\* The levels of the object are those at the path.
ObjInv ==
    \A n \in LevelNumbers :
        \/ mode = "load" /\ n < at
        \/ mode \in {"ready", "search", "answered", "undefined"} /\ n <= top
        => obj[n] = ReadLevel(n)

\* Where a search of levels of one index has come to; OfIndex says it for one index.
OfIndex(i) ==
    /\ mode = "undefined" => ~ WholeUpTo(i, at)
    /\ mode = "search" /\ at > 0 /\ WholeUpTo(i, at - 1) =>
          seeds # {} /\ seeds \subseteq Tags(i, at - 1)
    /\ mode = "answered" /\ WholeUpTo(i, top) => seeds # {} /\ seeds \subseteq Tags(i, top)

Descent ==
    /\ \A i \in Indexes : OfIndex(i)
    /\ mode = "search" /\ at = 0 => seeds # {} /\ seeds \subseteq Positions(obj[0].graph, 0)

LevelsInv ==
    Shape /\ SaveInv /\ RestInv /\ WholeInv /\ SplitInv /\ ObjInv /\ Descent

LEMMA Heights ==
    ASSUME NEW i \in Indexes
    PROVE  /\ Height(i) \in Nat /\ Height(i) \in LevelNumbers /\ 0..Height(i) \subseteq LevelNumbers
           /\ \A n \in 0..Height(i) : Size(i, n) \in Nat \ {0}
BY LevelsAssumption DEF LevelNumbers

\* The tags of a level are positions in the level above.
LEMMA TagsInside ==
    ASSUME NEW i \in Indexes, NEW n \in 0..Height(i), n < Height(i)
    PROVE  Tags(i, n) \subseteq Positions(i, n + 1)
<1>1. Height(i) \in Nat /\ n \in 0..(Height(i) - 1) /\ n # Height(i)
  BY Heights
<1>2. Sample(i, n) \in [1..Size(i, n) -> Positions(i, n + 1)] /\ Size(i, n) \in Nat
  BY <1>1, LevelsAssumption
<1>3. SUFFICES ASSUME NEW p \in Positions(i, n)
               PROVE  Tag(i, n, p) \in Positions(i, n + 1)
  BY DEF Tags
<1>4. p + 1 \in 1..Size(i, n)
  BY <1>2 DEF Positions
<1> QED
  BY <1>1, <1>2, <1>4 DEF Tag

\* A level read from whole files of one index is that of the index.
LEMMA ReadWhole ==
    ASSUME NEW i, NEW n, OnDisk(i, n)
    PROVE  ReadLevel(n) = Level(i, n)
<1>1. /\ disk[<<n, "data">>] = File(i, n) /\ disk[<<n, "tags">>] = File(i, n)
      /\ disk[<<n, "graph">>] = File(i, n)
  BY DEF OnDisk, Kinds
<1>2. /\ File(i, n).of = i /\ File(i, n).items = Size(i, n) /\ File(i, n).whole = TRUE
  BY DEF File
<1> QED
  BY <1>1, <1>2 DEF ReadLevel, Level

LEMMA Ranks ==
    /\ Rank("data") = 1 /\ Rank("tags") = 2 /\ Rank("graph") = 3
    /\ \A k \in Kinds : Rank(k) \in 1..3
BY DEF Rank, Kinds

\* Writing one file leaves the others.
LEMMA OneFile ==
    ASSUME Shape, NEW n \in LevelNumbers, NEW k \in Kinds, NEW v,
           disk' = [disk EXCEPT ![<<n, k>>] = v]
    PROVE  /\ disk' = [f \in LevelNumbers \X Kinds |-> disk'[f]]
           /\ disk'[<<n, k>>] = v
           /\ \A m \in LevelNumbers, j \in Kinds :
                 m # n \/ j # k => disk'[<<m, j>>] = disk[<<m, j>>]
BY DEF Shape

\* Without files and without an object there is nothing to break.
LEMMA Initially == LevelsInit => LevelsInv
<1> SUFFICES ASSUME LevelsInit PROVE LevelsInv
  OBVIOUS
<1>1. Shape
  BY LevelsAssumption DEF LevelsInit, Shape, LevelNumbers, Kinds
<1> QED
  BY <1>1 DEF LevelsInit, LevelsInv, SaveInv, RestInv, WholeInv, SplitInv, ObjInv, Descent, OfIndex,
     Kinds

----------------------------------------------------------------------------
(* What the steps of the loading program share: the files stay.            *)

LEMMA FilesStay ==
    ASSUME SaveInv, RestInv, WholeInv, SplitInv, mode \notin Kinds, mode' \notin Kinds,
           UNCHANGED <<disk, saved, committed, faults>>
    PROVE  SaveInv' /\ RestInv' /\ WholeInv' /\ SplitInv'
<1>1. SaveInv' /\ RestInv'
  BY DEF SaveInv, RestInv, Kinds
<1>2. WholeInv'
  BY DEF WholeInv, OnDisk, File
<1>3. SplitInv'
  BY DEF SplitInv, SplitAt, OnDisk, File
<1> QED
  BY <1>1, <1>2, <1>3

\* The levels of the object are whole when the last save was, as far as its index goes.
LEMMA ObjWhole ==
    ASSUME Shape, WholeInv, ObjInv, SavedWhole,
           mode \in {"ready", "search", "answered", "undefined"}
    PROVE  WholeUpTo(committed, LowerOf(top, Height(committed)))
<1>1. /\ committed \in Indexes /\ mode \notin Kinds /\ faults = 0
      /\ top \in LevelNumbers /\ top \in Nat /\ MaxHeight \in Nat
  BY LevelsAssumption DEF Shape, SavedWhole, Kinds, LevelNumbers
<1> DEFINE n == LowerOf(top, Height(committed))
<1>2. Height(committed) \in Nat /\ 0..Height(committed) \subseteq LevelNumbers
  BY <1>1, Heights
<1>3. n \in 0..Height(committed) /\ n <= top
  BY <1>1, <1>2 DEF LowerOf
<1> HIDE DEF n
<1>4. ASSUME NEW m \in 0..n
      PROVE  obj[m] = Level(committed, m)
  <2>1. m \in 0..Height(committed) /\ m \in LevelNumbers /\ m <= top
    BY <1>1, <1>2, <1>3
  <2>2. OnDisk(committed, m)
    BY <1>1, <2>1 DEF WholeInv, SavedWhole
  <2>3. obj[m] = ReadLevel(m)
    BY <2>1 DEF ObjInv
  <2> QED
    BY <2>2, <2>3, ReadWhole
<1> QED
  BY <1>3, <1>4 DEF n, WholeUpTo

----------------------------------------------------------------------------
LEMMA SaveKeeps == LevelsInv /\ Save => LevelsInv'
<1> SUFFICES ASSUME LevelsInv, Save PROVE LevelsInv'
  OBVIOUS
<1>1. /\ Shape /\ WholeInv /\ mode = "idle" /\ mode' = "data" /\ at' = 0
      /\ saved' \in Indexes
      /\ UNCHANGED <<disk, top, obj, seeds, committed, faults>>
  BY DEF LevelsInv, Save
<1>2. Shape'
  <2>1. 0 \in LevelNumbers /\ 0 \in 0..Height(saved')
    BY <1>1, LevelsAssumption, Heights DEF LevelNumbers
  <2> QED
    BY <1>1, <2>1 DEF Shape, Kinds
<1>3. SaveInv'
  BY <1>1, Ranks DEF SaveInv, Kinds
<1>4. RestInv'
  BY <1>1 DEF RestInv, WholeInv, OnDisk, File, Kinds
<1>5. WholeInv' /\ SplitInv' /\ ObjInv' /\ Descent'
  BY <1>1 DEF WholeInv, SplitInv, ObjInv, Descent, OfIndex, Kinds
<1> QED
  BY <1>2, <1>3, <1>4, <1>5 DEF LevelsInv

\* A file is written and another of the index is to come.
LEMMA WriteKeeps == LevelsInv /\ WriteFile => LevelsInv'
<1> SUFFICES ASSUME LevelsInv, WriteFile PROVE LevelsInv'
  OBVIOUS
<1>1. /\ Shape /\ SaveInv /\ RestInv
      /\ mode \in Kinds /\ saved \in Indexes /\ at \in 0..Height(saved)
      /\ disk' = [disk EXCEPT ![<<at, mode>>] = File(saved, at)]
      /\ UNCHANGED <<saved, top, obj, seeds>>
  BY DEF LevelsInv, WriteFile, SaveOrder, Shape
<1>2. at \in LevelNumbers /\ at \in Nat /\ Height(saved) \in Nat
  BY <1>1, Heights DEF LevelNumbers
<1>3. /\ disk' = [f \in LevelNumbers \X Kinds |-> disk'[f]]
      /\ disk'[<<at, mode>>] = File(saved, at)
      /\ \A m \in LevelNumbers, j \in Kinds :
            m # at \/ j # mode => disk'[<<m, j>>] = disk[<<m, j>>]
  BY <1>1, <1>2, OneFile
<1>4. \A n \in 0..Height(saved), k \in Kinds :
        n < at \/ (n = at /\ Rank(k) <= Rank(mode)) => disk'[<<n, k>>] = File(saved, n)
  <2> SUFFICES ASSUME NEW n \in 0..Height(saved), NEW k \in Kinds,
                      n < at \/ (n = at /\ Rank(k) <= Rank(mode))
               PROVE  disk'[<<n, k>>] = File(saved, n)
    OBVIOUS
  <2>1. CASE n = at /\ k = mode
    BY <1>3, <2>1
  <2>2. CASE ~ (n = at /\ k = mode)
    <3>1. n < at \/ (n = at /\ Rank(k) < Rank(mode))
      BY <1>1, <2>2, Ranks DEF Kinds
    <3>2. disk'[<<n, k>>] = disk[<<n, k>>] /\ n \in LevelNumbers
      BY <1>1, <1>3, <2>2, Heights
    <3> QED
      BY <1>1, <3>1, <3>2 DEF SaveInv
  <2> QED
    BY <2>1, <2>2
<1>5. CASE mode # "graph" \/ at < Height(saved)
  <2>1. /\ mode' \in Kinds /\ at' \in 0..Height(saved) /\ at' \in Nat
        /\ \/ at' = at /\ Rank(mode') = Rank(mode) + 1
           \/ at' = at + 1 /\ Rank(mode) = 3 /\ Rank(mode') = 1
        /\ UNCHANGED <<committed, faults>>
    BY <1>1, <1>2, <1>5, Ranks DEF WriteFile, Kinds
  <2>2. Shape'
    <3>1. at' \in LevelNumbers
      BY <1>1, <2>1, Heights
    <3> QED
      BY <1>1, <1>3, <2>1, <3>1 DEF Shape, Kinds
  <2>3. SaveInv'
    <3>1. \A n \in 0..Height(saved), k \in Kinds :
            n < at' \/ (n = at' /\ Rank(k) < Rank(mode')) =>
                n < at \/ (n = at /\ Rank(k) <= Rank(mode))
      BY <1>1, <1>2, <2>1, Ranks
    <3> QED
      BY <1>1, <1>4, <3>1 DEF SaveInv, File
  <2>4. RestInv'
    <3> SUFFICES ASSUME faults = 0, committed # NoIndex,
                        NEW n \in 0..Height(committed), NEW k \in Kinds,
                        n > at' \/ (n = at' /\ Rank(k) >= Rank(mode'))
                 PROVE  disk'[<<n, k>>] = File(committed, n)
      BY <2>1 DEF RestInv, File
    <3>1. committed \in Indexes /\ n \in LevelNumbers /\ n \in Nat
      BY <1>1, Heights DEF Shape
    <3>2. n > at \/ (n = at /\ Rank(k) > Rank(mode))
      BY <1>1, <1>2, <2>1, <3>1, Ranks
    <3>3. disk'[<<n, k>>] = disk[<<n, k>>]
      BY <1>1, <1>2, <1>3, <3>1, <3>2, Ranks
    <3>4. n > at \/ (n = at /\ Rank(k) >= Rank(mode))
      BY <1>1, <3>2, Ranks
    <3> QED
      BY <1>1, <3>3, <3>4 DEF RestInv
  <2>5. WholeInv' /\ SplitInv' /\ ObjInv' /\ Descent'
    BY <1>1, <2>1 DEF WholeInv, SplitInv, ObjInv, Descent, OfIndex, Kinds
  <2> QED
    BY <2>2, <2>3, <2>4, <2>5 DEF LevelsInv
<1>6. CASE mode = "graph" /\ at = Height(saved)
  <2>1. mode' = "idle" /\ at' = 0 /\ committed' = saved /\ faults' = 0
    BY <1>2, <1>6 DEF WriteFile
  <2>2. \A n \in 0..Height(saved) : OnDisk(saved, n)'
    <3>1. \A n \in 0..Height(saved), k \in Kinds :
            n < at \/ (n = at /\ Rank(k) <= Rank(mode))
      BY <1>2, <1>6, Ranks
    <3> QED
      BY <1>1, <1>4, <3>1 DEF OnDisk, File
  <2>3. Shape'
    <3>1. 0 \in LevelNumbers
      BY LevelsAssumption DEF LevelNumbers
    <3> QED
      BY <1>1, <1>3, <2>1, <3>1 DEF Shape, Kinds
  <2>4. WholeInv'
    BY <1>1, <2>1, <2>2 DEF WholeInv, OnDisk, File
  <2>5. SaveInv' /\ RestInv' /\ SplitInv' /\ ObjInv' /\ Descent'
    BY <2>1 DEF SaveInv, RestInv, SplitInv, ObjInv, Descent, OfIndex, Kinds
  <2> QED
    BY <2>3, <2>4, <2>5 DEF LevelsInv
<1> QED
  BY <1>1, <1>2, <1>5, <1>6

\* Between what a save that dies had written and what it had not is one level.
LEMMA CrashKeeps == LevelsInv /\ Crash => LevelsInv'
<1> SUFFICES ASSUME LevelsInv, Crash PROVE LevelsInv'
  OBVIOUS
<1>1. /\ Shape /\ SaveInv /\ RestInv
      /\ mode \in Kinds /\ saved \in Indexes /\ at \in 0..Height(saved)
      /\ mode' = "idle" /\ at' = 0 /\ faults' = faults + 1
      /\ UNCHANGED <<saved, top, obj, seeds, committed>>
  BY DEF LevelsInv, Crash, Shape
<1>2. at \in LevelNumbers /\ at \in Nat /\ Height(saved) \in Nat
  BY <1>1, Heights DEF LevelNumbers
<1>3. /\ disk' = [f \in LevelNumbers \X Kinds |-> disk'[f]]
      /\ \A m \in LevelNumbers, j \in Kinds : m # at => disk'[<<m, j>>] = disk[<<m, j>>]
  <2>1. CASE disk' = disk
    BY <1>1, <2>1 DEF Shape
  <2>2. CASE \E torn \in Torn(at) : disk' = [disk EXCEPT ![<<at, mode>>] = torn]
    BY <1>1, <1>2, <2>2, OneFile
  <2> QED
    BY <2>1, <2>2 DEF Crash, SaveOrder
<1>4. Shape'
  <2>1. 0 \in LevelNumbers /\ faults + 1 \in Nat
    BY <1>1, LevelsAssumption DEF LevelNumbers, Shape
  <2> QED
    BY <1>1, <1>3, <2>1 DEF Shape, Kinds
<1>5. SplitInv'
  <2> SUFFICES ASSUME faults = 0, NEW a \in LevelNumbers, a = at PROVE SplitAt(a)'
    BY <1>1, <1>2 DEF SplitInv, Shape
  <2>1. ASSUME NEW n \in LevelNumbers, n < a PROVE OnDisk(saved, n)'
    <3>1. n \in 0..Height(saved)
      BY <1>1, <1>2, <2>1 DEF LevelNumbers
    <3>2. \A k \in Kinds : disk'[<<n, k>>] = disk[<<n, k>>]
      BY <1>2, <1>3, <2>1 DEF LevelNumbers
    <3> QED
      BY <1>1, <2>1, <3>1, <3>2 DEF SaveInv, OnDisk, File
  <2>2. ASSUME NEW n \in LevelNumbers, n > a, committed # NoIndex, n <= Height(committed)
        PROVE  OnDisk(committed, n)'
    <3>1. n \in 0..Height(committed)
      BY <1>1, <2>2, Heights DEF Shape, LevelNumbers
    <3>2. \A k \in Kinds : disk'[<<n, k>>] = disk[<<n, k>>]
      BY <1>2, <1>3, <2>2 DEF LevelNumbers
    <3> QED
      BY <1>1, <2>2, <3>1, <3>2 DEF RestInv, OnDisk, File
  <2> QED
    BY <1>1, <2>1, <2>2 DEF SplitAt, OnDisk, File
<1>6. SaveInv' /\ RestInv' /\ WholeInv' /\ ObjInv' /\ Descent'
  BY <1>1 DEF SaveInv, RestInv, WholeInv, ObjInv, Descent, OfIndex, Kinds, Shape
<1> QED
  BY <1>4, <1>5, <1>6 DEF LevelsInv

LEMMA LoadKeeps == LevelsInv /\ Load => LevelsInv'
<1> SUFFICES ASSUME LevelsInv, Load PROVE LevelsInv'
  OBVIOUS
<1>1. /\ Shape /\ SaveInv /\ RestInv /\ WholeInv /\ SplitInv
      /\ mode = "idle" /\ mode' = "load" /\ top' \in LevelNumbers /\ at' = 0
      /\ obj' = [n \in LevelNumbers |-> Unloaded]
      /\ UNCHANGED <<disk, saved, seeds, committed, faults>>
  BY DEF LevelsInv, Load
<1>2. SaveInv' /\ RestInv' /\ WholeInv' /\ SplitInv'
  BY <1>1, FilesStay DEF Kinds
<1>3. Shape'
  <2>1. 0 \in LevelNumbers /\ 0 <= top'
    BY <1>1, LevelsAssumption DEF LevelNumbers
  <2> QED
    BY <1>1, <2>1 DEF Shape, Kinds
<1>4. ObjInv' /\ Descent'
  BY <1>1 DEF ObjInv, Descent, OfIndex, LevelNumbers
<1> QED
  BY <1>2, <1>3, <1>4 DEF LevelsInv

LEMMA LoadLevelKeeps == LevelsInv /\ LoadLevel => LevelsInv'
<1> SUFFICES ASSUME LevelsInv, LoadLevel PROVE LevelsInv'
  OBVIOUS
<1>1. /\ Shape /\ SaveInv /\ RestInv /\ WholeInv /\ SplitInv /\ ObjInv
      /\ mode = "load" /\ obj' = [obj EXCEPT ![at] = ReadLevel(at)]
      /\ UNCHANGED <<disk, saved, top, seeds, committed, faults>>
      /\ at \in LevelNumbers /\ top \in LevelNumbers /\ at <= top
      /\ at \in Nat /\ top \in Nat /\ MaxHeight \in Nat
  BY LevelsAssumption DEF LevelsInv, LoadLevel, Shape, LevelNumbers
<1>2. /\ mode' \in {"load", "ready"} /\ at' \in Nat
      /\ mode' = "load" => at' = at + 1 /\ at < top
      /\ mode' = "ready" => at' = 0 /\ at = top
  BY <1>1 DEF LoadLevel
<1>3. SaveInv' /\ RestInv' /\ WholeInv' /\ SplitInv'
  BY <1>1, <1>2, FilesStay DEF Kinds
<1>4. Shape'
  <2>1. at' \in LevelNumbers /\ (mode' = "load" => at' <= top)
    BY <1>1, <1>2 DEF LevelNumbers
  <2> QED
    BY <1>1, <1>2, <2>1 DEF Shape, Kinds
<1>5. ObjInv'
  <2> SUFFICES ASSUME NEW n \in LevelNumbers, n <= at PROVE obj'[n] = ReadLevel(n)
    <3>2. \A n \in LevelNumbers : ReadLevel(n)' = ReadLevel(n)
      BY <1>1 DEF ReadLevel
    <3> SUFFICES ASSUME NEW n \in LevelNumbers,
                        \/ mode' = "load" /\ n < at'
                        \/ mode' \in {"ready", "search", "answered", "undefined"} /\ n <= top'
                 PROVE  obj'[n] = ReadLevel(n)'
      BY DEF ObjInv
    <3>3. n \in Nat /\ top' = top
      BY <1>1 DEF LevelNumbers
    <3>4. n <= at
      BY <1>1, <1>2, <3>3
    <3> QED
      BY <3>2, <3>4
  <2>1. CASE n = at
    BY <1>1, <2>1 DEF Shape
  <2>2. CASE n < at
    BY <1>1, <2>2 DEF Shape, ObjInv
  <2> QED
    BY <1>1, <2>1, <2>2 DEF LevelNumbers
<1>6. Descent'
  BY <1>2 DEF Descent, OfIndex
<1> QED
  BY <1>3, <1>4, <1>5, <1>6 DEF LevelsInv

\* The object goes, and so does the number of its levels.
LEMMA UnloadKeeps == LevelsInv /\ (LoadFails \/ End) => LevelsInv'
<1> SUFFICES ASSUME LevelsInv, LoadFails \/ End PROVE LevelsInv'
  OBVIOUS
<1>1. /\ Shape /\ SaveInv /\ RestInv /\ WholeInv /\ SplitInv
      /\ mode \notin Kinds /\ mode' = "idle" /\ at' = 0 /\ top' = 0
      /\ obj' = [n \in LevelNumbers |-> Unloaded]
      /\ UNCHANGED <<disk, saved, committed, faults>>
  BY DEF LevelsInv, LoadFails, End, Kinds
<1>2. SaveInv' /\ RestInv' /\ WholeInv' /\ SplitInv'
  BY <1>1, FilesStay DEF Kinds
<1>3. Shape'
  <2>1. 0 \in LevelNumbers
    BY LevelsAssumption DEF LevelNumbers
  <2> QED
    BY <1>1, <2>1 DEF Shape, Kinds
<1>4. ObjInv' /\ Descent'
  BY <1>1 DEF ObjInv, Descent, OfIndex
<1> QED
  BY <1>2, <1>3, <1>4 DEF LevelsInv

LEMMA SearchKeeps == LevelsInv /\ Search => LevelsInv'
<1> SUFFICES ASSUME LevelsInv, Search PROVE LevelsInv'
  OBVIOUS
<1>1. /\ Shape /\ SaveInv /\ RestInv /\ WholeInv /\ SplitInv /\ ObjInv
      /\ mode \in {"ready", "answered"} /\ mode' = "search" /\ at' = 0
      /\ UNCHANGED <<disk, saved, top, obj, committed, faults>>
      /\ 0 \in LevelNumbers /\ top \in LevelNumbers /\ 0 <= top /\ 0 \in 0..top
  BY LevelsAssumption DEF LevelsInv, Search, Shape, LevelNumbers
<1>2. SaveInv' /\ RestInv' /\ WholeInv' /\ SplitInv'
  BY <1>1, FilesStay DEF Kinds
<1>3. Shape'
  BY <1>1 DEF Shape, Kinds
<1>4. ObjInv'
  BY <1>1 DEF ObjInv, ReadLevel
<1>5. Descent'
  <2>1. PICK start \in Positions(obj[0].graph, 0) : seeds' = {start}
    BY DEF Search
  <2>2. \A i \in Indexes : OfIndex(i)'
    BY <1>1 DEF OfIndex
  <2> QED
    BY <1>1, <2>1, <2>2 DEF Descent, Positions, Size
<1> QED
  BY <1>2, <1>3, <1>4, <1>5 DEF LevelsInv

\* A search that comes up through levels of one index is inside of the next one.
LEMMA WholeIsInside ==
    ASSUME LevelsInv, mode = "search", NEW i \in Indexes, WholeUpTo(i, at)
    PROVE  /\ Inside /\ num_points = Size(i, at) /\ obj[at].tags = i
<1>1. /\ Descent /\ OfIndex(i) /\ at \in 0..Height(i) /\ at \in Nat /\ at \in 0..at
      /\ \A m \in 0..at : obj[m] = Level(i, m)
  BY DEF LevelsInv, Descent, WholeUpTo
<1>2. obj[at] = Level(i, at)
  BY <1>1
<1>3. /\ obj[at].data = i /\ obj[at].graph = i
      /\ obj[at].tags = i /\ obj[at].lists = Size(i, at)
  BY <1>2 DEF Level
<1>4. Size(i, at) \in Nat /\ num_points = Size(i, at)
  BY <1>1, <1>3, Heights DEF num_points
<1>5. seeds \subseteq Positions(i, at)
  <2>1. CASE at = 0
    BY <1>1, <1>3, <2>1 DEF Descent
  <2>2. CASE at # 0
    <3>1. /\ at - 1 \in 0..Height(i) /\ at - 1 < Height(i) /\ (at - 1) + 1 = at
          /\ at > 0 /\ 0..(at - 1) \subseteq 0..at
      BY <1>1, <2>2, Heights
    <3>2. WholeUpTo(i, at - 1)
      BY <1>1, <3>1 DEF WholeUpTo
    <3>3. Tags(i, at - 1) \subseteq Positions(i, (at - 1) + 1)
      BY <3>1, TagsInside
    <3>4. seeds \subseteq Tags(i, at - 1)
      BY <1>1, <3>1, <3>2 DEF OfIndex
    <3> QED
      BY <3>1, <3>3, <3>4
  <2> QED
    BY <2>1, <2>2
<1> QED
  BY <1>3, <1>4, <1>5 DEF Inside, Positions

LEMMA SearchLevelKeeps == LevelsInv /\ SearchLevel => LevelsInv'
<1> SUFFICES ASSUME LevelsInv, SearchLevel PROVE LevelsInv'
  OBVIOUS
<1>1. /\ Shape /\ SaveInv /\ RestInv /\ WholeInv /\ SplitInv /\ ObjInv
      /\ mode = "search"
      /\ UNCHANGED <<disk, saved, top, obj, committed, faults>>
      /\ at \in LevelNumbers /\ top \in LevelNumbers /\ at <= top
      /\ at \in Nat /\ top \in Nat /\ MaxHeight \in Nat
  BY LevelsAssumption DEF LevelsInv, SearchLevel, Shape, LevelNumbers
<1>2. /\ mode' \in {"search", "answered"} /\ at' \in Nat
      /\ mode' = "search" => at' = at + 1 /\ at < top
      /\ mode' = "answered" => at' = 0 /\ at = top
  BY <1>1 DEF SearchLevel
<1>3. SaveInv' /\ RestInv' /\ WholeInv' /\ SplitInv'
  BY <1>1, <1>2, FilesStay DEF Kinds
<1>4. Shape'
  <2>1. at' \in LevelNumbers /\ (mode' = "search" => at' <= top)
    BY <1>1, <1>2 DEF LevelNumbers
  <2> QED
    BY <1>1, <1>2, <2>1 DEF Shape, Kinds
<1>5. ObjInv'
  BY <1>1, <1>2 DEF ObjInv, ReadLevel
<1>6. Descent'
  <2>1. ASSUME NEW i \in Indexes, WholeUpTo(i, at)
        PROVE  seeds' # {} /\ seeds' \subseteq Tags(i, at)
    <3>1. num_points = Size(i, at) /\ obj[at].tags = i
      BY <1>1, <2>1, WholeIsInside
    <3>2. PICK found \in (SUBSET (0..(num_points - 1))) \ {{}} :
            seeds' = {Tag(obj[at].tags, at, p) : p \in found}
      BY DEF SearchLevel
    <3>3. found # {} /\ found \subseteq Positions(i, at)
      BY <3>1, <3>2 DEF Positions
    <3>4. seeds' = {Tag(i, at, p) : p \in found}
      BY <3>1, <3>2
    <3> QED
      BY <3>3, <3>4 DEF Tags
  <2>2. ASSUME NEW i \in Indexes
        PROVE  OfIndex(i)'
    <3>1. mode' = "search" => at' - 1 = at
      BY <1>1, <1>2
    <3>2. \A n : WholeUpTo(i, n)' = WholeUpTo(i, n)
      BY <1>1 DEF WholeUpTo
    <3>3. /\ mode' # "undefined"
          /\ mode' = "search" /\ WholeUpTo(i, at' - 1) => WholeUpTo(i, at)
          /\ mode' = "answered" /\ WholeUpTo(i, top') => WholeUpTo(i, at)
      BY <1>1, <1>2, <3>1
    <3>4. /\ mode' = "search" => Tags(i, at' - 1) = Tags(i, at)
          /\ mode' = "answered" => Tags(i, top') = Tags(i, at)
      BY <1>1, <1>2, <3>1
    <3> QED
      BY <2>1, <3>2, <3>3, <3>4 DEF OfIndex
  <2>3. mode' = "search" => at' # 0
    BY <1>1, <1>2
  <2> QED
    BY <2>2, <2>3 DEF Descent
<1> QED
  BY <1>3, <1>4, <1>5, <1>6 DEF LevelsInv

LEMMA SearchOutsideKeeps == LevelsInv /\ SearchOutside => LevelsInv'
<1> SUFFICES ASSUME LevelsInv, SearchOutside PROVE LevelsInv'
  OBVIOUS
<1>1. /\ Shape /\ SaveInv /\ RestInv /\ WholeInv /\ SplitInv /\ ObjInv
      /\ mode = "search" /\ mode' = "undefined" /\ ~ Inside
      /\ UNCHANGED <<disk, saved, at, top, obj, seeds, committed, faults>>
  BY DEF LevelsInv, SearchOutside
<1>2. \A i \in Indexes : ~ WholeUpTo(i, at)
  BY <1>1, WholeIsInside
<1>3. SaveInv' /\ RestInv' /\ WholeInv' /\ SplitInv'
  BY <1>1, FilesStay DEF Kinds
<1>4. Shape' /\ ObjInv'
  BY <1>1 DEF Shape, ObjInv, ReadLevel, Kinds
<1>5. Descent'
  <2>1. \A i \in Indexes : ~ WholeUpTo(i, at)'
    BY <1>1, <1>2 DEF WholeUpTo
  <2> QED
    BY <1>1, <2>1 DEF Descent, OfIndex
<1> QED
  BY <1>3, <1>4, <1>5 DEF LevelsInv

----------------------------------------------------------------------------
\* No step of a save, a load, a search or a crash breaks what the files and the object
\* hold of each level.
LEMMA Inductive == LevelsInv /\ [LevelsNext]_lvars => LevelsInv'
<1>1. LevelsInv /\ LevelsNext => LevelsInv'
  BY SaveKeeps, WriteKeeps, CrashKeeps, LoadKeeps, LoadLevelKeeps, UnloadKeeps,
     SearchKeeps, SearchLevelKeeps, SearchOutsideKeeps DEF LevelsNext
<1>2. LevelsInv /\ UNCHANGED lvars => LevelsInv'
  <2> SUFFICES ASSUME LevelsInv, UNCHANGED lvars PROVE LevelsInv'
    OBVIOUS
  <2>1. Shape' /\ SaveInv' /\ RestInv'
    BY DEF lvars, LevelsInv, Shape, SaveInv, RestInv
  <2>2. WholeInv' /\ SplitInv'
    BY DEF lvars, LevelsInv, WholeInv, SplitInv, SplitAt, OnDisk
  <2>3. ObjInv' /\ Descent'
    BY DEF lvars, LevelsInv, ObjInv, ReadLevel, Descent, OfIndex, WholeUpTo
  <2> QED
    BY <2>1, <2>2, <2>3 DEF LevelsInv
<1> QED
  BY <1>1, <1>2

\* The invariant of all that HNSW keeps on disk and in the object.
THEOREM Always == LevelsSpec => []LevelsInv
BY Initially, Inductive, PTL DEF LevelsSpec

\* HNSW::load and HNSW::search: as far up as the levels that were loaded are of one index,
\* whichever, a search stays inside of them and hands on what was sampled for the level
\* below; and after a save that completed they are all of its index up to its top, whatever
\* saves came before and were cut short, and however many levels are asked for.
THEOREM DescentIsSafe == LevelsSpec => []DescentStaysInside
<1>1. LevelsInv => DescentStaysInside
  <2> SUFFICES ASSUME LevelsInv PROVE DescentStaysInside
    OBVIOUS
  <2>1. Shape /\ WholeInv /\ ObjInv /\ \A i \in Indexes : OfIndex(i)
    BY DEF LevelsInv, Descent
  <2>2. SavedWhole /\ mode \in {"ready", "search", "answered", "undefined"} =>
            WholeUpTo(committed, LowerOf(top, Height(committed)))
    BY <2>1, ObjWhole
  <2> QED
    BY <2>1, <2>2 DEF OfIndex, DescentStaysInside
<1> QED
  BY <1>1, Always, PTL

\* HNSW::save: one save that was cut short leaves the levels of two indexes with one
\* level between them.
THEOREM OneLevelBetween == LevelsSpec => []SplitAtOneLevel
<1>1. LevelsInv => SplitAtOneLevel
  <2> SUFFICES ASSUME LevelsInv, mode = "ready", faults = 1 PROVE
        \E split \in LevelNumbers : \A n \in 0..top :
            /\ n < split => obj[n] = Level(saved, n)
            /\ n > split /\ committed # NoIndex /\ n <= Height(committed) =>
                  obj[n] = Level(committed, n)
    BY DEF SplitAtOneLevel
  <2>1. /\ SplitInv /\ ObjInv /\ top \in LevelNumbers /\ mode \notin Kinds
    BY DEF LevelsInv, Shape, Kinds
  <2>2. PICK split \in LevelNumbers : SplitAt(split)
    BY <2>1 DEF SplitInv
  <2>3. ASSUME NEW n \in 0..top PROVE n \in LevelNumbers /\ obj[n] = ReadLevel(n)
    <3>1. n \in LevelNumbers /\ n <= top
      BY <2>1, LevelsAssumption DEF LevelNumbers
    <3> QED
      BY <2>1, <3>1 DEF ObjInv
  <2> QED
    BY <2>2, <2>3, ReadWhole DEF SplitAt
<1> QED
  BY <1>1, Always, PTL
=============================================================================
