-------------------------- MODULE AlphaPruneProofs --------------------------
(***************************************************************************)
(* Proofs about the two prune loops, for every data set, every candidate   *)
(* list and every choice of R, maxc and alpha.                             *)
(***************************************************************************)
EXTENDS AlphaPrune, Induction, TLAPS, SequenceTheorems

\* What the loop has done once it stands at start.
LoopInv ==
    /\ \A n \in 1..Len(result) : /\ result[n] < start
                                 /\ result[n] \in Reach
                                 /\ cand[result[n]].id # point
    /\ \A m, n \in 1..Len(result) : m < n => result[m] < result[n]
    /\ Len(result) <= R
    /\ rule = "alphaRng" =>
          occluded = {t \in Reach : \E k \in Kept : k < t /\ Occludes(cand[k].id, cand[t])}
    /\ \A t \in Reach : t < start /\ cand[t].id # point /\ t \notin Kept =>
          rule = "alphaRng" /\ t \in occluded
    /\ Independent
    /\ returned => Len(result) = R \/ start \notin Reach

Inv == TypeOK /\ LoopInv

\* The positions the loop visits are those of an initial part of the list.
LEMMA ReachFacts ==
    ASSUME cand \in Seq(Candidate)
    PROVE  /\ Reach \subseteq 1..Len(cand)
           /\ Len(cand) \in Nat
           /\ \A i \in Nat \ {0} : i \notin Reach => \A t \in Reach : t < i
<1>1. Len(cand) \in Nat /\ C \in Nat \ {0}
  BY LenProperties, PruningAssumption
<1> QED
  BY <1>1 DEF Reach, Window, Looked

LEMMA InvInit == Init => Inv
<1> SUFFICES ASSUME Init
             PROVE  Inv
  OBVIOUS
<1>1. cand \in Seq(Candidate)
  BY CandidateAssumption DEF Init
<1>2. << >> \in Seq(1..Len(cand)) /\ Len(<< >>) = 0
  BY EmptySeq
<1>3. TypeOK
  <2>1. result \in Seq(1..Len(cand))
    BY <1>2 DEF Init
  <2>2. rule \in {"alphaRng", "topK"} /\ point \in Points /\ returned \in BOOLEAN
    BY DEF Init
  <2>3. start \in Nat \ {0}
    BY DEF Init
  <2>4. occluded \in SUBSET (1..Len(cand))
    BY DEF Init
  <2> QED
    BY <1>1, <2>1, <2>2, <2>3, <2>4 DEF TypeOK
<1>4. Kept = {}
  BY <1>2 DEF Init, Kept
<1>5. Reach \subseteq Nat \ {0}
  BY <1>1, ReachFacts
<1>6. LoopInv
  <2>1. /\ Len(result) = 0 /\ start = 1 /\ occluded = {} /\ returned = FALSE
        /\ R \in Nat \ {0}
        /\ 1..0 = {}
    BY <1>2, PruningAssumption DEF Init
  <2>2. \A t \in Reach : ~ (t < start)
    BY <1>5, <2>1
  <2> QED
    BY <1>4, <2>1, <2>2 DEF LoopInv, Independent
<1> QED
  BY <1>3, <1>6 DEF Inv

\* A step of the loop adds the position it stands at, or passes it over.
LEMMA InvStep == Inv /\ [Next]_vars => Inv'
<1> SUFFICES ASSUME Inv, [Next]_vars
             PROVE  Inv'
  OBVIOUS
<1>1. /\ TypeOK /\ LoopInv
      /\ Reach \subseteq 1..Len(cand)
      /\ Len(cand) \in Nat /\ Len(result) \in Nat
      /\ R \in Nat \ {0}
      /\ start \in Nat \ {0}
      /\ result \in Seq(1..Len(cand))
      /\ Kept \subseteq Reach
  BY ReachFacts, PruningAssumption, LenProperties DEF Inv, TypeOK, LoopInv, Kept
<1>2. CASE Skip
  <2>1. /\ start \in Reach /\ Len(result) < R /\ ~ returned
        /\ cand[start].id = point \/ (rule = "alphaRng" /\ start \in occluded)
        /\ start' = start + 1
        /\ UNCHANGED <<rule, point, cand, occluded, result, returned>>
    BY <1>2 DEF Skip, Scanning
  <2>2. Reach' = Reach /\ Kept' = Kept
    BY <2>1 DEF Reach, Window, Looked, Kept
  <2>3. TypeOK'
    BY <1>1, <2>1 DEF TypeOK
  <2>4. Independent'
    BY <1>1, <2>1, <2>2 DEF LoopInv, Independent, Occludes
  <2>5. \A t \in Reach : t < start + 1 => t < start \/ t = start
    BY <1>1
  <2>6. LoopInv'
    BY <1>1, <2>1, <2>2, <2>4, <2>5 DEF LoopInv
  <2> QED
    BY <2>3, <2>6 DEF Inv
<1>3. CASE Keep
  <2>1. /\ start \in Reach /\ Len(result) < R /\ ~ returned
        /\ cand[start].id # point
        /\ rule = "alphaRng" => start \notin occluded
        /\ start' = start + 1
        /\ result' = Append(result, start)
        /\ UNCHANGED <<rule, point, cand, returned>>
    BY <1>3 DEF Keep, Scanning
  <2>2. occluded' = IF rule = "topK" THEN occluded
                    ELSE occluded \cup
                         {t \in Reach : t > start /\ Occludes(cand[start].id, cand[t])}
    BY <1>3 DEF Keep
  <2>3. start \in 1..Len(cand)
    BY <1>1, <2>1
  <2>4. /\ result' \in Seq(1..Len(cand))
        /\ Len(result') = Len(result) + 1
        /\ \A n \in 1..Len(result) : result'[n] = result[n]
        /\ result'[Len(result) + 1] = start
    BY <1>1, <2>1, <2>3, AppendProperties
  <2>5. Reach' = Reach
    BY <2>1 DEF Reach, Window, Looked
  <2>6. Kept' = Kept \cup {start}
    <3>1. \A n : n \in 1..(Len(result) + 1) <=> n \in 1..Len(result) \/ n = Len(result) + 1
      BY <1>1
    <3>2. Kept' = {result'[n] : n \in 1..(Len(result) + 1)}
      BY <2>4 DEF Kept
    <3>3. Kept = {result[n] : n \in 1..Len(result)}
      BY DEF Kept
    <3> QED
      BY <2>4, <3>1, <3>2, <3>3
  <2>7. TypeOK'
    <3>1. start' \in Nat \ {0}
      BY <1>1, <2>1
    <3>2. occluded' \in SUBSET (1..Len(cand))
      <4>1. occluded \in SUBSET (1..Len(cand))
        BY <1>1 DEF TypeOK
      <4>2. {t \in Reach : t > start /\ Occludes(cand[start].id, cand[t])} \subseteq 1..Len(cand)
        BY <1>1
      <4> QED
        BY <2>2, <4>1, <4>2
    <3> QED
      BY <1>1, <2>1, <2>4, <3>1, <3>2 DEF TypeOK
  <2>8. \A k \in Kept : k < start
    BY <1>1 DEF LoopInv, Kept
  <2>9. rule = "alphaRng" => occluded' =
            {t \in Reach : \E k \in Kept' : k < t /\ Occludes(cand[k].id, cand[t])}
    <3>1. rule = "alphaRng" =>
              occluded = {t \in Reach : \E k \in Kept : k < t /\ Occludes(cand[k].id, cand[t])}
      BY <1>1 DEF LoopInv
    <3>2. \A t \in Reach : t > start <=> start < t
      BY <1>1
    <3> QED
      BY <2>2, <2>6, <3>1, <3>2
  <2>10. Independent'
    <3>1. rule = "alphaRng" => \A k \in Kept : ~ Occludes(cand[k].id, cand[start])
      BY <1>1, <2>1, <2>8 DEF LoopInv
    <3>2. \A k \in Kept : ~ (start < k)
      BY <1>1, <2>8
    <3>3. rule = "alphaRng" => \A i, j \in Kept : i < j => ~ Occludes(cand[i].id, cand[j])
      BY <1>1 DEF LoopInv, Independent
    <3>4. rule = "alphaRng" => \A i, j \in Kept' : i < j => ~ Occludes(cand[i].id, cand[j])
      BY <1>1, <2>1, <2>6, <3>1, <3>2, <3>3
    <3> QED
      BY <2>1, <3>4 DEF Independent, Occludes
  <2>11. /\ \A n \in 1..Len(result') : /\ result'[n] < start'
                                       /\ result'[n] \in Reach
                                       /\ cand[result'[n]].id # point
         /\ \A m, n \in 1..Len(result') : m < n => result'[m] < result'[n]
         /\ Len(result') <= R
    <3>1. \A n \in 1..Len(result') : n \in 1..Len(result) \/ n = Len(result) + 1
      BY <1>1, <2>4
    <3>2. \A n \in 1..Len(result) : /\ result[n] < start
                                    /\ result[n] \in Reach
                                    /\ cand[result[n]].id # point
      BY <1>1 DEF LoopInv
    <3>3. \A m, n \in 1..Len(result) : m < n => result[m] < result[n]
      BY <1>1 DEF LoopInv
    <3>4. \A n \in 1..Len(result) : result[n] \in Nat
      BY <1>1, <3>2
    <3>5. \A n \in 1..Len(result') : /\ result'[n] < start'
                                     /\ result'[n] \in Reach
                                     /\ cand[result'[n]].id # point
      BY <1>1, <2>1, <2>4, <3>1, <3>2, <3>4
    <3>6. \A m, n \in 1..Len(result') : m < n => result'[m] < result'[n]
      <4> SUFFICES ASSUME NEW m \in 1..Len(result'), NEW n \in 1..Len(result'), m < n
                   PROVE  result'[m] < result'[n]
        OBVIOUS
      <4>1. m \in 1..Len(result)
        BY <1>1, <2>4
      <4>2. CASE n \in 1..Len(result)
        BY <2>4, <3>3, <4>1, <4>2
      <4>3. CASE n = Len(result) + 1
        BY <2>4, <3>2, <4>1, <4>3
      <4> QED
        BY <3>1, <4>2, <4>3
    <3> QED
      BY <1>1, <2>1, <2>4, <3>5, <3>6
  <2>12. \A t \in Reach : t < start' /\ cand[t].id # point /\ t \notin Kept' =>
             rule = "alphaRng" /\ t \in occluded'
    <3>1. \A t \in Reach : t < start + 1 => t < start \/ t = start
      BY <1>1
    <3>2. \A t \in Reach : t < start /\ cand[t].id # point /\ t \notin Kept =>
              rule = "alphaRng" /\ t \in occluded
      BY <1>1 DEF LoopInv
    <3> QED
      BY <2>1, <2>2, <2>6, <3>1, <3>2
  <2>13. LoopInv'
    BY <2>1, <2>5, <2>9, <2>10, <2>11, <2>12 DEF LoopInv
  <2> QED
    BY <2>7, <2>13 DEF Inv
<1>4. CASE Return
  <2>1. /\ ~ (Len(result) < R /\ start \in Reach)
        /\ returned' = TRUE
        /\ UNCHANGED <<rule, point, cand, start, occluded, result>>
    BY <1>4 DEF Return
  <2>2. Reach' = Reach /\ Kept' = Kept
    BY <2>1 DEF Reach, Window, Looked, Kept
  <2>3. Len(result) = R \/ start \notin Reach
    BY <1>1, <2>1 DEF LoopInv
  <2>4. TypeOK'
    BY <1>1, <2>1 DEF TypeOK
  <2>5. Independent'
    BY <1>1, <2>1, <2>2 DEF LoopInv, Independent, Occludes
  <2>6. LoopInv'
    BY <1>1, <2>1, <2>2, <2>3, <2>5 DEF LoopInv
  <2> QED
    BY <2>4, <2>6 DEF Inv
<1>5. CASE UNCHANGED vars
  BY <1>1, <1>5 DEF vars, Inv, TypeOK, LoopInv, Reach, Window, Looked, Kept, Independent, Occludes
<1> QED
  BY <1>2, <1>3, <1>4, <1>5 DEF Next

LEMMA Invariance == Spec => []Inv
BY InvInit, InvStep, PTL DEF Spec

\* The variables of the loop keep their types.
THEOREM TypeCorrect == Spec => []TypeOK
<1>1. Inv => TypeOK
  BY DEF Inv
<1> QED
  BY <1>1, Invariance, PTL

\* Both rules return at most R edges, each to a candidate of its own and none
\* to the point, and some edge if they could see another point.
THEOREM ContractHolds == Spec => []Contract
<1>1. Inv => Contract
  <2> SUFFICES ASSUME Inv, returned
               PROVE  Contract
    BY DEF Contract
  <2>1. /\ TypeOK /\ LoopInv
        /\ Len(result) \in Nat /\ R \in Nat \ {0} /\ start \in Nat \ {0}
        /\ Len(result) <= R
    BY PruningAssumption, LenProperties DEF Inv, TypeOK, LoopInv
  <2>2. \A n \in 1..Len(result) : PrunedList[n] # point
    BY <2>1 DEF LoopInv, PrunedList
  <2>3. \A m, n \in 1..Len(result) : m < n => result[m] < result[n]
    BY <2>1 DEF LoopInv
  <2>4. ASSUME NEW i \in Reach, cand[i].id # point, result = << >>
        PROVE  FALSE
    <3>1. Len(result) = 0 /\ Kept = {}
      BY <2>4 DEF Kept
    <3>2. start \notin Reach
      BY <2>1, <3>1 DEF LoopInv
    <3>3. i < start
      BY <2>1, <3>2, ReachFacts DEF TypeOK
    <3>4. rule = "alphaRng" /\ i \in occluded
      BY <2>1, <2>4, <3>1, <3>3 DEF LoopInv
    <3> QED
      BY <2>1, <3>1, <3>4 DEF LoopInv
  <2> QED
    BY <2>1, <2>2, <2>3, <2>4 DEF Contract
<1> QED
  BY <1>1, Invariance, PTL

\* The alpha rule keeps no candidate that a nearer kept one occludes.
THEOREM KeptAreIndependent == Spec => []Independent
<1>1. Inv => Independent
  BY DEF Inv, LoopInv
<1> QED
  BY <1>1, Invariance, PTL

\* What the alpha rule drops is covered by a nearer kept candidate.
THEOREM KeptDominate == Spec => []Dominating
<1>1. Inv => Dominating
  BY DEF Inv, LoopInv, Dominating
<1> QED
  BY <1>1, Invariance, PTL

----------------------------------------------------------------------------
(* The loops and the reference.                                            *)

\* f is the list the reference has built, turn by turn.
Turns(p, c, n, occlude, f) ==
    /\ f \in [0..n -> Seq(Points)]
    /\ f[0] = << >>
    /\ \A i \in 1..n : f[i] = Extend(p, f[i - 1], c[i], occlude)
    /\ PrunedTo(p, c, n, occlude) = f[n]

HasTurns(p, c, n, occlude) == \E f : Turns(p, c, n, occlude, f)

\* The recursion of the reference has a value.
LEMMA ReferenceFacts ==
    ASSUME NEW p \in Points, NEW c \in Seq(Candidate), NEW n \in 0..Len(c), NEW occlude
    PROVE  HasTurns(p, c, n, occlude)
<1> DEFINE B(g) == [i \in 0..n |-> IF i = 0 THEN << >> ELSE Extend(p, g[i - 1], c[i], occlude)]
           V == Seq(Points)
           step == [i \in 1..n |-> [s \in V |-> Extend(p, s, c[i], occlude)]]
           f == CHOOSE g : g = B(g)
<1>0. n \in Nat /\ Len(c) \in Nat
  OBVIOUS
<1>1. PrunedTo(p, c, n, occlude) = f[n]
  BY DEF PrunedTo
<1>2. \A i \in 1..n : \A s \in V : Extend(p, s, c[i], occlude) \in V
  <2> SUFFICES ASSUME NEW i \in 1..n, NEW s \in V
               PROVE  Extend(p, s, c[i], occlude) \in V
    OBVIOUS
  <2>1. c[i].id \in Points
    <3>1. i \in 1..Len(c)
      BY <1>0
    <3>2. c[i] \in Candidate
      BY <3>1
    <3> QED
      BY <3>2 DEF Candidate
  <2> QED
    BY <2>1 DEF Extend
<1>3. step \in [1..n -> [V -> V]] /\ \A i \in 1..n : \A s \in V : step[i][s] = Extend(p, s, c[i], occlude)
  <2> HIDE DEF V
  <2> QED
    BY <1>2
<1>4. << >> \in V
  OBVIOUS
<1> HIDE DEF step, V
<1>5. HasValue(n, V, << >>, step)
  BY <1>0, <1>3, <1>4, Recursion
<1>6. PICK h : h \in [0..n -> V] /\ h[0] = << >> /\ \A i \in 1..n : h[i] = step[i][h[i - 1]]
  BY <1>5 DEF HasValue
<1>7. \A i \in 0..n : i # 0 => i \in 1..n /\ i - 1 \in 0..n
  BY <1>0
<1>8. h = B(h)
  <2>1. \A i \in 0..n : h[i] = IF i = 0 THEN << >> ELSE Extend(p, h[i - 1], c[i], occlude)
    BY <1>3, <1>6, <1>7
  <2> QED
    BY <1>6, <2>1
<1> HIDE DEF B
<1>9. f = B(f)
  BY <1>8
<1> HIDE DEF f
<1>10. /\ DOMAIN f = 0..n /\ f = [i \in 0..n |-> f[i]] /\ f[0] = << >>
       /\ \A i \in 1..n : f[i] = Extend(p, f[i - 1], c[i], occlude)
  <2>1. /\ DOMAIN B(f) = 0..n /\ B(f) = [i \in 0..n |-> B(f)[i]] /\ B(f)[0] = << >>
        /\ \A i \in 1..n : B(f)[i] = Extend(p, f[i - 1], c[i], occlude)
    BY <1>0 DEF B
  <2> QED
    BY <1>9, <2>1
<1> DEFINE S == {i \in 0..n : f[i] \in V}
<1>11. 0 \in S
  BY <1>0, <1>4, <1>10
<1>12. ASSUME NEW i \in 0..(n - 1), i \in S
       PROVE  i + 1 \in S
  <2>1. i + 1 \in 1..n /\ i + 1 \in 0..n /\ (i + 1) - 1 = i
    BY <1>0
  <2>2. f[i + 1] = Extend(p, f[i], c[i + 1], occlude)
    BY <1>10, <2>1
  <2> QED
    BY <1>2, <1>12, <2>1, <2>2
<1>13. \A i \in 0..n : i \in S
  <2> HIDE DEF S
  <2> QED
    BY <1>0, <1>11, <1>12, InductionTo
<1>14. f \in [0..n -> V]
  BY <1>10, <1>13
<1>15. Turns(p, c, n, occlude, f)
  BY <1>1, <1>10, <1>14 DEF Turns, V
<1> QED
  BY <1>15 DEF HasTurns

\* Whether candidates are occluded, the last position the loop may visit, and the turns
\* of its reference.
Occluding == rule = "alphaRng"
Last == IF rule = "alphaRng" THEN Looked(cand) ELSE Len(cand)
List == CHOOSE f : Turns(point, cand, Last, Occluding, f)

\* What the loop has built is what the reference has when it has looked as far.
RefInv ==
    /\ start <= Last + 1
    /\ PrunedList = List[start - 1]

RInv == Inv /\ RefInv

LEMMA ListFacts ==
    ASSUME TypeOK
    PROVE  /\ Last \in Nat /\ Last \in 0..Len(cand) /\ Reach = 1..Last
           /\ Turns(point, cand, Last, Occluding, List)
<1>1. cand \in Seq(Candidate) /\ point \in Points /\ Len(cand) \in Nat /\ C \in Nat \ {0}
  BY PruningAssumption DEF TypeOK
<1>2. Last \in Nat /\ Last \in 0..Len(cand) /\ Reach = 1..Last
  BY <1>1 DEF Last, Looked, Reach, Window
<1>3. HasTurns(point, cand, Last, Occluding)
  BY <1>1, <1>2, ReferenceFacts
<1> QED
  BY <1>2, <1>3 DEF HasTurns, List

LEMMA RefInit == Init /\ Inv => RefInv
<1> SUFFICES ASSUME Init, Inv
             PROVE  RefInv
  OBVIOUS
<1>1. start = 1 /\ result = << >>
  BY DEF Init
<1>2. List[0] = << >> /\ Last \in Nat
  BY ListFacts DEF Inv, Turns
<1>3. PrunedList = << >>
  BY <1>1 DEF PrunedList
<1> QED
  BY <1>1, <1>2, <1>3 DEF RefInv

\* A turn of the loop is a turn of the reference.
LEMMA RefStep == RInv /\ [Next]_vars => RefInv'
<1> SUFFICES ASSUME Inv, RefInv, [Next]_vars
             PROVE  RefInv'
  BY DEF RInv
<1>1. /\ TypeOK /\ LoopInv /\ cand \in Seq(Candidate) /\ result \in Seq(1..Len(cand))
      /\ start \in Nat \ {0} /\ Len(result) \in Nat /\ R \in Nat \ {0} /\ Len(cand) \in Nat
  BY PruningAssumption DEF Inv, TypeOK
<1>2. /\ Last \in Nat /\ Reach = 1..Last
      /\ \A i \in 1..Last : List[i] = Extend(point, List[i - 1], cand[i], Occluding)
  BY <1>1, ListFacts DEF Turns
<1>3. PrunedList = List[start - 1] /\ start <= Last + 1
  BY DEF RefInv
<1>4. Len(PrunedList) = Len(result) /\ \A n \in 1..Len(result) : PrunedList[n] = cand[result[n]].id
  BY <1>1 DEF PrunedList
<1>5. CASE Skip
  <2>1. /\ start \in Reach /\ Len(result) < R
        /\ cand[start].id = point \/ (rule = "alphaRng" /\ start \in occluded)
        /\ start' = start + 1
        /\ UNCHANGED <<rule, point, cand, result>>
    BY <1>5 DEF Skip, Scanning
  <2>2. Last' = Last /\ List' = List /\ PrunedList' = PrunedList
    BY <2>1 DEF Last, Occluding, List, PrunedList
  <2>3. Extend(point, PrunedList, cand[start], Occluding) = PrunedList
    <3>1. CASE cand[start].id = point
      BY <3>1 DEF Extend
    <3>2. CASE rule = "alphaRng" /\ start \in occluded
      <4>1. PICK j \in Kept : j < start /\ Occludes(cand[j].id, cand[start])
        BY <1>1, <3>2 DEF LoopInv
      <4>2. PICK n \in 1..Len(result) : j = result[n]
        BY DEF Kept
      <4>3. Occludes(PrunedList[n], cand[start])
        BY <1>4, <4>1, <4>2
      <4> HIDE DEF Occludes
      <4> QED
        BY <1>4, <3>2, <4>3 DEF Extend, Occluding
    <3> QED
      BY <2>1, <3>1, <3>2
  <2>4. (start + 1) - 1 = start /\ start \in 1..Last
    BY <1>1, <1>2, <2>1
  <2> QED
    BY <1>2, <1>3, <2>1, <2>2, <2>3, <2>4 DEF RefInv
<1>6. CASE Keep
  <2>1. /\ start \in Reach /\ Len(result) < R
        /\ cand[start].id # point
        /\ rule = "alphaRng" => start \notin occluded
        /\ start' = start + 1
        /\ result' = Append(result, start)
        /\ UNCHANGED <<rule, point, cand>>
    BY <1>6 DEF Keep, Scanning
  <2>2. Last' = Last /\ List' = List
    BY <2>1 DEF Last, Occluding, List
  <2>3. start \in 1..Len(cand) /\ start \in 1..Last /\ (start + 1) - 1 = start
    BY <1>1, <1>2, <2>1, ReachFacts
  <2>4. PrunedList' = Append(PrunedList, cand[start].id)
    <3>1. /\ Len(result') = Len(result) + 1
          /\ \A n \in 1..Len(result) : result'[n] = result[n]
          /\ result'[Len(result) + 1] = start
      BY <1>1, <2>1, <2>3, AppendProperties
    <3>2. PrunedList' = [n \in 1..(Len(result) + 1) |-> cand[result'[n]].id]
      BY <2>1, <3>1 DEF PrunedList
    <3>3. Append(PrunedList, cand[start].id) =
             [n \in 1..(Len(result) + 1) |-> IF n = Len(result) + 1 THEN cand[start].id
                                             ELSE cand[result[n]].id]
      <4>1. PrunedList = [n \in 1..Len(result) |-> cand[result[n]].id]
        BY DEF PrunedList
      <4> QED
        BY <1>1, <1>4, <4>1
    <3>4. \A n \in 1..(Len(result) + 1) : cand[result'[n]].id =
             IF n = Len(result) + 1 THEN cand[start].id ELSE cand[result[n]].id
      BY <1>1, <3>1
    <3> QED
      BY <3>2, <3>3, <3>4
  <2>5. rule = "alphaRng" => \A n \in 1..Len(PrunedList) : ~ Occludes(PrunedList[n], cand[start])
    <3> SUFFICES ASSUME rule = "alphaRng", NEW n \in 1..Len(result)
                 PROVE  ~ Occludes(cand[result[n]].id, cand[start])
      BY <1>4
    <3>1. result[n] \in Kept /\ result[n] < start
      BY <1>1 DEF Kept, LoopInv
    <3>2. occluded = {t \in Reach : \E x \in Kept : x < t /\ Occludes(cand[x].id, cand[t])}
      BY <1>1 DEF LoopInv
    <3> HIDE DEF Occludes
    <3> QED
      BY <2>1, <3>1, <3>2
  <2>6. Extend(point, PrunedList, cand[start], Occluding) = Append(PrunedList, cand[start].id)
    BY <1>4, <2>1, <2>5 DEF Extend, Occluding
  <2> QED
    BY <1>2, <1>3, <2>1, <2>2, <2>3, <2>4, <2>6 DEF RefInv
<1>7. CASE Return \/ UNCHANGED vars
  <2>1. UNCHANGED <<rule, point, cand, start, result>>
    BY <1>7 DEF Return, vars
  <2> QED
    BY <1>3, <2>1 DEF RefInv, Last, Occluding, List, PrunedList
<1> QED
  BY <1>5, <1>6, <1>7 DEF Next

\* Once R are kept, or there is nothing more to look at, the reference adds nothing.
LEMMA FullIsFinal ==
    ASSUME RInv, returned
    PROVE  PrunedList = List[Last]
<1>1. /\ TypeOK /\ LoopInv /\ start \in Nat \ {0} /\ Len(result) \in Nat /\ R \in Nat \ {0}
      /\ start <= Last + 1 /\ PrunedList = List[start - 1]
  BY PruningAssumption DEF RInv, RefInv, Inv, TypeOK
<1>2. /\ Last \in Nat /\ Reach = 1..Last
      /\ \A i \in 1..Last : List[i] = Extend(point, List[i - 1], cand[i], Occluding)
  BY <1>1, ListFacts DEF Turns
<1>3. CASE start = Last + 1
  BY <1>1, <1>2, <1>3
<1>4. CASE start # Last + 1
  <2>1. Len(result) = R
    BY <1>1, <1>2, <1>4 DEF LoopInv
  <2>2. Len(PrunedList) = R
    BY <1>1, <2>1 DEF PrunedList
  <2> DEFINE n == Last - (start - 1)
             S == {i \in 0..n : List[start - 1 + i] = PrunedList}
  <2>3. n \in Nat /\ 0 \in S
    BY <1>1, <1>2
  <2>4. ASSUME NEW i \in 0..(n - 1), i \in S
        PROVE  i + 1 \in S
    <3>1. start - 1 + (i + 1) \in 1..Last /\ (start - 1 + (i + 1)) - 1 = start - 1 + i /\ i + 1 \in 0..n
      BY <1>1, <1>2, <2>3
    <3>2. List[start - 1 + (i + 1)] = Extend(point, PrunedList, cand[start - 1 + (i + 1)], Occluding)
      BY <1>2, <2>4, <3>1
    <3>3. \A x, o : Extend(point, PrunedList, x, o) = PrunedList
      <4>1. ~ (Len(PrunedList) < R)
        BY <1>1, <2>2
      <4> QED
        BY <4>1 DEF Extend
    <3> QED
      BY <3>1, <3>2, <3>3
  <2>5. n \in S
    <3>1. \A i \in 0..n : i \in S
      <4> HIDE DEF S, n
      <4> QED
        BY <2>3, <2>4, InductionTo
    <3> QED
      BY <2>3, <3>1
  <2>6. start - 1 + n = Last
    BY <1>1, <1>2
  <2> QED
    BY <2>5, <2>6
<1> QED
  BY <1>3, <1>4

\* Both loops return what the rules of module Pruning say, whatever the order of the
\* turns and wherever R or maxc stops them.
THEOREM LoopsMatchReference == Spec => []MatchesReference
<1>1. Init => RInv
  BY InvInit, RefInit DEF RInv
<1>2. RInv /\ [Next]_vars => RInv'
  BY InvStep, RefStep DEF RInv
<1>3. RInv => MatchesReference
  <2> SUFFICES ASSUME RInv, returned
               PROVE  PrunedList = IF rule = "alphaRng" THEN AlphaRng(point, cand)
                                                        ELSE TopK(point, cand)
    BY DEF MatchesReference
  <2>1. TypeOK
    BY DEF RInv, Inv
  <2>2. PrunedList = PrunedTo(point, cand, Last, Occluding)
    BY <2>1, FullIsFinal, ListFacts DEF Turns
  <2>3. CASE rule = "alphaRng"
    <3>1. Occluding = TRUE
      BY <2>3 DEF Occluding
    <3>2. Last = Looked(cand)
      BY <2>3 DEF Last
    <3>3. PrunedList = AlphaRng(point, cand)
      BY <2>2, <3>1, <3>2 DEF AlphaRng
    <3> QED
      BY <2>3, <3>3, Zenon
  <2>4. CASE rule # "alphaRng"
    <3>1. Occluding = FALSE
      BY <2>4 DEF Occluding
    <3>2. Last = Len(cand)
      BY <2>4 DEF Last
    <3>3. PrunedList = TopK(point, cand)
      BY <2>2, <3>1, <3>2 DEF TopK
    <3> QED
      BY <2>4, <3>3, Zenon
  <2> QED
    BY <2>3, <2>4
<1> QED
  BY <1>1, <1>2, <1>3, PTL DEF Spec
=============================================================================
