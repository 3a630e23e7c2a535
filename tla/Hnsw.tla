-------------------------------- MODULE Hnsw --------------------------------
(***************************************************************************)
(* The construction of one level of an HNSW index: HNSW::build             *)
(* (src/hnsw.cpp).  Below level 0 points are sampled and an index of them, *)
(* one level down, is built first; the search for a location then starts   *)
(* from what that index answers, and not from the medoid.  What follows    *)
(* the search is as in module GraphBuild, whose critical sections are used *)
(* here, with two differences:                                             *)
(*  - the best candidates are pruned, not the expanded ones, and all the   *)
(*    L + 1 slots of the array are: the spare one, where the candidate     *)
(*    pushed out last may be, and those never filled, which read as point  *)
(*    0 at the largest distance;                                           *)
(*  - every prune follows pruning_rule.                                    *)
(* The levels below are complete before a thread starts, so that what they *)
(* answer to a location is a constant.                                     *)
(***************************************************************************)
EXTENDS GraphBuild

CONSTANTS
    Levels,             \* the values of _cur_level_number
    MILESTONES,         \* progress is shown as often, 10 in the code
    Medoid,             \* _start_node
    InnerResults(_, _), \* what _inner_index of a sample may answer to a location
    PruneSlots(_, _, _) \* a prune of a set of ids and of so many unfilled slots

\* The prunes keep up to R of what is in the slots, never p itself and nothing but
\* point 0 twice.
SlotsContract ==
    \A p \in Points : \A S \in SUBSET Points : \A n \in 0..(L + 1) :
        LET s == PruneSlots(p, S, n)
            ids == (S \cup (IF n > 0 THEN {0} ELSE {})) \ {p}
        IN  /\ s \in Seq(ids)
            /\ Len(s) <= R
            /\ \A i, j \in 1..Len(s) : s[i] = s[j] /\ s[i] # 0 => i = j
            /\ ids # {} => s # << >>

ASSUME HnswAssumption ==
    /\ Levels \subseteq Nat
    /\ MILESTONES \in Nat \ {0}
    /\ N >= MILESTONES
    /\ Medoid \in Points
    /\ \A S \in SUBSET Points : \A p \in Points : \A B \in InnerResults(S, p) :
          B \subseteq S /\ B # {} /\ Cardinality(B) <= L
    /\ SlotsContract

VARIABLES
    level,      \* _cur_level_number
    inner,      \* the level below: "none" yet, "ready", or "died"
    sample,     \* inner_level_pts
    spare       \* what the slot after the last of best_L_nodes holds

below == <<level, inner, sample>>
hvars == <<vars, below, spare>>

HTypeOK ==
    /\ TypeOK
    /\ level \in Levels
    /\ inner \in {"none", "ready", "died"}
    /\ sample \in SUBSET Points
    /\ spare \in [Threads -> Points \cup {None}]

HInit ==
    /\ Init
    /\ level \in Levels
    /\ inner = IF level = 0 THEN "ready" ELSE "none"
    /\ sample = {}
    /\ spare = [t \in Threads |-> None]

\* The sample is any set of points.  The level below counts its milestones in tenths
\* of them: with fewer points than tenths it takes a remainder by zero.
BuildInner ==
    /\ inner = "none"
    /\ sample' \in SUBSET Points
    /\ inner' = IF Cardinality(sample') < MILESTONES THEN "died" ELSE "ready"
    /\ UNCHANGED <<vars, level, spare>>

\* Where the search for p starts: init_ids.
InitIds(p) == IF level = 0 THEN {{Medoid}} ELSE InnerResults(sample, p)

HBeginLocation(t) ==
    /\ inner = "ready"
    /\ pc[t] = "next"
    /\ \E p \in todo[t] :
        /\ \A q \in todo[t] : p <= q
        /\ todo' = [todo EXCEPT ![t] = @ \ {p}]
        /\ loc' = [loc EXCEPT ![t] = p]
        /\ \E B \in InitIds(p) : /\ inserted' = [inserted EXCEPT ![t] = B]
                                 /\ pool' = [pool EXCEPT ![t] = B]
    /\ expanded' = [expanded EXCEPT ![t] = {}]
    /\ spare' = [spare EXCEPT ![t] = None]
    /\ pc' = [pc EXCEPT ![t] = "search"]
    /\ UNCHANGED <<phase, outNbrs, links, idx, copied, dirty, below>>

\* The candidates of a list that are turned away, the pool being full of closer ones
\* when their turn comes.
Refused(t, list) ==
    {list[i] : i \in {j \in 1..Len(list) :
        LET there == pool[t] \cup {list[n] : n \in 1..(j - 1)}
        IN  L <= Cardinality({y \in there \ {list[j]} :
                                 Dist(loc[t], y) <= Dist(loc[t], list[j])})}}

\* Of the candidates pushed out of a full pool the closest is the last, and stays in
\* the slot after it.
LeftOver(t, list, B) ==
    LET out == (pool[t] \cup (Range(list) \ inserted[t])) \ B
        pushed == out \ (Refused(t, list) \ pool[t])
    IN  IF pushed = {} THEN {spare[t]}
        ELSE {x \in pushed : \A y \in pushed : Dist(loc[t], x) <= Dist(loc[t], y)}

HExpand(t) ==
    /\ pc[t] = "search"
    /\ \E n \in pool[t] \ expanded[t] :
        /\ \A m \in pool[t] \ expanded[t] : Dist(loc[t], n) <= Dist(loc[t], m)
        /\ expanded' = [expanded EXCEPT ![t] = @ \cup {n}]
        /\ LET new == Range(outNbrs[n]) \ inserted[t]
           IN  /\ inserted' = [inserted EXCEPT ![t] = @ \cup new]
               /\ \E B \in Closest(loc[t], pool[t] \cup new) :
                     /\ pool' = [pool EXCEPT ![t] = B]
                     /\ \E x \in LeftOver(t, outNbrs[n], B) :
                           spare' = [spare EXCEPT ![t] = x]
    /\ UNCHANGED <<phase, outNbrs, todo, pc, loc, links, idx, copied, dirty, below>>

\* The slots of best_L_nodes that hold a candidate: those of the pool and the spare one.
Filled(t) == pool[t] \cup ({spare[t]} \ {None})

\* Variant, which the run is expected to notice: the array is cut to its candidates.
HPublishCut(t) ==
    /\ pc[t] = "search"
    /\ pool[t] \subseteq expanded[t]
    /\ LET pruned == PruneSlots(loc[t], pool[t], 0)
       IN  /\ links' = [links EXCEPT ![t] = pruned]
           /\ outNbrs' = [outNbrs EXCEPT ![loc[t]] = @ \o pruned]
    /\ idx' = [idx EXCEPT ![t] = 1]
    /\ spare' = [spare EXCEPT ![t] = None]
    /\ pc' = [pc EXCEPT ![t] = "reciprocal"]
    /\ UNCHANGED <<phase, todo, loc, search, copied, dirty, below>>

(* The search is at its fixed point: all the slots are pruned, and the     *)
(* result appended to the location's own list.                             *)
HPublish(t) ==
    /\ pc[t] = "search"
    /\ pool[t] \subseteq expanded[t]
    /\ LET pruned == PruneSlots(loc[t], Filled(t), L + 1 - Cardinality(Filled(t)))
       IN  /\ links' = [links EXCEPT ![t] = pruned]
           /\ outNbrs' = [outNbrs EXCEPT ![loc[t]] = @ \o pruned]
    /\ idx' = [idx EXCEPT ![t] = 1]
    /\ spare' = [spare EXCEPT ![t] = None]
    /\ pc' = [pc EXCEPT ![t] = "reciprocal"]
    /\ UNCHANGED <<phase, todo, loc, search, copied, dirty, below>>

\* The clean-up follows pruning_rule too.
HCleanUp(node) ==
    /\ phase = "cleanup"
    /\ node \in dirty
    /\ \A m \in dirty :
          m \div CLEANUP_CHUNK = node \div CLEANUP_CHUNK => node <= m
    /\ dirty' = dirty \ {node}
    /\ outNbrs' = IF Len(outNbrs[node]) > R
                  THEN [outNbrs EXCEPT
                           ![node] = ReciprocalPrune(node, Range(@) \ {node})]
                  ELSE outNbrs
    /\ UNCHANGED <<phase, locals, below, spare>>

HStep(t) ==
    \/ HBeginLocation(t)
    \/ HExpand(t)
    \/ HPublish(t)
    \/ (Reciprocal(t) \/ Overwrite(t) \/ EndLocation(t)) /\ UNCHANGED <<below, spare>>

HNext ==
    \/ BuildInner
    \/ \E t \in Threads : HStep(t)
    \/ \E node \in Points : HCleanUp(node)
    \/ (Barrier \/ Finish) /\ UNCHANGED <<below, spare>>
    \/ (Done \/ inner = "died") /\ UNCHANGED hvars

HSpec == HInit /\ [][HNext]_hvars

----------------------------------------------------------------------------
(* Properties.                                                             *)

\* No list outgrows the slack by more than the links of its own location, which are
\* appended once, without a look at its length.
HSlackBound ==
    \A p \in Points : 10 * Len(outNbrs[p]) < 13 * R + 10 + (IF Published(p) THEN 10 * R ELSE 0)

\* An edge is repeated at most once, by the location's own links when the reverse of
\* one of them came first: whatever lists are copied, pruned and overwritten without
\* their lock in the meantime.  Point 0 is the exception.
RepeatedOnce ==
    \A p \in Points : \A x \in Points \ {0} :
        Cardinality({i \in 1..Len(outNbrs[p]) : outNbrs[p][i] = x}) <= 2

\* A published location keeps an out-edge, and one that is not point 0 has one even if
\* its search met nothing but itself: slots that were never filled lead to point 0.
HNeverStranded ==
    \A p \in Points \ {0} : Published(p) => outNbrs[p] # << >>
=============================================================================
