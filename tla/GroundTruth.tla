---------------------------- MODULE GroundTruth ----------------------------
(***************************************************************************)
(* How an answer is judged: the exact nearest neighbours of a query are    *)
(* computed part by part and saved (src/aux_compute_groundtruth.cpp),      *)
(* loaded by the programs that search (load_truthset,                      *)
(* include/recall_utils.h) and compared with the ids a search has left in  *)
(* its output (calculate_recall, src/recall_utils.cpp).                    *)
(*                                                                         *)
(* There is one query.  The truthset file is the lengths of what follows   *)
(* its header: k ids and k distances, unless its writing was cut short.    *)
(***************************************************************************)
EXTENDS Naturals, FiniteSets, SequencesExt

CONSTANTS
    NumPoints,
    PARTSIZE        \* how many points are in memory at once

ASSUME TruthAssumption == NumPoints \in Nat \ {0} /\ PARTSIZE \in Nat \ {0}

VARIABLES
    dim_gs,      \* k: what was asked for, then the least number of points of a part
    part,        \* the parts that were searched
    merged,      \* results, of all these parts
    closest_points,   \* the truth, closest first, or << >>
    truthset,    \* the lengths of ids and distances in the file, or << >>
    gs_dist,     \* whether there are distances: "unread", "none", "some", "refused"
    recall       \* cur_recall, or NotYet

tvars == <<dim_gs, part, merged, closest_points, truthset, gs_dist, recall>>

NotYet == NumPoints + 1

TruthInit(asked) ==
    /\ dim_gs = asked
    /\ part = 0
    /\ merged = {}
    /\ closest_points = << >> /\ truthset = << >>
    /\ gs_dist = "unread"
    /\ recall = NotYet

----------------------------------------------------------------------------
(* Computing the truth.                                                    *)

num_parts == IF NumPoints % PARTSIZE = 0 THEN NumPoints \div PARTSIZE
                                         ELSE NumPoints \div PARTSIZE + 1

\* The ids of a part, in order, and its number of points.
npoints(p) == IF NumPoints - p * PARTSIZE < PARTSIZE THEN NumPoints - p * PARTSIZE
                                                     ELSE PARTSIZE
PartIds(p) == [n \in 1..npoints(p) |-> p * PARTSIZE + n - 1]

\* Variants with a bug, which the runs are expected to notice, stand before the
\* definition they would replace.

\* Variant: a new point has to be closer than the best of the heap.
TurnBottom(heap, x, dist, size) ==
    LET top(h) == {y \in h : \A z \in h : dist[z] <= dist[y]}
        grown == IF \A y \in heap : dist[y] > dist[x] THEN heap \cup {x} ELSE heap
    IN  IF Cardinality(grown) > size THEN {grown \ {y} : y \in top(grown)} ELSE {grown}

\* A turn of the loop over the points past the first k: a point closer than the top
\* of the heap goes in, and a heap of more than k loses its top.
Turn(heap, x, dist, size) ==
    LET top(h) == {y \in h : \A z \in h : dist[z] <= dist[y]}
        grown == IF \A y \in top(heap) : dist[y] > dist[x] THEN heap \cup {x} ELSE heap
    IN  IF Cardinality(grown) > size THEN {grown \ {y} : y \in top(grown)} ELSE {grown}

\* exact_knn of a part: what the heap may hold, as it is open which of several points
\* at one distance it drops.
exact_knn(ids, dist, size) ==
    LET heaps[n \in 0..Len(ids)] ==
            IF n <= size THEN {{ids[i] : i \in 1..n}}
            ELSE UNION {Turn(h, ids[n], dist, size) : h \in heaps[n - 1]}
    IN  heaps[Len(ids)]

\* The next part.  A part with fewer than k points makes k smaller for good.
ComputePart(dist) ==
    /\ part < num_parts
    /\ dim_gs' = IF npoints(part) <= dim_gs THEN npoints(part) ELSE dim_gs
    /\ \E heap \in exact_knn(PartIds(part), dist, dim_gs') : merged' = merged \cup heap
    /\ part' = part + 1
    /\ UNCHANGED <<closest_points, truthset, gs_dist, recall>>

\* What was found in all parts is sorted, and the first k are the truth.
SortTruth(dist) ==
    /\ part = num_parts
    /\ closest_points = << >>
    /\ closest_points' \in {s \in [1..dim_gs -> merged] :
           /\ IsInjective(s)
           /\ \A i, j \in 1..dim_gs : i < j => dist[s[i]] <= dist[s[j]]
           /\ \A x \in merged \ Range(s) : \A y \in Range(s) : dist[y] <= dist[x]}
    /\ UNCHANGED <<dim_gs, part, merged, truthset, gs_dist, recall>>

\* save_groundtruth_as_one_file, completed or cut short anywhere behind the header.
SaveTruth ==
    /\ closest_points # << >>
    /\ truthset = << >>
    /\ truthset' \in {<<dim_gs, n>> : n \in 0..dim_gs} \cup {<<n, 0>> : n \in 0..dim_gs}
    /\ UNCHANGED <<dim_gs, part, merged, closest_points, gs_dist, recall>>

----------------------------------------------------------------------------
(* Using it.                                                               *)

\* The type of a truthset, told from its size.
TruthsetType(size) ==
    IF size = 2 * dim_gs THEN "some" ELSE IF size = dim_gs THEN "none" ELSE "refused"

\* load_truthset.
LoadTruth ==
    /\ truthset # << >>
    /\ gs_dist = "unread"
    /\ gs_dist' = TruthsetType(truthset[1] + truthset[2])
    /\ UNCHANGED <<dim_gs, part, merged, closest_points, truthset, recall>>

\* Variant: ties are not looked at.
tie_breaker_plain(dist, recall_at) == recall_at

\* How many ids of the truth count: those at the distance of the last wanted do too,
\* as far as the truth goes.
tie_breaker(dist, recall_at) ==
    IF gs_dist = "none" THEN recall_at
    ELSE IF recall_at > dim_gs THEN recall_at - 1
    ELSE CHOOSE n \in recall_at..dim_gs :
            /\ \A i \in recall_at..n : dist[closest_points[i]] = dist[closest_points[recall_at]]
            /\ n < dim_gs => dist[closest_points[n + 1]] # dist[closest_points[recall_at]]

\* calculate_recall of what is in the output of a search.  Behind a truth that is too
\* short lie any ids.
CalculateRecall(dist, our_results, recall_at) ==
    /\ gs_dist \in {"none", "some"}
    /\ recall = NotYet
    /\ LET n == tie_breaker(dist, recall_at)
           behind == IF n > dim_gs THEN SUBSET {our_results[i] : i \in 1..recall_at} ELSE {{}}
       IN  \E beyond \in {S \in behind : Cardinality(S) <= n - dim_gs \/ S = {}} :
             recall' = Cardinality(
                 ({closest_points[i] : i \in 1..(IF n < dim_gs THEN n ELSE dim_gs)} \cup beyond)
                 \cap {our_results[i] : i \in 1..recall_at})
    /\ UNCHANGED <<dim_gs, part, merged, closest_points, truthset, gs_dist>>

----------------------------------------------------------------------------
(* Properties.                                                             *)

\* However the points are cut into parts and ties fall, the truth is k different points
\* closest first, and no other point is closer; k being what was asked for or the size
\* of the smallest part.
TruthIsExactFor(dist, asked) ==
    closest_points # << >> =>
        /\ Len(closest_points) =
              Min({asked} \cup {npoints(p) : p \in 0..(num_parts - 1)})
        /\ IsInjective(closest_points)
        /\ \A i, j \in DOMAIN closest_points :
              i < j => dist[closest_points[i]] <= dist[closest_points[j]]
        /\ \A x \in (0..(NumPoints - 1)) \ Range(closest_points) :
              dist[closest_points[Len(closest_points)]] <= dist[x]
=============================================================================
