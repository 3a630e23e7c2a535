---------------------------- MODULE BucketSearch ----------------------------
(***************************************************************************)
(* What the searches of the LSH and the IVF index have in common: the ids  *)
(* of some buckets are collected in one list, and                          *)
(* process_candidates_into_best_candidates_pool (src/index.cpp) makes of   *)
(* it an array of the res_count best, of which the results are copied.     *)
(***************************************************************************)
EXTENDS CandidatePool, DataPoints, FiniteSets, Functions, Sequences

None == [none |-> TRUE]

\* Variants with a bug, which the runs are expected to notice, stand before the
\* definition they would replace.

\* Variant: ids met before are offered again.
ConsiderAgain(st, id, size, dist, accepts) ==
    IF id \notin accepts THEN st
    ELSE LET new == Offer(st, size, id, dist[id])
         IN  [addr |-> new.addr, size |-> new.size, best |-> new.best, inserted |-> {}]

\* A turn of the loop over the candidates: an accepted id is offered once.
Consider(st, id, size, dist, accepts) ==
    IF id \notin accepts \/ id \in st.inserted THEN st
    ELSE LET new == Offer(st, size, id, dist[id])
         IN  [addr |-> new.addr, size |-> new.size, best |-> new.best,
              inserted |-> st.inserted \cup {id}]

\* The array after all candidates.
PoolOf(cand_list, size, dist, accepts) ==
    LET turn[n \in 0..Len(cand_list)] ==
            IF n = 0
            THEN [addr |-> Slots(size), size |-> 0, best |-> size, inserted |-> {}]
            ELSE Consider(turn[n - 1], cand_list[n], size, dist, accepts)
    IN  turn[Len(cand_list)]

\* The indices and distances returned.
ResultsOf(pool) == [i \in 1..pool.size |->
    [index |-> pool.addr[i - 1].id, distance |-> pool.addr[i - 1].distance]]

\* The results r are n points of S, or all of S if it has fewer, none of them
\* twice, closest first, each with its own distance, and none was left out for a
\* farther one.
AreClosest(r, S, n, dist) ==
    LET got == {r[i].index : i \in DOMAIN r}
    IN  /\ Len(r) = IF Cardinality(S) < n THEN Cardinality(S) ELSE n
        /\ Cardinality(got) = Len(r)
        /\ got \subseteq S
        /\ \A i \in DOMAIN r : r[i].distance = dist[r[i].index]
        /\ \A i, j \in DOMAIN r : i < j => r[i].distance <= r[j].distance
        /\ \A x \in S \ got : \A y \in got : dist[x] >= dist[y]
=============================================================================
