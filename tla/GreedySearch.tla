---------------------------- MODULE GreedySearch ----------------------------
(***************************************************************************)
(* One call of GraphIndex::greedy_search_to_fixed_point                    *)
(* (src/graph_index.cpp) and what Vamana::search (src/vamana.cpp) returns  *)
(* of it.  The array best_L_nodes is scanned from the front: a candidate   *)
(* that was not expanded is, its neighbours are merged into the array one  *)
(* after the other, and the scan goes back to the best place an insertion  *)
(* was made at.                                                            *)
(*                                                                         *)
(* During a build other threads change the lists while the search is under *)
(* way: it copies a list under its lock, but another list may be different *)
(* when it gets there (Rewrite).                                           *)
(***************************************************************************)
EXTENDS Naturals, FiniteSets, Sequences, Functions, CandidatePool

CONSTANTS
    Points,
    Queries,     \* the inputs of the search
    Graphs(_),   \* the adjacency lists an input may start with
    Tag(_)       \* _tag_map

ASSUME InputAssumption ==
    /\ 0 \in Points
    /\ IsFiniteSet(Points)
    /\ \A q \in Queries :
        /\ q.dist \in [Points -> 0..(Far - 1)]
        /\ q.accepts \subseteq Points       \* the ids with an accepted label
        /\ q.L \in Nat \ {0}
        /\ q.init_ids \in Seq(Points)
        /\ q.res_count \in 1..(q.L + 1)
        /\ q.writes \subseteq Points \X Seq(Points)  \* what others may make of a list
        /\ \A g \in Graphs(q) : g \in [Points -> Seq(Points)]

VARIABLES
    query,       \* node_coords, the labels to filter by, Lsize, init_ids, res_count,
                 \* and whether a build is going on
    out_nbrs,    \* _out_nbrs
    pc,
    addr,        \* best_L_nodes
    l,           \* how many candidates are in it
    k,           \* the position of the scan
    inserted,    \* inserted_into_pool
    expanded,    \* expanded_nodes_info, their ids
    des,         \* the list of the node last expanded
    m,           \* the next candidate of des
    best,        \* best_inserted_position
    results,     \* indices and distances
    returned     \* the number of results

array == <<addr, l, k>>
merging == <<des, m, best>>
output == <<results, returned>>
vars == <<query, out_nbrs, pc, array, inserted, expanded, merging, output>>

\* The first L distinct ids of init_ids.
Seeds ==
    LET s == query.init_ids
        first == {i \in DOMAIN s : \A j \in 1..(i - 1) : s[j] # s[i]}
    IN  {s[i] : i \in {n \in first : Cardinality({j \in first : j < n}) < query.L}}

Init ==
    /\ query \in Queries
    /\ out_nbrs \in Graphs(query)
    /\ pc = "seed"
    /\ addr = Slots(query.L)
    /\ l = 0 /\ k = 0
    /\ inserted = {}
    /\ expanded = << >>
    /\ des = << >> /\ m = 1 /\ best = 0
    /\ results = << >> /\ returned = 0

\* The seeds enter the array, sorted; std::sort leaves ties in any order.
Seed ==
    /\ pc = "seed"
    /\ LET n == Cardinality(Seeds)
       IN  /\ \E ids \in Bijection(0..(n - 1), Seeds) :
               /\ \A i, j \in 0..(n - 1) :
                     i < j => query.dist[ids[i]] <= query.dist[ids[j]]
               /\ addr' = [j \in DOMAIN addr |->
                     IF j < n THEN [id |-> ids[j], distance |-> query.dist[ids[j]],
                                    flag |-> TRUE]
                              ELSE addr[j]]
           /\ l' = n
    /\ inserted' = Seeds
    /\ pc' = "scan"
    /\ UNCHANGED <<query, out_nbrs, k, expanded, merging, output>>

\* Variants with a bug, which the runs are expected to notice, stand before the
\* definition they would replace.

\* The candidate at k has not been expanded: its list is read.
Expand ==
    /\ pc = "scan"
    /\ k < l
    /\ addr[k].flag
    /\ addr' = [addr EXCEPT ![k].flag = FALSE]
    /\ expanded' = Append(expanded, addr[k].id)
    /\ des' = out_nbrs[addr[k].id]
    /\ m' = 1
    /\ best' = query.L
    /\ pc' = "merge"
    /\ UNCHANGED <<query, out_nbrs, l, k, inserted, output>>

\* Variant: the scan does not move.
AdvanceStuck ==
    /\ pc = "scan"
    /\ k < l
    /\ ~ addr[k].flag
    /\ UNCHANGED vars

\* It has been: the scan goes on.
Advance ==
    /\ pc = "scan"
    /\ k < l
    /\ ~ addr[k].flag
    /\ k' = k + 1
    /\ UNCHANGED <<query, out_nbrs, pc, addr, l, inserted, expanded, merging, output>>

\* One turn of the loop over the candidates.
Merge ==
    /\ pc = "merge"
    /\ m <= Len(des)
    /\ m' = m + 1
    /\ LET id == des[m]
           st == [addr |-> addr, size |-> l, best |-> best]
           new == Offer(st, query.L, id, query.dist[id])
       IN  IF id \notin query.accepts \/ id \in inserted
           THEN UNCHANGED <<addr, l, best, inserted>>
           ELSE /\ inserted' = inserted \cup {id}
                /\ addr' = new.addr
                /\ l' = new.size
                /\ best' = new.best
    /\ UNCHANGED <<query, out_nbrs, pc, k, expanded, des, output>>

\* Variant: the scan never goes back.
MergedForward ==
    /\ pc = "merge"
    /\ m > Len(des)
    /\ k' = k + 1
    /\ des' = << >>
    /\ pc' = "scan"
    /\ UNCHANGED <<query, out_nbrs, addr, l, inserted, expanded, m, best, output>>

\* All of them are merged: the scan goes back to the best insertion, or on.
Merged ==
    /\ pc = "merge"
    /\ m > Len(des)
    /\ k' = IF best <= k THEN best ELSE k + 1
    /\ des' = << >>
    /\ pc' = "scan"
    /\ UNCHANGED <<query, out_nbrs, addr, l, inserted, expanded, m, best, output>>

\* Variant: every slot copied out is counted.
ReturnAll ==
    /\ pc = "scan"
    /\ k >= l
    /\ results' = [i \in 1..query.res_count |->
                      [tag |-> Tag(addr[i - 1].id), distance |-> addr[i - 1].distance]]
    /\ returned' = query.res_count
    /\ pc' = "done"
    /\ UNCHANGED <<query, out_nbrs, array, inserted, expanded, merging>>

\* The scan has reached the end: the first res_count slots are copied out.
Return ==
    /\ pc = "scan"
    /\ k >= l
    /\ results' = [i \in 1..query.res_count |->
                      [tag |-> Tag(addr[i - 1].id), distance |-> addr[i - 1].distance]]
    /\ returned' = IF query.res_count < l THEN query.res_count ELSE l
    /\ pc' = "done"
    /\ UNCHANGED <<query, out_nbrs, array, inserted, expanded, merging>>

\* Another thread of the build changes a list.
Rewrite ==
    /\ pc # "done"
    /\ \E w \in query.writes : out_nbrs' = [out_nbrs EXCEPT ![w[1]] = w[2]]
    /\ UNCHANGED <<query, pc, array, inserted, expanded, merging, output>>

Search == Seed \/ Expand \/ Advance \/ Merge \/ Merged \/ Return

Next == Search \/ Rewrite

Spec == Init /\ [][Next]_vars

\* The thread that searches is never blocked for good: it holds no lock while
\* it waits for one.
FairSpec == Spec /\ WF_vars(Search)

----------------------------------------------------------------------------
(* Properties.                                                             *)

Ids == {addr[i].id : i \in 0..(l - 1)}

\* No other thread changes the graph.
Finished == query.writes = {}

\* What can be reached from the seeds through accepted points.
Reachable ==
    {x \in Points : \A S \in SUBSET Points :
        /\ Seeds \subseteq S
        /\ \A n \in S : Range(out_nbrs[n]) \cap query.accepts \subseteq S
        => x \in S}

\* A pool as large as the graph finds everything that can be reached.
WideSearchIsExact ==
    pc = "done" /\ Finished /\ query.L >= Cardinality(Points) => Ids = Reachable

\* The results that the return value counts are distinct points, none of them a
\* slot that was never filled, and nothing met in the search was closer than
\* the last of them but is not there.
ResultsAreClosest ==
    pc = "done" =>
        LET got == {i \in Points : \E n \in 1..returned : results[n].tag = Tag(i)}
        IN  /\ Cardinality(got) = returned
            /\ got \subseteq inserted
            /\ \A x \in inserted \ got : \A y \in got : query.dist[x] >= query.dist[y]
            /\ inserted \subseteq got \/ returned = query.res_count \/ returned = query.L

\* The search reaches its fixed point, even when the lists change under it.
SearchTerminates == <>(pc = "done")

\* The search is a best-first search.
Abstract == INSTANCE BestFirst WITH
    dist <- query.dist,
    size <- query.L,
    found <- inserted,
    pending <- {des[i] : i \in m..Len(des)} \cap (query.accepts \ inserted),
    pool <- Ids,
    expanded <- Range(expanded),
    answered <- pc = "done"

ImplementsBestFirst == Abstract!Spec
=============================================================================
