----------------------------- MODULE GraphBuild -----------------------------
(***************************************************************************)
(* The concurrent construction of a Vamana graph: Vamana::build            *)
(* (src/vamana.cpp) with the two GraphIndex methods it calls on the shared *)
(* adjacency lists, greedy_search_to_fixed_point and add_reciprocal_edges  *)
(* (src/graph_index.cpp).                                                  *)
(*                                                                         *)
(* The locations are dealt to the threads of an OpenMP team in static      *)
(* chunks.  For each location a thread searches the unfinished graph,      *)
(* prunes what it expanded, appends the result to the location's list and  *)
(* then adds the reverse edges; a list that has reached the slack is       *)
(* copied, pruned without its lock, and overwritten.  A barrier separates  *)
(* this loop from a clean-up loop that prunes every list longer than R.    *)
(*                                                                         *)
(* One critical section of a per-vertex lock is one action: sections never *)
(* nest, so the locks need no variables of their own.  What a thread       *)
(* computes between two sections touches only its own locals and is part   *)
(* of the next section.  The search keeps the pool as a set, see the       *)
(* module GreedySearch for the array.                                      *)
(***************************************************************************)
EXTENDS Naturals, FiniteSets, Functions, Sequences

CONSTANTS
    N,                \* _num_points
    T,                \* num_threads, the size of the OpenMP team
    CHUNK,            \* the chunk of the build loop, schedule(static, 64)
    CLEANUP_CHUNK,    \* the chunk of the clean-up loop, schedule(dynamic, 65536)
    L,                \* Lsize
    R,                \* degree_bound
    Dist(_, _),       \* Distance<T>::compare
    Filtered,         \* _filtered_index
    Labels,           \* _pts_to_labels
    UniversalLabel,   \* _universal_label
    Entries,          \* for each location, where its search starts
    PruningRule,      \* pruning_rule, 0 for alpha-RNG
    PruneAlphaRng(_, _),  \* prune_candidates_alpha_rng of a set of ids
    PruneTopK(_, _)       \* prune_candidates_top_K of a set of ids

Points == 0..(N - 1)
Threads == 0..(T - 1)
None == N           \* a thread with no location in hand

\* What both prune rules promise about the list they return (AlphaPruneProofs).
PruneContract(Prune(_, _)) ==
    \A p \in Points : \A S \in SUBSET Points :
        LET s == Prune(p, S)
        IN  /\ s \in Seq(S \ {p})
            /\ Len(s) <= R
            /\ \A i, j \in 1..Len(s) : s[i] = s[j] => i = j
            /\ S \ {p} # {} => s # << >>

ASSUME SizeAssumption ==
    /\ N \in Nat \ {0}
    /\ T \in Nat \ {0}
    /\ CHUNK \in Nat \ {0}
    /\ CLEANUP_CHUNK \in Nat \ {0}
    /\ L \in Nat \ {0}
    /\ R \in Nat \ {0}

ASSUME DataAssumption ==
    /\ \A p, q \in Points : Dist(p, q) \in Nat
    /\ Filtered \in BOOLEAN
    /\ PruningRule \in Nat
    /\ Entries \in [Points -> SUBSET Points]
    /\ \A p \in Points : Entries[p] # {}

ASSUME PruneAssumption == PruneContract(PruneAlphaRng) /\ PruneContract(PruneTopK)

----------------------------------------------------------------------------
VARIABLES
    phase,       \* "build" until the first barrier, then "cleanup", then "done"
    outNbrs,     \* _out_nbrs: the adjacency list of every point
    todo,        \* the locations each thread has not started
    pc,          \* where each thread is in the body of the loop
    loc,         \* location
    pool,        \* the ids in best_L_nodes
    inserted,    \* inserted_into_pool
    expanded,    \* expanded_nodes_ids
    links,       \* pruned_list
    idx,         \* the position of des in pruned_list
    copied,      \* copy_of_neighbors
    dirty        \* the nodes the clean-up loop has not visited

search == <<pool, inserted, expanded>>
locals == <<todo, pc, loc, search, links, idx, copied>>
vars == <<phase, outNbrs, locals, dirty>>

\* Variants with a bug, which the runs are expected to notice, stand before the
\* definition they would replace.

\* Variant: every thread also runs the chunks of the threads after it.
OwnedOverlapping(t) == {p \in Points : (p \div CHUNK) % T >= t}

\* The locations thread t runs: schedule(static, CHUNK) deals chunks in turn.
Owned(t) == {p \in Points : (p \div CHUNK) % T = t}

\* The filter of process_candidates_into_best_candidates_pool for location p.
Accepts(p, x) ==
    \/ ~ Filtered
    \/ Labels[p] = {}
    \/ Labels[p] \cap Labels[x] # {}
    \/ UniversalLabel \in Labels[p] \cup Labels[x]

\* What the search starts from: all the entries, or the first L it meets.
Seeds(p) ==
    {B \in SUBSET Entries[p] :
        Cardinality(B) = IF Cardinality(Entries[p]) < L
                         THEN Cardinality(Entries[p]) ELSE L}

\* The L closest ids of a set; a tie at the end of the list goes either way.
Closest(p, S) ==
    {B \in SUBSET S :
        /\ Cardinality(B) = IF Cardinality(S) < L THEN Cardinality(S) ELSE L
        /\ \A x \in B : \A y \in S \ B : Dist(p, x) <= Dist(p, y)}

\* Variant: the size is tested as if the edge were not to be added.
BelowSlackOffByOne(s) == 10 * Len(s) < 13 * R + 10

\* des_pool.size() < VAMANA_SLACK_FACTOR * degree_bound, the factor being 1.3.
BelowSlack(s) == 10 * Len(s) < 13 * R

ReciprocalPrune(p, S) ==
    IF PruningRule = 0 THEN PruneAlphaRng(p, S) ELSE PruneTopK(p, S)

TypeOK ==
    /\ phase \in {"build", "cleanup", "done"}
    /\ outNbrs \in [Points -> Seq(Points)]
    /\ todo \in [Threads -> SUBSET Points]
    /\ pc \in [Threads -> {"next", "search", "reciprocal", "overwrite"}]
    /\ loc \in [Threads -> Points \cup {None}]
    /\ pool \in [Threads -> SUBSET Points]
    /\ inserted \in [Threads -> SUBSET Points]
    /\ expanded \in [Threads -> SUBSET Points]
    /\ links \in [Threads -> Seq(Points)]
    /\ idx \in [Threads -> Nat]
    /\ copied \in [Threads -> Seq(Points)]
    /\ dirty \in SUBSET Points

Init ==
    /\ phase = "build"
    /\ outNbrs = [p \in Points |-> << >>]
    /\ todo = [t \in Threads |-> Owned(t)]
    /\ pc = [t \in Threads |-> "next"]
    /\ loc = [t \in Threads |-> None]
    /\ pool = [t \in Threads |-> {}]
    /\ inserted = [t \in Threads |-> {}]
    /\ expanded = [t \in Threads |-> {}]
    /\ links = [t \in Threads |-> << >>]
    /\ idx = [t \in Threads |-> 1]
    /\ copied = [t \in Threads |-> << >>]
    /\ dirty = Points

----------------------------------------------------------------------------
(* Thread t takes its next location and seeds the pool with the entries.   *)
BeginLocation(t) ==
    /\ pc[t] = "next"
    /\ \E p \in todo[t] :
        /\ \A q \in todo[t] : p <= q
        /\ todo' = [todo EXCEPT ![t] = @ \ {p}]
        /\ loc' = [loc EXCEPT ![t] = p]
        /\ \E B \in Seeds(p) : /\ inserted' = [inserted EXCEPT ![t] = B]
                              /\ pool' = [pool EXCEPT ![t] = B]
    /\ expanded' = [expanded EXCEPT ![t] = {}]
    /\ pc' = [pc EXCEPT ![t] = "search"]
    /\ UNCHANGED <<phase, outNbrs, links, idx, copied, dirty>>

(* Variant: the flag of the node is not cleared.                           *)
ExpandUnmarked(t) ==
    /\ pc[t] = "search"
    /\ \E n \in pool[t] \ expanded[t] :
        LET new == {x \in Range(outNbrs[n]) \ inserted[t] : Accepts(loc[t], x)}
        IN  /\ inserted' = [inserted EXCEPT ![t] = @ \cup new]
            /\ \E B \in Closest(loc[t], pool[t] \cup new) :
                   pool' = [pool EXCEPT ![t] = B]
    /\ UNCHANGED <<phase, outNbrs, todo, pc, loc, expanded, links, idx, copied, dirty>>

(* One turn of the search: the closest node of the pool that has not been  *)
(* expanded is, and its list, copied under the read lock, is merged in.    *)
Expand(t) ==
    /\ pc[t] = "search"
    /\ \E n \in pool[t] \ expanded[t] :
        /\ \A m \in pool[t] \ expanded[t] : Dist(loc[t], n) <= Dist(loc[t], m)
        /\ expanded' = [expanded EXCEPT ![t] = @ \cup {n}]
        /\ LET new == {x \in Range(outNbrs[n]) \ inserted[t] : Accepts(loc[t], x)}
           IN  /\ inserted' = [inserted EXCEPT ![t] = @ \cup new]
               /\ \E B \in Closest(loc[t], pool[t] \cup new) :
                      pool' = [pool EXCEPT ![t] = B]
    /\ UNCHANGED <<phase, outNbrs, todo, pc, loc, links, idx, copied, dirty>>

(* The search is at its fixed point: prune what it expanded and append the *)
(* result to the location's own list, whatever others have put there.      *)
Publish(t) ==
    /\ pc[t] = "search"
    /\ pool[t] \subseteq expanded[t]
    /\ LET pruned == PruneAlphaRng(loc[t], expanded[t])
       IN  /\ links' = [links EXCEPT ![t] = pruned]
           /\ outNbrs' = [outNbrs EXCEPT ![loc[t]] = @ \o pruned]
    /\ idx' = [idx EXCEPT ![t] = 1]
    /\ pc' = [pc EXCEPT ![t] = "reciprocal"]
    /\ UNCHANGED <<phase, todo, loc, search, copied, dirty>>

(* Variant: the edge is added without a search for it.                     *)
ReciprocalUnchecked(t) ==
    /\ pc[t] = "reciprocal"
    /\ idx[t] <= Len(links[t])
    /\ LET des == links[t][idx[t]]
       IN  IF BelowSlack(outNbrs[des])
           THEN /\ outNbrs' = [outNbrs EXCEPT ![des] = Append(@, loc[t])]
                /\ idx' = [idx EXCEPT ![t] = @ + 1]
                /\ UNCHANGED <<pc, copied>>
           ELSE /\ copied' = [copied EXCEPT ![t] = Append(outNbrs[des], loc[t])]
                /\ pc' = [pc EXCEPT ![t] = "overwrite"]
                /\ UNCHANGED <<outNbrs, idx>>
    /\ UNCHANGED <<phase, todo, loc, search, links, dirty>>

(* The first critical section on des: the edge is there, fits, or the list *)
(* is copied for pruning and the lock released.                            *)
Reciprocal(t) ==
    /\ pc[t] = "reciprocal"
    /\ idx[t] <= Len(links[t])
    /\ LET des == links[t][idx[t]]
       IN  IF loc[t] \in Range(outNbrs[des]) \/ BelowSlack(outNbrs[des])
           THEN /\ outNbrs' = IF loc[t] \in Range(outNbrs[des])
                              THEN outNbrs
                              ELSE [outNbrs EXCEPT ![des] = Append(@, loc[t])]
                /\ idx' = [idx EXCEPT ![t] = @ + 1]
                /\ UNCHANGED <<pc, copied>>
           ELSE /\ copied' = [copied EXCEPT ![t] = Append(outNbrs[des], loc[t])]
                /\ pc' = [pc EXCEPT ![t] = "overwrite"]
                /\ UNCHANGED <<outNbrs, idx>>
    /\ UNCHANGED <<phase, todo, loc, search, links, dirty>>

(* Variant: the copy is cleared before it is pruned.                       *)
OverwriteCleared(t) ==
    /\ pc[t] = "overwrite"
    /\ outNbrs' = [outNbrs EXCEPT
           ![links[t][idx[t]]] = ReciprocalPrune(links[t][idx[t]], {})]
    /\ copied' = [copied EXCEPT ![t] = << >>]
    /\ idx' = [idx EXCEPT ![t] = @ + 1]
    /\ pc' = [pc EXCEPT ![t] = "reciprocal"]
    /\ UNCHANGED <<phase, todo, loc, search, links, dirty>>

(* The second critical section: the pruned copy replaces the list.         *)
Overwrite(t) ==
    /\ pc[t] = "overwrite"
    /\ LET des == links[t][idx[t]]
       IN  outNbrs' = [outNbrs EXCEPT
               ![des] = ReciprocalPrune(des, Range(copied[t]) \ {des})]
    /\ copied' = [copied EXCEPT ![t] = << >>]
    /\ idx' = [idx EXCEPT ![t] = @ + 1]
    /\ pc' = [pc EXCEPT ![t] = "reciprocal"]
    /\ UNCHANGED <<phase, todo, loc, search, links, dirty>>

(* The end of the loop body: the locals of the iteration go out of scope.  *)
EndLocation(t) ==
    /\ pc[t] = "reciprocal"
    /\ idx[t] > Len(links[t])
    /\ pc' = [pc EXCEPT ![t] = "next"]
    /\ loc' = [loc EXCEPT ![t] = None]
    /\ pool' = [pool EXCEPT ![t] = {}]
    /\ inserted' = [inserted EXCEPT ![t] = {}]
    /\ expanded' = [expanded EXCEPT ![t] = {}]
    /\ links' = [links EXCEPT ![t] = << >>]
    /\ idx' = [idx EXCEPT ![t] = 1]
    /\ UNCHANGED <<phase, outNbrs, todo, copied, dirty>>

(* The implicit barrier at the end of the parallel loop.                   *)
Barrier ==
    /\ phase = "build"
    /\ \A t \in Threads : pc[t] = "next" /\ todo[t] = {}
    /\ phase' = "cleanup"
    /\ UNCHANGED <<outNbrs, locals, dirty>>

(* Variant: a list one longer than R is let through.                       *)
CleanUpOffByOne(node) ==
    /\ phase = "cleanup"
    /\ node \in dirty
    /\ \A m \in dirty :
          m \div CLEANUP_CHUNK = node \div CLEANUP_CHUNK => node <= m
    /\ dirty' = dirty \ {node}
    /\ outNbrs' = IF Len(outNbrs[node]) > R + 1
                  THEN [outNbrs EXCEPT
                           ![node] = PruneAlphaRng(node, Range(@) \ {node})]
                  ELSE outNbrs
    /\ UNCHANGED <<phase, locals>>

(* One iteration of the clean-up loop: schedule(dynamic) hands out chunks  *)
(* in no known order, and the nodes of a chunk are visited in order.       *)
CleanUp(node) ==
    /\ phase = "cleanup"
    /\ node \in dirty
    /\ \A m \in dirty :
          m \div CLEANUP_CHUNK = node \div CLEANUP_CHUNK => node <= m
    /\ dirty' = dirty \ {node}
    /\ outNbrs' = IF Len(outNbrs[node]) > R
                  THEN [outNbrs EXCEPT
                           ![node] = PruneAlphaRng(node, Range(@) \ {node})]
                  ELSE outNbrs
    /\ UNCHANGED <<phase, locals>>

(* The second barrier; _has_built is set.                                  *)
Finish ==
    /\ phase = "cleanup"
    /\ dirty = {}
    /\ phase' = "done"
    /\ UNCHANGED <<outNbrs, locals, dirty>>

Step(t) ==
    \/ BeginLocation(t)
    \/ Expand(t)
    \/ Publish(t)
    \/ Reciprocal(t)
    \/ Overwrite(t)
    \/ EndLocation(t)

\* A finished build stays as it is.
Done == phase = "done" /\ UNCHANGED vars

Next ==
    \/ \E t \in Threads : Step(t)
    \/ Barrier
    \/ \E node \in Points : CleanUp(node)
    \/ Finish
    \/ Done

Spec == Init /\ [][Next]_vars

\* The machine runs some thread that can take a step.  No thread waits for
\* another outside the barriers, so the work left decreases whichever it is.
FairSpec == Spec /\ WF_vars(Next)

----------------------------------------------------------------------------
(* Properties.                                                             *)

EntryPoints == UNION {Entries[p] : p \in Points}

\* The location is past the append of its own links.
Published(p) ==
    \A t \in Threads : p \notin todo[t] /\ ~ (loc[t] = p /\ pc[t] = "search")

\* The location has been through the whole body of the loop.
Processed(p) == \A t \in Threads : p \notin todo[t] /\ loc[t] # p

\* The search for p may start from nothing but p itself.
Lone(p) == \E B \in Seeds(p) : B \subseteq {p}

\* No point is ever its own neighbour, although the medoid finds itself when it
\* searches and reverse edges are added from lists read without a lock.
NoSelfLoops == \A p \in Points : p \notin Range(outNbrs[p])

\* A list outgrows the slack of add_reciprocal_edges by one edge at most; only
\* an entry point, whose list others fill before its own links are appended
\* without looking at its length, can exceed that, and then by R.
SlackBound ==
    \A p \in Points :
        10 * Len(outNbrs[p]) <
            13 * R + 10 + (IF p \in EntryPoints /\ Published(p) THEN 10 * R ELSE 0)

\* The location has an empty list and appears nowhere: in no list, no search
\* and no pending reverse edge.
Isolated(p) ==
    /\ outNbrs[p] = << >>
    /\ \A q \in Points : p \notin Range(outNbrs[q])
    /\ \A t \in Threads :
          p \notin inserted[t] \cup Range(links[t]) \cup Range(copied[t])

\* A location that is no entry point is isolated until it appends its links,
\* whatever the searches and the reverse edges of other threads do meanwhile.
UnpublishedIsolated ==
    \A p \in Points \ EntryPoints : ~ Published(p) => Isolated(p)

\* The blind append of a location's links repeats an edge only at entry points.
DistinctUnlessEntry ==
    \A p \in Points \ EntryPoints : \A i, j \in 1..Len(outNbrs[p]) :
        outNbrs[p][i] = outNbrs[p][j] => i = j

\* Only a location whose search could start nowhere but at itself may have appended no
\* link, and it has an edge as soon as any other location whose search starts at it
\* alone has been processed, whatever the overwrites of other threads drop.  A build
\* that starts every search at the medoid leaves no location without an edge.
NeverStranded ==
    \A p \in Points : outNbrs[p] = << >> =>
        /\ Published(p) => Lone(p)
        /\ \A q \in Points \ {p} : Entries[q] = {p} => ~ Processed(q)

\* When the build is over no list is longer than R.
FinalDegree == phase = "done" => \A p \in Points : Len(outNbrs[p]) <= R

\* What a thread overwrites is still what it copied.  This holds when one
\* thread runs every location, and is what the released lock gives up otherwise.
CopyIsCurrent ==
    \A t \in Threads : pc[t] = "overwrite" =>
        copied[t] = Append(outNbrs[links[t][idx[t]]], loc[t])

\* The build ends, whatever the threads put in each other's lists.
BuildTerminates == <>(phase = "done")
=============================================================================
