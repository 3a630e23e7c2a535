----------------------------- MODULE BestFirst ------------------------------
(***************************************************************************)
(* What a best-first search with a bounded pool promises, whatever array   *)
(* holds the pool: it keeps the L closest candidates it has met, expands   *)
(* the closest one not expanded yet, and answers once all of the pool has  *)
(* been expanded.  Ties may be broken either way.                          *)
(***************************************************************************)
EXTENDS Naturals, FiniteSets

CONSTANT Points

VARIABLES
    dist,        \* the distance of every point to the query
    size,        \* how many candidates the pool holds
    found,       \* every candidate met
    pending,     \* candidates met in the node last expanded, not yet considered
    pool,        \* the closest candidates considered
    expanded,    \* the nodes that were expanded
    answered

vars == <<dist, size, found, pending, pool, expanded, answered>>

\* The choices of the closest candidates of S.
Closest(S) ==
    {B \in SUBSET S :
        /\ Cardinality(B) = IF Cardinality(S) < size THEN Cardinality(S) ELSE size
        /\ \A x \in B : \A y \in S \ B : dist[x] <= dist[y]}

Init ==
    /\ dist \in [Points -> Nat]
    /\ size \in Nat \ {0}
    /\ found = {} /\ pending = {} /\ pool = {} /\ expanded = {}
    /\ answered = FALSE

\* The search starts from at most size points.
Start ==
    /\ found = {}
    /\ \E B \in SUBSET Points :
        /\ B # {} /\ Cardinality(B) <= size
        /\ found' = B
        /\ pool' = B
    /\ UNCHANGED <<dist, size, pending, expanded, answered>>

\* The closest candidate not expanded is; it leads to a set of points.
Expand ==
    /\ pending = {} /\ ~ answered
    /\ \E n \in pool \ expanded :
        /\ \A m \in pool \ expanded : dist[n] <= dist[m]
        /\ expanded' = expanded \cup {n}
    /\ pending' \in SUBSET (Points \ found)
    /\ UNCHANGED <<dist, size, found, pool, answered>>

\* A candidate is kept if it is among the closest.
Consider ==
    /\ \E x \in pending :
        /\ pending' = pending \ {x}
        /\ found' = found \cup {x}
        /\ pool' \in Closest(pool \cup {x})
    /\ UNCHANGED <<dist, size, expanded, answered>>

\* Nothing in the pool is left to expand.
Answer ==
    /\ ~ answered
    /\ pending = {}
    /\ pool \subseteq expanded
    /\ answered' = TRUE
    /\ UNCHANGED <<dist, size, found, pending, pool, expanded>>

Next == Start \/ Expand \/ Consider \/ Answer

Spec == Init /\ [][Next]_vars
=============================================================================
