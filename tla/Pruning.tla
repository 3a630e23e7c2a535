------------------------------ MODULE Pruning ------------------------------
(***************************************************************************)
(* The two edge-selection rules of a grann graph index, written as what    *)
(* they select rather than how (src/graph_index.cpp).  A candidate is a    *)
(* record [id, distance], the distance being the one to the point whose    *)
(* list is pruned.  A candidate list is a sequence sorted by distance.     *)
(*                                                                         *)
(* Distances are naturals; alpha is the rational AlphaNum / AlphaDen, so   *)
(* "distance / djk > alpha" is compared by cross-multiplication, which     *)
(* also says that x / 0 exceeds alpha.  What 0 / 0 gives, for two copies   *)
(* of the point among the candidates, is not defined in a build with       *)
(* -Ofast: NaNOccludes is what this build makes of it.                     *)
(***************************************************************************)
EXTENDS Naturals, Sequences

CONSTANTS
    Points,           \* the ids 0 .. num_points - 1
    Dist(_, _),       \* Distance<T>::compare
    Filtered,         \* _filtered_index
    Labels,           \* _pts_to_labels, a set of labels for each point
    R,                \* degree_bound
    C,                \* maxc, how many candidates are looked at
    AlphaNum, AlphaDen,
    NaNOccludes       \* whether max(f, 0 / 0) > alpha

ASSUME PruningAssumption ==
    /\ \A p, q \in Points : Dist(p, q) \in Nat
    /\ Filtered \in BOOLEAN
    /\ R \in Nat \ {0}
    /\ C \in Nat \ {0}
    /\ AlphaNum \in Nat \ {0}
    /\ AlphaDen \in Nat \ {0}
    /\ NaNOccludes \in BOOLEAN

Candidate == [id : Points, distance : Nat]

\* A filtered index lets k stand in for t only if k carries every label of t.
PruneAllowed(k, t) == Filtered => Labels[t] \subseteq Labels[k]

\* The occlude factor that the kept point k gives candidate t exceeds alpha.
Occludes(k, t) ==
    /\ PruneAllowed(k, t.id)
    /\ \/ AlphaDen * t.distance > AlphaNum * Dist(t.id, k)
       \/ NaNOccludes /\ t.distance = 0 /\ Dist(t.id, k) = 0

\* Candidates past maxc are never looked at.
Looked(cand) == IF Len(cand) < C THEN Len(cand) ELSE C
Window(cand) == 1..Looked(cand)

----------------------------------------------------------------------------
(* What the rules leave in pruned_list: going outwards, a candidate other  *)
(* than p itself is kept unless one kept before occludes it, and the first *)
(* R that are kept are returned.                                           *)

\* The list when candidate c has been looked at.
Extend(p, list, c, occlude) ==
    IF /\ Len(list) < R
       /\ c.id # p
       /\ occlude => \A j \in 1..Len(list) : ~ Occludes(list[j], c)
    THEN Append(list, c.id)
    ELSE list

\* The list when the first n candidates have been.
PrunedTo(p, cand, n, occlude) ==
    LET list[i \in 0..n] ==
            IF i = 0 THEN << >> ELSE Extend(p, list[i - 1], cand[i], occlude)
    IN  list[n]

\* prune_candidates_alpha_rng.
AlphaRng(p, cand) == PrunedTo(p, cand, Looked(cand), TRUE)

\* prune_candidates_top_K, which lets no candidate stand in for another.
TopK(p, cand) == PrunedTo(p, cand, Len(cand), FALSE)

\* A sequence of ids as a candidate list.
Candidates(p, ids) ==
    [n \in 1..Len(ids) |-> LET x == ids[n] IN [id |-> x, distance |-> Dist(p, x)]]
=============================================================================
