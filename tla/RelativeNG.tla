----------------------------- MODULE RelativeNG -----------------------------
(***************************************************************************)
(* A relative neighbourhood graph and its search (src/relative_ng.cpp).    *)
(* RelativeNG::build gives every location the candidates the alpha rule    *)
(* keeps of all other points, with alpha one and no bound on their number; *)
(* the locations are independent of each other, so that the threads may    *)
(* take them in any order and no list is locked.  RelativeNG::search is    *)
(* the search of module GreedySearch, from the point closest to the mean.  *)
(*                                                                         *)
(* An input of GreedySearch whose field vectors is not empty has its graph *)
(* built first; in the others the graph is given.  The count of milestones *)
(* (progress_milestone), for which build needs ten points, is left out.    *)
(***************************************************************************)
EXTENDS GreedySearch, Integers, FiniteSetsExt

CONSTANTS
    VectorDist(_, _),   \* Distance<T>::compare of two vectors
    NaNOccludes         \* what the build makes of 0 / 0, see module Pruning

ASSUME VectorAssumption ==
    /\ NaNOccludes \in BOOLEAN
    /\ \A q \in Queries : q.vectors # << >> =>
        /\ DOMAIN q.vectors = Points
        /\ q.accepts = Points /\ q.writes = {}
        /\ \A x, y \in Points :
              /\ VectorDist(q.vectors[x], q.vectors[y]) \in Nat
              /\ VectorDist(q.vectors[x], q.vectors[y]) = VectorDist(q.vectors[y], q.vectors[x])
              \* A query at no distance from a point is a copy of it.
              /\ q.dist[y] = 0 => q.dist[x] = VectorDist(q.vectors[x], q.vectors[y])

\* The point closest to the mean, the first of several, all scaled by the number of
\* points.
calculate_entry_point(vectors) ==
    LET n == Cardinality(Points)
        center(j) == MapThenSumSet(LAMBDA i : vectors[i][j], Points)
        far(i) == MapThenSumSet(LAMBDA j : (n * vectors[i][j] - center(j))
                                         * (n * vectors[i][j] - center(j)), DOMAIN vectors[i])
    IN  CHOOSE i \in Points : \A h \in Points :
            far(i) < far(h) \/ (far(i) = far(h) /\ i <= h)

ASSUME EntryAssumption ==
    \A q \in Queries : q.vectors # << >> =>
        q.init_ids = <<calculate_entry_point(q.vectors)>>

VARIABLE built      \* the locations whose list is complete

rvars == <<vars, built>>

RInit == Init /\ built = IF query.vectors = << >> THEN Points ELSE {}

Between(x, y) == VectorDist(query.vectors[x], query.vectors[y])

Rule == INSTANCE Pruning WITH
    Dist <- Between, Filtered <- FALSE, Labels <- << >>,
    R <- Cardinality(Points), C <- Cardinality(Points),
    AlphaNum <- 1, AlphaDen <- 1, NaNOccludes <- NaNOccludes

\* The other points as candidates, closest first; std::sort leaves ties in any order.
Pools(p) ==
    LET others == Points \ {p}
        n == Cardinality(others)
    IN  {Rule!Candidates(p, ids) : ids \in
            {f \in Bijection(1..n, others) : \A i, j \in 1..n :
                i < j => Between(p, f[i]) <= Between(p, f[j])}}

\* Variants with a bug, which the runs are expected to notice, stand before the
\* definition they would replace.  Variant: only the closest link is kept.
BuildLocationClosest(p) ==
    /\ p \notin built
    /\ \E pool \in Pools(p) :
          out_nbrs' = [out_nbrs EXCEPT ![p] = @ \o SubSeq(Rule!AlphaRng(p, pool), 1, 1)]
    /\ built' = built \cup {p}
    /\ UNCHANGED <<query, pc, array, inserted, expanded, merging, output>>

\* One iteration of the loop of build.
BuildLocation(p) ==
    /\ p \notin built
    /\ \E pool \in Pools(p) :
          out_nbrs' = [out_nbrs EXCEPT ![p] = @ \o Rule!AlphaRng(p, pool)]
    /\ built' = built \cup {p}
    /\ UNCHANGED <<query, pc, array, inserted, expanded, merging, output>>

Build == (\E p \in Points : BuildLocation(p))

----------------------------------------------------------------------------
(* Properties.                                                             *)

\* A search that is asked for one of the points answers with that point or a copy of it,
\* even with a pool of a single candidate: every link that the rule leaves out, in whatever
\* order it met candidates at one distance, is stood in for by one that leads closer.
FindsEveryPoint ==
    pc = "done" /\ query.vectors # << >> /\ (\E x \in Points : query.dist[x] = 0) =>
        results[1].distance = 0
=============================================================================
