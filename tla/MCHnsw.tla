------------------------------- MODULE MCHnsw -------------------------------
(***************************************************************************)
(* An instance of Hnsw for TLC: six points on a line, both kinds of        *)
(* levels, the answers of the level below the L closest of its points.     *)
(***************************************************************************)
EXTENDS Hnsw, TLC

CONSTANTS X, Far, C, AlphaNum, AlphaDen

MCDist(p, q) == LET d == IF X[p + 1] < X[q + 1] THEN X[q + 1] - X[p + 1]
                                                ELSE X[p + 1] - X[q + 1]
                IN  d * d

\* No two points are at one distance from a third.
SixPoints == <<29, 101, 47, 3, 75, 18>>

NoLabels == [p \in Points |-> {}]
NoEntries == [p \in Points |-> {Medoid}]

Sorted(p, S) == SortSeq(SelectSeq([n \in 1..N |-> n - 1], LAMBDA x : x \in S),
                        LAMBDA x, y : MCDist(p, x) < MCDist(p, y))

Rule == INSTANCE Pruning WITH Labels <- NoLabels, NaNOccludes <- FALSE

MCPruneAlphaRng(p, S) == Rule!AlphaRng(p, Rule!Candidates(p, Sorted(p, S)))
MCPruneTopK(p, S) == Rule!TopK(p, Rule!Candidates(p, Sorted(p, S)))
MCPruneSlots(p, S, n) ==
    LET cand == Rule!Candidates(p, Sorted(p, S))
                \o [i \in 1..n |-> [id |-> 0, distance |-> Far]]
    IN  IF PruningRule = 0 THEN Rule!AlphaRng(p, cand) ELSE Rule!TopK(p, cand)

MCInnerResults(S, p) == {Range(SubSeq(Sorted(p, S), 1, IF Cardinality(S) < L
                                                      THEN Cardinality(S) ELSE L))} \ {{}}
=============================================================================
