---------------------------- MODULE MCGraphBuild ----------------------------
(***************************************************************************)
(* Instances of GraphBuild for TLC: points on a line, the entry of every   *)
(* unfiltered search the medoid, and the prune rules of module Pruning.    *)
(***************************************************************************)
EXTENDS GraphBuild, TLC

CONSTANTS
    X,                   \* the coordinate of point p is X[p + 1]
    MCLabels,            \* the labels of point p are MCLabels[p + 1]
    Start,               \* _start_node
    LabelMedoid,         \* _filter_to_medoid_id
    C, AlphaNum, AlphaDen, NaNOccludes

\* Squared Euclidean distance.
MCDist(p, q) == LET d == IF X[p + 1] < X[q + 1] THEN X[q + 1] - X[p + 1]
                                                ELSE X[p + 1] - X[q + 1]
                IN  d * d

MCLabelsOf == [p \in Points |-> MCLabels[p + 1]]

Total[n \in 0..N] == IF n = 0 THEN 0 ELSE Total[n - 1] + X[n]

FromMean(p) == IF N * X[p + 1] < Total[N] THEN Total[N] - N * X[p + 1]
                                          ELSE N * X[p + 1] - Total[N]

\* calculate_medoid_of_data: the first point closest to the mean.
IsMedoid(p) == \A q \in Points :
    FromMean(p) < FromMean(q) \/ (FromMean(p) = FromMean(q) /\ p <= q)

ASSUME StartAssumption == Start \in Points /\ IsMedoid(Start)

MCEntries == [p \in Points |->
    IF Filtered /\ MCLabels[p + 1] # {}
    THEN {LabelMedoid[x] : x \in MCLabels[p + 1]}
    ELSE {Start}]

----------------------------------------------------------------------------
(* Values for the .cfg files: ten points, no two at one distance from a    *)
(* third.                                                                  *)

\* Point 2 is the medoid.
InnerMedoid == <<0, 101, 47, 3, 75, 18, 64, 29, 90, 41>>

\* Two labels, points with both and one with the universal label.
TwoLabels == <<{"a"}, {"b"}, {"a", "b"}, {"a"}, {"b"},
               {"a"}, {"0"}, {"b"}, {"a", "b"}, {"b"}>>
TwoLabelMedoids == [x \in {"a", "b", "0"} |->
    IF x = "a" THEN 3 ELSE IF x = "b" THEN 8 ELSE 6]

----------------------------------------------------------------------------
Rule == INSTANCE Pruning WITH Labels <- MCLabelsOf

\* A set of ids sorted by distance from p, ties in the order of the ids.
Sorted(p, S) == SortSeq(SelectSeq([n \in 1..N |-> n - 1], LAMBDA x : x \in S),
                        LAMBDA x, y : MCDist(p, x) < MCDist(p, y))

MCPruneAlphaRng(p, S) == Rule!AlphaRng(p, Rule!Candidates(p, Sorted(p, S)))
MCPruneTopK(p, S) == Rule!TopK(p, Rule!Candidates(p, Sorted(p, S)))
=============================================================================
