---------------------------- MODULE MCAlphaPrune ----------------------------
(***************************************************************************)
(* AlphaPrune on points of a line, three of them in one place.  The        *)
(* candidate lists are those of the callers: a set of distinct ids, as the *)
(* Vamana build passes, or with the padding entries of best_L_nodes that   *)
(* HNSW passes along, whose id is 0 and distance the largest float.        *)
(***************************************************************************)
EXTENDS AlphaPrune, FiniteSets, TLC

CONSTANTS
    X,        \* the coordinate of point p is X[p + 1]
    Far,      \* the largest float
    MaxPad    \* how many padding entries a list may have

MCPoints == 0..5
Coordinates == <<0, 2, 3, 3, 3, 8>>

MCDist(p, q) == LET d == IF X[p + 1] < X[q + 1] THEN X[q + 1] - X[p + 1]
                                                ELSE X[p + 1] - X[q + 1]
                IN  d * d

MCLabels == [p \in Points |->
    CASE p = 0 -> {"a", "b"} [] p = 1 -> {"a"} [] p = 2 -> {"a", "b"}
      [] p = 4 -> {"a", "b"} [] OTHER -> {"b"}]

\* The orders std::sort may leave the ids of S in.
SortedOrders(p, S) ==
    {s \in [1..Cardinality(S) -> S] :
        \A i, j \in 1..Cardinality(S) :
            i < j => s[i] # s[j] /\ MCDist(p, s[i]) <= MCDist(p, s[j])}

MCCandidateLists(p) ==
    {[n \in 1..(Len(s) + pad) |->
        IF n <= Len(s) THEN [id |-> s[n], distance |-> MCDist(p, s[n])]
                       ELSE [id |-> 0, distance |-> Far]] :
        s \in UNION {SortedOrders(p, S) : S \in SUBSET Points}, pad \in 0..MaxPad}
=============================================================================
