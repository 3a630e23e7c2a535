---------------------------- MODULE MCHnswLevels ----------------------------
(***************************************************************************)
(* An instance of HnswLevels for TLC: an index of three levels and two of  *)
(* two levels, one with as many points in each of them as the first has    *)
(* there and one with fewer.                                               *)
(***************************************************************************)
EXTENDS HnswLevels, Sequences

MCIndexes == {"high", "low", "small"}
MCHeight(i) == IF i = "high" THEN 2 ELSE 1
MCNumPoints(i) == CASE i = "high" -> 4 [] i = "low" -> 3 [] i = "small" -> 2
MCSample(i, n) ==
    CASE i = "high" /\ n = 1 -> <<0, 1, 3>>
      [] i = "high" /\ n = 0 -> <<0, 2>>
      [] i = "low" /\ n = 0 -> <<1, 2>>
      [] i = "small" /\ n = 0 -> <<1>>
=============================================================================
