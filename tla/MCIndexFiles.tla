---------------------------- MODULE MCIndexFiles ----------------------------
(***************************************************************************)
(* An instance of IndexFiles for TLC: a filtered index, an unfiltered one  *)
(* of the same size, and a larger filtered one.                            *)
(***************************************************************************)
EXTENDS IndexFiles

MCIndexes == {"small", "plain", "large"}
MCSize(i) == IF i = "large" THEN 3 ELSE 2
MCIsFiltered(i) == i # "plain"
=============================================================================
