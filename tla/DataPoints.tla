----------------------------- MODULE DataPoints ------------------------------
(***************************************************************************)
(* The points of an index: known by their positions, from 0 as in the code.*)
(***************************************************************************)
EXTENDS Integers

CONSTANT NumPoints

ASSUME DataAssumption == NumPoints \in Nat \ {0}

Points == 0..(NumPoints - 1)
=============================================================================
