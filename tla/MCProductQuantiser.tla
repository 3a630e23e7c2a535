------------------------- MODULE MCProductQuantiser -------------------------
(***************************************************************************)
(* An instance of ProductQuantiser for TLC: three runs, one of them cut    *)
(* short, with data of two or five dimensions, on either side of the       *)
(* number of centers for which codes are bytes.                            *)
(***************************************************************************)
EXTENDS ProductQuantiser

MCJobs ==
    {[num_points |-> 3, dim |-> d, centers |-> c, chunks |-> n] :
        d \in {2, 5}, c \in {256, 257}, n \in {1, 2, 3, 4}}
=============================================================================
