----------------------------- MODULE MCIvfIndex -----------------------------
(***************************************************************************)
(* An instance of IvfIndex for TLC: three points in blocks of two, one or  *)
(* two clusters trained on any slice, probes of none to three lists.       *)
(***************************************************************************)
EXTENDS IvfIndex

MCData(i) == <<6, 30, 18>>[i + 1]
MCIvfQueries ==
    {[place |-> 18, res_count |-> 2, accepts |-> Points, probe_width |-> k] : k \in 0..3}
    \cup {[place |-> 24, res_count |-> 4, accepts |-> {0, 2}, probe_width |-> k] : k \in 1..2}
=============================================================================
