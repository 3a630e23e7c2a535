----------------------------- MODULE MCLshIndex -----------------------------
(***************************************************************************)
(* Instances of LshIndex for TLC: three points, two queries, the vectors 3 *)
(* and 4, one of them filtered, tables of two or four buckets.             *)
(***************************************************************************)
EXTENDS LshIndex, TLC

\* Tags are the positions of other points.
MCTag(i) == (i + 1) % 3

MCQueries ==
    {[vector |-> 3, res_count |-> 3, accepts |-> Points,
      dist |-> [i \in Points |-> <<1, 2, 1>>[i + 1]]],
     [vector |-> 4, res_count |-> 1, accepts |-> {0, 2},
      dist |-> [i \in Points |-> <<2, 0, 1>>[i + 1]]]}

\* A table of one hyperplane puts 3 with some points or with none, a table of
\* two tells all points apart.
MCHashes(size) ==
    IF size = 1
    THEN {(0 :> 0) @@ (1 :> 1) @@ (2 :> 0) @@ (3 :> 0) @@ (4 :> 1),
          (0 :> 1) @@ (1 :> 1) @@ (2 :> 1) @@ (3 :> 1) @@ (4 :> 0)}
    ELSE {(0 :> 0) @@ (1 :> 3) @@ (2 :> 2) @@ (3 :> 1) @@ (4 :> 2)}

MCParams == {<<1, 1>>, <<2, 1>>, <<1, 2>>}
=============================================================================
