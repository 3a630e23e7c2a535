--------------------------- MODULE MCGreedySearch ---------------------------
(***************************************************************************)
(* Instances of SearchEvaluation for TLC: given graphs of four points (and *)
(* one that is not linked) under every order, ties included, of the        *)
(* distances of three of them to the query; and graphs built of five       *)
(* points, copies and ties among them.                                     *)
(***************************************************************************)
EXTENDS SearchEvaluation, TLC

MCPoints == 0..4
MCTag(i) == i
MCVectorDist(v, w) == (v[1] - w[1]) * (v[1] - w[1]) + (v[2] - w[2]) * (v[2] - w[2])

Distances == {d \in [MCPoints -> 0..2] : d[0] = 1 /\ d[4] = 2}

Query(d, a, size, ids, n, writes) ==
    [dist |-> d, accepts |-> a, L |-> size, init_ids |-> ids, res_count |-> n,
     writes |-> writes, vectors |-> << >>, gt_k |-> 0,
     labels |-> << >>, filters |-> << >>]

\* A search of a finished graph: pools of one, two and all the points, two
\* results wanted; started from one point, from several label medoids, two of
\* which are the same point, or, its labels being unknown, from none.
SearchQueries ==
    {Query(d, MCPoints, size, <<0>>, 2, {}) : d \in Distances, size \in {1, 2, 5}}
    \cup {Query(d, {0, 1, 3}, size, <<0, 3, 0>>, 2, {}) : d \in Distances, size \in {1, 2, 5}}
    \cup {Query(d, {}, 2, << >>, 2, {}) : d \in Distances}

\* Judged searches that meet too few points to fill all the slots wanted.
ShortQueries ==
    {[Query(d, {0, 1, 3}, 5, <<start>>, n, {}) EXCEPT !.gt_k = 3] :
        d \in {e \in Distances : e[3] = 1}, start \in {0, 1}, n \in {2, 3}}

\* A search in a build: the lists are empty at first and others fill them,
\* prune them and overwrite them.
BuildQueries ==
    {Query(d, a, size, <<0>>, 1, (0..3) \X {<<1, 2>>, <<3, 1>>}) :
        d \in {e \in Distances : e[1] < 2}, a \in {MCPoints, {0, 1, 2}}, size \in {1, 2}}

\* Five points: two copies of one of them, the corners and the middle of a square,
\* and points on a line.
Vectors(f) == [i \in MCPoints |-> f[i + 1]]
Copies == Vectors(<< <<0, 0>>, <<4, 0>>, <<2, 1>>, <<4, 0>>, <<4, 0>> >>)
Square == Vectors(<< <<0, 0>>, <<2, 0>>, <<0, 2>>, <<2, 2>>, <<1, 1>> >>)
Line == Vectors(<< <<0, 0>>, <<1, 0>>, <<3, 0>>, <<6, 0>>, <<2, 0>> >>)

RelativeQuery(v, place, sizes, asked) ==
    [dist |-> [i \in MCPoints |-> MCVectorDist(v[i], place)], accepts |-> MCPoints,
     L |-> sizes[1], init_ids |-> <<calculate_entry_point(v)>>, res_count |-> sizes[2],
     writes |-> {}, vectors |-> v, gt_k |-> asked, labels |-> << >>, filters |-> << >>]

\* Queries at points, and judged ones, some of them between two points; the truth holds
\* the two closest, or was asked for three, which the second part of the data does not have.
RelativeQueries ==
    {RelativeQuery(v, place, <<1, 1>>, 0) :
        v \in {Copies, Square, Line}, place \in {<<0, 0>>, <<4, 0>>, <<2, 1>>, <<1, 1>>, <<2, 0>>}}
    \cup {RelativeQuery(Line, place, sizes, asked) :
        place \in {<<0, 0>>, <<2, 0>>, <<4, 0>>, <<2, 1>>},
        sizes \in {<<1, 1>>, <<2, 1>>, <<2, 2>>}, asked \in {1, 2, 3}}
    \cup {RelativeQuery(Square, <<1, 1>>, sizes, asked) :
        sizes \in {<<2, 1>>, <<2, 2>>}, asked \in {2, 3}}
    \cup {RelativeQuery(Square, <<1, 3>>, <<1, 1>>, 2), RelativeQuery(Copies, <<0, 0>>, <<2, 2>>, 2)}

\* Searches with labels, 0 the universal one and 3 carried by no point.
PointLabels == [i \in MCPoints |-> << <<1>>, <<1, 2>>, <<0>>, <<2>>, <<2>> >>[i + 1]]
LabelQueries ==
    {[dist |-> d, accepts |-> Accepted(f, PointLabels), L |-> size, init_ids |-> << >>,
      res_count |-> 2, writes |-> {}, vectors |-> << >>, gt_k |-> 0,
      labels |-> PointLabels, filters |-> f] :
        d \in {e \in Distances : e[1] = 1}, size \in {1, 2},
        f \in {<<1>>, <<1, 2>>, <<2, 1>>, <<2, 3>>, <<3>>, <<0>>}}

MCQueries == SearchQueries \cup ShortQueries \cup BuildQueries \cup RelativeQueries \cup LabelQueries

MCGraphs(q) ==
    {g \in [MCPoints -> {<< >>, <<3, 0>>, <<2, 3, 1>>}] :
        /\ g[4] = << >>
        /\ q \in ShortQueries => \A p \in 1..3 : g[p] = << >>
        /\ q.writes # {} \/ q.vectors # << >> => g = [p \in MCPoints |-> << >>]
        /\ q.filters # << >> => g = [p \in MCPoints |-> IF p = 4 THEN << >> ELSE <<2, 3, 1>>]}
=============================================================================
