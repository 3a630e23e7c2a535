-------------------------- MODULE SearchEvaluation --------------------------
(***************************************************************************)
(* A program that searches (tests/search_vamana.cpp and the like), whole:  *)
(* a graph is given or built, the medoids of labels are picked, a query is *)
(* answered by the search of the index, and the answer is judged by the    *)
(* truth that another program has computed and saved.                      *)
(***************************************************************************)
EXTENDS RelativeNG, LabelMedoids, GroundTruth

\* A query says how many neighbours the truth was asked for, 0 if there is no truth.
ASSUME JudgedAssumption ==
    /\ Points = 0..(NumPoints - 1)
    /\ \A q \in Queries :
        q = [f \in {"dist", "accepts", "L", "init_ids", "res_count", "writes",
                    "vectors", "gt_k", "labels", "filters"} |-> q[f]]
    /\ \A q \in Queries : q.gt_k \in 0..NumPoints

evars == <<rvars, lvars, tvars>>

EInit ==
    /\ RInit
    /\ LInit
    /\ TruthInit(query.gt_k)

\* The index and its query are prepared: the graph is built, or the medoids of the
\* labels are picked.
Prepare ==
    /\ \/ Build /\ UNCHANGED lvars
       \/ LStep /\ UNCHANGED built
    /\ UNCHANGED tvars

Answer == built = Points /\ Ready /\ Search /\ UNCHANGED <<built, lvars, tvars>>

Disturb == built = Points /\ Ready /\ Rewrite /\ UNCHANGED <<built, lvars, tvars>>

\* The ids in the output of the search, whether it counted them or not.
query_result_ids == [i \in 1..query.res_count |-> results[i].tag]

\* Answers are judged if there is a truth.
Judge ==
    /\ pc = "done"
    /\ query.gt_k > 0
    /\ \/ ComputePart(query.dist)
       \/ SortTruth(query.dist)
       \/ SaveTruth
       \/ LoadTruth
       \/ CalculateRecall(query.dist, query_result_ids, query.res_count)
    /\ UNCHANGED <<rvars, lvars>>

ENext == Prepare \/ Answer \/ Disturb \/ Judge

ESpec == EInit /\ [][ENext]_evars

\* The thread that searches is never blocked for good: it holds no lock while
\* it waits for one.  The threads of a build do not wait for each other, nor those that
\* pick medoids outside their critical section.
EFairSpec == ESpec /\ WF_evars(Prepare) /\ WF_evars(Answer)

----------------------------------------------------------------------------
(* Properties.                                                             *)

TruthIsExact == TruthIsExactFor(query.dist, query.gt_k)

\* The distance up to which a point is a right answer.
Horizon == query.dist[closest_points[query.res_count]]

\* A full score is given to exact answers, and if the truth holds all the points that
\* are tied for its last place, to every exact answer that has as many points as were
\* wanted, whichever of the tied points are in it; with a truthset that lost all its
\* distances on the way a full score still means an exact answer.  The slots a search did
\* not fill are judged like answers: a full score hides one of them at most, and only
\* where the id that stands in it is a right answer.
FullScoreMeansExact ==
    recall # NotYet /\ query.res_count <= dim_gs =>
        LET exact == \A i \in 1..returned : results[i].distance <= Horizon
            tied == {x \in Points : query.dist[x] <= Horizon}
        IN  /\ recall = query.res_count =>
                  /\ exact
                  /\ returned + 1 >= query.res_count
                  /\ \A i \in 1..query.res_count : query.dist[query_result_ids[i]] <= Horizon
            /\ gs_dist = "some" /\ exact /\ returned = query.res_count
               /\ Cardinality(tied) <= dim_gs => recall = query.res_count
=============================================================================
