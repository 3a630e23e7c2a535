------------------------------- MODULE KMeans -------------------------------
(***************************************************************************)
(* How centers are trained: on a random slice of the data                  *)
(* (gen_random_slice, src/partition_and_pq.cpp) the first ones are picked  *)
(* by k-means++, and Lloyd's iterations move them until they change little *)
(* (src/math_utils.cpp).  The threads of an iteration work on centers or   *)
(* points of their own between two barriers: an iteration is one step.     *)
(*                                                                         *)
(* Vectors are places on a line, multiples of a number that makes every    *)
(* mean of them whole.                                                     *)
(***************************************************************************)
EXTENDS DataPoints, FiniteSets, FiniteSetsExt, Functions, Sequences

CONSTANTS
    Data(_),           \* the place of a point
    MAX_K_MEANS_REPS

Square(x, y) == (x - y) * (x - y)

\* The sum of f over the points of S.
SumOver(f, S) ==
    LET sum[n \in 0..NumPoints] ==
            IF n = 0 THEN 0 ELSE sum[n - 1] + (IF n - 1 \in S THEN f[n - 1] ELSE 0)
    IN  sum[NumPoints]

Places == [i \in Points |-> Data(i)]

ASSUME KMeansAssumption ==
    /\ \A i \in Points : Data(i) \in Int
    /\ \A S \in SUBSET Points : S # {} => SumOver(Places, S) % Cardinality(S) = 0
    /\ MAX_K_MEANS_REPS \in Nat \ {0}

VARIABLES
    cluster_centers,   \* on 0..(_num_clusters - 1)
    training,          \* "no", "pick" or "lloyd"
    train_data,        \* the slice, points in order
    picked,            \* the points picked as centers
    sum_flag,
    reps,              \* i in run_lloyds
    residual

kvars == <<training, train_data, picked, sum_flag, reps, residual>>

Unknown == -1       \* of a residual: none yet

num_clusters == Cardinality(DOMAIN cluster_centers)

KInit ==
    /\ cluster_centers = [c \in {} |-> 0]
    /\ training = "no"
    /\ train_data = {}
    /\ picked = << >>
    /\ sum_flag = FALSE
    /\ reps = 0
    /\ residual = Unknown

----------------------------------------------------------------------------
(* kmeans_plus_plus_centers.                                               *)

\* A slice is drawn and its first center: n are wanted.  An empty slice ends the
\* program (the number of blocks is a quotient by zero); it is left out.
PickFirst(n) ==
    /\ training = "no"
    /\ train_data' \in (SUBSET Points) \ {{}}
    /\ \E init_id \in train_data' :
        /\ picked' = <<init_id>>
        /\ cluster_centers' = [c \in 0..(n - 1) |-> IF c = 0 THEN Data(init_id) ELSE 0]
    /\ sum_flag' = FALSE
    /\ reps' = 0
    /\ residual' = Unknown
    /\ training' = "pick"

Nearest(i) == Min({Square(Data(i), Data(p)) : p \in Range(picked)})

\* Where the dart falls: at a point that is not a center, or, there being none or the
\* sums being rounded, at the last point.
Dart == {i \in train_data : Nearest(i) > 0} \cup {Max(train_data)}
Sum0 == \A i \in train_data : Nearest(i) = 0

\* Variants with a bug, which the runs are expected to notice, stand before the
\* definition they would replace.  Variant: it is drawn again even when all points are
\* copies of centers.
PickNextStrict ==
    /\ training = "pick"
    /\ Len(picked) < num_clusters
    /\ \E tmp_center \in Dart :
        IF tmp_center \in Range(picked) THEN UNCHANGED <<picked, cluster_centers>>
        ELSE /\ picked' = Append(picked, tmp_center)
             /\ cluster_centers' = [cluster_centers EXCEPT ![Len(picked)] = Data(tmp_center)]
    /\ sum_flag' = (sum_flag \/ Sum0)
    /\ UNCHANGED <<training, train_data, reps, residual>>

\* A throw of the dart: a center that is met is drawn again, unless there was nothing
\* else to meet.
PickNext ==
    /\ training = "pick"
    /\ Len(picked) < num_clusters
    /\ sum_flag' = (sum_flag \/ Sum0)
    /\ \E tmp_center \in Dart :
        IF tmp_center \in Range(picked) /\ ~ sum_flag'
        THEN UNCHANGED <<picked, cluster_centers>>
        ELSE /\ picked' = Append(picked, tmp_center)
             /\ cluster_centers' = [cluster_centers EXCEPT ![Len(picked)] = Data(tmp_center)]
    /\ UNCHANGED <<training, train_data, reps, residual>>

Picked ==
    /\ training = "pick"
    /\ Len(picked) = num_clusters
    /\ training' = "lloyd"
    /\ UNCHANGED <<cluster_centers, train_data, picked, sum_flag, reps, residual>>

----------------------------------------------------------------------------
(* run_lloyds.                                                             *)

\* The first of the centers closest to a place.
Closest(x) ==
    CHOOSE c \in DOMAIN cluster_centers : \A e \in DOMAIN cluster_centers :
        \/ Square(x, cluster_centers[c]) < Square(x, cluster_centers[e])
        \/ Square(x, cluster_centers[c]) = Square(x, cluster_centers[e]) /\ c <= e

closest_docs(c) == {i \in train_data : Closest(Data(i)) = c}

\* The new center of a cluster.  One without points is left at the origin.
Mean(S) == IF S = {} THEN 0 ELSE SumOver(Places, S) \div Cardinality(S)

\* The distances of the points of S to the centers they are assigned to.
Residual(a, centers, S) ==
    SumOver([i \in Points |-> Square(Data(i), centers[a[i]])], S)

Assignment == [i \in Points |-> Closest(Data(i))]

\* run_lloyds stops here, at iteration i.
Settled(i, old, new) == (i # 0 /\ (old - new) * 100000 < new) \/ new = 0

\* Variant: the sum goes on from one center to the next.
LloydSumKept ==
    /\ training = "lloyd"
    /\ cluster_centers' = [c \in DOMAIN cluster_centers |->
           IF closest_docs(c) = {} THEN 0
           ELSE SumOver(Places, UNION {closest_docs(e) : e \in 0..c})
                    \div Cardinality(closest_docs(c))]
    /\ residual' = Residual(Assignment, cluster_centers', train_data)
    /\ reps' = reps + 1
    /\ training' = IF Settled(reps, residual, residual') \/ reps' = MAX_K_MEANS_REPS
                   THEN "no" ELSE "lloyd"
    /\ UNCHANGED <<train_data, picked, sum_flag>>

\* lloyds_iter: points to their closest centers, centers to the means of their points,
\* and the distances of the points to the centers they were assigned to, moved.
Lloyd ==
    /\ training = "lloyd"
    /\ cluster_centers' = [c \in DOMAIN cluster_centers |-> Mean(closest_docs(c))]
    /\ residual' = Residual(Assignment, cluster_centers', train_data)
    /\ reps' = reps + 1
    /\ training' = IF Settled(reps, residual, residual') \/ reps' = MAX_K_MEANS_REPS
                   THEN "no" ELSE "lloyd"
    /\ UNCHANGED <<train_data, picked, sum_flag>>

KStep == PickNext \/ Picked \/ Lloyd

----------------------------------------------------------------------------
(* Properties.                                                             *)

\* The centers an iteration makes are no worse than those it met.
NeverWorse == training = "lloyd" /\ residual # Unknown => residual' <= residual
=============================================================================
