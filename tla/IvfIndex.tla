------------------------------ MODULE IvfIndex ------------------------------
(***************************************************************************)
(* The IVF index (src/ivf.cpp): centers, and for every center the list of  *)
(* the points it is closest to.  compute_closest_centers                   *)
(* (src/math_utils.cpp) fills the lists block by block; in a block the     *)
(* threads append to them in any order, one at a time.                     *)
(*                                                                         *)
(* The centers are trained by module KMeans.                               *)
(***************************************************************************)
EXTENDS BucketSearch, KMeans

CONSTANTS
    ClusterCounts,   \* num_clusters of a build
    MAX_BLOCK_SIZE,
    MaxBuilds,       \* bound: an object is built no more often
    IvfQueries       \* a record for every search: place, res_count, accepts, probe_width

ASSUME IvfAssumption ==
    /\ ClusterCounts \subseteq Nat \ {0}
    /\ MAX_BLOCK_SIZE \in Nat \ {0}
    /\ MaxBuilds \in Nat
    /\ \A q \in IvfQueries :
        /\ q.place \in Int
        /\ \A i \in Points : Square(q.place, Data(i)) < Far
        /\ q.res_count \in Nat \ {0}
        /\ q.accepts \subseteq Points
        /\ q.probe_width \in Nat

VARIABLES
    inverted_index,    \* on 0.._inverted_index.size() - 1
    stage,             \* "idle", or in build "train", "block" or "assign"
    cur_blk,
    closest_centers,   \* the buffer for one block
    todo,              \* the points of the block whose turn is to come
    times_built,       \* how often the object was built
    saved,             \* centers and lists on disk, or None
    asked, answer      \* of the last search

building == <<stage, cur_blk, closest_centers, todo>>
searched == <<asked, answer>>
ivars == <<cluster_centers, kvars, inverted_index, building, times_built, saved, searched>>

IvfInit ==
    /\ KInit
    /\ inverted_index = [c \in {} |-> << >>]
    /\ stage = "idle" /\ cur_blk = 0
    /\ closest_centers = [n \in {} |-> 0]
    /\ todo = {}
    /\ times_built = 0
    /\ saved = None
    /\ asked = None /\ answer = << >>

ForgetAnswer == asked' = None /\ answer' = << >>

\* The constructors.
CreateIvf ==
    /\ stage = "idle"
    /\ cluster_centers' = [c \in {} |-> 0]
    /\ inverted_index' = [c \in {} |-> << >>]
    /\ times_built' = 0
    /\ ForgetAnswer
    /\ UNCHANGED <<kvars, building, saved>>

\* _inverted_index.resize(n)
Resized(lists, n) ==
    [c \in 0..(n - 1) |-> IF c \in DOMAIN lists THEN lists[c] ELSE << >>]

----------------------------------------------------------------------------
(* Building.                                                               *)

block_size == IF NumPoints < MAX_BLOCK_SIZE THEN NumPoints ELSE MAX_BLOCK_SIZE

N_BLOCKS == IF NumPoints % block_size = 0 THEN NumPoints \div block_size
                                          ELSE NumPoints \div block_size + 1

\* build, until training begins: the lists are resized and not cleared.
Train ==
    /\ stage = "idle"
    /\ times_built < MaxBuilds
    /\ \E n \in ClusterCounts :
        /\ PickFirst(n)
        /\ inverted_index' = Resized(inverted_index, n)
    /\ stage' = "train"
    /\ times_built' = times_built + 1
    /\ ForgetAnswer
    /\ UNCHANGED <<cur_blk, closest_centers, todo, saved>>

Training ==
    /\ stage = "train"
    /\ KStep
    /\ UNCHANGED <<inverted_index, building, times_built, saved, searched>>

\* The centers are trained: the points are assigned to them.
Trained ==
    /\ stage = "train"
    /\ training = "no"
    /\ train_data' = {} /\ picked' = << >> /\ sum_flag' = FALSE
    /\ reps' = 0 /\ residual' = Unknown
    /\ stage' = "block"
    /\ cur_blk' = 0
    /\ closest_centers' = [n \in 0..(block_size - 1) |-> 0]
    /\ todo' = {}
    /\ UNCHANGED <<cluster_centers, training, inverted_index, times_built, saved, searched>>

\* The closest centers of the points of a block.
Block ==
    /\ stage = "block"
    /\ cur_blk < N_BLOCKS
    /\ LET first == cur_blk * block_size
           num_pts_blk == IF NumPoints - first < block_size THEN NumPoints - first
                                                            ELSE block_size
       IN  /\ closest_centers' = [n \in DOMAIN closest_centers |->
                  IF n < num_pts_blk THEN Closest(Data(first + n)) ELSE closest_centers[n]]
           /\ todo' = first..(first + block_size - 1) \cap Points
    /\ stage' = "assign"
    /\ UNCHANGED <<cluster_centers, kvars, inverted_index, cur_blk, times_built, saved,
                   searched>>

\* A thread enters the critical section with point j.
Assign(j) ==
    /\ stage = "assign"
    /\ j \in todo
    /\ LET c == closest_centers[j - cur_blk * block_size]
       IN  inverted_index' = [inverted_index EXCEPT ![c] = Append(@, j)]
    /\ todo' = todo \ {j}
    /\ UNCHANGED <<cluster_centers, kvars, stage, cur_blk, closest_centers, times_built,
                   saved, searched>>

\* The barrier at the end of the block.
EndBlock ==
    /\ stage = "assign"
    /\ todo = {}
    /\ cur_blk' = cur_blk + 1
    /\ stage' = "block"
    /\ UNCHANGED <<cluster_centers, kvars, inverted_index, closest_centers, todo, times_built,
                   saved, searched>>

Built ==
    /\ stage = "block"
    /\ cur_blk = N_BLOCKS
    /\ stage' = "idle"
    /\ cur_blk' = 0
    /\ closest_centers' = [n \in {} |-> 0]
    /\ UNCHANGED <<cluster_centers, kvars, inverted_index, todo, times_built, saved, searched>>

----------------------------------------------------------------------------
(* Searching, saving and loading.                                          *)

\* The k centers closest to a place, closest first; with k = 1 the first of the
\* closest, otherwise ties in the order of a heap.  Nothing is written if there are
\* fewer: the vector keeps the zeros it was made with.
Probes(x, k) ==
    IF k > num_clusters THEN {[n \in 1..k |-> 0]}
    ELSE IF k = 1 THEN {<<Closest(x)>>}
    ELSE {s \in [1..k -> DOMAIN cluster_centers] :
            /\ IsInjective(s)
            /\ \A m, n \in 1..k : m < n =>
                  Square(x, cluster_centers[s[m]]) <= Square(x, cluster_centers[s[n]])
            /\ \A c \in DOMAIN cluster_centers \ Range(s) : \A n \in 1..k :
                  Square(x, cluster_centers[s[n]]) <= Square(x, cluster_centers[c])}

DistTo(x) == [i \in Points |-> Square(x, Data(i))]

\* The lists of the probes, one after the other.
Gathered(lists, probes, k) ==
    LET upto[n \in 0..k] == IF n = 0 THEN << >> ELSE upto[n - 1] \o lists[probes[n]]
    IN  upto[k]

SearchIvf ==
    /\ stage = "idle"
    /\ num_clusters > 0
    /\ \E q \in IvfQueries : \E probes \in Probes(q.place, q.probe_width) :
        /\ asked' = q
        /\ answer' = ResultsOf(PoolOf(
               Gathered(inverted_index, probes, q.probe_width),
               q.res_count, DistTo(q.place), q.accepts))
    /\ UNCHANGED <<cluster_centers, kvars, inverted_index, building, times_built, saved>>

SaveIvf ==
    /\ stage = "idle"
    /\ num_clusters > 0
    /\ saved' = [centers |-> cluster_centers,
                 lists |-> [c \in DOMAIN cluster_centers |-> inverted_index[c]],
                 builds |-> times_built]
    /\ UNCHANGED <<cluster_centers, kvars, inverted_index, building, times_built, searched>>

\* Variant: the lists of the file are appended to those the object has.
LoadAppending ==
    /\ stage = "idle"
    /\ saved # None
    /\ cluster_centers' = saved.centers
    /\ inverted_index' = [c \in DOMAIN saved.lists |->
           Resized(inverted_index, Cardinality(DOMAIN saved.lists))[c] \o saved.lists[c]]
    /\ times_built' = saved.builds
    /\ ForgetAnswer
    /\ UNCHANGED <<kvars, building, saved>>

\* The lists are resized to the number of centers and all replaced.
LoadIvf ==
    /\ stage = "idle"
    /\ saved # None
    /\ cluster_centers' = saved.centers
    /\ inverted_index' = saved.lists
    /\ times_built' = saved.builds
    /\ ForgetAnswer
    /\ UNCHANGED <<kvars, building, saved>>

IvfNext ==
    \/ CreateIvf \/ Train \/ Training \/ Trained
    \/ Block \/ (\E j \in Points : Assign(j)) \/ EndBlock \/ Built
    \/ SearchIvf \/ SaveIvf \/ LoadIvf

IvfSpec == IvfInit /\ [][IvfNext]_ivars

\* The throws of k-means++ sooner or later meet a point that is not a center, or none
\* is left: that holds with probability one.
FairSpec == IvfSpec /\ WF_ivars(Training) /\ WF_ivars(Trained)

----------------------------------------------------------------------------
(* Properties.                                                             *)

\* Once built, and however often it was saved and loaded since, the lists hold every
\* point exactly once, in the list of a closest center.  (A second build keeps the
\* old entries.)
EveryPointOnce ==
    stage = "idle" /\ times_built = 1 =>
        /\ \A c \in DOMAIN inverted_index : IsInjective(inverted_index[c])
        /\ \A i \in Points : \E c \in DOMAIN inverted_index :
            /\ {e \in DOMAIN inverted_index : i \in Range(inverted_index[e])} = {c}
            /\ \A e \in DOMAIN cluster_centers :
                  Square(Data(i), cluster_centers[c]) <= Square(Data(i), cluster_centers[e])

\* The points the probed lists hold: those of the closest centers, or of the first
\* list when more are asked for than there are.
SearchedPoints(q, probes) == UNION {Range(inverted_index[c]) : c \in Range(probes)}

\* The results are the closest accepted points of the lists of some choice of
\* closest centers, each once, although lists that were built twice repeat them and
\* a probe wider than the index reads one list over and over.
AnswerIsClosest ==
    asked # None => \E probes \in Probes(asked.place, asked.probe_width) :
        AreClosest(answer, SearchedPoints(asked, probes) \cap asked.accepts,
                   asked.res_count, DistTo(asked.place))

\* An iteration of the training never leaves the slice farther from its centers than
\* the one before, although it throws the centers without points to the origin.
ResidualNeverGrows == [][NeverWorse]_ivars

\* Training ends, also when there are fewer different points than centers wanted.
TrainingEnds == stage = "train" ~> stage = "block"
=============================================================================
