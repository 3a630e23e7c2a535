# TLA+ models of GRANN

GRANN is a C++ library of approximate nearest neighbour indexes. This directory
holds TLA+ modules for its core, the TLC runs that check them on small
instances, and proofs checked by TLAPS for every value of the constants.
PROJECT.json maps every definition to the lines it models.

## The system

| component | state | operations | what is hard about it |
|---|---|---|---|
| Vamana construction (`vamana.cpp`, `graph_index.cpp`) | `_out_nbrs`, one lock per point, the loop variables of each OpenMP thread | `build`, `add_reciprocal_edges` | threads read, append to, prune and overwrite each other's lists; a list is pruned while its lock is released |
| Pruning (`graph_index.cpp`) | occlude factors, the list being built | `prune_candidates_alpha_rng`, `prune_candidates_top_K` | order of decisions, ties, coincident points, label cover |
| Greedy search (`graph_index.cpp`, `Vamana::search`) | `best_L_nodes`, the scan position, the ids met | `greedy_search_to_fixed_point`, `search` | an array that shifts under the scan, ties, unfilled slots, lists that change meanwhile |
| Candidate pool (`index.h`, `index.cpp`) | a sorted array with a spare slot | `InsertIntoPool`, `process_candidates_into_best_candidates_pool` | bisection at its bounds, runs of equal distances, a full pool |
| Label medoids (`vamana.cpp`) | `_filter_to_medoid_id`, counts of use | `calculate_label_specific_medoids` | labels without points; the least used of the candidates drawn becomes the medoid, and threads deal with the labels in any order |
| Index files (`index.cpp`, the `save`/`load` of each index) | up to six files per path | `save`, `load` | crashes between files, files left by another index, loading twice |
| HNSW (`hnsw.cpp`) | one graph per level, tags into the level above | `build`, `save`, `load`, `search` | small levels, the padded candidate list, a shared temporary file, levels of two indexes at one path |
| Relative neighbourhood graph (`relative_ng.cpp`) | the graph | `build`, `search` | every pair is a candidate, in order of distance |
| IVF (`ivf.cpp`) | centres, inverted lists | `build`, `search`, `save`, `load` | building twice, probing more lists than there are |
| LSH (`lsh.cpp`) | hash tables | `build`, `search`, `save`, `load` | tags used as ids, header fields not restored |
| Clustering (`math_utils.cpp`) | centres, assignment | k-means++, Lloyd | darts that meet a centre, empty clusters, blocks |
| Partitioning (`partition_and_pq.cpp`) | shard files | `partition`, `partition_with_ram_budget`, `retrieve_shard_data_from_ids` | merge by id, the budget loop, files of another partitioning |
| Product quantisation (`partition_and_pq.cpp`) | pivots, centroid, chunks, codes | `generate_pq_pivots`, `generate_pq_data_from_pivots` | files of one training, pivots that are kept |
| Cached streams (`cached_io.h`) | buffer and offset | `read`, `write` | reads across the end of the buffer |
| Ground truth (`aux_compute_groundtruth.cpp`) | results per query | `exact_knn`, the merge, the file | parts of different sizes, ties |
| Recall (`recall_utils.cpp`) | | `load_truthset`, `calculate_recall` | ties at the end of the truth, slots never filled |

A graph index calls the candidate pool from its search; `build` calls the search
on the unfinished graph, prunes what the search expanded, and publishes the
result; the searches of other threads see it from the moment it is appended. IVF
and LSH collect candidate ids and hand them to the same pool. HNSW nests an index
in an index; all indexes share the first four files of `save`. The programs
under `tests/` prepare a truth with the ground truth program, search, and judge
the answers with `calculate_recall`.

What would make each part correct: the build leaves a graph with bounded
degree, no self loops and no vertex cut off by a lost update; pruning keeps
only candidates that do not occlude one another and drops only what is covered;
the search returns the closest of what it met and stops only at a fixed point;
a save that completed can be loaded again, whatever was at the path before, and
one that was cut short is noticed or does limited harm; training ends and does
not get worse; the truth is exact, and a full score is given to exact answers
only.

## The modules

    Pruning               both prune rules as functions of a candidate list
    AlphaPrune            the loops of the alpha rule as a state machine
    MCAlphaPrune          its instances for TLC
    AlphaPruneProofs      its proofs
    GraphBuild            Vamana::build on the shared lists, all threads
    MCGraphBuild          its instances, with the rules of Pruning
    Hnsw                  HNSW::build of a level; extends GraphBuild
    MCHnsw                its instance
    BuildProofs           the proofs of both builds and of the levels
    HnswLevels            the levels of HNSW on disk and in a search
    MCHnswLevels          its instance
    CandidatePool         InsertIntoPool and the loop over candidates
    PoolProofs            what an insertion does to any array
    BestFirst             what a best-first search promises (abstract)
    GreedySearch          the search on its array; implements BestFirst
    LabelMedoids          starts by label, and the filter of the candidates
    RelativeNG            the relative neighbourhood graph: build, start, search
    GroundTruth           the exact truth in parts, its file, the recall
    SearchEvaluation      an index is prepared, searched, and its answer judged
    MCGreedySearch        instances of SearchEvaluation
    SearchProofs          the proofs of all that is searched, answered and judged
    IndexFiles            Vamana::save and load, crashes, one path and object used again
    MCIndexFiles          its instance
    ByteSource            a file read from front to back (abstract)
    CachedReader          cached_ifstream; implements ByteSource
    MCCachedReader        its instance
    DataPoints            the positions of the points of a bucket index
    BucketSearch          the pool over a list of candidates, and what the answers must be
    LshIndex              hash tables: build, search by several threads, save and load
    MCLshIndex            its instance
    KMeans                slices, k-means++ and Lloyd's iterations
    IvfIndex              inverted lists: training, build by threads in blocks, search, files
    MCIvfIndex            its instance
    BucketProofs          the proofs of both bucket indexes and of the training
    Partition             shards: both partitionings, the budget loop, extraction by merge
    PartitionProofs       its proofs, and those of the reader of the data file
    ProductQuantiser      the files of a quantiser, run after run
    MCProductQuantiser    its instance
    FilesProofs           the proofs of IndexFiles and ProductQuantiser
    Induction             induction and recursion up to a number, for the proofs

**GraphBuild.** `outNbrs` is `_out_nbrs`; `todo`, `pc`, `loc`, `pool`,
`inserted`, `expanded`, `links`, `idx` and `copied` are the locals of each
thread; `dirty` is what the clean-up loop has left; `phase` changes at the
implicit barriers. One critical section of a per-vertex lock is one action:
sections never nest, so a lock is never waited for while another is held and
needs no variable. `Reciprocal` and `Overwrite` are the two sections on a
destination: between them the list is copied and pruned without the lock. What
a thread computes between sections touches only its own locals and belongs to
the next section. The distance, the two prune rules and the starts of the
searches (medoid, or the medoids of the location's labels) are constants; the
proofs assume of the rules only `PruneContract`, and `AlphaPruneProofs` proves
that contract of the code's rules. Here the pool of a search is a set, as in
`BestFirst`; `GreedySearch` shows that the array implements that.
The unlocked `reserve` before the append (`vamana.cpp:291`) has no effect on
the list's contents and is left out; the capacity reserved at the start covers
it unless the list has outgrown 1.05 * 1.3 * R, which `SlackBound` allows at
entry points only, or for R < 16.

**AlphaPrune / Pruning.** The outer loop keeps the first candidate that is not
occluded and scans the rest, the ids are compared with the point itself, and
`maxc` and `R` cut both loops. Distances are integers, `alpha` a fraction. A
division by the distance of two coincident points is a NaN or an infinity; an
`-Ofast` build may decide the comparison either way, so the constant
`NaNOccludes` gives the outcome and the run takes the one that differs from
IEEE arithmetic. Candidate lists are those of the callers, including the unfilled
slots (id 0, largest float) that HNSW passes.

**Hnsw.** It extends `GraphBuild` and takes `Reciprocal`, `Overwrite` and the
clean-up from it; `HExpand` and `HPublish` are its own. What is pruned is the whole array
`best_L_nodes`, all L + 1 slots of it: a candidate pushed out of the pool may be in the
spare one, and a slot never filled reads as point 0 at the largest distance. A
level above the lowest starts its searches from `InnerResults`, what the level
below answers for the location: that index is finished and does not change, so that it
is a constant, and its results may be points not yet published. `BuildInner` draws how
many points the level gets; with fewer than ten the remainder by
`progress_milestone` ends the program ("died"). The instance scales this limit
from 10 to 3 (`MILESTONES`) and `CHUNK` from 64 to 2, so that six points are
a build with several chunks.

**HnswLevels.** `disk` holds three files of each level at one path, known by the index
they come from and their items; labels and their files are as in `IndexFiles`
and are left out. One program builds indexes of any height and saves them
lowest level first, a file at a time (`WriteFile`); `Crash` leaves the file under way
untouched, or torn. The other is told a number of levels, which is in no file, and
reads them lowest first (`LoadLevel`). A search goes through the same levels; the
tags of what a level finds are the seeds of the next. `Inside` is what a search
must meet to read nothing but vectors and lists of the level; where it does not
hold the outcome is undefined (`SearchOutside`). That a search of a level answers with
points of it is `GreedySearch`'s business, and any choice of them is let in. The programs
see to `res_count` <= L, so that what the level below answers has room.

**GreedySearch / CandidatePool.** `addr` is `best_L_nodes` with its slots
0..L and their default contents; `k` is the scan position, `best` the position
`process_candidates_into_best_candidates_pool` returns. `Merge` is one turn of
that loop, `Merged` the decision to go back or on, `Return` the copy of the
results in `Vamana::search`. The seeds are sorted with ties in any order.
`Rewrite` is the environment during a build. The refinement maps the array to
its set of ids, and the unread part of the list to `pending`; the scan over
expanded candidates and rejected ones are stutters.

**LabelMedoids.** The points of each label, the candidates drawn of them, and the critical
section that picks one (`PickMedoid`): of those drawn the one that is the medoid of the fewest
labels so far, the first drawn of several, whichever order the threads take the labels in.
`init_ids` and `Accepted` are the start of a search with labels and the test of each
candidate, a merge of two sorted lists that loses labels when the filters are not
in order. `GraphBuild` takes the resulting map as a constant.

**RelativeNG.** The build runs every location against all others with the alpha rule of
`Pruning`; no thread reads a list another writes, so that one location is one action.
The count of milestones, for which the build needs ten points, is left out. Candidates at
one distance are in any order, as `std::sort` leaves them (`Pools`), and 0/0 compares as the
constant `NaNOccludes` says.

**GroundTruth.** One query. `exact_knn` of each part, its ids offset by the parts
before, the merge with `k` as it shrinks, and the file as its lengths: `SaveTruth` may leave
any of them. `load_truthset` tells the type from the size, `calculate_recall`
widens the truth by ties as far as there are distances.

**SearchEvaluation.** The phases in which these meet: an index is prepared (given,
built, or being built by other threads), the search answers, the answer is judged
against the truth whenever there is one, as the programs under `tests/` do, which do not look
at how many results came back: a slot never filled reads as id 0 (`query_result_ids`). A search
has the points' labels and the starts `LabelMedoids` gives.

**IndexFiles.** `path` holds the six files at one path, `obj` the index object,
`todo` what a save has still to do; `outcome` is how the last load ended.
`committed`, `everSaved` and `faults` record what happened, for the properties.
`SaveOps` is the order in which `Vamana::save` writes and removes; each file is
one action, and `CrashInSave` leaves the file being written whole, untouched or cut at
any item, the graph also in the middle of a list (`TornFile`). A load is one action,
since nothing else touches the path meanwhile; it goes into an empty object, one made
with data and labels and not built (`Unbuilt`), or a used one, so that labels and lists are
appended to what is there. A build on top of a loaded object is left out. An exception
or `exit` ends the process. A file is read as its items and, where the header
has one, its count: what the size check of `load_bin` compares. The universal
label is the same in every index (no caller changes it) and is not read back.

**CachedReader.** A byte is its place in the file. `ReadCached` is the first
branch of `read`, `ReadDirectly` the second with the refill, `Throw` its error;
the three split the calls of one method. `tellg` is the position of the
underlying stream, which never fails since no read asks it for more than is left.

**LshIndex / BucketSearch.** A hash function is any function of a vector. `Lookup`
is `get_bucket`, which inserts an empty bucket when there is none: it is two
steps, the look and the insertion, when the bucket is missing, and a step of
another thread may fall between. `AddVector` stores tags, and the search takes
them for positions: any map of positions to positions is a tag map here, and that of the run
is a rotation. A tag past the end of the data is undefined and is no input.
`build` appends tables and adds the points to all there are, `load` replaces the
tables, and neither `num_tables` nor `table_size` is restored: an index loaded, or
built twice, writes a header that disagrees with what follows. Reading past the end
of a file is undefined and ends the behaviour considered. With two searching threads the race on
the tables leaves nothing defined, so that the passing run has one.
`PoolOf` of `BucketSearch` offers one candidate after the other (`Consider`) to the array of
`CandidatePool`.

**IvfIndex.** `Block` computes the closest centres of a block into its buffer,
`Assign` is the critical section in which a thread appends a point, in any
order. The centres are those of `KMeans`. `Probes` keeps ties open as a heap does, and
with more probes than centres gives the zeros the vector was made with: list 0,
again and again. `Gathered` is the list of candidates read from them. A second `build` keeps
the old entries.

**KMeans.** Vectors are places on a line. `gen_random_slice` is any non-empty slice (an
empty one ends the program and is no input). `PickFirst`, `Dart` and `PickNext` are
k-means++, with the flag that lets a centre be picked twice when every distance is
zero; `Lloyd` moves each centre to the mean of its cluster, and one of an empty cluster to the
origin, until the residual is zero or changes little, or `MAX_K_MEANS_REPS` turns are
over (10 in the code, 4 in the run, where three points settle earlier).

**Partition.** `disk` holds the ids and the data of each shard, `writers` what was
written to files still `open`; a header has a dummy count until `Close`.
`compute_closest_centers` gives any `k_base` centres of each point. `Fits` and
`TooLarge` are the turns of the budget loop, `Scan` is one point of the merge
that extracts a shard. `Crash` may come between any two steps. The file of centroids is
left out, as nothing reads it.

**ProductQuantiser.** A run of the program trains, if the pivots at the path are not of the
size asked for, and encodes the data in blocks. A file is the training it comes from, its rows
and columns, and whether it is whole. The pivots are written first and three
small files after them (`SavePart`); a run that finds pivots of the right size
keeps them, whatever the other files are. `Crash` may come between any two
steps or within a file. 257 centres take four bytes for a code; the program asks for
256, a caller of the library may ask for more. `BinSizes` throws the dimensions one after another into
bins of the capacities that `PushDim` and `NoDims` give them; `Offsets` are their sums.

## The runs

| run | instance | what it shows |
|---|---|---|
| alpha_prune | 6 labelled points on a line, 3 coincident; every candidate set in every order of ties, up to 2 padding entries; R = 2, C = 5 | the loops return what `Pruning` selects; dropped candidates are covered, labels included; the contract the build relies on |
| build_two_threads | 10 points with 2 labels and a universal one, chunks of 4, 2 threads, L = 3, R = 2, alpha rule | all safety properties of the build over every interleaving, with several entry points and filtered searches; every fair run ends |
| hnsw | 6 points, chunks of 2, 2 threads, L = 3, R = 2, top-K rule; level 0, and level 1 over every sample | bounds on a level's lists, no edge but to point 0 more than twice, no location cut off |
| hnsw_levels | indexes of 3 levels and of 2, with as many points in the levels they share or fewer; up to 2 saves cut short before one completes | a search stays inside of its levels, and hands on tags of the right level, as far up as they are of one index; a completed save leaves no break below the top of its index; one save cut short leaves two indexes with one level between them |
| search | see below | the array implements best-first search, also while a build goes on; every search ends; the answers, with and without labels; a relative neighbourhood graph leads to every point; the truth is exact and a full score is deserved |
| index_files | a filtered index of 2 points, an unfiltered one of 2, a filtered one of 3; loads into empty objects, objects with labels and no lists, and used ones with up to 3 lists | a completed save is what a load that ends well returns, but for the labels of an object not yet built; what loads notice of a save cut short |
| cached_reader | files of 0-8 bytes, buffers of 1-9, reads of 0-9 | every sequence of reads implements `ByteSource` |
| lsh | 3 points with tags that are not their positions, 2 tables, one searching thread; new and used objects | answers are the closest points at the tags of those that collide, whatever the history; an index built once survives its file, and of any other as many tables as its header announces |
| lsh_two_searches | the same, two threads | **violation**: a search changes a table another one reads, see below |
| ivf | 3 points in blocks of 2, 1 or 2 clusters trained on any slice, probes of 0 to 3 lists, up to 2 builds | training ends and does not get worse; every point is in one list, of a closest centre; answers are the closest of the lists probed, each once |
| partition | 3 points in blocks of 2, 1 to 4 shards, 1 or 2 copies, any 2 operations | what a call that returned has written, whatever was there; what an extraction writes from complete and cut files; the budget |
| product_quantiser | 3 runs, one of them cut short anywhere; 2 or 5 dimensions, 256 or 257 centres, 1 to 4 chunks | codes are of one training unless a run was cut short; every point is encoded; what a run refuses; the chunks partition the dimensions, and those data are encoded with are of their dimension |

The run search has five kinds of queries on five points. Given graphs, 81 of them on four
points with the fifth not linked, under 27 orders of distance with ties, pools of
1, 2 and 5, from one start, from repeated starts with a filter, and from none.
The same with lists empty at first and replaced at any time. Relative neighbourhood
graphs of three layouts with copies and ties, each built with its ties in every order, queried
at six places, judged by a truth of 1 to 3 points computed in parts of three and cut short
anywhere. Given graphs that leave slots unfilled, judged alike. Searches with labels, known
or not, in order or not, from the medoids any draw gives.

The bounds: 1.3 R = 2.6 makes a list overflow at its third edge, so that copies,
prunings and overwrites happen within ten points; ten is the smallest N the
code accepts (N / 10 is a divisor) and gives chunks 0-3, 4-7, 8-9, two for the
first of two threads. Distances on the line are pairwise different from every
point in the build runs; ties are the business of alpha_prune and search.
Six points with the milestones of the code would end every build; the
scaled limit keeps both the case that ends it and those that go on.
In partition a path sees two operations, enough for every pair (a partitioning
over shards of another, an extraction from files cut short); the loop starts
with two parts instead of three and is followed for one more turn. In
product_quantiser it sees three runs: one that trains, one that another number of
chunks is asked of or that is cut short, and one that meets the result.
L = 5 on five points reaches the bisection proper (three candidates already in
the array), the other sizes a full pool.

Each property is also checked to be sensitive: for every property of a passing
run a variant of some action, written beside the action in the module, makes
that run fail.

**Fairness.** `GraphBuild!FairSpec` is weak fairness of the whole next-state
relation: if some thread can take a step, one does. No action waits for another
thread but the barriers, so this is all an OpenMP team needs.
`EFairSpec` is weak fairness of the preparation of an index, whose threads do not wait
for one another, and of the searching thread, which waits only for a read lock that
others hold for the length of a copy. The `FairSpec` of IVF is weak fairness of a
training and of its steps: one thread, whose dart meets a point that is no centre
yet with a probability that is not zero, or finds that there is none. The model lets the
dart fall on the last point for ever otherwise, and fairness is stated of the
throws that change something.

**What the lost update costs.** With two threads that own different chunks an edge
appended to a list between the copy and the overwrite is lost; with one owner of
all locations it is not (`CopyIsCurrent`, proved). What the code still guarantees, and the runs and proofs
show, is that a published location keeps an out-edge (`NeverStranded`), that
lists stay bounded and distinct, and that nothing unpublished is ever seen.

**What a save cut short costs.** The files have no commit point. `RoundTrip` says
that a save that completes repairs whatever was there. Until then a load may
accept a mixture: data and tags of the new index with labels or a graph of the
old one if the numbers of points agree, and, since the size in the header of the
graph file is never compared, a graph cut in its last list
(`OneCrashIsNoticed` allows exactly that after one crash; after two, labels cut
short can meet data of another size and pass). Label medoids have no count, so
that a file of them cut short is never noticed, and an unfiltered save leaves
those of a filtered one behind. A load from a path without a graph file does not
end (`HangsOnlyBeforeFirstSave` says when that can be).

Loading into an object that has lists or labels appends to them: with labels at the path the
process exits, with lists it prints a mismatch and returns with the data already
replaced. One such load passes for a good one: an object made with labels and not yet built
has no lists, and at a path without labels it gets the saved index and keeps its own
labels (`index.cpp:219`). `RoundTrip` says that this is the only mixture.

**What HNSW's levels cost.** The number of levels is in no file and each level is read
without a look at the others. `DescentStaysInside` says what is left: as far up as the levels
that were loaded are of one index (`WholeUpTo`) a search stays inside of them, so that it leaves the vectors
and lists of a level only at a break or above it; and after a completed save, whatever was
at the path, there is no break below the top of its index, so that only levels in
excess of it can be the trouble. With fewer levels than were saved the answers are
positions in the next level. After a save that was cut short `SplitAtOneLevel` says which
levels are whose; the tags of the level at the break may lead outside of the level above.

**What a quantiser cut short costs.** Pivots that are there are never written again, so
that after a crash behind them the following runs encode with the centroid
or the chunks of an earlier training, and say nothing. Asked for another number of
chunks a run keeps the old files and refuses (`RefusedOnlyForChunks`).

**Finding.**
`HashTable::get_bucket` (`lsh.cpp:43`) reads with `operator[]`, which inserts. The
driver `tests/search_lsh.cpp:104` searches one index from several threads, so
that two of them may change one `std::map`: `SearchesDoNotInterfere` is
violated in a few steps.

**A list may stay empty.** If the medoid is the first location any thread processes, its
search finds only itself and the pruned list is empty: in a debug build the
assertion of `add_reciprocal_edges` (`graph_index.cpp:244`) fails, and the model is
of a release build, which goes on. `NeverStranded` says of which locations this can be
true, those whose search may start nowhere else (`Lone`), and for how long: no
location whose search starts at such a one alone may be through the loop yet
(`Processed`), since it would have added an edge.

## The proofs

Assumptions: the constants' types (`SizeAssumption`, `DataAssumption`,
`IndexAssumption`, `LevelsAssumption` and the like; `KMeansAssumption` also takes places so
scaled that the mean of any set of points is whole) and, for the builds, `PruneContract`
for both rules and `SlotsContract` for the padded arrays of HNSW. Each property is
strengthened to an inductive invariant.

- `Induction`: induction and recursion over the numbers up to a bound, stated of a set and
  derived from the theorem about well-founded relations: a non-empty set of numbers has
  a least member, and a recursive function on `0..K` whose step maps a set into itself
  has a value. What a recursive function of a module computes is proved with these, for
  every input: the bisection of the pool, the pruned lists, the bins of the chunks.
- `BuildProofs`, of `GraphBuild` first: `TypeCorrect`; `NoSelfLoopsEver` from `SearchInv`
  and `EdgeInv` (pending links and copies never hold their own point); `Isolation` (a
  location that is no entry is isolated until it publishes: searches find only what
  some list holds), from which `Slack` and `Distinctness` follow, since then the own
  append meets an empty list; `Connected` (a search that can start elsewhere expands
  another point, and a copy that is pruned always holds the edge being added; a list once
  it has an edge keeps one, and a search that starts at p alone and finds p empty
  links to p and hooks its own point to it: `HookInv`);
  `DegreeBounded` (what the clean-up has visited is within R); `OneOwner` and
  `OneChunk` (when one thread owns every location, or N <= CHUNK or T = 1, a copy is
  still current when it is written back). The lemmas `PublishEffect`,
  `ReciprocalEffect`, `OverwriteEffect` and `CleanUpEffect` say what each action does
  to any list, and serve `Hnsw` too, where padding and the answers of the level
  below bring points into lists before they publish, so that `Isolation` does not
  hold. `HSlack` and `HRepeatedOnce` count instead what an own append can meet (a list
  within the slack, every edge in it once, but those to point 0), and `HConnected`
  needs no start elsewhere: an unfilled slot is an edge to point 0.
- `AlphaPruneProofs`: the loop invariant and `TypeCorrect`, `ContractHolds`,
  `KeptAreIndependent`, `KeptDominate`, for every candidate list. `LoopsMatchReference`
  compares the two nested loops and their occlude factors with the one-pass
  definition of `Pruning`: what the loop has kept at a position is what that keeps of the
  candidates before.
- `PoolProofs`: the bisection, the scan of equal distances and the shift keep an array sorted,
  with every id in it once, and farther than all of it what was offered and is not in it.
  Every search rests on these lemmas.
- `SearchProofs`: what is in front of the scan is expanded, and the array is one of
  `PoolProofs` for what was met (`SInv`). From it `SearchImplementsBestFirst` and
  `ImplementsAbstract`, a step of the refinement for each step of the code, also while
  lists are replaced; `AnswersAreClosest`, `WideSearchExact` (an array with room for all
  pushes nothing out) and `LabelsCarried`. `EveryPointFound`: a point that a list of a
  relative neighbourhood graph lacks was occluded by a closer one, in whatever order ties were
  met and whatever 0/0 compares as, so that a search for a point of the data, from
  the entry point and with a pool of one, is led nearer until it is there. `TruthExact`: what `exact_knn` keeps of
  each part and the merge of all of them are sorted and lose nothing closer; the file
  keeps as much of it as it was told. `FullScoreDeserved` compares the two. The theorems
  that answers are closest assume that tags tell points apart (`TagsDiffer`), the one
  about scores that they are positions (`TagsArePositions`): the programs under `tests/`
  set none, and a position is its own tag.
- `PartitionProofs`: `ShardsHold` from `Held`, which says after every point what is in the
  files of the shards (`PointAdds`: a point adds `k_base` to the sum of their lengths, and
  itself at the end of those of its centers), then `Closing` (a file of the call is open
  still, or whole) and `Listed` (what a later extraction leaves as it is, or writes again).
  `RetrievesListed` from `Scanned`: the ids met are rising and below the next point, and
  the one after them is not below it, or no larger than the last one met; it holds of
  whatever ids there are, those of a partitioning cut short too. `SampleFits` from
  `Estimated`. For `CachedReader`: the unread part of the buffer ends where the underlying
  stream is (`AlwaysAhead`, with `ReaderTypeCorrect`), from which `ReaderImplementsSource`:
  every read is a read or a failure of `ByteSource`, for every file, buffer and read size.
- `FilesProofs`, of `IndexFiles`: `VectorsWhole`, `HangsOnlyAtFirst` and `SavedIsLoaded` from
  `FilesInv`: what a save has written and what it still will write are together
  what a save of that object writes, every file is whole or shorter
  than its count, and without a crash since it the files are those of the
  index saved last. The item that stands for no file has number 0, so that
  no file is taken for a missing one. `OneCutIsNoticed` adds `CutInv`: after one cut
  the files are those of a completed save up to the file it came to, that one whole,
  untouched or torn, and of the save before from there on, so that sizes that
  agree are those of one index. `SavedIsLoaded` looks at the object too (`GoodLoad`): a load of
  whole files ends well only in an object without lists, and without labels if the path has
  some (`LoadedUnbuilt`).
- `BuildProofs`, of `HnswLevels`: `DescentIsSafe` and `OneLevelBetween` from `LevelsInv`: below the
  point a save has come to the files are of the new index (`SaveInv`), above it of
  the one saved before (`RestInv`), so that a completed save leaves one
  (`WholeInv`) and one cut short two (`SplitInv`); the object is what is at the
  path (`ObjInv`), and for any index whose levels it has up to some level, the seeds of
  the next are tags of that level (`OfIndex`), which are positions in it
  (`TagsInside`).
- `FilesProofs`, of `ProductQuantiser`: `OneTrainingOrCut` from the order in which the files are
  written (a file is never newer than one written before it), and
  `RefusedForChunks` from what runs that are not cut short keep (`Uncut`). For the bins
  the sum of what they hold is counted (`BinFacts`): the capacities leave room for
  every dimension, so that a bin that is not full is always found, and the offsets rise by one size
  or one more (`EvenChunks`). `ChunksInv` carries that through the files:
  `ChunksArePartition`, and `AllEncoded` from the blocks written so far.
- `BucketProofs`, of the loop both indexes end with: `PoolFacts` carries the insertion
  of `PoolProofs` through a list of candidates of any length, with repetitions, and
  `ResultsFacts` through the copy of the results. `LshIsComplete`: `ObjectInv` says that
  in every table of the object, and of the file, a bucket holds the tags of exactly the
  points with that hash, and when the header is right (`Agrees`); `SearchingInv` that a
  search has met what the tables before the one it is at have for the vector, so that an
  empty bucket is inserted only where nothing is missing. `FilledFacts` follows the
  recursion that fills a table, `LoadedFacts` the tables that are read back.
  `LshResultsAreClosest`, for any tag map, and `LshRoundTrip`, also for the files whose header
  disagrees, follow. They hold for any number of threads
  that take the steps of the model; with two the program has the race above, and no
  outcome is defined.
- `BucketProofs`, of `IvfIndex`: `IvfInv` says, at every stage of a build, which points
  are in the lists (`Held`): those of the blocks before, and of the block under way
  those whose turn is over (`AssignInv`, with the closest centers the block has found
  for the others). There is a list for each center (`Shaped`), also on disk (`SavedInv`), so that
  a search reads lists there are, whatever the zeros of `Probes` make it read. From it
  `IvfHoldsEveryPointOnce`, for any block size and order of the threads, and
  `IvfAnswersAreClosest`, after any number of builds.
- `BucketProofs`, of `KMeans`: `LloydNeverWorse`. What `residual` says is never less
  than the distances of the points to their closest centers (`ResidualInv`): the
  assignment replaces a center by one no farther (`CloserCenters`), and of all places
  the mean has the least sum of squares (`MeanIsBest`, by the expansion of the square in
  `SumSquares`, and `MovedCenters` for all clusters at once, from `SumSplit`). A center
  thrown to the origin has no point, and costs nothing.

`TypeCorrect`, `ReaderTypeCorrect`, `NoSelfLoopsEver`, `HNoSelfLoops`, `AlwaysAhead`,
`KeptAreIndependent`, `SearchInvariant`, `OneOwner`, `OneChunk`, `LshIsComplete` and
`IvfIsConsistent` are proved and listed in no run.

Every invariant and action property a passing run checks is stated by a theorem. Only
model-checked: liveness (`BuildTerminates`, `SearchTerminates`, `TrainingEnds`), which is
out of the provers' reach, and the finding, of which TLC shows a behaviour.

## Not modelled

- Distances and vector arithmetic, parameters, timers, exceptions and random data:
  constants of the models, or without state. Vendored code (`include/tsl`) is taken
  for the sets and maps it implements.
- `save` and `load` of the relative neighbourhood graph: the layout of Vamana's
  without medoids.
- `cached_ofstream`, which no source file uses; the optional inflated file of product
  quantisation, which nothing reads; the values of pivots and codes.
- Range search recall, percentiles, the memory budget; `random_centers`, used for
  more than 2^23 points.
- A second process: two builds that share `/tmp/temp_data`, a load while another process
  saves.
- That the RAM budget loop ends, which depends on the data; that a build with fewer than
  ten points ends in a remainder by zero, except in HNSW, where the program draws them.

What would add most from here: the search of a level inside `HnswLevels` in place of any
answer; the second process; the rounding of distances, sums and means, which are exact in the
models.
