----------------------------- MODULE HnswLevels -----------------------------
(***************************************************************************)
(* The levels of an HNSW index on disk and in a search: HNSW::save, load   *)
(* and search (src/hnsw.cpp), which call themselves on the level below     *)
(* first.  A level is an index of its own: its tags are positions in the   *)
(* level above, which was sampled for it, and at the top those of the      *)
(* user.  One program builds indexes, of any heights, and saves them at    *)
(* one path; it may die at any moment.  Another loads as many levels as it *)
(* is told to and searches them.  One runs at a time.                      *)
(*                                                                         *)
(* A file is known by the index it comes from and the number of its items; *)
(* what else may be in the files of a level is the business of IndexFiles. *)
(***************************************************************************)
EXTENDS Integers, FiniteSets

CONSTANTS
    Indexes,        \* the indexes that may be built
    Height(_),      \* _cur_level_number of their top, the lowest level being 0
    NumPoints(_),   \* of the top
    Sample(_, _),   \* inner_level_pts of the level above a level: positions, increasing
    ResCount,       \* res_count of a search
    MaxHeight,      \* no index is higher
    MaxFaults       \* bound: how many saves are cut short before one completes

Size(i, n) == IF n = Height(i) THEN NumPoints(i) ELSE Cardinality(DOMAIN Sample(i, n))
Positions(i, n) == 0..(Size(i, n) - 1)

ASSUME LevelsAssumption ==
    /\ ResCount \in Nat \ {0}
    /\ MaxHeight \in Nat /\ MaxFaults \in Nat
    /\ \A i \in Indexes :
        /\ Height(i) \in 0..MaxHeight
        /\ \A n \in 0..Height(i) : Size(i, n) \in Nat \ {0}
        /\ \A n \in 0..(Height(i) - 1) :
              Sample(i, n) \in [1..Size(i, n) -> Positions(i, n + 1)]

\* _tag_map of a level; the user gives none, so that those of the top are positions.
Tag(i, n, p) == IF n = Height(i) THEN p ELSE Sample(i, n)[p + 1]
Tags(i, n) == {Tag(i, n, p) : p \in Positions(i, n)}

VARIABLES
    disk,        \* the files of every level
    mode,        \* "idle"; in save, "data", "tags" or "graph"; "load", "ready",
                 \* "search", "answered" and "undefined", in the other program
    saved,       \* the index that is being saved or was last
    at,          \* how many levels were saved, loaded or searched
    top,         \* the level number the second program was given
    obj,         \* the levels it has loaded
    seeds,       \* init_ids of the next level; at last, the answer
    committed,   \* the index whose save completed last, or None
    faults       \* how many saves were cut short since

lvars == <<disk, mode, saved, at, top, obj, seeds, committed, faults>>

NoIndex == "none"
Kinds == {"data", "tags", "graph"}
LevelNumbers == 0..MaxHeight

Absent == [of |-> NoIndex, items |-> 0, whole |-> FALSE]
File(i, n) == [of |-> i, items |-> Size(i, n), whole |-> TRUE]

Unloaded == [data |-> NoIndex, tags |-> NoIndex, graph |-> NoIndex, lists |-> 0,
             whole |-> FALSE]

\* The level of an object that holds index i.
Level(i, n) == [data |-> i, tags |-> i, graph |-> i, lists |-> Size(i, n), whole |-> TRUE]

LevelsInit ==
    /\ disk = [f \in LevelNumbers \X Kinds |-> Absent]
    /\ mode = "idle"
    /\ saved = NoIndex
    /\ at = 0 /\ top = 0
    /\ obj = [n \in LevelNumbers |-> Unloaded]
    /\ seeds = {}
    /\ committed = NoIndex
    /\ faults = 0

----------------------------------------------------------------------------
(* Saving.                                                                 *)

\* An index is built, and save called on its top.
Save ==
    /\ mode = "idle"
    /\ saved' \in Indexes
    /\ at' = 0
    /\ mode' = "data"
    /\ UNCHANGED <<disk, top, obj, seeds, committed, faults>>

\* Variants with a bug, which the run is expected to notice, stand before the
\* definition they would replace.

\* Variant: the level is saved before the one below.
SaveOrderTopFirst(i, step) == Height(i) - step

\* _inner_index->save comes first.
SaveOrder(i, step) == step

\* The next file of the level is written; then the next level's turn comes.
WriteFile ==
    /\ mode \in Kinds
    /\ LET n == SaveOrder(saved, at)
       IN  disk' = [disk EXCEPT ![<<n, mode>>] = File(saved, n)]
    /\ IF mode # "graph"
       THEN /\ mode' = IF mode = "data" THEN "tags" ELSE "graph"
            /\ UNCHANGED <<at, committed, faults>>
       ELSE IF at < Height(saved)
       THEN /\ mode' = "data" /\ at' = at + 1
            /\ UNCHANGED <<committed, faults>>
       ELSE /\ mode' = "idle" /\ at' = 0
            /\ committed' = saved /\ faults' = 0
    /\ UNCHANGED <<saved, top, obj, seeds>>

\* What is left of a file when the process dies writing it: some lists of a graph, of
\* which the last may have been cut through; how much of the others is no matter.
Torn(n) ==
    {[of |-> saved, items |-> k, whole |-> FALSE] :
        k \in IF mode = "graph" THEN 0..Size(saved, n) ELSE {0}}

Crash ==
    /\ mode \in Kinds
    /\ faults < MaxFaults
    /\ LET n == SaveOrder(saved, at)
       IN  \/ UNCHANGED disk
           \/ \E torn \in Torn(n) : disk' = [disk EXCEPT ![<<n, mode>>] = torn]
    /\ mode' = "idle"
    /\ at' = 0
    /\ faults' = faults + 1
    /\ UNCHANGED <<saved, top, obj, seeds, committed>>

----------------------------------------------------------------------------
(* Loading and searching.                                                  *)

\* The second program makes an empty object of so many levels.
Load ==
    /\ mode = "idle"
    /\ top' \in LevelNumbers
    /\ obj' = [n \in LevelNumbers |-> Unloaded]
    /\ at' = 0
    /\ mode' = "load"
    /\ UNCHANGED <<disk, saved, seeds, committed, faults>>

\* load_bin and load_aligned_bin throw unless the file has as many points as it announces.
Readable(n, f) == disk[<<n, f>>].whole

PointsIn(n, f) == Size(disk[<<n, f>>].of, n)

CanLoad(n) ==
    /\ Readable(n, "data") /\ Readable(n, "tags")
    /\ PointsIn(n, "data") = PointsIn(n, "tags")
    /\ disk[<<n, "graph">>] # Absent

ReadLevel(n) ==
    [data |-> disk[<<n, "data">>].of, tags |-> disk[<<n, "tags">>].of,
     graph |-> disk[<<n, "graph">>].of, lists |-> disk[<<n, "graph">>].items,
     whole |-> disk[<<n, "graph">>].whole]

\* The level that comes next is read, the levels below being there.  Too few or too
\* many lists are reported, and the load goes on.
LoadLevel ==
    /\ mode = "load"
    /\ CanLoad(at)
    /\ obj' = [obj EXCEPT ![at] = ReadLevel(at)]
    /\ IF at < top THEN at' = at + 1 /\ mode' = mode ELSE at' = 0 /\ mode' = "ready"
    /\ UNCHANGED <<disk, saved, top, seeds, committed, faults>>

\* It throws, exits, or does not end: the program has no object.
LoadFails ==
    /\ mode = "load"
    /\ ~ CanLoad(at)
    /\ obj' = [n \in LevelNumbers |-> Unloaded]
    /\ at' = 0 /\ top' = 0
    /\ mode' = "idle"
    /\ UNCHANGED <<disk, saved, seeds, committed, faults>>

\* search goes down to the lowest level, which starts from the node its graph file names.
Search ==
    /\ mode \in {"ready", "answered"}
    /\ \E start \in Positions(obj[0].graph, 0) : seeds' = {start}
    /\ at' = 0
    /\ mode' = "search"
    /\ UNCHANGED <<disk, saved, top, obj, committed, faults>>

num_points == Size(obj[at].data, at)

\* No seed, list or link leads outside of the vectors and lists the level has.
Inside ==
    /\ seeds \subseteq 0..(num_points - 1)
    /\ obj[at].lists >= num_points
    /\ Size(obj[at].graph, at) <= num_points

\* Variant: positions in the level below are taken for positions in the level.
SearchLevelUntagged ==
    /\ mode = "search"
    /\ Inside
    /\ \E found \in (SUBSET (0..(num_points - 1))) \ {{}} :
        /\ Cardinality(found) <= ResCount
        /\ seeds' = found
    /\ IF at < top THEN at' = at + 1 /\ mode' = mode ELSE at' = 0 /\ mode' = "answered"
    /\ UNCHANGED <<disk, saved, top, obj, committed, faults>>

\* The search of a level finds some points, and the tags of at most res_count of them
\* are where the level above starts, and the answer at the top.
SearchLevel ==
    /\ mode = "search"
    /\ Inside
    /\ \E found \in (SUBSET (0..(num_points - 1))) \ {{}} :
        /\ Cardinality(found) <= ResCount
        /\ seeds' = {Tag(obj[at].tags, at, p) : p \in found}
    /\ IF at < top THEN at' = at + 1 /\ mode' = mode ELSE at' = 0 /\ mode' = "answered"
    /\ UNCHANGED <<disk, saved, top, obj, committed, faults>>

\* It may read what is no vector and no list: anything may happen.
SearchOutside ==
    /\ mode = "search"
    /\ ~ Inside
    /\ mode' = "undefined"
    /\ UNCHANGED <<disk, saved, at, top, obj, seeds, committed, faults>>

\* The second program ends.
End ==
    /\ mode \in {"ready", "answered", "undefined"}
    /\ obj' = [n \in LevelNumbers |-> Unloaded]
    /\ seeds' = {}
    /\ at' = 0 /\ top' = 0
    /\ mode' = "idle"
    /\ UNCHANGED <<disk, saved, committed, faults>>

LevelsNext ==
    \/ Save \/ WriteFile \/ Crash
    \/ Load \/ LoadLevel \/ LoadFails
    \/ Search \/ SearchLevel \/ SearchOutside \/ End

LevelsSpec == LevelsInit /\ [][LevelsNext]_lvars

----------------------------------------------------------------------------
(* Properties.                                                             *)

\* The levels of the object up to n are those of index i.
WholeUpTo(i, n) == n \in 0..Height(i) /\ \A m \in 0..n : obj[m] = Level(i, m)

\* No save was cut short since one completed.
SavedWhole == committed # NoIndex /\ faults = 0

LowerOf(m, n) == IF m <= n THEN m ELSE n

\* As far up as the levels of an object are of one index a search stays inside of them:
\* it leaves a level's vectors and lists only where the break is or above it, starts in a
\* level above them from points that were sampled for the level below, and answers with
\* tags of the highest it was given.  A save that completes leaves no break below the top
\* of its index, whatever was at the path before and however many levels are asked for.
DescentStaysInside ==
    /\ \A i \in Indexes :
        /\ mode = "undefined" => ~ WholeUpTo(i, at)
        /\ mode = "search" /\ at > 0 /\ WholeUpTo(i, at - 1) =>
              seeds # {} /\ seeds \subseteq Tags(i, at - 1)
        /\ mode = "answered" /\ WholeUpTo(i, top) => seeds # {} /\ seeds \subseteq Tags(i, top)
    /\ SavedWhole /\ mode \in {"ready", "search", "answered", "undefined"} =>
          WholeUpTo(committed, LowerOf(top, Height(committed)))

\* A save that was cut short leaves levels of two indexes, the new one's below one level
\* and the old one's above it, and only in that level itself may their files be mixed.
SplitAtOneLevel ==
    mode = "ready" /\ faults = 1 =>
        \E split \in LevelNumbers : \A n \in 0..top :
            /\ n < split => obj[n] = Level(saved, n)
            /\ n > split /\ committed # NoIndex /\ n <= Height(committed) =>
                  obj[n] = Level(committed, n)
=============================================================================
