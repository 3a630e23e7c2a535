----------------------------- MODULE IndexFiles -----------------------------
(***************************************************************************)
(* The files of a Vamana index: Vamana::save and Vamana::load              *)
(* (src/vamana.cpp) with the parts they share with every other index       *)
(* (src/index.cpp, include/utils.h).  Indexes are built, saved at one path *)
(* one over the other, and loaded into objects that are empty, hold data   *)
(* and labels but no lists, or are in use; the process may die at any      *)
(* moment of a save.                                                       *)
(*                                                                         *)
(* A file is its count of points, if it has one, and a sequence of items:  *)
(* the vectors, the tags, the lines of labels, the label medoids, the      *)
(* adjacency lists.  The item <<i, n>> is the n-th of index i.  The header *)
(* of the graph file is left out: the width and the start node in it go    *)
(* with the lists, and the size in it is read but never compared.          *)
(***************************************************************************)
EXTENDS Naturals, Sequences

CONSTANTS
    Indexes,         \* the indexes that may be built
    Size(_),         \* their numbers of points
    IsFiltered(_),   \* whether they have labels
    LabelCount,      \* how many labels a filtered index has
    MaxLists         \* bound: an object with more lists is not loaded into

ASSUME IndexAssumption ==
    /\ \A i \in Indexes : Size(i) \in Nat \ {0} /\ IsFiltered(i) \in BOOLEAN
    /\ LabelCount \in Nat \ {0}
    /\ MaxLists \in Nat

VARIABLES
    path,        \* the files at the path
    obj,         \* the index object of the process
    todo,        \* what the save under way still has to do
    outcome,     \* of the load that was last
    committed,   \* the index whose save was the last and completed
    everSaved,   \* a save has completed
    faults       \* how many saves were cut short since one of an index completed,
                 \* two also standing for more and for a save of a mixture

fvars == <<path, obj, todo, outcome, committed, everSaved, faults>>

FileKinds == {"data", "tags", "labels", "universal", "medoids", "graph"}

None == "none"
Absent == [count |-> 0, items |-> << <<None, 0>> >>]
NoObject == [data |-> << <<None, 0>> >>]

Items(i) == [n \in 1..Size(i) |-> <<i, n>>]
Medoids(i) == [n \in 1..LabelCount |-> <<i, n>>]

\* An object of the constructor that reads nothing, and a built index.
Empty == [data |-> << >>, tags |-> << >>, labels |-> << >>, filtered |-> FALSE,
          medoids |-> << >>, out_nbrs |-> << >>]
Built(i) ==
    [data |-> Items(i), tags |-> Items(i),
     labels |-> IF IsFiltered(i) THEN Items(i) ELSE << >>,
     filtered |-> IsFiltered(i),
     medoids |-> IF IsFiltered(i) THEN Medoids(i) ELSE << >>,
     out_nbrs |-> Items(i)]

\* An object of the constructor that reads vectors, tags and labels, before build.
Unbuilt(i) == [Built(i) EXCEPT !.medoids = << >>, !.out_nbrs = << >>]

\* What the constructors give.
NewObjects == {Empty} \cup {Unbuilt(i) : i \in Indexes}

\* The object holds index i.  Label medoids count in a filtered index only.
Holds(o, i) ==
    /\ o # NoObject
    /\ [o EXCEPT !.medoids = << >>] = [Built(i) EXCEPT !.medoids = << >>]
    /\ IsFiltered(i) => o.medoids = Medoids(i)

\* The object holds index i, which has no labels, but is filtered by those of index j.
HoldsWithLabelsOf(o, i, j) ==
    /\ o # NoObject
    /\ ~ IsFiltered(i) /\ IsFiltered(j)
    /\ [o EXCEPT !.medoids = << >>] =
           [Built(i) EXCEPT !.medoids = << >>, !.labels = Items(j), !.filtered = TRUE]

----------------------------------------------------------------------------
(* Saving.                                                                 *)

Write(f, items, n) == [file |-> f, to |-> [count |-> n, items |-> items]]
Unlink(f) == [file |-> f, to |-> Absent]

\* Variants with a bug, which the runs are expected to notice, stand before the
\* definition they would replace.

\* Variant: the labels of an index saved before are left alone.
SaveOpsKeepingLabels(o) ==
    <<Write("data", o.data, Len(o.data)), Write("tags", o.tags, Len(o.data))>>
    \o (IF o.filtered THEN <<Write("labels", o.labels, 0)>> ELSE << >>)
    \o (IF o.filtered /\ o.medoids # << >> THEN <<Write("medoids", o.medoids, 0)>> ELSE << >>)
    \o <<Write("graph", SubSeq(o.out_nbrs, 1, Len(o.data)), 0)>>

\* Variant: the old graph is removed before anything is written.
SaveOpsClearing(o) ==
    <<Unlink("graph"), Write("data", o.data, Len(o.data)), Write("tags", o.tags, Len(o.data)),
      Write("graph", SubSeq(o.out_nbrs, 1, Len(o.data)), 0)>>

\* What save does, in order.  The universal label is the same in every index.
SaveOps(o) ==
    <<Write("data", o.data, Len(o.data)), Write("tags", o.tags, Len(o.data))>>
    \o (IF o.filtered THEN <<Write("labels", o.labels, 0), Write("universal", << >>, 0)>>
                      ELSE <<Unlink("labels"), Unlink("universal")>>)
    \o (IF o.filtered /\ o.medoids # << >> THEN <<Write("medoids", o.medoids, 0)>> ELSE << >>)
    \o <<Write("graph", SubSeq(o.out_nbrs, 1, Len(o.data)), 0)>>

\* What is left of a file when the process dies writing it: any part of the
\* items; in the graph file the last may have been cut through, and the rest of
\* it is read as zeros.  Text is flushed line by line.  A removal is all or nothing.
TornFile(op) ==
    LET whole == op.to.items
        parts == IF op.to = Absent THEN {}
                 ELSE {SubSeq(whole, 1, n) : n \in 0..(Len(whole) - 1)}
    IN  {[op.to EXCEPT !.items = s] : s \in
            IF op.file = "graph"
            THEN parts \cup {Append(s, <<None, Len(s) + 1>>) : s \in parts}
            ELSE parts}

----------------------------------------------------------------------------
(* Loading.                                                                *)

\* Variant: the size of a file is not compared.
ReadableAlways(d, f) == d[f] # Absent

\* load_bin and load_aligned_bin throw unless the size of the file is the one
\* its header announces.
Readable(d, f) == d[f] # Absent /\ Len(d[f].items) = d[f].count

\* The object once everything but the graph is read.  Labels are appended to
\* those the object has, label medoids replace them; what has no file stays.
LabelsRead(d, o) ==
    [o EXCEPT !.data = d["data"].items,
              !.tags = d["tags"].items,
              !.labels = IF d["labels"] = Absent THEN @ ELSE @ \o d["labels"].items,
              !.filtered = @ \/ d["labels"] # Absent,
              !.medoids = IF d["medoids"] = Absent THEN @ ELSE d["medoids"].items]

\* Variant: the labels are not counted.
LabelsCountedNever(d, o) == TRUE

\* parse_label_file counts the lines when there is a file.
LabelsCounted(d, o) ==
    d["labels"] # Absent => Len(LabelsRead(d, o).labels) = Len(d["data"].items)

\* The adjacency lists are appended to those the object has.
GraphRead(d, o) ==
    [LabelsRead(d, o) EXCEPT !.out_nbrs = @ \o d["graph"].items]

\* How load ends.  Without a graph file its loop does not ("hang"): a stream that
\* was not opened never reaches the end of the file, and lists of undefined length
\* are appended until there is no memory.
LoadOutcome(d, o) ==
    LET readable == Readable(d, "data") /\ Readable(d, "tags")
        agree == d["data"].count = d["tags"].count /\ LabelsCounted(d, o)
        whole == Len(GraphRead(d, o).out_nbrs) = d["data"].count
    IN  CASE ~ readable                                             -> "throw"
          [] readable /\ ~ agree                                    -> "exit"
          [] readable /\ agree /\ d["graph"] = Absent               -> "hang"
          [] readable /\ agree /\ d["graph"] # Absent /\ whole      -> "ok"
          [] readable /\ agree /\ d["graph"] # Absent /\ ~ whole    -> "mismatch"

----------------------------------------------------------------------------
PathInit ==
    /\ path = [f \in FileKinds |-> Absent]
    /\ obj = NoObject
    /\ todo = << >>
    /\ outcome = None
    /\ committed = None
    /\ everSaved = FALSE
    /\ faults = 0

\* A process constructs an object, and may build the index of its data.
Create ==
    /\ todo = << >>
    /\ obj' \in NewObjects \cup {Built(i) : i \in Indexes}
    /\ outcome' = None
    /\ UNCHANGED <<path, todo, committed, everSaved, faults>>

\* save is called on an object that has a list for every point.
Save ==
    /\ todo = << >>
    /\ obj # NoObject
    /\ Len(obj.data) > 0
    /\ Len(obj.out_nbrs) >= Len(obj.data)
    /\ todo' = SaveOps(obj)
    /\ committed' = None
    /\ outcome' = None
    /\ faults' = IF \E i \in Indexes : Holds(obj, i) THEN faults ELSE 2
    /\ UNCHANGED <<path, obj, everSaved>>

\* A file is written or removed; with the last one the save is complete.
SaveFile ==
    /\ todo # << >>
    /\ path' = [path EXCEPT ![Head(todo).file] = Head(todo).to]
    /\ todo' = Tail(todo)
    /\ IF Len(todo) > 1
       THEN UNCHANGED <<committed, everSaved, faults>>
       ELSE /\ everSaved' = TRUE
            /\ \/ \E i \in Indexes :
                     Holds(obj, i) /\ committed' = i /\ faults' = 0
               \/ /\ \A i \in Indexes : ~ Holds(obj, i)
                  /\ UNCHANGED <<committed, faults>>
    /\ UNCHANGED <<obj, outcome>>

\* The process dies between two files or in the middle of one.
CrashInSave ==
    /\ obj # NoObject
    /\ IF todo = << >>
       THEN UNCHANGED <<path, faults>>
       ELSE /\ \/ UNCHANGED path
               \/ \E torn \in TornFile(Head(todo)) :
                     path' = [path EXCEPT ![Head(todo).file] = torn]
            /\ faults' = IF faults < 2 THEN faults + 1 ELSE faults
    /\ obj' = NoObject
    /\ todo' = << >>
    /\ outcome' = None
    /\ UNCHANGED <<committed, everSaved>>

\* load is called on an object, new, built or loaded.  An exception or exit ends the
\* process; a mismatch is printed and the object kept as it is.
Load ==
    /\ todo = << >>
    /\ obj # NoObject
    /\ Len(obj.out_nbrs) <= MaxLists
    /\ outcome' = LoadOutcome(path, obj)
    /\ obj' = IF outcome' \in {"ok", "mismatch"} THEN GraphRead(path, obj) ELSE NoObject
    /\ UNCHANGED <<path, todo, committed, everSaved, faults>>

PathNext == Create \/ Save \/ SaveFile \/ CrashInSave \/ Load

PathSpec == PathInit /\ [][PathNext]_fvars

----------------------------------------------------------------------------
(* Properties.                                                             *)

\* What a load into a new object would end with, and leave there.
NewOutcome == LoadOutcome(path, Empty)
NewObject == GraphRead(path, Empty)

\* A save that completed is what a load returns, whatever was at the path before,
\* be it of another size, filtered or not, the label medoids of an older index, or the
\* remains of a save cut short.  A load adds lists and labels to those an object has; in
\* whatever object it ends as a good one, that object holds the index saved, but for one
\* mixture: an index without labels, loaded into an object made with labels and never
\* built, is filtered by the labels of that object.
RoundTrip ==
    committed # None =>
        /\ NewOutcome = "ok" /\ Holds(NewObject, committed)
        /\ outcome = "ok" =>
              Holds(obj, committed) \/ \E j \in Indexes : HoldsWithLabelsOf(obj, committed, j)

\* No load accepts vectors or tags of which a part is missing.
VectorsNeverTorn ==
    NewOutcome = "ok" => \E i, j \in Indexes :
        NewObject.data = Items(i) /\ NewObject.tags = Items(j)

\* After at most one save cut short a load accepts, of all the items it reads but label
\* medoids, at most the last adjacency list in a damaged state.
OneCrashIsNoticed ==
    todo = << >> /\ faults <= 1 /\ NewOutcome = "ok" =>
        /\ NewObject.labels \in {Items(i) : i \in Indexes} \cup {<< >>}
        /\ \E i \in Indexes : \A n \in 1..(Size(i) - 1) :
              /\ Len(NewObject.out_nbrs) = Size(i)
              /\ NewObject.out_nbrs[n] = <<i, n>>

\* Once a save has completed, no crash of a later one leaves a path at which
\* load never returns.
HangsOnlyBeforeFirstSave == everSaved => NewOutcome # "hang"
=============================================================================
