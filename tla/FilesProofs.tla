---------------------------- MODULE FilesProofs -----------------------------
(***************************************************************************)
(* Proofs about what is found in files that a program may have died        *)
(* writing.  About IndexFiles, for any indexes and any sizes: what a save  *)
(* has written and still will, and what a load therefore finds.  About     *)
(* ProductQuantiser, for any data, numbers of centers and of chunks, and   *)
(* any number of runs: what of the four files a run finds, how the bins of *)
(* the chunks are filled, and what is encoded with them.                   *)
(***************************************************************************)
EXTENDS IndexFiles, ProductQuantiser, Induction, TLAPS, SequenceTheorems

----------------------------------------------------------------------------
(* Types.  The item that stands for no file has number 0, so that no file  *)
(* is mistaken for it.                                                     *)

Item == (Indexes \cup {None}) \X (Nat \ {0})
File == [count : Nat, items : Seq(Item)]
Object == [data : Seq(Item), tags : Seq(Item), labels : Seq(Item), filtered : BOOLEAN,
           medoids : Seq(Item), out_nbrs : Seq(Item)]
Op == [file : FileKinds, to : File \cup {Absent}]

\* The content that the save of object o gives to file f, if it writes f.
Target(o, f) ==
    CASE f = "data" -> [count |-> Len(o.data), items |-> o.data]
      [] f = "tags" -> [count |-> Len(o.data), items |-> o.tags]
      [] f = "labels" -> IF o.filtered THEN [count |-> 0, items |-> o.labels] ELSE Absent
      [] f = "universal" -> IF o.filtered THEN [count |-> 0, items |-> << >>] ELSE Absent
      [] f = "medoids" -> [count |-> 0, items |-> o.medoids]
      [] f = "graph" -> [count |-> 0, items |-> SubSeq(o.out_nbrs, 1, Len(o.data))]

HasMedoids(o) == o.filtered /\ o.medoids # << >>

\* save may be called on o: there is a list for every point.
Saveable(o) == o \in Object /\ Len(o.data) > 0 /\ Len(o.out_nbrs) >= Len(o.data)

LEMMA AbsentIsNoFile == Absent \notin File
<1> SUFFICES ASSUME Absent \in File
             PROVE  FALSE
  OBVIOUS
<1>1. Absent.items \in Seq(Item) /\ Absent.items = << <<None, 0>> >>
  BY DEF File, Absent
<1>2. << <<None, 0>> >> \in Seq(Item) /\ Len(<< <<None, 0>> >>) = 1
  BY <1>1
<1>3. << <<None, 0>> >>[1] \in Item
  BY <1>2, ElementOfSeq
<1>4. <<None, 0>> \in Item
  BY <1>3
<1> QED
  BY <1>4 DEF Item

LEMMA NoObjectIsNone == NoObject \notin Object
<1> SUFFICES ASSUME NoObject \in Object
             PROVE  FALSE
  OBVIOUS
<1>1. NoObject.data \in Seq(Item) /\ NoObject.data = << <<None, 0>> >>
  BY DEF Object, NoObject
<1>2. << <<None, 0>> >> \in Seq(Item) /\ Len(<< <<None, 0>> >>) = 1
  BY <1>1
<1>3. << <<None, 0>> >>[1] \in Item
  BY <1>2, ElementOfSeq
<1>4. <<None, 0>> \in Item
  BY <1>3
<1> QED
  BY <1>4 DEF Item

LEMMA ItemsFacts ==
    ASSUME NEW i \in Indexes
    PROVE  /\ Items(i) \in Seq(Item) /\ Len(Items(i)) = Size(i)
           /\ Size(i) \in Nat \ {0}
           /\ Items(i) # << >>
           /\ Medoids(i) \in Seq(Item) /\ Medoids(i) # << >>
           /\ IsFiltered(i) \in BOOLEAN
<1>1. Size(i) \in Nat \ {0} /\ LabelCount \in Nat \ {0} /\ IsFiltered(i) \in BOOLEAN
  BY IndexAssumption
<1>2. \A n \in Nat \ {0} : <<i, n>> \in Item
  BY DEF Item
<1>3. Items(i) \in Seq(Item) /\ Len(Items(i)) = Size(i)
  BY <1>1, <1>2 DEF Items
<1>4. Medoids(i) \in Seq(Item) /\ Len(Medoids(i)) = LabelCount
  BY <1>1, <1>2 DEF Medoids
<1> QED
  BY <1>1, <1>3, <1>4, EmptySeq

LEMMA ObjectFacts ==
    /\ Empty \in Object
    /\ \A i \in Indexes : Built(i) \in Object
<1>1. << >> \in Seq(Item)
  BY EmptySeq
<1> QED
  BY <1>1, ItemsFacts DEF Empty, Built, Object

LEMMA TargetFacts ==
    ASSUME NEW o, Saveable(o), NEW f \in FileKinds
    PROVE  /\ Target(o, f) \in File \cup {Absent}
           /\ f \notin {"labels", "universal"} => Target(o, f) \in File
<1>0. o \in Object
  BY DEF Saveable
<1>1. << >> \in Seq(Item) /\ Len(o.data) \in Nat /\ o.out_nbrs \in Seq(Item)
      /\ Len(o.out_nbrs) \in Nat
  BY <1>0, EmptySeq, LenProperties DEF Object
<1>2. \A n \in 1..Len(o.data) : o.out_nbrs[n] \in Item
  BY <1>1, ElementOfSeq DEF Saveable
<1>3. SubSeq(o.out_nbrs, 1, Len(o.data)) \in Seq(Item)
  BY <1>1, <1>2, SubSeqProperties
<1> QED
  BY <1>0, <1>1, <1>3 DEF Target, FileKinds, File, Object

\* The first of the rest and the others.
LEMMA HeadAndTail ==
    ASSUME NEW s \in Seq(Op), s # << >>
    PROVE  /\ Head(s) \in Op
           /\ Tail(s) \in Seq(Op)
           /\ Range(s) = {Head(s)} \cup Range(Tail(s))
           /\ Len(s) \in Nat \ {0}
           /\ Len(s) = 1 <=> Tail(s) = << >>
           /\ Len(s) > 1 <=> Tail(s) # << >>
<1>1. /\ Head(s) \in Op /\ Tail(s) \in Seq(Op)
      /\ Len(Tail(s)) = Len(s) - 1
      /\ \A i \in 1..Len(Tail(s)) : Tail(s)[i] = s[i + 1]
      /\ Head(s) = s[1]
  BY HeadTailProperties
<1>2. Len(s) \in Nat \ {0}
  BY EmptySeq
<1>3. Range(s) = {s[i] : i \in 1..Len(s)}
  BY RangeEquality
<1>4. Range(Tail(s)) = {Tail(s)[i] : i \in 1..Len(Tail(s))}
  BY <1>1, RangeEquality
<1>5. \A i \in 2..Len(s) : s[i] = Tail(s)[i - 1] /\ i - 1 \in 1..Len(Tail(s))
  BY <1>1, <1>2
<1>6. \A i \in 1..Len(Tail(s)) : i + 1 \in 1..Len(s)
  BY <1>1, <1>2
<1>7. Range(s) \subseteq {Head(s)} \cup Range(Tail(s))
  <2> SUFFICES ASSUME NEW i \in 1..Len(s)
               PROVE  s[i] \in {Head(s)} \cup Range(Tail(s))
    BY <1>3
  <2>1. CASE i = 1
    BY <1>1, <2>1
  <2>2. CASE i # 1
    <3>1. i \in 2..Len(s)
      BY <1>2, <2>2
    <3>2. s[i] = Tail(s)[i - 1] /\ i - 1 \in 1..Len(Tail(s))
      BY <1>5, <3>1
    <3>3. Tail(s)[i - 1] \in Range(Tail(s))
      BY <1>4, <3>2
    <3> QED
      BY <3>2, <3>3
  <2> QED
    BY <2>1, <2>2
<1>8. {Head(s)} \cup Range(Tail(s)) \subseteq Range(s)
  BY <1>1, <1>2, <1>3, <1>4, <1>6
<1>9. (Len(s) = 1 <=> Tail(s) = << >>) /\ (Len(s) > 1 <=> Tail(s) # << >>)
  <2>1. Tail(s) # << >> => Len(Tail(s)) \in Nat \ {0}
    BY <1>1, EmptySeq
  <2>2. Len(<< >>) = 0
    BY EmptySeq
  <2> QED
    BY <1>1, <1>2, <2>1, <2>2
<1> QED
  BY <1>1, <1>2, <1>7, <1>8, <1>9

LEMMA Concatenated ==
    ASSUME NEW s \in Seq(Op), NEW r \in Seq(Op)
    PROVE  s \o r \in Seq(Op) /\ Range(s \o r) = Range(s) \cup Range(r)
BY ConcatProperties, RangeConcatenation

\* What save does to an object it may be called on: every file but that of the label
\* medoids gets its content once, that one if there are label medoids.
LEMMA SaveOpsFacts ==
    ASSUME NEW o, Saveable(o)
    PROVE  /\ SaveOps(o) \in Seq(Op)
           /\ SaveOps(o) # << >>
           /\ \A op \in Range(SaveOps(o)) : op.to = Target(o, op.file)
           /\ \A f \in FileKinds : (f = "medoids" => HasMedoids(o)) =>
                 \E op \in Range(SaveOps(o)) : op.file = f
<1> DEFINE to(f) == [file |-> f, to |-> Target(o, f)]
           s1 == <<to("data"), to("tags")>>
           s2 == <<to("labels"), to("universal")>>
           s3 == IF HasMedoids(o) THEN <<to("medoids")>> ELSE << >>
           s4 == <<to("graph")>>
<1>1. \A f \in FileKinds : to(f) \in Op
  BY TargetFacts DEF Op
<1>2. SaveOps(o) = ((s1 \o s2) \o s3) \o s4
  <2>1. s1 = <<Write("data", o.data, Len(o.data)), Write("tags", o.tags, Len(o.data))>>
    BY DEF Write, Target
  <2>2. s2 = IF o.filtered THEN <<Write("labels", o.labels, 0), Write("universal", << >>, 0)>>
             ELSE <<Unlink("labels"), Unlink("universal")>>
    BY DEF Write, Unlink, Target
  <2>3. s3 = IF o.filtered /\ o.medoids # << >>
             THEN <<Write("medoids", o.medoids, 0)>> ELSE << >>
    BY DEF Write, Target, HasMedoids
  <2>4. s4 = <<Write("graph", SubSeq(o.out_nbrs, 1, Len(o.data)), 0)>>
    BY DEF Write, Target
  <2> HIDE DEF s1, s2, s3, s4
  <2> QED
    BY <2>1, <2>2, <2>3, <2>4 DEF SaveOps
<1>3. {"data", "tags", "labels", "universal", "medoids", "graph"} = FileKinds
  BY DEF FileKinds
<1> HIDE DEF to
<1>4. /\ s1 \in Seq(Op) /\ Range(s1) = {to("data"), to("tags")}
      /\ s2 \in Seq(Op) /\ Range(s2) = {to("labels"), to("universal")}
      /\ s3 \in Seq(Op) /\ Range(s3) = IF HasMedoids(o) THEN {to("medoids")} ELSE {}
      /\ s4 \in Seq(Op) /\ Range(s4) = {to("graph")}
      /\ s4 # << >>
  BY <1>1, <1>3 DEF Range
<1> HIDE DEF s1, s2, s3, s4
<1>a. s1 \in Seq(Op) /\ s2 \in Seq(Op) /\ s3 \in Seq(Op) /\ s4 \in Seq(Op)
  BY <1>4
<1>5. s1 \o s2 \in Seq(Op) /\ Range(s1 \o s2) = Range(s1) \cup Range(s2)
  BY <1>a, Concatenated
<1>6. /\ (s1 \o s2) \o s3 \in Seq(Op)
      /\ Range((s1 \o s2) \o s3) = Range(s1 \o s2) \cup Range(s3)
  BY <1>a, <1>5, Concatenated
<1>7. /\ SaveOps(o) \in Seq(Op)
      /\ Range(SaveOps(o)) = Range((s1 \o s2) \o s3) \cup Range(s4)
  BY <1>2, <1>a, <1>6, Concatenated
<1>8. Range(SaveOps(o)) = {to(f) : f \in {"data", "tags", "labels", "universal", "graph"}
                              \cup (IF HasMedoids(o) THEN {"medoids"} ELSE {})}
  BY <1>4, <1>5, <1>6, <1>7
<1>9. SaveOps(o) # << >>
  BY <1>2, <1>4, <1>6, ConcatEqualIffEmpty
<1>10. \A f \in FileKinds : to(f).file = f /\ to(f).to = Target(o, f)
  BY DEF to
<1> QED
  BY <1>3, <1>7, <1>8, <1>9, <1>10

\* What a crash leaves of a file is shorter, unless it is the graph file.
LEMMA TornFacts ==
    ASSUME NEW op \in Op, NEW x \in TornFile(op)
    PROVE  /\ op.to \in File
           /\ x \in File
           /\ x.count = op.to.count
           /\ op.file # "graph" => Len(x.items) < Len(op.to.items)
<1> DEFINE whole == op.to.items
           parts == {SubSeq(whole, 1, n) : n \in 0..(Len(whole) - 1)}
           added == {Append(s, <<None, Len(s) + 1>>) : s \in parts}
<1>1. op.to # Absent
  BY DEF TornFile
<1>2. op.to \in File
  BY <1>1 DEF Op
<1>3. whole \in Seq(Item) /\ Len(whole) \in Nat
  BY <1>2, LenProperties DEF File
<1> HIDE DEF whole
<1>4. ASSUME NEW s \in parts
      PROVE  s \in Seq(Item) /\ Len(s) \in Nat /\ Len(s) < Len(whole)
  <2>1. PICK n \in 0..(Len(whole) - 1) : s = SubSeq(whole, 1, n)
    OBVIOUS
  <2>2. \A i \in 1..n : whole[i] \in Item
    BY <1>3, ElementOfSeq
  <2>3. s \in Seq(Item) /\ Len(s) = IF 1 <= n THEN n - 1 + 1 ELSE 0
    BY <1>3, <2>1, <2>2, SubSeqProperties
  <2> QED
    BY <1>3, <2>3
<1> HIDE DEF parts
<1>5. \A s \in added : s \in Seq(Item)
  <2> SUFFICES ASSUME NEW s \in parts
               PROVE  Append(s, <<None, Len(s) + 1>>) \in Seq(Item)
    OBVIOUS
  <2>1. <<None, Len(s) + 1>> \in Item
    BY <1>4 DEF Item
  <2> QED
    BY <1>4, <2>1, AppendProperties
<1>6. PICK s \in (IF op.file = "graph" THEN parts \cup added ELSE parts) :
          x = [op.to EXCEPT !.items = s]
  BY <1>1 DEF TornFile, whole, parts
<1>7. s \in Seq(Item)
  BY <1>4, <1>5, <1>6
<1>8. x \in File /\ x.count = op.to.count /\ x.items = s
  BY <1>2, <1>6, <1>7 DEF File
<1>9. op.file # "graph" => Len(s) < Len(whole)
  BY <1>4, <1>6
<1> QED
  BY <1>2, <1>8, <1>9 DEF whole

\* What a load that gets as far as the graph leaves in the object.
LEMMA LoadFacts ==
    ASSUME NEW d \in [FileKinds -> File \cup {Absent}], NEW o \in Object,
           LoadOutcome(d, o) \in {"ok", "mismatch"}
    PROVE  LET new == GraphRead(d, o)
           IN  /\ new \in Object
               /\ d["data"] \in File /\ d["tags"] \in File /\ d["graph"] \in File
               /\ new.data = d["data"].items /\ new.tags = d["tags"].items
               /\ Len(new.data) = d["data"].count
               /\ Len(new.tags) = d["tags"].count
               /\ d["data"].count = d["tags"].count
               /\ new.labels = IF d["labels"] = Absent THEN o.labels
                               ELSE o.labels \o d["labels"].items
               /\ new.filtered = (o.filtered \/ d["labels"] # Absent)
               /\ new.medoids = IF d["medoids"] = Absent THEN o.medoids
                                ELSE d["medoids"].items
               /\ new.out_nbrs = o.out_nbrs \o d["graph"].items
               /\ d["labels"] # Absent => Len(new.labels) = Len(new.data)
               /\ LoadOutcome(d, o) = "ok" <=> Len(new.out_nbrs) = d["data"].count
<1> DEFINE new == GraphRead(d, o)
<1>1. /\ Readable(d, "data") /\ Readable(d, "tags")
      /\ d["data"].count = d["tags"].count /\ LabelsCounted(d, o)
      /\ d["graph"] # Absent
      /\ LoadOutcome(d, o) = "ok" <=> Len(new.out_nbrs) = d["data"].count
  BY DEF LoadOutcome
<1>2. \A f \in FileKinds : d[f] # Absent => d[f] \in File
  OBVIOUS
<1>3. d["data"] \in File /\ d["tags"] \in File /\ d["graph"] \in File
  BY <1>1, <1>2 DEF Readable, FileKinds
<1>4. "labels" \in FileKinds /\ "medoids" \in FileKinds
  BY DEF FileKinds
<1>5. d["labels"] # Absent => o.labels \o d["labels"].items \in Seq(Item)
  BY <1>2, <1>4, ConcatProperties DEF File, Object
<1>6. o.out_nbrs \o d["graph"].items \in Seq(Item)
  BY <1>3, ConcatProperties DEF File, Object
<1>7. LabelsRead(d, o) \in Object
  BY <1>2, <1>3, <1>4, <1>5 DEF LabelsRead, Object, File
<1>8. /\ LabelsRead(d, o).data = d["data"].items
      /\ LabelsRead(d, o).tags = d["tags"].items
      /\ LabelsRead(d, o).labels = IF d["labels"] = Absent THEN o.labels
                                   ELSE o.labels \o d["labels"].items
      /\ LabelsRead(d, o).filtered = (o.filtered \/ d["labels"] # Absent)
      /\ LabelsRead(d, o).medoids = IF d["medoids"] = Absent THEN o.medoids
                                    ELSE d["medoids"].items
      /\ LabelsRead(d, o).out_nbrs = o.out_nbrs
  BY DEF LabelsRead, Object
<1>9. /\ new \in Object
      /\ new.data = LabelsRead(d, o).data /\ new.tags = LabelsRead(d, o).tags
      /\ new.labels = LabelsRead(d, o).labels
      /\ new.filtered = LabelsRead(d, o).filtered
      /\ new.medoids = LabelsRead(d, o).medoids
      /\ new.out_nbrs = o.out_nbrs \o d["graph"].items
  BY <1>6, <1>7, <1>8 DEF GraphRead, Object
<1>10. /\ Len(d["data"].items) = d["data"].count /\ Len(d["tags"].items) = d["tags"].count
       /\ d["labels"] # Absent => Len(LabelsRead(d, o).labels) = Len(d["data"].items)
  BY <1>1 DEF Readable, LabelsCounted
<1> HIDE DEF new
<1>11. /\ new.data = d["data"].items /\ new.tags = d["tags"].items
       /\ Len(new.data) = d["data"].count /\ Len(new.tags) = d["tags"].count
       /\ d["labels"] # Absent => Len(new.labels) = Len(new.data)
  BY <1>8, <1>9, <1>10
<1>12. /\ new \in Object
       /\ d["data"] \in File /\ d["tags"] \in File /\ d["graph"] \in File
       /\ new.data = d["data"].items /\ new.tags = d["tags"].items
       /\ Len(new.data) = d["data"].count
       /\ Len(new.tags) = d["tags"].count
       /\ d["data"].count = d["tags"].count
       /\ new.labels = IF d["labels"] = Absent THEN o.labels
                       ELSE o.labels \o d["labels"].items
       /\ new.filtered = (o.filtered \/ d["labels"] # Absent)
       /\ new.medoids = IF d["medoids"] = Absent THEN o.medoids
                        ELSE d["medoids"].items
       /\ new.out_nbrs = o.out_nbrs \o d["graph"].items
       /\ d["labels"] # Absent => Len(new.labels) = Len(new.data)
       /\ LoadOutcome(d, o) = "ok" <=> Len(new.out_nbrs) = d["data"].count
  BY <1>1, <1>3, <1>8, <1>9, <1>11
<1> QED
  BY <1>12 DEF new

----------------------------------------------------------------------------
(* The invariant.                                                          *)

FilesTypeOK ==
    /\ path \in [FileKinds -> File \cup {Absent}]
    /\ obj \in Object \cup {NoObject}
    /\ todo \in Seq(Op)

\* A file of vectors or tags is missing, is that of an index, or is too short for the
\* count it starts with.
WholeOrShort(x) ==
    x # Absent => \E i \in Indexes :
        x.count = Size(i) /\ (x.items = Items(i) \/ Len(x.items) # Size(i))

\* The vectors of an object are those of an index, its tags those of one as large.
VectorsOfIndex(o) ==
    o.data # << >> => \E i, j \in Indexes :
        o.data = Items(i) /\ o.tags = Items(j) /\ Size(i) = Size(j)

\* While object o is saved every file has the content of o or is still to get it.
SavingOf(o) ==
    /\ Saveable(o)
    /\ outcome = None /\ committed = None
    /\ \A op \in Range(todo) : op.to = Target(o, op.file)
    /\ \A f \in FileKinds : (f = "medoids" => HasMedoids(o)) =>
          path[f] = Target(o, f) \/ \E op \in Range(todo) : op.file = f

\* The files are those of index i; label medoids count in a filtered index only.
DiskHolds(i) ==
    \A f \in FileKinds : (f = "medoids" => IsFiltered(i)) => path[f] = Target(Built(i), f)

\* What a load that ends as a good one leaves, of index i.
GoodLoad(o, i) == Holds(o, i) \/ \E j \in Indexes : HoldsWithLabelsOf(o, i, j)

FilesInv ==
    /\ FilesTypeOK
    /\ WholeOrShort(path["data"]) /\ WholeOrShort(path["tags"])
    /\ obj # NoObject => VectorsOfIndex(obj)
    /\ todo # << >> => SavingOf(obj)
    /\ everSaved => path["graph"] # Absent
    /\ obj # NoObject /\ committed # None /\ obj.out_nbrs = << >> => obj \in NewObjects
    /\ committed # None =>
          /\ todo = << >> /\ committed \in Indexes /\ DiskHolds(committed)
          /\ outcome = "ok" => GoodLoad(obj, committed)

\* The vectors and tags of a saved object are whole files.
LEMMA TargetVectors ==
    ASSUME NEW o, Saveable(o), VectorsOfIndex(o), NEW f \in {"data", "tags"}
    PROVE  \E i \in Indexes : Target(o, f).count = Size(i) /\ Target(o, f).items = Items(i)
<1>1. o.data # << >>
  BY EmptySeq DEF Saveable
<1>2. PICK i \in Indexes, j \in Indexes :
          o.data = Items(i) /\ o.tags = Items(j) /\ Size(i) = Size(j)
  BY <1>1 DEF VectorsOfIndex
<1>3. Len(o.data) = Size(i)
  BY <1>2, ItemsFacts
<1>4. CASE f = "data"
  BY <1>2, <1>3, <1>4 DEF Target
<1>5. CASE f = "tags"
  BY <1>2, <1>3, <1>5 DEF Target
<1> QED
  BY <1>4, <1>5

\* Objects that differ in label medoids only, or in labels too.
LEMMA SameButMedoids ==
    ASSUME NEW x \in Object, NEW y \in Object,
           x.data = y.data, x.tags = y.tags, x.out_nbrs = y.out_nbrs
    PROVE  /\ x.labels = y.labels /\ x.filtered = y.filtered =>
                 [x EXCEPT !.medoids = << >>] = [y EXCEPT !.medoids = << >>]
           /\ x.filtered = TRUE =>
                 [x EXCEPT !.medoids = << >>] =
                     [y EXCEPT !.medoids = << >>, !.labels = x.labels, !.filtered = TRUE]
  BY DEF Object

LEMMA UnbuiltFacts ==
    ASSUME NEW i \in Indexes
    PROVE  /\ Unbuilt(i) \in Object /\ Unbuilt(i) # NoObject
           /\ VectorsOfIndex(Unbuilt(i))
           /\ Unbuilt(i).labels = (IF IsFiltered(i) THEN Items(i) ELSE << >>)
           /\ Unbuilt(i).filtered = IsFiltered(i)
           /\ Unbuilt(i).medoids = << >> /\ Unbuilt(i).out_nbrs = << >>
<1>1. Built(i) \in Object
  BY ObjectFacts
<1>2. /\ Built(i).data = Items(i) /\ Built(i).tags = Items(i)
      /\ Built(i).labels = (IF IsFiltered(i) THEN Items(i) ELSE << >>)
      /\ Built(i).filtered = IsFiltered(i)
  BY DEF Built
<1>3. << >> \in Seq(Item)
  BY EmptySeq
<1>4. /\ Unbuilt(i) \in Object
      /\ Unbuilt(i).data = Built(i).data /\ Unbuilt(i).tags = Built(i).tags
      /\ Unbuilt(i).labels = Built(i).labels /\ Unbuilt(i).filtered = Built(i).filtered
      /\ Unbuilt(i).medoids = << >> /\ Unbuilt(i).out_nbrs = << >>
  BY <1>1, <1>3 DEF Unbuilt, Object
<1>5. VectorsOfIndex(Unbuilt(i))
  BY <1>2, <1>4 DEF VectorsOfIndex
<1> QED
  BY <1>2, <1>4, <1>5, NoObjectIsNone

LEMMA BuiltFacts ==
    ASSUME NEW i \in Indexes
    PROVE  /\ Built(i) # NoObject
           /\ VectorsOfIndex(Built(i))
           /\ Built(i).out_nbrs # << >>
           /\ Holds(Built(i), i)
<1>1. Built(i) \in Object
  BY ObjectFacts
<1>2. Built(i) # NoObject
  BY <1>1, NoObjectIsNone
<1>3. Built(i).data = Items(i) /\ Built(i).tags = Items(i) /\ Built(i).out_nbrs = Items(i)
  BY DEF Built
<1>4. IsFiltered(i) => Built(i).medoids = Medoids(i)
  BY DEF Built
<1> QED
  BY <1>2, <1>3, <1>4, ItemsFacts DEF VectorsOfIndex, Holds

\* Saving an object that holds an index writes the files of that index.
LEMMA TargetOfHeld ==
    ASSUME NEW o \in Object, NEW i \in Indexes, Holds(o, i)
    PROVE  /\ \A f \in FileKinds : (f = "medoids" => IsFiltered(i)) =>
                 Target(o, f) = Target(Built(i), f)
           /\ HasMedoids(o) <=> IsFiltered(i) /\ o.filtered
           /\ o.filtered = IsFiltered(i)
<1>1. [o EXCEPT !.medoids = << >>] = [Built(i) EXCEPT !.medoids = << >>]
  BY DEF Holds
<1>2. /\ o.data = Built(i).data /\ o.tags = Built(i).tags /\ o.labels = Built(i).labels
      /\ o.filtered = Built(i).filtered /\ o.out_nbrs = Built(i).out_nbrs
  <2> DEFINE a == [o EXCEPT !.medoids = << >>]
             b == [Built(i) EXCEPT !.medoids = << >>]
  <2>1. /\ a.data = o.data /\ a.tags = o.tags /\ a.labels = o.labels
        /\ a.filtered = o.filtered /\ a.out_nbrs = o.out_nbrs
    BY DEF Object
  <2>2. /\ b.data = Built(i).data /\ b.tags = Built(i).tags /\ b.labels = Built(i).labels
        /\ b.filtered = Built(i).filtered /\ b.out_nbrs = Built(i).out_nbrs
    BY ObjectFacts DEF Object
  <2>3. a = b
    BY <1>1
  <2> HIDE DEF a, b
  <2> QED
    BY <2>1, <2>2, <2>3
<1>3. Built(i).filtered = IsFiltered(i)
  BY DEF Built
<1>4. IsFiltered(i) => o.medoids = Built(i).medoids /\ o.medoids # << >>
  BY ItemsFacts DEF Holds, Built
<1>5. IsFiltered(i) \in BOOLEAN
  BY ItemsFacts
<1>6. ASSUME NEW f \in FileKinds, f = "medoids" => IsFiltered(i)
      PROVE  Target(o, f) = Target(Built(i), f)
  BY <1>2, <1>4, <1>6 DEF Target, FileKinds
<1>7. HasMedoids(o) <=> IsFiltered(i) /\ o.filtered
  BY <1>2, <1>3, <1>4, <1>5 DEF HasMedoids
<1> QED
  BY <1>2, <1>3, <1>6, <1>7

LEMMA FilesInit ==
    ASSUME PathInit
    PROVE  FilesInv
<1>1. FilesTypeOK
  BY EmptySeq DEF PathInit, FilesTypeOK
<1>2. path["data"] = Absent /\ path["tags"] = Absent
  BY DEF PathInit, FileKinds
<1> QED
  BY <1>1, <1>2 DEF PathInit, FilesInv, WholeOrShort

LEMMA FilesCreate ==
    ASSUME FilesInv, Create
    PROVE  FilesInv'
<1>1. /\ todo = << >> /\ todo' = << >> /\ path' = path /\ everSaved' = everSaved
      /\ committed' = committed /\ outcome' = None
  BY DEF Create
<1>2. \/ obj' = Empty
      \/ \E i \in Indexes : obj' = Unbuilt(i)
      \/ \E i \in Indexes : obj' = Built(i)
  BY DEF Create, NewObjects
<1>3. obj' \in Object
  BY <1>2, ObjectFacts, UnbuiltFacts
<1>4. VectorsOfIndex(obj')
  <2>1. VectorsOfIndex(Empty)
    BY DEF VectorsOfIndex, Empty
  <2> QED
    BY <1>2, <2>1, BuiltFacts, UnbuiltFacts
<1>5. obj'.out_nbrs = << >> => obj' \in NewObjects
  BY <1>2, BuiltFacts DEF NewObjects
<1>6. None # "ok"
  BY DEF None
<1>7. committed' # None => DiskHolds(committed)'
  BY <1>1 DEF FilesInv, DiskHolds
<1> QED
  BY <1>1, <1>3, <1>4, <1>5, <1>6, <1>7 DEF FilesInv, FilesTypeOK

LEMMA FilesSave ==
    ASSUME FilesInv, Save
    PROVE  FilesInv'
<1>1. /\ todo' = SaveOps(obj) /\ path' = path /\ obj' = obj /\ everSaved' = everSaved
      /\ committed' = None /\ outcome' = None
  BY DEF Save
<1>2. Saveable(obj)
  BY DEF Save, FilesInv, FilesTypeOK, Saveable
<1>3. SavingOf(obj)'
  BY <1>1, <1>2, SaveOpsFacts DEF SavingOf
<1>4. obj'.out_nbrs # << >>
  BY <1>1, <1>2, EmptySeq DEF Saveable, Object
<1>5. FilesTypeOK'
  BY <1>1, <1>2, SaveOpsFacts DEF FilesInv, FilesTypeOK
<1> QED
  BY <1>1, <1>3, <1>4, <1>5 DEF FilesInv

LEMMA FilesSaveFile ==
    ASSUME FilesInv, SaveFile
    PROVE  FilesInv'
<1> DEFINE op == Head(todo)
<1>1. /\ todo # << >> /\ todo \in Seq(Op) /\ path \in [FileKinds -> File \cup {Absent}]
      /\ path' = [path EXCEPT ![op.file] = op.to] /\ todo' = Tail(todo)
      /\ obj' = obj /\ outcome' = outcome
  BY DEF SaveFile, FilesInv, FilesTypeOK
<1>2. SavingOf(obj)
  BY <1>1 DEF FilesInv
<1>3. obj \in Object /\ Saveable(obj) /\ VectorsOfIndex(obj) /\ obj # NoObject
  BY <1>2, NoObjectIsNone DEF SavingOf, Saveable, FilesInv
<1>4. /\ op \in Op /\ todo' \in Seq(Op)
      /\ Range(todo) = {op} \cup Range(todo')
      /\ Len(todo) > 1 <=> todo' # << >>
  BY <1>1, HeadAndTail
<1> HIDE DEF op
<1>5. op.file \in FileKinds /\ op.to \in File \cup {Absent} /\ op.to = Target(obj, op.file)
  BY <1>2, <1>4 DEF Op, SavingOf
<1>6. \A f \in FileKinds : path'[f] = IF f = op.file THEN Target(obj, f) ELSE path[f]
  BY <1>1, <1>5
<1>7. FilesTypeOK'
  BY <1>1, <1>3, <1>4, <1>5 DEF FilesTypeOK
<1>8. WholeOrShort(path["data"])' /\ WholeOrShort(path["tags"])'
  <2>1. \A f \in {"data", "tags"} : WholeOrShort(Target(obj, f))
    BY <1>3, TargetVectors DEF WholeOrShort
  <2>2. "data" \in FileKinds /\ "tags" \in FileKinds
    BY DEF FileKinds
  <2>3. WholeOrShort(path["data"]) /\ WholeOrShort(path["tags"])
    BY DEF FilesInv
  <2>4. WholeOrShort(path'["data"])
    BY <1>6, <2>1, <2>2, <2>3
  <2>5. WholeOrShort(path'["tags"])
    BY <1>6, <2>1, <2>2, <2>3
  <2> QED
    BY <2>4, <2>5 DEF WholeOrShort
<1>9. \A f \in FileKinds : (f = "medoids" => HasMedoids(obj)) =>
          path'[f] = Target(obj, f) \/ \E o \in Range(todo') : o.file = f
  BY <1>2, <1>4, <1>6 DEF SavingOf
<1>10. Range(<< >>) = {}
  BY DEF Range
<1>11. path'["graph"] # Absent \/ (todo' # << >> /\ path'["graph"] = path["graph"])
  <2>1. Target(obj, "graph") \in File
    BY <1>3, TargetFacts DEF FileKinds
  <2>2. "graph" \in FileKinds
    BY DEF FileKinds
  <2> QED
    BY <1>6, <1>9, <1>10, <2>1, <2>2, AbsentIsNoFile
<1>12. outcome' = None /\ outcome' # "ok" /\ obj'.out_nbrs # << >>
  BY <1>1, <1>2, <1>3, EmptySeq DEF SavingOf, None, Saveable, Object
<1>13. CASE todo' # << >>
  <2>1. committed' = committed /\ everSaved' = everSaved /\ committed = None
    BY <1>2, <1>4, <1>13 DEF SaveFile, SavingOf
  <2>2. SavingOf(obj)'
    BY <1>1, <1>2, <1>4, <1>9, <2>1 DEF SavingOf
  <2>3. everSaved' => path'["graph"] # Absent
    BY <1>11, <2>1 DEF FilesInv
  <2> QED
    BY <1>1, <1>3, <1>7, <1>8, <1>12, <2>1, <2>2, <2>3 DEF FilesInv
<1>14. CASE todo' = << >>
  <2>1. \A f \in FileKinds : (f = "medoids" => HasMedoids(obj)) => path'[f] = Target(obj, f)
    BY <1>9, <1>10, <1>14
  <2>2. committed' # None => committed' \in Indexes /\ Holds(obj, committed')
    BY <1>2, <1>4, <1>14 DEF SaveFile, SavingOf
  <2>3. ASSUME committed' # None
        PROVE  DiskHolds(committed)'
    <3>1. /\ committed' \in Indexes
          /\ HasMedoids(obj) <=> IsFiltered(committed') /\ obj.filtered
          /\ obj.filtered = IsFiltered(committed')
          /\ \A f \in FileKinds : (f = "medoids" => IsFiltered(committed')) =>
                Target(obj, f) = Target(Built(committed'), f)
      BY <1>3, <2>2, <2>3, TargetOfHeld
    <3> QED
      BY <2>1, <3>1 DEF DiskHolds
  <2> QED
    BY <1>1, <1>3, <1>7, <1>8, <1>11, <1>12, <1>14, <2>2, <2>3 DEF FilesInv
<1> QED
  BY <1>13, <1>14

LEMMA FilesCrash ==
    ASSUME FilesInv, CrashInSave
    PROVE  FilesInv'
<1>1. /\ obj' = NoObject /\ todo' = << >> /\ outcome' = None
      /\ committed' = committed /\ everSaved' = everSaved
  BY DEF CrashInSave
<1>2. None # "ok" /\ << >> \in Seq(Op)
  BY EmptySeq DEF None
<1>3. CASE path' = path
  <2>1. committed' # None => DiskHolds(committed)'
    BY <1>1, <1>3 DEF FilesInv, DiskHolds
  <2> QED
    BY <1>1, <1>2, <1>3, <2>1 DEF FilesInv, FilesTypeOK
<1>4. CASE path' # path
  <2> DEFINE op == Head(todo)
  <2>1. PICK x \in TornFile(op) : todo # << >> /\ path' = [path EXCEPT ![op.file] = x]
    BY <1>4 DEF CrashInSave
  <2>2. /\ todo \in Seq(Op) /\ path \in [FileKinds -> File \cup {Absent}]
        /\ SavingOf(obj) /\ VectorsOfIndex(obj)
    BY <2>1, NoObjectIsNone DEF FilesInv, FilesTypeOK, SavingOf, Saveable
  <2>3. op \in Op /\ op \in Range(todo)
    BY <2>1, <2>2, HeadAndTail
  <2> HIDE DEF op
  <2>4. op.file \in FileKinds /\ op.to = Target(obj, op.file) /\ Saveable(obj) /\ committed = None
    BY <2>2, <2>3 DEF Op, SavingOf
  <2>5. /\ op.to \in File /\ x \in File /\ x.count = op.to.count
        /\ op.file # "graph" => Len(x.items) < Len(op.to.items)
    BY <2>1, <2>3, TornFacts
  <2>6. op.file \in {"data", "tags"} => WholeOrShort(x)
    <3> SUFFICES ASSUME op.file \in {"data", "tags"}
                 PROVE  WholeOrShort(x)
      OBVIOUS
    <3>1. PICK i \in Indexes : op.to.count = Size(i) /\ op.to.items = Items(i)
      BY <2>2, <2>4, TargetVectors
    <3>2. Len(x.items) < Size(i) /\ Size(i) \in Nat
      BY <2>5, <3>1, ItemsFacts
    <3>3. Len(x.items) \in Nat
      BY <2>5, LenProperties DEF File
    <3> QED
      BY <2>5, <3>1, <3>2, <3>3 DEF WholeOrShort
  <2>7. \A f \in FileKinds : path'[f] = IF f = op.file THEN x ELSE path[f]
    BY <2>1, <2>2
  <2>8. WholeOrShort(path["data"])' /\ WholeOrShort(path["tags"])'
    <3>1. "data" \in FileKinds /\ "tags" \in FileKinds
      BY DEF FileKinds
    <3>2. WholeOrShort(path["data"]) /\ WholeOrShort(path["tags"])
      BY DEF FilesInv
    <3>3. WholeOrShort(path'["data"])
      BY <2>6, <2>7, <3>1, <3>2
    <3>4. WholeOrShort(path'["tags"])
      BY <2>6, <2>7, <3>1, <3>2
    <3> QED
      BY <3>3, <3>4 DEF WholeOrShort
  <2>9. everSaved' => path'["graph"] # Absent
    <3>1. "graph" \in FileKinds
      BY DEF FileKinds
    <3> QED
      BY <1>1, <2>5, <2>7, <3>1, AbsentIsNoFile DEF FilesInv
  <2>10. FilesTypeOK'
    BY <1>1, <1>2, <2>1, <2>2, <2>5 DEF FilesTypeOK
  <2> QED
    BY <1>1, <2>4, <2>8, <2>9, <2>10 DEF FilesInv
<1> QED
  BY <1>3, <1>4

----------------------------------------------------------------------------
(* What a load finds.                                                      *)

\* The vectors and tags a load has accepted are whole.
LEMMA LoadedVectors ==
    ASSUME FilesInv, NEW o \in Object, LoadOutcome(path, o) \in {"ok", "mismatch"}
    PROVE  \E i, j \in Indexes :
               /\ GraphRead(path, o).data = Items(i) /\ GraphRead(path, o).tags = Items(j)
               /\ Size(i) = Size(j)
<1>1. path \in [FileKinds -> File \cup {Absent}]
  BY DEF FilesInv, FilesTypeOK
<1>2. /\ path["data"] \in File /\ path["tags"] \in File
      /\ GraphRead(path, o).data = path["data"].items
      /\ GraphRead(path, o).tags = path["tags"].items
      /\ Len(GraphRead(path, o).data) = path["data"].count
      /\ Len(GraphRead(path, o).tags) = path["tags"].count
      /\ path["data"].count = path["tags"].count
  BY <1>1, LoadFacts
<1>3. \A f \in {"data", "tags"} : path[f] # Absent /\ WholeOrShort(path[f])
  BY <1>2, AbsentIsNoFile DEF FilesInv
<1>4. PICK i \in Indexes : path["data"].count = Size(i)
                           /\ (path["data"].items = Items(i) \/ Len(path["data"].items) # Size(i))
  BY <1>3 DEF WholeOrShort
<1>5. PICK j \in Indexes : path["tags"].count = Size(j)
                           /\ (path["tags"].items = Items(j) \/ Len(path["tags"].items) # Size(j))
  BY <1>3 DEF WholeOrShort
<1> QED
  BY <1>2, <1>4, <1>5

\* The files of index i.
LEMMA DiskContent ==
    ASSUME NEW i \in Indexes, DiskHolds(i)
    PROVE  /\ path["data"] = [count |-> Size(i), items |-> Items(i)]
           /\ path["tags"] = [count |-> Size(i), items |-> Items(i)]
           /\ path["labels"] = (IF IsFiltered(i) THEN [count |-> 0, items |-> Items(i)]
                                ELSE Absent)
           /\ IsFiltered(i) => path["medoids"] = [count |-> 0, items |-> Medoids(i)]
           /\ path["graph"] = [count |-> 0, items |-> Items(i)]
<1>1. /\ Items(i) \in Seq(Item) /\ Len(Items(i)) = Size(i) /\ Size(i) \in Nat \ {0}
      /\ IsFiltered(i) \in BOOLEAN
  BY ItemsFacts
<1>2. /\ Built(i).data = Items(i) /\ Built(i).tags = Items(i)
      /\ Built(i).labels = (IF IsFiltered(i) THEN Items(i) ELSE << >>)
      /\ Built(i).filtered = IsFiltered(i)
      /\ Built(i).medoids = (IF IsFiltered(i) THEN Medoids(i) ELSE << >>)
      /\ Built(i).out_nbrs = Items(i)
  BY DEF Built
<1>3. SubSeq(Items(i), 1, Size(i)) = Items(i)
  BY <1>1, SubSeqFull
<1> QED
  BY <1>1, <1>2, <1>3 DEF DiskHolds, FileKinds, Target

\* The files of index i make a new object hold it.
LEMMA LoadedIndex ==
    ASSUME path \in [FileKinds -> File \cup {Absent}], NEW i \in Indexes, DiskHolds(i)
    PROVE  /\ NewOutcome = "ok" /\ Holds(NewObject, i)
           /\ path["graph"] \in File /\ path["graph"].items = Items(i)
           /\ path["data"].count = Size(i)
<1>1. /\ Items(i) \in Seq(Item) /\ Len(Items(i)) = Size(i) /\ Size(i) \in Nat \ {0}
      /\ IsFiltered(i) \in BOOLEAN
  BY ItemsFacts
<1>2. Built(i) \in Object /\ Empty \in Object
  BY ObjectFacts
<1>3. /\ Built(i).data = Items(i) /\ Built(i).tags = Items(i)
      /\ Built(i).labels = (IF IsFiltered(i) THEN Items(i) ELSE << >>)
      /\ Built(i).filtered = IsFiltered(i)
      /\ Built(i).medoids = (IF IsFiltered(i) THEN Medoids(i) ELSE << >>)
      /\ Built(i).out_nbrs = Items(i)
  BY DEF Built
<1>6. /\ path["data"] = [count |-> Size(i), items |-> Items(i)]
      /\ path["tags"] = [count |-> Size(i), items |-> Items(i)]
      /\ path["labels"] = (IF IsFiltered(i) THEN [count |-> 0, items |-> Items(i)] ELSE Absent)
      /\ IsFiltered(i) => path["medoids"] = [count |-> 0, items |-> Medoids(i)]
      /\ path["graph"] = [count |-> 0, items |-> Items(i)]
  BY DiskContent
<1>7. /\ path["data"] # Absent /\ path["tags"] # Absent /\ path["graph"] # Absent
      /\ path["data"] \in File /\ path["tags"] \in File /\ path["graph"] \in File
      /\ IsFiltered(i) => path["labels"] # Absent /\ path["medoids"] # Absent
  BY <1>1, <1>6, ItemsFacts, AbsentIsNoFile DEF File
<1>8. << >> \o Items(i) = Items(i)
  BY <1>1, ConcatEmptySeq
<1>9. /\ LabelsRead(path, Empty).data = Items(i)
      /\ LabelsRead(path, Empty).tags = Items(i)
      /\ LabelsRead(path, Empty).labels = (IF IsFiltered(i) THEN Items(i) ELSE << >>)
      /\ LabelsRead(path, Empty).filtered = IsFiltered(i)
      /\ IsFiltered(i) => LabelsRead(path, Empty).medoids = Medoids(i)
      /\ LabelsRead(path, Empty).out_nbrs = << >>
  BY <1>1, <1>6, <1>7, <1>8 DEF LabelsRead, Empty
<1>10. Readable(path, "data") /\ Readable(path, "tags")
  BY <1>1, <1>6, <1>7 DEF Readable
<1>11. LabelsCounted(path, Empty)
  BY <1>1, <1>6, <1>9 DEF LabelsCounted
<1>12. NewObject = [LabelsRead(path, Empty) EXCEPT !.out_nbrs = Items(i)]
  BY <1>6, <1>8, <1>9 DEF NewObject, GraphRead
<1>13. NewObject.out_nbrs = Items(i)
  BY <1>12 DEF LabelsRead, Empty
<1>14. NewOutcome = "ok"
  BY <1>1, <1>6, <1>7, <1>10, <1>11, <1>13 DEF NewOutcome, NewObject, LoadOutcome
<1>15. /\ NewObject \in Object
       /\ NewObject.data = Items(i) /\ NewObject.tags = Items(i)
       /\ NewObject.labels = Built(i).labels /\ NewObject.filtered = IsFiltered(i)
       /\ IsFiltered(i) => NewObject.medoids = Medoids(i)
  <2>1. NewObject \in Object
    BY <1>2, <1>14, LoadFacts DEF NewObject, NewOutcome
  <2> QED
    BY <1>3, <1>9, <1>12, <2>1 DEF LabelsRead, Empty
<1>16. [NewObject EXCEPT !.medoids = << >>] = [Built(i) EXCEPT !.medoids = << >>]
  BY <1>2, <1>3, <1>13, <1>15 DEF Object
<1>17. Holds(NewObject, i)
  BY <1>15, <1>16, NoObjectIsNone DEF Holds
<1> QED
  BY <1>6, <1>7, <1>14, <1>17

\* An object that has labels of its own gets those of no file, or the load fails.
LEMMA LoadedUnbuilt ==
    ASSUME path \in [FileKinds -> File \cup {Absent}], NEW i \in Indexes, DiskHolds(i),
           NEW j \in Indexes, LoadOutcome(path, Unbuilt(j)) = "ok"
    PROVE  GoodLoad(GraphRead(path, Unbuilt(j)), i)
<1> DEFINE o == Unbuilt(j)
           new == GraphRead(path, o)
<1>1. /\ o \in Object
      /\ o.labels = (IF IsFiltered(j) THEN Items(j) ELSE << >>)
      /\ o.filtered = IsFiltered(j) /\ o.medoids = << >> /\ o.out_nbrs = << >>
  BY UnbuiltFacts
<1>2. /\ Items(i) \in Seq(Item) /\ Len(Items(i)) = Size(i) /\ Size(i) \in Nat \ {0}
      /\ Items(j) \in Seq(Item) /\ Len(Items(j)) = Size(j) /\ Size(j) \in Nat \ {0}
      /\ IsFiltered(i) \in BOOLEAN /\ IsFiltered(j) \in BOOLEAN
  BY ItemsFacts
<1>3. /\ path["labels"] = (IF IsFiltered(i) THEN [count |-> 0, items |-> Items(i)] ELSE Absent)
      /\ IsFiltered(i) => path["medoids"] = [count |-> 0, items |-> Medoids(i)]
      /\ path["data"].items = Items(i) /\ path["tags"].items = Items(i)
      /\ path["graph"].items = Items(i)
  <2>1. /\ path["data"] = [count |-> Size(i), items |-> Items(i)]
        /\ path["tags"] = [count |-> Size(i), items |-> Items(i)]
        /\ path["graph"] = [count |-> 0, items |-> Items(i)]
    BY DiskContent
  <2>2. /\ path["labels"] = (IF IsFiltered(i) THEN [count |-> 0, items |-> Items(i)]
                             ELSE Absent)
        /\ IsFiltered(i) => path["medoids"] = [count |-> 0, items |-> Medoids(i)]
    BY DiskContent
  <2> QED
    BY <2>1, <2>2
<1>4. /\ Items(i) \in Seq(Item) /\ [count |-> 0, items |-> Items(i)] # Absent
      /\ [count |-> 0, items |-> Medoids(i)] # Absent
  BY <1>2, ItemsFacts, AbsentIsNoFile DEF File
<1>5. << >> \o Items(i) = Items(i)
  BY <1>2, ConcatEmptySeq
<1> HIDE DEF o
<1>6. /\ new \in Object
      /\ new.data = path["data"].items /\ new.tags = path["tags"].items
      /\ new.labels = IF path["labels"] = Absent THEN o.labels
                      ELSE o.labels \o path["labels"].items
      /\ new.filtered = (o.filtered \/ path["labels"] # Absent)
      /\ new.medoids = IF path["medoids"] = Absent THEN o.medoids
                       ELSE path["medoids"].items
      /\ new.out_nbrs = o.out_nbrs \o path["graph"].items
      /\ path["labels"] # Absent => Len(new.labels) = Len(new.data)
  BY <1>1, LoadFacts DEF o
<1> HIDE DEF new
<1>7. new.data = Items(i) /\ new.tags = Items(i) /\ new.out_nbrs = Items(i)
  BY <1>1, <1>3, <1>5, <1>6
<1>8. /\ Built(i) \in Object
      /\ new.data = Built(i).data /\ new.tags = Built(i).tags
      /\ new.out_nbrs = Built(i).out_nbrs
      /\ Built(i).labels = (IF IsFiltered(i) THEN Items(i) ELSE << >>)
      /\ Built(i).filtered = IsFiltered(i)
  BY <1>7, ObjectFacts DEF Built
<1>9. new # NoObject
  BY <1>6, NoObjectIsNone
<1>10. CASE IsFiltered(i)
  <2>1. path["labels"] # Absent /\ path["labels"].items = Items(i)
    BY <1>3, <1>4, <1>10
  <2>2. ~ IsFiltered(j)
    <3> SUFFICES ASSUME IsFiltered(j)
                 PROVE  FALSE
      BY <1>2
    <3>1. new.labels = Items(j) \o Items(i) /\ Len(new.labels) = Size(i)
      BY <1>1, <1>2, <1>6, <1>7, <2>1
    <3>2. Len(Items(j) \o Items(i)) = Size(j) + Size(i)
      BY <1>2, ConcatProperties
    <3> QED
      BY <1>2, <3>1, <3>2
  <2>3. new.labels = Items(i) /\ new.filtered = TRUE
    BY <1>1, <1>2, <1>5, <1>6, <2>1, <2>2
  <2>4. new.medoids = Medoids(i)
    BY <1>3, <1>4, <1>6, <1>10
  <2>5. [new EXCEPT !.medoids = << >>] = [Built(i) EXCEPT !.medoids = << >>]
    <3>1. new.labels = Built(i).labels /\ new.filtered = Built(i).filtered
      BY <1>2, <1>8, <1>10, <2>3
    <3> QED
      BY <1>6, <1>8, <3>1, SameButMedoids
  <2> QED
    BY <1>9, <2>4, <2>5 DEF Holds, GoodLoad, o, new
<1>11. CASE ~ IsFiltered(i)
  <2>1. path["labels"] = Absent
    BY <1>3, <1>11
  <2>2. new.labels = o.labels /\ new.filtered = IsFiltered(j)
    BY <1>1, <1>2, <1>6, <2>1
  <2>3. CASE IsFiltered(j)
    <3>1. new.labels = Items(j) /\ new.filtered = TRUE
      BY <1>1, <1>2, <2>2, <2>3
    <3>2. [new EXCEPT !.medoids = << >>] =
              [Built(i) EXCEPT !.medoids = << >>, !.labels = Items(j), !.filtered = TRUE]
      <4>1. [new EXCEPT !.medoids = << >>] =
                [Built(i) EXCEPT !.medoids = << >>, !.labels = new.labels, !.filtered = TRUE]
        BY <1>6, <1>8, <3>1, SameButMedoids
      <4>2. new.labels = Items(j)
        BY <3>1
      <4> QED
        BY ONLY <4>1, <4>2
    <3> QED
      BY <1>9, <1>11, <2>3, <3>2 DEF HoldsWithLabelsOf, GoodLoad, o, new
  <2>4. CASE ~ IsFiltered(j)
    <3>1. new.labels = << >> /\ new.filtered = FALSE
      BY <1>1, <1>2, <2>2, <2>4
    <3>2. Built(i).labels = << >> /\ Built(i).filtered = FALSE
      BY <1>2, <1>8, <1>11
    <3>3. [new EXCEPT !.medoids = << >>] = [Built(i) EXCEPT !.medoids = << >>]
      BY <1>6, <1>8, <3>1, <3>2, SameButMedoids
    <3> QED
      BY <1>9, <1>11, <3>3 DEF Holds, GoodLoad, o, new
  <2> QED
    BY <2>3, <2>4
<1> QED
  BY <1>2, <1>10, <1>11 DEF o

LEMMA FilesLoad ==
    ASSUME FilesInv, Load
    PROVE  FilesInv'
<1>1. /\ todo = << >> /\ todo' = << >> /\ path' = path /\ everSaved' = everSaved
      /\ committed' = committed /\ obj # NoObject
      /\ outcome' = LoadOutcome(path, obj)
      /\ obj' = IF outcome' \in {"ok", "mismatch"} THEN GraphRead(path, obj) ELSE NoObject
  BY DEF Load
<1>2. obj \in Object /\ path \in [FileKinds -> File \cup {Absent}]
  BY <1>1 DEF FilesInv, FilesTypeOK
<1>3. ASSUME obj' # NoObject
      PROVE  /\ obj' \in Object /\ VectorsOfIndex(obj')
             /\ committed # None => obj'.out_nbrs # << >>
  <2>1. outcome' \in {"ok", "mismatch"} /\ obj' = GraphRead(path, obj)
    BY <1>1, <1>3
  <2>2. obj' \in Object
    BY <1>1, <1>2, <2>1, LoadFacts
  <2>3. VectorsOfIndex(obj')
    BY <1>1, <1>2, <2>1, LoadedVectors DEF VectorsOfIndex
  <2>4. ASSUME committed # None
        PROVE  obj'.out_nbrs # << >>
    <3>1. committed \in Indexes /\ DiskHolds(committed)
      BY <2>4 DEF FilesInv
    <3>2. path["graph"].items = Items(committed)
      BY <1>2, <3>1, LoadedIndex
    <3>3. obj'.out_nbrs = obj.out_nbrs \o Items(committed)
      BY <1>1, <1>2, <2>1, <3>2, LoadFacts
    <3>4. /\ obj.out_nbrs \in Seq(Item) /\ Items(committed) \in Seq(Item)
          /\ Len(Items(committed)) \in Nat \ {0}
      BY <1>2, <3>1, ItemsFacts DEF Object
    <3>5. /\ Len(obj.out_nbrs) \in Nat
          /\ Len(obj'.out_nbrs) = Len(obj.out_nbrs) + Len(Items(committed))
      BY <3>3, <3>4, LenProperties, ConcatProperties
    <3>6. Len(obj'.out_nbrs) # 0
      BY <3>4, <3>5
    <3> QED
      BY <3>6, EmptySeq
  <2> QED
    BY <2>2, <2>3, <2>4
<1>4. committed' # None => committed' \in Indexes /\ DiskHolds(committed)'
  BY <1>1 DEF FilesInv, DiskHolds
<1>5. ASSUME committed' # None, outcome' = "ok"
      PROVE  GoodLoad(obj', committed')
  <2>1. committed \in Indexes /\ DiskHolds(committed) /\ committed' = committed
    BY <1>1, <1>5 DEF FilesInv
  <2>2. /\ Holds(NewObject, committed) /\ path["graph"].items = Items(committed)
        /\ path["graph"] \in File /\ path["data"].count = Size(committed)
    BY <1>2, <2>1, LoadedIndex
  <2>3. obj' = GraphRead(path, obj) /\ LoadOutcome(path, obj) = "ok"
    BY <1>1, <1>5
  <2>4. /\ obj'.out_nbrs = obj.out_nbrs \o Items(committed)
        /\ Len(obj'.out_nbrs) = Size(committed)
    BY <1>2, <2>2, <2>3, LoadFacts
  <2>5. /\ obj.out_nbrs \in Seq(Item) /\ Items(committed) \in Seq(Item)
        /\ Len(Items(committed)) = Size(committed) /\ Size(committed) \in Nat
    BY <1>2, <2>1, ItemsFacts DEF Object
  <2>6. Len(obj.out_nbrs) = 0
    <3>1. Len(obj.out_nbrs) \in Nat
          /\ Len(obj.out_nbrs \o Items(committed)) = Len(obj.out_nbrs) + Len(Items(committed))
      BY <2>5, LenProperties, ConcatProperties
    <3> QED
      BY <2>4, <2>5, <3>1
  <2>7. obj \in NewObjects
    BY <1>1, <1>5, <2>1, <2>5, <2>6, EmptySeq DEF FilesInv
  <2>8. CASE obj = Empty
    BY <2>1, <2>2, <2>3, <2>8 DEF NewObject, GoodLoad
  <2>9. CASE obj # Empty
    <3>1. PICK j \in Indexes : obj = Unbuilt(j)
      BY <2>7, <2>9 DEF NewObjects
    <3> QED
      BY <1>2, <2>1, <2>3, <3>1, LoadedUnbuilt
  <2> QED
    BY <2>8, <2>9
<1> QED
  BY <1>1, <1>2, <1>3, <1>4, <1>5 DEF FilesInv, FilesTypeOK

\* The invariant holds of every state of the specification.
LEMMA FilesInvariant == PathSpec => []FilesInv
<1>1. PathInit => FilesInv
  BY FilesInit
<1>2. ASSUME FilesInv, [PathNext]_fvars
      PROVE  FilesInv'
  <2>1. CASE UNCHANGED fvars
    <3>1. /\ path' = path /\ obj' = obj /\ todo' = todo /\ outcome' = outcome
          /\ committed' = committed /\ everSaved' = everSaved
      BY <2>1 DEF fvars
    <3>2. todo' # << >> => SavingOf(obj)'
      BY <1>2, <3>1 DEF FilesInv, SavingOf
    <3>3. committed' # None => DiskHolds(committed)'
      BY <1>2, <3>1 DEF FilesInv, DiskHolds
    <3>4. FilesTypeOK'
      BY <1>2, <3>1 DEF FilesInv, FilesTypeOK
    <3> QED
      BY <1>2, <3>1, <3>2, <3>3, <3>4 DEF FilesInv
  <2>2. CASE PathNext
    BY <1>2, <2>2, FilesCreate, FilesSave, FilesSaveFile, FilesCrash, FilesLoad DEF PathNext
  <2> QED
    BY <1>2, <2>1, <2>2
<1> QED
  BY <1>1, <1>2, PTL DEF PathSpec

----------------------------------------------------------------------------
(* The theorems.                                                           *)

\* load never accepts vectors or tags of which a part is missing, whatever saves of
\* whatever objects were cut short: load_aligned_bin and load_bin compare sizes.
THEOREM VectorsWhole == PathSpec => []VectorsNeverTorn
<1>1. FilesInv => VectorsNeverTorn
  <2> SUFFICES ASSUME FilesInv, NewOutcome = "ok"
               PROVE  \E i, j \in Indexes :
                          NewObject.data = Items(i) /\ NewObject.tags = Items(j)
    BY DEF VectorsNeverTorn
  <2> QED
    BY ObjectFacts, LoadedVectors DEF NewOutcome, NewObject
<1> QED
  BY <1>1, FilesInvariant, PTL

\* No save removes the graph file, so the loop of Vamana::load that never ends without
\* one is left behind by the first save that completes.
THEOREM HangsOnlyAtFirst == PathSpec => []HangsOnlyBeforeFirstSave
<1>1. FilesInv => HangsOnlyBeforeFirstSave
  BY DEF FilesInv, HangsOnlyBeforeFirstSave, NewOutcome, LoadOutcome
<1> QED
  BY <1>1, FilesInvariant, PTL

\* What a completed Vamana::save wrote, over whatever was at the path, is what
\* Vamana::load gives an empty object; any other object it calls good holds the same,
\* or the same filtered by the labels it was constructed with.
THEOREM SavedIsLoaded == PathSpec => []RoundTrip
<1>1. FilesInv => RoundTrip
  <2> SUFFICES ASSUME FilesInv, committed # None
               PROVE  /\ NewOutcome = "ok" /\ Holds(NewObject, committed)
                      /\ outcome = "ok" => GoodLoad(obj, committed)
    BY DEF RoundTrip, GoodLoad
  <2> QED
    BY LoadedIndex DEF FilesInv, FilesTypeOK
<1> QED
  BY <1>1, FilesInvariant, PTL

----------------------------------------------------------------------------
(* What one save cut short leaves.                                         *)

\* The labels and the graph are those of an index, or there are none.
Clean(d) ==
    \A f \in {"labels", "graph"} : d[f] = Absent \/ \E i \in Indexes : d[f].items = Items(i)

\* All lists but the last are those of the index, if there are enough.
AllButLast(s, i) == Len(s) = Size(i) => \A n \in 1..(Size(i) - 1) : s[n] = <<i, n>>

\* Of labels and graph one may have been cut, and then the vectors are those it goes with.
Cut(d) ==
    /\ \/ d["labels"] = Absent
       \/ \E i \in Indexes : d["labels"].items = Items(i)
       \/ \E i \in Indexes : d["data"].count = Size(i) /\ Len(d["labels"].items) # Size(i)
    /\ \/ d["graph"] = Absent
       \/ \E i \in Indexes : d["graph"].items = Items(i)
       \/ \E i \in Indexes : d["data"].count = Size(i) /\ AllButLast(d["graph"].items, i)

CutInv ==
    /\ faults \in Nat
    /\ faults = 0 => Clean(path)
    /\ faults <= 1 /\ todo = << >> => Cut(path)
    /\ todo # << >> =>
          /\ faults <= 1 => \E i \in Indexes : Holds(obj, i)
          /\ \A op \in Range(Tail(todo)) : op.file # "data"

LEMMA CleanIsCut ==
    ASSUME NEW d, Clean(d)
    PROVE  Cut(d)
BY DEF Clean, Cut

\* What is behind the first of two sequences.
LEMMA TailOfConcatenated ==
    ASSUME NEW s \in Seq(Op), NEW r \in Seq(Op), s # << >>
    PROVE  /\ s \o r \in Seq(Op) /\ s \o r # << >>
           /\ Range(Tail(s \o r)) \subseteq Range(Tail(s)) \cup Range(r)
<1>1. /\ s \o r \in Seq(Op) /\ Len(s \o r) = Len(s) + Len(r)
      /\ \A i \in 1..(Len(s) + Len(r)) :
            (s \o r)[i] = IF i <= Len(s) THEN s[i] ELSE r[i - Len(s)]
  BY ConcatProperties
<1>2. Len(s) \in Nat \ {0} /\ Len(r) \in Nat
  BY EmptySeq, LenProperties
<1>3. s \o r # << >>
  BY <1>1, <1>2, EmptySeq
<1> DEFINE c == s \o r
<1>4. /\ Tail(c) \in Seq(Op) /\ Len(Tail(c)) = Len(c) - 1
      /\ \A i \in 1..Len(Tail(c)) : Tail(c)[i] = c[i + 1]
  BY <1>1, <1>3, HeadTailProperties
<1>5. /\ Tail(s) \in Seq(Op) /\ Len(Tail(s)) = Len(s) - 1
      /\ \A i \in 1..Len(Tail(s)) : Tail(s)[i] = s[i + 1]
  BY HeadTailProperties
<1>6. /\ Range(Tail(c)) = {Tail(c)[i] : i \in 1..Len(Tail(c))}
      /\ Range(Tail(s)) = {Tail(s)[i] : i \in 1..Len(Tail(s))}
      /\ Range(r) = {r[i] : i \in 1..Len(r)}
  BY <1>4, <1>5, RangeEquality
<1> HIDE DEF c
<1>7. ASSUME NEW i \in 1..Len(Tail(c))
      PROVE  Tail(c)[i] \in Range(Tail(s)) \cup Range(r)
  <2>1. i + 1 \in 1..(Len(s) + Len(r)) /\ Tail(c)[i] = c[i + 1]
    BY <1>1, <1>2, <1>4 DEF c
  <2>2. CASE i + 1 <= Len(s)
    <3>1. i \in 1..Len(Tail(s)) /\ Tail(c)[i] = s[i + 1]
      BY <1>1, <1>2, <1>5, <2>1, <2>2 DEF c
    <3> QED
      BY <1>5, <1>6, <3>1
  <2>3. CASE ~ (i + 1 <= Len(s))
    <3>1. i + 1 - Len(s) \in 1..Len(r) /\ Tail(c)[i] = r[i + 1 - Len(s)]
      BY <1>1, <1>2, <2>1, <2>3 DEF c
    <3> QED
      BY <1>6, <3>1
  <2> QED
    BY <2>2, <2>3
<1> QED
  BY <1>1, <1>3, <1>6, <1>7 DEF c

\* The vectors are written first.
LEMMA VectorsFirst ==
    ASSUME NEW o, Saveable(o)
    PROVE  \A op \in Range(Tail(SaveOps(o))) : op.file # "data"
<1> DEFINE to(f) == [file |-> f, to |-> Target(o, f)]
           s1 == <<to("data"), to("tags")>>
           s2 == <<to("labels"), to("universal")>>
           s3 == IF HasMedoids(o) THEN <<to("medoids")>> ELSE << >>
           s4 == <<to("graph")>>
<1>1. \A f \in FileKinds : to(f) \in Op
  BY TargetFacts DEF Op
<1>2. SaveOps(o) = ((s1 \o s2) \o s3) \o s4
  <2>1. s1 = <<Write("data", o.data, Len(o.data)), Write("tags", o.tags, Len(o.data))>>
    BY DEF Write, Target
  <2>2. s2 = IF o.filtered THEN <<Write("labels", o.labels, 0), Write("universal", << >>, 0)>>
             ELSE <<Unlink("labels"), Unlink("universal")>>
    BY DEF Write, Unlink, Target
  <2>3. s3 = IF o.filtered /\ o.medoids # << >>
             THEN <<Write("medoids", o.medoids, 0)>> ELSE << >>
    BY DEF Write, Target, HasMedoids
  <2>4. s4 = <<Write("graph", SubSeq(o.out_nbrs, 1, Len(o.data)), 0)>>
    BY DEF Write, Target
  <2> HIDE DEF s1, s2, s3, s4
  <2> QED
    BY <2>1, <2>2, <2>3, <2>4 DEF SaveOps
<1>3. {"data", "tags", "labels", "universal", "medoids", "graph"} = FileKinds
  BY DEF FileKinds
<1>4. \A f \in FileKinds : to(f).file = f
  OBVIOUS
<1> HIDE DEF to
<1>5. /\ s1 \in Seq(Op) /\ s1 # << >> /\ Tail(s1) = <<to("tags")>>
      /\ s2 \in Seq(Op) /\ Range(s2) = {to("labels"), to("universal")}
      /\ s3 \in Seq(Op) /\ Range(s3) \subseteq {to("medoids")}
      /\ s4 \in Seq(Op) /\ Range(s4) = {to("graph")}
  BY <1>1, <1>3 DEF Range
<1>6. Range(Tail(s1)) = {to("tags")}
  BY <1>5 DEF Range
<1> HIDE DEF s1, s2, s3, s4
<1>7. /\ s1 \o s2 \in Seq(Op) /\ s1 \o s2 # << >>
      /\ Range(Tail(s1 \o s2)) \subseteq Range(Tail(s1)) \cup Range(s2)
  BY <1>5, TailOfConcatenated
<1>8. /\ (s1 \o s2) \o s3 \in Seq(Op) /\ (s1 \o s2) \o s3 # << >>
      /\ Range(Tail((s1 \o s2) \o s3)) \subseteq Range(Tail(s1 \o s2)) \cup Range(s3)
  BY <1>5, <1>7, TailOfConcatenated
<1>9. Range(Tail(SaveOps(o))) \subseteq Range(Tail((s1 \o s2) \o s3)) \cup Range(s4)
  BY <1>2, <1>5, <1>8, TailOfConcatenated
<1>10. Range(Tail(SaveOps(o))) \subseteq
          {to("tags"), to("labels"), to("universal"), to("medoids"), to("graph")}
  BY <1>5, <1>6, <1>7, <1>8, <1>9
<1>11. \A f \in FileKinds \ {"data"} : to(f).file # "data"
  BY <1>4
<1> QED
  BY <1>3, <1>10, <1>11

\* What an index has in its files of labels and lists.
LEMMA HeldFiles ==
    ASSUME NEW o \in Object, NEW i \in Indexes, Holds(o, i)
    PROVE  /\ Target(o, "data").count = Size(i)
           /\ Target(o, "labels") = Absent \/ Target(o, "labels").items = Items(i)
           /\ Target(o, "graph").items = Items(i)
<1>1. /\ Items(i) \in Seq(Item) /\ Len(Items(i)) = Size(i) /\ Size(i) \in Nat \ {0}
  BY ItemsFacts
<1>2. /\ Built(i).data = Items(i) /\ Built(i).labels = (IF IsFiltered(i) THEN Items(i) ELSE << >>)
      /\ Built(i).filtered = IsFiltered(i) /\ Built(i).out_nbrs = Items(i)
  BY DEF Built
<1>3. SubSeq(Items(i), 1, Size(i)) = Items(i)
  BY <1>1, SubSeqFull
<1>4. \A f \in {"data", "labels", "graph"} : Target(o, f) = Target(Built(i), f)
  BY TargetOfHeld DEF FileKinds
<1> QED
  BY <1>1, <1>2, <1>3, <1>4 DEF Target

\* A graph file cut short is short of a list, or only its last list is damaged.
LEMMA TornGraph ==
    ASSUME NEW op \in Op, NEW x \in TornFile(op), NEW i \in Indexes, op.to.items = Items(i)
    PROVE  AllButLast(x.items, i)
<1>1. /\ Items(i) \in Seq(Item) /\ Len(Items(i)) = Size(i) /\ Size(i) \in Nat \ {0}
      /\ \A n \in 1..Size(i) : Items(i)[n] = <<i, n>>
  BY ItemsFacts DEF Items
<1> DEFINE whole == Items(i)
           parts == {SubSeq(whole, 1, n) : n \in 0..(Len(whole) - 1)}
           added == {Append(s, <<None, Len(s) + 1>>) : s \in parts}
<1>2. op.to # Absent
  BY DEF TornFile
<1>3. PICK s \in (IF op.file = "graph" THEN parts \cup added ELSE parts) :
          x = [op.to EXCEPT !.items = s]
  BY <1>2 DEF TornFile
<1>4. x.items = s
  BY <1>2, <1>3 DEF Op, File
<1> HIDE DEF whole
<1>5. ASSUME NEW t \in parts
      PROVE  /\ t \in Seq(Item) /\ Len(t) \in Nat /\ Len(t) < Size(i)
             /\ \A n \in 1..Len(t) : t[n] = <<i, n>>
  <2>1. PICK n \in 0..(Size(i) - 1) : t = SubSeq(whole, 1, n)
    BY <1>1 DEF whole
  <2>2. \A j \in 1..n : j \in 1..Size(i) /\ whole[j] = <<i, j>> /\ <<i, j>> \in Item
    BY <1>1 DEF whole, Item
  <2>3. t \in Seq(Item) /\ Len(t) = (IF 1 <= n THEN n - 1 + 1 ELSE 0)
        /\ \A j \in 1..(n - 1 + 1) : t[j] = whole[1 + j - 1]
    BY <1>1, <2>1, <2>2, SubSeqProperties DEF whole
  <2>4. Len(t) = n
    BY <2>3
  <2>5. \A j \in 1..n : 1 + j - 1 = j /\ j \in 1..(n - 1 + 1)
    OBVIOUS
  <2>6. \A j \in 1..n : t[j] = <<i, j>>
    BY <2>2, <2>3, <2>5
  <2> QED
    BY <1>1, <2>3, <2>4, <2>6
<1> HIDE DEF parts
<1>6. CASE s \in parts
  BY <1>1, <1>4, <1>5, <1>6 DEF AllButLast
<1>7. CASE s \in added
  <2>1. PICK t \in parts : s = Append(t, <<None, Len(t) + 1>>)
    BY <1>7
  <2> DEFINE e == <<None, Len(t) + 1>>
  <2>2. e \in Item
    BY <1>5 DEF Item
  <2> HIDE DEF e
  <2>3. Len(s) = Len(t) + 1 /\ \A n \in 1..Len(t) : s[n] = t[n]
    BY <1>5, <2>1, <2>2, AppendProperties DEF e
  <2>4. Len(s) = Size(i) => \A n \in 1..(Size(i) - 1) : n \in 1..Len(t)
    BY <1>1, <1>5, <2>3
  <2> QED
    BY <1>4, <1>5, <2>3, <2>4 DEF AllButLast
<1> QED
  BY <1>3, <1>6, <1>7

LEMMA CutInit ==
    ASSUME PathInit
    PROVE  CutInv
<1>1. Clean(path)
  BY DEF PathInit, Clean, FileKinds
<1> QED
  BY <1>1, CleanIsCut DEF PathInit, CutInv

LEMMA CutSave ==
    ASSUME FilesInv, CutInv, Save
    PROVE  CutInv'
<1>1. /\ todo' = SaveOps(obj) /\ path' = path /\ obj' = obj /\ todo = << >>
      /\ faults' = IF \E i \in Indexes : Holds(obj, i) THEN faults ELSE 2
  BY DEF Save
<1>2. Saveable(obj)
  BY DEF Save, FilesInv, FilesTypeOK, Saveable
<1>3. todo' # << >> /\ \A op \in Range(Tail(todo')) : op.file # "data"
  BY <1>1, <1>2, SaveOpsFacts, VectorsFirst
<1>4. /\ faults' \in Nat
      /\ faults' <= 1 => \E i \in Indexes : Holds(obj, i)
      /\ faults' = 0 => faults = 0
  BY <1>1 DEF CutInv
<1>5. Clean(path)' <=> Clean(path)
  BY <1>1 DEF Clean
<1> QED
  BY <1>1, <1>3, <1>4, <1>5 DEF CutInv

LEMMA CutSaveFile ==
    ASSUME FilesInv, CutInv, SaveFile
    PROVE  CutInv'
<1> DEFINE op == Head(todo)
<1>1. /\ todo # << >> /\ todo \in Seq(Op) /\ path \in [FileKinds -> File \cup {Absent}]
      /\ path' = [path EXCEPT ![op.file] = op.to] /\ todo' = Tail(todo) /\ obj' = obj
  BY DEF SaveFile, FilesInv, FilesTypeOK
<1>2. SavingOf(obj) /\ obj \in Object
  BY <1>1 DEF FilesInv, SavingOf, Saveable
<1>3. /\ op \in Op /\ todo' \in Seq(Op)
      /\ Range(todo) = {op} \cup Range(todo')
      /\ Len(todo) > 1 <=> todo' # << >>
  BY <1>1, HeadAndTail
<1>4. todo' # << >> => \A p \in Range(Tail(todo')) : p.file # "data"
  <2> SUFFICES ASSUME todo' # << >>
               PROVE  \A p \in Range(Tail(todo')) : p.file # "data"
    OBVIOUS
  <2>1. Range(todo') = {Head(todo')} \cup Range(Tail(todo'))
    BY <1>3, HeadAndTail
  <2> QED
    BY <1>1, <2>1 DEF CutInv
<1> HIDE DEF op
<1>5. op.file \in FileKinds /\ op.to = Target(obj, op.file)
  BY <1>2, <1>3 DEF Op, SavingOf
<1>6. \A f \in FileKinds : path'[f] = IF f = op.file THEN Target(obj, f) ELSE path[f]
  BY <1>1, <1>5
<1>7. "labels" \in FileKinds /\ "graph" \in FileKinds
  BY DEF FileKinds
<1>8. ASSUME NEW i \in Indexes, Holds(obj, i), Clean(path)
      PROVE  Clean(path')
  <2>1. /\ Target(obj, "labels") = Absent \/ Target(obj, "labels").items = Items(i)
        /\ Target(obj, "graph").items = Items(i)
    BY <1>2, <1>8, HeldFiles
  <2> QED
    BY <1>6, <1>7, <1>8, <2>1 DEF Clean
<1>9. CASE todo' # << >>
  <2>1. faults' = faults
    BY <1>3, <1>9 DEF SaveFile
  <2>2. /\ faults <= 1 => \E i \in Indexes : Holds(obj, i)
        /\ faults = 0 => Clean(path')
    <3>1. /\ faults <= 1 => \E i \in Indexes : Holds(obj, i)
          /\ faults = 0 => faults <= 1 /\ Clean(path)
      BY <1>1 DEF CutInv
    <3> QED
      BY <1>8, <3>1
  <2>3. Clean(path') <=> Clean(path)'
    BY DEF Clean
  <2> QED
    BY <1>1, <1>4, <1>9, <2>1, <2>2, <2>3 DEF CutInv
<1>10. CASE todo' = << >>
  <2>1. \A f \in {"labels", "graph"} : path'[f] = Target(obj, f)
    <3>1. Range(todo') = {}
      BY <1>10 DEF Range
    <3> QED
      BY <1>2, <1>3, <1>6, <1>7, <3>1 DEF SavingOf
  <2>2. CASE \E i \in Indexes : Holds(obj, i)
    <3>1. PICK i \in Indexes : Holds(obj, i) /\ faults' = 0
      BY <1>3, <1>10, <2>2 DEF SaveFile
    <3>2. /\ Target(obj, "labels") = Absent \/ Target(obj, "labels").items = Items(i)
          /\ Target(obj, "graph").items = Items(i)
      BY <1>2, <3>1, HeldFiles
    <3>3. Clean(path')
      BY <2>1, <3>2 DEF Clean
    <3>4. Cut(path')
      BY <3>3, CleanIsCut
    <3>5. Clean(path)' /\ Cut(path)'
      BY <3>3, <3>4 DEF Clean, Cut, AllButLast
    <3> QED
      BY <1>10, <3>1, <3>5 DEF CutInv
  <2>3. CASE \A i \in Indexes : ~ Holds(obj, i)
    <3>1. faults' = faults /\ ~ (faults <= 1) /\ faults \in Nat
      BY <1>1, <1>3, <1>10, <2>3 DEF SaveFile, CutInv
    <3> QED
      BY <1>10, <3>1 DEF CutInv
  <2> QED
    BY <2>2, <2>3
<1> QED
  BY <1>9, <1>10

LEMMA CutCrash ==
    ASSUME FilesInv, CutInv, CrashInSave
    PROVE  CutInv'
<1>1. todo' = << >> /\ faults \in Nat
  BY DEF CrashInSave, CutInv
<1>2. CASE todo = << >>
  <2>1. path' = path /\ faults' = faults
    BY <1>2 DEF CrashInSave
  <2>2. (Clean(path)' <=> Clean(path)) /\ (Cut(path)' <=> Cut(path))
    BY <2>1 DEF Clean, Cut, AllButLast
  <2> QED
    BY <1>1, <1>2, <2>1, <2>2 DEF CutInv
<1>3. CASE todo # << >>
  <2>1. faults' = IF faults < 2 THEN faults + 1 ELSE faults
    BY <1>3 DEF CrashInSave
  <2>2. faults' \in Nat /\ faults' # 0 /\ (faults' <= 1 => faults = 0)
    BY <1>1, <2>1
  <2>3. ASSUME faults = 0
        PROVE  Cut(path')
    <3> DEFINE op == Head(todo)
    <3>1. PICK i \in Indexes : Holds(obj, i)
      BY <1>3, <2>3 DEF CutInv
    <3>2. /\ Clean(path) /\ \A p \in Range(Tail(todo)) : p.file # "data"
      BY <1>3, <2>3 DEF CutInv
    <3>3. /\ todo \in Seq(Op) /\ path \in [FileKinds -> File \cup {Absent}]
          /\ SavingOf(obj) /\ obj \in Object
      BY <1>3 DEF FilesInv, FilesTypeOK, SavingOf, Saveable
    <3>4. op \in Op /\ Range(todo) = {op} \cup Range(Tail(todo))
      BY <1>3, <3>3, HeadAndTail
    <3>5. op.file \in FileKinds /\ op.to = Target(obj, op.file)
      BY <3>3, <3>4 DEF Op, SavingOf
    <3>6. /\ Target(obj, "data").count = Size(i)
          /\ Target(obj, "labels") = Absent \/ Target(obj, "labels").items = Items(i)
          /\ Target(obj, "graph").items = Items(i)
      BY <3>1, <3>3, HeldFiles
    <3>7. CASE path' = path
      BY <3>2, <3>7, CleanIsCut
    <3>8. CASE path' # path
      <4>1. PICK x \in TornFile(op) : path' = [path EXCEPT ![op.file] = x]
        BY <1>3, <3>8 DEF CrashInSave
      <4> HIDE DEF op
      <4>2. \A f \in FileKinds : path'[f] = IF f = op.file THEN x ELSE path[f]
        BY <3>3, <4>1
      <4>3. "labels" \in FileKinds /\ "graph" \in FileKinds /\ "data" \in FileKinds
        BY DEF FileKinds
      <4>4. ASSUME op.file # "data"
            PROVE  path'["data"].count = Size(i)
        <5>1. path["data"] = Target(obj, "data") \/ \E p \in Range(todo) : p.file = "data"
          BY <3>3, <4>3 DEF SavingOf
        <5>2. path["data"] = Target(obj, "data")
          BY <3>2, <3>4, <4>4, <5>1
        <5> QED
          BY <3>6, <4>2, <4>3, <4>4, <5>2
      <4>5. /\ op.to \in File /\ x \in File
            /\ op.file # "graph" => Len(x.items) < Len(op.to.items)
        BY <3>4, <4>1, TornFacts
      <4>6. CASE op.file = "labels"
        <5>1. op.to.items = Items(i)
          BY <3>5, <3>6, <4>5, <4>6, AbsentIsNoFile
        <5>2. Len(x.items) # Size(i)
          <6>1. Len(x.items) \in Nat /\ Len(Items(i)) = Size(i) /\ Size(i) \in Nat
            BY <4>5, ItemsFacts, LenProperties DEF File
          <6> QED
            BY <4>5, <4>6, <5>1, <6>1
        <5>3. path'["labels"] = x /\ path'["graph"] = path["graph"]
          BY <4>2, <4>3, <4>6
        <5>4. path["graph"] = Absent \/ \E j \in Indexes : path["graph"].items = Items(j)
          BY <3>2 DEF Clean
        <5> QED
          BY <4>4, <4>6, <5>2, <5>3, <5>4 DEF Cut
      <4>7. CASE op.file = "graph"
        <5>1. op.to.items = Items(i)
          BY <3>5, <3>6, <4>7
        <5>2. AllButLast(x.items, i)
          BY <3>4, <4>1, <5>1, TornGraph
        <5>3. path'["graph"] = x /\ path'["labels"] = path["labels"]
          BY <4>2, <4>3, <4>7
        <5>4. path["labels"] = Absent \/ \E j \in Indexes : path["labels"].items = Items(j)
          BY <3>2 DEF Clean
        <5> QED
          BY <4>4, <4>7, <5>2, <5>3, <5>4 DEF Cut
      <4>8. CASE op.file \notin {"labels", "graph"}
        <5>1. path'["graph"] = path["graph"] /\ path'["labels"] = path["labels"]
          BY <4>2, <4>3, <4>8
        <5>2. Clean(path')
          BY <3>2, <5>1 DEF Clean
        <5> QED
          BY <5>2, CleanIsCut
      <4> QED
        BY <4>6, <4>7, <4>8
    <3> QED
      BY <3>7, <3>8
  <2>4. Cut(path') <=> Cut(path)'
    BY DEF Cut, AllButLast
  <2> QED
    BY <1>1, <2>2, <2>3, <2>4 DEF CutInv
<1> QED
  BY <1>2, <1>3

\* The invariant holds of every state of the specification.
LEMMA CutInvariant == PathSpec => [](FilesInv /\ CutInv)
<1>1. PathInit => CutInv
  BY CutInit
<1>2. ASSUME FilesInv, CutInv, [PathNext]_fvars
      PROVE  CutInv'
  <2>1. CASE Create \/ Load \/ UNCHANGED fvars
    <3>1. path' = path /\ todo' = todo /\ faults' = faults /\ (obj' = obj \/ todo = << >>)
      BY <2>1 DEF Create, Load, fvars
    <3>2. (Clean(path)' <=> Clean(path)) /\ (Cut(path)' <=> Cut(path))
      BY <3>1 DEF Clean, Cut, AllButLast
    <3> QED
      BY <1>2, <3>1, <3>2 DEF CutInv
  <2> QED
    BY <1>2, <2>1, CutSave, CutSaveFile, CutCrash DEF PathNext
<1> QED
  BY <1>1, <1>2, FilesInvariant, PTL DEF PathSpec

\* The lists of an index.
LEMMA WholeFacts ==
    ASSUME NEW i \in Indexes
    PROVE  Len(Items(i)) = Size(i) /\ AllButLast(Items(i), i)
<1>1. Size(i) \in Nat /\ Len(Items(i)) = Size(i)
  BY ItemsFacts
<1>2. \A n \in 1..(Size(i) - 1) : Items(i)[n] = <<i, n>>
  BY <1>1 DEF Items
<1> QED
  BY <1>1, <1>2 DEF AllButLast

\* What a load into a new object accepts of files one of which was cut short.
LEMMA CutLoaded ==
    ASSUME FilesInv, Cut(path), NewOutcome = "ok"
    PROVE  /\ NewObject.labels \in {Items(i) : i \in Indexes} \cup {<< >>}
           /\ \E i \in Indexes : \A n \in 1..(Size(i) - 1) :
                 /\ Len(NewObject.out_nbrs) = Size(i)
                 /\ NewObject.out_nbrs[n] = <<i, n>>
<1>1. path \in [FileKinds -> File \cup {Absent}] /\ Empty \in Object
  BY ObjectFacts DEF FilesInv, FilesTypeOK
<1>2. /\ path["data"] \in File /\ path["graph"] \in File
      /\ Len(NewObject.data) = path["data"].count
      /\ NewObject.labels = IF path["labels"] = Absent THEN Empty.labels
                            ELSE Empty.labels \o path["labels"].items
      /\ NewObject.out_nbrs = Empty.out_nbrs \o path["graph"].items
      /\ path["labels"] # Absent => Len(NewObject.labels) = Len(NewObject.data)
      /\ Len(NewObject.out_nbrs) = path["data"].count
  BY <1>1, LoadFacts DEF NewOutcome, NewObject
<1>3. Empty.labels = << >> /\ Empty.out_nbrs = << >>
  BY DEF Empty
<1>4. path["labels"] # Absent => path["labels"] \in File
  BY <1>1 DEF FileKinds
<1>5. /\ NewObject.out_nbrs = path["graph"].items
      /\ path["labels"] # Absent => NewObject.labels = path["labels"].items
  BY <1>2, <1>3, <1>4, ConcatEmptySeq DEF File
<1>6. path["graph"] # Absent
  BY <1>2, AbsentIsNoFile
<1>8. NewObject.labels \in {Items(i) : i \in Indexes} \cup {<< >>}
  <2>1. CASE path["labels"] = Absent
    BY <1>2, <1>3, <2>1
  <2>2. CASE path["labels"] # Absent
    BY <1>2, <1>5, <2>2 DEF Cut
  <2> QED
    BY <2>1, <2>2
<1>9. PICK i \in Indexes : /\ Len(NewObject.out_nbrs) = Size(i)
                           /\ \A n \in 1..(Size(i) - 1) : NewObject.out_nbrs[n] = <<i, n>>
  BY <1>2, <1>5, <1>6, WholeFacts DEF Cut, AllButLast
<1> QED
  BY <1>8, <1>9

\* Vamana::load after at most one save cut short accepts, of all that it reads but label
\* medoids, at most the last adjacency list in a damaged state: the vectors are written first and
\* the labels are counted against them, the lists too.
THEOREM OneCutIsNoticed == PathSpec => []OneCrashIsNoticed
<1>1. FilesInv /\ CutInv => OneCrashIsNoticed
  BY CutLoaded DEF CutInv, OneCrashIsNoticed
<1> QED
  BY <1>1, CutInvariant, PTL

----------------------------------------------------------------------------
(* The files of the product quantiser: what a run finds of them.           *)

PartNames == {"pivots", "centroid", "rearrangement", "chunk_offsets"}

\* The four files are complete and of the dimension of the pivots.
AllWhole ==
    /\ disk["pivots"].training # 0
    /\ \A f \in PartNames : disk[f].whole
    /\ \A f \in {"centroid", "rearrangement"} :
          disk[f].rows = disk["pivots"].cols /\ disk[f].cols = 1
    /\ disk["chunk_offsets"].cols = 1

\* The pivots are those the run asks for.
PivotsFit == disk["pivots"].rows = job.centers /\ disk["pivots"].cols = job.dim

OtherChunks ==
    \/ job.chunks > job.dim
    \/ PivotsFit /\ disk["chunk_offsets"].rows # job.chunks + 1

\* What runs that are not cut short keep: outside of a save the files are complete, or
\* there are none, and a run comes to the loading with pivots of its own size unless it
\* was refused its number of chunks before.
Uncut ==
    /\ pc # "save" => AllWhole \/ disk["pivots"].training = 0
    /\ pc = "save" => /\ trainings # 0
                      /\ \A f \in PartNames : f \in Range(unsaved) \/ disk[f] = Matrix(f)
    /\ pc = "load" => job.chunks > job.dim \/ (AllWhole /\ PivotsFit)
    /\ pc = "died" => OtherChunks

PartsInv ==
    /\ disk = [f \in Files |-> disk[f]]
    /\ unsaved \in Seq(PartNames)
    /\ trainings \in Nat /\ crashes \in Nat
    /\ crashes = 0 => Uncut

LEMMA NamesOfParts ==
    /\ Parts \in Seq(PartNames) /\ Range(Parts) = PartNames
    /\ PartNames \subseteq Files /\ "codes" \in Files /\ "codes" \notin PartNames
<1>1. Parts \in Seq(PartNames)
  BY DEF Parts, PartNames
<1>2. DOMAIN Parts = 1..4
  BY DEF Parts
<1>3. Range(Parts) = PartNames
  BY <1>2 DEF Range, Parts, PartNames
<1> QED
  BY <1>1, <1>3 DEF Files, PartNames

\* A name that waits is the first or waits behind it.
LEMMA FirstOrLater ==
    ASSUME NEW s \in Seq(PartNames), s # << >>
    PROVE  /\ Head(s) \in PartNames /\ Tail(s) \in Seq(PartNames)
           /\ \A f \in Range(s) : f = Head(s) \/ f \in Range(Tail(s))
<1>1. /\ Head(s) \in PartNames /\ Tail(s) \in Seq(PartNames) /\ Len(s) \in Nat \ {0}
      /\ DOMAIN s = 1..Len(s) /\ DOMAIN Tail(s) = 1..(Len(s) - 1)
      /\ Head(s) = s[1] /\ \A i \in 1..(Len(s) - 1) : Tail(s)[i] = s[i + 1]
  OBVIOUS
<1>2. ASSUME NEW i \in DOMAIN s
      PROVE  s[i] = Head(s) \/ s[i] \in Range(Tail(s))
  <2>1. CASE i = 1
    BY <1>1, <2>1
  <2>2. CASE i # 1
    <3>1. i - 1 \in 1..(Len(s) - 1) /\ Tail(s)[i - 1] = s[i]
      BY <1>1, <2>2
    <3> QED
      BY <1>1, <3>1 DEF Range
  <2> QED
    BY <2>1, <2>2
<1> QED
  BY <1>1, <1>2 DEF Range

LEMMA PartsInit ==
    ASSUME Init
    PROVE  PartsInv
<1>1. disk["pivots"].training = 0
  BY NamesOfParts DEF Init, Missing, PartNames
<1>2. disk = [f \in Files |-> disk[f]]
  BY DEF Init
<1> QED
  BY <1>1, <1>2 DEF Init, PartsInv, Uncut

LEMMA PartsStart ==
    ASSUME PartsInv, Start
    PROVE  PartsInv'
<1>1. disk' = disk /\ trainings' = trainings /\ crashes' = crashes
      /\ unsaved' = << >> /\ pc' = "pivots" /\ pc # "save"
  BY DEF Start
<1> QED
  BY <1>1 DEF PartsInv, Uncut, AllWhole

LEMMA PartsFindPivots ==
    ASSUME PartsInv, FindPivots
    PROVE  PartsInv'
<1>1. /\ disk' = disk /\ trainings' = trainings /\ crashes' = crashes
      /\ unsaved' = unsaved /\ job' = job /\ pc = "pivots"
  BY DEF FindPivots, counted
<1>2. pc' = IF job.chunks > job.dim THEN "load"
            ELSE IF disk["pivots"].training = 0 THEN "train"
            ELSE IF ~ disk["pivots"].whole THEN "died"
            ELSE IF PivotsFit THEN "load"
            ELSE "train"
  BY DEF FindPivots, Exists, PivotsFit
<1>3. crashes = 0 => AllWhole \/ disk["pivots"].training = 0
  BY <1>1 DEF PartsInv, Uncut
<1>4. AllWhole => disk["pivots"].whole
  BY DEF AllWhole, PartNames
<1>5. (AllWhole' <=> AllWhole) /\ (PivotsFit' <=> PivotsFit)
  BY <1>1 DEF AllWhole, PivotsFit
<1>6. crashes = 0 => Uncut'
  BY <1>1, <1>2, <1>3, <1>4, <1>5 DEF Uncut
<1> QED
  BY <1>1, <1>6 DEF PartsInv

LEMMA PartsTrain ==
    ASSUME PartsInv, Train
    PROVE  PartsInv'
<1>1. /\ disk' = disk /\ trainings' = trainings + 1 /\ crashes' = crashes
      /\ unsaved' = Parts /\ pc' = "save"
  BY DEF Train
<1> QED
  BY <1>1, NamesOfParts DEF PartsInv, Uncut

LEMMA PartsSavePart ==
    ASSUME PartsInv, SavePart
    PROVE  PartsInv'
<1> DEFINE g == Head(unsaved)
<1>1. /\ pc = "save" /\ unsaved # << >> /\ unsaved \in Seq(PartNames)
      /\ disk' = [disk EXCEPT ![g] = Matrix(g)] /\ unsaved' = Tail(unsaved)
      /\ pc' = pc /\ job' = job /\ chunk_offsets' = chunk_offsets
      /\ trainings' = trainings /\ crashes' = crashes
  BY DEF SavePart, counted, PartsInv
<1>2. /\ g \in PartNames /\ unsaved' \in Seq(PartNames)
      /\ \A f \in Range(unsaved) : f = g \/ f \in Range(unsaved')
  BY <1>1, FirstOrLater
<1> HIDE DEF g
<1>3. disk = [f \in Files |-> disk[f]]
  BY DEF PartsInv
<1>4. /\ disk' = [f \in Files |-> disk'[f]]
      /\ \A f \in PartNames : disk'[f] = IF f = g THEN Matrix(g) ELSE disk[f]
  BY <1>1, <1>2, <1>3, NamesOfParts
<1>5. \A f \in PartNames : Matrix(f)' = Matrix(f)
  BY <1>1 DEF Matrix
<1>6. ASSUME crashes = 0
      PROVE  \A f \in PartNames : f \in Range(unsaved') \/ disk'[f] = Matrix(f)'
  BY <1>1, <1>2, <1>4, <1>5, <1>6 DEF PartsInv, Uncut
<1>7. crashes = 0 => Uncut'
  BY <1>1, <1>6 DEF PartsInv, Uncut
<1> QED
  BY <1>1, <1>2, <1>4, <1>7 DEF PartsInv

LEMMA PartsSaved ==
    ASSUME PartsInv, Saved
    PROVE  PartsInv'
<1>1. /\ disk' = disk /\ trainings' = trainings /\ crashes' = crashes
      /\ unsaved' = unsaved /\ job' = job /\ pc = "save" /\ pc' = "load"
      /\ unsaved = << >>
  BY DEF Saved, counted
<1>2. Range(unsaved) = {}
  BY <1>1 DEF Range
<1>3. ASSUME crashes = 0
      PROVE  AllWhole /\ PivotsFit
  <2>1. trainings # 0 /\ \A f \in PartNames : disk[f] = Matrix(f)
    BY <1>1, <1>2, <1>3 DEF PartsInv, Uncut
  <2>2. /\ \A f \in PartNames : Matrix(f).whole /\ Matrix(f).training = trainings
        /\ Matrix("pivots").rows = job.centers /\ Matrix("pivots").cols = job.dim
        /\ \A f \in {"centroid", "rearrangement"} :
              Matrix(f).rows = job.dim /\ Matrix(f).cols = 1
        /\ Matrix("chunk_offsets").cols = 1
    BY DEF Matrix
  <2> QED
    BY <2>1, <2>2 DEF AllWhole, PivotsFit, PartNames
<1>4. (AllWhole' <=> AllWhole) /\ (PivotsFit' <=> PivotsFit)
  BY <1>1 DEF AllWhole, PivotsFit
<1>5. crashes = 0 => Uncut'
  BY <1>1, <1>3, <1>4 DEF Uncut
<1> QED
  BY <1>1, <1>5 DEF PartsInv

\* The codes are written to a file of their own.
LEMMA CodesApart ==
    ASSUME PartsInv, pc \notin {"save", "load", "died"}, pc' \notin {"save", "load", "died"},
           disk' = [f \in Files |-> disk'[f]],
           \A f \in PartNames : disk'[f] = disk[f],
           unsaved' = unsaved, trainings' = trainings, crashes' = crashes
    PROVE  PartsInv'
<1>1. AllWhole' <=> AllWhole
  BY DEF AllWhole, PartNames
<1>2. disk'["pivots"] = disk["pivots"]
  BY DEF PartNames
<1> QED
  BY <1>1, <1>2 DEF PartsInv, Uncut

LEMMA PartsLoadParts ==
    ASSUME PartsInv, LoadParts
    PROVE  PartsInv'
<1>1. /\ unsaved' = unsaved /\ trainings' = trainings /\ crashes' = crashes
      /\ job' = job /\ pc = "load"
  BY DEF LoadParts, counted
<1>2. disk = [f \in Files |-> disk[f]]
  BY DEF PartsInv
<1>3. CASE pc' = "codes"
  <2>1. disk' = [disk EXCEPT !["codes"] =
                  [training |-> disk["pivots"].training, rows |-> 0, cols |-> job.chunks,
                   whole |-> FALSE, values |-> << >>]]
    BY <1>3 DEF LoadParts
  <2>2. /\ disk' = [f \in Files |-> disk'[f]]
        /\ \A f \in PartNames : disk'[f] = disk[f]
    BY <1>2, <2>1, NamesOfParts
  <2>3. AllWhole' <=> AllWhole
    BY <2>2 DEF AllWhole, PartNames
  <2>4. disk'["pivots"] = disk["pivots"]
    BY <2>2 DEF PartNames
  <2> QED
    BY <1>1, <1>3, <2>2, <2>3, <2>4 DEF PartsInv, Uncut
<1>4. CASE pc' # "codes"
  <2>1. pc' = "died" /\ disk' = disk /\ ~ \A f \in PartNames : Fits(f)
    BY <1>4, NamesOfParts DEF LoadParts
  <2>2. ASSUME crashes = 0, ~ (job.chunks > job.dim)
        PROVE  PivotsFit /\ disk["chunk_offsets"].rows # job.chunks + 1
    <3>1. AllWhole /\ PivotsFit
      BY <1>1, <2>2 DEF PartsInv, Uncut
    <3>2. Fits("pivots") /\ Fits("centroid") /\ Fits("rearrangement")
      BY <3>1 DEF Fits, AllWhole, PivotsFit, PartNames
    <3>3. ~ Fits("chunk_offsets")
      BY <2>1, <3>2 DEF PartNames
    <3> QED
      BY <3>1, <3>3 DEF Fits, AllWhole, PartNames
  <2>3. /\ AllWhole' <=> AllWhole
        /\ PivotsFit' <=> PivotsFit
        /\ disk'["chunk_offsets"] = disk["chunk_offsets"] /\ disk'["pivots"] = disk["pivots"]
    BY <1>1, <2>1 DEF AllWhole, PivotsFit
  <2>4. crashes = 0 => Uncut'
    BY <1>1, <2>1, <2>2, <2>3 DEF PartsInv, Uncut, OtherChunks
  <2> QED
    BY <1>1, <1>2, <2>1, <2>4 DEF PartsInv
<1> QED
  BY <1>3, <1>4

LEMMA PartsEncodeBlock ==
    ASSUME PartsInv, EncodeBlock
    PROVE  PartsInv'
<1>1. /\ pc = "codes" /\ pc' = pc
      /\ unsaved' = unsaved /\ trainings' = trainings /\ crashes' = crashes
      /\ disk = [f \in Files |-> disk[f]]
  BY DEF EncodeBlock, counted, PartsInv
<1>2. \E x : disk' = [disk EXCEPT !["codes"] = x]
  BY DEF EncodeBlock
<1>3. /\ disk' = [f \in Files |-> disk'[f]]
      /\ \A f \in PartNames : disk'[f] = disk[f]
  BY <1>1, <1>2, NamesOfParts
<1> QED
  BY <1>1, <1>3, CodesApart

LEMMA PartsEncoded ==
    ASSUME PartsInv, Encoded
    PROVE  PartsInv'
<1>1. /\ pc = "codes" /\ pc' = "done"
      /\ unsaved' = unsaved /\ trainings' = trainings /\ crashes' = crashes
      /\ disk = [f \in Files |-> disk[f]]
  BY DEF Encoded, counted, PartsInv
<1>2. \E x : disk' = [disk EXCEPT !["codes"] = x]
  BY DEF Encoded
<1>3. /\ disk' = [f \in Files |-> disk'[f]]
      /\ \A f \in PartNames : disk'[f] = disk[f]
  BY <1>1, <1>2, NamesOfParts
<1> QED
  BY <1>1, <1>3, CodesApart

LEMMA PartsCrash ==
    ASSUME PartsInv, Crash
    PROVE  PartsInv'
<1>1. /\ unsaved' = unsaved /\ trainings' = trainings /\ crashes' = crashes + 1
      /\ disk = [f \in Files |-> disk[f]]
      /\ \/ disk' = disk
         \/ disk' = [disk EXCEPT ![Head(unsaved)] = Torn(Matrix(Head(unsaved)))]
  BY DEF Crash, PartsInv
<1>2. disk' = [f \in Files |-> disk'[f]]
  BY <1>1
<1> QED
  BY <1>1, <1>2 DEF PartsInv

LEMMA PartsInvariant == Spec => []PartsInv
<1>1. Init => PartsInv
  BY PartsInit
<1>2. ASSUME PartsInv, [Next]_vars
      PROVE  PartsInv'
  <2>1. CASE UNCHANGED vars
    <3>1. /\ disk' = disk /\ job' = job /\ pc' = pc /\ unsaved' = unsaved
          /\ chunk_offsets' = chunk_offsets /\ trainings' = trainings /\ crashes' = crashes
      BY <2>1 DEF vars, counted
    <3>2. \A f : Matrix(f)' = Matrix(f)
      BY <3>1 DEF Matrix
    <3>3. (AllWhole' <=> AllWhole) /\ (PivotsFit' <=> PivotsFit) /\ (OtherChunks' <=> OtherChunks)
      BY <3>1 DEF AllWhole, PivotsFit, OtherChunks
    <3> QED
      BY <1>2, <3>1, <3>2, <3>3 DEF PartsInv, Uncut
  <2>2. CASE Next
    BY <1>2, <2>2, PartsStart, PartsFindPivots, PartsTrain, PartsSavePart, PartsSaved,
       PartsLoadParts, PartsEncodeBlock, PartsEncoded, PartsCrash DEF Next
  <2> QED
    BY <1>2, <2>1, <2>2
<1> QED
  BY <1>1, <1>2, PTL DEF Spec

----------------------------------------------------------------------------
(* The order of the trainings.                                             *)

\* Later parts are of no later training, and none is of a training to come.
Ordered(d) ==
    /\ \A f \in PartNames : d[f].training \in Nat /\ d[f].training <= trainings
    /\ d["pivots"].training >= d["centroid"].training
    /\ d["centroid"].training >= d["rearrangement"].training
    /\ d["rearrangement"].training >= d["chunk_offsets"].training

\* What is still to be saved ends the parts; what is not is of the training.
Saving(d) ==
    /\ unsaved \in {Parts, <<"centroid", "rearrangement", "chunk_offsets">>,
                    <<"rearrangement", "chunk_offsets">>, <<"chunk_offsets">>, << >>}
    /\ \A f \in PartNames : f \notin Range(unsaved) => d[f].training = trainings

OneTraining(d) == \A f \in PartNames : d[f].training = d["pivots"].training

OrderInv ==
    /\ trainings \in Nat /\ crashes \in Nat
    /\ disk = [f \in Files |-> disk[f]]
    /\ Ordered(disk)
    /\ pc = "save" => Saving(disk)
    /\ crashes = 0 /\ pc # "save" => OneTraining(disk)
    /\ pc \in {"codes", "done"} => \A f \in PartNames : read[f].training = disk[f].training

\* Steps that write none of the four files.
LEMMA OrderKept ==
    ASSUME OrderInv, disk' = [f \in Files |-> disk'[f]],
           \A f \in PartNames : disk'[f].training = disk[f].training,
           trainings' = trainings, crashes' = crashes, pc # "save", pc' # "save",
           pc' \in {"codes", "done"} =>
               \A f \in PartNames : read'[f].training = disk[f].training
    PROVE  OrderInv'
<1>1. Ordered(disk)'
  BY DEF OrderInv, Ordered, PartNames
<1>2. OneTraining(disk) => OneTraining(disk)'
  BY DEF OneTraining, PartNames
<1> QED
  BY <1>1, <1>2 DEF OrderInv

\* What is saved next, and what is left then.
LEMMA NextPart ==
    ASSUME OrderInv, pc = "save", unsaved # << >>
    PROVE  /\ Head(unsaved) \in PartNames
           /\ \A f \in Range(unsaved) : f = Head(unsaved) \/ f \in Range(Tail(unsaved))
           /\ Tail(unsaved) \in {Parts, <<"centroid", "rearrangement", "chunk_offsets">>,
                    <<"rearrangement", "chunk_offsets">>, <<"chunk_offsets">>, << >>}
<1>1. unsaved \in {Parts, <<"centroid", "rearrangement", "chunk_offsets">>,
                   <<"rearrangement", "chunk_offsets">>, <<"chunk_offsets">>}
  BY DEF OrderInv, Saving
<1>2. /\ unsaved \in Seq(PartNames) /\ Head(unsaved) \in PartNames
      /\ Tail(unsaved) \in {<<"centroid", "rearrangement", "chunk_offsets">>,
                            <<"rearrangement", "chunk_offsets">>, <<"chunk_offsets">>, << >>}
  <2>1. CASE unsaved = Parts
    BY <2>1, NamesOfParts DEF Parts, PartNames
  <2>2. CASE unsaved = <<"centroid", "rearrangement", "chunk_offsets">>
    BY <2>2 DEF PartNames
  <2>3. CASE unsaved = <<"rearrangement", "chunk_offsets">>
    BY <2>3 DEF PartNames
  <2>4. CASE unsaved = <<"chunk_offsets">>
    BY <2>4 DEF PartNames
  <2> QED
    BY <1>1, <2>1, <2>2, <2>3, <2>4
<1>3. \A f \in Range(unsaved) : f = Head(unsaved) \/ f \in Range(Tail(unsaved))
  BY <1>2, FirstOrLater
<1> QED
  BY <1>2, <1>3

\* The trainings stay in order when the next part is written, the whole of it or not.
LEMMA OrderWithNext ==
    ASSUME OrderInv, pc = "save", unsaved # << >>,
           NEW x, x.training = trainings,
           disk' = [disk EXCEPT ![Head(unsaved)] = x],
           trainings' = trainings
    PROVE  /\ disk' = [f \in Files |-> disk'[f]]
           /\ Ordered(disk)'
           /\ \A f \in PartNames : f \notin Range(Tail(unsaved)) => disk'[f].training = trainings
<1> DEFINE g == Head(unsaved)
<1>1. /\ g \in PartNames
      /\ \A f \in Range(unsaved) : f = g \/ f \in Range(Tail(unsaved))
      /\ disk' = [disk EXCEPT ![g] = x]
  BY NextPart
<1>2. /\ Ordered(disk) /\ trainings \in Nat /\ disk = [f \in Files |-> disk[f]]
      /\ \A f \in PartNames : f \notin Range(unsaved) => disk[f].training = trainings
  BY DEF OrderInv, Saving
<1>3. unsaved \in {Parts, <<"centroid", "rearrangement", "chunk_offsets">>,
                   <<"rearrangement", "chunk_offsets">>, <<"chunk_offsets">>}
  BY DEF OrderInv, Saving
<1>4. /\ g = "centroid" => "pivots" \notin Range(unsaved)
      /\ g = "rearrangement" => "centroid" \notin Range(unsaved)
      /\ g = "chunk_offsets" => "rearrangement" \notin Range(unsaved)
  <2>1. CASE unsaved = Parts
    BY <2>1 DEF Parts
  <2>2. CASE unsaved = <<"centroid", "rearrangement", "chunk_offsets">>
    BY <2>2 DEF Range
  <2>3. CASE unsaved = <<"rearrangement", "chunk_offsets">>
    BY <2>3 DEF Range
  <2>4. CASE unsaved = <<"chunk_offsets">>
    BY <2>4 DEF Range
  <2> QED
    BY <1>3, <2>1, <2>2, <2>3, <2>4
<1> HIDE DEF g
<1>5. /\ disk' = [f \in Files |-> disk'[f]]
      /\ \A f \in PartNames : disk'[f] = IF f = g THEN x ELSE disk[f]
  BY <1>1, <1>2, NamesOfParts
<1>6. \A f \in PartNames : disk'[f].training = IF f = g THEN trainings ELSE disk[f].training
  BY <1>5
<1>7. Ordered(disk)'
  BY <1>1, <1>2, <1>4, <1>6 DEF Ordered, PartNames
<1> QED
  BY <1>1, <1>2, <1>5, <1>6, <1>7

LEMMA OrderInit ==
    ASSUME Init
    PROVE  OrderInv
<1>1. /\ disk = [f \in Files |-> disk[f]]
      /\ \A f \in PartNames : disk[f].training = 0
  BY NamesOfParts DEF Init, Missing
<1>2. Ordered(disk) /\ OneTraining(disk)
  BY <1>1 DEF Init, Ordered, OneTraining, PartNames
<1> QED
  BY <1>1, <1>2 DEF Init, OrderInv

LEMMA OrderTrain ==
    ASSUME OrderInv, Train
    PROVE  OrderInv'
<1>1. /\ disk' = disk /\ trainings' = trainings + 1 /\ crashes' = crashes
      /\ unsaved' = Parts /\ pc' = "save"
  BY DEF Train
<1>2. Ordered(disk)'
  BY <1>1 DEF OrderInv, Ordered, PartNames
<1>3. Saving(disk)'
  BY <1>1, NamesOfParts DEF Saving
<1> QED
  BY <1>1, <1>2, <1>3 DEF OrderInv

LEMMA OrderSavePart ==
    ASSUME OrderInv, SavePart
    PROVE  OrderInv'
<1> DEFINE x == Matrix(Head(unsaved))
<1>1. /\ pc = "save" /\ unsaved # << >>
      /\ disk' = [disk EXCEPT ![Head(unsaved)] = x] /\ unsaved' = Tail(unsaved)
      /\ pc' = pc /\ trainings' = trainings /\ crashes' = crashes
  BY DEF SavePart, counted
<1>2. x.training = trainings
  BY DEF Matrix
<1> HIDE DEF x
<1>3. /\ disk' = [f \in Files |-> disk'[f]]
      /\ Ordered(disk)'
      /\ \A f \in PartNames : f \notin Range(Tail(unsaved)) => disk'[f].training = trainings
  BY <1>1, <1>2, OrderWithNext
<1>4. Saving(disk)'
  BY <1>1, <1>3, NextPart DEF Saving
<1> QED
  BY <1>1, <1>3, <1>4 DEF OrderInv

LEMMA OrderSaved ==
    ASSUME OrderInv, Saved
    PROVE  OrderInv'
<1>1. /\ disk' = disk /\ trainings' = trainings /\ crashes' = crashes
      /\ pc = "save" /\ pc' = "load" /\ unsaved = << >>
  BY DEF Saved, counted
<1>2. \A f \in PartNames : disk[f].training = trainings
  BY <1>1 DEF OrderInv, Saving, Range
<1>3. OneTraining(disk)
  BY <1>2 DEF OneTraining, PartNames
<1>4. Ordered(disk)' /\ OneTraining(disk)'
  BY <1>1, <1>3 DEF OrderInv, Ordered, OneTraining
<1> QED
  BY <1>1, <1>4 DEF OrderInv

LEMMA OrderCrash ==
    ASSUME OrderInv, Crash
    PROVE  OrderInv'
<1>1. /\ trainings' = trainings /\ crashes' = crashes + 1 /\ pc' = "idle"
      /\ \/ disk' = disk
         \/ /\ pc = "save" /\ unsaved # << >>
            /\ disk' = [disk EXCEPT ![Head(unsaved)] = Torn(Matrix(Head(unsaved)))]
  BY DEF Crash
<1>2. disk' = [f \in Files |-> disk'[f]] /\ Ordered(disk)'
  <2>1. CASE disk' = disk
    BY <1>1, <2>1 DEF OrderInv, Ordered
  <2>2. CASE disk' # disk
    <3>1. Torn(Matrix(Head(unsaved))).training = trainings
      BY DEF Torn, Matrix
    <3> QED
      BY <1>1, <2>2, <3>1, OrderWithNext
  <2> QED
    BY <2>1, <2>2
<1> QED
  BY <1>1, <1>2 DEF OrderInv

LEMMA OrderInvariant == Spec => []OrderInv
<1>1. Init => OrderInv
  BY OrderInit
<1>2. ASSUME OrderInv, [Next]_vars
      PROVE  OrderInv'
  <2>0. disk = [f \in Files |-> disk[f]]
    BY <1>2 DEF OrderInv
  <2>1. CASE UNCHANGED vars
    BY <1>2, <2>1 DEF OrderInv, Ordered, Saving, OneTraining, vars, counted
  <2>2. CASE Start
    <3>1. /\ disk' = disk /\ trainings' = trainings /\ crashes' = crashes
          /\ pc # "save" /\ pc' = "pivots"
      BY <2>2 DEF Start
    <3> QED
      BY <1>2, <2>0, <3>1, OrderKept
  <2>3. CASE FindPivots
    <3>1. /\ disk' = disk /\ trainings' = trainings /\ crashes' = crashes
          /\ pc = "pivots" /\ pc' \in {"load", "train", "died"}
      BY <2>3 DEF FindPivots, counted
    <3> QED
      BY <1>2, <2>0, <3>1, OrderKept
  <2>4. CASE LoadParts
    <3>1. /\ trainings' = trainings /\ crashes' = crashes
          /\ pc = "load" /\ pc' \in {"codes", "died"}
          /\ pc' = "codes" => read' = [f \in PartNames |-> disk[f]]
          /\ disk' = disk \/ \E x : disk' = [disk EXCEPT !["codes"] = x]
      BY <2>4, NamesOfParts DEF LoadParts, counted
    <3>2. disk' = [f \in Files |-> disk'[f]] /\ \A f \in PartNames : disk'[f] = disk[f]
      BY <2>0, <3>1, NamesOfParts
    <3> QED
      BY <1>2, <3>1, <3>2, OrderKept
  <2>5. CASE EncodeBlock \/ Encoded
    <3>1. /\ trainings' = trainings /\ crashes' = crashes /\ read' = read
          /\ pc = "codes" /\ pc' \in {"codes", "done"}
          /\ \E x : disk' = [disk EXCEPT !["codes"] = x]
      BY <2>5 DEF EncodeBlock, Encoded, counted
    <3>2. disk' = [f \in Files |-> disk'[f]] /\ \A f \in PartNames : disk'[f] = disk[f]
      BY <2>0, <3>1, NamesOfParts
    <3>3. \A f \in PartNames : read'[f].training = disk[f].training
      BY <1>2, <3>1 DEF OrderInv
    <3> QED
      BY <1>2, <3>1, <3>2, <3>3, OrderKept
  <2> QED
    BY <1>2, <2>1, <2>2, <2>3, <2>4, <2>5, OrderTrain, OrderSavePart, OrderSaved,
       OrderCrash DEF Next
<1> QED
  BY <1>1, <1>2, PTL DEF Spec

----------------------------------------------------------------------------
(* The bins.                                                               *)

LEMMA Division ==
    ASSUME NEW d \in Nat, NEW n \in Nat \ {0}
    PROVE  /\ d \div n \in Nat /\ d % n \in 0..(n - 1)
           /\ d = n * (d \div n) + (d % n)
  OBVIOUS

\* The size of bin b, and of all bins up to b.
Cap(q, r, b) == IF b <= r THEN q + 1 ELSE q
Full(q, r, b) == b * q + (IF b < r THEN b ELSE r)

LEMMA FullFacts ==
    ASSUME NEW n \in Nat \ {0}, NEW q \in Nat, NEW r \in 0..(n - 1)
    PROVE  /\ Full(q, r, 0) = 0 /\ Full(q, r, n) = n * q + r
           /\ \A b \in 0..n : Full(q, r, b) \in Nat
           /\ \A b \in 1..n : Full(q, r, b) = Full(q, r, b - 1) + Cap(q, r, b)
<1>1. Full(q, r, 0) = 0
  BY DEF Full
<1>2. Full(q, r, n) = n * q + r
  BY DEF Full
<1>3. ASSUME NEW b \in 0..n
      PROVE  Full(q, r, b) \in Nat
  <2>1. b * q \in Nat
    OBVIOUS
  <2> QED
    BY <2>1 DEF Full
<1>4. ASSUME NEW b \in 1..n
      PROVE  Full(q, r, b) = Full(q, r, b - 1) + Cap(q, r, b)
  <2>1. b * q = (b - 1) * q + q /\ (b - 1) * q \in Nat
    OBVIOUS
  <2> QED
    BY <2>1 DEF Full, Cap
<1> QED
  BY <1>1, <1>2, <1>3, <1>4

\* After d dimensions: c bins are full, the next takes the rest of them.
Reached(sizes, num_high, threshold, n, q, r, d, c) ==
    /\ sizes \in [1..n -> Nat]
    /\ \A b \in 1..c : sizes[b] = Cap(q, r, b)
    /\ c < n => /\ sizes[c + 1] = d - Full(q, r, c)
                /\ Full(q, r, c) <= d /\ d < Full(q, r, c + 1)
    /\ \A b \in 1..n : b > c + 1 => sizes[b] = 0
    /\ c = n => d = Full(q, r, n)
    /\ num_high \in Nat
    /\ r > 0 => num_high = IF c < r THEN c ELSE r
    /\ threshold = IF c < r THEN q + 1 ELSE q

\* Bin b is the first below the threshold.
CanTake(sizes, threshold, b) ==
    sizes[b] < threshold /\ \A a \in 1..(b - 1) : sizes[a] >= threshold

\* Bin b has taken a dimension.
Taken(s, h, t, sizes, num_high, threshold, n, q, r, b) ==
    /\ sizes \in [1..n -> Nat] /\ sizes[b] = s[b] + 1
    /\ \A a \in 1..n : a # b => sizes[a] = s[a]
    /\ num_high = IF sizes[b] = (IF r = 0 THEN q ELSE q + 1) THEN h + 1 ELSE h
    /\ threshold = IF num_high # h /\ num_high = r THEN q ELSE t

\* The bin that is being filled is the only one the next dimension may go to.
LEMMA BestBin ==
    ASSUME NEW n \in Nat \ {0}, NEW q \in Nat \ {0}, NEW r \in 0..(n - 1),
           NEW d \in Nat, NEW c \in 0..(n - 1), NEW sizes, NEW num_high, NEW threshold,
           Reached(sizes, num_high, threshold, n, q, r, d, c)
    PROVE  \A b \in 1..n : CanTake(sizes, threshold, b) <=> b = c + 1
<1>1. c + 1 \in 1..n /\ (c + 1) - 1 = c /\ c \in Nat
  OBVIOUS
<1>2. /\ sizes \in [1..n -> Nat] /\ threshold \in Nat
      /\ threshold = Cap(q, r, c + 1)
  BY DEF Reached, Cap
<1>3. sizes[c + 1] < threshold
  <2>1. /\ Full(q, r, c) \in Nat
        /\ Full(q, r, c + 1) = Full(q, r, (c + 1) - 1) + Cap(q, r, c + 1)
    BY <1>1, FullFacts
  <2>2. sizes[c + 1] = d - Full(q, r, c) /\ d < Full(q, r, c + 1)
    BY <1>1 DEF Reached
  <2>3. Full(q, r, c + 1) = Full(q, r, c) + threshold
    BY ONLY <1>1, <1>2, <2>1
  <2> DEFINE F == Full(q, r, c)
             G == Full(q, r, c + 1)
             v == sizes[c + 1]
  <2>4. /\ F \in Nat /\ threshold \in Nat /\ d \in Nat
        /\ G = F + threshold /\ v = d - F /\ d < G
    BY <1>2, <2>1, <2>2, <2>3
  <2>5. v < threshold
    <3> HIDE DEF F, G, v
    <3> QED
      BY ONLY <2>4
  <2> QED
    BY <2>5
<1>4. ASSUME NEW a \in 1..c
      PROVE  sizes[a] >= threshold
  <2>1. sizes[a] = Cap(q, r, a)
    BY DEF Reached
  <2> QED
    BY <1>2, <2>1 DEF Cap
<1>5. CanTake(sizes, threshold, c + 1)
  BY <1>1, <1>3, <1>4 DEF CanTake
<1>6. ASSUME NEW b \in 1..n, CanTake(sizes, threshold, b)
      PROVE  b = c + 1
  <2>1. CASE b < c + 1
    <3>1. b \in 1..c
      BY <2>1
    <3>2. sizes[b] >= threshold
      BY <1>4, <3>1
    <3> QED
      BY ONLY <1>2, <1>6, <3>2 DEF CanTake
  <2>2. CASE b > c + 1
    <3>1. c + 1 \in 1..(b - 1)
      BY <2>2
    <3>2. sizes[c + 1] >= threshold
      BY <1>6, <3>1 DEF CanTake
    <3> QED
      BY <1>1, <1>2, <1>3, <3>2
  <2> QED
    BY <2>1, <2>2
<1> QED
  BY <1>5, <1>6

\* The numbers behind FillBin: the bin of size v takes dimensions F to G.
LEMMA FillNumbers ==
    ASSUME NEW n \in Nat \ {0}, NEW q \in Nat \ {0}, NEW r \in 0..(n - 1),
           NEW d \in Nat, NEW c \in 0..(n - 1), NEW F \in Nat, NEW G \in Nat,
           G = F + (IF c < r THEN q + 1 ELSE q), F <= d, d < G,
           NEW v, NEW h \in Nat, NEW t, NEW num_high, NEW threshold,
           v = d - F + 1,
           r > 0 => h = IF c < r THEN c ELSE r,
           t = IF c < r THEN q + 1 ELSE q,
           num_high = IF v = (IF r = 0 THEN q ELSE q + 1) THEN h + 1 ELSE h,
           threshold = IF num_high # h /\ num_high = r THEN q ELSE t
    PROVE  /\ v = (d + 1) - F /\ num_high \in Nat
           /\ d + 1 < G => (r > 0 => num_high = h) /\ threshold = t
           /\ ~ (d + 1 < G) => /\ d + 1 = G /\ v = IF c < r THEN q + 1 ELSE q
                               /\ r > 0 => num_high = IF c + 1 < r THEN c + 1 ELSE r
                               /\ threshold = IF c + 1 < r THEN q + 1 ELSE q
<1>1. v = (d + 1) - F /\ num_high \in Nat
  OBVIOUS
<1>2. ASSUME d + 1 < G
      PROVE  (r > 0 => num_high = h) /\ threshold = t
  BY <1>2
<1>3. ASSUME ~ (d + 1 < G)
      PROVE  /\ d + 1 = G /\ v = IF c < r THEN q + 1 ELSE q
             /\ r > 0 => num_high = IF c + 1 < r THEN c + 1 ELSE r
             /\ threshold = IF c + 1 < r THEN q + 1 ELSE q
  BY <1>3
<1> QED
  BY <1>1, <1>2, <1>3

\* The bin that is being filled gets one dimension more.
LEMMA FillBin ==
    ASSUME NEW n \in Nat \ {0}, NEW q \in Nat \ {0}, NEW r \in 0..(n - 1),
           NEW d \in Nat, NEW c \in 0..(n - 1), NEW s, NEW h, NEW t,
           Reached(s, h, t, n, q, r, d, c),
           NEW sizes, NEW num_high, NEW threshold,
           Taken(s, h, t, sizes, num_high, threshold, n, q, r, c + 1)
    PROVE  \E e \in 0..n : Reached(sizes, num_high, threshold, n, q, r, d + 1, e)
<1>1. c + 1 \in 1..n /\ (c + 1) - 1 = c /\ c \in Nat /\ c \in 0..n /\ c + 1 \in 0..n /\ c < n
  OBVIOUS
<1>2. /\ Full(q, r, c) \in Nat /\ Full(q, r, c + 1) \in Nat
      /\ Full(q, r, c + 1) = Full(q, r, c) + Cap(q, r, c + 1)
      /\ Cap(q, r, c + 1) = IF c < r THEN q + 1 ELSE q
  <2>1. /\ Full(q, r, c) \in Nat /\ Full(q, r, c + 1) \in Nat
        /\ Full(q, r, c + 1) = Full(q, r, (c + 1) - 1) + Cap(q, r, c + 1)
    BY <1>1, FullFacts
  <2>2. Cap(q, r, c + 1) = IF c < r THEN q + 1 ELSE q
    BY <1>1 DEF Cap
  <2> QED
    BY <1>1, <2>1, <2>2
<1>3. /\ s \in [1..n -> Nat] /\ s[c + 1] = d - Full(q, r, c)
      /\ Full(q, r, c) <= d /\ d < Full(q, r, c + 1)
      /\ h \in Nat
      /\ r > 0 => h = IF c < r THEN c ELSE r
      /\ t = IF c < r THEN q + 1 ELSE q
  BY <1>1 DEF Reached
<1>4. /\ sizes \in [1..n -> Nat] /\ sizes[c + 1] = s[c + 1] + 1
      /\ \A b \in 1..n : b # c + 1 => sizes[b] = s[b]
  BY DEF Taken
<1>5. \A b \in 1..n : b > c + 1 => sizes[b] = 0
  BY <1>4 DEF Reached
<1>6. \A b \in 1..c : sizes[b] = Cap(q, r, b)
  <2>1. \A b \in 1..c : b \in 1..n /\ b # c + 1 /\ s[b] = Cap(q, r, b)
    BY <1>1 DEF Reached
  <2> QED
    BY <1>4, <2>1
<1> DEFINE F == Full(q, r, c)
           G == Full(q, r, c + 1)
           v == sizes[c + 1]
<1>7. /\ v = (d + 1) - F /\ num_high \in Nat
      /\ d + 1 < G => (r > 0 => num_high = h) /\ threshold = t
      /\ ~ (d + 1 < G) => /\ d + 1 = G /\ v = IF c < r THEN q + 1 ELSE q
                          /\ r > 0 => num_high = IF c + 1 < r THEN c + 1 ELSE r
                          /\ threshold = IF c + 1 < r THEN q + 1 ELSE q
  <2>1. G = F + (IF c < r THEN q + 1 ELSE q) /\ F \in Nat /\ G \in Nat
    BY <1>2
  <2>2. F <= d /\ d < G
    BY <1>3
  <2>3. v = d - F + 1
    BY <1>3, <1>4
  <2>4. h \in Nat /\ (r > 0 => h = IF c < r THEN c ELSE r)
        /\ t = IF c < r THEN q + 1 ELSE q
    BY <1>3
  <2>5. /\ num_high = IF v = (IF r = 0 THEN q ELSE q + 1) THEN h + 1 ELSE h
        /\ threshold = IF num_high # h /\ num_high = r THEN q ELSE t
    BY DEF Taken
  <2> HIDE DEF F, G, v
  <2> QED
    BY ONLY <2>1, <2>2, <2>3, <2>4, <2>5, FillNumbers, n \in Nat \ {0}, q \in Nat \ {0},
       r \in 0..(n - 1), d \in Nat, c \in 0..(n - 1)
<1>8. CASE d + 1 < Full(q, r, c + 1)
  <2>2. r > 0 => num_high = h
    BY <1>7, <1>8
  <2>3. threshold = t
    BY <1>7, <1>8
  <2>4. /\ c < n => /\ sizes[c + 1] = (d + 1) - Full(q, r, c)
                     /\ Full(q, r, c) <= d + 1 /\ d + 1 < Full(q, r, c + 1)
        /\ c = n => d + 1 = Full(q, r, n)
    <3>1. c < n /\ c # n
      BY <1>1
    <3>2. Full(q, r, c) <= d + 1
      BY <1>2, <1>3
    <3> QED
      BY ONLY <1>7, <1>8, <3>1, <3>2
  <2>5. /\ r > 0 => num_high = IF c < r THEN c ELSE r
        /\ threshold = IF c < r THEN q + 1 ELSE q
    BY <1>3, <2>2, <2>3
  <2>6. num_high \in Nat
    BY <1>7
  <2>7. Reached(sizes, num_high, threshold, n, q, r, d + 1, c)
    BY ONLY <1>4, <1>5, <1>6, <2>4, <2>5, <2>6 DEF Reached
  <2> QED
    BY <1>1, <2>7
<1>9. CASE ~ (d + 1 < Full(q, r, c + 1))
  <2>1. d + 1 = Full(q, r, c + 1) /\ sizes[c + 1] = Cap(q, r, c + 1)
    BY <1>2, <1>7, <1>9
  <2>3. r > 0 => num_high = IF c + 1 < r THEN c + 1 ELSE r
    BY <1>7, <1>9
  <2>4. threshold = IF c + 1 < r THEN q + 1 ELSE q
    BY <1>7, <1>9
  <2>5. \A b \in 1..(c + 1) : sizes[b] = Cap(q, r, b)
    BY <1>1, <1>6, <2>1
  <2>6. ASSUME c + 1 < n
        PROVE  sizes[(c + 1) + 1] = 0 /\ d + 1 < Full(q, r, (c + 1) + 1)
    <3>1. (c + 1) + 1 \in 1..n /\ ((c + 1) + 1) - 1 = c + 1 /\ (c + 1) + 1 > c + 1
      BY <1>1, <2>6
    <3>2. Full(q, r, (c + 1) + 1) = Full(q, r, ((c + 1) + 1) - 1) + Cap(q, r, (c + 1) + 1)
      BY <3>1, FullFacts
    <3>3. Cap(q, r, (c + 1) + 1) > 0 /\ Cap(q, r, (c + 1) + 1) \in Nat
      BY DEF Cap
    <3>4. sizes[(c + 1) + 1] = 0
      BY <1>5, <3>1
    <3> QED
      BY <1>2, <2>1, <3>1, <3>2, <3>3, <3>4
  <2>7. \A b \in 1..n : b > (c + 1) + 1 => sizes[b] = 0
    BY <1>1, <1>5
  <2>8. c + 1 < n => /\ sizes[(c + 1) + 1] = (d + 1) - Full(q, r, c + 1)
                     /\ Full(q, r, c + 1) <= d + 1
    BY <1>2, <2>1, <2>6
  <2>9. c + 1 = n => d + 1 = Full(q, r, n)
    BY <2>1
  <2>10. Reached(sizes, num_high, threshold, n, q, r, d + 1, c + 1)
    BY <1>4, <1>7, <2>3, <2>4, <2>5, <2>6, <2>7, <2>8, <2>9 DEF Reached
  <2> QED
    BY <1>1, <2>10
<1> QED
  BY <1>8, <1>9

\* The step of the recursion, in terms of quotient and remainder.
LEMMA PushIs ==
    ASSUME NEW dim \in Nat, NEW n \in Nat \ {0}, NEW st
    PROVE  LET q == dim \div n
               r == dim % n
               best == CHOOSE b \in 1..n : /\ st.sizes[b] < st.threshold
                                           /\ \A a \in 1..(b - 1) : st.sizes[a] >= st.threshold
               sizes == [st.sizes EXCEPT ![best] = @ + 1]
               num_high == IF sizes[best] = (IF r = 0 THEN q ELSE q + 1)
                           THEN st.num_high + 1 ELSE st.num_high
           IN  PushDim(dim, n, st) =
                  [sizes |-> sizes, num_high |-> num_high,
                   threshold |-> IF num_high # st.num_high /\ num_high = r
                                 THEN q ELSE st.threshold]
<1>1. dim - (dim \div n) * n = dim % n
  BY Division
<1> QED
  BY <1>1 DEF PushDim

\* A dimension more: the bins are still filled one after the other.
LEMMA PushStep ==
    ASSUME NEW dim \in Nat, NEW n \in Nat \ {0}, n <= dim,
           NEW d \in 0..(dim - 1), NEW st, NEW c \in 0..n,
           Reached(st.sizes, st.num_high, st.threshold, n, dim \div n, dim % n, d, c)
    PROVE  LET new == PushDim(dim, n, st)
           IN  \E e \in 0..n : Reached(new.sizes, new.num_high, new.threshold,
                                       n, dim \div n, dim % n, d + 1, e)
<1> DEFINE q == dim \div n
           r == dim % n
           s == st.sizes
           h == st.num_high
           t == st.threshold
           best == CHOOSE b \in 1..n : CanTake(s, t, b)
           sizes == [s EXCEPT ![best] = @ + 1]
           num_high == IF sizes[best] = (IF r = 0 THEN q ELSE q + 1) THEN h + 1 ELSE h
           threshold == IF num_high # h /\ num_high = r THEN q ELSE t
           new == PushDim(dim, n, st)
<1>1. new.sizes = sizes /\ new.num_high = num_high /\ new.threshold = threshold
  <2>1. new = [sizes |-> sizes, num_high |-> num_high, threshold |-> threshold]
    BY PushIs DEF CanTake
  <2> HIDE DEF new, sizes, num_high, threshold
  <2> QED
    BY <2>1
<1>2. q \in Nat \ {0} /\ r \in 0..(n - 1) /\ dim = n * q + r
  <2>1. q \in Nat /\ r \in 0..(n - 1) /\ dim = n * q + r
    BY Division
  <2>2. q # 0
    <3> HIDE DEF q, r
    <3>1. q = 0 => n * q = 0
      OBVIOUS
    <3> QED
      BY <2>1, <3>1
  <2> QED
    BY <2>1, <2>2
<1>3. Reached(s, h, t, n, q, r, d, c)
  OBVIOUS
<1> HIDE DEF q, r, s, h, t
<1>4. q \in Nat \ {0} /\ r \in 0..(n - 1) /\ n \in Nat \ {0} /\ d \in Nat
  BY <1>2
<1>5. Full(q, r, n) = dim /\ Full(q, r, c) \in Nat
  BY <1>2, FullFacts
<1>6. c \in 0..(n - 1) /\ c + 1 \in 1..n /\ (c + 1) - 1 = c
  <2>1. c # n
    BY <1>3, <1>5 DEF Reached
  <2> QED
    BY <2>1
<1>8. \A b \in 1..n : CanTake(s, t, b) <=> b = c + 1
  BY ONLY <1>3, <1>4, <1>6, BestBin
<1>9. best = c + 1
  BY <1>6, <1>8
<1> HIDE DEF best
<1>10. s \in [1..n -> Nat]
  BY <1>3 DEF Reached
<1>11. /\ sizes \in [1..n -> Nat] /\ sizes[c + 1] = s[c + 1] + 1
       /\ \A b \in 1..n : b # c + 1 => sizes[b] = s[b]
  BY ONLY <1>6, <1>9, <1>10
<1>12. num_high = IF sizes[c + 1] = (IF r = 0 THEN q ELSE q + 1) THEN h + 1 ELSE h
  BY ONLY <1>9
<1> HIDE DEF sizes, num_high
<1>13. threshold = IF num_high # h /\ num_high = r THEN q ELSE t
  OBVIOUS
<1> HIDE DEF threshold
<1>14. \E e \in 0..n : Reached(sizes, num_high, threshold, n, q, r, d + 1, e)
  <2>1. Taken(s, h, t, sizes, num_high, threshold, n, q, r, c + 1)
    BY ONLY <1>11, <1>12, <1>13 DEF Taken
  <2> QED
    BY ONLY <1>3, <1>4, <1>6, <2>1, FillBin
<1> HIDE DEF new
<1>15. \E e \in 0..n : Reached(new.sizes, new.num_high, new.threshold, n, q, r, d + 1, e)
  BY ONLY <1>1, <1>14
<1> QED
  BY ONLY <1>15 DEF q, r, new

\* The counts of the recursion stay counts.
LEMMA PushInto ==
    ASSUME NEW dim \in Nat, NEW n \in Nat \ {0},
           NEW st \in [sizes : [1..n -> Nat], num_high : Nat, threshold : Nat]
    PROVE  PushDim(dim, n, st) \in [sizes : [1..n -> Nat], num_high : Nat, threshold : Nat]
<1> DEFINE q == dim \div n
           r == dim % n
           s == st.sizes
           h == st.num_high
           t == st.threshold
           best == CHOOSE b \in 1..n : CanTake(s, t, b)
           sizes == [s EXCEPT ![best] = @ + 1]
           num_high == IF sizes[best] = (IF r = 0 THEN q ELSE q + 1) THEN h + 1 ELSE h
           threshold == IF num_high # h /\ num_high = r THEN q ELSE t
<1>1. PushDim(dim, n, st) = [sizes |-> sizes, num_high |-> num_high, threshold |-> threshold]
  BY PushIs DEF CanTake
<1>2. q \in Nat
  BY Division
<1>3. s \in [1..n -> Nat] /\ h \in Nat /\ t \in Nat
  OBVIOUS
<1> HIDE DEF q, r, s, h, t, best
<1>4. sizes \in [1..n -> Nat]
  <2>1. CASE best \in 1..n
    BY ONLY <1>3, <2>1
  <2>2. CASE best \notin 1..n
    <3>1. sizes = s
      BY ONLY <1>3, <2>2
    <3> QED
      BY ONLY <1>3, <3>1
  <2> QED
    BY <2>1, <2>2
<1> HIDE DEF sizes
<1>5. num_high \in Nat
  BY ONLY <1>3
<1> HIDE DEF num_high
<1>6. threshold \in Nat
  BY ONLY <1>2, <1>3
<1> HIDE DEF threshold
<1> QED
  BY ONLY <1>1, <1>4, <1>5, <1>6

\* The bins are of two sizes, the larger ones first.
LEMMA BinFacts ==
    ASSUME NEW dim \in Nat, NEW n \in Nat \ {0}, n <= dim
    PROVE  /\ BinSizes(dim, n) \in [1..n -> Nat]
           /\ \A b \in 1..n : BinSizes(dim, n)[b] = Cap(dim \div n, dim % n, b)
<1> DEFINE V == [sizes : [1..n -> Nat], num_high : Nat, threshold : Nat]
           x == NoDims(dim, n)
           B(g) == [d \in 0..dim |-> IF d = 0 THEN x ELSE PushDim(dim, n, g[d - 1])]
           step == [d \in 1..dim |-> [st \in V |-> PushDim(dim, n, st)]]
           c == CHOOSE g : g = B(g)
           q == dim \div n
           r == dim % n
<1>1. BinSizes(dim, n) = c[dim].sizes
  BY DEF BinSizes
<1>2. q \in Nat /\ r \in 0..(n - 1) /\ dim = n * q + r
  BY Division
<1>3. \E g : g = B(g)
  <2>1. \A st \in V : PushDim(dim, n, st) \in V
    BY PushInto
  <2>2. x \in V
    <3>1. x = [sizes |-> [b \in 1..n |-> 0], num_high |-> 0,
               threshold |-> IF r = 0 THEN q ELSE q + 1]
      BY DEF NoDims
    <3> HIDE DEF q, r, x
    <3>2. (IF r = 0 THEN q ELSE q + 1) \in Nat
      BY <1>2
    <3>3. [b \in 1..n |-> 0] \in [1..n -> Nat]
      OBVIOUS
    <3> QED
      BY ONLY <3>1, <3>2, <3>3
  <2> HIDE DEF x, V
  <2>3. step \in [1..dim -> [V -> V]]
    BY <2>1
  <2>4. \A d \in 1..dim : \A st \in V : step[d][st] = PushDim(dim, n, st)
    OBVIOUS
  <2> HIDE DEF step
  <2>5. HasValue(dim, V, x, step)
    BY <2>2, <2>3, Recursion
  <2>6. PICK f : f \in [0..dim -> V] /\ f[0] = x /\ \A d \in 1..dim : f[d] = step[d][f[d - 1]]
    BY <2>5 DEF HasValue
  <2>7. \A d \in 0..dim : d # 0 => d \in 1..dim /\ d - 1 \in 0..dim
    OBVIOUS
  <2>8. \A d \in 0..dim : f[d] = IF d = 0 THEN x ELSE PushDim(dim, n, f[d - 1])
    BY ONLY <2>4, <2>6, <2>7
  <2>9. f = B(f)
    BY ONLY <2>6, <2>8
  <2> QED
    BY <2>9
<1> HIDE DEF B
<1>4. c = B(c)
  BY <1>3
<1> HIDE DEF c
<1>5. c[0] = x /\ \A d \in 1..dim : c[d] = PushDim(dim, n, c[d - 1])
  <2> HIDE DEF x
  <2>1. B(c)[0] = x /\ \A d \in 1..dim : B(c)[d] = PushDim(dim, n, c[d - 1])
    BY DEF B
  <2> QED
    BY ONLY <1>4, <2>1
<1> DEFINE S == {d \in 0..dim : \E e \in 0..n :
                    Reached(c[d].sizes, c[d].num_high, c[d].threshold, n, q, r, d, e)}
<1>6. q # 0
  <2> HIDE DEF q, r
  <2>1. q = 0 => n * q = 0
    OBVIOUS
  <2> QED
    BY <1>2, <2>1
<1>7. 0 \in S
  <2>1. x = [sizes |-> [b \in 1..n |-> 0], num_high |-> 0,
             threshold |-> IF r = 0 THEN q ELSE q + 1]
    BY DEF NoDims
  <2> HIDE DEF q, r, x
  <2>2. x.sizes = [b \in 1..n |-> 0] /\ x.num_high = 0 /\ x.threshold = IF r = 0 THEN q ELSE q + 1
    BY ONLY <2>1
  <2>3. /\ Full(q, r, 0) = 0 /\ Full(q, r, 1) = Full(q, r, 1 - 1) + Cap(q, r, 1)
    BY <1>2, FullFacts, 1 \in 1..n
  <2>4. Cap(q, r, 1) \in Nat /\ Cap(q, r, 1) > 0
    BY <1>2, <1>6 DEF Cap
  <2>5. 0 < Full(q, r, 0 + 1) /\ Full(q, r, 0) <= 0 /\ 0 = 0 - Full(q, r, 0)
    BY ONLY <2>3, <2>4
  <2>6. 0 + 1 \in 1..n /\ 0 \in 0..n /\ 0 # n /\ r \in Nat
    BY <1>2
  <2>7. /\ x.sizes \in [1..n -> Nat] /\ \A b \in 1..n : x.sizes[b] = 0
    BY ONLY <2>2, <2>6
  <2>8. x.sizes[0 + 1] = 0
    BY ONLY <2>6, <2>7
  <2>9. x.num_high \in Nat /\ x.num_high = (IF 0 < r THEN 0 ELSE r)
        /\ x.threshold = IF 0 < r THEN q + 1 ELSE q
    BY ONLY <2>2, <2>6
  <2>10. Reached(x.sizes, x.num_high, x.threshold, n, q, r, 0, 0)
    BY ONLY <2>5, <2>6, <2>7, <2>8, <2>9 DEF Reached
  <2>11. 0 \in 0..dim
    OBVIOUS
  <2> QED
    BY ONLY <1>5, <2>6, <2>10, <2>11
<1>8. ASSUME NEW d \in 0..(dim - 1), d \in S
      PROVE  d + 1 \in S
  <2>1. PICK e \in 0..n : Reached(c[d].sizes, c[d].num_high, c[d].threshold, n, q, r, d, e)
    BY <1>8
  <2>2. d + 1 \in 1..dim /\ (d + 1) - 1 = d /\ d + 1 \in 0..dim
    OBVIOUS
  <2>3. c[d + 1] = PushDim(dim, n, c[d])
    BY ONLY <1>5, <2>2
  <2>4. LET new == PushDim(dim, n, c[d])
        IN  \E f \in 0..n : Reached(new.sizes, new.num_high, new.threshold, n, q, r, d + 1, f)
    BY <2>1, PushStep
  <2>5. \E f \in 0..n : Reached(c[d + 1].sizes, c[d + 1].num_high, c[d + 1].threshold,
                                n, q, r, d + 1, f)
    <3> HIDE DEF q, r
    <3> QED
      BY ONLY <2>3, <2>4
  <2> HIDE DEF q, r
  <2> QED
    BY ONLY <2>2, <2>5
<1>9. dim \in S
  <2> HIDE DEF S
  <2>1. \A d \in 0..dim : d \in S
    BY <1>7, <1>8, InductionTo
  <2> QED
    BY <2>1
<1>10. PICK e \in 0..n : Reached(c[dim].sizes, c[dim].num_high, c[dim].threshold,
                                 n, q, r, dim, e)
  BY <1>9
<1> HIDE DEF q, r
<1>11. e = n
  <2> SUFFICES ASSUME e # n
               PROVE  FALSE
    OBVIOUS
  <2>1. e < n /\ e + 1 \in 1..n /\ e + 1 \in 0..n
    OBVIOUS
  <2>2. dim < Full(q, r, e + 1)
    BY <1>10, <2>1 DEF Reached
  <2>3. Full(q, r, n) = dim
    BY <1>2, FullFacts
  <2>4. Full(q, r, e + 1) <= Full(q, r, n)
    <3>1. (e + 1) * q <= n * q
      <4>1. n * q = (e + 1) * q + (n - (e + 1)) * q /\ (n - (e + 1)) * q \in Nat
            /\ (e + 1) * q \in Nat /\ n * q \in Nat
        BY <1>2, <2>1
      <4> QED
        BY ONLY <4>1
    <3>2. Full(q, r, n) = n * q + r
      BY <1>2, FullFacts
    <3>3. Full(q, r, e + 1) = (e + 1) * q + (IF e + 1 < r THEN e + 1 ELSE r)
      BY DEF Full
    <3>4. (e + 1) * q \in Nat /\ n * q \in Nat
      BY <1>2
    <3> QED
      BY <1>2, <2>1, <3>1, <3>2, <3>3, <3>4
  <2>5. Full(q, r, e + 1) \in Nat
    BY <1>2, <2>1, FullFacts
  <2> QED
    BY ONLY <2>2, <2>3, <2>4, <2>5, dim \in Nat
<1>12. c[dim].sizes \in [1..n -> Nat] /\ \A b \in 1..n : c[dim].sizes[b] = Cap(q, r, b)
  BY ONLY <1>10, <1>11 DEF Reached
<1> QED
  BY ONLY <1>1, <1>12 DEF q, r

\* A bin begins where the one before it ends.
LEMMA BeginFacts ==
    ASSUME NEW n \in Nat \ {0}, NEW sizes \in [1..n -> Nat], NEW dim \in Nat
    PROVE  LET o == Offsets(sizes, dim)
           IN  /\ o \in Seq(Nat) /\ Len(o) = n + 1
               /\ o[1] = 0 /\ o[n + 1] = dim
               /\ \A b \in 1..n : b < n => o[b + 1] = o[b] + sizes[b]
<1> DEFINE B(g) == [b \in 0..n |-> IF b = 0 THEN 0 ELSE g[b - 1] + sizes[b]]
           c == CHOOSE g : g = B(g)
           step == [b \in 1..n |-> [x \in Nat |-> x + sizes[b]]]
           o == Offsets(sizes, dim)
<1>1. Len(sizes) = n
  OBVIOUS
<1>2. o = [b \in 1..(n + 1) |-> IF b <= n THEN c[b - 1] ELSE dim]
  BY <1>1 DEF Offsets
<1>3. \E f \in [0..n -> Nat] : f = B(f)
  <2>1. step \in [1..n -> [Nat -> Nat]]
    OBVIOUS
  <2>2. \A b \in 1..n : \A x \in Nat : step[b][x] = x + sizes[b]
    OBVIOUS
  <2> HIDE DEF step
  <2>3. HasValue(n, Nat, 0, step)
    BY <2>1, Recursion
  <2>4. PICK f : f \in [0..n -> Nat] /\ f[0] = 0 /\ \A b \in 1..n : f[b] = step[b][f[b - 1]]
    BY <2>3 DEF HasValue
  <2>5. \A b \in 0..n : b # 0 => b \in 1..n /\ b - 1 \in 0..n
    OBVIOUS
  <2>6. \A b \in 0..n : f[b] = IF b = 0 THEN 0 ELSE f[b - 1] + sizes[b]
    BY ONLY <2>2, <2>4, <2>5
  <2>7. f = B(f)
    BY ONLY <2>4, <2>6
  <2> QED
    BY <2>4, <2>7
<1> HIDE DEF B
<1>4. c = B(c)
  BY <1>3
<1> HIDE DEF c, o
<1>5. c[0] = 0 /\ \A b \in 1..n : c[b] = c[b - 1] + sizes[b]
  <2>1. B(c)[0] = 0 /\ \A b \in 1..n : B(c)[b] = c[b - 1] + sizes[b]
    BY DEF B
  <2> QED
    BY ONLY <1>4, <2>1
<1>6. \A b \in 0..n : c[b] \in Nat
  <2> DEFINE S == {b \in 0..n : c[b] \in Nat}
  <2>1. 0 \in S
    BY <1>5
  <2>2. ASSUME NEW b \in 0..(n - 1), b \in S
        PROVE  b + 1 \in S
    <3>1. b + 1 \in 1..n /\ (b + 1) - 1 = b /\ b + 1 \in 0..n
      OBVIOUS
    <3>2. sizes[b + 1] \in Nat /\ c[b] \in Nat
      BY <2>2, <3>1
    <3>3. c[b + 1] = c[b] + sizes[b + 1]
      BY ONLY <1>5, <3>1
    <3>4. c[b + 1] \in Nat
      BY ONLY <3>2, <3>3
    <3> QED
      BY <3>1, <3>4
  <2> HIDE DEF S
  <2>3. \A b \in 0..n : b \in S
    BY ONLY <2>1, <2>2, InductionTo, n \in Nat \ {0}
  <2> QED
    BY <2>3 DEF S
<1>7. \A b \in 1..(n + 1) : o[b] = (IF b <= n THEN c[b - 1] ELSE dim) /\ o[b] \in Nat
  <2> SUFFICES ASSUME NEW b \in 1..(n + 1)
               PROVE  o[b] = (IF b <= n THEN c[b - 1] ELSE dim) /\ o[b] \in Nat
    OBVIOUS
  <2>1. o[b] = IF b <= n THEN c[b - 1] ELSE dim
    BY <1>2
  <2>2. b <= n => b - 1 \in 0..n
    OBVIOUS
  <2> QED
    BY ONLY <1>6, <2>1, <2>2, dim \in Nat
<1>8. o \in Seq(Nat) /\ Len(o) = n + 1
  <2>1. o \in [1..(n + 1) -> Nat]
    BY ONLY <1>2, <1>7
  <2> QED
    BY <2>1
<1>9. o[1] = 0 /\ o[n + 1] = dim
  <2>1. 1 \in 1..(n + 1) /\ 1 <= n /\ 1 - 1 = 0 /\ n + 1 \in 1..(n + 1) /\ ~ (n + 1 <= n)
    OBVIOUS
  <2> QED
    BY ONLY <1>5, <1>7, <2>1
<1>10. ASSUME NEW b \in 1..n, b < n
       PROVE  o[b + 1] = o[b] + sizes[b]
  <2>1. /\ b \in 1..(n + 1) /\ b + 1 \in 1..(n + 1) /\ b <= n /\ b + 1 <= n
        /\ (b + 1) - 1 = b
    BY <1>10
  <2> QED
    BY ONLY <1>5, <1>7, <2>1, b \in 1..n
<1> QED
  BY <1>8, <1>9, <1>10 DEF o

\* Chunks that follow each other from the first dimension, none of them empty, their
\* sizes one apart at most.
EvenChunks(o) ==
    LET size(b) == o[b + 1] - o[b]
        chunks == 1..(Len(o) - 1)
    IN  /\ o[1] = 0
        /\ \A b \in chunks : size(b) > 0
        /\ \A a, b \in chunks : size(a) <= size(b) + 1

LEMMA OffsetFacts ==
    ASSUME NEW dim \in Nat, NEW n \in Nat \ {0}, n <= dim
    PROVE  LET o == Offsets(BinSizes(dim, n), dim)
           IN  /\ o \in Seq(Nat) /\ Len(o) = n + 1 /\ o[n + 1] = dim
               /\ EvenChunks(o)
<1> DEFINE q == dim \div n
           r == dim % n
           sizes == BinSizes(dim, n)
           o == Offsets(sizes, dim)
<1>1. q \in Nat /\ r \in 0..(n - 1) /\ dim = n * q + r
  BY Division
<1>2. q # 0
  <2> HIDE DEF q, r
  <2>1. q = 0 => n * q = 0
    OBVIOUS
  <2> QED
    BY <1>1, <2>1
<1>3. sizes \in [1..n -> Nat] /\ \A b \in 1..n : sizes[b] = Cap(q, r, b)
  BY BinFacts
<1> HIDE DEF sizes
<1>4. /\ o \in Seq(Nat) /\ Len(o) = n + 1
      /\ o[1] = 0 /\ o[n + 1] = dim
      /\ \A b \in 1..n : b < n => o[b + 1] = o[b] + sizes[b]
  BY <1>3, BeginFacts
<1> HIDE DEF q, r, o
<1>5. /\ Full(q, r, 0) = 0 /\ Full(q, r, n) = dim
      /\ \A b \in 0..n : Full(q, r, b) \in Nat
      /\ \A b \in 1..n : Full(q, r, b) = Full(q, r, b - 1) + Cap(q, r, b)
  BY <1>1, FullFacts
<1> DEFINE S == {b \in 0..n : o[b + 1] = Full(q, r, b)}
<1>6. ASSUME NEW b \in 0..(n - 1), b \in S
      PROVE  b + 1 \in S
  <2>1. b + 1 \in 1..n /\ (b + 1) - 1 = b /\ b + 1 \in 0..n
    OBVIOUS
  <2>2. CASE b + 1 < n
    <3>1. o[(b + 1) + 1] = o[b + 1] + sizes[b + 1]
      BY ONLY <1>4, <2>1, <2>2
    <3>2. o[b + 1] = Full(q, r, b) /\ sizes[b + 1] = Cap(q, r, b + 1)
      BY <1>3, <1>6, <2>1
    <3>3. Full(q, r, b + 1) = Full(q, r, b) + Cap(q, r, b + 1)
      BY ONLY <1>5, <2>1
    <3> QED
      BY ONLY <2>1, <3>1, <3>2, <3>3
  <2>3. CASE ~ (b + 1 < n)
    <3>1. b + 1 = n
      BY <2>1, <2>3
    <3> QED
      BY ONLY <1>4, <1>5, <2>1, <3>1
  <2> QED
    BY <2>2, <2>3
<1>7. 0 \in S
  <2>1. 0 \in 0..n /\ 0 + 1 = 1
    OBVIOUS
  <2> QED
    BY ONLY <1>4, <1>5, <2>1
<1>8. \A b \in 0..n : o[b + 1] = Full(q, r, b)
  <2> HIDE DEF S
  <2>1. \A b \in 0..n : b \in S
    BY ONLY <1>6, <1>7, InductionTo, n \in Nat \ {0}
  <2> QED
    BY ONLY <2>1 DEF S
<1>9. ASSUME NEW b \in 1..n
      PROVE  o[b + 1] - o[b] = Cap(q, r, b)
  <2>1. b \in 0..n /\ b - 1 \in 0..n /\ (b - 1) + 1 = b
    OBVIOUS
  <2>2. o[b + 1] = Full(q, r, b) /\ o[(b - 1) + 1] = Full(q, r, b - 1)
    BY ONLY <1>8, <2>1
  <2>3. /\ Full(q, r, b) = Full(q, r, b - 1) + Cap(q, r, b)
        /\ Full(q, r, b) \in Nat /\ Full(q, r, b - 1) \in Nat
    BY ONLY <1>5, <2>1, b \in 1..n
  <2>4. Cap(q, r, b) \in Nat
    BY <1>1 DEF Cap
  <2>5. o[b] = Full(q, r, b - 1)
    BY ONLY <2>1, <2>2
  <2> DEFINE F == Full(q, r, b - 1)
             G == Full(q, r, b)
             K == Cap(q, r, b)
  <2>6. o[b + 1] = G /\ o[b] = F /\ G = F + K /\ F \in Nat /\ G \in Nat /\ K \in Nat
    BY ONLY <2>2, <2>3, <2>4, <2>5
  <2>7. o[b + 1] - o[b] = K
    <3> HIDE DEF F, G, K
    <3> QED
      BY ONLY <2>6
  <2> QED
    BY <2>7
<1>10. \A b \in 1..n : Cap(q, r, b) \in {q, q + 1}
  BY DEF Cap
<1>11. EvenChunks(o)
  <2>1. 1..(Len(o) - 1) = 1..n
    BY <1>4
  <2>2. ASSUME NEW b \in 1..n
        PROVE  o[b + 1] - o[b] > 0
    <3>1. o[b + 1] - o[b] \in {q, q + 1}
      BY <1>9, <1>10
    <3> QED
      BY ONLY <1>1, <1>2, <3>1
  <2>3. ASSUME NEW a \in 1..n, NEW b \in 1..n
        PROVE  o[a + 1] - o[a] <= (o[b + 1] - o[b]) + 1
    <3>1. o[a + 1] - o[a] \in {q, q + 1} /\ o[b + 1] - o[b] \in {q, q + 1}
      BY <1>9, <1>10
    <3> QED
      BY ONLY <1>1, <3>1
  <2> QED
    BY ONLY <1>4, <2>1, <2>2, <2>3 DEF EvenChunks
<1> QED
  BY <1>4, <1>11 DEF o, sizes

----------------------------------------------------------------------------
(* What is encoded.                                                        *)

\* The offsets on disk are as many as the header says, and end at the dimension of a
\* centroid of the same training.
Recorded(d) ==
    LET f == d["chunk_offsets"]
    IN  /\ Len(f.values) = f.rows
        /\ f.values # << >> => EvenChunks(f.values)
        /\ f.whole /\ d["centroid"].training = f.training =>
              f.values # << >> /\ f.values[Len(f.values)] = d["centroid"].rows

\* What is being saved is of the size the run asks for; the offsets on disk are of an
\* earlier training until they are written.
Trained(d) ==
    /\ chunk_offsets # << >> /\ Len(chunk_offsets) = job.chunks + 1
    /\ chunk_offsets[Len(chunk_offsets)] = job.dim
    /\ "chunk_offsets" \in Range(unsaved) => d["chunk_offsets"].training < trainings
    /\ "centroid" \notin Range(unsaved) => d["centroid"].rows = job.dim

IsFile(f) == f = [k \in {"training", "rows", "cols", "whole", "values"} |-> f[k]]

\* The points of the blocks so far are encoded, with the files that were read.
Encoding(d) ==
    /\ \A f \in PartNames : read[f] = d[f]
    /\ d["centroid"].rows = job.dim
    /\ d["chunk_offsets"].whole /\ d["chunk_offsets"].rows = job.chunks + 1
    /\ IsFile(d["codes"]) /\ d["codes"].values \in Seq({1, 4})
    /\ \A i \in 1..Len(d["codes"].values) : d["codes"].values[i] = 1 => job.centers <= 256

ChunksInv ==
    /\ job \in Jobs
    /\ disk = [f \in Files |-> disk[f]]
    /\ chunk_offsets # << >> => EvenChunks(chunk_offsets)
    /\ Recorded(disk)
    /\ pc = "train" => job.chunks <= job.dim
    /\ pc = "save" => Trained(disk)
    /\ pc \in {"pivots", "train", "save", "load"} => block = 0
    /\ pc \in {"codes", "done"} => Encoding(disk)
    /\ pc = "codes" =>
          /\ block \in 0..num_blocks
          /\ disk["codes"].rows = IF block * block_size < job.num_points
                                  THEN block * block_size ELSE job.num_points
    /\ pc = "done" => disk["codes"].rows = job.num_points

LEMMA JobFacts ==
    ASSUME job \in Jobs
    PROVE  /\ job.num_points \in Nat \ {0} /\ job.dim \in Nat \ {0}
           /\ job.centers \in Nat \ {0} /\ job.chunks \in Nat \ {0}
           /\ block_size \in 1..job.num_points
  BY QuantiserAssumption DEF block_size

\* The blocks cover the points, and each begins before the last point.
LEMMA Blocks ==
    ASSUME NEW n \in Nat \ {0}, NEW size \in 1..n
    PROVE  LET blocks == (n + size - 1) \div size
           IN  /\ blocks \in Nat /\ n <= blocks * size
               /\ \A b \in 0..(blocks - 1) : b * size < n
<1> DEFINE blocks == (n + size - 1) \div size
           m == (n + size - 1) % size
<1>1. /\ blocks \in Nat /\ m \in 0..(size - 1)
      /\ n + size - 1 = size * blocks + m
  BY Division, n + size - 1 \in Nat, size \in Nat \ {0}
<1> HIDE DEF blocks, m
<1>2. size * blocks = blocks * size /\ blocks * size \in Nat
  BY <1>1
<1>3. n <= blocks * size
  BY ONLY <1>1, <1>2, n \in Nat, size \in 1..n
<1>4. ASSUME NEW b \in 0..(blocks - 1)
      PROVE  b * size < n
  <2>1. /\ blocks * size = b * size + (blocks - b - 1) * size + size
        /\ b * size \in Nat /\ (blocks - b - 1) * size \in Nat
    BY <1>1
  <2> QED
    BY ONLY <1>1, <1>2, <2>1, n \in Nat, size \in 1..n
<1> QED
  BY <1>1, <1>3, <1>4 DEF blocks

\* Another name on disk leaves what is recorded as it is.
LEMMA RecordedKept ==
    ASSUME NEW d, NEW e, Recorded(d),
           e["chunk_offsets"] = d["chunk_offsets"], e["centroid"] = d["centroid"]
    PROVE  Recorded(e)
  BY DEF Recorded

LEMMA ChunksInit ==
    ASSUME Init
    PROVE  ChunksInv
<1>1. /\ disk = [f \in Files |-> disk[f]] /\ \A f \in Files : disk[f] = Missing
      /\ chunk_offsets = << >> /\ job \in Jobs /\ pc = "idle"
  BY DEF Init
<1>2. Recorded(disk)
  <2>1. disk["chunk_offsets"] = Missing
    BY <1>1, NamesOfParts DEF PartNames
  <2> QED
    BY <2>1 DEF Recorded, Missing
<1> QED
  BY <1>1, <1>2 DEF ChunksInv

LEMMA ChunksStart ==
    ASSUME ChunksInv, Start
    PROVE  ChunksInv'
<1>1. /\ disk' = disk /\ job' \in Jobs /\ pc' = "pivots" /\ chunk_offsets' = << >> /\ block' = 0
  BY DEF Start
<1>2. Recorded(disk)'
  BY <1>1 DEF ChunksInv, Recorded
<1> QED
  BY <1>1, <1>2 DEF ChunksInv

LEMMA ChunksFindPivots ==
    ASSUME ChunksInv, FindPivots
    PROVE  ChunksInv'
<1>1. /\ disk' = disk /\ job' = job /\ chunk_offsets' = chunk_offsets /\ block' = block
      /\ pc = "pivots" /\ pc' \in {"load", "train", "died"}
      /\ pc' = "train" => ~ (job.chunks > job.dim)
  BY DEF FindPivots, counted
<1>2. Recorded(disk)'
  BY <1>1 DEF ChunksInv, Recorded
<1>3. pc' = "train" => job'.chunks <= job'.dim
  BY <1>1, JobFacts DEF ChunksInv
<1> QED
  BY <1>1, <1>2, <1>3 DEF ChunksInv

LEMMA ChunksTrain ==
    ASSUME ChunksInv, OrderInv, Train
    PROVE  ChunksInv'
<1>1. /\ disk' = disk /\ job' = job /\ block' = block /\ pc = "train" /\ pc' = "save"
      /\ chunk_offsets' = Offsets(BinSizes(job.dim, job.chunks), job.dim)
      /\ unsaved' = Parts /\ trainings' = trainings + 1
  BY DEF Train
<1>2. /\ chunk_offsets' \in Seq(Nat) /\ Len(chunk_offsets') = job.chunks + 1
      /\ chunk_offsets'[job.chunks + 1] = job.dim /\ EvenChunks(chunk_offsets')
  <2>1. job.dim \in Nat /\ job.chunks \in Nat \ {0} /\ job.chunks <= job.dim
    BY <1>1, JobFacts DEF ChunksInv
  <2> QED
    BY <1>1, <2>1, OffsetFacts
<1>3. chunk_offsets' # << >>
  BY <1>2, JobFacts DEF ChunksInv
<1>4. disk["chunk_offsets"].training < trainings + 1
  BY DEF OrderInv, Ordered, PartNames
<1>5. "centroid" \in Range(Parts)
  BY NamesOfParts DEF PartNames
<1>6. Trained(disk)'
  BY <1>1, <1>2, <1>3, <1>4, <1>5 DEF Trained
<1>7. Recorded(disk)'
  BY <1>1 DEF ChunksInv, Recorded
<1> QED
  BY <1>1, <1>2, <1>6, <1>7 DEF ChunksInv

\* The part that is written next, and the place of the centroid and the offsets.
LEMMA PlaceOfNext ==
    ASSUME OrderInv, pc = "save", unsaved # << >>
    PROVE  LET g == Head(unsaved)
               rest == Range(Tail(unsaved))
           IN  /\ g \in PartNames
               /\ Range(unsaved) = rest \cup {g} /\ g \notin rest
               /\ g = "chunk_offsets" => "centroid" \notin Range(unsaved)
               /\ g = "centroid" => "chunk_offsets" \in rest
<1>1. unsaved \in {Parts, <<"centroid", "rearrangement", "chunk_offsets">>,
                   <<"rearrangement", "chunk_offsets">>, <<"chunk_offsets">>}
  BY DEF OrderInv, Saving
<1>2. CASE unsaved = Parts
  <2>1. /\ unsaved = <<"pivots", "centroid", "rearrangement", "chunk_offsets">>
        /\ Head(unsaved) = "pivots"
        /\ Tail(unsaved) = <<"centroid", "rearrangement", "chunk_offsets">>
    BY <1>2 DEF Parts
  <2>2. /\ Range(unsaved) = PartNames
        /\ Range(Tail(unsaved)) = {"centroid", "rearrangement", "chunk_offsets"}
    BY <2>1 DEF Range, PartNames
  <2> QED
    BY <2>1, <2>2 DEF PartNames
<1>3. CASE unsaved = <<"centroid", "rearrangement", "chunk_offsets">>
  <2>1. /\ Head(unsaved) = "centroid"
        /\ Tail(unsaved) = <<"rearrangement", "chunk_offsets">>
    BY <1>3
  <2>2. /\ Range(unsaved) = {"centroid", "rearrangement", "chunk_offsets"}
        /\ Range(Tail(unsaved)) = {"rearrangement", "chunk_offsets"}
    BY <1>3, <2>1 DEF Range
  <2> QED
    BY <2>1, <2>2 DEF PartNames
<1>4. CASE unsaved = <<"rearrangement", "chunk_offsets">>
  <2>1. Head(unsaved) = "rearrangement" /\ Tail(unsaved) = <<"chunk_offsets">>
    BY <1>4
  <2>2. /\ Range(unsaved) = {"rearrangement", "chunk_offsets"}
        /\ Range(Tail(unsaved)) = {"chunk_offsets"}
    BY <1>4, <2>1 DEF Range
  <2> QED
    BY <2>1, <2>2 DEF PartNames
<1>5. CASE unsaved = <<"chunk_offsets">>
  <2>1. Head(unsaved) = "chunk_offsets" /\ Tail(unsaved) = << >>
    BY <1>5
  <2>2. Range(unsaved) = {"chunk_offsets"} /\ Range(Tail(unsaved)) = {}
    BY <1>5, <2>1 DEF Range
  <2> QED
    BY <2>1, <2>2 DEF PartNames
<1> QED
  BY <1>1, <1>2, <1>3, <1>4, <1>5

\* What is recorded when the next part is written, the whole of it or not.
LEMMA RecordedNext ==
    ASSUME ChunksInv, OrderInv, pc = "save", unsaved # << >>,
           NEW x, x \in {Matrix(Head(unsaved)), Torn(Matrix(Head(unsaved)))},
           disk' = [disk EXCEPT ![Head(unsaved)] = x]
    PROVE  /\ disk' = [f \in Files |-> disk'[f]]
           /\ \A f \in Files : disk'[f] = IF f = Head(unsaved) THEN x ELSE disk[f]
           /\ Recorded(disk)'
<1> DEFINE g == Head(unsaved)
<1>1. /\ g \in PartNames
      /\ g \in Range(unsaved)
      /\ g = "chunk_offsets" => "centroid" \notin Range(unsaved)
      /\ g = "centroid" => "chunk_offsets" \in Range(unsaved)
  BY PlaceOfNext
<1>2. /\ x.training = trainings
      /\ g = "chunk_offsets" => x.rows = job.chunks + 1 /\ x.values = chunk_offsets
  BY DEF Matrix, Torn
<1>3. /\ chunk_offsets # << >> /\ Len(chunk_offsets) = job.chunks + 1
      /\ EvenChunks(chunk_offsets)
      /\ chunk_offsets[Len(chunk_offsets)] = job.dim
      /\ "chunk_offsets" \in Range(unsaved) => disk["chunk_offsets"].training < trainings
      /\ "centroid" \notin Range(unsaved) => disk["centroid"].rows = job.dim
      /\ disk = [f \in Files |-> disk[f]] /\ Recorded(disk)
  BY DEF ChunksInv, Trained
<1>4. disk' = [disk EXCEPT ![g] = x]
  OBVIOUS
<1> HIDE DEF g
<1>5. /\ disk' = [f \in Files |-> disk'[f]]
      /\ \A f \in Files : disk'[f] = IF f = g THEN x ELSE disk[f]
  BY ONLY <1>1, <1>3, <1>4, NamesOfParts
<1>6. "chunk_offsets" \in Files /\ "centroid" \in Files
  BY NamesOfParts DEF PartNames
<1>7. Recorded(disk')
  <2>1. CASE g = "chunk_offsets"
    <3>1. disk'["chunk_offsets"] = x /\ disk'["centroid"] = disk["centroid"]
      BY ONLY <1>5, <1>6, <2>1
    <3> QED
      BY ONLY <1>1, <1>2, <1>3, <2>1, <3>1 DEF Recorded
  <2>2. CASE g = "centroid"
    <3>1. disk'["centroid"] = x /\ disk'["chunk_offsets"] = disk["chunk_offsets"]
      BY ONLY <1>5, <1>6, <2>2
    <3>2. disk["chunk_offsets"].training # trainings
      BY <1>1, <1>3, <2>2 DEF OrderInv, Ordered, PartNames
    <3> QED
      BY ONLY <1>2, <1>3, <3>1, <3>2 DEF Recorded
  <2>3. CASE g \notin {"chunk_offsets", "centroid"}
    <3>1. disk'["centroid"] = disk["centroid"] /\ disk'["chunk_offsets"] = disk["chunk_offsets"]
      BY ONLY <1>5, <1>6, <2>3
    <3> QED
      BY ONLY <1>3, <3>1, RecordedKept
  <2> QED
    BY <2>1, <2>2, <2>3
<1>8. Recorded(disk)' <=> Recorded(disk')
  BY DEF Recorded
<1> QED
  BY <1>5, <1>7, <1>8 DEF g

LEMMA ChunksSavePart ==
    ASSUME ChunksInv, OrderInv, SavePart
    PROVE  ChunksInv'
<1> DEFINE g == Head(unsaved)
           x == Matrix(g)
           rest == Range(Tail(unsaved))
<1>1. /\ pc = "save" /\ unsaved # << >> /\ disk' = [disk EXCEPT ![g] = x]
      /\ unsaved' = Tail(unsaved) /\ job' = job /\ pc' = pc /\ block' = block
      /\ chunk_offsets' = chunk_offsets /\ trainings' = trainings
  BY DEF SavePart, counted
<1>2. /\ g \in PartNames /\ Range(unsaved) = rest \cup {g} /\ g \notin rest
      /\ g = "chunk_offsets" => "centroid" \notin Range(unsaved)
  BY <1>1, PlaceOfNext
<1>3. /\ disk' = [f \in Files |-> disk'[f]]
      /\ \A f \in Files : disk'[f] = IF f = g THEN x ELSE disk[f]
      /\ Recorded(disk)'
  BY <1>1, RecordedNext
<1>4. g = "centroid" => x.rows = job.dim
  BY DEF Matrix
<1>5. Trained(disk) /\ "chunk_offsets" \in Files /\ "centroid" \in Files
  BY <1>1, NamesOfParts DEF ChunksInv, PartNames
<1>6. Range(unsaved') = rest
  BY <1>1
<1> HIDE DEF g, x, rest
<1>7. "chunk_offsets" \in rest => disk'["chunk_offsets"].training < trainings
  BY <1>2, <1>3, <1>5 DEF Trained
<1>8. "centroid" \notin rest => disk'["centroid"].rows = job.dim
  BY <1>2, <1>3, <1>4, <1>5 DEF Trained
<1>9. Trained(disk)'
  BY <1>1, <1>5, <1>6, <1>7, <1>8 DEF Trained
<1> QED
  BY <1>1, <1>3, <1>9 DEF ChunksInv

LEMMA ChunksSaved ==
    ASSUME ChunksInv, Saved
    PROVE  ChunksInv'
<1>1. /\ disk' = disk /\ job' = job /\ chunk_offsets' = chunk_offsets /\ block' = block
      /\ pc = "save" /\ pc' = "load"
  BY DEF Saved, counted
<1>2. Recorded(disk)'
  BY <1>1 DEF ChunksInv, Recorded
<1> QED
  BY <1>1, <1>2 DEF ChunksInv

LEMMA ChunksCrash ==
    ASSUME ChunksInv, OrderInv, Crash
    PROVE  ChunksInv'
<1>1. /\ job' = job /\ chunk_offsets' = chunk_offsets /\ block' = block /\ pc' = "idle"
      /\ \/ disk' = disk
         \/ /\ pc = "save" /\ unsaved # << >>
            /\ disk' = [disk EXCEPT ![Head(unsaved)] = Torn(Matrix(Head(unsaved)))]
  BY DEF Crash
<1>2. disk' = [f \in Files |-> disk'[f]] /\ Recorded(disk)'
  <2>1. CASE disk' = disk
    BY <2>1 DEF ChunksInv, Recorded
  <2>2. CASE disk' # disk
    <3> DEFINE x == Torn(Matrix(Head(unsaved)))
    <3>1. /\ pc = "save" /\ unsaved # << >>
          /\ x \in {Matrix(Head(unsaved)), Torn(Matrix(Head(unsaved)))}
          /\ disk' = [disk EXCEPT ![Head(unsaved)] = x]
      BY <1>1, <2>2
    <3> HIDE DEF x
    <3> QED
      BY <3>1, RecordedNext
  <2> QED
    BY <2>1, <2>2
<1> QED
  BY <1>1, <1>2 DEF ChunksInv

\* Steps that write to the codes leave what is recorded.
LEMMA CodesWritten ==
    ASSUME ChunksInv, NEW x, disk' = [disk EXCEPT !["codes"] = x]
    PROVE  /\ disk' = [f \in Files |-> disk'[f]] /\ disk'["codes"] = x
           /\ \A f \in PartNames : disk'[f] = disk[f]
           /\ Recorded(disk)'
<1>1. disk = [f \in Files |-> disk[f]] /\ Recorded(disk)
  BY DEF ChunksInv
<1>2. /\ disk' = [f \in Files |-> disk'[f]] /\ disk'["codes"] = x
      /\ \A f \in PartNames : disk'[f] = disk[f]
  BY <1>1, NamesOfParts
<1>3. disk'["chunk_offsets"] = disk["chunk_offsets"] /\ disk'["centroid"] = disk["centroid"]
  BY <1>2 DEF PartNames
<1>4. Recorded(disk')
  BY ONLY <1>1, <1>3, RecordedKept
<1>5. Recorded(disk)' <=> Recorded(disk')
  BY DEF Recorded
<1> QED
  BY <1>2, <1>4, <1>5

LEMMA ChunksLoadParts ==
    ASSUME ChunksInv, LoadParts
    PROVE  ChunksInv'
<1> DEFINE x == [training |-> disk["pivots"].training, rows |-> 0, cols |-> job.chunks,
                 whole |-> FALSE, values |-> << >>]
<1>1. /\ pc = "load" /\ job' = job /\ chunk_offsets' = chunk_offsets /\ block' = block
      /\ \/ pc' = "died" /\ disk' = disk
         \/ /\ pc' = "codes" /\ \A f \in PartNames : Fits(f)
            /\ read' = [f \in PartNames |-> disk[f]]
            /\ disk' = [disk EXCEPT !["codes"] = x]
  BY NamesOfParts DEF LoadParts, counted
<1>0. IsFile(x)
  BY DEF IsFile
<1>2. CASE pc' = "died" /\ disk' = disk
  <2>1. Recorded(disk)'
    BY <1>2 DEF ChunksInv, Recorded
  <2> QED
    BY <1>1, <1>2, <2>1 DEF ChunksInv
<1>3. CASE /\ pc' = "codes" /\ \A f \in PartNames : Fits(f)
           /\ read' = [f \in PartNames |-> disk[f]]
           /\ disk' = [disk EXCEPT !["codes"] = x]
  <2>1. x.rows = 0 /\ x.values = << >>
    OBVIOUS
  <2> HIDE DEF x
  <2>2. /\ disk' = [f \in Files |-> disk'[f]] /\ disk'["codes"] = x
        /\ \A f \in PartNames : disk'[f] = disk[f]
        /\ Recorded(disk)'
    BY <1>3, CodesWritten
  <2>3. "centroid" \in PartNames /\ "chunk_offsets" \in PartNames
    BY DEF PartNames
  <2>4. disk["centroid"].rows = job.dim
    BY <1>3, <2>3 DEF Fits
  <2>5. disk["chunk_offsets"].whole /\ disk["chunk_offsets"].rows = job.chunks + 1
    BY <1>3, <2>3 DEF Fits
  <2>6. Encoding(disk)'
    <3>1. \A f \in PartNames : read'[f] = disk'[f]
      BY <1>3, <2>2
    <3>2. disk'["codes"].values = << >> /\ << >> \in Seq({1, 4}) /\ Len(<< >>) = 0
      BY <2>1, <2>2
    <3>3. \A i \in 1..Len(disk'["codes"].values) : disk'["codes"].values[i] = 1 => job'.centers <= 256
      BY <3>2
    <3>4. disk'["codes"].values \in Seq({1, 4}) /\ IsFile(disk'["codes"])
      BY <1>0, <2>2, <3>2
    <3>5. /\ disk'["centroid"].rows = job'.dim
          /\ disk'["chunk_offsets"].whole /\ disk'["chunk_offsets"].rows = job'.chunks + 1
      BY <1>1, <2>2, <2>3, <2>4, <2>5
    <3>6. IsFile(disk["codes"])' <=> IsFile(disk'["codes"])
      BY DEF IsFile
    <3> QED
      BY <3>1, <3>3, <3>4, <3>5, <3>6 DEF Encoding
  <2>7. /\ job.num_points \in Nat \ {0} /\ block_size \in 1..job.num_points /\ block = 0
        /\ num_blocks \in Nat
    <3>1. job.num_points \in Nat \ {0} /\ block_size \in 1..job.num_points /\ block = 0
      BY <1>1, JobFacts DEF ChunksInv
    <3>2. num_blocks \in Nat
      BY <3>1, Blocks DEF num_blocks
    <3> QED
      BY <3>1, <3>2
  <2>8. block_size' = block_size /\ num_blocks' = num_blocks
    BY <1>1 DEF block_size, num_blocks
  <2>9. /\ block' \in 0..num_blocks'
        /\ disk'["codes"].rows = IF block' * block_size' < job'.num_points
                                 THEN block' * block_size' ELSE job'.num_points
    <3>1. 0 * block_size = 0 /\ 0 < job.num_points /\ 0 \in 0..num_blocks
      BY <2>7
    <3> QED
      BY <1>1, <2>1, <2>2, <2>7, <2>8, <3>1
  <2> QED
    BY <1>1, <1>3, <2>2, <2>6, <2>9 DEF ChunksInv
<1> QED
  BY <1>1, <1>2, <1>3

LEMMA ChunksEncodeBlock ==
    ASSUME ChunksInv, EncodeBlock
    PROVE  ChunksInv'
<1> DEFINE n == job.num_points
           s == block_size
           start_id == block * s
           end_id == IF start_id + s < n THEN start_id + s ELSE n
           bytes == IF job.centers > 256 THEN 4 ELSE 1
           c == disk["codes"]
<1>1. /\ pc = "codes" /\ pc' = pc /\ block < num_blocks /\ block' = block + 1 /\ job' = job
      /\ chunk_offsets' = chunk_offsets /\ read' = read
      /\ disk' = [disk EXCEPT !["codes"].rows = @ + (end_id - start_id),
                              !["codes"].values = Append(@, bytes)]
  BY DEF EncodeBlock, counted
<1>2. /\ n \in Nat \ {0} /\ s \in 1..n /\ job.centers \in Nat
  BY JobFacts DEF ChunksInv
<1>3. /\ num_blocks \in Nat /\ \A b \in 0..(num_blocks - 1) : b * s < n
  BY <1>2, Blocks DEF num_blocks
<1>4. /\ block \in 0..num_blocks /\ Encoding(disk) /\ "codes" \in Files
      /\ c.rows = IF start_id < n THEN start_id ELSE n
      /\ disk = [f \in Files |-> disk[f]]
  BY <1>1, NamesOfParts DEF ChunksInv
<1> HIDE DEF n, s
<1>5. c.values \in Seq({1, 4}) /\ IsFile(c)
      /\ \A i \in 1..Len(c.values) : c.values[i] = 1 => job.centers <= 256
  BY <1>4 DEF Encoding
<1>6. bytes \in {1, 4} /\ (bytes = 1 => job.centers <= 256)
  BY <1>2
<1> DEFINE rows == c.rows + (end_id - start_id)
           values == Append(c.values, bytes)
           x == [[c EXCEPT !.rows = rows] EXCEPT !.values = values]
<1>7. disk' = [disk EXCEPT !["codes"] = x]
  <2> HIDE DEF end_id, start_id, bytes
  <2> QED
    BY ONLY <1>1, <1>4 DEF x, c, rows, values
<1>8. x.rows = rows /\ x.values = values /\ IsFile(x)
  <2>1. IsFile(c)
    BY <1>5
  <2> HIDE DEF rows, values, c
  <2>2. x.rows = rows /\ x.values = values
    BY ONLY <2>1 DEF IsFile, x
  <2>3. IsFile(x)
    BY ONLY <2>1 DEF IsFile, x
  <2> QED
    BY <2>2, <2>3
<1>9. /\ values \in Seq({1, 4})
      /\ \A i \in 1..Len(values) : values[i] = 1 => job.centers <= 256
  <2> HIDE DEF bytes, c
  <2>1. /\ values \in Seq({1, 4}) /\ Len(values) = Len(c.values) + 1
        /\ \A i \in 1..Len(c.values) : values[i] = c.values[i]
        /\ values[Len(c.values) + 1] = bytes
    BY ONLY <1>5, <1>6, AppendProperties DEF values
  <2>2. \A i \in 1..Len(values) : i \in 1..Len(c.values) \/ i = Len(c.values) + 1
    BY ONLY <1>5, <2>1
  <2> QED
    BY ONLY <1>5, <1>6, <2>1, <2>2
<1>10. /\ block \in 0..(num_blocks - 1) /\ block + 1 \in 0..num_blocks
       /\ start_id < n /\ start_id \in Nat /\ (block + 1) * s = start_id + s
  <2>1. block \in 0..(num_blocks - 1) /\ block + 1 \in 0..num_blocks /\ block \in Nat
    BY ONLY <1>1, <1>3, <1>4
  <2>2. start_id < n
    BY ONLY <1>3, <2>1 DEF start_id
  <2>3. start_id \in Nat /\ (block + 1) * s = start_id + s
    BY ONLY <1>2, <2>1 DEF start_id
  <2> QED
    BY <2>1, <2>2, <2>3
<1>11. rows = IF (block + 1) * s < n THEN (block + 1) * s ELSE n
  <2>1. c.rows = start_id
    BY ONLY <1>4, <1>10
  <2> HIDE DEF c, start_id
  <2> QED
    BY ONLY <1>2, <1>10, <2>1 DEF rows, end_id
<1> HIDE DEF x, rows, values, c, end_id, start_id, bytes
<1>12. /\ disk' = [f \in Files |-> disk'[f]] /\ disk'["codes"] = x
       /\ \A f \in PartNames : disk'[f] = disk[f]
       /\ Recorded(disk)'
  BY <1>7, CodesWritten
<1>13. Encoding(disk)'
  <2>1. "centroid" \in PartNames /\ "chunk_offsets" \in PartNames
    BY DEF PartNames
  <2>2. IsFile(disk["codes"])' <=> IsFile(disk'["codes"])
    BY DEF IsFile
  <2> QED
    BY <1>1, <1>4, <1>8, <1>9, <1>12, <2>1, <2>2 DEF Encoding
<1>14. block_size' = block_size /\ num_blocks' = num_blocks
  BY <1>1 DEF block_size, num_blocks
<1>15. /\ block' \in 0..num_blocks'
       /\ disk'["codes"].rows = IF block' * block_size' < job'.num_points
                                THEN block' * block_size' ELSE job'.num_points
  <2>1. block' \in 0..num_blocks'
    BY ONLY <1>1, <1>10, <1>14
  <2>2. disk'["codes"].rows = IF (block + 1) * s < n THEN (block + 1) * s ELSE n
    BY ONLY <1>8, <1>11, <1>12
  <2>3. block' = block + 1 /\ block_size' = s /\ job'.num_points = n
    BY <1>1, <1>14 DEF s, n
  <2> QED
    BY ONLY <2>1, <2>2, <2>3
<1> QED
  BY <1>1, <1>12, <1>13, <1>15 DEF ChunksInv

LEMMA ChunksEncoded ==
    ASSUME ChunksInv, Encoded
    PROVE  ChunksInv'
<1> DEFINE n == job.num_points
           s == block_size
           c == disk["codes"]
           x == [c EXCEPT !.whole = TRUE]
<1>1. /\ pc = "codes" /\ pc' = "done" /\ block = num_blocks /\ block' = block /\ job' = job
      /\ chunk_offsets' = chunk_offsets /\ read' = read
      /\ disk' = [disk EXCEPT !["codes"].whole = TRUE]
  BY DEF Encoded, counted
<1>2. n \in Nat \ {0} /\ s \in 1..n
  BY JobFacts DEF ChunksInv
<1>3. n <= num_blocks * s /\ num_blocks \in Nat
  BY <1>2, Blocks DEF num_blocks
<1>4. /\ Encoding(disk)
      /\ c.rows = IF block * s < n THEN block * s ELSE n
  BY <1>1 DEF ChunksInv
<1>5. c.values \in Seq({1, 4}) /\ IsFile(c)
      /\ \A i \in 1..Len(c.values) : c.values[i] = 1 => job.centers <= 256
  BY <1>4 DEF Encoding
<1>6. disk' = [disk EXCEPT !["codes"] = x]
  BY <1>1
<1> HIDE DEF n, s, c
<1>7. x.rows = c.rows /\ x.values = c.values /\ IsFile(x)
  <2>1. IsFile(c)
    BY <1>5
  <2> QED
    BY ONLY <2>1 DEF IsFile, x
<1> HIDE DEF x
<1>8. /\ disk' = [f \in Files |-> disk'[f]] /\ disk'["codes"] = x
      /\ \A f \in PartNames : disk'[f] = disk[f]
      /\ Recorded(disk)'
  BY <1>6, CodesWritten
<1>9. Encoding(disk)'
  <2>1. "centroid" \in PartNames /\ "chunk_offsets" \in PartNames
    BY DEF PartNames
  <2>2. IsFile(disk["codes"])' <=> IsFile(disk'["codes"])
    BY DEF IsFile
  <2> QED
    BY <1>1, <1>4, <1>5, <1>7, <1>8, <2>1, <2>2 DEF Encoding
<1>10. disk'["codes"].rows = n
  <2>1. ~ (block * s < n)
    <3>1. num_blocks * s \in Nat
      BY ONLY <1>2, <1>3
    <3> QED
      BY ONLY <1>1, <1>2, <1>3, <3>1
  <2> QED
    BY ONLY <1>4, <1>7, <1>8, <2>1
<1> QED
  BY <1>1, <1>8, <1>9, <1>10 DEF ChunksInv, n

LEMMA ChunksInvariant == Spec => []ChunksInv
<1>1. Init => ChunksInv
  BY ChunksInit
<1>2. ASSUME ChunksInv, OrderInv, [Next]_vars
      PROVE  ChunksInv'
  <2>1. CASE UNCHANGED vars
    <3>1. /\ disk' = disk /\ job' = job /\ pc' = pc /\ unsaved' = unsaved
          /\ chunk_offsets' = chunk_offsets /\ read' = read /\ block' = block
          /\ trainings' = trainings
      BY <2>1 DEF vars, counted
    <3>2. Recorded(disk)' <=> Recorded(disk)
      BY <3>1 DEF Recorded
    <3>3. (Trained(disk)' <=> Trained(disk)) /\ (Encoding(disk)' <=> Encoding(disk))
      BY <3>1 DEF Trained, Encoding, IsFile
    <3>4. block_size' = block_size /\ num_blocks' = num_blocks
      BY <3>1 DEF block_size, num_blocks
    <3> QED
      BY <1>2, <3>1, <3>2, <3>3, <3>4 DEF ChunksInv
  <2>2. CASE Next
    BY <1>2, <2>2, ChunksStart, ChunksFindPivots, ChunksTrain, ChunksSavePart, ChunksSaved,
       ChunksLoadParts, ChunksEncodeBlock, ChunksEncoded, ChunksCrash DEF Next
  <2> QED
    BY <1>2, <2>1, <2>2
<1> QED
  BY <1>1, <1>2, OrderInvariant, PTL DEF Spec

----------------------------------------------------------------------------
(* The theorems.                                                           *)

\* A run of generate_pq that no run before it was cut short for ends with an exception
\* only for its number of chunks: its own pivots, and those other runs left, are always
\* of the size the three other files have.
THEOREM RefusedForChunks == Spec => []RefusedOnlyForChunks
<1>1. PartsInv => RefusedOnlyForChunks
  BY DEF PartsInv, Uncut, OtherChunks, PivotsFit, RefusedOnlyForChunks
<1> QED
  BY <1>1, PartsInvariant, PTL

\* generate_pq_data_from_pivots encodes with files of one training, however often
\* generate_pq was run and with whatever arguments, unless a run was cut short; then a
\* file may only be of an earlier training than the ones written before it.
THEOREM OneTrainingOrCut == Spec => []CodesOfOneTraining
<1>1. OrderInv => CodesOfOneTraining
  <2> SUFFICES ASSUME OrderInv, pc = "done", NEW i \in DOMAIN Parts, NEW j \in DOMAIN Parts,
                      i < j
               PROVE  \/ Training(Parts[i]) = Training(Parts[j])
                      \/ crashes > 0 /\ Training(Parts[i]) > Training(Parts[j])
    BY DEF CodesOfOneTraining
  <2>1. /\ \A f \in PartNames : Training(f) = disk[f].training
        /\ Ordered(disk) /\ crashes \in Nat
        /\ crashes = 0 => OneTraining(disk)
    BY DEF OrderInv, Training
  <2>2. /\ DOMAIN Parts = 1..4
        /\ Parts[1] = "pivots" /\ Parts[2] = "centroid"
        /\ Parts[3] = "rearrangement" /\ Parts[4] = "chunk_offsets"
    BY DEF Parts
  <2>3. Parts[i] \in PartNames /\ Parts[j] \in PartNames
    BY <2>2 DEF PartNames
  <2>4. disk[Parts[i]].training >= disk[Parts[j]].training
    BY <2>1, <2>2 DEF Ordered, PartNames
  <2>5. crashes = 0 => disk[Parts[i]].training = disk[Parts[j]].training
    BY <2>1, <2>3 DEF OneTraining
  <2>6. disk[Parts[i]].training \in Nat /\ disk[Parts[j]].training \in Nat
    BY <2>1, <2>3 DEF Ordered
  <2> QED
    BY <2>1, <2>3, <2>4, <2>5, <2>6
<1> QED
  BY <1>1, OrderInvariant, PTL

\* Whatever a run finds on disk, and however others were cut short, when it ends well all
\* points are encoded, in the chunks asked for.
THEOREM AllEncoded == Spec => []EveryPointEncoded
<1>1. ChunksInv => EveryPointEncoded
  <2> SUFFICES ASSUME ChunksInv, pc = "done"
               PROVE  /\ Len(read["chunk_offsets"].values) = job.chunks + 1
                      /\ disk["codes"].rows = job.num_points
                      /\ \A bytes \in Range(disk["codes"].values) :
                            bytes = 1 => job.centers - 1 < 256
    BY DEF EveryPointEncoded
  <2>1. Encoding(disk) /\ Recorded(disk) /\ disk["codes"].rows = job.num_points
    BY DEF ChunksInv
  <2>2. read["chunk_offsets"] = disk["chunk_offsets"]
    BY <2>1 DEF Encoding, PartNames
  <2>3. Len(disk["chunk_offsets"].values) = job.chunks + 1
    BY <2>1 DEF Encoding, Recorded
  <2>4. ASSUME NEW bytes \in Range(disk["codes"].values), bytes = 1
        PROVE  job.centers - 1 < 256
    <3>1. job.centers \in Nat
      BY JobFacts DEF ChunksInv
    <3>2. /\ disk["codes"].values \in Seq({1, 4})
          /\ \A i \in 1..Len(disk["codes"].values) :
                disk["codes"].values[i] = 1 => job.centers <= 256
      BY <2>1 DEF Encoding
    <3>3. PICK i \in 1..Len(disk["codes"].values) : disk["codes"].values[i] = bytes
      BY <3>2 DEF Range
    <3> QED
      BY <2>4, <3>1, <3>2, <3>3
  <2> QED
    BY <2>1, <2>2, <2>3, <2>4
<1> QED
  BY <1>1, ChunksInvariant, PTL

\* For any dimension and number of chunks: generate_pq_pivots leaves no chunk empty and
\* none more than a dimension larger than another; the chunks data are encoded with are
\* those of their dimension unless a run was cut short.
THEOREM ChunksArePartition == Spec => []ChunksPartitionDimensions
<1>1. ChunksInv /\ OrderInv => ChunksPartitionDimensions
  <2> SUFFICES ASSUME ChunksInv, OrderInv
               PROVE  ChunksPartitionDimensions
    OBVIOUS
  <2>1. \A o \in {chunk_offsets, disk["chunk_offsets"].values} \ {<< >>} : EvenChunks(o)
    BY DEF ChunksInv, Recorded
  <2>2. ASSUME pc = "done", crashes = 0
        PROVE  Last(read["chunk_offsets"].values) = job.dim
    <3>1. Encoding(disk) /\ Recorded(disk)
      BY <2>2 DEF ChunksInv
    <3>2. /\ read["chunk_offsets"] = disk["chunk_offsets"]
          /\ disk["centroid"].rows = job.dim /\ disk["chunk_offsets"].whole
      BY <3>1 DEF Encoding, PartNames
    <3>3. OneTraining(disk)
      BY <2>2 DEF OrderInv
    <3>4. disk["centroid"].training = disk["chunk_offsets"].training
      BY <3>3 DEF OneTraining, PartNames
    <3> QED
      BY <3>1, <3>2, <3>4 DEF Recorded, Last
  <2> QED
    BY <2>1, <2>2 DEF ChunksPartitionDimensions, EvenChunks
<1> QED
  BY <1>1, ChunksInvariant, OrderInvariant, PTL
=============================================================================
