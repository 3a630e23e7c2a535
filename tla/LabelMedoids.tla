---------------------------- MODULE LabelMedoids ----------------------------
(***************************************************************************)
(* Searches with labels: for every label Vamana picks a point to start     *)
(* from (calculate_label_specific_medoids, src/vamana.cpp), and a search   *)
(* for some labels starts from theirs and accepts the points that have one *)
(* of them, or the universal label (src/index.cpp).  The labels are dealt  *)
(* to threads, which pick in a critical section.                           *)
(*                                                                         *)
(* Labels are numbers, ordered like their names; the lists of the points   *)
(* are sorted.  An input of GreedySearch whose field filters is not empty  *)
(* is a search with labels.                                                *)
(***************************************************************************)
EXTENDS GreedySearch

CONSTANTS
    UniversalLabel,   \* _universal_label
    NUM_CANDS         \* how many candidates are drawn for a label, 25

\* A turn of the loop of std::set_intersection, which takes a and b to be sorted: the
\* positions it has reached in them and what it has found in both.
Intersect(a, b, at) ==
    IF at.i > Len(a) \/ at.j > Len(b) THEN at
    ELSE IF a[at.i] < b[at.j] THEN [at EXCEPT !.i = at.i + 1]
    ELSE IF b[at.j] < a[at.i] THEN [at EXCEPT !.j = at.j + 1]
    ELSE [i |-> at.i + 1, j |-> at.j + 1, both |-> at.both \cup {a[at.i]}]

\* Each turn passes over an element of one list or of both.
set_intersection(a, b) ==
    LET turn[n \in 0..(Len(a) + Len(b))] ==
            IF n = 0 THEN [i |-> 1, j |-> 1, both |-> {}] ELSE Intersect(a, b, turn[n - 1])
    IN  turn[Len(a) + Len(b)].both

\* The points a search for the labels in filters accepts, labels being _pts_to_labels.
Accepted(filters, labels) ==
    {id \in Points :
        \/ set_intersection(filters, labels[id]) # {}
        \/ UniversalLabel \in Range(filters) \cup Range(labels[id])}

ASSUME LabelAssumption ==
    /\ UniversalLabel \in Nat
    /\ NUM_CANDS \in Nat \ {0}
    /\ \A q \in Queries : q.filters # << >> =>
        /\ q.filters \in Seq(Nat)
        /\ q.labels \in [Points -> Seq(Nat) \ {<< >>}]
        /\ q.accepts = Accepted(q.filters, q.labels)
        /\ q.init_ids = << >>

VARIABLES
    filter_to_medoid_id,
    medoid_counts        \* how many labels a point is the medoid of

lvars == <<filter_to_medoid_id, medoid_counts>>

LInit ==
    /\ filter_to_medoid_id = [x \in {} |-> 0]
    /\ medoid_counts = [i \in {} |-> 0]

filtered == query.filters # << >>
labels == UNION {Range(query.labels[i]) : i \in Points}

\* Variants with a bug, which the runs are expected to notice, stand before the
\* definition they would replace.  Variant: the labels of the next point are looked at.
filtered_points_next(x) ==
    {i \in Points : i + 1 \in Points /\ {x, UniversalLabel} \cap Range(query.labels[i + 1]) # {}}

filtered_points(x) ==
    {i \in Points : {x, UniversalLabel} \cap Range(query.labels[i]) # {}}

\* How many labels a point is the medoid of so far; a point never looked up has no entry.
count(i) == IF i \in DOMAIN medoid_counts THEN medoid_counts[i] ELSE 0

\* The candidates for a label are drawn at random; the medoid is the one that is the medoid
\* of the fewest labels, of several such the first drawn.
PickMedoid(x) ==
    /\ x \in labels \ DOMAIN filter_to_medoid_id
    /\ \E drawn \in (SUBSET filtered_points(x)) \ {{}} :
        /\ Cardinality(drawn) <= NUM_CANDS
        /\ \E best_medoid \in drawn :
            /\ \A i \in drawn : count(best_medoid) <= count(i)
            /\ filter_to_medoid_id' = [y \in DOMAIN filter_to_medoid_id \cup {x} |->
                  IF y = x THEN best_medoid ELSE filter_to_medoid_id[y]]
            /\ medoid_counts' = [i \in drawn \cup DOMAIN medoid_counts |->
                                    IF i = best_medoid THEN count(i) + 1 ELSE count(i)]
    /\ UNCHANGED vars

\* The medoids of the labels wanted, those that no point has being passed over.
init_ids ==
    LET ids[n \in 0..Len(query.filters)] ==
            IF n = 0 THEN << >>
            ELSE IF query.filters[n] \in DOMAIN filter_to_medoid_id
            THEN Append(ids[n - 1], filter_to_medoid_id[query.filters[n]])
            ELSE ids[n - 1]
    IN  ids[Len(query.filters)]

Ready == filtered => DOMAIN filter_to_medoid_id = labels /\ query.init_ids = init_ids

\* A search with labels begins.
StartSearch ==
    /\ DOMAIN filter_to_medoid_id = labels
    /\ query' = [query EXCEPT !.init_ids = init_ids]
    /\ query' # query
    /\ UNCHANGED <<out_nbrs, pc, array, inserted, expanded, merging, output, lvars>>

LStep == filtered /\ (StartSearch \/ \E x \in labels : PickMedoid(x))

----------------------------------------------------------------------------
(* Properties.                                                             *)

\* What a search with labels returns has one of them, or the universal label, although
\* the points it starts from are never tested for their labels; and it does return
\* something if any point has one of them.
AnswersCarryLabels ==
    pc = "done" /\ filtered /\ UniversalLabel \notin Range(query.filters) =>
        /\ \A n \in 1..returned : \E i \in Points :
              /\ results[n].tag = Tag(i)
              /\ Range(query.labels[i]) \cap (Range(query.filters) \cup {UniversalLabel}) # {}
        /\ Range(query.filters) \cap labels # {} => returned > 0
=============================================================================
