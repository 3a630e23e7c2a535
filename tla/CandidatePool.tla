--------------------------- MODULE CandidatePool ----------------------------
(***************************************************************************)
(* The array of the best candidates that every search of the library fills *)
(* (graph, LSH and IVF): InsertIntoPool (include/index.h) and one turn of  *)
(* the loop of process_candidates_into_best_candidates_pool                *)
(* (src/index.cpp).                                                        *)
(*                                                                         *)
(* The array has one slot more than candidates it may hold; slots are      *)
(* numbered from 0 as in the code, and those not yet used hold a default   *)
(* Neighbor: id 0, the largest float, flag set.                            *)
(***************************************************************************)
EXTENDS Naturals

CONSTANT Far      \* std::numeric_limits<float>::max()

ASSUME FarAssumption == Far \in Nat

Default == [id |-> 0, distance |-> Far, flag |-> TRUE]

\* best_L_nodes.resize(Lsize + 1)
Slots(Lsize) == [j \in 0..Lsize |-> Default]

\* memmove the slots i..K-1 of addr one up and put nn in slot i.
ShiftIn(addr, i, K, nn) ==
    [j \in DOMAIN addr |->
        IF j = i THEN nn ELSE IF i < j /\ j <= K THEN addr[j - 1] ELSE addr[j]]

\* Variants with a bug, which the runs are expected to notice, stand before the
\* definition they would replace.

\* A turn of the binary search for the distance d, between the slots b.
Halve(addr, d, b) ==
    LET mid == (b[1] + b[2]) \div 2
    IN  IF ~ (b[2] > 1 /\ b[1] < b[2] - 1) THEN b
        ELSE IF addr[mid].distance > d THEN <<b[1], mid>> ELSE <<mid, b[2]>>

\* The two slots between which d belongs, left and right: K turns are more than it takes.
Bisect(addr, K, d) ==
    LET turn[n \in 0..K] == IF n = 0 THEN <<0, K - 1>> ELSE Halve(addr, d, turn[n - 1])
    IN  turn[K]

\* The backward scan from slot left over the distances equal to d, the slot
\* where it stops included.
AlreadyThere(addr, left, right, nn) ==
    \/ addr[right].id = nn.id
    \/ \E i \in 0..left :
          /\ addr[i].id = nn.id
          /\ \A j \in (i + 1)..left : addr[j].distance >= nn.distance

\* The array and the position InsertIntoPool returns.  With K = 0 the default
\* in slot 0 is farther than nn: right, which has wrapped, is never used.
InsertIntoPool(addr, K, nn) ==
    IF addr[0].distance > nn.distance
    THEN [addr |-> ShiftIn(addr, 0, K, nn), pos |-> 0]
    ELSE IF addr[K - 1].distance < nn.distance
    THEN [addr |-> [addr EXCEPT ![K] = nn], pos |-> K]
    ELSE LET b == Bisect(addr, K, nn.distance)
         IN  IF AlreadyThere(addr, b[1], b[2], nn)
             THEN [addr |-> addr, pos |-> K + 1]
             ELSE [addr |-> ShiftIn(addr, b[2], K, nn), pos |-> b[2]]

\* Variant: a far candidate is refused while there is room.
TooFarWithRoom(addr, size, Lsize, d) ==
    size > 0 /\ d >= addr[size - 1].distance

\* The pool is full and d no closer than its last candidate.
TooFar(addr, size, Lsize, d) ==
    size > 0 /\ size = Lsize /\ d >= addr[size - 1].distance

\* What one accepted candidate, not met before, does to the array, to the
\* number of candidates and to the best position inserted at.
Offer(st, Lsize, id, d) ==
    IF TooFar(st.addr, st.size, Lsize, d) THEN st
    ELSE LET ins == InsertIntoPool(st.addr, st.size,
                        [id |-> id, distance |-> d, flag |-> TRUE])
         IN  [addr |-> ins.addr,
              size |-> IF st.size < Lsize THEN st.size + 1 ELSE st.size,
              best |-> IF ins.pos < st.best THEN ins.pos ELSE st.best]
=============================================================================
