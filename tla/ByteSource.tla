----------------------------- MODULE ByteSource -----------------------------
(***************************************************************************)
(* A file read from front to back: a read returns the bytes that follow    *)
(* the last one returned, all that were asked for or none.                 *)
(***************************************************************************)
EXTENDS Naturals

CONSTANT Requests   \* how many bytes a read may ask for

VARIABLES
    length,      \* bytes in the file
    asked,       \* how many bytes the last read asked for
    pos,         \* how many have been read
    bytes,       \* what the last read returned, each byte named by its place
    failed       \* the last read asked for more than there is

vars == <<length, asked, pos, bytes, failed>>

Init ==
    /\ length \in Nat
    /\ asked = 0
    /\ pos = 0
    /\ bytes = [j \in {} |-> 0]
    /\ failed = FALSE

Read ==
    /\ \E n \in Requests :
        /\ pos + n <= length
        /\ asked' = n
        /\ bytes' = [j \in 0..(n - 1) |-> pos + j]
        /\ pos' = pos + n
    /\ failed' = FALSE
    /\ UNCHANGED length

Fail ==
    /\ \E n \in Requests : pos + n > length /\ asked' = n
    /\ failed' = TRUE
    /\ UNCHANGED <<length, pos, bytes>>

Next == Read \/ Fail

Spec == Init /\ [][Next]_vars
=============================================================================
