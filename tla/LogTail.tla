------------------------------ MODULE LogTail ------------------------------
(***************************************************************************)
(* What klog.RingBuffer promises: after any sequence of writes it holds    *)
(* the last Cap bytes written, in chronological order.                     *)
(***************************************************************************)
EXTENDS Naturals, Sequences

CONSTANTS
    Cap,       \* capacity in bytes
    Payloads   \* what may be written at once

VARIABLES
    tail,      \* the bytes held
    input      \* what was written last

\* The last n elements of s, or all of them.
LastOf(s, n) == IF Len(s) <= n THEN s ELSE SubSeq(s, Len(s) - n + 1, Len(s))

Init == tail = <<>> /\ input = <<>>

Write(p) == tail' = LastOf(tail \o p, Cap) /\ input' = p

Next == \E p \in Payloads : Write(p)

Spec == Init /\ [][Next]_<<tail, input>>
=============================================================================
