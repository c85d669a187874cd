------------------------------ MODULE ByteQueue -----------------------------
(***************************************************************************)
(* What a fixed_size_buffer promises: a FIFO queue of at most Capacity     *)
(* bytes.  A producer appends some bytes that fit, a consumer takes some   *)
(* bytes off the front, and reset forgets everything.  "taken" is what the *)
(* last operation handed to the consumer.                                  *)
(***************************************************************************)
EXTENDS Naturals, Sequences

CONSTANTS
    Byte,       \* the values of a byte
    Capacity    \* bytes the queue holds at most

VARIABLES queue, taken

vars == <<queue, taken>>

Init == queue = <<>> /\ taken = <<>>

Put ==
    \E n \in 0 .. Capacity - Len(queue) : \E data \in [1 .. n -> Byte] :
        /\ queue' = queue \o data
        /\ taken' = <<>>

Take ==
    \E n \in 0 .. Len(queue) :
        /\ taken' = SubSeq(queue, 1, n)
        /\ queue' = SubSeq(queue, n + 1, Len(queue))

Reset == queue' = <<>> /\ taken' = <<>>

Next == Put \/ Take \/ Reset

Spec == Init /\ [][Next]_vars
=============================================================================
