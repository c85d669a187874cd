---------------------------- MODULE RingCounters ----------------------------
(***************************************************************************)
(* Arithmetic of fixed_size_buffer (event_loop.h): a ring of BufferSize    *)
(* bytes addressed by two counters, m_head and m_tail, that are never      *)
(* brought back into the ring.  They are size_t, so they wrap at           *)
(* CounterModulus, and the slot of a counter is its value modulo           *)
(* BufferSize (a mask in the code: both are powers of two).                *)
(*                                                                         *)
(* A module without state: FixedSizeBuffer gives it its operations, and    *)
(* the event loops use it for the buffer of each connection.               *)
(***************************************************************************)
EXTENDS Integers

CONSTANTS
    BufferSize,      \* buffer_size: bytes in the ring (2^19 in the code)
    CounterModulus   \* values of a size_t (2^64 in the code)

(* buffer_size divides 2^64 and is smaller than it.                        *)
ASSUME RingAssumption ==
    /\ BufferSize \in Nat \ {0}
    /\ CounterModulus \in Nat
    /\ CounterModulus > BufferSize
    /\ CounterModulus % BufferSize = 0

Counter == 0 .. CounterModulus - 1
Slot    == 0 .. BufferSize - 1

Smaller(x, y) == IF x <= y THEN x ELSE y

Advance(c, n) == (c + n) % CounterModulus

SlotOf(c) == c % BufferSize

Count(head, tail) == (tail - head) % CounterModulus

FreeSpace(head, tail) == BufferSize - Count(head, tail)

IsEmpty(head, tail) == head = tail

(* Variants, here and in the modules that extend this one, are plausible   *)
(* bugs kept beside what they are a variant of; each breaks a property.    *)
(* Variant: a chunk always runs to the end of the array.                   *)
ChunkToEnd(c, left) == BufferSize - SlotOf(c)

(***************************************************************************)
(* The contiguous piece consume_free and consume_used hand to their lambda *)
(* when "left" bytes remain to be visited from counter c on: it stops at   *)
(* the end of the array.                                                   *)
(***************************************************************************)
Chunk(c, left) == Smaller(SlotOf(c) + left, BufferSize) - SlotOf(c)

(* Variant: the free region always runs to the end of the array.           *)
FreeRegionToEnd(head, tail) ==
    IF Count(head, tail) >= BufferSize THEN 0 ELSE BufferSize - SlotOf(tail)

(* Variant: equal slots are taken for a region of their difference.        *)
FreeRegionOffByOne(head, tail) ==
    IF Count(head, tail) >= BufferSize THEN 0
    ELSE IF SlotOf(head) >= SlotOf(tail) THEN SlotOf(head) - SlotOf(tail)
         ELSE BufferSize - SlotOf(tail)

(* Size of the region get_free_region returns.                             *)
FreeRegion(head, tail) ==
    IF Count(head, tail) >= BufferSize THEN 0
    ELSE IF SlotOf(head) > SlotOf(tail) THEN SlotOf(head) - SlotOf(tail)
         ELSE BufferSize - SlotOf(tail)

(* Variant: the used region always runs to the end of the array.           *)
UsedRegionToEnd(head, tail) ==
    IF head = tail THEN 0 ELSE BufferSize - SlotOf(head)

(* Size of the region get_used_region and peek_used return.                *)
UsedRegion(head, tail) ==
    IF head = tail THEN 0
    ELSE IF SlotOf(head) <= SlotOf(tail) THEN SlotOf(tail) - SlotOf(head)
         ELSE BufferSize - SlotOf(head)

(* The slots of the n bytes from counter c on.                             *)
SlotsFrom(c, n) == {SlotOf(c + i) : i \in 0 .. n - 1}
=============================================================================
