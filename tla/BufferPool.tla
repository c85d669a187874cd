----------------------------- MODULE BufferPool -----------------------------
(***************************************************************************)
(* buffer_pool (event_loop.h) and the buffers every event loop takes from  *)
(* it.  A buffer is a number, its bytes are left to FixedSizeBuffer: here  *)
(* it is its two counters.                                                 *)
(***************************************************************************)
EXTENDS RingCounters, Sequences

CONSTANT Prepool   \* buffers run() makes in advance: max_mutual_connections

ASSUME PoolAssumption == Prepool \in Nat

VARIABLES
    m_pl,   \* the pool, the last one first out
    ring    \* the counters of every buffer made so far

NoBuffer  == 0                         \* nullptr
EmptyRing == [head |-> 0, tail |-> 0]
Buffers   == 1 .. Len(ring)
Held(b)   == Count(ring[b].head, ring[b].tail)

PoolTypeOK ==
    /\ ring \in Seq([head : Counter, tail : Counter])
    /\ m_pl \in Seq(Buffers)

(* prepool.                                                                *)
PoolInit ==
    /\ ring = [i \in 1 .. Prepool |-> EmptyRing]
    /\ m_pl = [i \in 1 .. Prepool |-> i]

(* Variants: a buffer is made before the pool is looked at; a buffer that  *)
(* is redeemed is not reset.                                               *)
NewAnyway  == Append(ring, EmptyRing)
NoReset(b) == ring

(* allocate: the last buffer redeemed, or a new one.                       *)
Allocated    == IF m_pl = <<>> THEN Len(ring) + 1 ELSE m_pl[Len(m_pl)]
RingWithNew  == IF m_pl = <<>> THEN Append(ring, EmptyRing) ELSE ring
PoolWithout  == IF m_pl = <<>> THEN <<>> ELSE SubSeq(m_pl, 1, Len(m_pl) - 1)

(* redeem: back to the pool, and reset.                                    *)
Redeem(b) == m_pl' = Append(m_pl, b)
AfterReset(b) == [ring EXCEPT ![b] = EmptyRing]
=============================================================================
