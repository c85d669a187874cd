-------------------------- MODULE ByteOrderProofs ---------------------------
(***************************************************************************)
(* The two parts that keep bytes in order, the ring of a connection and    *)
(* the blocking streams.                                                   *)
(*                                                                         *)
(* fixed_size_buffer (FixedSizeBuffer): its safety invariants, and that it *)
(* is the queue of ByteQueue, for every ring size, every width of the      *)
(* counters and every set of bytes.  TypeOK, CountBound and LeftIsCurrent  *)
(* are not inductive alone: when a recv or a send completes, m_tail or     *)
(* m_head moves by up to the size of the region given out at its           *)
(* submission, so that region has to fit what is free, or there, until     *)
(* then.                                                                   *)
(*                                                                         *)
(* Streams: for any number of connections and strings of any length, the   *)
(* strings that are read are those that were written, in whatever parts    *)
(* the bytes arrive, and no descriptor is forgotten.                       *)
(***************************************************************************)
EXTENDS FixedSizeBuffer, Streams, SharedLemmas, SequenceTheorems, TLAPS

RegionsFit ==
    /\ job.op = "recv" => job.left <= FreeSpace(m_head, m_tail)
    /\ job.op = "send" => /\ job.left <= Count(m_head, m_tail)
                           /\ SlotOf(m_head) + job.left <= BufferSize

BufferIInv == TypeOK /\ CountBound /\ LeftIsCurrent /\ RegionsFit

CallType == [op : BufferCalls, left : 0 .. BufferSize, want : 0 .. MaxRequest]

-----------------------------------------------------------------------------
(* The bytes of an array from a counter on are a sequence of bytes.        *)
LEMMA LoadType ==
    ASSUME TypeOK, NEW n \in Nat
    PROVE  Load(n) \in Seq(Byte)
<1>1. \A i \in 1 .. n : SlotOf(m_head + i - 1) \in Slot
  <2> TAKE i \in 1 .. n
  <2>1. m_head + i - 1 \in Int /\ BufferSize \in Nat \ {0}
    BY CounterFacts, SMT DEF TypeOK, Counter
  <2> QED BY <2>1, Remainder DEF SlotOf, Slot, Rem
<1>2. \A i \in 1 .. n : m_impl[SlotOf(m_head + i - 1)] \in Byte
  BY <1>1 DEF TypeOK
<1>3. Load(n) \in [1 .. n -> Byte]
  BY <1>2 DEF Load
<1> QED BY <1>3

(* Storing n bytes that fit keeps the array an array, and adds n.          *)
LEMMA StoreEffect ==
    ASSUME TypeOK, CountBound, NEW n \in Nat, n <= FreeSpace(m_head, m_tail),
           NEW data \in [1 .. n -> Byte], Store(data, n)
    PROVE  /\ m_impl' \in [Slot -> Byte]
           /\ m_tail' \in Counter
           /\ Count(m_head, m_tail') = Count(m_head, m_tail) + n
<1>1. \A s \in Slot : (s - SlotOf(m_tail)) % BufferSize \in Nat
  <2> TAKE s \in Slot
  <2>1. m_tail \in Int /\ BufferSize \in Nat \ {0} /\ s \in Int
    BY CounterFacts, SMT DEF TypeOK, Counter, Slot
  <2>2. SlotOf(m_tail) \in Int
    BY <2>1, Remainder DEF SlotOf, Rem
  <2>3. s - SlotOf(m_tail) \in Int
    BY <2>1, <2>2
  <2>4. Rem(s - SlotOf(m_tail), BufferSize) \in 0 .. BufferSize - 1
    BY <2>1, <2>3, Remainder
  <2> QED BY <2>1, <2>4, SMT DEF Rem
<1>2. m_impl' \in [Slot -> Byte]
  BY <1>1, SMT DEF Store, TypeOK
<1>3. Count(m_head, m_tail) + n <= BufferSize
  <2>1. Count(m_head, m_tail) \in Counter
    BY CountCases DEF TypeOK
  <2> QED BY <2>1, CounterFacts, SMT DEF FreeSpace, Counter
<1> QED BY <1>2, <1>3, TailMoves DEF Store, TypeOK

(* What a call of a lambda leaves of the call that made it.                *)
LEMMA AfterChunkEffect ==
    ASSUME job \in CallType, NEW n \in Nat, NEW chunk \in Nat,
           n <= chunk, chunk <= job.left,
           job.op \in {"write", "read"} => n <= job.want
    PROVE  /\ AfterChunk(n, chunk) \in CallType
           /\ AfterChunk(n, chunk).op \in {"none", job.op}
           /\ AfterChunk(n, chunk).op # "none"
                => AfterChunk(n, chunk).left = job.left - n
<1>1. CASE n < chunk \/ job.left = n
  BY <1>1, CounterFacts, SMT DEF AfterChunk, NoCall, CallType, BufferCalls, MaxRequest
<1>2. CASE ~(n < chunk \/ job.left = n)
  <2>1. AfterChunk(n, chunk) =
            [op |-> job.op, left |-> job.left - n,
             want |-> IF job.op \in {"write", "read"} THEN job.want - n ELSE job.want]
    BY <1>2 DEF AfterChunk, CallType
  <2> QED BY <1>2, <2>1, CounterFacts, SMT DEF CallType, BufferCalls, MaxRequest
<1> QED BY <1>1, <1>2

-----------------------------------------------------------------------------
(* The buffer starts empty, and nothing is in progress.                    *)
LEMMA BufferInitially == BufferInit => BufferIInv
<1> SUFFICES ASSUME BufferInit PROVE BufferIInv
  OBVIOUS
<1>1. m_head \in Counter /\ m_tail \in Counter
  BY CounterFacts, SMT DEF BufferInit, Counter
<1>2. Count(m_head, m_tail) = 0
  BY <1>1, CountCases, SMT DEF BufferInit
<1>3. TypeOK
  BY <1>1, CounterFacts, SMT DEF BufferInit, TypeOK, NoCall, BufferCalls, MaxRequest
<1>4. CountBound
  BY <1>2, CounterFacts DEF CountBound
<1> QED
  BY <1>3, <1>4 DEF BufferInit, BufferIInv, LeftIsCurrent, RegionsFit, NoCall

(* Every call and every chunk of a call keeps the invariant.               *)
LEMMA BufferSteps == BufferIInv /\ [BufferNext]_bufferVars => BufferIInv'
<1> SUFFICES ASSUME BufferIInv, [BufferNext]_bufferVars PROVE BufferIInv'
  OBVIOUS
<1> DEFINE count == Count(m_head, m_tail)
           left  == job.left
<1>1. /\ m_head \in Counter /\ m_tail \in Counter /\ job \in CallType
      /\ left \in 0 .. BufferSize
      /\ count \in 0 .. BufferSize
      /\ FreeSpace(m_head, m_tail) = BufferSize - count
      /\ FreeSpace(m_head, m_tail) \in 0 .. BufferSize
  <2>1. m_head \in Counter /\ m_tail \in Counter /\ job \in CallType
    BY DEF BufferIInv, TypeOK, CallType
  <2>2. count \in Counter
    BY <2>1, CountCases
  <2>3. count <= BufferSize
    BY DEF BufferIInv, CountBound
  <2>4. left \in 0 .. BufferSize
    BY <2>1 DEF CallType
  <2> HIDE DEF count
  <2> QED BY <2>1, <2>2, <2>3, <2>4, CounterFacts, SMT DEF Counter, FreeSpace, count
<1>2. ASSUME NEW op \in {"consume_free", "write"}, NEW want \in 0 .. MaxRequest,
             BeginConsumeFree(op, want)
      PROVE  BufferIInv'
  <2>1. /\ job' = [op |-> op, left |-> FreeSpace(m_head, m_tail), want |-> want]
        /\ taken' = <<>> /\ UNCHANGED <<m_impl, m_head, m_tail>>
    BY <1>2 DEF BeginConsumeFree
  <2>2. TypeOK'
    BY <1>1, <2>1, SMT DEF BufferIInv, TypeOK, BufferCalls
  <2>3. CountBound' /\ LeftIsCurrent' /\ RegionsFit'
    BY <2>1 DEF BufferIInv, CountBound, LeftIsCurrent, RegionsFit
  <2> QED BY <2>2, <2>3 DEF BufferIInv
<1>3. ASSUME NEW op \in {"consume_used", "read"}, NEW want \in 0 .. MaxRequest,
             BeginConsumeUsed(op, want)
      PROVE  BufferIInv'
  <2>1. /\ job' = [op |-> op, left |-> Count(m_head, m_tail), want |-> want]
        /\ taken' = <<>> /\ UNCHANGED <<m_impl, m_head, m_tail>>
    BY <1>3 DEF BeginConsumeUsed
  <2>2. TypeOK'
    BY <1>1, <2>1, SMT DEF BufferIInv, TypeOK, BufferCalls
  <2>3. CountBound' /\ LeftIsCurrent' /\ RegionsFit'
    BY <2>1 DEF BufferIInv, CountBound, LeftIsCurrent, RegionsFit
  <2> QED BY <2>2, <2>3 DEF BufferIInv
<1>4. CASE FillChunk
  <2> DEFINE chunk == Chunk(m_tail, job.left)
  <2>1. PICK n \in 0 .. chunk :
            /\ job.op = "write" => n = Smaller(chunk, job.want)
            /\ \E data \in [1 .. n -> Byte] : Store(data, n)
            /\ job' = AfterChunk(n, chunk)
    BY <1>4 DEF FillChunk
  <2>2. chunk \in 0 .. left
    BY <1>1, ChunkBounds
  <2>3. /\ job.op \in {"consume_free", "write"} /\ left = BufferSize - count
        /\ m_head' = m_head /\ taken' = <<>>
    BY <1>1, <1>4 DEF FillChunk, BufferIInv, LeftIsCurrent
  <2>4. n \in Nat /\ n <= chunk /\ chunk \in Nat /\ chunk <= left
        /\ (job.op \in {"write", "read"} => n <= job.want)
    <3> HIDE DEF chunk
    <3> QED BY <1>1, <2>1, <2>2, <2>3, SMT DEF Smaller, CallType
  <2>5. /\ m_impl' \in [Slot -> Byte] /\ m_tail' \in Counter
        /\ Count(m_head, m_tail') = count + n
    <3>1. n <= FreeSpace(m_head, m_tail)
      <4> HIDE DEF chunk, count
      <4> QED BY <1>1, <2>2, <2>3, <2>4, SMT
    <3> QED BY <2>1, <2>4, <3>1, StoreEffect DEF BufferIInv
  <2>6. /\ job' \in CallType /\ job'.op \in {"none", job.op}
        /\ job'.op # "none" => job'.left = left - n
    BY <1>1, <2>1, <2>4, AfterChunkEffect
  <2>7. TypeOK'
    BY <1>1, <2>3, <2>5, <2>6 DEF TypeOK, CallType
  <2>8. count + n <= BufferSize
    <3> HIDE DEF chunk
    <3> QED BY <1>1, <2>3, <2>4, CounterFacts, SMT
  <2>9. CountBound'
    BY <2>3, <2>5, <2>8 DEF CountBound
  <2>10. LeftIsCurrent' /\ RegionsFit'
    BY <1>1, <2>3, <2>4, <2>5, <2>6, CounterFacts, SMT
       DEF LeftIsCurrent, RegionsFit, FreeSpace
  <2> QED BY <2>7, <2>9, <2>10 DEF BufferIInv
<1>5. CASE DrainChunk
  <2> DEFINE chunk == Chunk(m_head, job.left)
  <2>1. PICK n \in 0 .. chunk :
            /\ job.op = "read" => n = Smaller(chunk, job.want)
            /\ taken' = Load(n)
            /\ m_head' = Advance(m_head, n)
            /\ job' = AfterChunk(n, chunk)
    BY <1>5 DEF DrainChunk
  <2>2. chunk \in 0 .. left
    BY <1>1, ChunkBounds
  <2>3. /\ job.op \in {"consume_used", "read"} /\ left = count
        /\ m_tail' = m_tail /\ m_impl' = m_impl
    BY <1>1, <1>5 DEF DrainChunk, BufferIInv, LeftIsCurrent
  <2>4. n \in Nat /\ n <= chunk /\ chunk \in Nat /\ chunk <= left
        /\ (job.op \in {"write", "read"} => n <= job.want)
    <3> HIDE DEF chunk
    <3> QED BY <1>1, <2>1, <2>2, <2>3, SMT DEF Smaller, CallType
  <2>5. m_head' \in Counter /\ Count(m_head', m_tail) = count - n
    <3>1. n <= Count(m_head, m_tail)
      <4> HIDE DEF chunk
      <4> QED BY <1>1, <2>3, <2>4, SMT
    <3> QED BY <1>1, <2>1, <2>4, <3>1, HeadMoves
  <2>6. /\ job' \in CallType /\ job'.op \in {"none", job.op}
        /\ job'.op # "none" => job'.left = left - n
    BY <1>1, <2>1, <2>4, AfterChunkEffect
  <2>7. TypeOK'
    <3>1. taken' \in Seq(Byte)
      BY <2>1, <2>4, LoadType DEF BufferIInv
    <3> QED BY <1>1, <2>3, <2>5, <2>6, <3>1 DEF TypeOK, CallType, BufferIInv
  <2>8. CountBound' /\ LeftIsCurrent' /\ RegionsFit'
    <3> HIDE DEF chunk
    <3> QED BY <1>1, <2>3, <2>4, <2>5, <2>6, CounterFacts, SMT
               DEF CountBound, LeftIsCurrent, RegionsFit
  <2> QED BY <2>7, <2>8 DEF BufferIInv
<1>6. CASE GetFreeRegion
  <2>1. /\ job' = [op |-> "recv", left |-> FreeRegion(m_head, m_tail), want |-> 0]
        /\ taken' = <<>> /\ UNCHANGED <<m_impl, m_head, m_tail>>
    BY <1>6 DEF GetFreeRegion
  <2>2. FreeRegion(m_head, m_tail) \in 0 .. FreeSpace(m_head, m_tail)
    BY <1>1, RegionBounds DEF BufferIInv, CountBound
  <2>3. TypeOK'
    <3> HIDE DEF count
    <3> QED BY <1>1, <2>1, <2>2, CounterFacts, SMT DEF BufferIInv, TypeOK, BufferCalls, MaxRequest
  <2>4. CountBound' /\ LeftIsCurrent' /\ RegionsFit'
    BY <1>1, <2>1, <2>2 DEF BufferIInv, CountBound, LeftIsCurrent, RegionsFit
  <2> QED BY <2>3, <2>4 DEF BufferIInv
<1>7. CASE AdvanceTail
  <2>1. PICK n \in 0 .. left : \E data \in [1 .. n -> Byte] : Store(data, n)
    BY <1>7 DEF AdvanceTail
  <2>2. job.op = "recv" /\ job' = NoCall /\ taken' = <<>> /\ m_head' = m_head
    BY <1>7 DEF AdvanceTail
  <2>3. left <= FreeSpace(m_head, m_tail)
    BY <2>2 DEF BufferIInv, RegionsFit
  <2>4. n \in Nat /\ n <= FreeSpace(m_head, m_tail)
    BY <1>1, <2>1, <2>3, CounterFacts, SMT
  <2>5. /\ m_impl' \in [Slot -> Byte] /\ m_tail' \in Counter
        /\ Count(m_head, m_tail') = count + n
    BY <2>1, <2>4, StoreEffect DEF BufferIInv
  <2>6. TypeOK'
    BY <1>1, <2>2, <2>5, CounterFacts, SMT DEF TypeOK, NoCall, BufferCalls, MaxRequest
  <2>7. count + n <= BufferSize
    BY <1>1, <2>4, CounterFacts, SMT
  <2>8. CountBound' /\ LeftIsCurrent' /\ RegionsFit'
    BY <2>2, <2>5, <2>7 DEF CountBound, LeftIsCurrent, RegionsFit, NoCall
  <2> QED BY <2>6, <2>8 DEF BufferIInv
<1>8. CASE GetUsedRegion
  <2>1. /\ job' = [op |-> "send", left |-> UsedRegion(m_head, m_tail), want |-> 0]
        /\ taken' = <<>> /\ UNCHANGED <<m_impl, m_head, m_tail>>
    BY <1>8 DEF GetUsedRegion
  <2>2. /\ UsedRegion(m_head, m_tail) \in 0 .. count
        /\ SlotOf(m_head) + UsedRegion(m_head, m_tail) <= BufferSize
    BY <1>1, RegionBounds DEF BufferIInv, CountBound
  <2>3. TypeOK'
    <3> HIDE DEF count
    <3> QED BY <1>1, <2>1, <2>2, CounterFacts, SMT DEF BufferIInv, TypeOK, BufferCalls, MaxRequest
  <2>4. CountBound' /\ LeftIsCurrent' /\ RegionsFit'
    BY <1>1, <2>1, <2>2 DEF BufferIInv, CountBound, LeftIsCurrent, RegionsFit
  <2> QED BY <2>3, <2>4 DEF BufferIInv
<1>9. CASE AdvanceHead
  <2>1. PICK n \in 0 .. left : taken' = Load(n) /\ m_head' = Advance(m_head, n)
    BY <1>9 DEF AdvanceHead
  <2>2. job.op = "send" /\ job' = NoCall /\ m_tail' = m_tail /\ m_impl' = m_impl
    BY <1>9 DEF AdvanceHead
  <2>3. left <= Count(m_head, m_tail)
    BY <2>2 DEF BufferIInv, RegionsFit
  <2>4. n \in Nat /\ n <= Count(m_head, m_tail)
    BY <1>1, <2>1, <2>3, SMT
  <2>5. m_head' \in Counter /\ Count(m_head', m_tail) = count - n
    BY <1>1, <2>1, <2>4, HeadMoves
  <2>6. TypeOK'
    <3>1. taken' \in Seq(Byte)
      BY <2>1, <2>4, LoadType DEF BufferIInv
    <3> QED BY <1>1, <2>2, <2>5, <3>1, CounterFacts, SMT
               DEF BufferIInv, TypeOK, NoCall, BufferCalls, MaxRequest
  <2>7. count - n <= BufferSize
    BY <1>1, <2>4, CounterFacts, SMT
  <2>8. CountBound' /\ LeftIsCurrent' /\ RegionsFit'
    BY <2>2, <2>5, <2>7 DEF CountBound, LeftIsCurrent, RegionsFit, NoCall
  <2> QED BY <2>6, <2>8 DEF BufferIInv
<1>10. CASE Reset
  <2>1. job' = NoCall /\ m_head' = 0 /\ m_tail' = 0 /\ taken' = <<>> /\ m_impl' = m_impl
    BY <1>10 DEF Reset
  <2>2. 0 \in Counter
    BY CounterFacts, SMT DEF Counter
  <2>3. Count(0, 0) = 0
    BY <2>2, CountCases, SMT
  <2>4. TypeOK'
    BY <2>1, <2>2, CounterFacts, SMT DEF BufferIInv, TypeOK, NoCall, BufferCalls, MaxRequest
  <2>5. CountBound'
    BY <2>1, <2>3, CounterFacts DEF CountBound
  <2> QED
    BY <2>1, <2>4, <2>5 DEF BufferIInv, LeftIsCurrent, RegionsFit, NoCall
<1>11. CASE UNCHANGED bufferVars
  BY <1>11 DEF bufferVars, BufferIInv, TypeOK, CountBound, LeftIsCurrent, RegionsFit
<1>12. 0 \in 0 .. MaxRequest
  BY CounterFacts, SMT DEF MaxRequest
<1> QED
  BY <1>2, <1>3, <1>4, <1>5, <1>6, <1>7, <1>8, <1>9, <1>10, <1>11, <1>12
     DEF BufferNext, ConsumeFree, ConsumeUsed, Write, Read

(* The strengthened invariant holds of every behaviour.                    *)
THEOREM BufferInvariance == BufferSpec => []BufferIInv
  BY BufferInitially, BufferSteps, PTL DEF BufferSpec

-----------------------------------------------------------------------------
(* What is given out to be written into fits into what is free, and the    *)
(* slots that are free are not those of the unread bytes.                  *)
LEMMA IInvNoOverwrite == BufferIInv => NoOverwrite
<1> SUFFICES ASSUME BufferIInv PROVE NoOverwrite
  OBVIOUS
<1>1. m_head \in Counter /\ m_tail \in Counter /\ job.left \in 0 .. BufferSize
  BY DEF BufferIInv, TypeOK
<1>2. Count(m_head, m_tail) \in Nat
  <2>1. Count(m_head, m_tail) \in Counter
    BY <1>1, CountCases
  <2> QED BY <2>1, CounterFacts, SMT DEF Counter
<1>3. ASSUME NEW n \in Nat, n <= FreeSpace(m_head, m_tail)
      PROVE  SlotsFrom(m_tail, n) \cap Unread = {}
  <2>1. Count(m_head, m_tail) + n <= BufferSize
    BY <1>2, <1>3, CounterFacts, SMT DEF FreeSpace
  <2> QED BY <1>1, <2>1, DisjointSlots DEF Unread
<1>4. CASE job.op \in {"consume_free", "write"}
  <2>1. job.left = FreeSpace(m_head, m_tail)
    BY <1>4 DEF BufferIInv, LeftIsCurrent
  <2>2. Chunk(m_tail, job.left) \in 0 .. job.left
    BY <1>1, ChunkBounds
  <2>3. Chunk(m_tail, job.left) \in Nat /\ Chunk(m_tail, job.left) <= FreeSpace(m_head, m_tail)
    BY <1>1, <2>1, <2>2, SMT
  <2> QED BY <1>3, <1>4, <2>3 DEF NoOverwrite
<1>5. CASE job.op = "recv"
  <2>1. job.left \in Nat /\ job.left <= FreeSpace(m_head, m_tail)
    BY <1>1, <1>5 DEF BufferIInv, RegionsFit
  <2> QED BY <1>3, <1>5, <2>1 DEF NoOverwrite
<1> QED BY <1>4, <1>5 DEF NoOverwrite

(* What is given out to be read from fits into what is there.              *)
LEMMA IInvRegionIsUnread == BufferIInv => RegionIsUnread
<1> SUFFICES ASSUME BufferIInv PROVE RegionIsUnread
  OBVIOUS
<1>1. m_head \in Counter /\ m_tail \in Counter /\ job.left \in 0 .. BufferSize
  BY DEF BufferIInv, TypeOK
<1>2. Count(m_head, m_tail) \in Nat
  <2>1. Count(m_head, m_tail) \in Counter
    BY <1>1, CountCases
  <2> QED BY <2>1, CounterFacts, SMT DEF Counter
<1>3. ASSUME NEW n \in Nat, n <= Count(m_head, m_tail)
      PROVE  SlotsFrom(m_head, n) \subseteq Unread
  <2>1. \A i \in 0 .. n - 1 : i \in 0 .. Count(m_head, m_tail) - 1
    BY <1>2, <1>3, SMT
  <2> QED BY <2>1 DEF SlotsFrom, Unread
<1>4. CASE job.op \in {"consume_used", "read"}
  <2>1. job.left = Count(m_head, m_tail)
    BY <1>4 DEF BufferIInv, LeftIsCurrent
  <2>2. /\ Chunk(m_head, job.left) \in 0 .. job.left
        /\ SlotOf(m_head) + Chunk(m_head, job.left) <= BufferSize
    BY <1>1, ChunkBounds
  <2>3. Chunk(m_head, job.left) \in Nat /\ Chunk(m_head, job.left) <= Count(m_head, m_tail)
    BY <1>1, <2>1, <2>2, SMT
  <2>4. SlotsFrom(m_head, Chunk(m_head, job.left)) \subseteq Unread
    BY <1>3, <2>3
  <2> QED BY <1>4, <2>2, <2>4 DEF RegionIsUnread
<1>5. CASE job.op = "send"
  <2>1. job.left \in Nat /\ job.left <= Count(m_head, m_tail)
    BY <1>1, <1>5 DEF BufferIInv, RegionsFit
  <2>2. SlotsFrom(m_head, job.left) \subseteq Unread
    BY <1>3, <2>1
  <2> QED BY <1>5, <2>2 DEF BufferIInv, RegionsFit, RegionIsUnread
<1> QED BY <1>4, <1>5 DEF RegionIsUnread

(* Every variable keeps its type; the counters are size_t values.          *)
THEOREM TypeCorrect == BufferSpec => []TypeOK
<1>1. BufferIInv => TypeOK
  BY DEF BufferIInv
<1> QED BY <1>1, BufferInvariance, PTL

(* The assertion of count never fails: the counters differ by no more than *)
(* the ring.                                                               *)
THEOREM CountBounded == BufferSpec => []CountBound
<1>1. BufferIInv => CountBound
  BY DEF BufferIInv
<1> QED BY <1>1, BufferInvariance, PTL

(* The local that consume_free and consume_used count down is always what  *)
(* the counters say is free, or there.                                     *)
THEOREM LeftStaysCurrent == BufferSpec => []LeftIsCurrent
<1>1. BufferIInv => LeftIsCurrent
  BY DEF BufferIInv
<1> QED BY <1>1, BufferInvariance, PTL

(* No region the buffer gives out to be written into holds a byte that was *)
(* not read, wherever the counters have wrapped.                           *)
THEOREM NothingOverwritten == BufferSpec => []NoOverwrite
  BY IInvNoOverwrite, BufferInvariance, PTL

(* No region it gives out to be read from goes past the bytes that are     *)
(* there or past the end of the array.                                     *)
THEOREM NothingInvented == BufferSpec => []RegionIsUnread
  BY IInvRegionIsUnread, BufferInvariance, PTL

(* get_free_region is empty for a full buffer only.                        *)
THEOREM FreeRegionFound == BufferSpec => []FreeRegionUsable
<1>1. BufferIInv => FreeRegionUsable
  BY RegionBounds DEF BufferIInv, TypeOK, CountBound, FreeRegionUsable
<1> QED BY <1>1, BufferInvariance, PTL
-----------------------------------------------------------------------------
(* How far a slot is from the one of a counter d before it.                *)
LEMMA SlotDistance ==
    ASSUME NEW c \in Int, NEW d \in Int
    PROVE  (SlotOf(c + d) - SlotOf(c)) % BufferSize = d % BufferSize
<1>1. BufferSize \in Nat \ {0} /\ c + d \in Int
  BY CounterFacts
<1>2. PICK r \in Int, s \in Int : r = Rem(c, BufferSize) /\ s = Rem(c + d, BufferSize)
  <2>1. Rem(c, BufferSize) \in Int
    BY <1>1, Remainder
  <2>2. PICK x \in Int : x = c + d
    BY <1>1
  <2>3. Rem(x, BufferSize) \in Int
    BY <1>1, Remainder
  <2> QED BY <2>1, <2>2, <2>3
<1>3. PICK q \in Int : c = q * BufferSize + r
  BY <1>1, <1>2, Remainder
<1>4. PICK p \in Int : c + d = p * BufferSize + s
  BY <1>1, <1>2, Remainder
<1>5. PICK e \in Int : e = p + (-q)
  OBVIOUS
<1>6. d = e * BufferSize + (s - r)
  <2>1. PICK m \in Int, l \in Int, k \in Int :
            m = p * BufferSize /\ l = (-q) * BufferSize /\ k = q * BufferSize
    BY <1>1, Distribute
  <2>2. l + k = 0
    <3>1. (-q) * BufferSize + q * BufferSize = (-q + q) * BufferSize
      BY <1>1, Distribute
    <3>2. (-q + q) * BufferSize = 0
      BY <1>1
    <3> QED BY <2>1, <3>1, <3>2
  <2>3. m + l = e * BufferSize
    <3>1. p * BufferSize + (-q) * BufferSize = (p + (-q)) * BufferSize
      BY <1>1, Distribute
    <3> QED BY <1>5, <2>1, <3>1
  <2>4. c = k + r /\ c + d = m + s
    BY <1>3, <1>4, <2>1
  <2>5. d = (m + l) + (s - r)
    BY <2>2, <2>4
  <2> QED BY <2>3, <2>5
<1>7. Rem(e * BufferSize + (s - r), BufferSize) = Rem(s - r, BufferSize)
  <2>1. PICK y \in Int : y = s - r
    OBVIOUS
  <2>2. Rem(e * BufferSize + y, BufferSize) = Rem(y, BufferSize)
    BY <1>1, RemainderShift
  <2> QED BY <2>1, <2>2
<1>8. Rem(s - r, BufferSize) = Rem(d, BufferSize)
  BY <1>6, <1>7
<1> QED BY <1>2, <1>8 DEF SlotOf, Rem

(* The slot of a counter that has been moved.                              *)
LEMMA SlotAdvanced ==
    ASSUME NEW c \in Counter, NEW n \in Nat, NEW i \in Int
    PROVE  SlotOf(Advance(c, n) + i) = SlotOf(c + n + i)
<1> DEFINE a == Rem(c + n, CounterModulus)
<1>1. /\ c \in Int /\ c + n \in Int
      /\ BufferSize \in Nat \ {0} /\ CounterModulus \in Nat \ {0}
      /\ Rem(CounterModulus, BufferSize) = 0
  BY CounterFacts DEF Counter
<1>2. Rem(a, BufferSize) = Rem(c + n, BufferSize)
  BY <1>1, RemainderTwice
<1>3. a \in Int
  BY <1>1, Remainder
<1>4. Rem(a + i, BufferSize) = Rem((c + n) + i, BufferSize)
  <2>1. PICK x, y : x = a /\ y = c + n
    OBVIOUS
  <2> HIDE DEF a
  <2>2. /\ x \in Int /\ y \in Int /\ Rem(x, BufferSize) = Rem(y, BufferSize)
        /\ BufferSize \in Nat \ {0}
    BY <1>1, <1>2, <1>3, <2>1
  <2>3. Rem(x + i, BufferSize) = Rem(y + i, BufferSize)
    BY <2>2, RemainderAdd
  <2> QED BY <2>1, <2>3
<1> QED BY <1>4 DEF SlotOf, Advance, Rem

(* What Store leaves in a slot: the i-th byte stored lies i slots behind   *)
(* m_tail, and the unread bytes stay where they are.                       *)
LEMMA StoredBytes ==
    ASSUME TypeOK, NEW n \in Nat, Count(m_head, m_tail) + n <= BufferSize,
           NEW data, Store(data, n), NEW i \in 1 .. Count(m_head, m_tail) + n
    PROVE  m_impl'[SlotOf(m_head + i - 1)] =
              IF i <= Count(m_head, m_tail) THEN m_impl[SlotOf(m_head + i - 1)]
              ELSE data[i - Count(m_head, m_tail)]
<1>1. PICK k \in Nat : k = Count(m_head, m_tail)
  <2>1. Count(m_head, m_tail) \in Counter
    BY CountCases DEF TypeOK
  <2> QED BY <2>1, CounterFacts DEF Counter
<1>2. PICK b \in Nat \ {0} : b = BufferSize
  BY CounterFacts
<1>3. m_head \in Int /\ m_tail \in Int
  BY CounterFacts DEF TypeOK, Counter
<1>4. i \in Int /\ 1 <= i /\ i <= k + n /\ k + n <= b
  BY <1>1, <1>2
<1>5. PICK s \in Slot : s = SlotOf(m_head + i - 1)
  <2>1. m_head + i - 1 \in Int
    BY <1>3, <1>4
  <2>2. Rem(m_head + i - 1, BufferSize) \in 0 .. BufferSize - 1
    BY <2>1, CounterFacts, Remainder
  <2> QED BY <2>2 DEF SlotOf, Rem, Slot
<1>6. m_impl'[s] = LET j == (s - SlotOf(m_tail)) % BufferSize
                   IN  IF j < n THEN data[j + 1] ELSE m_impl[s]
  BY DEF Store
<1>7. (s - SlotOf(m_tail)) % BufferSize = (i - 1 - k) % BufferSize
  <2>1. SlotOf(m_tail) = SlotOf(m_head + k)
    BY <1>1, TailSlot DEF TypeOK
  <2>2. m_head + k \in Int /\ i - 1 - k \in Int
    BY <1>3, <1>4
  <2>3. (SlotOf((m_head + k) + (i - 1 - k)) - SlotOf(m_head + k)) % BufferSize
            = (i - 1 - k) % BufferSize
    BY <2>2, SlotDistance
  <2>4. (m_head + k) + (i - 1 - k) = m_head + i - 1
    BY <1>3, <1>4
  <2> QED BY <1>5, <2>1, <2>3, <2>4
<1>8. i <= k => (i - 1 - k) % BufferSize = i - 1 - k + b /\ ~(i - 1 - k + b < n)
  <2>1. i <= k => /\ i - 1 - k \in Int /\ -b <= i - 1 - k /\ i - 1 - k < b
                  /\ ~(0 <= i - 1 - k) /\ ~(i - 1 - k + b < n)
    BY <1>4
  <2>2. i <= k => Rem(i - 1 - k, b) = i - 1 - k + b
    BY <2>1, RemainderBelow
  <2> QED BY <1>2, <2>1, <2>2 DEF Rem
<1>9. ~(i <= k) => /\ (i - 1 - k) % BufferSize = i - 1 - k
                   /\ i - 1 - k < n /\ i - 1 - k + 1 = i - k
  <2>1. ~(i <= k) => /\ i - 1 - k \in Int /\ 0 <= i - 1 - k /\ -b <= i - 1 - k
                     /\ i - 1 - k < n /\ i - 1 - k < b /\ i - 1 - k + 1 = i - k
    BY <1>4
  <2>2. ~(i <= k) => Rem(i - 1 - k, b) = i - 1 - k
    BY <2>1, RemainderBelow
  <2> QED BY <1>2, <2>1, <2>2 DEF Rem
<1>10. CASE i <= k
  BY <1>1, <1>5, <1>6, <1>7, <1>8, <1>10
<1>11. CASE ~(i <= k)
  BY <1>1, <1>5, <1>6, <1>7, <1>9, <1>11
<1> QED BY <1>10, <1>11

(* Storing appends to what the buffer holds.                               *)
LEMMA StoreAppends ==
    ASSUME BufferIInv, NEW n \in Nat, n <= FreeSpace(m_head, m_tail),
           NEW data \in [1 .. n -> Byte], Store(data, n), m_head' = m_head
    PROVE  /\ n \in 0 .. BufferSize - Len(Load(Count(m_head, m_tail)))
           /\ Load(Count(m_head, m_tail))' = Load(Count(m_head, m_tail)) \o data
<1>1. PICK k \in Nat : k = Count(m_head, m_tail)
  <2>1. Count(m_head, m_tail) \in Counter
    BY CountCases DEF BufferIInv, TypeOK
  <2> QED BY <2>1, CounterFacts DEF Counter
<1>2. /\ m_impl' \in [Slot -> Byte]
      /\ Count(m_head', m_tail') = k + n
  BY <1>1, StoreEffect DEF BufferIInv
<1>3. k + n <= BufferSize
  BY <1>1, CounterFacts DEF FreeSpace
<1>4. PICK old : old = Load(k)
  OBVIOUS
<1>5. old \in Seq(Byte) /\ Len(old) = k /\ \A i \in 1 .. k : old[i] = m_impl[SlotOf(m_head + i - 1)]
  BY <1>4, LoadType DEF BufferIInv, Load
<1>6. data \in Seq(Byte) /\ Len(data) = n
  OBVIOUS
<1>7. PICK cat : cat = old \o data
  OBVIOUS
<1>8. /\ cat \in Seq(Byte) /\ Len(cat) = k + n
      /\ \A i \in 1 .. k + n : cat[i] = IF i <= k THEN old[i] ELSE data[i - k]
  <2>1. /\ old \o data \in Seq(Byte) /\ Len(old \o data) = Len(old) + Len(data)
        /\ \A i \in 1 .. Len(old) + Len(data) :
             (old \o data)[i] = IF i <= Len(old) THEN old[i] ELSE data[i - Len(old)]
    BY <1>5, <1>6, ConcatProperties
  <2> QED BY <1>5, <1>6, <1>7, <2>1
<1>9. cat = [i \in 1 .. k + n |-> cat[i]]
  BY <1>8
<1>10. \A i \in 1 .. k + n : m_impl'[SlotOf(m_head + i - 1)] = cat[i]
  <2> TAKE i \in 1 .. k + n
  <2>1. m_impl'[SlotOf(m_head + i - 1)] =
            IF i <= k THEN m_impl[SlotOf(m_head + i - 1)] ELSE data[i - k]
    BY <1>1, <1>3, StoredBytes DEF BufferIInv
  <2>2. i <= k => i \in 1 .. k
    OBVIOUS
  <2> QED BY <1>5, <1>8, <2>1, <2>2
<1>11. Load(Count(m_head, m_tail))' = [i \in 1 .. k + n |-> m_impl'[SlotOf(m_head + i - 1)]]
  BY <1>2 DEF Load
<1>12. Load(Count(m_head, m_tail))' = cat
  BY <1>9, <1>10, <1>11
<1>13. n \in 0 .. BufferSize - k
  BY <1>3, CounterFacts
<1> QED BY <1>1, <1>4, <1>5, <1>7, <1>12, <1>13

(* Consuming takes the first bytes and leaves the others.                  *)
LEMMA LoadTakes ==
    ASSUME BufferIInv, NEW n \in Nat, n <= Count(m_head, m_tail),
           m_head' = Advance(m_head, n), m_tail' = m_tail, m_impl' = m_impl
    PROVE  LET q == Load(Count(m_head, m_tail))
           IN  /\ n \in 0 .. Len(q)
               /\ Load(n) = SubSeq(q, 1, n)
               /\ Load(Count(m_head, m_tail))' = SubSeq(q, n + 1, Len(q))
<1>1. PICK k \in Nat : k = Count(m_head, m_tail)
  <2>1. Count(m_head, m_tail) \in Counter
    BY CountCases DEF BufferIInv, TypeOK
  <2> QED BY <2>1, CounterFacts DEF Counter
<1>2. n <= k /\ k - n \in Nat
  BY <1>1
<1>3. Count(m_head', m_tail') = k - n
  BY <1>1, HeadMoves DEF BufferIInv, TypeOK
<1>4. PICK q : q = Load(k)
  OBVIOUS
<1>5. q \in Seq(Byte) /\ Len(q) = k /\ \A i \in 1 .. k : q[i] = m_impl[SlotOf(m_head + i - 1)]
  BY <1>4, LoadType DEF BufferIInv, Load
<1>6. Load(n) = SubSeq(q, 1, n)
  <2>1. SubSeq(q, 1, n) = [i \in 1 .. n |-> q[i]]
    BY <1>2, <1>5
  <2>2. \A i \in 1 .. n : q[i] = m_impl[SlotOf(m_head + i - 1)]
    BY <1>2, <1>5
  <2> QED BY <2>1, <2>2 DEF Load
<1>7. SubSeq(q, n + 1, k) = [i \in 1 .. k - n |-> q[n + i]]
  BY <1>2, <1>5
<1>8. \A i \in 1 .. k - n : q[n + i] = m_impl'[SlotOf(m_head' + i - 1)]
  <2> TAKE i \in 1 .. k - n
  <2>1. n + i \in 1 .. k /\ i - 1 \in Int
    BY <1>2
  <2>2. q[n + i] = m_impl[SlotOf(m_head + (n + i) - 1)]
    BY <1>5, <2>1
  <2>3. m_head \in Int /\ m_head' \in Int
    BY HeadMoves, CounterFacts DEF BufferIInv, TypeOK, Counter
  <2>4. SlotOf(Advance(m_head, n) + (i - 1)) = SlotOf(m_head + n + (i - 1))
    BY <2>1, SlotAdvanced DEF BufferIInv, TypeOK
  <2>5. m_head + n + (i - 1) = m_head + (n + i) - 1 /\ m_head' + (i - 1) = m_head' + i - 1
    BY <2>3
  <2> QED BY <2>2, <2>4, <2>5
<1>9. Load(Count(m_head, m_tail))' = [i \in 1 .. k - n |-> m_impl'[SlotOf(m_head' + i - 1)]]
  BY <1>3 DEF Load
<1>10. Load(Count(m_head, m_tail))' = SubSeq(q, n + 1, k)
  BY <1>7, <1>8, <1>9
<1> QED BY <1>1, <1>2, <1>4, <1>5, <1>6, <1>10

-----------------------------------------------------------------------------
(* What a step of the ring is for the queue.                               *)
LEMMA StoreIsPut ==
    ASSUME BufferIInv, NEW n \in Nat, n <= FreeSpace(m_head, m_tail),
           NEW data \in [1 .. n -> Byte], Store(data, n), m_head' = m_head, taken' = <<>>
    PROVE  Queue!Put
<1>1. /\ n \in 0 .. BufferSize - Len(Load(Count(m_head, m_tail)))
      /\ Load(Count(m_head, m_tail))' = Load(Count(m_head, m_tail)) \o data
  BY StoreAppends
<1> QED BY <1>1 DEF Queue!Put

LEMMA LoadIsTake ==
    ASSUME BufferIInv, NEW n \in Nat, n <= Count(m_head, m_tail), taken' = Load(n),
           m_head' = Advance(m_head, n), m_tail' = m_tail, m_impl' = m_impl
    PROVE  Queue!Take
<1>1. PICK q : q = Load(Count(m_head, m_tail))
  OBVIOUS
<1>2. /\ n \in 0 .. Len(q)
      /\ Load(n) = SubSeq(q, 1, n)
      /\ Load(Count(m_head, m_tail))' = SubSeq(q, n + 1, Len(q))
  BY <1>1, LoadTakes
<1> QED BY <1>1, <1>2 DEF Queue!Take

(* Giving out a region, or starting a call, puts nothing into the queue.   *)
LEMMA BeginIsPut ==
    ASSUME BufferIInv, taken' = <<>>, m_head' = m_head, m_tail' = m_tail, m_impl' = m_impl
    PROVE  Queue!Put
<1>1. PICK q : q = Load(Count(m_head, m_tail))
  OBVIOUS
<1>2. PICK k \in Nat : k = Count(m_head, m_tail) /\ k <= BufferSize
  <2>1. Count(m_head, m_tail) \in Counter
    BY CountCases DEF BufferIInv, TypeOK
  <2> QED BY <2>1, CounterFacts DEF BufferIInv, CountBound, Counter
<1>3. q \in Seq(Byte) /\ Len(q) = k
  <2>1. Load(k) \in Seq(Byte)
    BY LoadType DEF BufferIInv
  <2>2. q = Load(k)
    BY <1>1, <1>2
  <2>3. Len(Load(k)) = k
    BY DEF Load
  <2> QED BY <2>1, <2>2, <2>3
<1>4. Load(Count(m_head, m_tail))' = q
  BY <1>1 DEF Load
<1>5. 0 \in 0 .. BufferSize - Len(q)
  BY <1>2, <1>3, CounterFacts
<1>6. <<>> \in [1 .. 0 -> Byte] /\ q \o <<>> = q
  BY <1>3, ConcatEmptySeq
<1> QED BY <1>1, <1>4, <1>5, <1>6 DEF Queue!Put

(* The size of the next chunk, and what the invariant says of a call.      *)
LEMMA CallBounds ==
    ASSUME BufferIInv
    PROVE  /\ m_head \in Counter /\ m_tail \in Counter
           /\ job \in CallType /\ job.left \in 0 .. BufferSize
           /\ Chunk(m_tail, job.left) \in 0 .. job.left
           /\ Chunk(m_head, job.left) \in 0 .. job.left
           /\ FreeSpace(m_head, m_tail) \in 0 .. BufferSize
           /\ Count(m_head, m_tail) \in 0 .. BufferSize
<1>1. m_head \in Counter /\ m_tail \in Counter /\ job \in CallType
      /\ job.left \in 0 .. BufferSize
  BY DEF BufferIInv, TypeOK, CallType
<1>2. Count(m_head, m_tail) \in 0 .. BufferSize
  <2>1. Count(m_head, m_tail) \in Counter
    BY <1>1, CountCases
  <2> QED BY <2>1, CounterFacts DEF BufferIInv, CountBound, Counter
<1>3. FreeSpace(m_head, m_tail) \in 0 .. BufferSize
  BY <1>2, CounterFacts DEF FreeSpace
<1> QED BY <1>1, <1>2, <1>3, ChunkBounds

(* Every step of the ring is a step of the queue.                          *)
LEMMA StepIsQueueStep == BufferIInv /\ [BufferNext]_bufferVars => [Queue!Next]_(Queue!vars)
<1> SUFFICES ASSUME BufferIInv, [BufferNext]_bufferVars PROVE [Queue!Next]_(Queue!vars)
  OBVIOUS
<1> USE DEF Queue!Next
<1>1. ASSUME NEW op, NEW want, BeginConsumeFree(op, want) PROVE Queue!Next
  BY <1>1, BeginIsPut DEF BeginConsumeFree
<1>2. ASSUME NEW op, NEW want, BeginConsumeUsed(op, want) PROVE Queue!Next
  BY <1>2, BeginIsPut DEF BeginConsumeUsed
<1>3. CASE FillChunk
  <2>1. PICK n \in 0 .. Chunk(m_tail, job.left) :
            \E data \in [1 .. n -> Byte] : Store(data, n)
    BY <1>3 DEF FillChunk
  <2>2. m_head' = m_head /\ taken' = <<>> /\ job.left = FreeSpace(m_head, m_tail)
    BY <1>3 DEF FillChunk, BufferIInv, LeftIsCurrent
  <2>3. n \in Nat /\ n <= FreeSpace(m_head, m_tail)
    BY <2>1, <2>2, CallBounds
  <2> QED BY <2>1, <2>2, <2>3, StoreIsPut
<1>4. CASE AdvanceTail
  <2>1. PICK n \in 0 .. job.left : \E data \in [1 .. n -> Byte] : Store(data, n)
    BY <1>4 DEF AdvanceTail
  <2>2. m_head' = m_head /\ taken' = <<>> /\ job.left <= FreeSpace(m_head, m_tail)
    BY <1>4 DEF AdvanceTail, BufferIInv, RegionsFit
  <2>3. n \in Nat /\ n <= FreeSpace(m_head, m_tail)
    BY <2>1, <2>2, CallBounds
  <2> QED BY <2>1, <2>2, <2>3, StoreIsPut
<1>5. CASE DrainChunk
  <2>1. PICK n \in 0 .. Chunk(m_head, job.left) :
            taken' = Load(n) /\ m_head' = Advance(m_head, n)
    BY <1>5 DEF DrainChunk
  <2>2. m_tail' = m_tail /\ m_impl' = m_impl /\ job.left = Count(m_head, m_tail)
    BY <1>5 DEF DrainChunk, BufferIInv, LeftIsCurrent
  <2>3. n \in Nat /\ n <= Count(m_head, m_tail)
    BY <2>1, <2>2, CallBounds
  <2> QED BY <2>1, <2>2, <2>3, LoadIsTake
<1>6. CASE AdvanceHead
  <2>1. PICK n \in 0 .. job.left : taken' = Load(n) /\ m_head' = Advance(m_head, n)
    BY <1>6 DEF AdvanceHead
  <2>2. m_tail' = m_tail /\ m_impl' = m_impl /\ job.left <= Count(m_head, m_tail)
    BY <1>6 DEF AdvanceHead, BufferIInv, RegionsFit
  <2>3. n \in Nat /\ n <= Count(m_head, m_tail)
    BY <2>1, <2>2, CallBounds
  <2> QED BY <2>1, <2>2, <2>3, LoadIsTake
<1>7. CASE GetFreeRegion \/ GetUsedRegion
  BY <1>7, BeginIsPut DEF GetFreeRegion, GetUsedRegion
<1>8. CASE Reset
  <2>1. m_head' = 0 /\ m_tail' = 0 /\ taken' = <<>>
    BY <1>8 DEF Reset
  <2>2. Count(m_head, m_tail)' = 0
    BY <2>1, CounterFacts, CountCases DEF Counter
  <2>3. Load(Count(m_head, m_tail))' = <<>>
    BY <2>2 DEF Load
  <2> QED BY <2>1, <2>3 DEF Queue!Reset
<1>9. CASE UNCHANGED bufferVars
  BY <1>9 DEF bufferVars, Queue!vars, Load, Count
<1> QED
  BY <1>1, <1>2, <1>3, <1>4, <1>5, <1>6, <1>7, <1>8, <1>9
     DEF BufferNext, ConsumeFree, ConsumeUsed, Write, Read

(* The ring implements a bounded FIFO queue: what is read out of it is     *)
(* what was written into it, byte for byte and in order, wherever the end  *)
(* of the array falls and wherever the counters wrap.                      *)
THEOREM ImplementsQueue == BufferSpec => QueueSpec
<1>1. BufferInit => Queue!Init
  <2> SUFFICES ASSUME BufferInit PROVE Queue!Init
    OBVIOUS
  <2>1. Count(m_head, m_tail) = 0
    BY CounterFacts, CountCases DEF BufferInit, Counter
  <2> QED BY <2>1 DEF BufferInit, Queue!Init, Load
<1> QED BY <1>1, StepIsQueueStep, BufferInvariance, PTL DEF BufferSpec, QueueSpec, Queue!Spec

-----------------------------------------------------------------------------
(* How far a counter has been moved.                                       *)
LEMMA MovedBy ==
    ASSUME NEW c \in Counter, NEW n \in 0 .. BufferSize
    PROVE  Count(c, Advance(c, n)) = n
<1>1. Count(c, c) = 0
  BY CountCases, CounterFacts DEF Counter
<1>2. n \in Nat /\ Count(c, c) + n <= BufferSize
  BY <1>1, CounterFacts
<1> QED BY <1>1, <1>2, TailMoves

(* Counters that are nothing apart are equal.                              *)
LEMMA CountNought ==
    ASSUME NEW head \in Counter, NEW tail \in Counter, Count(head, tail) = 0
    PROVE  head = tail
<1>1. 0 = IF head <= tail THEN tail - head ELSE tail - head + CounterModulus
  BY CountCases
<1> QED BY <1>1, CounterFacts DEF Counter

(* A call that ends has moved what it wanted or reached the last chunk.    *)
LEMMA CallEnds ==
    ASSUME job.op # "none", NEW n \in Nat, NEW chunk \in Nat, n = Smaller(chunk, job.want),
           AfterChunk(n, chunk).op = "none", job \in CallType
    PROVE  n = job.want \/ n = job.left
<1>1. CASE n < chunk
  BY <1>1 DEF Smaller, CallType, MaxRequest
<1>2. CASE job.left = n
  BY <1>2
<1>3. CASE ~(n < chunk \/ job.left = n)
  <2>1. AfterChunk(n, chunk).op = job.op
    BY <1>3 DEF AfterChunk, CallType
  <2> QED BY <2>1
<1> QED BY <1>1, <1>2, <1>3

LEMMA StepIsGreedy ==
    ASSUME BufferIInv, BufferNext, job.op \in {"write", "read"}, job'.op = "none"
    PROVE  LET moved == IF job.op = "write" THEN Count(m_tail, m_tail')
                                             ELSE Count(m_head, m_head')
           IN  \/ moved = job.want
               \/ job.op = "write" /\ FreeSpace(m_head', m_tail') = 0
               \/ job.op = "read" /\ IsEmpty(m_head', m_tail')
<1>1. (FillChunk /\ job.op = "write") \/ (DrainChunk /\ job.op = "read")
  BY DEF BufferNext, NoCall, ConsumeFree, Write, FillChunk, ConsumeUsed, Read, DrainChunk,
         GetFreeRegion, AdvanceTail, GetUsedRegion, AdvanceHead, Reset,
         BeginConsumeFree, BeginConsumeUsed
<1>2. CASE FillChunk /\ job.op = "write"
  <2>1. PICK n \in 0 .. Chunk(m_tail, job.left) :
            /\ n = Smaller(Chunk(m_tail, job.left), job.want)
            /\ \E data \in [1 .. n -> Byte] : Store(data, n)
            /\ job' = AfterChunk(n, Chunk(m_tail, job.left))
    BY <1>2 DEF FillChunk
  <2>2. m_head' = m_head /\ job.left = FreeSpace(m_head, m_tail)
    BY <1>2 DEF FillChunk, BufferIInv, LeftIsCurrent
  <2>3. /\ n \in Nat /\ Chunk(m_tail, job.left) \in Nat
        /\ n <= FreeSpace(m_head, m_tail) /\ n \in 0 .. BufferSize
    BY <2>1, <2>2, CallBounds, CounterFacts
  <2>4. n = job.want \/ n = job.left
    BY <1>2, <2>1, <2>3, CallEnds, CallBounds
  <2>5. m_tail' = Advance(m_tail, n)
    BY <2>1 DEF Store
  <2>6. Count(m_tail, m_tail') = n
    BY <2>3, <2>5, MovedBy, CallBounds
  <2>7. Count(m_head, m_tail') = Count(m_head, m_tail) + n
    BY <2>1, <2>3, StoreEffect DEF BufferIInv
  <2>8. n = job.left => FreeSpace(m_head', m_tail') = 0
    BY <2>2, <2>3, <2>7, CallBounds, CounterFacts DEF FreeSpace
  <2> QED BY <1>2, <2>4, <2>6, <2>8
<1>3. CASE DrainChunk /\ job.op = "read"
  <2>1. PICK n \in 0 .. Chunk(m_head, job.left) :
            /\ n = Smaller(Chunk(m_head, job.left), job.want)
            /\ m_head' = Advance(m_head, n)
            /\ job' = AfterChunk(n, Chunk(m_head, job.left))
    BY <1>3 DEF DrainChunk
  <2>2. m_tail' = m_tail /\ job.left = Count(m_head, m_tail)
    BY <1>3 DEF DrainChunk, BufferIInv, LeftIsCurrent
  <2>3. /\ n \in Nat /\ Chunk(m_head, job.left) \in Nat
        /\ n <= Count(m_head, m_tail) /\ n \in 0 .. BufferSize
    BY <2>1, <2>2, CallBounds, CounterFacts
  <2>4. n = job.want \/ n = job.left
    BY <1>3, <2>1, <2>3, CallEnds, CallBounds
  <2>5. Count(m_head, m_head') = n
    BY <2>1, <2>3, MovedBy, CallBounds
  <2>6. m_head' \in Counter /\ Count(m_head', m_tail) = Count(m_head, m_tail) - n
    BY <2>1, <2>3, HeadMoves, CallBounds
  <2>7. n = job.left => Count(m_head', m_tail) = 0
    BY <2>2, <2>3, <2>6
  <2>8. n = job.left => IsEmpty(m_head', m_tail')
    <3>1. m_tail \in Counter
      BY CallBounds
    <3>2. ASSUME Count(m_head', m_tail) = 0 PROVE m_head' = m_tail
      BY <2>6, <3>1, <3>2, CountNought
    <3> QED BY <2>2, <2>7, <3>2 DEF IsEmpty
  <2> QED BY <1>3, <2>4, <2>5, <2>8
<1> QED BY <1>1, <1>2, <1>3

(* write and read stop short of what they were asked for only when the     *)
(* buffer is full or empty: the end of the array in the middle of a        *)
(* request costs nothing.                                                  *)
THEOREM RequestsMoved == BufferSpec => RequestsAreGreedy
<1> DEFINE moved == IF job.op = "write" THEN Count(m_tail, m_tail')
                                         ELSE Count(m_head, m_head')
           greedy == (job.op \in {"write", "read"} /\ job'.op = "none") =>
                        \/ moved = job.want
                        \/ job.op = "write" /\ FreeSpace(m_head', m_tail') = 0
                        \/ job.op = "read" /\ IsEmpty(m_head', m_tail')
<1>1. BufferIInv /\ [BufferNext]_bufferVars => [greedy]_bufferVars
  BY StepIsGreedy
<1> QED BY <1>1, BufferInvariance, PTL DEF BufferSpec, RequestsAreGreedy
-----------------------------------------------------------------------------
(* The streams.                                                            *)
(* The bytes of strings, one frame after the other: string k ends at off[k].*)
Frames(sent, bytes, off) ==
    /\ bytes \in Seq(Octet) /\ off \in [0 .. Len(sent) -> Nat]
    /\ off[0] = 0 /\ off[Len(sent)] = Len(bytes)
    /\ \A k \in 1 .. Len(sent) :
        /\ Len(sent[k]) < LengthModulus /\ off[k] <= Len(bytes)
        /\ off[k] = off[k - 1] + 1 + Len(sent[k])
        /\ bytes[off[k - 1] + 1] = Len(sent[k])
        /\ \A i \in 1 .. Len(sent[k]) : bytes[off[k - 1] + 1 + i] = sent[k][i]

(* What the reader has: the strings in got, any for one that was empty; of *)
(* the next one, if its length was read (text), its part.                  *)
HasRead(sent, got, text, part, left) ==
    /\ Len(got) <= Len(sent)
    /\ \A k \in 1 .. Len(got) : got[k] = sent[k] \/ sent[k] = <<>>
    /\ text => /\ Len(got) < Len(sent)
               /\ Len(part) + left = Len(sent[Len(got) + 1])
               /\ \A i \in 1 .. Len(part) : part[i] = sent[Len(got) + 1][i]

(* After those comes what is in wire.  The writer, if it goes on (live), is*)
(* about to write pend, which is the rest.                                 *)
OnTheWay(bytes, pos, wire, live, pend) ==
    /\ pos + Len(wire) <= Len(bytes)
    /\ \A i \in 1 .. Len(wire) : wire[i] = bytes[pos + i]
    /\ live => /\ pos + Len(wire) + Len(pend) = Len(bytes)
               /\ \A i \in 1 .. Len(pend) : pend[i] = bytes[pos + Len(wire) + i]

Position(off, got, text, part) == off[Len(got)] + (IF text THEN 1 + Len(part) ELSE 0)

Carried(sent, got, wire, live, pend, text, part, left) ==
    \E bytes, off :
        /\ Frames(sent, bytes, off)
        /\ HasRead(sent, got, text, part, left)
        /\ OnTheWay(bytes, Position(off, got, text, part), wire, live, pend)

(* What end e writes to connection id, and the other end reads there.      *)
Pending(e) == FlattenSeq(call[e].pieces)
Direction(id, e) ==
    LET o == Other(e)
    IN  chan[id].torn \/
            Carried(chan[id].sent[e], chan[id].got[o], chan[id].wire[o],
                    Conn(e) = id /\ chan[id].fd[o] # "closed", Pending(e),
                    Conn(o) = id /\ call[o].op = "text", call[o].part, call[o].left)

StreamsInv == \A id \in DOMAIN chan, e \in Ends : Direction(id, e)

(* A call has what it works on: a connection, and pieces if it writes.     *)
CallsInv ==
    \A e \in Ends :
        /\ Conn(e) > 0 => Conn(e) \in DOMAIN chan /\ chan[Conn(e)].fd[e] = "open"
        /\ call[e].op \notin {"idle", "dead"} => Conn(e) > 0
        /\ Len(call[e].pieces) <= 2
        /\ call[e].op \notin {"write", "writev"} => call[e].pieces = <<>>
        /\ call[e].op \in {"length", "in"} => call[e].left = 1 /\ call[e].part = <<>>

(* Who waits to be accepted does so once, and has heard nothing yet.       *)
BacklogInv ==
    /\ \A i \in DOMAIN waiting : chan[waiting[i]].fd["server"] = "none"
    /\ \A i, j \in DOMAIN waiting : i # j => waiting[i] # waiting[j]
    /\ \A id \in DOMAIN chan : chan[id].fd["server"] = "none" =>
            chan[id].sent["server"] = <<>> /\ chan[id].got["server"] = <<>>

IInv ==
    LengthsFit /\ StreamsTypeOK /\ DescriptorsHeld /\ CallsInv /\ BacklogInv /\ StreamsInv
-----------------------------------------------------------------------------
LEMMA TwoEnds ==
    /\ Other("client") = "server" /\ Other("server") = "client"
    /\ \A e \in Ends : /\ Other(e) \in Ends /\ Other(e) # e /\ Other(Other(e)) = e
                       /\ \A x \in Ends : x = e \/ x = Other(e)
<1>1. Other("client") = "server"
  BY DEF Other, Ends
<1>2. Other("server") = "client"
  BY DEF Other, Ends
<1> QED BY <1>1, <1>2 DEF Ends

(* A frame is two pieces at most; put together, they are these.            *)
LEMMA PiecesAre ==
    ASSUME NEW pieces \in Seq(Seq(Octet)), Len(pieces) <= 2
    PROVE  \/ pieces = <<>>
           \/ \E p \in Seq(Octet) : pieces = <<p>>
           \/ \E p, q \in Seq(Octet) : pieces = <<p, q>>
<1>1. Len(pieces) \in {0, 1, 2}
  <2>1. PICK n : n = Len(pieces)
    OBVIOUS
  <2>2. n \in Nat /\ n <= 2
    BY <2>1, LenProperties
  <2>3. n \in {0, 1, 2}
    BY ONLY <2>2
  <2> QED BY ONLY <2>1, <2>3
<1>2. CASE Len(pieces) = 0
  BY <1>2, EmptySeq
<1>3. CASE Len(pieces) = 1
  <2> DEFINE Pieces == Seq(Octet)
  <2> HIDE DEF Pieces
  <2>0. pieces \in Seq(Pieces) /\ 1 \in 1 .. Len(pieces)
    BY <1>3, SMT DEF Pieces
  <2>1. pieces[1] \in Seq(Octet)
    BY ONLY <2>0, ElementOfSeq DEF Pieces
  <2>2. pieces = <<pieces[1]>>
    BY <1>3, <2>1
  <2> QED BY <2>1, <2>2
<1>4. CASE Len(pieces) = 2
  <2> DEFINE Pieces == Seq(Octet)
  <2> HIDE DEF Pieces
  <2>0. pieces \in Seq(Pieces) /\ 1 \in 1 .. Len(pieces) /\ 2 \in 1 .. Len(pieces)
    BY <1>4, SMT DEF Pieces
  <2>1. pieces[1] \in Pieces /\ pieces[2] \in Pieces
    BY ONLY <2>0, ElementOfSeq
  <2>2. PICK p, q : p = pieces[1] /\ q = pieces[2]
    OBVIOUS
  <2>3. <<p, q>> \in Seq(Pieces) /\ Len(<<p, q>>) = 2
    BY <2>1, <2>2
  <2>4. \A i \in 1 .. 2 : pieces[i] = <<p, q>>[i]
    BY ONLY <2>2
  <2>5. pieces = <<p, q>>
    BY ONLY <1>4, <2>3, <2>4, SeqEqual, <2>0
  <2> QED BY <2>1, <2>2, <2>5 DEF Pieces
<1> QED BY <1>1, <1>2, <1>3, <1>4

LEMMA Flattened ==
    ASSUME NEW p \in Seq(Octet), NEW q \in Seq(Octet)
    PROVE  /\ FlattenSeq(<<>>) = <<>>
           /\ FlattenSeq(<<p>>) = p
           /\ FlattenSeq(<<p, q>>) = p \o q
<1> DEFINE Again(s, f) == [i \in 1 .. Len(s) |-> IF i = 1 THEN s[i] ELSE f[i - 1] \o s[i]]
           Chosen(s) == CHOOSE f : f = Again(s, f)
<1>1. ASSUME NEW s, NEW f, f = Again(s, f)
      PROVE  Chosen(s) = Again(s, Chosen(s))
  <2> HIDE DEF Again
  <2> QED BY <1>1
<1>2. ASSUME NEW s, Len(s) # 0 PROVE FlattenSeq(s) = Chosen(s)[Len(s)]
  BY <1>2 DEF FlattenSeq
<1>3. FlattenSeq(<<>>) = <<>>
  BY DEF FlattenSeq
<1>4. FlattenSeq(<<p>>) = p
  <2>1. PICK s : s = <<p>>
    OBVIOUS
  <2>2. Len(s) = 1 /\ s[1] = p /\ 1 .. Len(s) = {1}
    BY <2>1
  <2>3. s = Again(s, s)
    BY <2>1, <2>2
  <2>4. Chosen(s) = Again(s, Chosen(s))
    BY <1>1, <2>3
  <2>5. Chosen(s)[1] = p
    <3>1. PICK c : c = Chosen(s)
      OBVIOUS
    <3>2. c = [i \in 1 .. Len(s) |-> IF i = 1 THEN s[i] ELSE c[i - 1] \o s[i]]
      BY ONLY <2>4, <3>1
    <3>3. 1 \in 1 .. Len(s)
      BY <2>2
    <3>4. c[1] = IF 1 = 1 THEN s[1] ELSE c[1 - 1] \o s[1]
      BY ONLY <3>2, <3>3, Zenon
    <3> QED BY ONLY <2>2, <3>1, <3>4
  <2>6. FlattenSeq(s) = Chosen(s)[1]
    <3>1. Len(s) # 0
      BY ONLY <2>2
    <3>2. FlattenSeq(s) = Chosen(s)[Len(s)]
      BY <1>2, <3>1
    <3> QED BY ONLY <2>2, <3>2
  <2> QED BY ONLY <2>1, <2>5, <2>6
<1>5. FlattenSeq(<<p, q>>) = p \o q
  <2>1. PICK s, j : s = <<p, q>> /\ j = p \o q
    OBVIOUS
  <2>2. Len(s) = 2 /\ s[1] = p /\ s[2] = q /\ 1 .. Len(s) = {1, 2}
    BY <2>1
  <2>3. PICK f : f = [i \in 1 .. Len(s) |-> IF i = 1 THEN p ELSE j]
    OBVIOUS
  <2>4. f[1] = p /\ f[2] = j
    BY ONLY <2>2, <2>3
  <2>5. \A i \in 1 .. Len(s) : (IF i = 1 THEN p ELSE j) = IF i = 1 THEN s[i] ELSE f[i - 1] \o s[i]
    BY ONLY <2>1, <2>2, <2>4
  <2>6. f = Again(s, f)
    BY ONLY <2>3, <2>5
  <2>7. Chosen(s) = Again(s, Chosen(s))
    BY <1>1, <2>6
  <2>8. PICK c : c = Chosen(s)
    OBVIOUS
  <2>9. c[1] = p /\ c[2] = c[1] \o q
    <3>1. c = [i \in 1 .. Len(s) |-> IF i = 1 THEN s[i] ELSE c[i - 1] \o s[i]]
      BY ONLY <2>7, <2>8
    <3>2. 1 \in 1 .. Len(s) /\ 2 \in 1 .. Len(s)
      BY <2>2
    <3>3. c[1] = s[1]
      BY ONLY <3>1, <3>2, Zenon
    <3>4. c[2] = IF 2 = 1 THEN s[2] ELSE c[2 - 1] \o s[2]
      BY ONLY <3>1, <3>2, Zenon
    <3>5. 2 # 1 /\ 2 - 1 = 1
      OBVIOUS
    <3> QED BY ONLY <2>2, <3>3, <3>4, <3>5
  <2>10. FlattenSeq(s) = Chosen(s)[2]
    <3>1. Len(s) # 0
      BY ONLY <2>2
    <3>2. FlattenSeq(s) = Chosen(s)[Len(s)]
      BY <1>2, <3>1
    <3> QED BY ONLY <2>2, <3>2
  <2> QED BY ONLY <2>1, <2>8, <2>9, <2>10
<1> QED BY <1>3, <1>4, <1>5

(* What is left of a piece.                                                *)
Cut(piece, n) == IF n >= Len(piece) THEN <<>> ELSE <<SubSeq(piece, n + 1, Len(piece))>>

(* What skipping one piece does: to the bytes still to skip and the pieces *)
(* left; skipping several is to skip one after the other.                  *)
After(a, p) ==
    IF a.skip >= Len(p) THEN [a EXCEPT !.skip = @ - Len(p)]
    ELSE [skip |-> 0, left |-> Append(a.left, SubSeq(p, a.skip + 1, Len(p)))]

Walked(s, b, f) ==
    [w \in SUBSET DOMAIN s |-> IF w = {} THEN b ELSE After(f[w \ {Max(w)}], s[Max(w)])]
Walk(s, b) == CHOOSE f : f = Walked(s, b, f)

(* Skip is a fold over the pieces' indices, the last one first.            *)
LEMMA SkipWalks ==
    ASSUME NEW s, NEW n
    PROVE  Skip(s, n) = Walk(s, [skip |-> n, left |-> <<>>])[DOMAIN s].left
    BY DEF Skip, FoldLeft, MapThenFoldSet, Walk, Walked, After

LEMMA WalkOne ==
    ASSUME NEW p, NEW b
    PROVE  Walk(<<p>>, b)[DOMAIN <<p>>] = After(b, p)
<1>1. PICK s, a : s = <<p>> /\ a = After(b, p)
  OBVIOUS
<1>2. DOMAIN s = {1} /\ s[1] = p
  BY ONLY <1>1
<1>3. PICK f : f = [w \in SUBSET {1} |-> IF w = {} THEN b ELSE a]
  OBVIOUS
<1>4. Max({1}) = 1
  BY DEF Max
<1>5. \A w \in SUBSET {1} : w = {} \/ w = {1}
  OBVIOUS
<1>6. f = Walked(s, b, f)
  <2>1. f[{}] = b
    BY ONLY <1>3
  <2>2. \A w \in SUBSET {1} : (IF w = {} THEN b ELSE a)
            = IF w = {} THEN b ELSE After(f[w \ {Max(w)}], s[Max(w)])
    <3> SUFFICES ASSUME NEW w \in SUBSET {1}, w # {}
                 PROVE  a = After(f[w \ {Max(w)}], s[Max(w)])
      OBVIOUS
    <3>1. w = {1}
      BY ONLY <1>5, w \in SUBSET {1}, w # {}
    <3>0. {1} \ {1} = {}
      OBVIOUS
    <3>2. Max(w) = 1
      BY ONLY <1>4, <3>1
    <3> QED BY ONLY <1>1, <1>2, <2>1, <3>0, <3>1, <3>2
  <2> QED BY ONLY <1>2, <1>3, <2>2 DEF Walked
<1>7. PICK c : c = Walk(s, b)
  OBVIOUS
<1>8. c = Walked(s, b, c)
  <2> HIDE DEF Walked
  <2> QED BY <1>6, <1>7 DEF Walk
<1>9. c[{}] = b
  BY ONLY <1>8, <1>2 DEF Walked
<1>10. c[{1}] = After(c[{1} \ {Max({1})}], s[Max({1})])
  BY ONLY <1>8, <1>2 DEF Walked
<1>11. {1} \ {1} = {}
  OBVIOUS
<1>12. c[{1}] = a
  BY ONLY <1>1, <1>2, <1>4, <1>9, <1>10, <1>11
<1> QED BY ONLY <1>1, <1>2, <1>7, <1>12

LEMMA WalkTwo ==
    ASSUME NEW p, NEW q, NEW b
    PROVE  Walk(<<p, q>>, b)[DOMAIN <<p, q>>] = After(After(b, p), q)
<1>1. PICK s, a1, a2, a12 : s = <<p, q>> /\ a1 = After(b, p) /\ a2 = After(b, q) /\ a12 = After(a1, q)
  OBVIOUS
<1>2. DOMAIN s = {1, 2} /\ s[1] = p /\ s[2] = q
  BY ONLY <1>1
<1>3. PICK f : f = [w \in SUBSET {1, 2} |-> IF w = {} THEN b ELSE IF w = {1} THEN a1
                                            ELSE IF w = {2} THEN a2 ELSE a12]
  OBVIOUS
<1>4. Max({1}) = 1 /\ Max({2}) = 2 /\ Max({1, 2}) = 2
  <2>1. Max({1}) = 1
    BY DEF Max
  <2>2. Max({2}) = 2
    BY DEF Max
  <2>3. Max({1, 2}) = 2
    BY DEF Max
  <2> QED BY <2>1, <2>2, <2>3
<1>5. \A w \in SUBSET {1, 2} : w = {} \/ w = {1} \/ w = {2} \/ w = {1, 2}
  OBVIOUS
<1>0. {1} # {} /\ {2} # {} /\ {1} # {2} /\ {1, 2} # {} /\ {1, 2} # {1} /\ {1, 2} # {2}
      /\ {1} \ {1} = {} /\ {2} \ {2} = {} /\ {1, 2} \ {2} = {1}
      /\ {} \in SUBSET {1, 2} /\ {1} \in SUBSET {1, 2} /\ {1, 2} \in SUBSET {1, 2}
  OBVIOUS
<1>6. f = Walked(s, b, f)
  <2>1. f[{}] = b /\ f[{1}] = a1
    BY ONLY <1>0, <1>3
  <2>2. \A w \in SUBSET {1, 2} : (IF w = {} THEN b ELSE IF w = {1} THEN a1
                                  ELSE IF w = {2} THEN a2 ELSE a12)
            = IF w = {} THEN b ELSE After(f[w \ {Max(w)}], s[Max(w)])
    <3> SUFFICES ASSUME NEW w \in SUBSET {1, 2}, w # {}
                 PROVE  (IF w = {1} THEN a1 ELSE IF w = {2} THEN a2 ELSE a12)
                            = After(f[w \ {Max(w)}], s[Max(w)])
      OBVIOUS
    <3>1. CASE w = {1}
      BY ONLY <1>0, <1>1, <1>2, <1>4, <2>1, <3>1
    <3>2. CASE w = {2}
      BY ONLY <1>0, <1>1, <1>2, <1>4, <2>1, <3>2
    <3>3. CASE w = {1, 2}
      BY ONLY <1>0, <1>1, <1>2, <1>4, <2>1, <3>3
    <3> QED BY ONLY <1>5, <3>1, <3>2, <3>3, w \in SUBSET {1, 2}, w # {}
  <2> QED BY ONLY <1>2, <1>3, <2>2 DEF Walked
<1>7. PICK c : c = Walk(s, b)
  OBVIOUS
<1>8. c = Walked(s, b, c)
  <2> HIDE DEF Walked
  <2> QED BY <1>6, <1>7 DEF Walk
<1>9. \A w \in SUBSET {1, 2} : c[w] = IF w = {} THEN b ELSE After(c[w \ {Max(w)}], s[Max(w)])
  BY ONLY <1>8, <1>2 DEF Walked
<1>10. c[{}] = b
  BY ONLY <1>0, <1>9
<1>11. c[{1}] = a1
  BY ONLY <1>0, <1>1, <1>2, <1>4, <1>9, <1>10
<1>12. c[{1, 2}] = a12
  BY ONLY <1>0, <1>1, <1>2, <1>4, <1>9, <1>11
<1> QED BY ONLY <1>1, <1>2, <1>7, <1>12

(* What write_v's loop leaves of the pieces of a string, one or two.       *)
LEMMA SkipOne ==
    ASSUME NEW p \in Seq(Octet), NEW n \in Nat
    PROVE  Skip(<<p>>, n) = IF n >= Len(p) THEN <<>> ELSE <<SubSeq(p, n + 1, Len(p))>>
<1>1. PICK b, s : b = [skip |-> n, left |-> <<>>] /\ s = <<p>>
  OBVIOUS
<1>2. Skip(s, n) = After(b, p).left
  BY ONLY SkipWalks, WalkOne, <1>1
<1>3. PICK m, r : m = Len(p) /\ r = SubSeq(p, n + 1, Len(p))
  OBVIOUS
<1>4. m \in Nat
  BY ONLY <1>3, LenProperties, p \in Seq(Octet)
<1>5. After(b, p) = IF n >= m THEN [skip |-> n - m, left |-> <<>>]
                    ELSE [skip |-> 0, left |-> Append(<<>>, r)]
  BY ONLY <1>1, <1>3 DEF After
<1>6. Append(<<>>, r) = <<r>>
  OBVIOUS
<1>7. After(b, p).left = IF n >= m THEN <<>> ELSE <<r>>
  BY ONLY <1>5, <1>6
<1> QED BY ONLY <1>1, <1>2, <1>3, <1>7

LEMMA SkipTwo ==
    ASSUME NEW p \in Seq(Octet), NEW q \in Seq(Octet), NEW n \in Nat
    PROVE  Skip(<<p, q>>, n) =
             IF n >= Len(p)
             THEN IF n - Len(p) >= Len(q) THEN <<>> ELSE <<SubSeq(q, n - Len(p) + 1, Len(q))>>
             ELSE IF Len(q) = 0 THEN <<SubSeq(p, n + 1, Len(p))>>
                  ELSE <<SubSeq(p, n + 1, Len(p)), q>>
<1>1. PICK b, s, a : b = [skip |-> n, left |-> <<>>] /\ s = <<p, q>> /\ a = After(b, p)
  OBVIOUS
<1>2. Skip(s, n) = After(a, q).left
  BY ONLY SkipWalks, WalkTwo, <1>1
<1>3. PICK m, k, r, t : /\ m = Len(p) /\ r = SubSeq(p, n + 1, Len(p))
                        /\ k = Len(q) /\ t = SubSeq(q, n - Len(p) + 1, Len(q))
  OBVIOUS
<1>4. m \in Nat /\ k \in Nat
  BY ONLY <1>3, LenProperties, p \in Seq(Octet), q \in Seq(Octet)
<1>5. a = IF n >= m THEN [skip |-> n - m, left |-> <<>>]
          ELSE [skip |-> 0, left |-> Append(<<>>, r)]
  BY ONLY <1>1, <1>3 DEF After
<1>6. Append(<<>>, r) = <<r>> /\ Append(<<>>, t) = <<t>> /\ Append(<<r>>, q) = <<r, q>>
  <2>1. Append(<<>>, r) = <<r>>
    BY ONLY TRUE
  <2>2. Append(<<>>, t) = <<t>>
    BY ONLY TRUE
  <2>3. Append(<<r>>, q) = <<r, q>>
    <3>1. PICK S : S = {r, q}
      OBVIOUS
    <3>2. <<r>> \in Seq(S) /\ <<r, q>> \in Seq(S) /\ q \in S
      BY ONLY <3>1
    <3>3. PICK z : z = Append(<<r>>, q)
      OBVIOUS
    <3>4. /\ z \in Seq(S) /\ Len(z) = Len(<<r>>) + 1
          /\ \A i \in 1 .. Len(<<r>>) : z[i] = <<r>>[i]
          /\ z[Len(<<r>>) + 1] = q
      BY ONLY <3>2, <3>3, AppendProperties
    <3>5. Len(z) = 2 /\ z[1] = r /\ z[2] = q
      BY ONLY <3>4
    <3>6. z = <<r, q>>
      <4>1. PICK y : y = <<r, q>>
        OBVIOUS
      <4>2. y \in Seq(S) /\ Len(y) = 2 /\ y[1] = r /\ y[2] = q
        BY ONLY <3>2, <4>1
      <4>3. \A i \in 1 .. 2 : y[i] = z[i]
        BY ONLY <3>5, <4>2
      <4>4. y = z
        BY ONLY <3>4, <3>5, <4>2, <4>3, SeqEqual
      <4> QED BY ONLY <4>1, <4>4
    <3> QED BY ONLY <3>3, <3>6
  <2> QED BY ONLY <2>1, <2>2, <2>3
<1>7. SubSeq(q, 1, k) = q
  <2>1. SubSeq(q, 1, Len(q)) = q
    BY SubSeqFull
  <2> QED BY ONLY <1>3, <2>1
<1>8. CASE n >= m
  <2>1. a.skip = n - m /\ a.left = <<>>
    BY ONLY <1>5, <1>8
  <2>2. After(a, q).left = IF n - m >= k THEN <<>> ELSE <<t>>
    <3>1. CASE n - m >= k
      <4>1. After(a, q) = [a EXCEPT !.skip = @ - k]
        BY ONLY <3>1, <2>1, <1>3 DEF After
      <4> QED BY ONLY <3>1, <4>1, <2>1, <1>5, <1>8
    <3>2. CASE ~ n - m >= k
      <4>1. After(a, q) = [skip |-> 0, left |-> Append(<<>>, t)]
        BY ONLY <3>2, <2>1, <1>3 DEF After
      <4> QED BY ONLY <3>2, <4>1, <1>6
    <3> QED BY ONLY <3>1, <3>2
  <2> QED BY ONLY <1>1, <1>2, <1>3, <1>8, <2>2
<1>9. CASE ~ n >= m
  <2>1. a.skip = 0 /\ a.left = <<r>> /\ a = [skip |-> 0, left |-> <<r>>]
    BY ONLY <1>5, <1>6, <1>9
  <2>2. After(a, q).left = IF k = 0 THEN <<r>> ELSE <<r, q>>
    <3>1. CASE k = 0
      <4>1. After(a, q) = [a EXCEPT !.skip = @ - k]
        <5>1. 0 >= k
          BY ONLY <3>1
        <5> QED BY ONLY <5>1, <2>1, <1>3 DEF After
      <4>2. [a EXCEPT !.skip = @ - k].left = <<r>>
        BY ONLY <2>1
      <4> QED BY ONLY <3>1, <4>1, <4>2
    <3>2. CASE k # 0
      <4>0. ~ 0 >= k
        BY ONLY <3>2, <1>4
      <4>1. After(a, q) = [skip |-> 0, left |-> Append(<<r>>, SubSeq(q, 0 + 1, k))]
        BY ONLY <4>0, <2>1, <1>3 DEF After
      <4>2. PICK z, d : z = Append(<<r>>, SubSeq(q, 0 + 1, k)) /\ d = After(a, q)
        OBVIOUS
      <4>5. d = [skip |-> 0, left |-> z]
        BY ONLY <4>1, <4>2
      <4>3. 0 + 1 = 1
        OBVIOUS
      <4>6. d.left = z
        BY ONLY <4>5
      <4>4. After(a, q).left = z
        BY ONLY <4>2, <4>6
      <4> QED BY ONLY <3>2, <4>2, <4>3, <4>4, <1>6, <1>7
    <3> QED BY ONLY <3>1, <3>2
  <2> QED BY ONLY <1>1, <1>2, <1>3, <1>4, <1>9, <2>2
<1> QED BY ONLY <1>4, <1>8, <1>9

(* One sequence is another's rest, after n.                                *)
RestOf(g, f, n) ==
    /\ f \in Seq(Octet) /\ g \in Seq(Octet) /\ n \in Nat
    /\ Len(f) \in Nat /\ Len(g) \in Nat
    /\ n + Len(g) = Len(f)
    /\ \A i \in 1 .. Len(g) : g[i] = f[n + i]

(* One sequence is two, one after the other.                               *)
Joined(f, p, q) ==
    /\ f \in Seq(Octet) /\ p \in Seq(Octet) /\ q \in Seq(Octet)
    /\ Len(f) \in Nat /\ Len(p) \in Nat /\ Len(q) \in Nat
    /\ Len(f) = Len(p) + Len(q)
    /\ \A i \in 1 .. Len(p) : f[i] = p[i]
    /\ \A i \in 1 .. Len(q) : f[Len(p) + i] = q[i]

LEMMA Join ==
    ASSUME NEW p \in Seq(Octet), NEW q \in Seq(Octet)
    PROVE  Joined(p \o q, p, q)
<1>1. Len(p) \in Nat /\ Len(q) \in Nat
  BY LenProperties
<1>2. PICK f : f = p \o q
  OBVIOUS
<1>3. /\ f \in Seq(Octet) /\ Len(f) = Len(p) + Len(q)
      /\ \A i \in 1 .. Len(p) + Len(q) : f[i] = IF i <= Len(p) THEN p[i] ELSE q[i - Len(p)]
  BY <1>2, ConcatProperties
<1>4. \A i \in 1 .. Len(p) : f[i] = p[i]
  BY ONLY <1>1, <1>3
<1>5. \A i \in 1 .. Len(q) : f[Len(p) + i] = q[i]
  BY ONLY <1>1, <1>3
<1>6. Len(f) \in Nat
  BY <1>3, LenProperties
<1> QED BY ONLY <1>1, <1>2, <1>3, <1>4, <1>5, <1>6, p \in Seq(Octet), q \in Seq(Octet) DEF Joined

LEMMA Rest ==
    ASSUME NEW f \in Seq(Octet), NEW n \in Nat, n <= Len(f)
    PROVE  RestOf(SubSeq(f, n + 1, Len(f)), f, n)
<1>1. PICK g, m, k : g = SubSeq(f, n + 1, m) /\ m = Len(f) /\ k = n + 1
  OBVIOUS
<1>2. m \in Nat /\ \A i \in k .. m : f[i] \in Octet
  <2>1. Len(f) \in Nat
    BY LenProperties
  <2>2. \A i \in 1 .. Len(f) : f[i] \in Octet
    BY ElementOfSeq
  <2>3. \A i \in k .. m : i \in 1 .. m
    BY ONLY <1>1, <2>1, n \in Nat
  <2> QED BY ONLY <1>1, <2>1, <2>2, <2>3
<1>3. g = SubSeq(f, k, m) /\ k \in Int /\ m \in Int
  BY <1>1, <1>2
<1>4. /\ g \in Seq(Octet) /\ Len(g) = IF k <= m THEN m - k + 1 ELSE 0
      /\ \A i \in 1 .. m - k + 1 : g[i] = f[k + i - 1]
  BY ONLY <1>2, <1>3, SubSeqProperties
<1>5. Len(g) = m - n
  BY ONLY <1>1, <1>2, <1>4, n \in Nat, n <= Len(f)
<1>6. \A i \in 1 .. Len(g) : g[i] = f[n + i]
  BY ONLY <1>1, <1>2, <1>4, <1>5, n \in Nat
<1>7. Len(f) \in Nat /\ Len(g) \in Nat /\ n + Len(g) = Len(f)
  BY ONLY <1>1, <1>2, <1>5, n \in Nat, n <= Len(f)
<1>8. RestOf(g, f, n)
  BY ONLY <1>4, <1>6, <1>7, n \in Nat, f \in Seq(Octet), Zenon DEF RestOf
<1> QED BY ONLY <1>1, <1>8

LEMMA RestIsEmpty ==
    ASSUME NEW f \in Seq(Octet)
    PROVE  RestOf(<<>>, f, Len(f))
<1>1. Len(f) \in Nat
  BY LenProperties
<1>2. <<>> \in Seq(Octet) /\ Len(<<>>) = 0
  BY EmptySeq
<1> QED BY ONLY <1>1, <1>2, f \in Seq(Octet) DEF RestOf

(* Of two sequences put together: the second is the rest after the first,  *)
(* the rest of the second is, and the rest of the first with the second.   *)
LEMMA RestOfJoined ==
    ASSUME NEW f, NEW p, NEW q, Joined(f, p, q), NEW n, NEW t
    PROVE  /\ RestOf(q, f, Len(p))
           /\ RestOf(t, q, n) => RestOf(t, f, Len(p) + n)
           /\ (RestOf(t, p, n) /\ Len(q) = 0) => RestOf(t, f, n)
<1>1. RestOf(q, f, Len(p))
  BY DEF Joined, RestOf
<1>2. RestOf(t, q, n) => RestOf(t, f, Len(p) + n)
  <2> HAVE RestOf(t, q, n)
  <2>0. /\ n \in Nat /\ Len(t) \in Nat /\ Len(q) \in Nat /\ Len(p) \in Nat /\ Len(f) \in Nat
        /\ n + Len(t) = Len(q) /\ Len(f) = Len(p) + Len(q)
    BY DEF Joined, RestOf
  <2>1. /\ Len(p) + n + Len(t) = Len(f) /\ Len(p) + n \in Nat
        /\ \A i \in 1 .. Len(t) : n + i \in 1 .. Len(q) /\ (Len(p) + n) + i = Len(p) + (n + i)
    BY ONLY <2>0
  <2>2. \A i \in 1 .. Len(t) : t[i] = f[(Len(p) + n) + i]
    <3> SUFFICES ASSUME NEW i \in 1 .. Len(t) PROVE t[i] = f[(Len(p) + n) + i]
      OBVIOUS
    <3>1. t[i] = q[n + i] /\ n + i \in 1 .. Len(q) /\ (Len(p) + n) + i = Len(p) + (n + i)
      BY <2>1 DEF RestOf
    <3>2. PICK j \in 1 .. Len(q) : j = n + i
      BY <3>1
    <3>3. f[Len(p) + j] = q[j]
      BY DEF Joined
    <3> QED BY ONLY <3>1, <3>2, <3>3
  <2> QED BY ONLY <2>1, <2>2, RestOf(t, q, n), Joined(f, p, q) DEF Joined, RestOf
<1>3. (RestOf(t, p, n) /\ Len(q) = 0) => RestOf(t, f, n)
  <2> HAVE RestOf(t, p, n) /\ Len(q) = 0
  <2>1. n + Len(t) = Len(f) /\ \A i \in 1 .. Len(t) : n + i \in 1 .. Len(p)
    BY DEF Joined, RestOf
  <2>2. \A i \in 1 .. Len(t) : t[i] = f[n + i]
    BY <2>1 DEF Joined, RestOf
  <2> QED BY <2>1, <2>2 DEF Joined, RestOf
<1> QED BY <1>1, <1>2, <1>3

LEMMA RestOfFirst ==
    ASSUME NEW f, NEW p, NEW q, Joined(f, p, q), NEW n, NEW t, RestOf(t, p, n),
           NEW g, Joined(g, t, q)
    PROVE  RestOf(g, f, n)
<1>1. n + Len(g) = Len(f) /\ n \in Nat /\ Len(g) \in Nat /\ Len(f) \in Nat
  <2>1. /\ n \in Nat /\ Len(g) \in Nat /\ Len(f) \in Nat /\ Len(p) \in Nat /\ Len(q) \in Nat
        /\ Len(t) \in Nat /\ n + Len(t) = Len(p) /\ Len(f) = Len(p) + Len(q)
        /\ Len(g) = Len(t) + Len(q)
    BY Zenon DEF Joined, RestOf
  <2> QED BY ONLY <2>1
<1>2. ASSUME NEW i \in 1 .. Len(g) PROVE g[i] = f[n + i]
  <2>1. Len(t) \in Nat /\ Len(q) \in Nat /\ Len(p) \in Nat /\ Len(p) = n + Len(t)
        /\ Len(g) = Len(t) + Len(q)
    BY DEF Joined, RestOf
  <2>2. CASE i \in 1 .. Len(t)
    <3>1. g[i] = t[i] /\ t[i] = p[n + i]
      BY ONLY <2>2, RestOf(t, p, n), Joined(g, t, q) DEF Joined, RestOf
    <3>2. n + i \in 1 .. Len(p)
      BY ONLY <1>1, <2>1, <2>2
    <3>3. f[n + i] = p[n + i]
      BY ONLY <3>2, Joined(f, p, q) DEF Joined
    <3> QED BY ONLY <3>1, <3>3
  <2>3. CASE i \notin 1 .. Len(t)
    <3>1. PICK j : j = i - Len(t)
      OBVIOUS
    <3>2. j \in 1 .. Len(q) /\ Len(t) + j = i /\ Len(p) + j = n + i
      BY ONLY <1>1, <2>1, <2>3, <3>1, i \in 1 .. Len(g)
    <3>3. g[Len(t) + j] = q[j]
      BY ONLY <3>2, Joined(g, t, q) DEF Joined
    <3>4. f[Len(p) + j] = q[j]
      BY ONLY <3>2, Joined(f, p, q) DEF Joined
    <3> QED BY ONLY <3>2, <3>3, <3>4
  <2> QED BY <2>2, <2>3
<1> QED BY ONLY <1>1, <1>2, Joined(f, p, q), Joined(g, t, q) DEF Joined, RestOf

LEMMA PairIs ==
    ASSUME NEW t \in Seq(Octet), NEW q \in Seq(Octet)
    PROVE  /\ <<t>> \o <<q>> = <<t, q>>
           /\ <<>> \o <<q>> = <<q>>
           /\ <<q>> \o <<>> = <<q>>
           /\ <<t, q>> \o <<>> = <<t, q>>
           /\ <<>> \o <<>> = <<>>
<1>1. PICK S : S = Seq(Octet)
  OBVIOUS
<1>2. <<t>> \in Seq(S) /\ <<q>> \in Seq(S) /\ <<t, q>> \in Seq(S) /\ <<>> \in Seq(S)
  BY ONLY <1>1, t \in Seq(Octet), q \in Seq(Octet)
<1>3. \A s \in Seq(S) : s \o <<>> = s /\ <<>> \o s = s
  BY ONLY ConcatEmptySeq
<1>4. PICK x, y, z : x = <<t>> /\ y = <<q>> /\ z = <<t, q>>
  OBVIOUS
<1>5. x \o y = z
  <2>1. PICK c : c = x \o y
    OBVIOUS
  <2>2. x \in Seq(S) /\ y \in Seq(S) /\ z \in Seq(S)
    BY ONLY <1>2, <1>4
  <2>3. /\ c \in Seq(S) /\ Len(c) = Len(x) + Len(y)
        /\ \A i \in 1 .. Len(x) + Len(y) : c[i] = IF i <= Len(x) THEN x[i] ELSE y[i - Len(x)]
    BY ONLY <2>1, <2>2, ConcatProperties
  <2>4. Len(x) = 1 /\ Len(y) = 1 /\ Len(z) = 2 /\ x[1] = t /\ y[1] = q /\ z[1] = t /\ z[2] = q
    BY ONLY <1>4
  <2>5. Len(c) = 2 /\ c[1] = t /\ c[2] = q
    BY ONLY <2>3, <2>4
  <2>6. \A i \in 1 .. 2 : c[i] = z[i]
    BY ONLY <2>4, <2>5
  <2>7. c = z
    BY ONLY <2>2, <2>3, <2>4, <2>5, <2>6, SeqEqual, ZenonT(40)
  <2> QED BY ONLY <2>1, <2>7
<1> QED BY ONLY <1>2, <1>3, <1>4, <1>5

(* What a writev, or a write of the first piece, leaves of the pieces, and *)
(* what it sends of them, are together what there was.                     *)
LEMMA SomeSent ==
    ASSUME NEW pieces \in Seq(Seq(Octet)), Len(pieces) <= 2, pieces # <<>>,
           NEW v \in BOOLEAN,
           NEW cur, cur = IF v THEN FlattenSeq(pieces) ELSE Head(pieces),
           NEW n \in 1 .. Len(cur),
           NEW rest, rest = Skip(IF v THEN pieces ELSE <<Head(pieces)>>, n) \o
                            (IF v THEN <<>> ELSE Tail(pieces))
    PROVE  /\ rest \in Seq(Seq(Octet)) /\ Len(rest) <= 2
           /\ RestOf(FlattenSeq(rest), FlattenSeq(pieces), n)
           /\ cur \in Seq(Octet) /\ Len(cur) <= Len(FlattenSeq(pieces))
           /\ \A i \in 1 .. Len(cur) : cur[i] = FlattenSeq(pieces)[i]
<1> DEFINE Goal == /\ rest \in Seq(Seq(Octet)) /\ Len(rest) <= 2
                   /\ RestOf(FlattenSeq(rest), FlattenSeq(pieces), n)
                   /\ cur \in Seq(Octet) /\ Len(cur) <= Len(FlattenSeq(pieces))
                   /\ \A i \in 1 .. Len(cur) : cur[i] = FlattenSeq(pieces)[i]
<1>b. FlattenSeq(<<>>) = <<>> /\ \A x \in Seq(Octet) : FlattenSeq(<<x>>) = x
  <2>1. \A x, y \in Seq(Octet) : FlattenSeq(<<>>) = <<>> /\ FlattenSeq(<<x>>) = x
    BY ONLY Flattened, Zenon
  <2>2. PICK y : y \in Seq(Octet)
    BY EmptySeq
  <2> QED BY ONLY <2>1, <2>2, Zenon
<1>a. n \in Int /\ n >= 1 /\ n <= Len(cur)
  OBVIOUS
<1>0. ASSUME NEW f \in Seq(Octet), f = FlattenSeq(pieces), NEW g, RestOf(g, f, n),
             \/ rest = <<>> /\ g = <<>>
             \/ rest = <<g>>
             \/ \E t \in Seq(Octet), q \in Seq(Octet) : rest = <<t, q>> /\ g = t \o q,
             cur \in Seq(Octet), Len(cur) <= Len(f), \A i \in 1 .. Len(cur) : cur[i] = f[i]
      PROVE  Goal
  <2>1. g \in Seq(Octet)
    BY ONLY <1>0 DEF RestOf
  <2>2. rest \in Seq(Seq(Octet)) /\ Len(rest) <= 2
    <3>1. PICK S : S = Seq(Octet)
      OBVIOUS
    <3>2. CASE rest = <<>>
      BY ONLY <3>1, <3>2
    <3>3. CASE rest = <<g>>
      BY ONLY <2>1, <3>1, <3>3
    <3>4. CASE \E t \in Seq(Octet), q \in Seq(Octet) : rest = <<t, q>> /\ g = t \o q
      <4>1. PICK t \in S, q \in S : rest = <<t, q>>
        BY ONLY <3>1, <3>4
      <4>2. rest \in Seq(S) /\ Len(rest) <= 2
        BY ONLY <4>1
      <4> QED BY ONLY <3>1, <4>2
    <3> QED BY ONLY <1>0, <3>2, <3>3, <3>4
  <2>3. FlattenSeq(rest) = g
    <3>1. CASE \E t \in Seq(Octet), q \in Seq(Octet) : rest = <<t, q>> /\ g = t \o q
      <4>1. PICK t \in Seq(Octet), q \in Seq(Octet) : rest = <<t, q>> /\ g = t \o q
        BY <3>1
      <4>2. FlattenSeq(<<t, q>>) = t \o q
        BY ONLY Flattened, <4>1
      <4> QED BY ONLY <4>1, <4>2, Zenon
    <3>2. CASE rest = <<>> /\ g = <<>>
      BY ONLY <3>2, <1>b
    <3>3. CASE rest = <<g>>
      <4>1. FlattenSeq(<<g>>) = g
        BY ONLY <2>1, <1>b, Zenon
      <4> QED BY ONLY <3>3, <4>1, Zenon
    <3> QED BY ONLY <1>0, <3>1, <3>2, <3>3
  <2> QED BY ONLY <1>0, <2>2, <2>3
<1> HIDE DEF Goal
<1>1. ASSUME NEW p \in Seq(Octet), pieces = <<p>> PROVE Goal
  <2>1. FlattenSeq(pieces) = p /\ Head(pieces) = p /\ Tail(pieces) = <<>>
    <3>1. FlattenSeq(pieces) = p
      BY ONLY <1>1, <1>b
    <3>2. Head(pieces) = p
      BY ONLY <1>1
    <3>3. Tail(pieces) = <<>>
      BY ONLY <1>1
    <3> QED BY ONLY <3>1, <3>2, <3>3
  <2>2. cur = p /\ Len(p) \in Nat
    BY <2>1, LenProperties
  <2>3. n \in Nat /\ n <= Len(p)
    BY ONLY <1>a, <2>2
  <2>4. rest = Skip(<<p>>, n) \o <<>>
    BY ONLY <1>1, <2>1, rest = Skip(IF v THEN pieces ELSE <<Head(pieces)>>, n) \o
                            (IF v THEN <<>> ELSE Tail(pieces))
  <2>5. Skip(<<p>>, n) = IF n >= Len(p) THEN <<>> ELSE <<SubSeq(p, n + 1, Len(p))>>
    BY ONLY <2>3, <1>1, SkipOne
  <2>6. CASE n >= Len(p)
    <3>1. n = Len(p)
      BY ONLY <2>2, <2>3, <2>6
    <3>2. rest = <<>>
      BY ONLY <2>4, <2>5, <2>6, PairIs, <1>1
    <3>3. RestOf(<<>>, p, n)
      BY ONLY <3>1, <1>1, RestIsEmpty
    <3>4. PICK g : g = <<>>
      OBVIOUS
    <3> QED BY ONLY <1>0, <1>1, <2>1, <2>2, <3>2, <3>3, <3>4
  <2>7. CASE ~ n >= Len(p)
    <3>1. PICK t : t = SubSeq(p, n + 1, Len(p))
      OBVIOUS
    <3>2. RestOf(t, p, n)
      BY ONLY <1>1, <2>3, <3>1, Rest
    <3>3. t \in Seq(Octet)
      BY ONLY <3>2 DEF RestOf
    <3>4. rest = <<t>>
      BY ONLY <2>4, <2>5, <2>7, <3>1, <3>3, PairIs
    <3> QED BY ONLY <1>0, <1>1, <2>1, <2>2, <3>2, <3>4
  <2> QED BY <2>6, <2>7
<1>2. ASSUME NEW p \in Seq(Octet), NEW q \in Seq(Octet), pieces = <<p, q>> PROVE Goal
  <2>0. PICK f : f = p \o q
    OBVIOUS
  <2>1. FlattenSeq(pieces) = f /\ Head(pieces) = p /\ Tail(pieces) = <<q>>
    <3>1. Head(pieces) = p
      BY ONLY <1>2
    <3>2. Tail(pieces) = <<q>>
      BY ONLY <1>2
    <3> QED BY ONLY <1>2, <2>0, <3>1, <3>2, Flattened
  <2>2. Joined(f, p, q) /\ f \in Seq(Octet)
    BY ONLY <2>0, <1>2, Join DEF Joined
  <2>3. /\ Len(p) \in Nat /\ Len(q) \in Nat /\ Len(f) = Len(p) + Len(q)
        /\ \A i \in 1 .. Len(p) : f[i] = p[i]
    BY ONLY <2>2 DEF Joined
  <2>4. CASE ~ v
    <3>1. cur = p /\ rest = Skip(<<p>>, n) \o <<q>>
      BY <2>1, <2>4
    <3>2. n \in Nat /\ n <= Len(p) /\ Len(p) <= Len(f)
      BY ONLY <1>a, <2>3, <3>1
    <3>3. Skip(<<p>>, n) = IF n >= Len(p) THEN <<>> ELSE <<SubSeq(p, n + 1, Len(p))>>
      BY ONLY <3>2, <1>2, SkipOne
    <3>4. CASE n >= Len(p)
      <4>1. n = Len(p)
        BY ONLY <2>3, <3>2, <3>4
      <4>2. rest = <<q>>
        BY ONLY <3>1, <3>3, <3>4, PairIs, <1>2
      <4>3. RestOf(q, f, n)
        BY ONLY <2>2, <4>1, RestOfJoined
      <4> QED BY ONLY <1>0, <1>2, <2>1, <2>2, <2>3, <3>1, <3>2, <4>2, <4>3
    <3>5. CASE ~ n >= Len(p)
      <4>1. PICK t : t = SubSeq(p, n + 1, Len(p))
        OBVIOUS
      <4>2. RestOf(t, p, n)
        BY ONLY <1>2, <3>2, <4>1, Rest
      <4>3. t \in Seq(Octet)
        BY ONLY <4>2 DEF RestOf
      <4>4. rest = <<t, q>>
        BY ONLY <3>1, <3>3, <3>5, <4>1, <4>3, <1>2, PairIs
      <4>5. PICK g : g = t \o q
        OBVIOUS
      <4>6. Joined(g, t, q)
        BY ONLY <4>3, <4>5, <1>2, Join
      <4>7. RestOf(g, f, n)
        BY ONLY <2>2, <4>2, <4>6, RestOfFirst
      <4> QED BY ONLY <1>0, <1>2, <2>1, <2>2, <2>3, <3>1, <3>2, <4>3, <4>4, <4>5, <4>7
    <3> QED BY <3>4, <3>5
  <2>5. CASE v
    <3>1. cur = f /\ rest = Skip(<<p, q>>, n) \o <<>>
      BY <1>2, <2>1, <2>5
    <3>2. n \in Nat /\ n <= Len(p) + Len(q) /\ Len(f) <= Len(f)
      BY ONLY <1>a, <2>3, <3>1
    <3>3. Skip(<<p, q>>, n) =
             IF n >= Len(p)
             THEN IF n - Len(p) >= Len(q) THEN <<>> ELSE <<SubSeq(q, n - Len(p) + 1, Len(q))>>
             ELSE IF Len(q) = 0 THEN <<SubSeq(p, n + 1, Len(p))>>
                  ELSE <<SubSeq(p, n + 1, Len(p)), q>>
      BY ONLY <3>2, <1>2, SkipTwo
    <3>4. CASE n >= Len(p)
      <4>0. PICK k : k = n - Len(p)
        OBVIOUS
      <4>1. k \in Nat /\ k <= Len(q) /\ n = Len(p) + k
        BY ONLY <2>3, <3>2, <3>4, <4>0
      <4>2. CASE k >= Len(q)
        <5>1. n = Len(f)
          BY ONLY <2>3, <4>1, <4>2
        <5>2. rest = <<>>
          BY ONLY <3>1, <3>3, <3>4, <4>0, <4>2, PairIs, <1>2
        <5>3. RestOf(<<>>, f, n)
          BY ONLY <5>1, <2>2, RestIsEmpty
        <5>4. PICK g : g = <<>>
          OBVIOUS
        <5> QED BY ONLY <1>0, <2>1, <2>2, <3>1, <3>2, <5>2, <5>3, <5>4
      <4>3. CASE ~ k >= Len(q)
        <5>1. PICK t : t = SubSeq(q, k + 1, Len(q))
          OBVIOUS
        <5>2. RestOf(t, q, k)
          BY ONLY <1>2, <4>1, <5>1, Rest
        <5>3. t \in Seq(Octet)
          BY ONLY <5>2 DEF RestOf
        <5>4. Skip(<<p, q>>, n) = <<t>>
          BY ONLY <3>3, <3>4, <4>0, <4>3, <5>1
        <5>5. rest = <<t>>
          BY ONLY <3>1, <5>4, <5>3, PairIs
        <5>6. RestOf(t, f, n)
          BY ONLY <2>2, <4>1, <5>2, RestOfJoined
        <5> QED BY ONLY <1>0, <2>1, <2>2, <3>1, <3>2, <5>5, <5>6
      <4> QED BY <4>2, <4>3
    <3>5. CASE ~ n >= Len(p)
      <4>0. n <= Len(p)
        BY ONLY <2>3, <3>2, <3>5
      <4>1. PICK t : t = SubSeq(p, n + 1, Len(p))
        OBVIOUS
      <4>2. RestOf(t, p, n)
        BY ONLY <1>2, <3>2, <4>0, <4>1, Rest
      <4>3. t \in Seq(Octet)
        BY ONLY <4>2 DEF RestOf
      <4>4. CASE Len(q) = 0
        <5>1. Skip(<<p, q>>, n) = <<t>>
          BY ONLY <3>3, <3>5, <4>1, <4>4
        <5>2. rest = <<t>>
          BY ONLY <3>1, <5>1, <4>3, PairIs
        <5>3. RestOf(t, f, n)
          BY ONLY <2>2, <4>2, <4>4, RestOfJoined
        <5> QED BY ONLY <1>0, <2>1, <2>2, <3>1, <3>2, <5>2, <5>3
      <4>5. CASE Len(q) # 0
        <5>1. Skip(<<p, q>>, n) = <<t, q>>
          BY ONLY <3>3, <3>5, <4>1, <4>5
        <5>2. rest = <<t, q>>
          BY ONLY <3>1, <5>1, <4>3, <1>2, PairIs
        <5>3. PICK g : g = t \o q
          OBVIOUS
        <5>4. Joined(g, t, q)
          BY ONLY <4>3, <5>3, <1>2, Join
        <5>5. RestOf(g, f, n)
          BY ONLY <2>2, <4>2, <5>4, RestOfFirst
        <5> QED BY ONLY <1>0, <1>2, <2>1, <2>2, <3>1, <3>2, <4>3, <5>2, <5>3, <5>5
      <4> QED BY <4>4, <4>5
    <3> QED BY <3>4, <3>5
  <2> QED BY <2>4, <2>5
<1>3. Goal
  BY ONLY <1>1, <1>2, PiecesAre, pieces \in Seq(Seq(Octet)), Len(pieces) <= 2, pieces # <<>>
<1> QED BY <1>3 DEF Goal
-----------------------------------------------------------------------------
Strings == Seq(Octet)

(* What the bytes on the way are when some are taken from their front, more*)
(* of what is pending follows them, or more is to be written.              *)
LEMMA WayShorter ==
    ASSUME NEW bytes \in Strings, NEW pos \in Nat, NEW wire, NEW live, NEW pend,
           OnTheWay(bytes, pos, wire, live, pend),
           NEW w, NEW n, RestOf(w, wire, n), Len(pend) \in Nat
    PROVE  OnTheWay(bytes, pos + n, w, live, pend)
<1>1. /\ n \in Nat /\ Len(w) \in Nat /\ Len(wire) \in Nat /\ n + Len(w) = Len(wire)
      /\ \A i \in 1 .. Len(w) : w[i] = wire[n + i]
  BY Zenon DEF RestOf
<1>2. /\ pos + Len(wire) <= Len(bytes)
      /\ \A i \in 1 .. Len(wire) : wire[i] = bytes[pos + i]
      /\ live => /\ pos + Len(wire) + Len(pend) = Len(bytes)
                 /\ \A i \in 1 .. Len(pend) : pend[i] = bytes[pos + Len(wire) + i]
  BY Zenon DEF OnTheWay
<1>3. pos + n + Len(w) = pos + Len(wire)
  BY ONLY <1>1, pos \in Nat
<1>4. \A i \in 1 .. Len(w) : w[i] = bytes[pos + n + i]
  <2> SUFFICES ASSUME NEW i \in 1 .. Len(w) PROVE w[i] = bytes[pos + n + i]
    OBVIOUS
  <2>1. n + i \in 1 .. Len(wire) /\ pos + (n + i) = pos + n + i
    BY ONLY <1>1, pos \in Nat, i \in 1 .. Len(w)
  <2>2. PICK j \in 1 .. Len(wire) : j = n + i
    BY <2>1
  <2> QED BY ONLY <1>1, <1>2, <2>1, <2>2
<1> QED BY ONLY <1>2, <1>3, <1>4 DEF OnTheWay

LEMMA WayLonger ==
    ASSUME NEW bytes \in Strings, NEW pos \in Nat, NEW wire, NEW pend, NEW x, NEW rest, NEW w,
           NEW live, live, OnTheWay(bytes, pos, wire, live, pend),
           Joined(pend, x, rest), Joined(w, wire, x)
    PROVE  OnTheWay(bytes, pos, w, live, rest)
<1>1. /\ Len(x) \in Nat /\ Len(rest) \in Nat /\ Len(wire) \in Nat
      /\ Len(pend) = Len(x) + Len(rest) /\ Len(w) = Len(wire) + Len(x)
  BY Zenon DEF Joined
<1>2. /\ \A i \in 1 .. Len(x) : pend[i] = x[i] /\ w[Len(wire) + i] = x[i]
      /\ \A i \in 1 .. Len(rest) : pend[Len(x) + i] = rest[i]
      /\ \A i \in 1 .. Len(wire) : w[i] = wire[i]
  BY Zenon DEF Joined
<1>3. /\ \A i \in 1 .. Len(wire) : wire[i] = bytes[pos + i]
      /\ pos + Len(wire) + Len(pend) = Len(bytes)
      /\ \A i \in 1 .. Len(pend) : pend[i] = bytes[pos + Len(wire) + i]
  BY Zenon DEF OnTheWay
<1>4. pos + Len(w) + Len(rest) = Len(bytes) /\ pos + Len(w) <= Len(bytes)
  BY ONLY <1>1, <1>3, pos \in Nat
<1>5. \A i \in 1 .. Len(w) : w[i] = bytes[pos + i]
  <2> SUFFICES ASSUME NEW i \in 1 .. Len(w) PROVE w[i] = bytes[pos + i]
    OBVIOUS
  <2>1. CASE i \in 1 .. Len(wire)
    BY ONLY <2>1, <1>2, <1>3
  <2>2. CASE i \notin 1 .. Len(wire)
    <3>1. PICK j : j = i - Len(wire)
      OBVIOUS
    <3>2. j \in 1 .. Len(x) /\ j \in 1 .. Len(pend) /\ Len(wire) + j = i /\ pos + Len(wire) + j = pos + i
      BY ONLY <1>1, <2>2, <3>1, pos \in Nat, i \in 1 .. Len(w)
    <3>3. w[Len(wire) + j] = x[j] /\ pend[j] = x[j] /\ pend[j] = bytes[pos + Len(wire) + j]
      BY ONLY <3>2, <1>2, <1>3
    <3> QED BY ONLY <3>2, <3>3
  <2> QED BY <2>1, <2>2
<1>6. \A i \in 1 .. Len(rest) : rest[i] = bytes[pos + Len(w) + i]
  <2> SUFFICES ASSUME NEW i \in 1 .. Len(rest) PROVE rest[i] = bytes[pos + Len(w) + i]
    OBVIOUS
  <2>1. PICK j : j = Len(x) + i
    OBVIOUS
  <2>2. j \in 1 .. Len(pend) /\ pos + Len(wire) + j = pos + Len(w) + i
    BY ONLY <1>1, <2>1, pos \in Nat, i \in 1 .. Len(rest)
  <2>3. pend[j] = rest[i]
    BY ONLY <1>2, <2>1, i \in 1 .. Len(rest)
  <2>4. pend[j] = bytes[pos + Len(wire) + j]
    BY ONLY <1>3, <2>2
  <2> QED BY ONLY <2>2, <2>3, <2>4
<1> QED BY ONLY <1>4, <1>5, <1>6 DEF OnTheWay

LEMMA WayGrows ==
    ASSUME NEW bytes, NEW pos \in Nat, NEW wire \in Strings, NEW live, NEW pend,
           OnTheWay(bytes, pos, wire, live, pend), Len(pend) = 0,
           NEW all, NEW frame, Joined(all, bytes, frame)
    PROVE  OnTheWay(all, pos, wire, live, frame)
<1>1. /\ Len(bytes) \in Nat /\ Len(frame) \in Nat /\ Len(all) = Len(bytes) + Len(frame)
  BY Zenon DEF Joined
<1>2. /\ \A i \in 1 .. Len(bytes) : all[i] = bytes[i]
      /\ \A i \in 1 .. Len(frame) : all[Len(bytes) + i] = frame[i]
  BY Zenon DEF Joined
<1>3. Len(wire) \in Nat
  BY LenProperties DEF Strings
<1>4. /\ pos + Len(wire) <= Len(bytes)
      /\ \A i \in 1 .. Len(wire) : wire[i] = bytes[pos + i]
      /\ live => pos + Len(wire) + Len(pend) = Len(bytes)
  BY Zenon DEF OnTheWay
<1>5. pos + Len(wire) <= Len(all) /\ (live => pos + Len(wire) + Len(frame) = Len(all))
  BY ONLY <1>1, <1>3, <1>4, pos \in Nat, Len(pend) = 0
<1>6. \A i \in 1 .. Len(wire) : wire[i] = all[pos + i]
  <2> SUFFICES ASSUME NEW i \in 1 .. Len(wire) PROVE wire[i] = all[pos + i]
    OBVIOUS
  <2>1. pos + i \in 1 .. Len(bytes)
    BY ONLY <1>1, <1>3, <1>4, pos \in Nat, i \in 1 .. Len(wire)
  <2> QED BY ONLY <1>2, <1>4, <2>1
<1>7. live => \A i \in 1 .. Len(frame) : frame[i] = all[pos + Len(wire) + i]
  <2> SUFFICES ASSUME live, NEW i \in 1 .. Len(frame) PROVE frame[i] = all[pos + Len(wire) + i]
    OBVIOUS
  <2>1. pos + Len(wire) = Len(bytes)
    BY ONLY <1>1, <1>3, <1>4, pos \in Nat, Len(pend) = 0, live
  <2> QED BY ONLY <1>2, <2>1
<1> QED BY ONLY <1>5, <1>6, <1>7 DEF OnTheWay

(* One string more: its frame follows the bytes of the others.             *)
FrameOf(frame, text) ==
    /\ frame \in Strings /\ text \in Strings
    /\ Len(text) \in Nat /\ Len(frame) = 1 + Len(text) /\ Len(text) < LengthModulus
    /\ frame[1] = Len(text) /\ \A i \in 1 .. Len(text) : frame[1 + i] = text[i]

(* One more string is one more frame at the end of the bytes.              *)
LEMMA FramesGrow ==
    ASSUME NEW sent \in Seq(Strings), NEW bytes, NEW off, Frames(sent, bytes, off),
           NEW text, NEW frame, FrameOf(frame, text),
           NEW all, Joined(all, bytes, frame)
    PROVE  \E o : /\ Frames(Append(sent, text), all, o)
                  /\ \A k \in 0 .. Len(sent) : o[k] = off[k]
<1>1. PICK m, more : m = Len(sent) /\ more = Append(sent, text)
  OBVIOUS
<1>2. /\ m \in Nat /\ more \in Seq(Strings) /\ Len(more) = m + 1
      /\ (\A k \in 1 .. m : more[k] = sent[k]) /\ more[m + 1] = text
  BY ONLY <1>1, AppendProperties, LenProperties, sent \in Seq(Strings), FrameOf(frame, text)
  DEF FrameOf
<1>3. /\ Len(bytes) \in Nat /\ Len(frame) \in Nat /\ Len(all) = Len(bytes) + Len(frame)
      /\ all \in Seq(Octet)
      /\ \A i \in 1 .. Len(bytes) : all[i] = bytes[i]
      /\ \A i \in 1 .. Len(frame) : all[Len(bytes) + i] = frame[i]
  BY Zenon DEF Joined
<1>4. /\ Len(text) \in Nat /\ Len(frame) = 1 + Len(text) /\ Len(text) < LengthModulus
      /\ frame[1] = Len(text) /\ \A i \in 1 .. Len(text) : frame[1 + i] = text[i]
  BY Zenon DEF FrameOf
<1>5. /\ off \in [0 .. m -> Nat] /\ off[0] = 0 /\ off[m] = Len(bytes)
      /\ \A k \in 1 .. m :
            /\ Len(sent[k]) < LengthModulus /\ off[k] <= Len(bytes)
            /\ off[k] = off[k - 1] + 1 + Len(sent[k])
            /\ bytes[off[k - 1] + 1] = Len(sent[k])
            /\ \A i \in 1 .. Len(sent[k]) : bytes[off[k - 1] + 1 + i] = sent[k][i]
  BY ONLY <1>1, Frames(sent, bytes, off), Zenon DEF Frames
<1>6. PICK o : o = [k \in 0 .. m + 1 |-> IF k = m + 1 THEN Len(all) ELSE off[k]]
  OBVIOUS
<1>7. /\ o \in [0 .. m + 1 -> Nat] /\ o[m + 1] = Len(all) /\ \A k \in 0 .. m : o[k] = off[k]
  <2>1. Len(all) \in Nat
    BY ONLY <1>3
  <2>2. \A k \in 0 .. m + 1 : (IF k = m + 1 THEN Len(all) ELSE off[k]) \in Nat
    <3>1. ASSUME NEW k \in 0 .. m + 1, k # m + 1 PROVE off[k] \in Nat
      <4>1. k \in 0 .. m
        BY ONLY <1>2, <3>1
      <4> QED BY ONLY <1>5, <4>1
    <3>2. PICK a : a = Len(all)
      OBVIOUS
    <3> QED BY ONLY <2>1, <3>1, <3>2
  <2>3. o \in [0 .. m + 1 -> Nat]
    BY ONLY <1>6, <2>2
  <2>4. m + 1 \in 0 .. m + 1 /\ \A k \in 0 .. m : k \in 0 .. m + 1 /\ k # m + 1
    BY ONLY <1>2
  <2> QED BY ONLY <1>6, <2>3, <2>4
<1>8. ASSUME NEW k \in 1 .. m
      PROVE  /\ Len(more[k]) < LengthModulus /\ o[k] <= Len(all)
             /\ o[k] = o[k - 1] + 1 + Len(more[k])
             /\ all[o[k - 1] + 1] = Len(more[k])
             /\ \A i \in 1 .. Len(more[k]) : all[o[k - 1] + 1 + i] = more[k][i]
  <2>1. k \in 0 .. m /\ k - 1 \in 0 .. m /\ k \in 1 .. m
    BY ONLY <1>2, <1>8
  <2>2. PICK x, y, z : x = o[k - 1] /\ y = o[k] /\ z = sent[k]
    OBVIOUS
  <2>3. x = off[k - 1] /\ y = off[k] /\ x \in Nat /\ y \in Nat /\ more[k] = z
    BY ONLY <1>2, <1>5, <1>7, <2>1, <2>2
  <2>4. /\ Len(z) < LengthModulus /\ y <= Len(bytes) /\ y = x + 1 + Len(z) /\ bytes[x + 1] = Len(z)
        /\ \A i \in 1 .. Len(z) : bytes[x + 1 + i] = z[i]
    BY ONLY <1>5, <2>1, <2>2, <2>3
  <2>5. Len(z) \in Nat
    <3>1. z \in Strings
      BY ONLY <1>1, <2>1, <2>2, ElementOfSeq, sent \in Seq(Strings)
    <3> QED BY ONLY <3>1, LenProperties DEF Strings
  <2>6. y <= Len(all) /\ x + 1 \in 1 .. Len(bytes)
        /\ \A i \in 1 .. Len(z) : x + 1 + i \in 1 .. Len(bytes)
    <3>1. PICK a, b, c, d : a = Len(all) /\ b = Len(bytes) /\ c = Len(frame) /\ d = Len(z)
      OBVIOUS
    <3>2. b \in Nat /\ c \in Nat /\ a = b + c /\ d \in Nat /\ x \in Nat /\ y <= b /\ y = x + 1 + d
      BY ONLY <1>3, <2>3, <2>4, <2>5, <3>1
    <3>3. y <= a /\ x + 1 \in 1 .. b /\ \A i \in 1 .. d : x + 1 + i \in 1 .. b
      BY ONLY <3>2
    <3> QED BY ONLY <3>1, <3>3
  <2>7. all[x + 1] = Len(z) /\ \A i \in 1 .. Len(z) : all[x + 1 + i] = z[i]
    BY ONLY <1>3, <2>4, <2>6
  <2> QED BY ONLY <2>2, <2>3, <2>4, <2>6, <2>7
<1>9. /\ Len(more[m + 1]) < LengthModulus /\ o[m + 1] <= Len(all)
      /\ o[m + 1] = o[(m + 1) - 1] + 1 + Len(more[m + 1])
      /\ all[o[(m + 1) - 1] + 1] = Len(more[m + 1])
      /\ \A i \in 1 .. Len(more[m + 1]) : all[o[(m + 1) - 1] + 1 + i] = more[m + 1][i]
  <2>1. (m + 1) - 1 = m /\ m \in 0 .. m
    BY ONLY <1>2
  <2>2. o[m] = Len(bytes)
    BY ONLY <1>5, <1>7, <2>1
  <2>3. 1 \in 1 .. Len(frame) /\ \A i \in 1 .. Len(text) : 1 + i \in 1 .. Len(frame)
    BY ONLY <1>4
  <2>4. all[Len(bytes) + 1] = Len(text)
    BY ONLY <1>3, <1>4, <2>3
  <2>5. ASSUME NEW i \in 1 .. Len(text) PROVE all[Len(bytes) + 1 + i] = text[i]
    <3>1. Len(bytes) + 1 + i = Len(bytes) + (1 + i)
      BY ONLY <1>3, <1>4, <2>5
    <3>2. PICK j : j = 1 + i
      OBVIOUS
    <3>3. all[Len(bytes) + j] = frame[j]
      BY ONLY <1>3, <2>3, <3>2, <2>5
    <3> QED BY ONLY <1>4, <3>1, <3>2, <3>3, <2>5
  <2>6. Len(bytes) + 1 + Len(text) = Len(all) /\ Len(all) <= Len(all)
    BY ONLY <1>3, <1>4
  <2> QED BY ONLY <1>2, <1>4, <1>7, <2>1, <2>2, <2>4, <2>5, <2>6
<1>10. ASSUME NEW k \in 1 .. m + 1
       PROVE  /\ Len(more[k]) < LengthModulus /\ o[k] <= Len(all)
              /\ o[k] = o[k - 1] + 1 + Len(more[k])
              /\ all[o[k - 1] + 1] = Len(more[k])
              /\ \A i \in 1 .. Len(more[k]) : all[o[k - 1] + 1 + i] = more[k][i]
  <2>1. k \in 1 .. m \/ k = m + 1
    BY ONLY <1>2, <1>10
  <2>2. CASE k \in 1 .. m
    BY ONLY <2>2, <1>8
  <2>3. CASE k = m + 1
    BY ONLY <2>3, <1>9
  <2> QED BY <2>1, <2>2, <2>3
<1>11. o[0] = 0
  <2>1. 0 \in 0 .. m
    BY ONLY <1>2
  <2> QED BY ONLY <1>5, <1>7, <2>1
<1>12. Frames(more, all, o)
  BY ONLY <1>2, <1>3, <1>7, <1>10, <1>11, Zenon DEF Frames
<1> QED BY ONLY <1>1, <1>7, <1>12

(* What these say of a position in the bytes.                              *)
LEMMA Reached ==
    ASSUME NEW sent \in Seq(Strings), NEW got \in Seq(Strings), NEW part \in Strings,
           NEW text, NEW left, NEW bytes, NEW off,
           Frames(sent, bytes, off), HasRead(sent, got, text, part, left)
    PROVE  /\ Position(off, got, text, part) \in Nat
           /\ Len(got) \in Nat /\ Len(sent) \in Nat /\ Len(part) \in Nat /\ Len(bytes) \in Nat
           /\ Len(got) <= Len(sent) /\ off[Len(got)] \in Nat /\ bytes \in Strings
<1>1. Len(got) \in Nat /\ Len(sent) \in Nat
  BY LenProperties
<1>2. Len(part) \in Nat
  BY LenProperties DEF Strings
<1>3. off \in [0 .. Len(sent) -> Nat] /\ bytes \in Seq(Octet)
  BY Zenon DEF Frames
<1>4. Len(got) <= Len(sent)
  BY Zenon DEF HasRead
<1>5. Len(got) \in 0 .. Len(sent)
  BY ONLY <1>1, <1>4
<1>6. off[Len(got)] \in Nat
  BY ONLY <1>3, <1>5
<1>7. Position(off, got, text, part) \in Nat
  BY ONLY <1>2, <1>6 DEF Position
<1>8. Len(bytes) \in Nat
  BY ONLY <1>3, LenProperties
<1> QED BY ONLY <1>1, <1>2, <1>3, <1>4, <1>6, <1>7, <1>8 DEF Strings

(* Nothing happens to the strings; the writer may go.                      *)
LEMMA CarriedWeaker ==
    ASSUME NEW sent, NEW got, NEW wire, NEW live, NEW pend, NEW text, NEW part, NEW left,
           Carried(sent, got, wire, live, pend, text, part, left),
           NEW live2, NEW pend2, live2 => live /\ pend2 = pend,
           NEW text2, text2 <=> text, NEW part2, NEW left2, text2 => part2 = part /\ left2 = left
    PROVE  Carried(sent, got, wire, live2, pend2, text2, part2, left2)
<1>1. PICK bytes, off : /\ Frames(sent, bytes, off)
                        /\ HasRead(sent, got, text, part, left)
                        /\ OnTheWay(bytes, Position(off, got, text, part), wire, live, pend)
  BY Zenon DEF Carried
<1>2. Position(off, got, text2, part2) = Position(off, got, text, part)
  <2>1. CASE text
    BY ONLY <2>1, text2 <=> text, text2 => part2 = part /\ left2 = left DEF Position
  <2>2. CASE ~ text
    BY ONLY <2>2, text2 <=> text DEF Position
  <2> QED BY <2>1, <2>2
<1>3. HasRead(sent, got, text2, part2, left2)
  <2>1. CASE text
    BY ONLY <1>1, <2>1, text2 <=> text, text2 => part2 = part /\ left2 = left, Zenon DEF HasRead
  <2>2. CASE ~ text
    BY ONLY <1>1, <2>2, text2 <=> text, Zenon DEF HasRead
  <2> QED BY <2>1, <2>2
<1>4. PICK pos : pos = Position(off, got, text, part)
  OBVIOUS
<1>5. OnTheWay(bytes, pos, wire, live2, pend2)
  BY ONLY <1>1, <1>4, live2 => live /\ pend2 = pend, Zenon DEF OnTheWay
<1>6. OnTheWay(bytes, Position(off, got, text2, part2), wire, live2, pend2)
  BY ONLY <1>2, <1>4, <1>5
<1> QED BY ONLY <1>1, <1>3, <1>6, Zenon DEF Carried

(* The bytes on the way are lost, and the writer's will be; the reader may *)
(* go.                                                                     *)
LEMMA CarriedLost ==
    ASSUME NEW sent \in Seq(Strings), NEW got \in Seq(Strings), NEW wire, NEW live, NEW pend,
           NEW text, NEW part \in Strings, NEW left,
           Carried(sent, got, wire, live, pend, text, part, left), Len(wire) \in Nat,
           NEW live2, ~ live2, NEW pend2,
           NEW text2, NEW part2, NEW left2, text2 => text /\ part2 = part /\ left2 = left
    PROVE  Carried(sent, got, <<>>, live2, pend2, text2, part2, left2)
<1>1. PICK bytes, off : /\ Frames(sent, bytes, off)
                        /\ HasRead(sent, got, text, part, left)
                        /\ OnTheWay(bytes, Position(off, got, text, part), wire, live, pend)
  BY Zenon DEF Carried
<1>2. /\ Len(part) \in Nat /\ off[Len(got)] \in Nat /\ Len(bytes) \in Nat
  BY ONLY <1>1, Reached, sent \in Seq(Strings), got \in Seq(Strings), part \in Strings
<1>3. HasRead(sent, got, text2, part2, left2)
  <2>1. CASE text2
    BY ONLY <1>1, <2>1, text2 => text /\ part2 = part /\ left2 = left, Zenon DEF HasRead
  <2>2. CASE ~ text2
    BY ONLY <1>1, <2>2, Zenon DEF HasRead
  <2> QED BY <2>1, <2>2
<1>4. Position(off, got, text, part) + Len(wire) <= Len(bytes)
  BY ONLY <1>1, Zenon DEF OnTheWay
<1>5. Position(off, got, text2, part2) <= Len(bytes) /\ Position(off, got, text2, part2) \in Nat
  <2>1. CASE text2
    BY ONLY <1>2, <1>4, <2>1, Len(wire) \in Nat, text2 => text /\ part2 = part /\ left2 = left DEF Position
  <2>2. CASE ~ text2
    BY ONLY <1>2, <1>4, <2>2, Len(wire) \in Nat DEF Position
  <2> QED BY <2>1, <2>2
<1>6. PICK pos : pos = Position(off, got, text2, part2)
  OBVIOUS
<1>7. pos + 0 <= Len(bytes) /\ \A i \in 1 .. 0 : FALSE
  BY ONLY <1>5, <1>6
<1>8. Len(<<>>) = 0
  OBVIOUS
<1>9. OnTheWay(bytes, pos, <<>>, live2, pend2)
  BY ONLY <1>7, <1>8, ~ live2, Zenon DEF OnTheWay
<1> QED BY ONLY <1>1, <1>3, <1>6, <1>9, Zenon DEF Carried

(* The writer has written nothing.                                         *)
LEMMA CarriedNone ==
    ASSUME NEW sent \in Seq(Strings), NEW got \in Seq(Strings), NEW wire \in Strings, NEW live,
           NEW pend, NEW text, NEW part \in Strings, NEW left,
           Carried(sent, got, wire, live, pend, text, part, left), Len(sent) = 0,
           NEW live2
    PROVE  Carried(sent, got, wire, live2, <<>>, text, part, left)
<1>1. PICK bytes, off : /\ Frames(sent, bytes, off)
                        /\ HasRead(sent, got, text, part, left)
                        /\ OnTheWay(bytes, Position(off, got, text, part), wire, live, pend)
  BY Zenon DEF Carried
<1>2. PICK pos : pos = Position(off, got, text, part)
  OBVIOUS
<1>3. pos \in Nat /\ Len(bytes) \in Nat
  BY ONLY <1>1, <1>2, Reached, sent \in Seq(Strings), got \in Seq(Strings), part \in Strings
<1>4. Len(bytes) = 0
  BY ONLY <1>1, Len(sent) = 0, Zenon DEF Frames
<1>5. Len(wire) \in Nat
  BY LenProperties DEF Strings
<1>6. pos + Len(wire) <= Len(bytes) /\ \A i \in 1 .. Len(wire) : wire[i] = bytes[pos + i]
  BY ONLY <1>1, <1>2, Zenon DEF OnTheWay
<1>7. pos + Len(wire) + 0 = Len(bytes) /\ \A i \in 1 .. 0 : FALSE
  BY ONLY <1>3, <1>4, <1>5, <1>6
<1>8. Len(<<>>) = 0
  OBVIOUS
<1>9. OnTheWay(bytes, pos, wire, live2, <<>>)
  BY ONLY <1>6, <1>7, <1>8, Zenon DEF OnTheWay
<1> QED BY ONLY <1>1, <1>2, <1>9, Zenon DEF Carried

(* A new connection.                                                       *)
LEMMA CarriedNew ==
    ASSUME NEW live, NEW text, ~ text, NEW part, NEW left
    PROVE  Carried(<<>>, <<>>, <<>>, live, <<>>, text, part, left)
<1>1. PICK none, off : none = <<>> /\ off = [k \in 0 .. 0 |-> 0]
  OBVIOUS
<1>2. Len(none) = 0 /\ none \in Seq(Octet)
  BY ONLY <1>1
<1>3. off \in [0 .. 0 -> Nat] /\ off[0] = 0 /\ \A i \in 1 .. 0 : FALSE
  BY ONLY <1>1
<1>4. Frames(none, none, off)
  BY ONLY <1>2, <1>3, Zenon DEF Frames
<1>5. HasRead(none, none, text, part, left)
  <2>1. 0 <= 0
    OBVIOUS
  <2> QED BY ONLY <1>2, <1>3, <2>1, ~ text, Zenon DEF HasRead
<1>6. Position(off, none, text, part) = 0
  BY ONLY <1>2, <1>3, ~ text DEF Position
<1>7. OnTheWay(none, 0, none, live, none)
  <2>1. 0 + 0 <= 0 /\ 0 + 0 + 0 = 0
    OBVIOUS
  <2> QED BY ONLY <1>2, <1>3, <2>1, Zenon DEF OnTheWay
<1> QED BY ONLY <1>1, <1>4, <1>5, <1>6, <1>7, Zenon DEF Carried

(* Some of what is pending is sent.                                        *)
LEMMA CarriedSent ==
    ASSUME NEW sent \in Seq(Strings), NEW got \in Seq(Strings), NEW wire, NEW live, live,
           NEW pend, NEW text, NEW part \in Strings, NEW left,
           Carried(sent, got, wire, live, pend, text, part, left),
           NEW x, NEW rest, Joined(pend, x, rest), NEW w, Joined(w, wire, x)
    PROVE  Carried(sent, got, w, live, rest, text, part, left)
<1>1. PICK bytes, off : /\ Frames(sent, bytes, off)
                        /\ HasRead(sent, got, text, part, left)
                        /\ OnTheWay(bytes, Position(off, got, text, part), wire, live, pend)
  BY Zenon DEF Carried
<1>2. PICK pos : pos = Position(off, got, text, part)
  OBVIOUS
<1>3. pos \in Nat /\ bytes \in Strings
  BY ONLY <1>1, <1>2, Reached, sent \in Seq(Strings), got \in Seq(Strings), part \in Strings
<1>4. OnTheWay(bytes, pos, wire, live, pend)
  BY ONLY <1>1, <1>2
<1>5. OnTheWay(bytes, pos, w, live, rest)
  BY ONLY <1>3, <1>4, WayLonger, live, Joined(pend, x, rest), Joined(w, wire, x)
<1> QED BY ONLY <1>1, <1>2, <1>5, Zenon DEF Carried

(* A string is written: all of its frame is pending.                       *)
LEMMA CarriedWritten ==
    ASSUME NEW sent \in Seq(Strings), NEW got \in Seq(Strings), NEW wire \in Strings, NEW live,
           NEW text, NEW part \in Strings, NEW left,
           NEW pend, Carried(sent, got, wire, live, pend, text, part, left), Len(pend) = 0,
           NEW string, NEW frame, FrameOf(frame, string)
    PROVE  Carried(Append(sent, string), got, wire, live, frame, text, part, left)
<1>1. PICK bytes, off : /\ Frames(sent, bytes, off)
                        /\ HasRead(sent, got, text, part, left)
                        /\ OnTheWay(bytes, Position(off, got, text, part), wire, live, pend)
  BY Zenon DEF Carried
<1>2. PICK pos : pos = Position(off, got, text, part)
  OBVIOUS
<1>3. /\ pos \in Nat /\ bytes \in Strings /\ Len(got) \in Nat /\ Len(sent) \in Nat
      /\ Len(got) <= Len(sent)
  BY ONLY <1>1, <1>2, Reached, sent \in Seq(Strings), got \in Seq(Strings), part \in Strings
<1>4. PICK all, more : all = bytes \o frame /\ more = Append(sent, string)
  OBVIOUS
<1>5. frame \in Strings /\ string \in Strings
  BY Zenon DEF FrameOf
<1>6. Joined(all, bytes, frame)
  BY ONLY <1>3, <1>4, <1>5, Join DEF Strings
<1>7. PICK o : Frames(more, all, o) /\ \A k \in 0 .. Len(sent) : o[k] = off[k]
  <2>1. \E o : /\ Frames(Append(sent, string), all, o)
               /\ \A k \in 0 .. Len(sent) : o[k] = off[k]
    BY ONLY <1>1, <1>6, FramesGrow, sent \in Seq(Strings), FrameOf(frame, string)
  <2> QED BY ONLY <1>4, <2>1
<1>8. Position(o, got, text, part) = pos
  <2>1. Len(got) \in 0 .. Len(sent)
    BY ONLY <1>3
  <2> QED BY ONLY <1>2, <1>7, <2>1 DEF Position
<1>9. HasRead(more, got, text, part, left)
  <2>1. /\ Len(more) = Len(sent) + 1 /\ \A k \in 1 .. Len(sent) : more[k] = sent[k]
    BY ONLY <1>4, <1>5, AppendProperties, sent \in Seq(Strings)
  <2>2. Len(got) <= Len(more) /\ \A k \in 1 .. Len(got) : k \in 1 .. Len(sent)
    BY ONLY <1>3, <2>1
  <2>3. \A k \in 1 .. Len(got) : got[k] = sent[k] \/ sent[k] = <<>>
    BY ONLY <1>1, Zenon DEF HasRead
  <2>4. \A k \in 1 .. Len(got) : got[k] = more[k] \/ more[k] = <<>>
    BY ONLY <2>1, <2>2, <2>3
  <2>5. ASSUME text
        PROVE  /\ Len(got) < Len(more)
               /\ Len(part) + left = Len(more[Len(got) + 1])
               /\ \A i \in 1 .. Len(part) : part[i] = more[Len(got) + 1][i]
    <3>1. /\ Len(got) < Len(sent)
          /\ Len(part) + left = Len(sent[Len(got) + 1])
          /\ \A i \in 1 .. Len(part) : part[i] = sent[Len(got) + 1][i]
      BY ONLY <1>1, <2>5, Zenon DEF HasRead
    <3>2. Len(got) + 1 \in 1 .. Len(sent) /\ Len(got) < Len(more)
      BY ONLY <1>3, <2>1, <3>1
    <3>3. more[Len(got) + 1] = sent[Len(got) + 1]
      BY ONLY <2>1, <3>2
    <3> QED BY ONLY <3>1, <3>2, <3>3
  <2> QED BY ONLY <2>2, <2>4, <2>5, Zenon DEF HasRead
<1>10. OnTheWay(all, pos, wire, live, frame)
  <2>1. OnTheWay(bytes, pos, wire, live, pend)
    BY ONLY <1>1, <1>2
  <2> QED BY ONLY <1>3, <1>6, <2>1, WayGrows, Len(pend) = 0, wire \in Strings
<1> QED BY ONLY <1>4, <1>7, <1>8, <1>9, <1>10, Zenon DEF Carried

(* The reader is given a byte: it is the length of the next string, which  *)
(* the reader then has, or is about to read.                               *)
LEMMA CarriedLength ==
    ASSUME NEW sent \in Seq(Strings), NEW got \in Seq(Strings), NEW wire \in Strings, NEW live,
           NEW pend, Len(pend) \in Nat, NEW text, ~ text, NEW part \in Strings, NEW left,
           Carried(sent, got, wire, live, pend, text, part, left),
           NEW w, RestOf(w, wire, 1), NEW yes, yes, NEW size, size = wire[1],
           NEW old \in Strings
    PROVE  /\ size \in Nat /\ size < LengthModulus
           /\ size = 0 => Carried(sent, Append(got, old), w, live, pend, text, part, left)
           /\ size # 0 => Carried(sent, got, w, live, pend, yes, <<>>, size)
<1>1. PICK bytes, off : /\ Frames(sent, bytes, off)
                        /\ HasRead(sent, got, text, part, left)
                        /\ OnTheWay(bytes, Position(off, got, text, part), wire, live, pend)
  BY Zenon DEF Carried
<1>2. PICK pos, g : pos = off[g] /\ g = Len(got)
  OBVIOUS
<1>3. /\ pos \in Nat /\ bytes \in Strings /\ g \in Nat /\ Len(sent) \in Nat
      /\ g <= Len(sent) /\ Len(bytes) \in Nat
  BY ONLY <1>1, <1>2, Reached, sent \in Seq(Strings), got \in Seq(Strings), part \in Strings
<1>4. OnTheWay(bytes, pos, wire, live, pend)
  <2>1. Position(off, got, text, part) = pos
    BY ONLY <1>2, <1>3, ~ text DEF Position
  <2> QED BY ONLY <1>1, <2>1
<1>5. OnTheWay(bytes, pos + 1, w, live, pend)
  BY ONLY <1>3, <1>4, WayShorter, RestOf(w, wire, 1), Len(pend) \in Nat
<1>6. Len(wire) \in Nat /\ Len(wire) >= 1
  <2>1. Len(wire) \in Nat /\ Len(w) \in Nat /\ 1 + Len(w) = Len(wire)
    BY Zenon DEF RestOf
  <2> QED BY ONLY <2>1
<1>7. wire[1] = bytes[pos + 1] /\ pos + Len(wire) <= Len(bytes)
  <2>1. 1 \in 1 .. Len(wire)
    BY ONLY <1>6
  <2> QED BY ONLY <1>4, <2>1, Zenon DEF OnTheWay
<1>8. g < Len(sent)
  <2>1. off[Len(sent)] = Len(bytes)
    BY ONLY <1>1, Zenon DEF Frames
  <2>2. g # Len(sent)
    BY ONLY <1>2, <1>3, <1>6, <1>7, <2>1
  <2> QED BY ONLY <1>3, <2>2
<1>9. PICK k : k = g + 1
  OBVIOUS
<1>10. k \in 1 .. Len(sent) /\ k - 1 = g /\ g < Len(sent)
  BY ONLY <1>3, <1>8, <1>9
<1>11. /\ Len(sent[k]) < LengthModulus /\ off[k] = pos + 1 + Len(sent[k])
       /\ bytes[pos + 1] = Len(sent[k])
  BY ONLY <1>1, <1>2, <1>10, Zenon DEF Frames
<1>12. sent[k] \in Strings /\ Len(sent[k]) \in Nat
  BY ONLY <1>10, ElementOfSeq, LenProperties, sent \in Seq(Strings) DEF Strings
<1>13. size = Len(sent[k])
  BY ONLY <1>7, <1>11, size = wire[1]
<1>14. \A i \in 1 .. g : got[i] = sent[i] \/ sent[i] = <<>>
  BY ONLY <1>1, <1>2, Zenon DEF HasRead
<1>15. ASSUME size = 0 PROVE Carried(sent, Append(got, old), w, live, pend, text, part, left)
  <2>1. PICK more : more = Append(got, old)
    OBVIOUS
  <2>2. sent[k] = <<>>
    BY ONLY <1>12, <1>13, <1>15, EmptySeq DEF Strings
  <2>3. Len(more) = k /\ (\A i \in 1 .. g : more[i] = got[i]) /\ more[k] = old
    BY ONLY <1>2, <1>9, <2>1, AppendProperties, got \in Seq(Strings), old \in Strings
  <2>4. \A i \in 1 .. k : more[i] = sent[i] \/ sent[i] = <<>>
    <3>1. \A i \in 1 .. k : i \in 1 .. g \/ i = k
      BY ONLY <1>3, <1>9
    <3> QED BY ONLY <1>14, <2>2, <2>3, <3>1
  <2>5. k <= Len(sent)
    BY ONLY <1>10
  <2>6. HasRead(sent, more, text, part, left)
    BY ONLY <2>3, <2>4, <2>5, ~ text, Zenon DEF HasRead
  <2>7. Position(off, more, text, part) = pos + 1
    BY ONLY <1>3, <1>11, <1>12, <1>13, <1>15, <2>3, ~ text DEF Position
  <2> QED BY ONLY <1>1, <1>5, <2>1, <2>6, <2>7, Zenon DEF Carried
<1>16. ASSUME size # 0 PROVE Carried(sent, got, w, live, pend, yes, <<>>, size)
  <2>1. PICK none : none = <<>>
    OBVIOUS
  <2>2. Len(none) = 0 /\ \A i \in 1 .. 0 : FALSE
    BY ONLY <2>1
  <2>3. 0 + size = Len(sent[k])
    BY ONLY <1>12, <1>13
  <2>4. HasRead(sent, got, yes, none, size)
    BY ONLY <1>2, <1>3, <1>9, <1>10, <1>14, <2>2, <2>3, Zenon DEF HasRead
  <2>5. Position(off, got, yes, none) = pos + 1
    BY ONLY <1>2, <1>3, <2>2, yes DEF Position
  <2> QED BY ONLY <1>1, <1>5, <2>1, <2>4, <2>5, Zenon DEF Carried
<1> QED BY ONLY <1>11, <1>12, <1>13, <1>15, <1>16

(* The reader is given n bytes of the string it reads: a part, or the last.*)
LEMMA CarriedText ==
    ASSUME NEW sent \in Seq(Strings), NEW got \in Seq(Strings), NEW wire \in Strings, NEW live,
           NEW pend, Len(pend) \in Nat, NEW text, text, NEW part \in Strings, NEW left \in Nat,
           Carried(sent, got, wire, live, pend, text, part, left),
           NEW w, NEW n, n >= 1, RestOf(w, wire, n), n <= left,
           NEW x \in Strings, Len(x) = n, \A i \in 1 .. n : x[i] = wire[i],
           NEW more, Joined(more, part, x)
    PROVE  /\ Carried(sent, got, w, live, pend, text, more, left - n)
           /\ \A no, p, l : (n = left /\ ~ no) =>
                    Carried(sent, Append(got, more), w, live, pend, no, p, l)
<1>1. PICK bytes, off : /\ Frames(sent, bytes, off)
                        /\ HasRead(sent, got, text, part, left)
                        /\ OnTheWay(bytes, Position(off, got, text, part), wire, live, pend)
  BY Zenon DEF Carried
<1>2. PICK pos, start, g, k, string : pos = Position(off, got, text, part) /\ start = off[g]
            /\ g = Len(got) /\ k = g + 1 /\ string = sent[k]
  OBVIOUS
<1>3. /\ pos \in Nat /\ start \in Nat /\ bytes \in Strings /\ g \in Nat /\ Len(sent) \in Nat
      /\ g <= Len(sent) /\ Len(bytes) \in Nat /\ Len(part) \in Nat
  BY ONLY <1>1, <1>2, Reached, sent \in Seq(Strings), got \in Seq(Strings), part \in Strings
<1>4. pos = start + (1 + Len(part))
  BY ONLY <1>2, text DEF Position
<1>5. /\ \A i \in 1 .. g : got[i] = sent[i] \/ sent[i] = <<>>
      /\ g < Len(sent) /\ Len(part) + left = Len(string)
      /\ \A i \in 1 .. Len(part) : part[i] = string[i]
  BY ONLY <1>1, <1>2, text, Zenon DEF HasRead
<1>6. k \in 1 .. Len(sent) /\ k - 1 = g
  BY ONLY <1>2, <1>3, <1>5
<1>7. /\ off[k] = start + 1 + Len(string)
      /\ \A i \in 1 .. Len(string) : bytes[start + 1 + i] = string[i]
  BY ONLY <1>1, <1>2, <1>6, ZenonT(60) DEF Frames
<1>8. string \in Strings
  BY ONLY <1>2, <1>6, ElementOfSeq, sent \in Seq(Strings)
<1>9. n \in Nat /\ Len(wire) \in Nat /\ n <= Len(wire)
  <2>1. n \in Nat /\ Len(wire) \in Nat /\ Len(w) \in Nat /\ n + Len(w) = Len(wire)
    BY Zenon DEF RestOf
  <2> QED BY ONLY <2>1
<1>10. OnTheWay(bytes, pos, wire, live, pend)
  BY ONLY <1>1, <1>2
<1>11. OnTheWay(bytes, pos + n, w, live, pend)
  BY ONLY <1>3, <1>10, WayShorter, RestOf(w, wire, n), Len(pend) \in Nat
<1>12. /\ Len(more) = Len(part) + n /\ more \in Strings
       /\ \A i \in 1 .. Len(part) : more[i] = part[i]
       /\ \A i \in 1 .. n : more[Len(part) + i] = x[i]
  BY ONLY Joined(more, part, x), Len(x) = n, Zenon DEF Joined, Strings
<1>13. ASSUME NEW i \in 1 .. n PROVE x[i] = string[Len(part) + i]
  <2>1. i \in 1 .. Len(wire) /\ Len(part) + i \in 1 .. Len(string)
    BY ONLY <1>3, <1>5, <1>9, <1>13, left \in Nat, n <= left
  <2>2. wire[i] = bytes[pos + i]
    BY ONLY <1>10, <2>1, Zenon DEF OnTheWay
  <2>3. PICK j : j = Len(part) + i
    OBVIOUS
  <2>4. start + 1 + j = pos + i
    BY ONLY <1>3, <1>4, <1>13, <2>3
  <2>5. bytes[start + 1 + j] = string[j]
    BY ONLY <1>7, <2>1, <2>3
  <2> QED BY ONLY <1>13, <2>2, <2>3, <2>4, <2>5, \A h \in 1 .. n : x[h] = wire[h]
<1>14. ASSUME NEW i \in 1 .. Len(more) PROVE more[i] = string[i]
  <2>1. CASE i \in 1 .. Len(part)
    BY ONLY <1>5, <1>12, <2>1
  <2>2. CASE i \notin 1 .. Len(part)
    <3>1. PICK j : j = i - Len(part)
      OBVIOUS
    <3>2. j \in 1 .. n /\ i = Len(part) + j
      <4>1. i \in 1 .. Len(part) + n
        BY ONLY <1>12, <1>14
      <4> QED BY ONLY <1>3, <1>9, <2>2, <3>1, <4>1
    <3>3. more[Len(part) + j] = x[j]
      BY ONLY <1>12, <3>2
    <3> QED BY ONLY <1>13, <3>2, <3>3
  <2> QED BY <2>1, <2>2
<1>a. PICK a, b, c, d : a = Len(part) /\ b = Len(string) /\ c = Len(more) /\ d = off[k]
  OBVIOUS
<1>b. /\ a \in Nat /\ n \in Nat /\ a + left = b /\ c = a + n
      /\ pos = start + (1 + a) /\ d = start + 1 + b /\ start \in Nat
  BY ONLY <1>3, <1>4, <1>5, <1>7, <1>9, <1>12, <1>a
<1>15. Carried(sent, got, w, live, pend, text, more, left - n)
  <2>1. Len(more) + (left - n) = Len(string)
    <3>1. c + (left - n) = b
      BY ONLY <1>b, left \in Nat
    <3> QED BY ONLY <1>a, <3>1
  <2>2. HasRead(sent, got, text, more, left - n)
    BY ONLY <1>1, <1>2, <1>14, <2>1, text, Zenon DEF HasRead
  <2>3. Position(off, got, text, more) = pos + n
    <3>1. Position(off, got, text, more) = start + (1 + c)
      BY ONLY <1>2, <1>a, text DEF Position
    <3> QED BY ONLY <1>b, <3>1
  <2> QED BY ONLY <1>1, <1>11, <2>2, <2>3, Zenon DEF Carried
<1>16. ASSUME NEW no, NEW p, NEW l, n = left, ~ no
       PROVE  Carried(sent, Append(got, more), w, live, pend, no, p, l)
  <2>1. PICK all : all = Append(got, more)
    OBVIOUS
  <2>2. Len(all) = k /\ (\A i \in 1 .. g : all[i] = got[i]) /\ all[k] = more
    BY ONLY <1>2, <1>12, <2>1, AppendProperties, got \in Seq(Strings)
  <2>3. more = string
    <3>1. Len(more) = Len(string)
      BY ONLY <1>5, <1>12, <1>16
    <3> QED BY ONLY <1>8, <1>12, <1>14, <3>1, SeqEqual DEF Strings
  <2>4. \A i \in 1 .. k : all[i] = sent[i] \/ sent[i] = <<>>
    <3>1. \A i \in 1 .. k : i \in 1 .. g \/ i = k
      BY ONLY <1>2, <1>3
    <3> QED BY ONLY <1>2, <1>5, <2>2, <2>3, <3>1
  <2>5. k <= Len(sent)
    BY ONLY <1>6
  <2>6. HasRead(sent, all, no, p, l)
    BY ONLY <2>2, <2>4, <2>5, <1>16, Zenon DEF HasRead
  <2>7. Position(off, all, no, p) = pos + n
    <3>1. d = pos + n /\ d + 0 = d
      BY ONLY <1>b, <1>16
    <3>2. Position(off, all, no, p) = d + 0
      BY ONLY <2>2, <1>a, <1>16 DEF Position
    <3> QED BY ONLY <3>1, <3>2
  <2> QED BY ONLY <1>1, <1>11, <2>1, <2>6, <2>7, Zenon DEF Carried
<1> QED BY ONLY <1>15, <1>16
-----------------------------------------------------------------------------
(* What holds of a call on its own, of the channel a step of it leaves and *)
(* of the object: a step that is end e's, and that touches only its own.   *)
CallOf(k) ==
    /\ Len(k.pieces) <= 2
    /\ k.op \notin {"write", "writev"} => k.pieces = <<>>
    /\ k.op \in {"length", "in"} => k.left = 1 /\ k.part = <<>>

ConnOf(e, c, ob, k) ==
    \/ ob.conn = Conn(e) /\ c.fd[e] = "open"
    \/ ob.conn = 0 /\ k.op = "idle" /\ c.fd[e] \in {"closed", "leaked"}

(* The two directions of the channel.                                      *)
Writing(e, c, ob, k) ==
    Carried(c.sent[e], c.got[Other(e)], c.wire[Other(e)],
            ob.conn = Conn(e) /\ c.fd[Other(e)] # "closed", FlattenSeq(k.pieces),
            Conn(Other(e)) = Conn(e) /\ call[Other(e)].op = "text",
            call[Other(e)].part, call[Other(e)].left)

Reading(e, c, ob, k) ==
    Carried(c.sent[Other(e)], c.got[e], c.wire[e],
            Conn(Other(e)) = Conn(e) /\ c.fd[e] # "closed", Pending(Other(e)),
            ob.conn = Conn(e) /\ k.op = "text", k.part, k.left)

ChannelOf(e, c) ==
    /\ c \in Channel /\ \A a \in Ends : Len(c.wire[a]) <= Room
    /\ c.fd[Other(e)] = Link(e).fd[Other(e)]
    /\ c.sent[Other(e)] = Link(e).sent[Other(e)] /\ c.got[Other(e)] = Link(e).got[Other(e)]
    /\ Link(e).torn => c.torn

Own(e, c, ob, k) ==
    /\ UNCHANGED <<kind, acceptor, waiting>>
    /\ chan' = [chan EXCEPT ![Conn(e)] = c]
    /\ obj' = [obj EXCEPT ![e] = ob] /\ call' = [call EXCEPT ![e] = k]

(* A channel that no step touches, and whose ends go on or never did.      *)
LEMMA Unmoved ==
    ASSUME NEW id, \A e \in Ends : Direction(id, e), chan'[id] = chan[id],
           \A a \in Ends : \/ Conn(a)' = Conn(a) /\ call'[a] = call[a]
                           \/ Conn(a)' # id /\ (Conn(a) = id => call[a].op # "text")
    PROVE  \A e \in Ends : Direction(id, e)'
<1> SUFFICES ASSUME NEW e \in Ends PROVE Direction(id, e)'
  OBVIOUS
<1>1. PICK o, c, t : o = Other(e) /\ c = chan[id] /\ t = chan[id].torn
  OBVIOUS
<1>2. o \in Ends
  BY TwoEnds, <1>1
<1>3. CASE t
  BY <1>1, <1>3 DEF Direction
<1>4. CASE ~ t
  <2>1. PICK live, pend, text, part, left :
            /\ live = (Conn(e) = id /\ c.fd[o] # "closed") /\ pend = Pending(e)
            /\ text = (Conn(o) = id /\ call[o].op = "text")
            /\ part = call[o].part /\ left = call[o].left
    OBVIOUS
  <2>2. Carried(c.sent[e], c.got[o], c.wire[o], live, pend, text, part, left)
    BY <1>1, <1>4, <2>1 DEF Direction
  <2>3. PICK live2, pend2, text2, part2, left2 :
            /\ live2 = (Conn(e)' = id /\ c.fd[o] # "closed") /\ pend2 = Pending(e)'
            /\ text2 = (Conn(o)' = id /\ call'[o].op = "text")
            /\ part2 = call'[o].part /\ left2 = call'[o].left
    OBVIOUS
  <2>4. live2 => live /\ pend2 = pend
    BY <1>1, <2>1, <2>3 DEF Pending
  <2>5. (text2 <=> text) /\ (text2 => part2 = part /\ left2 = left)
    BY <1>2, <2>1, <2>3
  <2>6. Carried(c.sent[e], c.got[o], c.wire[o], live2, pend2, text2, part2, left2)
    BY ONLY <2>2, <2>4, <2>5, CarriedWeaker
  <2> QED BY <1>1, <2>3, <2>6 DEF Direction
<1> QED BY <1>3, <1>4

(* A step of one end, on its own connection: c, ob and k are what becomes  *)
(* of the connection, the stream and the call.  The invariant holds after  *)
(* it if it does of these, and of the two directions unless torn.          *)
LEMMA OwnStep ==
    ASSUME IInv, NEW e \in Ends, NEW c, NEW ob, NEW k, Conn(e) > 0, Own(e, c, ob, k),
           ChannelOf(e, c), ob \in Object, k \in Call, Len(k.part) + k.left < LengthModulus,
           CallOf(k), ConnOf(e, c, ob, k), c.torn \/ (Writing(e, c, ob, k) /\ Reading(e, c, ob, k))
    PROVE  IInv'
<1>1. PICK id, o : id = Conn(e) /\ o = Other(e)
  OBVIOUS
<1>2. o \in Ends /\ o # e /\ Other(o) = e /\ \A x \in Ends : x = e \/ x = o
  BY ONLY <1>1, TwoEnds, e \in Ends
<1>3. id \in DOMAIN chan /\ chan[id].fd[e] = "open" /\ id # 0
  BY <1>1 DEF IInv, CallsInv
<1>4. /\ DOMAIN chan' = DOMAIN chan /\ chan'[id] = c
      /\ \A i \in DOMAIN chan : i # id => chan'[i] = chan[i]
  BY <1>1, <1>3 DEF Own
<1>5. /\ obj \in [Ends -> Object] /\ call \in [Ends -> Call] /\ chan \in Seq(Channel)
  BY DEF IInv, StreamsTypeOK
<1>6. /\ obj'[e] = ob /\ obj'[o] = obj[o] /\ call'[e] = k /\ call'[o] = call[o]
      /\ obj' \in [Ends -> Object] /\ call' \in [Ends -> Call]
  BY <1>2, <1>5 DEF Own
<1>7. chan' \in Seq(Channel) /\ Len(chan') = Len(chan)
  <2>1. c \in Channel
    BY DEF ChannelOf
  <2>2. chan' = [chan EXCEPT ![id] = c] /\ id \in 1 .. Len(chan)
    BY <1>1, <1>3, <1>5 DEF Own
  <2> QED BY ONLY <1>5, <2>1, <2>2
<1>8. StreamsTypeOK'
  <2>1. \A i \in DOMAIN chan', a \in Ends : Len(chan'[i].wire[a]) <= Room
    BY <1>4 DEF IInv, StreamsTypeOK, ChannelOf
  <2>2. \A a \in Ends : Len(call'[a].part) + call'[a].left < LengthModulus
    BY <1>2, <1>6 DEF IInv, StreamsTypeOK
  <2>3. waiting' \in Seq(DOMAIN chan') /\ kind' = kind /\ acceptor' = acceptor
    BY <1>4 DEF IInv, StreamsTypeOK, Own
  <2> QED BY <1>6, <1>7, <2>1, <2>2, <2>3 DEF IInv, StreamsTypeOK
<1>9. Conn(e)' = ob.conn /\ Conn(o)' = Conn(o)
  BY <1>6 DEF Conn
<1>10. c.fd[o] = chan[id].fd[o] /\ (chan[id].torn => c.torn)
       /\ c.sent[o] = chan[id].sent[o] /\ c.got[o] = chan[id].got[o]
  BY <1>1 DEF ChannelOf, Link
<1>11. \/ ob.conn = id /\ c.fd[e] = "open"
       \/ ob.conn = 0 /\ k.op = "idle" /\ c.fd[e] \in {"closed", "leaked"}
  BY <1>1 DEF ConnOf
<1>12. DescriptorsHeld'
  <2> SUFFICES ASSUME NEW i \in DOMAIN chan, NEW a \in Ends, chan'[i].fd[a] = "open"
               PROVE  Conn(a)' = i
    BY <1>4 DEF DescriptorsHeld
  <2>1. CASE i = id /\ a = e
    BY <1>4, <1>9, <1>11, <2>1
  <2>2. CASE i = id /\ a = o
    <3>1. chan[i].fd[a] = "open"
      BY <1>4, <1>10, <2>2
    <3>2. Conn(a) = i
      BY <3>1 DEF IInv, DescriptorsHeld
    <3> QED BY <1>4, <1>9, <1>10, <2>2, <3>2
  <2>3. CASE i # id
    <3>1. Conn(a) = i
      BY <1>4, <2>3 DEF IInv, DescriptorsHeld
    <3> QED BY <1>1, <1>2, <1>4, <1>9, <2>3, <3>1
  <2> QED BY <1>2, <2>1, <2>2, <2>3
<1>13. CallsInv'
  <2>1. Conn(o) > 0 => Conn(o) \in DOMAIN chan /\ chan'[Conn(o)].fd[o] = "open"
    BY <1>2, <1>4, <1>10 DEF IInv, CallsInv
  <2>2. ob.conn > 0 => ob.conn \in DOMAIN chan /\ chan'[ob.conn].fd[e] = "open"
    BY <1>3, <1>4, <1>11
  <2>3. k.op \notin {"idle", "dead"} => ob.conn > 0
    BY <1>1, <1>11
  <2>4. CallOf(k)
    OBVIOUS
  <2>5. CallOf(call[o]) /\ (call[o].op \notin {"idle", "dead"} => Conn(o) > 0)
    BY <1>2 DEF IInv, CallsInv, CallOf
  <2>6. ASSUME NEW a \in Ends
        PROVE  /\ Conn(a)' > 0 => Conn(a)' \in DOMAIN chan' /\ chan'[Conn(a)'].fd[a] = "open"
               /\ call'[a].op \notin {"idle", "dead"} => Conn(a)' > 0
               /\ CallOf(call'[a])
    <3>1. CASE a = e
      BY ONLY <1>4, <1>6, <1>9, <2>2, <2>3, <2>4, <3>1
    <3>2. CASE a = o
      BY ONLY <1>4, <1>6, <1>9, <2>1, <2>5, <3>2
    <3> QED BY <1>2, <3>1, <3>2
  <2> QED BY <2>6 DEF CallsInv, CallOf
<1>14. BacklogInv'
  <2>1. \A i \in DOMAIN waiting : chan'[waiting[i]].fd["server"] = "none"
    <3> SUFFICES ASSUME NEW i \in DOMAIN waiting PROVE chan'[waiting[i]].fd["server"] = "none"
      OBVIOUS
    <3>1. chan[waiting[i]].fd["server"] = "none" /\ waiting[i] \in DOMAIN chan
      BY DEF IInv, BacklogInv, StreamsTypeOK
    <3>2. CASE waiting[i] = id
      <4>1. o = "server"
        BY <1>2, <1>3, <3>1, <3>2 DEF Ends
      <4> QED BY <1>4, <1>10, <3>1, <3>2, <4>1
    <3>3. CASE waiting[i] # id
      BY <1>4, <3>1, <3>3
    <3> QED BY <3>2, <3>3
  <2>2. ASSUME NEW i \in DOMAIN chan, chan'[i].fd["server"] = "none"
        PROVE  chan'[i].sent["server"] = <<>> /\ chan'[i].got["server"] = <<>>
    <3>1. CASE i = id
      <4>1. o = "server"
        <5>1. e # "server"
          BY <1>4, <1>11, <2>2, <3>1
        <5> QED BY <1>2, <5>1 DEF Ends
      <4>2. chan[i].fd["server"] = "none"
        BY <1>4, <1>10, <2>2, <3>1, <4>1
      <4>3. chan[i].sent["server"] = <<>> /\ chan[i].got["server"] = <<>>
        BY <4>2 DEF IInv, BacklogInv
      <4> QED BY <1>4, <1>10, <3>1, <4>1, <4>3
    <3>2. CASE i # id
      BY <1>4, <2>2, <3>2 DEF IInv, BacklogInv
    <3> QED BY <3>1, <3>2
  <2>3. waiting' = waiting
    BY DEF Own
  <2> QED BY <1>4, <2>1, <2>2, <2>3 DEF IInv, BacklogInv
<1>15. ASSUME NEW i \in DOMAIN chan PROVE \A a \in Ends : Direction(i, a)'
  <2>1. \A a \in Ends : Direction(i, a)
    BY DEF IInv, StreamsInv
  <2>2. CASE i # id
    <3>1. chan'[i] = chan[i] /\ i # 0
      BY <1>4, <1>5, <2>2
    <3>2. \A a \in Ends : \/ Conn(a)' = Conn(a) /\ call'[a] = call[a]
                          \/ Conn(a)' # i /\ (Conn(a) = i => call[a].op # "text")
      BY <1>1, <1>2, <1>6, <1>9, <1>11, <2>2, <3>1
    <3> QED BY ONLY <2>1, <3>1, <3>2, Unmoved
  <2>3. CASE i = id /\ c.torn
    BY <1>4, <2>3 DEF Direction
  <2>4. CASE i = id /\ ~ c.torn
    <3>1. Writing(e, c, ob, k) /\ Reading(e, c, ob, k)
      BY <2>4
    <3>2. Direction(i, e)'
      <4>1. Carried(c.sent[e], c.got[o], c.wire[o],
                    ob.conn = id /\ c.fd[o] # "closed", FlattenSeq(k.pieces),
                    Conn(o) = id /\ call[o].op = "text", call[o].part, call[o].left)
        BY ONLY <1>1, <3>1 DEF Writing
      <4> QED BY ONLY <1>1, <1>4, <1>6, <1>9, <2>4, <4>1 DEF Direction, Pending
    <3>3. Direction(i, o)'
      <4>1. Carried(c.sent[o], c.got[e], c.wire[e],
                    Conn(o) = id /\ c.fd[e] # "closed", FlattenSeq(call[o].pieces),
                    ob.conn = id /\ k.op = "text", k.part, k.left)
        BY ONLY <1>1, <3>1 DEF Reading, Pending
      <4> QED BY ONLY <1>1, <1>2, <1>4, <1>6, <1>9, <2>4, <4>1 DEF Direction, Pending
    <3> QED BY <1>2, <3>2, <3>3
  <2> QED BY <2>2, <2>3, <2>4
<1>16. StreamsInv'
  BY <1>4, <1>15 DEF StreamsInv
<1> QED BY <1>8, <1>12, <1>13, <1>14, <1>16 DEF IInv, LengthsFit

LEMMA LinkIs ==
    ASSUME IInv, NEW id \in DOMAIN chan, NEW e \in Ends
    PROVE  /\ chan[id] \in Channel /\ \A a \in Ends : Len(chan[id].wire[a]) <= Room
           /\ chan[id].sent[e] \in Seq(Strings) /\ chan[id].got[e] \in Seq(Strings)
           /\ chan[id].wire[e] \in Strings /\ Len(chan[id].wire[e]) \in Nat
           /\ call[e] \in Call /\ call[e].part \in Strings /\ call[e].left \in Nat
           /\ call[e].pieces \in Seq(Strings) /\ obj[e] \in Object
           /\ Len(call[e].part) + call[e].left < LengthModulus
<1>1. chan[id] \in Channel /\ call[e] \in Call /\ obj[e] \in Object
  BY DEF IInv, StreamsTypeOK
<1>2. \A a \in Ends : Len(chan[id].wire[a]) <= Room
  BY DEF IInv, StreamsTypeOK
<1>3. /\ chan[id].sent[e] \in Seq(Strings) /\ chan[id].got[e] \in Seq(Strings)
      /\ chan[id].wire[e] \in Strings
  BY <1>1 DEF Channel, Strings
<1>4. call[e].part \in Strings /\ call[e].left \in Nat /\ call[e].pieces \in Seq(Strings)
  BY <1>1 DEF Call, Strings
<1>5. Len(chan[id].wire[e]) \in Nat
  BY <1>3, LenProperties DEF Strings
<1>6. Len(call[e].part) + call[e].left < LengthModulus
  BY DEF IInv, StreamsTypeOK
<1> QED BY <1>1, <1>2, <1>3, <1>4, <1>5, <1>6

(* A call that goes on with the strings as they are.                       *)
LEMMA SameStrings ==
    ASSUME IInv, NEW e \in Ends, NEW c, NEW ob, NEW k, Conn(e) > 0, ~ Link(e).torn,
           c.sent = Link(e).sent, c.got = Link(e).got, c.wire = Link(e).wire, c.fd = Link(e).fd,
           ob.conn = Conn(e) => FlattenSeq(k.pieces) = FlattenSeq(call[e].pieces),
           (ob.conn = Conn(e) /\ k.op = "text") <=> call[e].op = "text",
           k.op = "text" => k.part = call[e].part /\ k.left = call[e].left
    PROVE  Writing(e, c, ob, k) /\ Reading(e, c, ob, k)
<1>1. PICK id, o : id = Conn(e) /\ o = Other(e)
  OBVIOUS
<1>2. o \in Ends /\ o # e /\ Other(o) = e
  BY ONLY <1>1, TwoEnds, e \in Ends
<1>3. id \in DOMAIN chan /\ Link(e) = chan[id]
  BY <1>1 DEF IInv, CallsInv, Link
<1>4. Direction(id, e) /\ Direction(id, o)
  BY <1>2, <1>3 DEF IInv, StreamsInv
<1>5. Writing(e, c, ob, k)
  <2>1. PICK live, pend, text, part, left :
            /\ live = (Conn(e) = id /\ chan[id].fd[o] # "closed") /\ pend = Pending(e)
            /\ text = (Conn(o) = id /\ call[o].op = "text")
            /\ part = call[o].part /\ left = call[o].left
    OBVIOUS
  <2>2. PICK sent, got, wire : sent = c.sent[e] /\ got = c.got[o] /\ wire = c.wire[o]
    OBVIOUS
  <2>3. Carried(sent, got, wire, live, pend, text, part, left)
    BY ONLY <1>1, <1>3, <1>4, <2>1, <2>2, ~ Link(e).torn, c.sent = Link(e).sent,
            c.got = Link(e).got, c.wire = Link(e).wire DEF Direction
  <2>4. PICK live2, pend2 : /\ live2 = (ob.conn = Conn(e) /\ c.fd[Other(e)] # "closed")
                            /\ pend2 = FlattenSeq(k.pieces)
    OBVIOUS
  <2>5. live2 => live /\ pend2 = pend
    BY <1>1, <1>3, <2>1, <2>4 DEF Pending
  <2>6. (text <=> text) /\ (text => part = part /\ left = left)
    OBVIOUS
  <2>7. Carried(sent, got, wire, live2, pend2, text, part, left)
    BY ONLY <2>3, <2>5, <2>6, CarriedWeaker
  <2> QED BY ONLY <1>1, <2>1, <2>2, <2>4, <2>7 DEF Writing
<1>6. Reading(e, c, ob, k)
  <2>1. PICK live, pend, text, part, left :
            /\ live = (Conn(o) = id /\ chan[id].fd[e] # "closed") /\ pend = Pending(o)
            /\ text = (Conn(e) = id /\ call[e].op = "text")
            /\ part = call[e].part /\ left = call[e].left
    OBVIOUS
  <2>2. PICK sent, got, wire : sent = c.sent[o] /\ got = c.got[e] /\ wire = c.wire[e]
    OBVIOUS
  <2>3. Carried(sent, got, wire, live, pend, text, part, left)
    BY ONLY <1>2, <1>3, <1>4, <2>1, <2>2, ~ Link(e).torn, c.sent = Link(e).sent,
            c.got = Link(e).got, c.wire = Link(e).wire DEF Direction
  <2>4. PICK text2, part2, left2 : /\ text2 = (ob.conn = Conn(e) /\ k.op = "text")
                                   /\ part2 = k.part /\ left2 = k.left
    OBVIOUS
  <2>5. (text2 <=> text) /\ (text2 => part2 = part /\ left2 = left)
    BY <1>1, <2>1, <2>4
  <2>6. live => live /\ pend = pend
    OBVIOUS
  <2>7. Carried(sent, got, wire, live, pend, text2, part2, left2)
    BY ONLY <2>3, <2>5, <2>6, CarriedWeaker
  <2>8. live = (Conn(o) = id /\ c.fd[e] # "closed")
    BY <1>3, <2>1
  <2> QED BY ONLY <1>1, <2>1, <2>2, <2>4, <2>7, <2>8 DEF Reading
<1> QED BY <1>5, <1>6

(* What close leaves of a channel, and of what it carries.                 *)
LEMMA ClosedIs ==
    ASSUME NEW c \in Channel, \A a \in Ends : Len(c.wire[a]) <= Room, NEW e \in Ends,
           NEW d, d = Closed(c, e)
    PROVE  /\ d \in Channel /\ \A a \in Ends : Len(d.wire[a]) <= Room
           /\ d.fd[e] = "closed" /\ d.fd[Other(e)] = c.fd[Other(e)]
           /\ d.sent = c.sent /\ d.got = c.got /\ d.torn = c.torn
           /\ d.wire[e] = <<>> /\ (d.wire[Other(e)] = <<>> \/ d.wire[Other(e)] = c.wire[Other(e)])
<1>1. PICK o, lost : o = Other(e) /\ lost = (c.wire[e] # <<>>)
  OBVIOUS
<1>2. o \in Ends /\ o # e /\ (\A x \in Ends : x = e \/ x = o) /\ lost \in BOOLEAN
  BY <1>1, TwoEnds
<1>3. PICK w, none : none = <<>> /\ w = IF lost THEN none ELSE c.wire[o]
  OBVIOUS
<1>4. none \in Seq(Octet) /\ Len(none) = 0 /\ Room \in Nat
  BY <1>3, StreamAssumption
<1>5. w \in Seq(Octet) /\ Len(w) <= Room /\ (w = none \/ w = c.wire[o])
  <2>1. c.wire[o] \in Seq(Octet)
    BY <1>2 DEF Channel
  <2>2. CASE lost
    BY ONLY <1>3, <1>4, <2>2
  <2>3. CASE ~ lost
    BY <1>2, <1>3, <2>1, <2>3
  <2> QED BY <2>2, <2>3
<1>6. d = [c EXCEPT !.fd[e] = "closed", !.wire[e] = none, !.reset = @ \/ lost, !.wire[o] = w]
  BY <1>1, <1>2, <1>3 DEF Closed, Channel
<1>7. c.wire \in [Ends -> Seq(Octet)] /\ c.fd \in [Ends -> {"none", "open", "leaked", "closed"}]
      /\ c.reset \in BOOLEAN
  BY DEF Channel
<1>8. d.wire = [c.wire EXCEPT ![e] = none, ![o] = w] /\ d.fd = [c.fd EXCEPT ![e] = "closed"]
      /\ d.sent = c.sent /\ d.got = c.got /\ d.torn = c.torn
  BY ONLY <1>6, c \in Channel DEF Channel
<1>9. d \in Channel
  <2>1. [c.wire EXCEPT ![e] = none, ![o] = w] \in [Ends -> Seq(Octet)]
    BY ONLY <1>2, <1>4, <1>5, <1>7
  <2>2. [c.fd EXCEPT ![e] = "closed"] \in [Ends -> {"none", "open", "leaked", "closed"}]
    BY ONLY <1>7
  <2>3. (c.reset \/ lost) \in BOOLEAN
    OBVIOUS
  <2> QED BY ONLY <1>6, <2>1, <2>2, <2>3, c \in Channel DEF Channel
<1>10. /\ d.wire[e] = none /\ d.wire[o] = w
       /\ d.fd[e] = "closed" /\ d.fd[o] = c.fd[o]
  BY ONLY <1>2, <1>7, <1>8, e \in Ends
<1>11. \A a \in Ends : Len(d.wire[a]) <= Room
  BY ONLY <1>2, <1>4, <1>5, <1>10
<1> QED BY ONLY <1>1, <1>3, <1>5, <1>8, <1>9, <1>10, <1>11

(* To an end that closes nothing comes; what the other has is unchanged,   *)
(* and what is on the way to it goes on or is lost.                        *)
LEMMA ClosedCarries ==
    ASSUME IInv, NEW id \in DOMAIN chan, ~ chan[id].torn, NEW e \in Ends, NEW o, o = Other(e),
           NEW d, d = Closed(chan[id], e)
    PROVE  /\ \A live, pend : ~ live =>
                 Carried(d.sent[e], d.got[o], d.wire[o], live, pend,
                         Conn(o) = id /\ call[o].op = "text", call[o].part, call[o].left)
           /\ \A live, pend, text, part, left : (~ live /\ ~ text) =>
                 Carried(d.sent[o], d.got[e], d.wire[e], live, pend, text, part, left)
<1>1. o \in Ends /\ o # e /\ Other(o) = e
  BY ONLY TwoEnds, e \in Ends, o = Other(e)
<1>2. Direction(id, e) /\ Direction(id, o)
  BY <1>1 DEF IInv, StreamsInv
<1>3. chan[id] \in Channel /\ \A a \in Ends : Len(chan[id].wire[a]) <= Room
  BY LinkIs
<1>4. /\ d.sent = chan[id].sent /\ d.got = chan[id].got
      /\ d.wire[e] = <<>> /\ (d.wire[o] = <<>> \/ d.wire[o] = chan[id].wire[o])
  BY ONLY <1>3, ClosedIs, e \in Ends, o = Other(e), d = Closed(chan[id], e)
<1>5. ASSUME NEW live2, NEW pend2, ~ live2
      PROVE  Carried(d.sent[e], d.got[o], d.wire[o], live2, pend2,
                     Conn(o) = id /\ call[o].op = "text", call[o].part, call[o].left)
  <2>1. PICK live, pend, text, part, left :
            /\ live = (Conn(e) = id /\ chan[id].fd[o] # "closed") /\ pend = Pending(e)
            /\ text = (Conn(o) = id /\ call[o].op = "text")
            /\ part = call[o].part /\ left = call[o].left
    OBVIOUS
  <2>2. PICK sent, got, wire : sent = d.sent[e] /\ got = d.got[o] /\ wire = chan[id].wire[o]
    OBVIOUS
  <2>3. Carried(sent, got, wire, live, pend, text, part, left)
    BY ONLY <1>1, <1>2, <1>4, <2>1, <2>2, ~ chan[id].torn, o = Other(e) DEF Direction
  <2>4. sent \in Seq(Strings) /\ got \in Seq(Strings) /\ part \in Strings /\ Len(wire) \in Nat
    <3>1. chan[id].sent[e] \in Seq(Strings)
      BY LinkIs
    <3>2. chan[id].got[o] \in Seq(Strings) /\ call[o].part \in Strings /\ Len(chan[id].wire[o]) \in Nat
      BY LinkIs, <1>1
    <3> QED BY ONLY <1>4, <2>1, <2>2, <3>1, <3>2
  <2>5. Carried(sent, got, <<>>, live2, pend2, text, part, left)
    <3>1. text => text /\ part = part /\ left = left
      OBVIOUS
    <3> QED BY ONLY <1>5, <2>3, <2>4, <3>1, CarriedLost
  <2>6. Carried(sent, got, wire, live2, pend2, text, part, left)
    <3>1. (text <=> text) /\ (text => part = part /\ left = left) /\ (live2 => live /\ pend2 = pend)
      BY <1>5
    <3> QED BY ONLY <2>3, <3>1, CarriedWeaker
  <2> QED BY ONLY <1>4, <2>1, <2>2, <2>5, <2>6
<1>6. ASSUME NEW live2, NEW pend2, NEW text2, NEW part2, NEW left2, ~ live2, ~ text2
      PROVE  Carried(d.sent[o], d.got[e], d.wire[e], live2, pend2, text2, part2, left2)
  <2>1. PICK live, pend, text, part, left :
            /\ live = (Conn(o) = id /\ chan[id].fd[e] # "closed") /\ pend = Pending(o)
            /\ text = (Conn(e) = id /\ call[e].op = "text")
            /\ part = call[e].part /\ left = call[e].left
    OBVIOUS
  <2>2. PICK sent, got, wire : sent = d.sent[o] /\ got = d.got[e] /\ wire = chan[id].wire[e]
    OBVIOUS
  <2>3. Carried(sent, got, wire, live, pend, text, part, left)
    BY ONLY <1>1, <1>2, <1>4, <2>1, <2>2, ~ chan[id].torn DEF Direction
  <2>4. sent \in Seq(Strings) /\ got \in Seq(Strings) /\ part \in Strings /\ Len(wire) \in Nat
    <3>1. chan[id].sent[o] \in Seq(Strings)
      BY LinkIs, <1>1
    <3>2. chan[id].got[e] \in Seq(Strings) /\ call[e].part \in Strings /\ Len(chan[id].wire[e]) \in Nat
      BY LinkIs
    <3> QED BY ONLY <1>4, <2>1, <2>2, <3>1, <3>2
  <2>5. Carried(sent, got, <<>>, live2, pend2, text2, part2, left2)
    <3>1. text2 => text /\ part2 = part /\ left2 = left
      BY <1>6
    <3> QED BY ONLY <1>6, <2>3, <2>4, <3>1, CarriedLost
  <2> QED BY ONLY <1>4, <2>2, <2>5
<1> QED BY ONLY <1>5, <1>6
-----------------------------------------------------------------------------
(* An idle call and no stream are a call and a stream.                     *)
LEMMA IdleIs ==
    /\ Idle \in Call /\ Len(Idle.part) + Idle.left = 0 /\ CallOf(Idle)
    /\ Idle.op = "idle" /\ Idle.pieces = <<>> /\ Idle.left = 0 /\ Idle.part = <<>>
    /\ NoObject \in Object /\ NoObject.conn = 0 /\ 0 < LengthModulus
<1>1. LengthModulus \in Nat \ {0, 1} /\ MaxConnections \in Nat
  BY StreamAssumption
<1>2. NoObject \in Object
  BY <1>1 DEF NoObject, Object
<1>3. Idle \in Call
  BY DEF Idle, Call
<1>4. Idle.op = "idle" /\ Idle.pieces = <<>> /\ Idle.left = 0 /\ Idle.part = <<>>
  BY DEF Idle
<1>5. Len(Idle.part) = 0 /\ Len(Idle.pieces) = 0
  BY ONLY <1>4
<1>6. CallOf(Idle)
  BY ONLY <1>4, <1>5 DEF CallOf
<1> QED BY <1>1, <1>2, <1>3, <1>4, <1>5, <1>6 DEF NoObject

(* A call that does nothing to the channel but perhaps note its keys.      *)
QuietCall(e, k) ==
    /\ k \in Call /\ Len(k.part) + k.left < LengthModulus /\ CallOf(k)
    /\ FlattenSeq(k.pieces) = FlattenSeq(call[e].pieces)
    /\ k.op = "text" <=> call[e].op = "text"
    /\ k.op = "text" => k.part = call[e].part /\ k.left = call[e].left

(* A step that moves no bytes.                                             *)
LEMMA QuietStep ==
    ASSUME IInv, NEW e \in Ends, NEW c, NEW ob, NEW k, Conn(e) > 0, Own(e, c, ob, k),
           ob \in Object, ob.conn = Conn(e), QuietCall(e, k), c \in Channel,
           c.sent = Link(e).sent, c.got = Link(e).got, c.wire = Link(e).wire, c.fd = Link(e).fd,
           c.torn = Link(e).torn
    PROVE  IInv'
<1>1. Conn(e) \in DOMAIN chan /\ chan[Conn(e)].fd[e] = "open"
  BY DEF IInv, CallsInv
<1>2. ConnOf(e, c, ob, k)
  BY <1>1 DEF ConnOf, Link
<1>3. \A a \in Ends : Len(Link(e).wire[a]) <= Room
  BY <1>1, LinkIs DEF Link
<1>4. ChannelOf(e, c)
  BY <1>3 DEF ChannelOf
<1>5. c.torn \/ (Writing(e, c, ob, k) /\ Reading(e, c, ob, k))
  <2>1. CASE ~ Link(e).torn
    <3>1. ob.conn = Conn(e) => FlattenSeq(k.pieces) = FlattenSeq(call[e].pieces)
      BY DEF QuietCall
    <3>2. (ob.conn = Conn(e) /\ k.op = "text") <=> call[e].op = "text"
      BY DEF QuietCall
    <3>3. k.op = "text" => k.part = call[e].part /\ k.left = call[e].left
      BY DEF QuietCall
    <3> QED BY <2>1, <3>1, <3>2, <3>3, SameStrings
  <2>2. CASE Link(e).torn
    BY <2>2
  <2> QED BY <2>1, <2>2
<1>6. k \in Call /\ Len(k.part) + k.left < LengthModulus /\ CallOf(k)
  BY DEF QuietCall
<1> QED BY <1>2, <1>4, <1>5, <1>6, OwnStep

(* An object that is changed, and no connection with it.                   *)
LEMMA ObjectStep ==
    ASSUME IInv, NEW e \in Ends, NEW ob \in Object, UNCHANGED <<kind, acceptor, waiting, chan, call>>,
           obj' = [obj EXCEPT ![e] = ob],
           ob.conn = Conn(e) \/ (~ Conn(e) > 0 /\ ~ ob.conn > 0)
    PROVE  IInv'
<1>1. obj \in [Ends -> Object] /\ chan \in Seq(Channel)
  BY DEF IInv, StreamsTypeOK
<1>2. /\ obj' \in [Ends -> Object] /\ Conn(e)' = ob.conn
      /\ \A a \in Ends : a # e => Conn(a)' = Conn(a)
  BY <1>1 DEF Conn
<1>3. StreamsTypeOK'
  BY <1>2 DEF IInv, StreamsTypeOK
<1>4. \A id \in DOMAIN chan : id > 0
  BY <1>1
<1>5. \A a \in Ends : Conn(a)' = Conn(a) \/ (~ Conn(a) > 0 /\ ~ Conn(a)' > 0)
  BY <1>2
<1>6. \A id \in DOMAIN chan, a \in Ends : Conn(a) = id <=> Conn(a)' = id
  BY <1>4, <1>5
<1>7. DescriptorsHeld'
  BY <1>6 DEF IInv, DescriptorsHeld
<1>8. CallsInv'
  BY <1>5 DEF IInv, CallsInv
<1>9. BacklogInv'
  BY DEF IInv, BacklogInv
<1>10. StreamsInv'
  <2> SUFFICES ASSUME NEW id \in DOMAIN chan PROVE \A a \in Ends : Direction(id, a)'
    BY DEF StreamsInv
  <2>1. \A a \in Ends : Direction(id, a)
    BY DEF IInv, StreamsInv
  <2>2. \A a \in Ends : \/ Conn(a)' = Conn(a) /\ call'[a] = call[a]
                        \/ Conn(a)' # id /\ (Conn(a) = id => call[a].op # "text")
    BY <1>5, <1>6
  <2>3. chan'[id] = chan[id]
    OBVIOUS
  <2> QED BY ONLY <2>1, <2>2, <2>3, Unmoved
<1> QED BY <1>3, <1>7, <1>8, <1>9, <1>10 DEF IInv, LengthsFit

LEMMA SetOptionsStep ==
    ASSUME IInv, NEW e \in Ends, SetOptions(e) PROVE IInv'
<1>1. PICK ob : ob = [obj[e] EXCEPT !.timed = TRUE]
  OBVIOUS
<1>2. obj[e] \in Object
  BY DEF IInv, StreamsTypeOK
<1>3. ob \in Object /\ ob.conn = Conn(e)
  BY <1>1, <1>2 DEF Object, Conn
<1>4. obj' = [obj EXCEPT ![e] = ob] /\ UNCHANGED <<kind, acceptor, waiting, chan, call>>
  BY <1>1 DEF SetOptions, IInv, StreamsTypeOK
<1> QED BY <1>3, <1>4, ObjectStep

(* A stream that nothing uses closes its descriptor.                       *)
LEMMA CloseStep ==
    ASSUME IInv, NEW e \in Ends, Conn(e) > 0, Free(e), NEW ob \in Object, ob.conn = 0,
           Own(e, Closed(Link(e), e), ob, call[e])
    PROVE  IInv'
<1>1. PICK id, o, d, k : id = Conn(e) /\ o = Other(e) /\ d = Closed(Link(e), e) /\ k = call[e]
  OBVIOUS
<1>2. o \in Ends /\ o # e /\ Other(o) = e
  BY ONLY <1>1, TwoEnds, e \in Ends
<1>3. id \in DOMAIN chan /\ Link(e) = chan[id] /\ id # 0
  BY <1>1 DEF IInv, CallsInv, Link
<1>4. chan[id] \in Channel /\ (\A a \in Ends : Len(chan[id].wire[a]) <= Room)
      /\ k \in Call /\ Len(k.part) + k.left < LengthModulus
  BY <1>1, <1>3, LinkIs
<1>5. /\ d \in Channel /\ \A a \in Ends : Len(d.wire[a]) <= Room
      /\ d.fd[e] = "closed" /\ d.fd[o] = chan[id].fd[o]
      /\ d.sent = chan[id].sent /\ d.got = chan[id].got /\ d.torn = chan[id].torn
  BY ONLY <1>1, <1>3, <1>4, ClosedIs, e \in Ends
<1>6. k.op = "idle" /\ CallOf(k)
  BY <1>1 DEF IInv, CallsInv, CallOf, Free
<1>7. ChannelOf(e, d)
  BY ONLY <1>1, <1>3, <1>5 DEF ChannelOf
<1>8. ConnOf(e, d, ob, k)
  BY <1>5, <1>6 DEF ConnOf
<1>9. d.torn \/ (Writing(e, d, ob, k) /\ Reading(e, d, ob, k))
  <2> SUFFICES ASSUME ~ chan[id].torn PROVE Writing(e, d, ob, k) /\ Reading(e, d, ob, k)
    BY <1>5
  <2>1. /\ \A live, pend : ~ live =>
                 Carried(d.sent[e], d.got[o], d.wire[o], live, pend,
                         Conn(o) = id /\ call[o].op = "text", call[o].part, call[o].left)
        /\ \A live, pend, text, part, left : (~ live /\ ~ text) =>
                 Carried(d.sent[o], d.got[e], d.wire[e], live, pend, text, part, left)
    <3>1. d = Closed(chan[id], e)
      BY <1>1, <1>3
    <3>2. id \in DOMAIN chan /\ ~ chan[id].torn /\ o = Other(e)
      BY <1>1, <1>3
    <3> QED BY ONLY IInv, e \in Ends, <3>1, <3>2, ClosedCarries
  <2>2. PICK live, pend : live = (ob.conn = Conn(e) /\ d.fd[Other(e)] # "closed")
                          /\ pend = FlattenSeq(k.pieces)
    OBVIOUS
  <2>3. ~ live
    BY <1>1, <1>3, <2>2
  <2>4. Writing(e, d, ob, k)
    BY ONLY <1>1, <2>1, <2>2, <2>3 DEF Writing
  <2>5. PICK live2, pend2, text2 : live2 = (Conn(Other(e)) = Conn(e) /\ d.fd[e] # "closed")
            /\ pend2 = Pending(Other(e)) /\ text2 = (ob.conn = Conn(e) /\ k.op = "text")
    OBVIOUS
  <2>6. ~ live2 /\ ~ text2
    BY <1>5, <1>6, <2>5
  <2>7. Reading(e, d, ob, k)
    BY ONLY <1>1, <2>1, <2>5, <2>6 DEF Reading
  <2> QED BY <2>4, <2>7
<1>10. Own(e, d, ob, k)
  BY <1>1
<1> QED BY ONLY IInv, e \in Ends, Conn(e) > 0, ob \in Object, <1>4, <1>6, <1>7, <1>8, <1>9, <1>10, OwnStep

LEMMA DisconnectStep ==
    ASSUME IInv, NEW e \in Ends, Disconnect(e) PROVE IInv'
<1>1. PICK ob : ob = [NoObject EXCEPT !.ssl = IF e = "server" /\ kind = "tls" THEN "freed" ELSE "none"]
  OBVIOUS
<1>2. ob \in Object /\ ob.conn = 0
  BY <1>1, IdleIs DEF Object
<1>3. obj' = [obj EXCEPT ![e] = ob] /\ Free(e) /\ UNCHANGED <<kind, acceptor, waiting, call>>
      /\ chan' = IF HasNothingToClose(e) THEN chan ELSE [chan EXCEPT ![Conn(e)] = Closed(@, e)]
  BY <1>1 DEF Disconnect
<1>4. obj[e] \in Object /\ call \in [Ends -> Call]
  BY DEF IInv, StreamsTypeOK
<1>5. CASE HasNothingToClose(e)
  <2>1. ~ Conn(e) > 0 /\ ~ ob.conn > 0
    BY <1>2, <1>5 DEF HasNothingToClose, Conn
  <2>2. UNCHANGED <<kind, acceptor, waiting, chan, call>>
    BY <1>3, <1>5
  <2>3. obj' = [obj EXCEPT ![e] = ob]
    BY <1>3
  <2> QED BY ONLY IInv, e \in Ends, <1>2, <2>1, <2>2, <2>3, ObjectStep
<1>6. CASE ~ HasNothingToClose(e)
  <2>1. Conn(e) > 0
    BY <1>4, <1>6, StreamAssumption DEF HasNothingToClose, Conn, Object
  <2>2. call' = [call EXCEPT ![e] = call[e]]
    BY <1>3, <1>4
  <2>3. chan' = [chan EXCEPT ![Conn(e)] = Closed(Link(e), e)]
    BY <1>3, <1>6 DEF Link
  <2>4. Own(e, Closed(Link(e), e), ob, call[e])
    BY <1>3, <2>2, <2>3 DEF Own
  <2> QED BY <1>2, <1>3, <2>1, <2>4, CloseStep
<1> QED BY <1>5, <1>6

(* The listening socket closes: those not yet accepted are reset, both ways*)
(* are empty after it, and nobody writes to or from their server's end.    *)
LEMMA RefusedIs ==
    ASSUME NEW b \in Channel, \A a \in Ends : Len(b.wire[a]) <= Room, NEW d, d = Refused(b)
    PROVE  /\ d \in Channel /\ \A a \in Ends : Len(d.wire[a]) <= Room
           /\ d.fd["server"] # "none" /\ d.fd["client"] = b.fd["client"]
           /\ b.fd["server"] # "none" => d = b
           /\ d.sent = b.sent /\ d.got = b.got /\ d.torn = b.torn
           /\ b.fd["server"] = "none" =>
                    d.fd["server"] = "closed" /\ \A a \in Ends : d.wire[a] = <<>>
<1>1. "server" \in Ends /\ "client" \in Ends
  BY DEF Ends
<1>2. CASE b.fd["server"] # "none"
  <2>1. d = b
    BY <1>2 DEF Refused
  <2> QED BY ONLY <1>2, <2>1, b \in Channel, \A a \in Ends : Len(b.wire[a]) <= Room
<1>3. CASE b.fd["server"] = "none"
  <2>1. PICK none, wires : none = <<>> /\ wires = [e \in Ends |-> none]
    OBVIOUS
  <2>2. d = [b EXCEPT !.fd["server"] = "closed", !.reset = TRUE, !.wire = wires]
    BY <1>3, <2>1 DEF Refused
  <2>3. none \in Seq(Octet) /\ Len(none) = 0
    BY ONLY <2>1, EmptySeq
  <2>4. wires \in [Ends -> Seq(Octet)]
    BY ONLY <2>1, <2>3
  <2>5. d \in Channel /\ d.wire = wires /\ d.fd["server"] = "closed" /\ d.fd["client"] = b.fd["client"]
        /\ d.sent = b.sent /\ d.got = b.got /\ d.torn = b.torn
    BY ONLY <1>1, <2>2, <2>4, b \in Channel DEF Channel
  <2>6. \A a \in Ends : d.wire[a] = none
    BY ONLY <2>1, <2>5
  <2>7. \A a \in Ends : Len(d.wire[a]) <= Room
    BY ONLY <2>3, <2>6, StreamAssumption
  <2> QED BY ONLY <1>3, <2>1, <2>5, <2>6, <2>7
<1> QED BY <1>2, <1>3

LEMMA RefusedCarries ==
    ASSUME IInv, NEW i \in DOMAIN chan, chan[i].fd["server"] = "none", ~ chan[i].torn,
           chan'[i] = Refused(chan[i]),
           \A a \in Ends : \/ Conn(a)' = Conn(a) /\ call'[a] = call[a]
                           \/ Conn(a)' # i /\ (Conn(a) = i => call[a].op # "text")
    PROVE  \A a \in Ends : Direction(i, a)'
<1> SUFFICES ASSUME NEW a \in Ends PROVE Direction(i, a)'
  OBVIOUS
<1>1. PICK o, b, d : o = Other(a) /\ b = chan[i] /\ d = chan'[i]
  OBVIOUS
<1>2. "server" \in Ends /\ o \in Ends /\ o # a /\ (a = "server" \/ o = "server")
  <2>1. "server" \in Ends /\ \A e \in Ends : e = "client" \/ e = "server"
    BY DEF Ends
  <2> QED BY ONLY <1>1, <2>1, TwoEnds, a \in Ends
<1>3. /\ d.fd["server"] = "closed" /\ (\A x \in Ends : d.wire[x] = <<>>)
      /\ d.sent = b.sent /\ d.got = b.got /\ d.torn = b.torn
  <2>1. b \in Channel /\ \A x \in Ends : Len(b.wire[x]) <= Room
    BY <1>1, LinkIs
  <2>2. d = Refused(b) /\ b.fd["server"] = "none"
    BY ONLY <1>1, chan'[i] = Refused(chan[i]), chan[i].fd["server"] = "none"
  <2> QED BY ONLY <2>1, <2>2, RefusedIs
<1>4. PICK live, live2, pend, pend2, text, text2, part, part2, left, left2, sent, got, wire :
        /\ live = (Conn(a) = i /\ b.fd[o] # "closed") /\ pend = Pending(a)
        /\ live2 = (Conn(a)' = i /\ d.fd[o] # "closed") /\ pend2 = Pending(a)'
        /\ text = (Conn(o) = i /\ call[o].op = "text")
        /\ text2 = (Conn(o)' = i /\ call'[o].op = "text")
        /\ part = call[o].part /\ left = call[o].left
        /\ part2 = call'[o].part /\ left2 = call'[o].left
        /\ sent = b.sent[a] /\ got = b.got[o] /\ wire = b.wire[o]
  OBVIOUS
<1>5. Carried(sent, got, wire, live, pend, text, part, left)
  <2>1. Direction(i, a)
    BY DEF IInv, StreamsInv
  <2> QED BY <1>1, <1>4, <2>1 DEF Direction
<1>6. sent \in Seq(Strings) /\ got \in Seq(Strings) /\ part \in Strings /\ Len(wire) \in Nat
  BY <1>1, <1>2, <1>4, LinkIs
<1>7. ~ live2
  <2>1. CASE o = "server"
    BY ONLY <1>3, <1>4, <2>1
  <2>2. CASE a = "server"
    <3>1. Conn(a) # i
      <4> SUFFICES ASSUME Conn(a) = i PROVE FALSE
        OBVIOUS
      <4>1. i > 0
        BY DEF IInv, StreamsTypeOK
      <4>2. chan[i].fd["server"] = "open"
        BY <1>2, <2>2, <4>1 DEF IInv, CallsInv
      <4> QED BY <4>2
    <3>2. Conn(a)' # i
      BY <3>1
    <3> QED BY ONLY <1>4, <3>2
  <2> QED BY ONLY <1>2, <2>1, <2>2
<1>8. text2 => text /\ part2 = part /\ left2 = left
  BY ONLY <1>2, <1>4,
      \A x \in Ends : \/ Conn(x)' = Conn(x) /\ call'[x] = call[x]
                      \/ Conn(x)' # i /\ (Conn(x) = i => call[x].op # "text")
<1>9. Carried(sent, got, <<>>, live2, pend2, text2, part2, left2)
  BY ONLY <1>5, <1>6, <1>7, <1>8, CarriedLost
<1>10. d.wire[o] = <<>> /\ d.sent[a] = sent /\ d.got[o] = got
  BY ONLY <1>2, <1>3, <1>4
<1> QED BY ONLY <1>1, <1>4, <1>9, <1>10 DEF Direction

(* Then nobody is left who waits for accept.                               *)
LEMMA NobodyWaits ==
    ASSUME waiting' = <<>>, DOMAIN chan' = DOMAIN chan,
           \A i \in DOMAIN chan : chan'[i].fd["server"] # "none"
    PROVE  BacklogInv'
<1>1. DOMAIN waiting' = {}
  <2>1. PICK none : none = <<>>
    OBVIOUS
  <2>2. none \in Seq(Nat) /\ Len(none) = 0
    BY ONLY <2>1, EmptySeq
  <2>3. DOMAIN none = 1 .. Len(none)
    BY ONLY <2>2, LenProperties
  <2>4. DOMAIN none = {}
    BY ONLY <2>2, <2>3
  <2> QED BY ONLY <2>1, <2>4, waiting' = <<>>
<1>2. \A i \in DOMAIN chan' : chan'[i].fd["server"] # "none"
  OBVIOUS
<1> QED BY ONLY <1>1, <1>2 DEF BacklogInv

(* An assertion fails: all the descriptors of the end are closed, and the  *)
(* server's backlog is refused.                                            *)
LEMMA DiesStep ==
    ASSUME IInv, NEW e \in Ends, Dies(e) PROVE IInv'
<1>1. PICK o, k : o = Other(e) /\ k = [Idle EXCEPT !.op = "dead"]
  OBVIOUS
<1>2. o \in Ends /\ o # e /\ Other(o) = e /\ \A x \in Ends : x = e \/ x = o
  BY ONLY <1>1, TwoEnds, e \in Ends
<1>3. /\ obj \in [Ends -> Object] /\ call \in [Ends -> Call] /\ chan \in Seq(Channel)
      /\ \A i \in DOMAIN chan : i > 0 /\ i # 0
  BY DEF IInv, StreamsTypeOK
<1>4. k \in Call /\ Len(k.part) + k.left < LengthModulus /\ CallOf(k) /\ k.op = "dead" /\ k.pieces = <<>>
  <2>1. k.part = Idle.part /\ k.left = Idle.left /\ k.op = "dead" /\ k.pieces = Idle.pieces
    BY <1>1 DEF Idle
  <2>2. k \in Call
    BY <1>1, IdleIs DEF Call, Idle
  <2>3. Len(k.part) + k.left < LengthModulus
    BY ONLY <2>1, IdleIs
  <2>4. CallOf(k)
    BY ONLY <2>1, IdleIs, <1>1 DEF CallOf
  <2> QED BY <2>1, <2>2, <2>3, <2>4, IdleIs
<1>5. /\ obj'[e] = NoObject /\ obj'[o] = obj[o] /\ call'[e] = k /\ call'[o] = call[o]
      /\ obj' \in [Ends -> Object] /\ call' \in [Ends -> Call]
  BY <1>1, <1>2, <1>3, <1>4, IdleIs DEF Dies, Does
<1>6. Conn(e)' = 0 /\ Conn(o)' = Conn(o)
  BY <1>5, IdleIs DEF Conn
<1>7. /\ DOMAIN chan' = DOMAIN chan
      /\ \A i \in DOMAIN chan : chan'[i] = 
            IF chan[i].fd[e] \in {"open", "leaked"} THEN Closed(chan[i], e)
            ELSE IF e = "server" THEN Refused(chan[i]) ELSE chan[i]
      /\ kind' = kind /\ acceptor' \in {acceptor, "none"}
      /\ waiting' = IF e = "server" THEN <<>> ELSE waiting
  BY DEF Dies
<1>8. ASSUME NEW i \in DOMAIN chan
      PROVE  /\ chan'[i] \in Channel /\ \A a \in Ends : Len(chan'[i].wire[a]) <= Room
             /\ chan'[i].fd[e] # "open" /\ chan'[i].fd[o] = chan[i].fd[o]
             /\ e = "server" => chan'[i].fd["server"] # "none"
             /\ chan'[i].sent = chan[i].sent /\ chan'[i].got = chan[i].got
             /\ chan'[i].torn = chan[i].torn
  <2>1. chan[i] \in Channel /\ \A a \in Ends : Len(chan[i].wire[a]) <= Room
    BY <1>8, LinkIs
  <2>2. CASE chan[i].fd[e] \in {"open", "leaked"}
    <3>1. PICK d, c : c = chan[i] /\ d = Closed(c, e)
      OBVIOUS
    <3>2. /\ d \in Channel /\ \A a \in Ends : Len(d.wire[a]) <= Room
          /\ d.fd[e] = "closed" /\ d.fd[o] = c.fd[o]
          /\ d.sent = c.sent /\ d.got = c.got /\ d.torn = c.torn
      BY ONLY <1>1, <2>1, <3>1, ClosedIs, e \in Ends
    <3>3. chan'[i] = d
      BY <1>7, <1>8, <2>2, <3>1
    <3> QED BY ONLY <2>2, <3>1, <3>2, <3>3
  <2>3. CASE chan[i].fd[e] \notin {"open", "leaked"} /\ e # "server"
    <3>1. chan'[i] = chan[i]
      BY <1>7, <1>8, <2>3
    <3> QED BY ONLY <2>1, <2>3, <3>1
  <2>4. CASE chan[i].fd[e] \notin {"open", "leaked"} /\ e = "server"
    <3>1. PICK d, c : c = chan[i] /\ d = Refused(c)
      OBVIOUS
    <3>2. /\ d \in Channel /\ \A a \in Ends : Len(d.wire[a]) <= Room
          /\ d.fd["server"] # "none" /\ d.fd["client"] = c.fd["client"]
          /\ c.fd["server"] # "none" => d = c
          /\ d.sent = c.sent /\ d.got = c.got /\ d.torn = c.torn
          /\ c.fd["server"] = "none" => d.fd["server"] = "closed"
      <4>1. c \in Channel /\ \A a \in Ends : Len(c.wire[a]) <= Room
        BY ONLY <2>1, <3>1
      <4> QED BY ONLY <3>1, <4>1, RefusedIs
    <3>3. chan'[i] = d /\ o = "client"
      BY <1>1, <1>7, <1>8, <2>4, <3>1, TwoEnds
    <3>4. d.fd["server"] # "open"
      BY ONLY <2>4, <3>1, <3>2
    <3> QED BY ONLY <2>4, <3>1, <3>2, <3>3, <3>4
  <2> QED BY <2>2, <2>3, <2>4
<1>9. chan' \in Seq(Channel) /\ Len(chan') = Len(chan)
  <2>1. DOMAIN chan = 1 .. Len(chan) /\ Len(chan) \in Nat
    BY <1>3
  <2>2. PICK f : f = [i \in 1 .. Len(chan) |-> chan'[i]]
    OBVIOUS
  <2>3. \A i \in 1 .. Len(chan) : chan'[i] \in Channel
    BY <1>8, <2>1
  <2>4. f \in [1 .. Len(chan) -> Channel]
    BY ONLY <2>2, <2>3
  <2>5. f \in Seq(Channel) /\ Len(f) = Len(chan)
    BY ONLY <2>1, <2>4
  <2>6. f = chan'
    <3>1. chan' = [i \in DOMAIN chan |->
                    IF chan[i].fd[e] \in {"open", "leaked"} THEN Closed(chan[i], e)
                    ELSE IF e = "server" THEN Refused(chan[i]) ELSE chan[i]]
      BY DEF Dies
    <3> QED BY <1>7, <2>1, <2>2, <3>1
  <2> QED BY <2>5, <2>6
<1>10. StreamsTypeOK'
  <2>1. \A i \in DOMAIN chan', a \in Ends : Len(chan'[i].wire[a]) <= Room
    BY <1>7, <1>8
  <2>2. \A a \in Ends : Len(call'[a].part) + call'[a].left < LengthModulus
    BY <1>2, <1>4, <1>5 DEF IInv, StreamsTypeOK
  <2>3. waiting' \in Seq(DOMAIN chan')
    <3>1. CASE e = "server"
      BY ONLY <1>7, <3>1, EmptySeq
    <3>2. CASE e # "server"
      BY <1>7, <3>2 DEF IInv, StreamsTypeOK
    <3> QED BY <3>1, <3>2
  <2>4. kind' \in {"tcp", "tls"} /\ acceptor' \in {"none", "made", "open"}
    BY <1>7 DEF IInv, StreamsTypeOK
  <2> QED BY <1>5, <1>9, <2>1, <2>2, <2>3, <2>4 DEF IInv, StreamsTypeOK
<1>11. DescriptorsHeld'
  <2> SUFFICES ASSUME NEW i \in DOMAIN chan, NEW a \in Ends, chan'[i].fd[a] = "open"
               PROVE  Conn(a)' = i
    BY <1>7 DEF DescriptorsHeld
  <2>1. a = o /\ chan[i].fd[a] = "open"
    BY <1>2, <1>8
  <2>2. Conn(a) = i
    BY <2>1 DEF IInv, DescriptorsHeld
  <2> QED BY <1>6, <1>8, <2>1, <2>2
<1>12. CallsInv'
  <2>1. Conn(o) > 0 => Conn(o) \in DOMAIN chan /\ chan'[Conn(o)].fd[o] = "open"
    BY <1>2, <1>8 DEF IInv, CallsInv
  <2>2. CallOf(call[o]) /\ (call[o].op \notin {"idle", "dead"} => Conn(o) > 0)
    BY <1>2 DEF IInv, CallsInv, CallOf
  <2>3. ASSUME NEW a \in Ends
        PROVE  /\ Conn(a)' > 0 => Conn(a)' \in DOMAIN chan' /\ chan'[Conn(a)'].fd[a] = "open"
               /\ call'[a].op \notin {"idle", "dead"} => Conn(a)' > 0
               /\ CallOf(call'[a])
    <3>1. CASE a = e
      BY ONLY <1>4, <1>5, <1>6, <3>1
    <3>2. CASE a = o
      BY ONLY <1>5, <1>6, <1>7, <2>1, <2>2, <3>2
    <3> QED BY <1>2, <3>1, <3>2
  <2> QED BY <2>3 DEF CallsInv, CallOf
<1>13. BacklogInv'
  <2>1. CASE e = "server"
    <3>1. waiting' = <<>> /\ \A i \in DOMAIN chan : chan'[i].fd["server"] # "none"
      BY ONLY <1>7, <1>8, <2>1
    <3> QED BY ONLY <1>7, <3>1, NobodyWaits
  <2>2. CASE e # "server"
    <3>1. waiting' = waiting /\ o = "server"
      BY <1>2, <1>7, <2>2 DEF Ends
    <3>2. \A i \in DOMAIN chan : chan'[i].fd["server"] = "none" <=> chan[i].fd["server"] = "none"
      BY ONLY <1>8, <3>1
    <3>3. \A i \in DOMAIN waiting : waiting[i] \in DOMAIN chan
      BY DEF IInv, StreamsTypeOK
    <3> QED BY <1>7, <1>8, <3>1, <3>2, <3>3 DEF IInv, BacklogInv
  <2> QED BY <2>1, <2>2
<1>14. ASSUME NEW i \in DOMAIN chan PROVE \A a \in Ends : Direction(i, a)'
  <2>1. CASE chan[i].torn
    BY <1>8, <1>14, <2>1 DEF Direction
  <2>2. CASE ~ chan[i].torn /\ chan[i].fd[e] \notin {"open", "leaked"}
    <3>3. Conn(e) # i
      BY <1>3, <1>14, <2>2 DEF IInv, CallsInv
    <3>4. \A a \in Ends : \/ Conn(a)' = Conn(a) /\ call'[a] = call[a]
                          \/ Conn(a)' # i /\ (Conn(a) = i => call[a].op # "text")
      BY <1>2, <1>3, <1>5, <1>6, <1>14, <3>3
    <3>5. CASE e = "server" /\ chan[i].fd["server"] = "none"
      <4>1. chan'[i] = Refused(chan[i])
        BY <1>7, <1>14, <2>2, <3>5
      <4> QED BY ONLY IInv, i \in DOMAIN chan, <2>2, <3>4, <3>5, <4>1, RefusedCarries
    <3>6. CASE ~ (e = "server" /\ chan[i].fd["server"] = "none")
      <4>1. \A a \in Ends : Direction(i, a)
        BY <1>14 DEF IInv, StreamsInv
      <4>2. chan'[i] = chan[i]
        BY <1>7, <1>14, <2>2, <3>6 DEF Refused
      <4> QED BY ONLY <3>4, <4>1, <4>2, Unmoved
    <3> QED BY <3>5, <3>6
  <2>3. CASE ~ chan[i].torn /\ chan[i].fd[e] \in {"open", "leaked"}
    <3>1. PICK d : d = Closed(chan[i], e)
      OBVIOUS
    <3>2. chan'[i] = d
      BY <1>7, <1>14, <2>3, <3>1
    <3>3. /\ \A live, pend : ~ live =>
                 Carried(d.sent[e], d.got[o], d.wire[o], live, pend,
                         Conn(o) = i /\ call[o].op = "text", call[o].part, call[o].left)
          /\ \A live, pend, text, part, left : (~ live /\ ~ text) =>
                 Carried(d.sent[o], d.got[e], d.wire[e], live, pend, text, part, left)
      <4>1. ~ chan[i].torn
        BY <2>3
      <4> QED BY ONLY IInv, e \in Ends, i \in DOMAIN chan, <1>1, <3>1, <4>1, ClosedCarries
    <3>4. Direction(i, e)'
      <4>1. PICK live, pend : live = (Conn(e)' = i /\ d.fd[o] # "closed") /\ pend = Pending(e)'
        OBVIOUS
      <4>2. ~ live
        BY <1>3, <1>6, <1>14, <4>1
      <4>3. Carried(d.sent[e], d.got[o], d.wire[o], live, pend,
                    Conn(o)' = i /\ call'[o].op = "text", call'[o].part, call'[o].left)
        BY ONLY <1>5, <1>6, <3>3, <4>2
      <4> QED BY ONLY <1>1, <3>2, <4>1, <4>3 DEF Direction
    <3>5. Direction(i, o)'
      <4>1. PICK live, pend, text, part, left :
                /\ live = (Conn(o)' = i /\ d.fd[e] # "closed") /\ pend = Pending(o)'
                /\ text = (Conn(e)' = i /\ call'[e].op = "text")
                /\ part = call'[e].part /\ left = call'[e].left
        OBVIOUS
      <4>2. d.fd[e] = "closed"
        <5>1. chan[i] \in Channel /\ \A a \in Ends : Len(chan[i].wire[a]) <= Room
          BY <1>14, LinkIs
        <5> QED BY ONLY <3>1, <5>1, ClosedIs, e \in Ends
      <4>3. ~ live /\ ~ text
        BY <1>4, <1>5, <4>1, <4>2
      <4>4. Carried(d.sent[o], d.got[e], d.wire[e], live, pend, text, part, left)
        BY ONLY <3>3, <4>3
      <4> QED BY ONLY <1>2, <3>2, <4>1, <4>4 DEF Direction
    <3> QED BY <1>2, <3>4, <3>5
  <2> QED BY <2>1, <2>2, <2>3
<1>15. StreamsInv'
  BY <1>7, <1>14 DEF StreamsInv
<1> QED BY <1>10, <1>11, <1>12, <1>13, <1>15 DEF IInv, LengthsFit

LEMMA DestroyStep ==
    ASSUME IInv, NEW e \in Ends, Destroy(e) PROVE IInv'
<1>1. Free(e)
  BY DEF Destroy
<1>2. CASE obj[e].ssl = "freed"
  BY <1>2, DiesStep DEF Destroy
<1>3. CASE obj[e].ssl # "freed"
  <2>1. /\ obj' = [obj EXCEPT ![e] = NoObject] /\ call' = call /\ UNCHANGED <<kind, acceptor, waiting>>
        /\ chan' = IF HasNothingToClose(e) THEN chan ELSE [chan EXCEPT ![Conn(e)] = Closed(@, e)]
    BY <1>3 DEF Destroy
  <2>2. obj[e] \in Object /\ call \in [Ends -> Call]
    BY DEF IInv, StreamsTypeOK
  <2>3. NoObject \in Object /\ NoObject.conn = 0
    BY IdleIs
  <2>4. CASE HasNothingToClose(e)
    <3>1. ~ Conn(e) > 0 /\ ~ NoObject.conn > 0
      BY <2>3, <2>4 DEF HasNothingToClose, Conn
    <3>2. UNCHANGED <<kind, acceptor, waiting, chan, call>>
      BY <2>1, <2>4
    <3> QED BY ONLY IInv, e \in Ends, <2>1, <2>3, <3>1, <3>2, ObjectStep
  <2>5. CASE ~ HasNothingToClose(e)
    <3>1. Conn(e) > 0
      BY <2>2, <2>5, StreamAssumption DEF HasNothingToClose, Conn, Object
    <3>2. call' = [call EXCEPT ![e] = call[e]]
      BY <2>1, <2>2
    <3>3. chan' = [chan EXCEPT ![Conn(e)] = Closed(Link(e), e)]
      BY <2>1, <2>5 DEF Link
    <3>4. Own(e, Closed(Link(e), e), NoObject, call[e])
      BY <1>1, <2>1, <3>2, <3>3 DEF Own
    <3> QED BY <1>1, <2>3, <3>1, <3>4, CloseStep
  <2> QED BY <2>4, <2>5
<1> QED BY <1>2, <1>3

LEMMA IdleQuiet ==
    ASSUME NEW e, call[e].pieces = <<>>, call[e].op # "text"
    PROVE  QuietCall(e, Idle)
<1>1. FlattenSeq(Idle.pieces) = FlattenSeq(call[e].pieces)
  BY ONLY IdleIs, call[e].pieces = <<>>
<1>2. Len(Idle.part) + Idle.left < LengthModulus /\ Idle.op # "text"
  BY ONLY IdleIs
<1> QED BY ONLY <1>1, <1>2, IdleIs, call[e].op # "text" DEF QuietCall

(* A call of an end that works on its connection.                          *)
LEMMA Working ==
    ASSUME IInv, NEW e \in Ends, call[e].op \notin {"idle", "dead"} \/ Open(e)
    PROVE  /\ Conn(e) > 0 /\ Conn(e) \in DOMAIN chan /\ Link(e) = chan[Conn(e)]
           /\ Link(e) \in Channel /\ Link(e).fd[e] = "open"
           /\ \A a \in Ends : Len(Link(e).wire[a]) <= Room
           /\ call[e].op \notin {"write", "writev"} => call[e].pieces = <<>>
           /\ obj[e] \in Object /\ call[e] \in Call /\ CallOf(call[e])
           /\ Len(call[e].part) + call[e].left < LengthModulus
           /\ obj \in [Ends -> Object] /\ call \in [Ends -> Call] /\ chan \in Seq(Channel)
<1>1. Conn(e) > 0
  BY DEF IInv, CallsInv, Open
<1>2. Conn(e) \in DOMAIN chan /\ chan[Conn(e)].fd[e] = "open"
  BY <1>1 DEF IInv, CallsInv
<1>3. CallOf(call[e])
  BY DEF IInv, CallsInv, CallOf
<1>4. obj \in [Ends -> Object] /\ call \in [Ends -> Call] /\ chan \in Seq(Channel)
  BY DEF IInv, StreamsTypeOK
<1> QED BY <1>1, <1>2, <1>3, <1>4, LinkIs DEF Link, CallOf

LEMMA HandshakeStep ==
    ASSUME IInv, NEW e \in Ends, Handshake(e) PROVE IInv'
<1>1. call[e].op = "handshake" /\ Does(e, "idle") /\ UNCHANGED <<kind, acceptor, waiting>>
  BY DEF Handshake
<1>2. PICK x \in KtlsOutcomes(e) :
        /\ obj' = [obj EXCEPT ![e].ssl = "live", ![e].ktls = x.ktls]
        /\ chan' = [chan EXCEPT ![Conn(e)].up = @ \cup {e}, ![Conn(e)].keys[e] = x.keys]
  BY DEF Handshake
<1>3. x.ktls \in BOOLEAN /\ x.keys \in {"own", "client's", "twice"}
  <2>1. \/ x = [ktls |-> FALSE, keys |-> "own"]
        \/ x = [ktls |-> TRUE, keys |-> "own"]
        \/ x = [ktls |-> TRUE, keys |-> "client's"]
        \/ x = [ktls |-> FALSE, keys |-> "twice"]
    <3>1. CASE e \in Ktls
      <4>1. PICK keys : keys = IF e = "client" THEN "own" ELSE "client's"
        OBVIOUS
      <4>2. KtlsOutcomes(e) = {[ktls |-> FALSE, keys |-> "own"]} \cup
                              {[ktls |-> TRUE, keys |-> keys], [ktls |-> FALSE, keys |-> "twice"]}
        BY ONLY <3>1, <4>1, Zenon DEF KtlsOutcomes
      <4>3. keys = "own" \/ keys = "client's"
        BY ONLY <4>1
      <4> QED BY ONLY x \in KtlsOutcomes(e), <4>2, <4>3, Zenon
    <3>2. CASE e \notin Ktls
      <4>1. KtlsOutcomes(e) = {[ktls |-> FALSE, keys |-> "own"]}
        <5>1. KtlsOutcomes(e) = {[ktls |-> FALSE, keys |-> "own"]} \cup {}
          BY ONLY <3>2, Zenon DEF KtlsOutcomes
        <5> QED BY ONLY <5>1
      <4> QED BY ONLY x \in KtlsOutcomes(e), <4>1, Zenon
    <3> QED BY <3>1, <3>2
  <2>2. CASE x = [ktls |-> FALSE, keys |-> "own"]
    BY ONLY <2>2
  <2>3. CASE x = [ktls |-> TRUE, keys |-> "own"]
    BY ONLY <2>3
  <2>4. CASE x = [ktls |-> TRUE, keys |-> "client's"]
    BY ONLY <2>4
  <2>5. CASE x = [ktls |-> FALSE, keys |-> "twice"]
    BY ONLY <2>5
  <2> QED BY ONLY <2>1, <2>2, <2>3, <2>4, <2>5
<1>4. /\ Conn(e) > 0 /\ Conn(e) \in DOMAIN chan /\ Link(e) = chan[Conn(e)] /\ Link(e) \in Channel
      /\ call[e].pieces = <<>> /\ obj[e] \in Object
      /\ obj \in [Ends -> Object] /\ call \in [Ends -> Call] /\ chan \in Seq(Channel)
  BY <1>1, Working
<1>5. PICK c, ob : /\ c = [Link(e) EXCEPT !.up = @ \cup {e}, !.keys[e] = x.keys]
                   /\ ob = [obj[e] EXCEPT !.ssl = "live", !.ktls = x.ktls]
  OBVIOUS
<1>6. /\ c \in Channel /\ c.sent = Link(e).sent /\ c.got = Link(e).got /\ c.wire = Link(e).wire
      /\ c.fd = Link(e).fd /\ c.torn = Link(e).torn
  BY ONLY <1>3, <1>4, <1>5, e \in Ends DEF Channel
<1>7. ob \in Object /\ ob.conn = Conn(e)
  BY ONLY <1>3, <1>4, <1>5 DEF Object, Conn
<1>8. Own(e, c, ob, Idle)
  <2>1. chan' = [chan EXCEPT ![Conn(e)] = c]
    BY ONLY <1>2, <1>4, <1>5
  <2>2. obj' = [obj EXCEPT ![e] = ob]
    BY ONLY <1>2, <1>4, <1>5
  <2>3. call' = [call EXCEPT ![e] = Idle]
    <3>1. [Idle EXCEPT !.op = "idle"] = Idle
      BY DEF Idle
    <3> QED BY <1>1, <3>1 DEF Does
  <2> QED BY <1>1, <2>1, <2>2, <2>3 DEF Own
<1>9. QuietCall(e, Idle)
  BY <1>1, <1>4, IdleQuiet
<1> QED BY ONLY IInv, e \in Ends, <1>4, <1>6, <1>7, <1>8, <1>9, QuietStep

(* A call throws.                                                          *)
LEMMA ThrowStep ==
    ASSUME IInv, NEW e \in Ends, call[e].op \notin {"idle", "dead"}, Throws(e),
           UNCHANGED <<kind, acceptor, waiting>>, NEW ob \in Object,
           obj' = [obj EXCEPT ![e] = ob], ob.conn = Conn(e)
    PROVE  IInv'
<1>1. PICK c : c = [Link(e) EXCEPT !.torn = TRUE]
  OBVIOUS
<1>2. /\ Conn(e) > 0 /\ Conn(e) \in DOMAIN chan /\ Link(e) = chan[Conn(e)] /\ Link(e) \in Channel
      /\ Link(e).fd[e] = "open" /\ chan \in Seq(Channel)
      /\ \A a \in Ends : Len(Link(e).wire[a]) <= Room
  BY Working
<1>3. /\ c \in Channel /\ c.sent = Link(e).sent /\ c.got = Link(e).got /\ c.wire = Link(e).wire
      /\ c.fd = Link(e).fd /\ c.torn = TRUE
  BY ONLY <1>1, <1>2 DEF Channel
<1>4. ChannelOf(e, c)
  BY ONLY <1>2, <1>3 DEF ChannelOf
<1>5. ConnOf(e, c, ob, Idle)
  BY ONLY <1>2, <1>3, IdleIs, ob.conn = Conn(e) DEF ConnOf
<1>6. Own(e, c, ob, Idle)
  <2>1. [Idle EXCEPT !.op = "idle"] = Idle
    BY DEF Idle
  <2>2. chan' = [chan EXCEPT ![Conn(e)] = c]
    BY <1>1, <1>2 DEF Throws
  <2> QED BY <2>1, <2>2 DEF Own, Throws, Does
<1>7. Len(Idle.part) + Idle.left < LengthModulus /\ Idle \in Call /\ CallOf(Idle)
  BY ONLY IdleIs
<1>8. c.torn \/ (Writing(e, c, ob, Idle) /\ Reading(e, c, ob, Idle))
  BY <1>3
<1> QED BY ONLY IInv, e \in Ends, ob \in Object, <1>2, <1>4, <1>5, <1>6, <1>7, <1>8, OwnStep

LEMMA SameObject ==
    ASSUME IInv, NEW e \in Ends
    PROVE  /\ obj[e] \in Object /\ obj[e].conn = Conn(e)
           /\ obj' = obj => obj' = [obj EXCEPT ![e] = obj[e]]
           /\ chan' = chan => chan' = [chan EXCEPT ![Conn(e)] = Link(e)]
<1>1. obj \in [Ends -> Object] /\ chan \in Seq(Channel)
  BY DEF IInv, StreamsTypeOK
<1> QED BY <1>1 DEF Conn, Link

(* A handshake fails, and the server's descriptor is lost with it.         *)
LEMMA HandshakeFailsStep ==
    ASSUME IInv, NEW e \in Ends, HandshakeFails(e) PROVE IInv'
<1>1. /\ call[e].op = "handshake" /\ Does(e, "idle") /\ UNCHANGED <<kind, acceptor, waiting>>
      /\ chan' = [chan EXCEPT ![Conn(e)].torn = TRUE,
                              ![Conn(e)].fd[e] = IF e = "server" THEN "leaked" ELSE @]
      /\ obj' = [obj EXCEPT ![e] = IF e = "server" THEN NoObject ELSE [@ EXCEPT !.ssl = "live"]]
  BY DEF HandshakeFails
<1>2. /\ Conn(e) > 0 /\ Conn(e) \in DOMAIN chan /\ Link(e) = chan[Conn(e)] /\ Link(e) \in Channel
      /\ Link(e).fd[e] = "open" /\ chan \in Seq(Channel) /\ obj[e] \in Object
      /\ obj \in [Ends -> Object] /\ \A a \in Ends : Len(Link(e).wire[a]) <= Room
  BY <1>1, Working
<1>3. PICK f, c, ob : /\ f = (IF e = "server" THEN "leaked" ELSE Link(e).fd[e])
                      /\ c = [Link(e) EXCEPT !.torn = TRUE, !.fd[e] = f]
                      /\ ob = IF e = "server" THEN NoObject ELSE [obj[e] EXCEPT !.ssl = "live"]
  OBVIOUS
<1>4. f \in {"open", "leaked"} /\ (f = "open" \/ e = "server") /\ (e = "server" => f = "leaked")
  BY ONLY <1>2, <1>3
<1>5. /\ c \in Channel /\ c.sent = Link(e).sent /\ c.got = Link(e).got /\ c.wire = Link(e).wire
      /\ c.fd[e] = f /\ c.torn = TRUE /\ \A a \in Ends : a # e => c.fd[a] = Link(e).fd[a]
  BY ONLY <1>2, <1>3, <1>4, e \in Ends DEF Channel
<1>6. ob \in Object /\ ob.conn = IF e = "server" THEN 0 ELSE Conn(e)
  BY <1>2, <1>3, IdleIs DEF Object, Conn
<1>7. ChannelOf(e, c)
  <2>1. Other(e) \in Ends /\ Other(e) # e
    BY TwoEnds
  <2> QED BY ONLY <1>2, <1>5, <2>1 DEF ChannelOf
<1>8. ConnOf(e, c, ob, Idle)
  BY ONLY <1>4, <1>5, <1>6, IdleIs DEF ConnOf
<1>9. Own(e, c, ob, Idle)
  <2>1. [Idle EXCEPT !.op = "idle"] = Idle
    BY DEF Idle
  <2>2. chan' = [chan EXCEPT ![Conn(e)] = c]
    BY ONLY <1>1, <1>2, <1>3, e \in Ends DEF Channel
  <2>3. obj' = [obj EXCEPT ![e] = ob]
    BY ONLY <1>1, <1>2, <1>3
  <2> QED BY <1>1, <2>1, <2>2, <2>3 DEF Own, Does
<1>10. Len(Idle.part) + Idle.left < LengthModulus /\ Idle \in Call /\ CallOf(Idle)
  BY ONLY IdleIs
<1>11. c.torn \/ (Writing(e, c, ob, Idle) /\ Reading(e, c, ob, Idle))
  BY <1>5
<1> QED BY ONLY IInv, e \in Ends, <1>2, <1>6, <1>7, <1>8, <1>9, <1>10, <1>11, OwnStep

LEMMA SendFailsStep ==
    ASSUME IInv, NEW e \in Ends, SendFails(e) PROVE IInv'
<1>1. call[e].op \in {"write", "writev"} /\ Throws(e) /\ UNCHANGED <<kind, acceptor, waiting, obj>>
  BY DEF SendFails, Writes
<1>2. call[e].op \notin {"idle", "dead"} /\ obj' = obj
  BY <1>1
<1> QED BY <1>1, <1>2, SameObject, ThrowStep

LEMMA RecvFailsStep ==
    ASSUME IInv, NEW e \in Ends, RecvFails(e) PROVE IInv'
<1>1. call[e].op \in {"length", "text", "in"} /\ Throws(e) /\ UNCHANGED <<kind, acceptor, waiting, obj>>
  BY DEF RecvFails, IsReading
<1>2. call[e].op \notin {"idle", "dead"} /\ obj' = obj
  BY <1>1
<1> QED BY <1>1, <1>2, SameObject, ThrowStep

(* A call of which the channel hears nothing.                              *)
LEMMA CallStepOnly ==
    ASSUME IInv, NEW e \in Ends, call[e].op \notin {"idle", "dead"} \/ Open(e),
           NEW k, QuietCall(e, k), call' = [call EXCEPT ![e] = k],
           UNCHANGED <<kind, acceptor, waiting, chan, obj>>
    PROVE  IInv'
<1>1. Conn(e) > 0 /\ Link(e) \in Channel
  BY Working
<1>2. /\ obj[e] \in Object /\ obj[e].conn = Conn(e)
      /\ obj' = [obj EXCEPT ![e] = obj[e]] /\ chan' = [chan EXCEPT ![Conn(e)] = Link(e)]
  BY SameObject
<1>3. Own(e, Link(e), obj[e], k)
  BY <1>2 DEF Own
<1>4. PICK c, ob : c = Link(e) /\ ob = obj[e]
  OBVIOUS
<1>5. /\ c \in Channel /\ c.sent = Link(e).sent /\ c.got = Link(e).got /\ c.wire = Link(e).wire
      /\ c.fd = Link(e).fd /\ c.torn = Link(e).torn /\ ob \in Object /\ ob.conn = Conn(e)
      /\ Own(e, c, ob, k)
  BY ONLY <1>1, <1>2, <1>3, <1>4
<1> QED BY ONLY IInv, e \in Ends, <1>1, <1>5, QuietCall(e, k), QuietStep

LEMMA WriteEndsStep ==
    ASSUME IInv, NEW e \in Ends, WriteEnds(e) PROVE IInv'
<1>1. /\ call[e].op \in {"write", "writev"} /\ call[e].pieces = <<>>
      /\ UNCHANGED <<kind, acceptor, waiting, chan, obj>> /\ Does(e, "idle")
  BY DEF WriteEnds
<1>2. QuietCall(e, Idle)
  <2>1. call[e].op # "text"
    BY <1>1
  <2> QED BY ONLY <1>1, <2>1, IdleQuiet
<1>3. call' = [call EXCEPT ![e] = Idle]
  <2>1. [Idle EXCEPT !.op = "idle"] = Idle
    BY DEF Idle
  <2> QED BY <1>1, <2>1 DEF Does
<1>4. call[e].op \notin {"idle", "dead"}
  BY <1>1
<1> QED BY ONLY IInv, e \in Ends, <1>1, <1>2, <1>3, <1>4, CallStepOnly

LEMMA StreamInEndsStep ==
    ASSUME IInv, NEW e \in Ends, StreamInEnds(e) PROVE IInv'
<1>1. /\ call[e].op = "in" /\ UNCHANGED <<kind, acceptor, waiting, chan, obj>> /\ Does(e, "idle")
  BY DEF StreamInEnds
<1>4. call[e].op \notin {"idle", "dead"}
  BY <1>1
<1>2. QuietCall(e, Idle)
  <2>1. call[e].op # "text" /\ call[e].pieces = <<>>
    BY <1>1, <1>4, Working
  <2> QED BY ONLY <2>1, IdleQuiet
<1>3. call' = [call EXCEPT ![e] = Idle]
  <2>1. [Idle EXCEPT !.op = "idle"] = Idle
    BY DEF Idle
  <2> QED BY <1>1, <2>1 DEF Does
<1> QED BY ONLY IInv, e \in Ends, <1>1, <1>2, <1>3, <1>4, CallStepOnly

(* A call that waits for its first byte.                                   *)
LEMMA FirstByte ==
    ASSUME IInv, NEW e \in Ends, Free(e), Open(e), NEW op \in {"length", "in"},
           call' = [call EXCEPT ![e] = [Idle EXCEPT !.op = op, !.left = 1]],
           UNCHANGED <<kind, acceptor, waiting, chan, obj>>
    PROVE  IInv'
<1>1. PICK k : k = [Idle EXCEPT !.op = op, !.left = 1]
  OBVIOUS
<1>2. k.op = op /\ k.left = 1 /\ k.part = <<>> /\ k.pieces = <<>>
  BY <1>1 DEF Idle
<1>3. k \in Call
  <2>1. k = [op |-> op, pieces |-> <<>>, left |-> 1, part |-> <<>>]
    BY <1>1 DEF Idle
  <2>2. op \in {"idle", "handshake", "write", "writev", "length", "text", "in", "dead"}
    BY ONLY op \in {"length", "in"}
  <2>3. PICK none : none = <<>> /\ none \in Seq(Seq(Octet)) /\ none \in Seq(Octet)
    BY EmptySeq
  <2> QED BY ONLY <2>1, <2>2, <2>3 DEF Call
<1>4. Len(k.part) + k.left < LengthModulus /\ Len(k.pieces) <= 2
  <2>1. Len(k.part) = 0 /\ Len(k.pieces) = 0
    BY ONLY <1>2
  <2>2. LengthModulus \in Nat \ {0, 1}
    BY StreamAssumption
  <2> QED BY ONLY <1>2, <2>1, <2>2
<1>5. CallOf(k)
  BY ONLY <1>2, <1>4 DEF CallOf
<1>6. call[e].op = "idle" /\ call[e].pieces = <<>>
  BY Working DEF Free
<1>7. FlattenSeq(k.pieces) = FlattenSeq(call[e].pieces)
  BY ONLY <1>2, <1>6
<1>8. QuietCall(e, k)
  <2>1. k.op # "text" /\ call[e].op # "text"
    BY ONLY <1>2, <1>6, op \in {"length", "in"}
  <2> QED BY ONLY <1>3, <1>4, <1>5, <1>7, <2>1 DEF QuietCall
<1>9. call' = [call EXCEPT ![e] = k]
  BY <1>1
<1> QED BY ONLY IInv, e \in Ends, Open(e), <1>8, <1>9, CallStepOnly,
            UNCHANGED <<kind, acceptor, waiting, chan, obj>>

LEMMA ReadStringStep ==
    ASSUME IInv, NEW e \in Ends, ReadString(e) PROVE IInv'
    BY FirstByte DEF ReadString, Ready

LEMMA StreamInStep ==
    ASSUME IInv, NEW e \in Ends, StreamIn(e) PROVE IInv'
<1>1. CASE kind = "tcp"
  BY <1>1, DiesStep DEF StreamIn
<1>2. CASE kind # "tcp"
  BY <1>2, FirstByte DEF StreamIn, Ready
<1> QED BY <1>1, <1>2

(* Of pieces of which the first is empty, it can be left out.              *)
LEMMA NothingFirst ==
    ASSUME NEW pieces \in Seq(Seq(Octet)), Len(pieces) <= 2, pieces # <<>>,
           Head(pieces) = <<>> \/ FlattenSeq(pieces) = <<>>
    PROVE  /\ Tail(pieces) \in Seq(Seq(Octet)) /\ Len(Tail(pieces)) <= 2
           /\ FlattenSeq(Tail(pieces)) = FlattenSeq(pieces)
<1> DEFINE Goal == /\ Tail(pieces) \in Seq(Seq(Octet)) /\ Len(Tail(pieces)) <= 2
                   /\ FlattenSeq(Tail(pieces)) = FlattenSeq(pieces)
<1>0. PICK S : S = Seq(Octet)
  OBVIOUS
<1>b. FlattenSeq(<<>>) = <<>> /\ \A x \in Seq(Octet) : FlattenSeq(<<x>>) = x
  <2>1. \A x, y \in Seq(Octet) : FlattenSeq(<<>>) = <<>> /\ FlattenSeq(<<x>>) = x
    BY ONLY Flattened, Zenon
  <2>2. PICK y : y \in Seq(Octet)
    BY EmptySeq
  <2> QED BY ONLY <2>1, <2>2, Zenon
<1>1. ASSUME NEW p \in Seq(Octet), pieces = <<p>> PROVE Goal
  <2>1. Head(pieces) = p
    BY ONLY <1>1
  <2>2. Tail(pieces) = <<>>
    BY ONLY <1>1
  <2>3. FlattenSeq(pieces) = p
    BY ONLY <1>1, <1>b
  <2>4. p = <<>>
    BY ONLY <2>1, <2>3, Head(pieces) = <<>> \/ FlattenSeq(pieces) = <<>>
  <2>5. <<>> \in Seq(S) /\ Len(<<>>) <= 2
    OBVIOUS
  <2> QED BY ONLY <1>0, <1>b, <2>2, <2>3, <2>4, <2>5
<1>2. ASSUME NEW p \in Seq(Octet), NEW q \in Seq(Octet), pieces = <<p, q>> PROVE Goal
  <2>1. Head(pieces) = p
    BY ONLY <1>2
  <2>2. Tail(pieces) = <<q>>
    BY ONLY <1>2
  <2>3. FlattenSeq(pieces) = p \o q
    BY ONLY <1>2, Flattened
  <2>4. <<q>> \in Seq(S) /\ Len(<<q>>) <= 2
    BY ONLY <1>0, <1>2
  <2>5. FlattenSeq(<<q>>) = q
    BY ONLY <1>b, <1>2, Zenon
  <2>6. p \o q = q
    <3>1. CASE p = <<>>
      <4>1. <<>> \o q = q
        BY ONLY <1>2, ConcatEmptySeq
      <4> QED BY ONLY <3>1, <4>1
    <3>2. CASE p # <<>>
      <4>1. PICK f : f = p \o q
        OBVIOUS
      <4>2. f = <<>>
        BY ONLY <2>1, <2>3, <3>2, <4>1, Head(pieces) = <<>> \/ FlattenSeq(pieces) = <<>>
      <4>3. Joined(f, p, q)
        BY ONLY <1>2, <4>1, Join
      <4>4. Len(f) = Len(p) + Len(q) /\ Len(p) \in Nat /\ Len(q) \in Nat
        BY ONLY <4>3, Zenon DEF Joined
      <4>5. Len(f) = 0
        BY ONLY <4>2
      <4>6. Len(p) = 0
        <5>1. PICK a, b : a = Len(p) /\ b = Len(q)
          OBVIOUS
        <5>2. a \in Nat /\ b \in Nat /\ a + b = 0
          BY ONLY <4>4, <4>5, <5>1
        <5>3. a = 0
          BY ONLY <5>2
        <5> QED BY ONLY <5>1, <5>3
      <4>7. p = <<>>
        BY ONLY <4>6, <1>2, EmptySeq
      <4> QED BY ONLY <3>2, <4>7
    <3> QED BY <3>1, <3>2
  <2> QED BY ONLY <1>0, <2>2, <2>3, <2>4, <2>5, <2>6
<1> HIDE DEF Goal
<1>3. Goal
  BY ONLY <1>1, <1>2, PiecesAre, pieces \in Seq(Seq(Octet)), Len(pieces) <= 2, pieces # <<>>
<1> QED BY <1>3 DEF Goal

LEMMA WriteNothingStep ==
    ASSUME IInv, NEW e \in Ends, WriteNothing(e) PROVE IInv'
<1>1. CASE kind = "tls"
  BY <1>1, DiesStep DEF WriteNothing
<1>2. CASE kind # "tls"
  <2>1. /\ call[e].op \in {"write", "writev"} /\ call[e].pieces # <<>> /\ Current(e) = <<>>
        /\ call' = [call EXCEPT ![e].pieces = Tail(@)] /\ UNCHANGED <<kind, acceptor, waiting, chan, obj>>
    BY <1>2 DEF WriteNothing, Writes
  <2>2. /\ call[e] \in Call /\ CallOf(call[e]) /\ call \in [Ends -> Call]
        /\ Len(call[e].part) + call[e].left < LengthModulus
    <3>1. call[e].op \notin {"idle", "dead"}
      BY <2>1
    <3> QED BY <3>1, Working
  <2>3. PICK k, rest : k = [call[e] EXCEPT !.pieces = rest] /\ rest = Tail(call[e].pieces)
    OBVIOUS
  <2>4. call[e].pieces \in Seq(Seq(Octet)) /\ Len(call[e].pieces) <= 2
    BY ONLY <2>2 DEF Call, CallOf
  <2>5. Head(call[e].pieces) = <<>> \/ FlattenSeq(call[e].pieces) = <<>>
    BY <2>1 DEF Current
  <2>6. /\ rest \in Seq(Seq(Octet)) /\ Len(rest) <= 2
        /\ FlattenSeq(rest) = FlattenSeq(call[e].pieces)
    BY ONLY <2>1, <2>3, <2>4, <2>5, NothingFirst
  <2>7. /\ k.op = call[e].op /\ k.pieces = rest /\ k.left = call[e].left /\ k.part = call[e].part
        /\ k \in Call
    BY ONLY <2>2, <2>3, <2>6 DEF Call
  <2>8. QuietCall(e, k)
    <3>1. CallOf(k)
      BY ONLY <2>1, <2>6, <2>7 DEF CallOf
    <3> QED BY ONLY <2>2, <2>6, <2>7, <3>1 DEF QuietCall
  <2>9. call' = [call EXCEPT ![e] = k] /\ call[e].op \notin {"idle", "dead"}
    BY ONLY <2>1, <2>2, <2>3, e \in Ends
  <2> QED BY ONLY IInv, e \in Ends, <2>1, <2>8, <2>9, CallStepOnly
<1> QED BY <1>1, <1>2
-----------------------------------------------------------------------------
(* What the invariant says of both directions, before such a step.         *)
LEMMA Before ==
    ASSUME IInv, NEW e \in Ends, Conn(e) > 0, ~ Link(e).torn
    PROVE  Writing(e, Link(e), obj[e], call[e]) /\ Reading(e, Link(e), obj[e], call[e])
<1>1. PICK c, ob, k : c = Link(e) /\ ob = obj[e] /\ k = call[e]
  OBVIOUS
<1>2. ob.conn = Conn(e)
  BY <1>1 DEF Conn
<1>3. Writing(e, c, ob, k) /\ Reading(e, c, ob, k)
  BY ONLY IInv, e \in Ends, Conn(e) > 0, ~ Link(e).torn, <1>1, <1>2, SameStrings
<1> QED BY ONLY <1>1, <1>3

(* The two directions, with names for what they depend on.                 *)
LEMMA WritingIs ==
    ASSUME NEW e, NEW c, NEW ob, NEW k, NEW o, o = Other(e), ob.conn = Conn(e)
    PROVE  \A live, pend, text, part, left :
             (/\ live \in BOOLEAN /\ (live <=> c.fd[o] # "closed") /\ pend = FlattenSeq(k.pieces)
              /\ text = (Conn(o) = Conn(e) /\ call[o].op = "text")
              /\ part = call[o].part /\ left = call[o].left)
             => (Writing(e, c, ob, k) <=>
                    Carried(c.sent[e], c.got[o], c.wire[o], live, pend, text, part, left))
<1> SUFFICES ASSUME NEW live \in BOOLEAN, live <=> c.fd[o] # "closed", NEW pend, pend = FlattenSeq(k.pieces),
                    NEW text, text = (Conn(o) = Conn(e) /\ call[o].op = "text"),
                    NEW part, part = call[o].part, NEW left, left = call[o].left
             PROVE  Writing(e, c, ob, k) <=>
                        Carried(c.sent[e], c.got[o], c.wire[o], live, pend, text, part, left)
  OBVIOUS
<1>1. (ob.conn = Conn(e) /\ c.fd[o] # "closed") = live
  BY ONLY live \in BOOLEAN, live <=> c.fd[o] # "closed", ob.conn = Conn(e)
<1> QED BY <1>1 DEF Writing

LEMMA ReadingIs ==
    ASSUME NEW e, NEW c, NEW ob, NEW k, NEW o, o = Other(e), ob.conn = Conn(e)
    PROVE  \A live, pend, text, part, left :
             (/\ text \in BOOLEAN /\ (text <=> k.op = "text") /\ pend = Pending(o)
              /\ live = (Conn(o) = Conn(e) /\ c.fd[e] # "closed")
              /\ part = k.part /\ left = k.left)
             => (Reading(e, c, ob, k) <=>
                    Carried(c.sent[o], c.got[e], c.wire[e], live, pend, text, part, left))
<1> SUFFICES ASSUME NEW text \in BOOLEAN, text <=> k.op = "text", NEW pend, pend = Pending(o),
                    NEW live, live = (Conn(o) = Conn(e) /\ c.fd[e] # "closed"),
                    NEW part, part = k.part, NEW left, left = k.left
             PROVE  Reading(e, c, ob, k) <=>
                        Carried(c.sent[o], c.got[e], c.wire[e], live, pend, text, part, left)
  OBVIOUS
<1>1. (ob.conn = Conn(e) /\ k.op = "text") = text
  BY ONLY text \in BOOLEAN, text <=> k.op = "text", ob.conn = Conn(e)
<1> QED BY <1>1 DEF Reading

(* One direction of a channel, when a step changes only the other.         *)
LEMMA WritingSame ==
    ASSUME NEW e, NEW c, NEW ob, NEW k, ob.conn = Conn(e),
           Writing(e, Link(e), obj[e], call[e]),
           c.sent[e] = Link(e).sent[e], c.got[Other(e)] = Link(e).got[Other(e)],
           c.wire[Other(e)] = Link(e).wire[Other(e)], c.fd[Other(e)] = Link(e).fd[Other(e)],
           FlattenSeq(k.pieces) = FlattenSeq(call[e].pieces)
    PROVE  Writing(e, c, ob, k)
<1>1. obj[e].conn = Conn(e)
  BY DEF Conn
<1> QED BY <1>1 DEF Writing

LEMMA ReadingSame ==
    ASSUME NEW e, NEW c, NEW ob, NEW k, ob.conn = Conn(e),
           Reading(e, Link(e), obj[e], call[e]),
           c.sent[Other(e)] = Link(e).sent[Other(e)], c.got[e] = Link(e).got[e],
           c.wire[e] = Link(e).wire[e], c.fd[e] = Link(e).fd[e],
           k.op # "text", call[e].op # "text"
    PROVE  Reading(e, c, ob, k)
<1>1. PICK o, none : o = Other(e) /\ none \in BOOLEAN /\ ~ none
  OBVIOUS
<1>2. PICK live, pend, part, left, part2, left2 :
        /\ pend = Pending(o) /\ live = (Conn(o) = Conn(e) /\ c.fd[e] # "closed")
        /\ part = call[e].part /\ left = call[e].left /\ part2 = k.part /\ left2 = k.left
  OBVIOUS
<1>3. PICK sent, got, wire : sent = c.sent[o] /\ got = c.got[e] /\ wire = c.wire[e]
  OBVIOUS
<1>4. Carried(sent, got, wire, live, pend, none, part, left)
  <2>1. obj[e].conn = Conn(e)
    BY DEF Conn
  <2>2. none <=> call[e].op = "text"
    BY <1>1
  <2>3. live = (Conn(o) = Conn(e) /\ Link(e).fd[e] # "closed")
    BY <1>2
  <2>4. PICK b, bob, bk : b = Link(e) /\ bob = obj[e] /\ bk = call[e]
    OBVIOUS
  <2>5. Carried(b.sent[o], b.got[e], b.wire[e], live, pend, none, part, left)
    <3>1. /\ none \in BOOLEAN /\ (none <=> bk.op = "text") /\ pend = Pending(o)
          /\ live = (Conn(o) = Conn(e) /\ b.fd[e] # "closed")
          /\ part = bk.part /\ left = bk.left
      BY ONLY <1>1, <1>2, <2>2, <2>3, <2>4
    <3>2. Reading(e, b, bob, bk) /\ bob.conn = Conn(e)
      BY ONLY <2>1, <2>4, Reading(e, Link(e), obj[e], call[e])
    <3> QED BY ONLY <1>1, <3>1, <3>2, ReadingIs
  <2> QED BY <1>1, <1>3, <2>4, <2>5
<1>5. Carried(sent, got, wire, live, pend, none, part2, left2)
  <2>1. (live => live /\ pend = pend) /\ (none <=> none) /\ (none => part2 = part /\ left2 = left)
    BY <1>1
  <2> QED BY ONLY <1>4, <2>1, CarriedWeaker
<1>6. /\ none \in BOOLEAN /\ (none <=> k.op = "text") /\ pend = Pending(o)
      /\ live = (Conn(o) = Conn(e) /\ c.fd[e] # "closed")
      /\ part2 = k.part /\ left2 = k.left
  BY <1>1, <1>2
<1>7. Carried(c.sent[o], c.got[e], c.wire[e], live, pend, none, part2, left2)
  BY ONLY <1>3, <1>5
<1> QED BY ONLY <1>1, <1>6, <1>7, ob.conn = Conn(e), ReadingIs

(* The frame of a string, in one piece or two.                             *)
LEMMA FrameIs ==
    ASSUME LengthsFit, NEW n \in Lengths, NEW j \in 1 .. MaxStrings, NEW text, text = Text(j, n)
    PROVE  /\ Header(n) \in Strings /\ text \in Strings
           /\ FrameOf(Header(n) \o text, text)
<1>1. n \in Nat /\ n < LengthModulus /\ MaxStrings \in Nat /\ LengthModulus \in Nat
  BY StreamAssumption DEF LengthsFit
<1>2. n % LengthModulus = n
  BY ONLY <1>1
<1>3. PICK h : h = Header(n)
  OBVIOUS
<1>4. h = <<n>>
  BY ONLY <1>2, <1>3 DEF Header
<1>5. n \in Octet
  BY ONLY <1>1 DEF Octet
<1>6. h \in Strings /\ Len(h) = 1 /\ h[1] = n
  BY ONLY <1>4, <1>5 DEF Strings
<1>7. text = [i \in 1 .. n |-> 10 * j + i]
  BY DEF Text
<1>8. \A i \in 1 .. n : 10 * j + i \in Octet
  <2> SUFFICES ASSUME NEW i \in 1 .. n PROVE 10 * j + i \in Octet
    OBVIOUS
  <2>1. 10 * j \in Nat
    BY ONLY <1>1, j \in 1 .. MaxStrings
  <2> QED BY ONLY <1>1, <2>1, i \in 1 .. n DEF Octet
<1>9. text \in Strings /\ Len(text) = n
  <2>1. text \in [1 .. n -> Octet]
    BY ONLY <1>7, <1>8
  <2> QED BY ONLY <1>1, <2>1 DEF Strings
<1>10. PICK f : f = h \o text
  OBVIOUS
<1>11. Joined(f, h, text)
  BY ONLY <1>6, <1>9, <1>10, Join DEF Strings
<1>12. /\ f \in Strings /\ Len(f) = Len(h) + Len(text)
       /\ \A i \in 1 .. Len(h) : f[i] = h[i]
       /\ \A i \in 1 .. Len(text) : f[Len(h) + i] = text[i]
  BY ONLY <1>11, Zenon DEF Joined, Strings
<1>13. f[1] = n /\ Len(f) = 1 + Len(text) /\ \A i \in 1 .. Len(text) : f[1 + i] = text[i]
  BY ONLY <1>6, <1>12
<1>14. FrameOf(f, text)
  BY ONLY <1>1, <1>9, <1>12, <1>13 DEF FrameOf
<1> QED BY ONLY <1>3, <1>6, <1>9, <1>10, <1>14

(* A frame is about to be written: nothing was, so it is all that is.      *)
LEMMA WriteStringStep ==
    ASSUME IInv, NEW e \in Ends, WriteString(e) PROVE IInv'
<1>1. /\ Free(e) /\ Open(e) /\ Len(Link(e).sent[e]) < MaxStrings
      /\ UNCHANGED <<kind, acceptor, waiting, obj>>
  BY DEF WriteString, Ready
<1>0. PICK n \in Lengths, op \in {"write", "writev"} :
        LET text == Text(Len(Link(e).sent[e]) + 1, n)
        IN  /\ chan' = [chan EXCEPT ![Conn(e)].sent[e] = Append(@, text)]
            /\ call' = [call EXCEPT ![e] = [Idle EXCEPT !.op = op,
                    !.pieces = IF op = "writev" /\ Patient(e) THEN <<Header(n) \o text>>
                               ELSE <<Header(n), text>>]]
  BY DEF WriteString
<1>2. PICK text, gathered :
        /\ text = Text(Len(Link(e).sent[e]) + 1, n)
        /\ gathered = (op = "writev" /\ Patient(e))
        /\ chan' = [chan EXCEPT ![Conn(e)].sent[e] = Append(@, text)]
        /\ call' = [call EXCEPT ![e] = [Idle EXCEPT !.op = op,
                    !.pieces = IF op = "writev" /\ Patient(e) THEN <<Header(n) \o text>>
                               ELSE <<Header(n), text>>]]
  BY <1>0
<1>3. /\ Conn(e) > 0 /\ Conn(e) \in DOMAIN chan /\ Link(e) = chan[Conn(e)] /\ Link(e) \in Channel
      /\ \A a \in Ends : Len(Link(e).wire[a]) <= Room
      /\ call[e].op \notin {"write", "writev"} => call[e].pieces = <<>>
      /\ Link(e).fd[e] = "open" /\ chan \in Seq(Channel) /\ call \in [Ends -> Call]
  BY <1>1, Working
<1>4. PICK o : o = Other(e)
  OBVIOUS
<1>5. o \in Ends /\ o # e
  BY ONLY <1>4, TwoEnds, e \in Ends
<1>6. PICK j, frame, h : j = Len(Link(e).sent[e]) + 1 /\ h = Header(n) /\ frame = h \o text
  OBVIOUS
<1>7. j \in 1 .. MaxStrings
  <2>1. Link(e).sent[e] \in Seq(Seq(Octet))
    BY <1>3 DEF Channel
  <2>2. Len(Link(e).sent[e]) \in Nat
    BY ONLY <2>1, LenProperties
  <2> QED BY <1>1, <1>6, <2>2, StreamAssumption
<1>8. h \in Strings /\ text \in Strings /\ FrameOf(frame, text)
  <2>1. LengthsFit
    BY DEF IInv
  <2> QED BY ONLY <1>2, <1>6, <1>7, <2>1, FrameIs
<1>9. frame \in Strings
  BY ONLY <1>8 DEF FrameOf
<1>10. PICK pieces : pieces = IF gathered THEN <<frame>> ELSE <<h, text>>
  OBVIOUS
<1>11. pieces \in Seq(Seq(Octet)) /\ Len(pieces) <= 2 /\ FlattenSeq(pieces) = frame
  <2>0. PICK S : S = Seq(Octet)
    OBVIOUS
  <2>1. CASE gathered
    <3>1. pieces = <<frame>>
      BY ONLY <1>10, <2>1
    <3>2. pieces \in Seq(S) /\ Len(pieces) <= 2
      BY ONLY <3>1, <2>0, <1>9 DEF Strings
    <3>3. FlattenSeq(<<frame>>) = frame
      BY ONLY <1>8, <1>9, Flattened DEF Strings
    <3> QED BY ONLY <2>0, <3>1, <3>2, <3>3
  <2>2. CASE ~ gathered
    <3>1. pieces = <<h, text>>
      BY ONLY <1>10, <2>2
    <3>2. pieces \in Seq(S) /\ Len(pieces) <= 2
      BY ONLY <3>1, <2>0, <1>8 DEF Strings
    <3>3. FlattenSeq(<<h, text>>) = frame
      BY ONLY <1>6, <1>8, Flattened DEF Strings
    <3> QED BY ONLY <2>0, <3>1, <3>2, <3>3
  <2> QED BY <2>1, <2>2
<1>12. PICK c, ob, k : /\ c = [Link(e) EXCEPT !.sent[e] = Append(@, text)] /\ ob = obj[e]
                       /\ k = [Idle EXCEPT !.op = op, !.pieces = pieces]
  OBVIOUS
<1>13. Append(Link(e).sent[e], text) \in Seq(Seq(Octet))
  <2>1. Link(e).sent[e] \in Seq(Seq(Octet))
    BY <1>3 DEF Channel
  <2> QED BY ONLY <1>8, <2>1, AppendProperties DEF Strings
<1>14. /\ c \in Channel /\ c.sent[e] = Append(Link(e).sent[e], text) /\ c.sent[o] = Link(e).sent[o]
       /\ c.got = Link(e).got /\ c.wire = Link(e).wire /\ c.fd = Link(e).fd /\ c.torn = Link(e).torn
  BY ONLY <1>3, <1>5, <1>12, <1>13, e \in Ends DEF Channel
<1>15. k.op = op /\ k.pieces = pieces /\ k.left = 0 /\ k.part = <<>> /\ k \in Call
  <2>1. k = [op |-> op, pieces |-> pieces, left |-> 0, part |-> <<>>]
    BY ONLY <1>12 DEF Idle
  <2>2. op \in {"idle", "handshake", "write", "writev", "length", "text", "in", "dead"}
    BY ONLY op \in {"write", "writev"}
  <2>3. PICK none : none = <<>> /\ none \in Seq(Octet)
    BY EmptySeq
  <2> QED BY ONLY <1>11, <2>1, <2>2, <2>3 DEF Call
<1>16. Len(k.part) + k.left < LengthModulus /\ CallOf(k)
  <2>1. Len(k.part) = 0 /\ k.left = 0
    BY ONLY <1>15
  <2>2. LengthModulus \in Nat \ {0, 1}
    BY StreamAssumption
  <2>3. CallOf(k)
    BY ONLY <1>11, <1>15, op \in {"write", "writev"} DEF CallOf
  <2> QED BY ONLY <2>1, <2>2, <2>3
<1>17. Own(e, c, ob, k)
  <2>1. chan' = [chan EXCEPT ![Conn(e)] = c]
    BY ONLY <1>2, <1>3, <1>12
  <2>2. call' = [call EXCEPT ![e] = k]
    BY ONLY <1>2, <1>6, <1>10, <1>12
  <2>3. obj' = [obj EXCEPT ![e] = ob]
    BY <1>1, <1>12, SameObject
  <2> QED BY ONLY <1>1, <2>1, <2>2, <2>3 DEF Own
<1>18. ob \in Object /\ ob.conn = Conn(e) /\ ConnOf(e, c, ob, k)
  BY <1>3, <1>12, <1>14, SameObject DEF ConnOf
<1>19. ChannelOf(e, c)
  BY ONLY <1>3, <1>4, <1>14 DEF ChannelOf
<1>20. call[e].op = "idle" /\ call[e].pieces = <<>>
  BY <1>1, <1>3 DEF Free
<1>21. c.torn \/ (Writing(e, c, ob, k) /\ Reading(e, c, ob, k))
  <2> SUFFICES ASSUME ~ Link(e).torn PROVE Writing(e, c, ob, k) /\ Reading(e, c, ob, k)
    <3>1. CASE Link(e).torn
      BY ONLY <1>14, <3>1
    <3> QED BY <3>1
  <2>1. PICK b, bob, bk : b = Link(e) /\ bob = obj[e] /\ bk = call[e]
    OBVIOUS
  <2>2. Writing(e, b, bob, bk) /\ Reading(e, b, bob, bk) /\ bob.conn = Conn(e)
    BY <1>3, <2>1, Before DEF Conn
  <2>3. Reading(e, c, ob, k)
    <3>1. k.op # "text" /\ call[e].op # "text"
      BY ONLY <1>15, <1>20, op \in {"write", "writev"}
    <3>2. /\ c.sent[Other(e)] = Link(e).sent[Other(e)] /\ c.got[e] = Link(e).got[e]
          /\ c.wire[e] = Link(e).wire[e] /\ c.fd[e] = Link(e).fd[e]
      BY ONLY <1>4, <1>14
    <3>3. Reading(e, Link(e), obj[e], call[e])
      BY ONLY <2>1, <2>2
    <3> QED BY ONLY <1>18, <3>1, <3>2, <3>3, ReadingSame
  <2>4. PICK live, pend, told, part, left :
              /\ live \in BOOLEAN /\ (live <=> b.fd[o] # "closed") /\ pend = FlattenSeq(bk.pieces)
              /\ told = (Conn(o) = Conn(e) /\ call[o].op = "text")
              /\ part = call[o].part /\ left = call[o].left
    OBVIOUS
  <2>5. Carried(b.sent[e], b.got[o], b.wire[o], live, pend, told, part, left)
    BY ONLY <1>4, <2>2, <2>4, WritingIs
  <2>6. Len(pend) = 0
    <3>1. pend = <<>>
      BY ONLY <1>20, <2>1, <2>4, Flattened, <1>8 DEF Strings
    <3> QED BY ONLY <3>1
  <2>7. PICK sent, got, wire : sent = b.sent[e] /\ got = b.got[o] /\ wire = b.wire[o]
    OBVIOUS
  <2>8. sent \in Seq(Strings) /\ got \in Seq(Strings) /\ wire \in Strings /\ part \in Strings
    <3>1. call[o].part \in Strings /\ chan[Conn(e)].got[o] \in Seq(Strings) /\ chan[Conn(e)].wire[o] \in Strings
      BY <1>3, <1>5, LinkIs
    <3>2. chan[Conn(e)].sent[e] \in Seq(Strings)
      BY <1>3, LinkIs
    <3> QED BY ONLY <1>3, <2>1, <2>4, <2>7, <3>1, <3>2
  <2>9. Carried(sent, got, wire, live, pend, told, part, left)
    BY ONLY <2>5, <2>7
  <2>10. Carried(Append(sent, text), got, wire, live, frame, told, part, left)
    BY ONLY <1>8, <2>6, <2>8, <2>9, CarriedWritten
  <2>11. Carried(c.sent[e], c.got[o], c.wire[o], live, frame, told, part, left)
    BY ONLY <1>14, <2>1, <2>7, <2>10
  <2>12. /\ live \in BOOLEAN /\ (live <=> c.fd[o] # "closed") /\ frame = FlattenSeq(k.pieces)
         /\ told = (Conn(o) = Conn(e) /\ call[o].op = "text")
         /\ part = call[o].part /\ left = call[o].left
    BY ONLY <1>11, <1>14, <1>15, <2>1, <2>4
  <2>13. Writing(e, c, ob, k)
    BY ONLY <1>4, <1>18, <2>11, <2>12, WritingIs
  <2> QED BY ONLY <2>3, <2>13
<1> QED BY ONLY IInv, e \in Ends, <1>3, <1>15, <1>16, <1>17, <1>18, <1>19, <1>21, OwnStep

LEMMA Taken ==
    ASSUME NEW f \in Strings, NEW n \in 1 .. Len(f), NEW x, x = SubSeq(f, 1, n)
    PROVE  x \in Strings /\ Len(x) = n /\ \A i \in 1 .. n : x[i] = f[i]
<1>1. PICK m, S : m = Len(f) /\ S = Octet
  OBVIOUS
<1>2. m \in Nat
  BY ONLY <1>1, f \in Strings, LenProperties DEF Strings
<1>3. n \in Nat /\ 1 <= n /\ n <= m
  BY ONLY <1>1, <1>2, n \in 1 .. Len(f)
<1>4. x \in Seq(S) /\ Len(x) = n /\ \A i \in 1 .. n : x[i] = f[i]
  BY ONLY <1>1, <1>2, <1>3, f \in Strings, x = SubSeq(f, 1, n) DEF Strings
<1> QED BY ONLY <1>1, <1>4 DEF Strings

(* The first n bytes of what is left to write, and the rest.               *)
LEMMA SentFirst ==
    ASSUME NEW cur \in Strings, NEW n \in 1 .. Len(cur), NEW flat, NEW g, RestOf(g, flat, n),
           Len(cur) <= Len(flat), \A i \in 1 .. Len(cur) : cur[i] = flat[i],
           NEW x, x = SubSeq(cur, 1, n)
    PROVE  x \in Strings /\ Len(x) = n /\ Joined(flat, x, g)
<1>1. PICK m : m = Len(cur)
  OBVIOUS
<1>2. m \in Nat
  BY ONLY <1>1, cur \in Strings, LenProperties DEF Strings
<1>3. n \in Nat /\ 1 <= n /\ n <= m
  BY ONLY <1>1, <1>2, n \in 1 .. Len(cur)
<1>4. x \in Strings /\ Len(x) = n /\ \A i \in 1 .. n : x[i] = cur[i]
  BY ONLY cur \in Strings, n \in 1 .. Len(cur), x = SubSeq(cur, 1, n), Taken
<1>5. /\ flat \in Seq(Octet) /\ g \in Seq(Octet) /\ Len(flat) \in Nat /\ Len(g) \in Nat
      /\ n + Len(g) = Len(flat) /\ \A i \in 1 .. Len(g) : g[i] = flat[n + i]
  BY ONLY RestOf(g, flat, n) DEF RestOf
<1>6. \A i \in 1 .. n : flat[i] = x[i]
  BY ONLY <1>1, <1>2, <1>3, <1>4, \A i \in 1 .. Len(cur) : cur[i] = flat[i]
<1> QED BY ONLY <1>3, <1>4, <1>5, <1>6 DEF Joined, Strings

(* Bytes go from the writer's call to those on the way, or are lost when   *)
(* the other end has closed.                                               *)
LEMMA SendStepStep ==
    ASSUME IInv, NEW e \in Ends, SendStep(e) PROVE IInv'
<1>1. /\ call[e].op \in {"write", "writev"} /\ call[e].pieces # <<>>
      /\ UNCHANGED <<kind, acceptor, waiting, obj>>
  BY DEF SendStep, Writes
<1>2. /\ Conn(e) > 0 /\ Conn(e) \in DOMAIN chan /\ Link(e) = chan[Conn(e)] /\ Link(e) \in Channel
      /\ \A a \in Ends : Len(Link(e).wire[a]) <= Room
      /\ Link(e).fd[e] = "open" /\ chan \in Seq(Channel) /\ call \in [Ends -> Call]
      /\ call[e] \in Call /\ CallOf(call[e]) /\ Len(call[e].part) + call[e].left < LengthModulus
  <2>1. call[e].op \notin {"idle", "dead"}
    BY <1>1
  <2> QED BY <2>1, Working
<1>3. PICK o : o = Other(e)
  OBVIOUS
<1>4. o \in Ends /\ o # e /\ e = Other(o) /\ \A a \in Ends : a = e \/ a = o
  BY ONLY <1>3, TwoEnds, e \in Ends
<1>5. PICK v, pieces, cur, b, wire : /\ v = (call[e].op = "writev") /\ pieces = call[e].pieces
                                     /\ cur = Current(e) /\ b = Link(e) /\ wire = b.wire[o]
  OBVIOUS
<1>6. cur = IF v THEN FlattenSeq(pieces) ELSE Head(pieces)
  BY ONLY <1>5 DEF Current
<1>7. \E n \in 1 .. Lesser(Len(Current(e)), Space(e)) :
        /\ chan' = [chan EXCEPT ![Conn(e)].wire[Other(e)] =
                        IF Peer(e) = "closed" THEN <<>> ELSE @ \o SubSeq(Current(e), 1, n)]
        /\ call' = [call EXCEPT ![e].op = "write", ![e].pieces =
                        Skip(IF call[e].op = "writev" THEN @ ELSE <<Head(@)>>, n) \o
                        (IF call[e].op = "writev" THEN <<>> ELSE Tail(@))]
  BY DEF SendStep
<1>8. PICK n \in 1 .. Lesser(Len(cur), Space(e)) :
        /\ chan' = [chan EXCEPT ![Conn(e)].wire[Other(e)] =
                        IF Peer(e) = "closed" THEN <<>> ELSE @ \o SubSeq(cur, 1, n)]
        /\ call' = [call EXCEPT ![e].op = "write", ![e].pieces =
                        Skip(IF call[e].op = "writev" THEN @ ELSE <<Head(@)>>, n) \o
                        (IF call[e].op = "writev" THEN <<>> ELSE Tail(@))]
  BY ONLY <1>5, <1>7
<1>9. pieces \in Seq(Seq(Octet)) /\ Len(pieces) <= 2 /\ pieces # <<>> /\ v \in BOOLEAN
  BY ONLY <1>1, <1>2, <1>5 DEF Call, CallOf
<1>10. cur \in Strings
  <2>1. FlattenSeq(pieces) \in Strings /\ Head(pieces) \in Strings
    <3>1. CASE \E p \in Seq(Octet) : pieces = <<p>>
      <4>1. PICK p \in Seq(Octet) : pieces = <<p>>
        BY ONLY <3>1
      <4>2. FlattenSeq(<<p>>) = p
        BY ONLY <4>1, Flattened
      <4>3. Head(<<p>>) = p
        OBVIOUS
      <4> QED BY ONLY <4>1, <4>2, <4>3, Zenon DEF Strings
    <3>2. CASE \E p, q \in Seq(Octet) : pieces = <<p, q>>
      <4>1. PICK p \in Seq(Octet), q \in Seq(Octet) : pieces = <<p, q>>
        BY ONLY <3>2
      <4>2. FlattenSeq(<<p, q>>) = p \o q
        BY ONLY <4>1, Flattened
      <4>3. Head(<<p, q>>) = p
        OBVIOUS
      <4>4. PICK j : j = p \o q
        OBVIOUS
      <4>5. Joined(j, p, q)
        BY ONLY <4>1, <4>4, Join
      <4> QED BY ONLY <4>1, <4>2, <4>3, <4>4, <4>5, Zenon DEF Strings, Joined
    <3> QED BY ONLY <1>9, <3>1, <3>2, PiecesAre
  <2> QED BY ONLY <1>6, <2>1
<1>11. wire \in Strings /\ Len(wire) \in Nat /\ Len(wire) <= Room /\ Room \in Nat /\ b \in Channel
  <2>1. wire \in Seq(Octet)
    BY ONLY <1>2, <1>4, <1>5 DEF Channel
  <2> QED BY ONLY <1>2, <1>4, <1>5, <2>1, LenProperties, StreamAssumption DEF Strings
<1>12. n \in 1 .. Len(cur) /\ n + Len(wire) <= Room
  <2>1. PICK m, s, w : m = Len(cur) /\ s = Space(e) /\ w = Len(wire)
    OBVIOUS
  <2>2. m \in Nat
    BY ONLY <1>10, <2>1, LenProperties DEF Strings
  <2>3. s = Room - w
    BY ONLY <1>2, <1>3, <1>5, <2>1 DEF Space
  <2>4. n \in 1 .. (IF m <= s THEN m ELSE s)
    BY ONLY <2>1, n \in 1 .. Lesser(Len(cur), Space(e)) DEF Lesser
  <2>5. n \in 1 .. m /\ n + w <= Room
    BY ONLY <1>11, <2>1, <2>2, <2>3, <2>4
  <2> QED BY ONLY <2>1, <2>5
<1>13. PICK rest, flat, g, x : /\ rest = Skip(IF v THEN pieces ELSE <<Head(pieces)>>, n) \o
                                         (IF v THEN <<>> ELSE Tail(pieces))
                               /\ flat = FlattenSeq(pieces) /\ g = FlattenSeq(rest)
                               /\ x = SubSeq(cur, 1, n)
  OBVIOUS
<1>14. /\ rest \in Seq(Seq(Octet)) /\ Len(rest) <= 2 /\ RestOf(g, flat, n)
       /\ Len(cur) <= Len(flat) /\ \A i \in 1 .. Len(cur) : cur[i] = flat[i]
  <2>1. /\ rest \in Seq(Seq(Octet)) /\ Len(rest) <= 2
        /\ RestOf(FlattenSeq(rest), FlattenSeq(pieces), n)
        /\ cur \in Seq(Octet) /\ Len(cur) <= Len(FlattenSeq(pieces))
        /\ \A i \in 1 .. Len(cur) : cur[i] = FlattenSeq(pieces)[i]
    BY ONLY <1>6, <1>9, <1>12, <1>13, SomeSent
  <2> QED BY ONLY <1>13, <2>1
<1>15. x \in Strings /\ Len(x) = n /\ Joined(flat, x, g)
  <2>1. n \in 1 .. Len(cur)
    BY ONLY <1>12
  <2>2. RestOf(g, flat, n)
    BY ONLY <1>14
  <2>3. Len(cur) <= Len(flat)
    BY ONLY <1>14
  <2>4. \A i \in 1 .. Len(cur) : cur[i] = flat[i]
    BY ONLY <1>14
  <2>5. x = SubSeq(cur, 1, n)
    BY ONLY <1>13
  <2> QED BY ONLY <1>10, <2>1, <2>2, <2>3, <2>4, <2>5, SentFirst
<1>16. PICK lost, w, c, ob, k :
         /\ lost = (Peer(e) = "closed") /\ w = (IF lost THEN <<>> ELSE wire \o x)
         /\ c = [b EXCEPT !.wire[o] = w] /\ ob = obj[e]
         /\ k = [call[e] EXCEPT !.op = "write", !.pieces = rest]
  OBVIOUS
<1>17. ~ lost => Joined(w, wire, x)
  <2>1. Joined(wire \o x, wire, x)
    BY ONLY <1>11, <1>15, Join DEF Strings
  <2> QED BY ONLY <1>16, <2>1
<1>18. w \in Strings /\ Len(w) <= Room
  <2>1. CASE lost
    <3>1. w = <<>>
      BY ONLY <1>16, <2>1
    <3> QED BY ONLY <1>11, <3>1, EmptySeq DEF Strings
  <2>2. CASE ~ lost
    <3>1. w \in Strings /\ Len(w) = Len(wire) + Len(x)
      BY ONLY <1>17, <2>2, Zenon DEF Joined, Strings
    <3> QED BY ONLY <1>11, <1>12, <1>15, <3>1
  <2> QED BY <2>1, <2>2
<1>19. /\ c \in Channel /\ c.wire[o] = w /\ c.wire[e] = b.wire[e]
       /\ c.sent = b.sent /\ c.got = b.got /\ c.fd = b.fd /\ c.torn = b.torn
  BY ONLY <1>4, <1>11, <1>16, <1>18, e \in Ends DEF Channel, Strings
<1>20. k.op = "write" /\ k.pieces = rest /\ k.left = call[e].left /\ k.part = call[e].part
       /\ k \in Call /\ CallOf(k)
  <2>1. k.op = "write" /\ k.pieces = rest /\ k.left = call[e].left /\ k.part = call[e].part
        /\ k \in Call
    <3>1. PICK P : P = Seq(Seq(Octet))
      OBVIOUS
    <3> QED BY ONLY <1>2, <1>14, <1>16, <3>1 DEF Call
  <2> QED BY ONLY <1>14, <2>1 DEF CallOf
<1>21. Own(e, c, ob, k)
  <2>1. chan' = [chan EXCEPT ![Conn(e)] = c]
    <3>1. chan' = [chan EXCEPT ![Conn(e)].wire[o] = IF lost THEN <<>> ELSE @ \o x]
      BY ONLY <1>3, <1>8, <1>13, <1>16
    <3>2. chan' = [chan EXCEPT ![Conn(e)] = [chan[Conn(e)] EXCEPT
                        !.wire[o] = IF lost THEN <<>> ELSE chan[Conn(e)].wire[o] \o x]]
      BY ONLY <1>2, <3>1
    <3> QED BY ONLY <1>2, <1>5, <1>16, <3>2
  <2>2. call' = [call EXCEPT ![e] = k]
    <3>1. call' = [call EXCEPT ![e] = [call[e] EXCEPT !.op = "write", !.pieces =
                        Skip(IF call[e].op = "writev" THEN call[e].pieces
                             ELSE <<Head(call[e].pieces)>>, n) \o
                        (IF call[e].op = "writev" THEN <<>> ELSE Tail(call[e].pieces))]]
      BY ONLY <1>2, <1>8, e \in Ends DEF Call
    <3>2. rest = Skip(IF call[e].op = "writev" THEN call[e].pieces
                      ELSE <<Head(call[e].pieces)>>, n) \o
                 (IF call[e].op = "writev" THEN <<>> ELSE Tail(call[e].pieces))
      <4>1. CASE v
        <5>1. call[e].op = "writev"
          BY ONLY <1>5, <4>1
        <5> QED BY ONLY <1>5, <1>13, <4>1, <5>1
      <4>2. CASE ~ v
        <5>1. call[e].op # "writev"
          BY ONLY <1>5, <4>2
        <5> QED BY ONLY <1>5, <1>13, <4>2, <5>1
      <4> QED BY <4>1, <4>2
    <3>3. k = [call[e] EXCEPT !.op = "write", !.pieces = rest]
      BY ONLY <1>16
    <3> QED BY ONLY <3>1, <3>2, <3>3
  <2>3. obj' = [obj EXCEPT ![e] = ob]
    BY <1>1, <1>16, SameObject
  <2> QED BY ONLY <1>1, <2>1, <2>2, <2>3 DEF Own
<1>22. ob \in Object /\ ob.conn = Conn(e) /\ ConnOf(e, c, ob, k)
  <2>1. obj[e] \in Object /\ obj[e].conn = Conn(e)
    BY SameObject
  <2>2. c.fd[e] = "open"
    BY ONLY <1>2, <1>5, <1>19
  <2> QED BY ONLY <1>16, <2>1, <2>2 DEF ConnOf
<1>23. ChannelOf(e, c)
  <2>1. \A a \in Ends : Len(c.wire[a]) <= Room
    BY ONLY <1>2, <1>4, <1>5, <1>18, <1>19, e \in Ends
  <2> QED BY ONLY <1>3, <1>5, <1>19, <2>1 DEF ChannelOf
<1>24. c.torn \/ (Writing(e, c, ob, k) /\ Reading(e, c, ob, k))
  <2> SUFFICES ASSUME ~ Link(e).torn PROVE Writing(e, c, ob, k) /\ Reading(e, c, ob, k)
    <3>1. CASE Link(e).torn
      BY ONLY <1>5, <1>19, <3>1
    <3> QED BY <3>1
  <2>1. Writing(e, Link(e), obj[e], call[e]) /\ Reading(e, Link(e), obj[e], call[e])
        /\ obj[e].conn = Conn(e)
    BY <1>2, Before, SameObject
  <2>2. Reading(e, c, ob, k)
    <3>1. k.op # "text" /\ call[e].op # "text"
      BY ONLY <1>1, <1>20
    <3>2. /\ c.sent[Other(e)] = Link(e).sent[Other(e)] /\ c.got[e] = Link(e).got[e]
          /\ c.wire[e] = Link(e).wire[e] /\ c.fd[e] = Link(e).fd[e]
      BY ONLY <1>5, <1>19
    <3> QED BY ONLY <1>22, <2>1, <3>1, <3>2, ReadingSame
  <2>3. PICK bob, bk, live, told, part, left :
              /\ bob = obj[e] /\ bk = call[e]
              /\ live \in BOOLEAN /\ (live <=> b.fd[o] # "closed")
              /\ told = (Conn(o) = Conn(e) /\ call[o].op = "text")
              /\ part = call[o].part /\ left = call[o].left
    OBVIOUS
  <2>4. Carried(b.sent[e], b.got[o], b.wire[o], live, flat, told, part, left)
    <3>1. Writing(e, b, bob, bk) /\ bob.conn = Conn(e)
      BY ONLY <1>5, <2>1, <2>3
    <3>2. flat = FlattenSeq(bk.pieces)
      BY ONLY <1>5, <1>13, <2>3
    <3> QED BY ONLY <1>3, <2>3, <3>1, <3>2, WritingIs
  <2>5. PICK sent, got : sent = b.sent[e] /\ got = b.got[o]
    OBVIOUS
  <2>6. sent \in Seq(Strings) /\ got \in Seq(Strings) /\ part \in Strings
    <3>1. call[o].part \in Strings /\ chan[Conn(e)].got[o] \in Seq(Strings)
      BY <1>2, <1>4, LinkIs
    <3>2. chan[Conn(e)].sent[e] \in Seq(Strings)
      BY <1>2, LinkIs
    <3> QED BY ONLY <1>2, <1>5, <2>3, <2>5, <3>1, <3>2
  <2>7. Carried(sent, got, wire, live, flat, told, part, left)
    BY ONLY <1>5, <2>4, <2>5
  <2>8. live <=> ~ lost
    BY ONLY <1>3, <1>5, <1>16, <2>3 DEF Peer
  <2>9. Carried(sent, got, w, live, g, told, part, left)
    <3>1. CASE live
      <4>1. Joined(w, wire, x)
        BY ONLY <1>17, <2>8, <3>1
      <4> QED BY ONLY <1>15, <2>6, <2>7, <3>1, <4>1, CarriedSent
    <3>2. CASE ~ live
      <4>1. w = <<>>
        BY ONLY <1>16, <2>8, <3>2
      <4>2. told => told /\ part = part /\ left = left
        OBVIOUS
      <4>3. Carried(sent, got, <<>>, live, g, told, part, left)
        BY ONLY <1>11, <2>6, <2>7, <3>2, <4>2, CarriedLost
      <4> QED BY ONLY <4>1, <4>3
    <3> QED BY <3>1, <3>2
  <2>10. Carried(c.sent[e], c.got[o], c.wire[o], live, g, told, part, left)
    BY ONLY <1>19, <2>5, <2>9
  <2>11. Writing(e, c, ob, k)
    <3>1. live <=> c.fd[o] # "closed"
      BY ONLY <1>19, <2>3
    <3>2. g = FlattenSeq(k.pieces)
      BY ONLY <1>13, <1>20
    <3> QED BY ONLY <1>3, <1>22, <2>3, <2>10, <3>1, <3>2, WritingIs
  <2> QED BY ONLY <2>2, <2>11
<1>25. Len(k.part) + k.left < LengthModulus
  BY ONLY <1>2, <1>20
<1> QED BY ONLY IInv, e \in Ends, <1>2, <1>20, <1>21, <1>22, <1>23, <1>24, <1>25, OwnStep
-----------------------------------------------------------------------------
LEMMA FlatIs ==
    ASSUME NEW pieces \in Seq(Seq(Octet)), Len(pieces) <= 2
    PROVE  FlattenSeq(pieces) \in Strings /\ Len(FlattenSeq(pieces)) \in Nat
<1>1. PICK none : none = <<>> /\ none \in Seq(Octet)
  BY EmptySeq
<1>2. CASE pieces = <<>>
  <2>1. FlattenSeq(<<>>) = none
    BY ONLY <1>1, Flattened
  <2> QED BY ONLY <1>1, <1>2, <2>1, LenProperties DEF Strings
<1>3. CASE \E p \in Seq(Octet) : pieces = <<p>>
  <2>1. PICK p \in Seq(Octet) : pieces = <<p>>
    BY ONLY <1>3
  <2>2. FlattenSeq(<<p>>) = p
    BY ONLY <2>1, Flattened
  <2> QED BY ONLY <2>1, <2>2, LenProperties DEF Strings
<1>4. CASE \E p, q \in Seq(Octet) : pieces = <<p, q>>
  <2>1. PICK p \in Seq(Octet), q \in Seq(Octet) : pieces = <<p, q>>
    BY ONLY <1>4
  <2>2. PICK j : j = p \o q
    OBVIOUS
  <2>3. FlattenSeq(<<p, q>>) = j
    BY ONLY <2>1, <2>2, Flattened
  <2>4. j \in Strings /\ Len(j) \in Nat
    BY ONLY <2>1, <2>2, Join, Zenon DEF Strings, Joined
  <2> QED BY ONLY <2>1, <2>3, <2>4
<1> QED BY ONLY <1>2, <1>3, <1>4, PiecesAre, pieces \in Seq(Seq(Octet)), Len(pieces) <= 2

(* What a reader is carried, before its step and after.                    *)
LEMMA ReadsBefore ==
    ASSUME IInv, NEW e \in Ends, Conn(e) > 0, ~ Link(e).torn, NEW o, o = Other(e),
           NEW live, live = (Conn(o) = Conn(e) /\ Link(e).fd[e] # "closed"),
           NEW pend, pend = Pending(o), NEW text \in BOOLEAN, text <=> call[e].op = "text",
           NEW part, part = call[e].part, NEW left, left = call[e].left
    PROVE  /\ Carried(Link(e).sent[o], Link(e).got[e], Link(e).wire[e], live, pend, text, part, left)
           /\ Len(pend) \in Nat
<1>1. Reading(e, Link(e), obj[e], call[e]) /\ obj[e].conn = Conn(e)
  BY Before, SameObject
<1>2. PICK b, bob, bk : b = Link(e) /\ bob = obj[e] /\ bk = call[e]
  OBVIOUS
<1>3. Reading(e, b, bob, bk) /\ bob.conn = Conn(e)
  BY ONLY <1>1, <1>2
<1>4. /\ text \in BOOLEAN /\ (text <=> bk.op = "text") /\ pend = Pending(o)
      /\ live = (Conn(o) = Conn(e) /\ b.fd[e] # "closed")
      /\ part = bk.part /\ left = bk.left
  BY <1>2
<1>5. Carried(b.sent[o], b.got[e], b.wire[e], live, pend, text, part, left)
  BY ONLY <1>3, <1>4, o = Other(e), ReadingIs
<1>6. Len(pend) \in Nat
  <2>1. o \in Ends
    BY TwoEnds
  <2>2. call[o].pieces \in Seq(Seq(Octet)) /\ Len(call[o].pieces) <= 2
    BY <2>1 DEF IInv, StreamsTypeOK, CallsInv, Call
  <2> QED BY ONLY <2>2, pend = Pending(o), FlatIs DEF Pending
<1> QED BY ONLY <1>2, <1>5, <1>6

(* A step that takes bytes off the way: what OwnStep asks for it.          *)
LEMMA ReadsStep ==
    ASSUME IInv, NEW e \in Ends, call[e].op \notin {"idle", "dead"} \/ Open(e),
           call[e].op \notin {"write", "writev"},
           NEW n \in 1 .. Len(Wire(e)), NEW w, w = SubSeq(Wire(e), n + 1, Len(Wire(e))),
           NEW got \in Seq(Strings), NEW torn \in BOOLEAN, NEW c,
           c = [Link(e) EXCEPT !.wire[e] = w, !.got[e] = got, !.torn = torn],
           chan' = [chan EXCEPT ![Conn(e)] = c],
           NEW k \in Call, CallOf(k), Len(k.part) + k.left < LengthModulus, k.pieces = <<>>,
           call' = [call EXCEPT ![e] = k], UNCHANGED <<kind, acceptor, waiting, obj>>,
           Link(e).torn => torn,
           torn \/ \E live, pend, text : 
             /\ live = (Conn(Other(e)) = Conn(e) /\ Link(e).fd[e] # "closed")
             /\ pend = Pending(Other(e)) /\ text \in BOOLEAN /\ (text <=> k.op = "text")
             /\ Carried(Link(e).sent[Other(e)], got, w, live, pend, text, k.part, k.left)
    PROVE  IInv'
<1>1. /\ Conn(e) > 0 /\ Conn(e) \in DOMAIN chan /\ Link(e) = chan[Conn(e)] /\ Link(e) \in Channel
      /\ \A a \in Ends : Len(Link(e).wire[a]) <= Room
      /\ Link(e).fd[e] = "open" /\ chan \in Seq(Channel) /\ call \in [Ends -> Call]
      /\ call[e].pieces = <<>>
  BY Working
<1>2. PICK o, b, ob, wire : o = Other(e) /\ b = Link(e) /\ ob = obj[e] /\ wire = Wire(e)
  OBVIOUS
<1>3. o \in Ends /\ o # e /\ e = Other(o) /\ \A a \in Ends : a = e \/ a = o
  BY ONLY <1>2, TwoEnds, e \in Ends
<1>4. wire = b.wire[e] /\ wire \in Strings /\ Len(wire) \in Nat /\ Len(wire) <= Room /\ Room \in Nat
  <2>1. wire = b.wire[e] /\ wire \in Seq(Octet)
    BY ONLY <1>1, <1>2, e \in Ends DEF Channel, Wire
  <2> QED BY ONLY <1>1, <1>2, <2>1, e \in Ends, LenProperties, StreamAssumption DEF Strings
<1>5. RestOf(w, wire, n) /\ w \in Strings /\ Len(w) <= Room
  <2>1. n \in Nat /\ n <= Len(wire)
    BY ONLY <1>2, <1>4, n \in 1 .. Len(Wire(e))
  <2>2. RestOf(w, wire, n)
    BY ONLY <1>2, <1>4, <2>1, w = SubSeq(Wire(e), n + 1, Len(Wire(e))), Rest DEF Strings
  <2> QED BY ONLY <1>4, <2>1, <2>2 DEF RestOf, Strings
<1>6. /\ c \in Channel /\ c.wire[e] = w /\ c.wire[o] = b.wire[o] /\ c.got[e] = got
      /\ c.got[o] = b.got[o] /\ c.sent = b.sent /\ c.fd = b.fd /\ c.torn = torn
  <2>1. PICK G : G = Seq(Seq(Octet)) /\ got \in G
    BY DEF Strings
  <2> QED BY ONLY <1>1, <1>2, <1>3, <1>5, <2>1, e \in Ends, torn \in BOOLEAN,
             c = [Link(e) EXCEPT !.wire[e] = w, !.got[e] = got, !.torn = torn] DEF Channel, Strings
<1>7. Own(e, c, ob, k)
  <2>1. obj' = [obj EXCEPT ![e] = ob]
    BY <1>2, SameObject
  <2> QED BY <2>1 DEF Own
<1>8. ob \in Object /\ ob.conn = Conn(e) /\ ConnOf(e, c, ob, k)
  <2>1. obj[e] \in Object /\ obj[e].conn = Conn(e)
    BY SameObject
  <2>2. c.fd[e] = "open"
    BY ONLY <1>1, <1>2, <1>6
  <2> QED BY ONLY <1>2, <2>1, <2>2 DEF ConnOf
<1>9. ChannelOf(e, c)
  <2>1. \A a \in Ends : Len(c.wire[a]) <= Room
    BY ONLY <1>1, <1>2, <1>3, <1>5, <1>6
  <2> QED BY ONLY <1>2, <1>6, <2>1, Link(e).torn => torn DEF ChannelOf
<1>10. c.torn \/ (Writing(e, c, ob, k) /\ Reading(e, c, ob, k))
  <2> SUFFICES ASSUME ~ torn PROVE Writing(e, c, ob, k) /\ Reading(e, c, ob, k)
    BY <1>6
  <2>1. ~ Link(e).torn
    OBVIOUS
  <2>2. Writing(e, Link(e), obj[e], call[e])
    BY <1>1, <2>1, Before
  <2>3. Writing(e, c, ob, k)
    <3>1. FlattenSeq(k.pieces) = FlattenSeq(call[e].pieces)
      BY ONLY <1>1, k.pieces = <<>>
    <3>2. /\ c.sent[e] = Link(e).sent[e] /\ c.got[Other(e)] = Link(e).got[Other(e)]
          /\ c.wire[Other(e)] = Link(e).wire[Other(e)] /\ c.fd[Other(e)] = Link(e).fd[Other(e)]
      BY ONLY <1>2, <1>6
    <3> QED BY ONLY <1>8, <2>2, <3>1, <3>2, WritingSame
  <2>4. PICK live, pend, text : 
             /\ live = (Conn(Other(e)) = Conn(e) /\ Link(e).fd[e] # "closed")
             /\ pend = Pending(Other(e)) /\ text \in BOOLEAN /\ (text <=> k.op = "text")
             /\ Carried(Link(e).sent[Other(e)], got, w, live, pend, text, k.part, k.left)
    OBVIOUS
  <2>5. PICK part, left : part = k.part /\ left = k.left
    OBVIOUS
  <2>6. Carried(c.sent[o], c.got[e], c.wire[e], live, pend, text, part, left)
    BY ONLY <1>2, <1>6, <2>4, <2>5
  <2>7. live = (Conn(o) = Conn(e) /\ c.fd[e] # "closed") /\ pend = Pending(o)
    BY ONLY <1>2, <1>6, <2>4
  <2>8. Reading(e, c, ob, k)
    BY ONLY <1>2, <1>8, <2>4, <2>5, <2>6, <2>7, ReadingIs
  <2> QED BY ONLY <2>3, <2>8
<1> QED BY ONLY IInv, e \in Ends, <1>1, <1>7, <1>8, <1>9, <1>10, k \in Call, CallOf(k),
           Len(k.part) + k.left < LengthModulus, OwnStep

LEMMA ReadOnceStep ==
    ASSUME IInv, NEW e \in Ends, ReadOnce(e) PROVE IInv'
<1>1. Free(e) /\ Open(e) /\ UNCHANGED <<kind, acceptor, waiting, obj, call>>
  BY DEF ReadOnce, Ready
<1>2. PICK n \in 1 .. Len(Wire(e)) :
        chan' = [chan EXCEPT ![Conn(e)].wire[e] = SubSeq(@, n + 1, Len(@)), ![Conn(e)].torn = TRUE]
  BY DEF ReadOnce
<1>3. /\ Conn(e) > 0 /\ Conn(e) \in DOMAIN chan /\ Link(e) = chan[Conn(e)] /\ Link(e) \in Channel
      /\ chan \in Seq(Channel) /\ call \in [Ends -> Call]
      /\ call[e] \in Call /\ CallOf(call[e]) /\ Len(call[e].part) + call[e].left < LengthModulus
      /\ call[e].op \notin {"write", "writev"} => call[e].pieces = <<>>
  BY <1>1, Working
<1>4. PICK b, w, got, k : /\ b = Link(e) /\ w = SubSeq(Wire(e), n + 1, Len(Wire(e)))
                          /\ got = b.got[e] /\ k = call[e]
  OBVIOUS
<1>5. PICK c : c = [Link(e) EXCEPT !.wire[e] = w, !.got[e] = got, !.torn = TRUE]
  OBVIOUS
<1>6. chan' = [chan EXCEPT ![Conn(e)] = c]
  <2>1. chan' = [chan EXCEPT ![Conn(e)] =
                    [b EXCEPT !.wire[e] = SubSeq(b.wire[e], n + 1, Len(b.wire[e])), !.torn = TRUE]]
    BY ONLY <1>2, <1>3, <1>4
  <2>2. c = [b EXCEPT !.wire[e] = w, !.torn = TRUE]
    BY ONLY <1>3, <1>4, <1>5, e \in Ends DEF Channel
  <2>3. w = SubSeq(b.wire[e], n + 1, Len(b.wire[e]))
    BY ONLY <1>4 DEF Wire
  <2> QED BY ONLY <2>1, <2>2, <2>3
<1>7. call' = [call EXCEPT ![e] = k]
  BY ONLY <1>1, <1>3, <1>4
<1>8. got \in Seq(Strings) /\ call[e].op = "idle" /\ call[e].pieces = <<>>
  BY <1>1, <1>3, <1>4, LinkIs DEF Free
<1> QED BY <1>1, <1>3, <1>4, <1>5, <1>6, <1>7, <1>8, ReadsStep

(* A length, a part of a string or its end is read; stream_in reads past   *)
(* the frames.                                                             *)
LEMMA RecvStepStep ==
    ASSUME IInv, NEW e \in Ends, RecvStep(e) PROVE IInv'
<1>1. call[e].op \in {"length", "text", "in"} /\ UNCHANGED <<kind, acceptor, waiting, obj>>
  BY DEF RecvStep, IsReading
<1>2. /\ Conn(e) > 0 /\ Conn(e) \in DOMAIN chan /\ Link(e) = chan[Conn(e)] /\ Link(e) \in Channel
      /\ chan \in Seq(Channel) /\ call \in [Ends -> Call] /\ Link(e).fd[e] = "open"
      /\ call[e] \in Call /\ CallOf(call[e]) /\ Len(call[e].part) + call[e].left < LengthModulus
      /\ call[e].pieces = <<>> /\ call[e].op \notin {"idle", "dead", "write", "writev"}
  <2>1. call[e].op \notin {"idle", "dead", "write", "writev"}
    BY <1>1
  <2> QED BY <2>1, Working
<1>3. PICK o, b, wire, op, left, part : /\ o = Other(e) /\ b = Link(e) /\ wire = Wire(e)
                                        /\ op = call[e].op /\ left = call[e].left /\ part = call[e].part
  OBVIOUS
<1>4. o \in Ends /\ o # e /\ e = Other(o)
  BY ONLY <1>3, TwoEnds, e \in Ends
<1>5. \E n \in 1 .. Lesser(Len(wire), IF op = "in" THEN Room ELSE left),
         old \in Untouched(Link(e).got[e]) :
        LET bytes == SubSeq(wire, 1, n)
            more  == part \o bytes
            size  == bytes[1] % LengthModulus
            ended == \/ op = "length" /\ size = 0
                     \/ op = "text" /\ n = left
        IN  /\ chan' = [chan EXCEPT ![Conn(e)].wire[e] = SubSeq(@, n + 1, Len(@)),
                            ![Conn(e)].got[e] =
                                IF ended THEN Append(@, IF op = "text" THEN more ELSE old)
                                ELSE @,
                            ![Conn(e)].torn = @ \/ op = "in"]
            /\ call' = [call EXCEPT ![e] =
                    CASE ended -> Idle
                      [] op = "length" /\ size > 0 -> [Idle EXCEPT !.op = "text", !.left = size]
                      [] op = "text" /\ n < @.left -> [@ EXCEPT !.left = @ - n, !.part = more]
                      [] op = "in" -> @]
  BY <1>3, ZenonT(60) DEF RecvStep
<1>6. PICK n \in 1 .. Lesser(Len(wire), IF op = "in" THEN Room ELSE left),
           old \in Untouched(Link(e).got[e]) :
        LET bytes == SubSeq(wire, 1, n)
            more  == part \o bytes
            size  == bytes[1] % LengthModulus
            ended == \/ op = "length" /\ size = 0
                     \/ op = "text" /\ n = left
        IN  /\ chan' = [chan EXCEPT ![Conn(e)].wire[e] = SubSeq(@, n + 1, Len(@)),
                            ![Conn(e)].got[e] =
                                IF ended THEN Append(@, IF op = "text" THEN more ELSE old)
                                ELSE @,
                            ![Conn(e)].torn = @ \/ op = "in"]
            /\ call' = [call EXCEPT ![e] =
                    CASE ended -> Idle
                      [] op = "length" /\ size > 0 -> [Idle EXCEPT !.op = "text", !.left = size]
                      [] op = "text" /\ n < @.left -> [@ EXCEPT !.left = @ - n, !.part = more]
                      [] op = "in" -> @]
  BY ONLY <1>5
<1>7. PICK bytes, more, size, ended, got, torn, w :
        /\ bytes = SubSeq(wire, 1, n) /\ more = part \o bytes /\ size = bytes[1] % LengthModulus
        /\ ended = ((op = "length" /\ size = 0) \/ (op = "text" /\ n = left))
        /\ got = (IF ended THEN Append(b.got[e], IF op = "text" THEN more ELSE old) ELSE b.got[e])
        /\ torn \in BOOLEAN /\ (torn <=> b.torn \/ op = "in")
        /\ w = SubSeq(wire, n + 1, Len(wire))
  OBVIOUS
<1>8. PICK c, k : /\ c = [Link(e) EXCEPT !.wire[e] = w, !.got[e] = got, !.torn = torn]
                  /\ k = CASE ended -> Idle
                           [] op = "length" /\ size > 0 -> [Idle EXCEPT !.op = "text", !.left = size]
                           [] op = "text" /\ n < left -> [call[e] EXCEPT !.left = left - n, !.part = more]
                           [] op = "in" -> call[e]
  OBVIOUS
<1>9. call' = [call EXCEPT ![e] = k]
  <2>1. call' = [call EXCEPT ![e] =
                    CASE ended -> Idle
                      [] op = "length" /\ size > 0 -> [Idle EXCEPT !.op = "text", !.left = size]
                      [] op = "text" /\ n < @.left -> [@ EXCEPT !.left = @ - n, !.part = more]
                      [] op = "in" -> @]
    BY ONLY <1>6, <1>7
  <2>2. call' = [call EXCEPT ![e] =
                    CASE ended -> Idle
                      [] op = "length" /\ size > 0 -> [Idle EXCEPT !.op = "text", !.left = size]
                      [] op = "text" /\ n < call[e].left ->
                            [call[e] EXCEPT !.left = call[e].left - n, !.part = more]
                      [] op = "in" -> call[e]]
    BY ONLY <2>1
  <2> QED BY ONLY <1>3, <1>8, <2>2
<1>10. chan' = [chan EXCEPT ![Conn(e)] = c]
  <2>1. wire = b.wire[e] /\ b = chan[Conn(e)] /\ b \in Channel
    BY ONLY <1>2, <1>3 DEF Wire
  <2>2. chan' = [chan EXCEPT ![Conn(e)].wire[e] = SubSeq(@, n + 1, Len(@)),
                             ![Conn(e)].got[e] =
                                IF ended THEN Append(@, IF op = "text" THEN more ELSE old) ELSE @,
                             ![Conn(e)].torn = @ \/ op = "in"]
    BY ONLY <1>6, <1>7
  <2>3. torn = (b.torn \/ op = "in")
    BY ONLY <1>7
  <2>4. PICK tail, given, thrown :
            /\ tail = SubSeq(b.wire[e], n + 1, Len(b.wire[e]))
            /\ given = (IF ended THEN Append(b.got[e], IF op = "text" THEN more ELSE old) ELSE b.got[e])
            /\ thrown = (b.torn \/ op = "in")
    OBVIOUS
  <2>5. chan' = [chan EXCEPT ![Conn(e)] =
                    [b EXCEPT !.wire[e] = tail, !.got[e] = given, !.torn = thrown]]
    <3>1. /\ chan[Conn(e)].wire[e] = b.wire[e] /\ chan[Conn(e)].got[e] = b.got[e]
          /\ chan[Conn(e)].torn = b.torn
      BY ONLY <2>1
    <3>2. chan' = [chan EXCEPT ![Conn(e)] = [chan[Conn(e)] EXCEPT
                    !.wire[e] = SubSeq(chan[Conn(e)].wire[e], n + 1, Len(chan[Conn(e)].wire[e])),
                    !.got[e] = IF ended THEN Append(chan[Conn(e)].got[e], IF op = "text" THEN more ELSE old)
                               ELSE chan[Conn(e)].got[e],
                    !.torn = chan[Conn(e)].torn \/ op = "in"]]
      BY ONLY <1>2, <2>1, <2>2, e \in Ends DEF Channel
    <3> QED BY ONLY <2>1, <2>4, <3>1, <3>2
  <2>6. tail = w /\ given = got /\ thrown = torn
    BY ONLY <1>7, <2>1, <2>3, <2>4
  <2> QED BY ONLY <1>3, <1>8, <2>5, <2>6
<1>11. /\ wire = b.wire[e] /\ wire \in Strings /\ Len(wire) \in Nat /\ left \in Nat
       /\ part \in Strings /\ Len(part) \in Nat /\ LengthModulus \in Nat \ {0, 1} /\ Room \in Nat
       /\ b.got[e] \in Seq(Strings) /\ b.sent[o] \in Seq(Strings)
  <2>1. wire = b.wire[e]
    BY ONLY <1>3 DEF Wire
  <2>2. /\ chan[Conn(e)].wire[e] \in Strings /\ Len(chan[Conn(e)].wire[e]) \in Nat
        /\ chan[Conn(e)].got[e] \in Seq(Strings) /\ call[e].part \in Strings /\ call[e].left \in Nat
    BY <1>2, LinkIs
  <2>3. chan[Conn(e)].sent[o] \in Seq(Strings)
    BY <1>2, <1>4, LinkIs
  <2>4. Len(part) \in Nat
    BY ONLY <1>3, <2>2, LenProperties DEF Strings
  <2> QED BY ONLY <1>2, <1>3, <2>1, <2>2, <2>3, <2>4, StreamAssumption
<1>d. old \in Strings
  <2>1. PICK given : given = b.got[e] /\ given \in Seq(Strings)
    BY ONLY <1>11
  <2>2. old \in {<<>>} \cup {given[i] : i \in DOMAIN given}
    BY ONLY <1>3, <1>6, <2>1 DEF Untouched, Range
  <2>3. \A i \in DOMAIN given : given[i] \in Strings
    BY ONLY <2>1
  <2>4. <<>> \in Strings
    BY ONLY EmptySeq DEF Strings
  <2> QED BY ONLY <2>2, <2>3, <2>4
<1>12. n \in Nat /\ 1 <= n /\ n \in 1 .. Len(wire) /\ n <= Len(wire) /\ (op # "in" => n <= left)
  <2>1. PICK m, s : m = Len(wire) /\ s = IF op = "in" THEN Room ELSE left
    OBVIOUS
  <2>2. n \in 1 .. (IF m <= s THEN m ELSE s)
    BY ONLY <2>1, n \in 1 .. Lesser(Len(wire), IF op = "in" THEN Room ELSE left) DEF Lesser
  <2>3. m \in Nat /\ s \in Nat
    BY ONLY <1>11, <2>1
  <2>4. n \in Nat /\ 1 <= n /\ n <= m /\ n <= s
    BY ONLY <2>2, <2>3
  <2> QED BY ONLY <2>1, <2>3, <2>4
<1>13. bytes \in Strings /\ Len(bytes) = n /\ \A i \in 1 .. n : bytes[i] = wire[i]
  <2>1. bytes = SubSeq(wire, 1, n) /\ wire \in Strings /\ n \in 1 .. Len(wire)
    BY ONLY <1>7, <1>11, <1>12
  <2> QED BY ONLY <2>1, Taken
<1>14. RestOf(w, wire, n)
  <2>1. n \in Nat /\ n <= Len(wire)
    BY ONLY <1>12
  <2>2. w = SubSeq(wire, n + 1, Len(wire))
    BY ONLY <1>7
  <2> QED BY ONLY <1>11, <2>1, <2>2, Rest DEF Strings
<1>15. Joined(more, part, bytes)
  BY ONLY <1>7, <1>11, <1>13, Join DEF Strings
<1>16. size \in Nat /\ size < LengthModulus /\ size = wire[1] % LengthModulus
  <2>1. bytes[1] = wire[1] /\ bytes[1] \in Octet
    <3>1. 1 \in 1 .. n /\ 1 \in 1 .. Len(bytes)
      BY ONLY <1>12, <1>13
    <3>2. bytes \in Seq(Octet)
      BY ONLY <1>13 DEF Strings
    <3> QED BY ONLY <1>13, <3>1, <3>2, ElementOfSeq
  <2>2. PICK x, m : x = bytes[1] /\ m = LengthModulus
    OBVIOUS
  <2>3. x \in Nat /\ m \in Nat /\ m > 0
    BY ONLY <1>11, <2>1, <2>2 DEF Octet
  <2>4. x % m \in Nat /\ x % m < m
    BY ONLY <2>3
  <2> QED BY ONLY <1>7, <2>1, <2>2, <2>4
<1>17. torn \in BOOLEAN /\ (Link(e).torn => torn)
  BY ONLY <1>3, <1>7
<1>18. PICK live, pend, text : 
         /\ live = (Conn(o) = Conn(e) /\ Link(e).fd[e] # "closed")
         /\ pend = Pending(o) /\ text \in BOOLEAN /\ (text <=> op = "text")
  OBVIOUS
<1>19. ~ torn => /\ Carried(b.sent[o], b.got[e], wire, live, pend, text, part, left)
                 /\ Len(pend) \in Nat
  <2> SUFFICES ASSUME ~ torn PROVE /\ Carried(b.sent[o], b.got[e], wire, live, pend, text, part, left)
                                   /\ Len(pend) \in Nat
    OBVIOUS
  <2>1. ~ Link(e).torn
    BY <1>17
  <2>2. live = (Conn(o) = Conn(e) /\ Link(e).fd[e] # "closed") /\ (text <=> call[e].op = "text")
    BY ONLY <1>3, <1>18
  <2>3. /\ Carried(Link(e).sent[o], Link(e).got[e], Link(e).wire[e], live, pend, text, part, left)
        /\ Len(pend) \in Nat
    BY ONLY IInv, e \in Ends, <1>2, <1>3, <1>18, <2>1, <2>2, ReadsBefore
  <2> QED BY ONLY <1>3, <1>11, <2>3
<1>a. wire \in Strings
  BY ONLY <1>11
<1>b. part \in Strings
  BY ONLY <1>11
<1>c. left \in Nat
  BY ONLY <1>11
<1>20. ASSUME got \in Seq(Strings), k \in Call, CallOf(k), Len(k.part) + k.left < LengthModulus,
              k.pieces = <<>>,
              torn \/ \E t \in BOOLEAN : /\ t <=> k.op = "text"
                         /\ Carried(b.sent[o], got, w, live, pend, t, k.part, k.left)
       PROVE  IInv'
  <2>1. torn \/ \E li, pe, t : 
             /\ li = (Conn(Other(e)) = Conn(e) /\ Link(e).fd[e] # "closed")
             /\ pe = Pending(Other(e)) /\ t \in BOOLEAN /\ (t <=> k.op = "text")
             /\ Carried(Link(e).sent[Other(e)], got, w, li, pe, t, k.part, k.left)
    <3>1. CASE torn
      BY ONLY <3>1
    <3>2. CASE ~ torn
      <4>1. PICK t \in BOOLEAN : /\ t <=> k.op = "text"
                           /\ Carried(b.sent[o], got, w, live, pend, t, k.part, k.left)
        BY ONLY <1>20, <3>2
      <4>2. Carried(Link(e).sent[Other(e)], got, w, live, pend, t, k.part, k.left)
        BY ONLY <1>3, <4>1
      <4>3. live = (Conn(Other(e)) = Conn(e) /\ Link(e).fd[e] # "closed") /\ pend = Pending(Other(e))
        BY ONLY <1>3, <1>18
      <4> QED BY ONLY <4>1, <4>2, <4>3
    <3> QED BY <3>1, <3>2
  <2>2. n \in 1 .. Len(Wire(e)) /\ w = SubSeq(Wire(e), n + 1, Len(Wire(e)))
    BY ONLY <1>3, <1>7, <1>12
  <2>3. c = [Link(e) EXCEPT !.wire[e] = w, !.got[e] = got, !.torn = torn]
    BY ONLY <1>8
  <2> QED BY ONLY IInv, e \in Ends, <1>1, <1>2, <1>9, <1>10, <1>17, <1>20, <2>1, <2>2, <2>3, ReadsStep
<1>21. CASE op = "in"
  <2>1. ~ ended /\ op # "length" /\ op # "text"
    BY ONLY <1>7, <1>21
  <2>2. k = call[e]
    BY ONLY <1>8, <1>21, <2>1
  <2>3. got = b.got[e] /\ torn
    BY ONLY <1>7, <1>21, <2>1
  <2> QED BY ONLY <1>2, <1>11, <1>20, <2>2, <2>3
<1>22. CASE op = "length"
  <2>1. left = 1 /\ part = <<>> /\ n = 1
    <3>1. left = 1 /\ part = <<>>
      BY ONLY <1>2, <1>3, <1>22 DEF CallOf
    <3>2. n <= 1
      BY ONLY <1>12, <1>22, <3>1
    <3> QED BY ONLY <1>12, <3>1, <3>2
  <2>2. ~ text /\ (ended <=> size = 0) /\ op # "text" /\ op # "in"
    BY ONLY <1>7, <1>18, <1>22
  <2>3. PICK first, yes, no, none : /\ first = wire[1] /\ yes \in BOOLEAN /\ yes /\ no \in BOOLEAN /\ ~ no
                                    /\ none = <<>>
    OBVIOUS
  <2>4. none \in Strings /\ Len(none) = 0 /\ Len(none) \in Nat
    BY ONLY <2>3, EmptySeq DEF Strings
  <2>5. ~ torn => /\ first = size
                  /\ size = 0 => Carried(b.sent[o], Append(b.got[e], old), w, live, pend, text, part, left)
                  /\ size # 0 => Carried(b.sent[o], b.got[e], w, live, pend, yes, none, size)
    <3> SUFFICES ASSUME ~ torn
                 PROVE  /\ first = size
                        /\ size = 0 => Carried(b.sent[o], Append(b.got[e], old), w, live, pend, text, part, left)
                        /\ size # 0 => Carried(b.sent[o], b.got[e], w, live, pend, yes, none, size)
      OBVIOUS
    <3>1. PICK sent, given : sent = b.sent[o] /\ given = b.got[e]
      OBVIOUS
    <3>2. Carried(sent, given, wire, live, pend, text, part, left)
      BY ONLY <1>19, ~ torn, <3>1
    <3>3. Len(pend) \in Nat
      BY ONLY <1>19, ~ torn
    <3>4. RestOf(w, wire, 1)
      BY ONLY <1>14, <2>1
    <3>5. sent \in Seq(Strings) /\ given \in Seq(Strings)
      BY ONLY <1>11, <3>1
    <3>6. ~ text
      BY ONLY <2>2
    <3>a. sent \in Seq(Strings)
      BY ONLY <3>5
    <3>b. given \in Seq(Strings)
      BY ONLY <3>5
    <3>c. yes
      BY ONLY <2>3
    <3>d. first = wire[1]
      BY ONLY <2>3
    <3>8. /\ first \in Nat /\ first < LengthModulus
          /\ first = 0 => Carried(sent, Append(given, old), w, live, pend, text, part, left)
          /\ first # 0 => Carried(sent, given, w, live, pend, yes, <<>>, first)
      BY ONLY <1>a, <1>b, <3>2, <3>3, <3>4, <3>a, <3>b, <3>6, <3>c, <3>d, <1>d, CarriedLength
    <3>9. first = size
      <4>1. PICK x, m : x = first /\ m = LengthModulus
        OBVIOUS
      <4>2. x \in Nat /\ m \in Nat /\ x < m
        BY ONLY <1>11, <3>8, <4>1
      <4>3. x % m = x
        BY ONLY <4>2
      <4> QED BY ONLY <1>16, <2>3, <4>1, <4>3
    <3> QED BY ONLY <2>3, <3>1, <3>8, <3>9
  <2>6. CASE size = 0
    <3>1. k = Idle
      BY ONLY <1>8, <2>2, <2>6
    <3>2. got = Append(b.got[e], old)
      BY ONLY <1>7, <2>2, <2>3, <2>6
    <3>3. got \in Seq(Strings)
      BY ONLY <1>11, <1>d, <3>2, AppendProperties
    <3>4. /\ k \in Call /\ CallOf(k) /\ Len(k.part) + k.left < LengthModulus /\ k.pieces = <<>>
          /\ k.op = "idle" /\ k.part = none /\ k.left = 0
      <4>1. Len(k.part) + k.left = 0 /\ 0 < LengthModulus
        BY ONLY <3>1, IdleIs
      <4>2. Len(k.part) + k.left < LengthModulus
        BY ONLY <4>1
      <4> QED BY ONLY <2>3, <3>1, <4>2, IdleIs
    <3>5. ~ torn => Carried(b.sent[o], got, w, live, pend, no, none, 0)
      <4> SUFFICES ASSUME ~ torn PROVE Carried(b.sent[o], got, w, live, pend, no, none, 0)
        OBVIOUS
      <4>1. Carried(b.sent[o], got, w, live, pend, text, part, left)
        BY ONLY <2>5, ~ torn, <2>6, <3>2
      <4>2. (live => live /\ pend = pend) /\ (no <=> text) /\ (no => none = part /\ 0 = left)
        BY ONLY <2>2, <2>3
      <4>3. PICK sent, zero : sent = b.sent[o] /\ zero = 0
        OBVIOUS
      <4>4. Carried(sent, got, w, live, pend, text, part, left) /\ (no => none = part /\ zero = left)
        BY ONLY <4>1, <4>2, <4>3
      <4>5. Carried(sent, got, w, live, pend, no, none, zero)
        BY ONLY <4>2, <4>4, CarriedWeaker
      <4> QED BY ONLY <4>3, <4>5
    <3>6. torn \/ \E t \in BOOLEAN : /\ t <=> k.op = "text"
                         /\ Carried(b.sent[o], got, w, live, pend, t, k.part, k.left)
      BY ONLY <2>3, <3>4, <3>5
    <3> QED BY ONLY <1>20, <3>3, <3>4, <3>6
  <2>7. CASE size # 0
    <3>1. size > 0 /\ ~ ended
      BY ONLY <1>16, <2>2, <2>7
    <3>2. k = [Idle EXCEPT !.op = "text", !.left = size]
      BY ONLY <1>8, <1>22, <2>2, <3>1
    <3>3. got = b.got[e]
      BY ONLY <1>7, <3>1
    <3>4. k = [op |-> "text", pieces |-> none, left |-> size, part |-> none]
      BY ONLY <2>3, <3>2 DEF Idle
    <3>5. /\ k.op = "text" /\ k.part = none /\ k.left = size /\ k.pieces = <<>>
      BY ONLY <2>3, <3>4
    <3>6. k \in Call
      <4>1. none \in Seq(Seq(Octet)) /\ none \in Seq(Octet)
        BY ONLY <2>3, EmptySeq
      <4> QED BY ONLY <1>16, <3>4, <4>1 DEF Call
    <3>7. CallOf(k) /\ Len(k.part) + k.left < LengthModulus
      <4>1. CallOf(k)
        BY ONLY <2>3, <2>4, <3>5 DEF CallOf
      <4>2. Len(k.part) + k.left = size
        BY ONLY <1>16, <2>4, <3>5
      <4> QED BY ONLY <1>16, <4>1, <4>2
    <3>8. torn \/ \E t \in BOOLEAN : /\ t <=> k.op = "text"
                         /\ Carried(b.sent[o], got, w, live, pend, t, k.part, k.left)
      BY ONLY <2>3, <2>5, <2>7, <3>3, <3>5
    <3> QED BY ONLY <1>11, <1>20, <3>3, <3>5, <3>6, <3>7, <3>8
  <2> QED BY <2>6, <2>7
<1>23. CASE op = "text"
  <2>1. text /\ (ended <=> n = left) /\ op # "length" /\ op # "in" /\ n <= left
    BY ONLY <1>7, <1>12, <1>18, <1>23
  <2>2. /\ ~ torn => Carried(b.sent[o], b.got[e], w, live, pend, text, more, left - n)
        /\ \A no, p, l : (~ torn /\ n = left /\ ~ no) =>
                Carried(b.sent[o], Append(b.got[e], more), w, live, pend, no, p, l)
    <3>1. CASE torn
      BY <3>1
    <3>2. CASE ~ torn
      <4>1. PICK sent, given : sent = b.sent[o] /\ given = b.got[e]
        OBVIOUS
      <4>2. Carried(sent, given, wire, live, pend, text, part, left)
        BY ONLY <1>19, <3>2, <4>1
      <4>3. Len(pend) \in Nat /\ sent \in Seq(Strings) /\ given \in Seq(Strings)
        BY ONLY <1>11, <1>19, <3>2, <4>1
      <4>4. text /\ n >= 1 /\ n <= left
        BY ONLY <1>12, <2>1
      <4>a. Len(pend) \in Nat
        BY ONLY <4>3
      <4>b. sent \in Seq(Strings)
        BY ONLY <4>3
      <4>c. given \in Seq(Strings)
        BY ONLY <4>3
      <4>d. text
        BY ONLY <4>4
      <4>e. n >= 1
        BY ONLY <4>4
      <4>f. n <= left
        BY ONLY <4>4
      <4>g. bytes \in Strings
        BY ONLY <1>13
      <4>h. Len(bytes) = n
        BY ONLY <1>13
      <4>i. \A i \in 1 .. n : bytes[i] = wire[i]
        BY ONLY <1>13
      <4>5. /\ Carried(sent, given, w, live, pend, text, more, left - n)
            /\ \A no, p, l : (n = left /\ ~ no) =>
                    Carried(sent, Append(given, more), w, live, pend, no, p, l)
        BY ONLY <1>a, <1>b, <1>c, <1>14, <1>15, <4>2, <4>a, <4>b, <4>c, <4>d, <4>e, <4>f, <4>g, <4>h, <4>i, CarriedText
      <4> QED BY ONLY <4>1, <4>5
    <3> QED BY <3>1, <3>2
  <2>3. more \in Strings /\ Len(more) \in Nat /\ Len(more) = Len(part) + n
    BY ONLY <1>13, <1>15, Zenon DEF Joined, Strings
  <2>4. CASE n = left
    <3>1. k = Idle
      BY ONLY <1>8, <2>1, <2>4
    <3>2. got = Append(b.got[e], more)
      BY ONLY <1>7, <1>23, <2>1, <2>4
    <3>3. got \in Seq(Strings)
      BY ONLY <1>11, <2>3, <3>2, AppendProperties
    <3>4. /\ k \in Call /\ CallOf(k) /\ Len(k.part) + k.left < LengthModulus /\ k.pieces = <<>>
          /\ k.op = "idle"
      <4>1. Len(k.part) + k.left = 0 /\ 0 < LengthModulus
        BY ONLY <3>1, IdleIs
      <4>2. Len(k.part) + k.left < LengthModulus
        BY ONLY <4>1
      <4> QED BY ONLY <3>1, <4>2, IdleIs
    <3>5. PICK no, p, l : no \in BOOLEAN /\ ~ no /\ p = k.part /\ l = k.left
      OBVIOUS
    <3>6. ~ torn => Carried(b.sent[o], Append(b.got[e], more), w, live, pend, no, p, l)
      BY ONLY <2>2, <2>4, <3>5
    <3>7. torn \/ \E t \in BOOLEAN : /\ t <=> k.op = "text"
                         /\ Carried(b.sent[o], got, w, live, pend, t, k.part, k.left)
      BY ONLY <3>2, <3>4, <3>5, <3>6
    <3> QED BY ONLY <1>20, <3>3, <3>4, <3>7
  <2>5. CASE n # left
    <3>1. n < left /\ ~ ended /\ left - n \in Nat
      BY ONLY <1>11, <1>12, <2>1, <2>5
    <3>2. PICK l : l = left - n
      OBVIOUS
    <3>3. k = [call[e] EXCEPT !.left = l, !.part = more]
      BY ONLY <1>8, <1>23, <2>1, <3>1, <3>2
    <3>4. got = b.got[e]
      BY ONLY <1>7, <3>1
    <3>5. /\ k.op = "text" /\ k.part = more /\ k.left = l /\ k.pieces = <<>> /\ k \in Call
      <4>1. PICK S, P : S = Seq(Octet) /\ P = Seq(Seq(Octet))
        OBVIOUS
      <4> QED BY ONLY <1>2, <1>3, <1>23, <2>3, <3>1, <3>2, <3>3, <4>1 DEF Call, Strings
    <3>6. CallOf(k) /\ Len(k.part) + k.left < LengthModulus
      <4>1. CallOf(k)
        BY ONLY <1>2, <3>5 DEF CallOf
      <4>2. Len(k.part) + k.left = Len(part) + left
        <5>1. Len(k.part) = Len(more) /\ k.left = left - n
          BY ONLY <3>2, <3>5
        <5>2. Len(more) = Len(part) + n /\ Len(part) \in Nat /\ left \in Nat /\ n \in Nat
          BY ONLY <1>11, <1>12, <2>3
        <5> QED BY ONLY <5>1, <5>2
      <4> QED BY ONLY <1>2, <1>3, <4>1, <4>2
    <3>7. torn \/ \E t \in BOOLEAN : /\ t <=> k.op = "text"
                         /\ Carried(b.sent[o], got, w, live, pend, t, k.part, k.left)
      BY ONLY <1>18, <2>1, <2>2, <3>2, <3>4, <3>5
    <3> QED BY ONLY <1>11, <1>20, <3>4, <3>5, <3>6, <3>7
  <2> QED BY <2>4, <2>5
<1> QED BY ONLY <1>1, <1>3, <1>21, <1>22, <1>23
-----------------------------------------------------------------------------
(* The acceptor's steps, and the client's connect.                         *)
LEMMA AcceptorOnly ==
    ASSUME IInv, UNCHANGED <<kind, waiting, chan, obj, call>>, acceptor' \in {"none", "made", "open"}
    PROVE  IInv'
<1>1. StreamsTypeOK' /\ DescriptorsHeld' /\ CallsInv' /\ BacklogInv'
  BY DEF IInv, StreamsTypeOK, DescriptorsHeld, CallsInv, BacklogInv, Conn
<1>2. StreamsInv'
  <2>1. ASSUME NEW id \in DOMAIN chan PROVE \A e \in Ends : Direction(id, e)'
    <3>1. \A e \in Ends : Direction(id, e)
      BY DEF IInv, StreamsInv
    <3>2. chan'[id] = chan[id] /\ \A a \in Ends : Conn(a)' = Conn(a) /\ call'[a] = call[a]
      BY DEF Conn
    <3> QED BY ONLY <3>1, <3>2, Unmoved
  <2> QED BY <2>1 DEF StreamsInv
<1> QED BY <1>1, <1>2 DEF IInv

LEMMA AcceptorClosesStep ==
    ASSUME IInv, AcceptorCloses PROVE IInv'
<1>1. /\ acceptor' = "made" /\ waiting' = <<>> /\ UNCHANGED <<kind, obj, call>>
      /\ chan' = [id \in DOMAIN chan |-> Refused(chan[id])]
  BY DEF AcceptorCloses
<1>2. /\ obj \in [Ends -> Object] /\ call \in [Ends -> Call] /\ chan \in Seq(Channel)
      /\ DOMAIN chan = 1 .. Len(chan) /\ Len(chan) \in Nat /\ DOMAIN chan' = DOMAIN chan
  <2>1. obj \in [Ends -> Object] /\ call \in [Ends -> Call] /\ chan \in Seq(Channel)
    BY DEF IInv, StreamsTypeOK
  <2>2. DOMAIN chan = 1 .. Len(chan) /\ Len(chan) \in Nat
    BY ONLY <2>1, LenProperties
  <2>3. DOMAIN chan' = DOMAIN chan
    BY ONLY <1>1
  <2> QED BY <2>1, <2>2, <2>3
<1>3. "server" \in Ends /\ "client" \in Ends /\ \A e \in Ends : e = "client" \/ e = "server"
  BY DEF Ends
<1>4. ASSUME NEW id \in DOMAIN chan
      PROVE  /\ chan'[id] \in Channel /\ \A a \in Ends : Len(chan'[id].wire[a]) <= Room
             /\ chan'[id].fd["server"] # "none" /\ chan'[id].fd["client"] = chan[id].fd["client"]
             /\ chan[id].fd["server"] # "none" => chan'[id] = chan[id]
             /\ chan'[id].sent = chan[id].sent /\ chan'[id].got = chan[id].got
             /\ chan'[id].torn = chan[id].torn
             /\ chan[id].fd["server"] = "none" =>
                    chan'[id].fd["server"] = "closed" /\ \A a \in Ends : chan'[id].wire[a] = <<>>
  <2>1. chan[id] \in Channel /\ \A a \in Ends : Len(chan[id].wire[a]) <= Room
    BY <1>3, LinkIs
  <2>2. PICK b, d : b = chan[id] /\ d = chan'[id]
    OBVIOUS
  <2>3. d = Refused(b)
    BY <1>1, <2>2
  <2>4. b \in Channel /\ \A a \in Ends : Len(b.wire[a]) <= Room
    BY ONLY <2>1, <2>2
  <2> QED BY ONLY <2>2, <2>3, <2>4, RefusedIs
<1>5. chan' \in Seq(Channel) /\ Len(chan') = Len(chan)
  <2>1. PICK f : f = [i \in 1 .. Len(chan) |-> chan'[i]]
    OBVIOUS
  <2>2. \A i \in 1 .. Len(chan) : chan'[i] \in Channel
    BY <1>2, <1>4
  <2>3. f \in [1 .. Len(chan) -> Channel]
    BY ONLY <2>1, <2>2
  <2>4. f \in Seq(Channel) /\ Len(f) = Len(chan)
    BY ONLY <1>2, <2>3
  <2>5. f = chan'
    BY ONLY <1>1, <1>2, <2>1
  <2> QED BY <2>4, <2>5
<1>6. Conn("client")' = Conn("client") /\ Conn("server")' = Conn("server")
      /\ \A a \in Ends : Conn(a)' = Conn(a)
  BY <1>1, <1>3 DEF Conn
<1>7. StreamsTypeOK'
  <2>1. \A i \in DOMAIN chan', a \in Ends : Len(chan'[i].wire[a]) <= Room
    BY <1>2, <1>4
  <2>2. waiting' \in Seq(DOMAIN chan')
    BY ONLY <1>1, EmptySeq
  <2> QED BY <1>1, <1>5, <2>1, <2>2 DEF IInv, StreamsTypeOK
<1>8. DescriptorsHeld'
  <2> SUFFICES ASSUME NEW i \in DOMAIN chan, NEW a \in Ends, chan'[i].fd[a] = "open"
               PROVE  Conn(a)' = i
    BY <1>2 DEF DescriptorsHeld
  <2>1. chan[i].fd[a] = "open"
    BY <1>3, <1>4
  <2>2. Conn(a) = i
    BY <2>1 DEF IInv, DescriptorsHeld
  <2> QED BY <1>4, <1>6, <2>2
<1>9. CallsInv'
  <2>1. ASSUME NEW a \in Ends, Conn(a) > 0
        PROVE  Conn(a) \in DOMAIN chan /\ chan'[Conn(a)].fd[a] = "open"
    <3>1. Conn(a) \in DOMAIN chan /\ chan[Conn(a)].fd[a] = "open"
      BY <2>1 DEF IInv, CallsInv
    <3>2. a = "server" => chan[Conn(a)].fd["server"] # "none"
      BY <3>1
    <3> QED BY <1>3, <1>4, <3>1, <3>2
  <2> QED BY <1>1, <1>2, <1>6, <2>1 DEF IInv, CallsInv
<1>10. BacklogInv'
  BY ONLY <1>1, <1>2, <1>4, NobodyWaits
<1>11. ASSUME NEW i \in DOMAIN chan PROVE \A a \in Ends : Direction(i, a)'
  <2>1. CASE chan[i].torn
    BY <1>4, <1>11, <2>1 DEF Direction
  <2>2. CASE chan[i].fd["server"] # "none"
    <3>1. \A a \in Ends : Direction(i, a)
      BY <1>11 DEF IInv, StreamsInv
    <3>2. chan'[i] = chan[i] /\ \A a \in Ends : Conn(a)' = Conn(a) /\ call'[a] = call[a]
      BY <1>1, <1>4, <1>6, <2>2
    <3> QED BY ONLY <3>1, <3>2, Unmoved
  <2>3. CASE ~ chan[i].torn /\ chan[i].fd["server"] = "none"
    <3>1. chan'[i] = Refused(chan[i]) /\ \A a \in Ends : Conn(a)' = Conn(a) /\ call'[a] = call[a]
      BY <1>1, <1>6, <1>11
    <3> QED BY ONLY IInv, i \in DOMAIN chan, <2>3, <3>1, RefusedCarries
  <2> QED BY <2>1, <2>2, <2>3
<1>12. StreamsInv'
  BY <1>2, <1>11 DEF StreamsInv
<1> QED BY <1>7, <1>8, <1>9, <1>10, <1>12 DEF IInv, LengthsFit

(* The first of the backlog gets its stream.  It is in the backlog once,   *)
(* so the others still wait.                                               *)
LEMMA AcceptStep ==
    ASSUME IInv, Accept PROVE IInv'
<1>1. /\ call["server"].op = "idle" /\ Conn("server") = 0 /\ waiting # <<>> /\ waiting' = Tail(waiting)
      /\ chan' = [chan EXCEPT ![Head(waiting)].fd["server"] = "open"]
      /\ obj' = [obj EXCEPT !["server"] = [NoObject EXCEPT !.conn = Head(waiting)]]
      /\ call' = [call EXCEPT !["server"] =
                    [Idle EXCEPT !.op = IF kind = "tls" THEN "handshake" ELSE "idle"]]
      /\ UNCHANGED <<kind, acceptor>>
  BY DEF Accept, Does, Free
<1>2. /\ obj \in [Ends -> Object] /\ call \in [Ends -> Call] /\ chan \in Seq(Channel)
      /\ DOMAIN chan = 1 .. Len(chan) /\ Len(chan) \in Nat /\ waiting \in Seq(DOMAIN chan)
      /\ Len(chan) <= MaxConnections /\ MaxConnections \in Nat
  <2>1. /\ obj \in [Ends -> Object] /\ call \in [Ends -> Call] /\ chan \in Seq(Channel)
        /\ waiting \in Seq(DOMAIN chan) /\ Len(chan) <= MaxConnections
    BY DEF IInv, StreamsTypeOK
  <2>2. DOMAIN chan = 1 .. Len(chan) /\ Len(chan) \in Nat
    BY ONLY <2>1, LenProperties
  <2> QED BY ONLY <2>1, <2>2, StreamAssumption
<1>3. "server" \in Ends /\ "client" \in Ends /\ \A e \in Ends : e = "client" \/ e = "server"
  BY DEF Ends
<1>4. PICK h, b, c, ob, op, k :
        /\ h = Head(waiting) /\ b = chan[h] /\ c = [b EXCEPT !.fd["server"] = "open"]
        /\ ob = [NoObject EXCEPT !.conn = h] /\ op = (IF kind = "tls" THEN "handshake" ELSE "idle")
        /\ k = [Idle EXCEPT !.op = op]
  OBVIOUS
<1>5. /\ h \in DOMAIN chan /\ h = waiting[1] /\ 1 \in DOMAIN waiting
      /\ waiting' \in Seq(DOMAIN chan) /\ Len(waiting') = Len(waiting) - 1 /\ Len(waiting) \in Nat
      /\ \A i \in DOMAIN waiting' : i + 1 \in DOMAIN waiting /\ waiting'[i] = waiting[i + 1]
  <2>1. PICK S : S = DOMAIN chan /\ waiting \in Seq(S)
    BY <1>2
  <2>2. h \in S /\ Tail(waiting) \in Seq(S) /\ Len(Tail(waiting)) = Len(waiting) - 1
        /\ Len(waiting) \in Nat
    BY ONLY <1>1, <1>4, <2>1, HeadTailProperties, LenProperties
  <2>3. h = waiting[1] /\ Len(waiting) # 0
    BY ONLY <1>1, <1>4, <2>1, EmptySeq
  <2>4. DOMAIN waiting = 1 .. Len(waiting) /\ DOMAIN Tail(waiting) = 1 .. Len(Tail(waiting))
    BY ONLY <2>1, <2>2, LenProperties
  <2>5. \A i \in 1 .. Len(Tail(waiting)) : Tail(waiting)[i] = waiting[i + 1]
    BY ONLY <1>1, <2>1, HeadTailProperties
  <2>6. \A i \in 1 .. Len(Tail(waiting)) : i + 1 \in 1 .. Len(waiting)
    BY ONLY <2>2
  <2>7. 1 \in 1 .. Len(waiting)
    BY ONLY <2>2, <2>3
  <2> QED BY ONLY <1>1, <2>1, <2>2, <2>3, <2>4, <2>5, <2>6, <2>7
<1>6. b.fd["server"] = "none" /\ b.sent["server"] = <<>> /\ b.got["server"] = <<>>
      /\ \A i \in DOMAIN waiting' : waiting'[i] # h /\ waiting'[i] \in DOMAIN chan
  <2>1. b.fd["server"] = "none"
    BY <1>4, <1>5 DEF IInv, BacklogInv
  <2>2. b.sent["server"] = <<>> /\ b.got["server"] = <<>>
    BY <1>4, <1>5, <2>1 DEF IInv, BacklogInv
  <2>3. ASSUME NEW i \in DOMAIN waiting' PROVE waiting'[i] # h /\ waiting'[i] \in DOMAIN chan
    <3>1. PICK j : j = i + 1 /\ j \in DOMAIN waiting /\ waiting'[i] = waiting[j]
      BY ONLY <1>5, <2>3
    <3>2. j # 1
      <4>1. i \in 1 .. Len(waiting')
        BY ONLY <1>5, <2>3, LenProperties
      <4> QED BY ONLY <1>5, <3>1, <4>1
    <3>3. waiting[j] # waiting[1]
      BY <1>5, <3>1, <3>2 DEF IInv, BacklogInv
    <3>4. waiting[j] \in DOMAIN chan
      BY <1>2, <3>1 DEF IInv, StreamsTypeOK
    <3> QED BY ONLY <1>5, <3>1, <3>3, <3>4
  <2> QED BY <2>1, <2>2, <2>3
<1>7. /\ b \in Channel /\ \A a \in Ends : Len(b.wire[a]) <= Room
      /\ c \in Channel /\ c.fd["server"] = "open" /\ c.fd["client"] = b.fd["client"]
      /\ c.wire = b.wire /\ c.sent = b.sent /\ c.got = b.got /\ c.torn = b.torn
  <2>1. b \in Channel /\ \A a \in Ends : Len(b.wire[a]) <= Room
    BY <1>3, <1>4, <1>5, LinkIs
  <2> QED BY ONLY <1>3, <1>4, <2>1 DEF Channel
<1>8. chan' = [chan EXCEPT ![h] = c]
  BY ONLY <1>1, <1>2, <1>4, <1>5, <1>7
<1>9. /\ chan' \in Seq(Channel) /\ Len(chan') = Len(chan) /\ DOMAIN chan' = DOMAIN chan
      /\ chan'[h] = c /\ \A i \in DOMAIN chan : i # h => chan'[i] = chan[i]
  BY ONLY <1>2, <1>5, <1>7, <1>8, ExceptSeq
<1>10. /\ ob \in Object /\ ob.conn = h /\ h > 0 /\ k.op = op /\ op \in {"handshake", "idle"}
       /\ k \in Call /\ CallOf(k) /\ Len(k.part) + k.left < LengthModulus /\ k.pieces = <<>>
  <2>1. h > 0 /\ h \in -1 .. MaxConnections
    BY ONLY <1>2, <1>5
  <2>2. ob \in Object /\ ob.conn = h
    BY ONLY <1>4, <2>1 DEF Object, NoObject
  <2>3. op \in {"handshake", "idle"}
    BY ONLY <1>4
  <2>4. k.part = Idle.part /\ k.left = Idle.left /\ k.op = op /\ k.pieces = Idle.pieces
    BY ONLY <1>4 DEF Idle
  <2>5. k \in Call
    BY ONLY <1>4, <2>3, IdleIs DEF Call, Idle
  <2>6. Len(k.part) + k.left < LengthModulus
    BY ONLY <2>4, IdleIs
  <2>7. CallOf(k)
    BY ONLY <2>3, <2>4, IdleIs DEF CallOf
  <2> QED BY ONLY <2>1, <2>2, <2>3, <2>4, <2>5, <2>6, <2>7, IdleIs
<1>11. /\ obj'["server"] = ob /\ obj'["client"] = obj["client"]
       /\ call'["server"] = k /\ call'["client"] = call["client"]
       /\ obj' \in [Ends -> Object] /\ call' \in [Ends -> Call]
  BY ONLY <1>1, <1>2, <1>3, <1>4, <1>10
<1>12. Conn("server")' = h /\ Conn("client")' = Conn("client")
  BY ONLY <1>10, <1>11 DEF Conn
<1>13. StreamsTypeOK'
  <2>1. \A i \in DOMAIN chan', a \in Ends : Len(chan'[i].wire[a]) <= Room
    BY <1>7, <1>9 DEF IInv, StreamsTypeOK
  <2>2. \A a \in Ends : Len(call'[a].part) + call'[a].left < LengthModulus
    BY <1>3, <1>10, <1>11 DEF IInv, StreamsTypeOK
  <2>3. waiting' \in Seq(DOMAIN chan')
    BY ONLY <1>5, <1>9
  <2> QED BY <1>1, <1>9, <1>11, <2>1, <2>2, <2>3 DEF IInv, StreamsTypeOK
<1>14. DescriptorsHeld'
  <2> SUFFICES ASSUME NEW i \in DOMAIN chan, NEW a \in Ends, chan'[i].fd[a] = "open"
               PROVE  Conn(a)' = i
    BY <1>9 DEF DescriptorsHeld
  <2>1. CASE i = h /\ a = "server"
    BY <1>12, <2>1
  <2>2. CASE i # h \/ a = "client"
    <3>1. chan[i].fd[a] = "open"
      <4>1. CASE i # h
        BY <1>9, <4>1
      <4>2. CASE i = h /\ a = "client"
        BY ONLY <1>4, <1>7, <1>9, <4>2, chan'[i].fd[a] = "open"
      <4> QED BY <2>2, <4>1, <4>2
    <3>2. Conn(a) = i
      BY <3>1 DEF IInv, DescriptorsHeld
    <3>3. i # 0
      BY <1>2
    <3> QED BY <1>1, <1>3, <1>4, <1>7, <1>9, <1>12, <2>2, <3>2, <3>3
  <2> QED BY <1>3, <2>1, <2>2
<1>15. CallsInv'
  <2>1. Conn("client") > 0 => Conn("client") \in DOMAIN chan /\ chan'[Conn("client")].fd["client"] = "open"
    <3>1. Conn("client") > 0 => Conn("client") \in DOMAIN chan /\ chan[Conn("client")].fd["client"] = "open"
      BY <1>3 DEF IInv, CallsInv
    <3> QED BY <1>4, <1>7, <1>9, <3>1
  <2>2. CallOf(call["client"]) /\ (call["client"].op \notin {"idle", "dead"} => Conn("client") > 0)
    BY <1>3 DEF IInv, CallsInv, CallOf
  <2>3. ASSUME NEW a \in Ends
        PROVE  /\ Conn(a)' > 0 => Conn(a)' \in DOMAIN chan' /\ chan'[Conn(a)'].fd[a] = "open"
               /\ call'[a].op \notin {"idle", "dead"} => Conn(a)' > 0
               /\ CallOf(call'[a])
    <3>1. CASE a = "server"
      BY ONLY <1>5, <1>7, <1>9, <1>10, <1>11, <1>12, <3>1
    <3>2. CASE a = "client"
      BY ONLY <1>9, <1>11, <1>12, <2>1, <2>2, <3>2
    <3> QED BY <1>3, <3>1, <3>2
  <2> QED BY <2>3 DEF CallsInv, CallOf
<1>16. BacklogInv'
  <2>1. \A i \in DOMAIN waiting' : chan'[waiting'[i]].fd["server"] = "none"
    <3> SUFFICES ASSUME NEW i \in DOMAIN waiting' PROVE chan'[waiting'[i]].fd["server"] = "none"
      OBVIOUS
    <3>1. chan'[waiting'[i]] = chan[waiting'[i]]
      BY ONLY <1>6, <1>9, i \in DOMAIN waiting'
    <3>2. PICK j \in DOMAIN waiting : waiting'[i] = waiting[j]
      BY ONLY <1>5, i \in DOMAIN waiting'
    <3>3. chan[waiting[j]].fd["server"] = "none"
      BY DEF IInv, BacklogInv
    <3> QED BY <3>1, <3>2, <3>3
  <2>2. \A i, j \in DOMAIN waiting' : i # j => waiting'[i] # waiting'[j]
    <3> SUFFICES ASSUME NEW i \in DOMAIN waiting', NEW j \in DOMAIN waiting', i # j
                 PROVE  waiting'[i] # waiting'[j]
      OBVIOUS
    <3>1. i \in 1 .. Len(waiting') /\ j \in 1 .. Len(waiting')
      BY ONLY <1>5, LenProperties, i \in DOMAIN waiting', j \in DOMAIN waiting'
    <3>2. PICK i1 \in DOMAIN waiting, j1 \in DOMAIN waiting :
                i1 = i + 1 /\ j1 = j + 1 /\ waiting'[i] = waiting[i1] /\ waiting'[j] = waiting[j1]
      BY ONLY <1>5, i \in DOMAIN waiting', j \in DOMAIN waiting'
    <3>3. i1 # j1
      BY ONLY <3>1, <3>2, i # j
    <3>4. waiting[i1] # waiting[j1]
      BY <3>3 DEF IInv, BacklogInv
    <3> QED BY <3>2, <3>4
  <2>3. \A id \in DOMAIN chan' : chan'[id].fd["server"] = "none" =>
            chan'[id].sent["server"] = <<>> /\ chan'[id].got["server"] = <<>>
    BY <1>7, <1>9 DEF IInv, BacklogInv
  <2> QED BY ONLY <2>1, <2>2, <2>3 DEF BacklogInv
<1>17. ASSUME NEW i \in DOMAIN chan PROVE \A a \in Ends : Direction(i, a)'
  <2>1. CASE i # h
    <3>1. \A a \in Ends : Direction(i, a)
      BY <1>17 DEF IInv, StreamsInv
    <3>2. chan'[i] = chan[i] /\ i # 0
      BY <1>2, <1>9, <1>17, <2>1
    <3>3. \A a \in Ends : \/ Conn(a)' = Conn(a) /\ call'[a] = call[a]
                          \/ Conn(a)' # i /\ (Conn(a) = i => call[a].op # "text")
      BY <1>1, <1>3, <1>11, <1>12, <2>1, <3>2
    <3> QED BY ONLY <3>1, <3>2, <3>3, Unmoved
  <2>2. CASE i = h
    <3>0. CASE c.torn
      BY <1>9, <2>2, <3>0 DEF Direction
    <3>a. CASE ~ c.torn
      <4>1. PICK live, live2, text, part, left, none :
            /\ live2 = (Conn("server")' = i /\ c.fd["client"] # "closed")
            /\ live = (Conn("server") = i /\ b.fd["client"] # "closed")
            /\ text = (Conn("client") = i /\ call["client"].op = "text")
            /\ part = call["client"].part /\ left = call["client"].left /\ none = <<>>
        OBVIOUS
      <4>2. PICK sent, got, wire, pend : /\ sent = b.sent["server"] /\ got = b.got["client"]
                                   /\ wire = b.wire["client"] /\ pend = Pending("server")
        OBVIOUS
      <4>3. Carried(sent, got, wire, live, pend, text, part, left)
        <5>1. Direction(i, "server")
          BY <1>3, <1>17 DEF IInv, StreamsInv
        <5> QED BY <1>4, <1>7, <2>2, <3>a, <4>1, <4>2, <5>1, TwoEnds DEF Direction
      <4>4. sent \in Seq(Strings) /\ got \in Seq(Strings) /\ wire \in Strings /\ part \in Strings
        BY <1>3, <1>4, <1>5, <4>1, <4>2, LinkIs
      <4>5. Len(sent) = 0
        BY ONLY <1>6, <4>2
      <4>6. Carried(sent, got, wire, live2, <<>>, text, part, left)
        BY ONLY <4>3, <4>4, <4>5, CarriedNone
      <4>7. Pending("server")' = none
        <5>1. FlattenSeq(<<>>) = <<>>
          BY ONLY <4>4, Flattened DEF Strings
        <5>2. call'["server"].pieces = <<>>
          BY ONLY <1>10, <1>11
        <5> QED BY ONLY <4>1, <5>1, <5>2 DEF Pending
      <4>8. /\ text = (Conn("client")' = i /\ call'["client"].op = "text")
            /\ part = call'["client"].part /\ left = call'["client"].left
        BY ONLY <1>11, <1>12, <4>1
      <4>9. chan'[i].sent["server"] = sent /\ chan'[i].got["client"] = got
            /\ chan'[i].wire["client"] = wire /\ chan'[i].fd["client"] = c.fd["client"]
        BY ONLY <1>7, <1>9, <2>2, <4>2
      <4>10. Direction(i, "server")'
        BY ONLY <4>1, <4>6, <4>7, <4>8, <4>9, TwoEnds DEF Direction
      <4>11. Direction(i, "client")'
        <5>1. PICK liv, liv2, pen, tex, tex2, par, lef, par2, lef2 :
              /\ liv = (Conn("client") = i /\ b.fd["server"] # "closed")
              /\ liv2 = (Conn("client")' = i /\ c.fd["server"] # "closed")
              /\ pen = Pending("client")
              /\ tex = (Conn("server") = i /\ call["server"].op = "text")
              /\ tex2 = (Conn("server")' = i /\ call'["server"].op = "text")
              /\ par = call["server"].part /\ lef = call["server"].left
              /\ par2 = call'["server"].part /\ lef2 = call'["server"].left
          OBVIOUS
        <5>2. PICK sen, go, wir : sen = b.sent["client"] /\ go = b.got["server"] /\ wir = b.wire["server"]
          OBVIOUS
        <5>3. Carried(sen, go, wir, liv, pen, tex, par, lef)
          <6>1. Direction(i, "client")
            BY <1>3, <1>17 DEF IInv, StreamsInv
          <6> QED BY <1>4, <1>7, <2>2, <3>a, <5>1, <5>2, <6>1, TwoEnds DEF Direction
        <5>4. ~ tex /\ ~ tex2
          BY ONLY <1>1, <1>10, <1>11, <5>1
        <5>5. liv2 => liv /\ pen = pen
          BY ONLY <1>6, <1>12, <5>1
        <5>6. (tex2 <=> tex) /\ (tex2 => par2 = par /\ lef2 = lef)
          BY ONLY <5>4
        <5>7. Carried(sen, go, wir, liv2, pen, tex2, par2, lef2)
          BY ONLY <5>3, <5>5, <5>6, CarriedWeaker
        <5>8. Pending("client")' = pen
          BY ONLY <1>11, <5>1 DEF Pending
        <5>9. chan'[i].sent["client"] = sen /\ chan'[i].got["server"] = go
              /\ chan'[i].wire["server"] = wir /\ chan'[i].fd["server"] = c.fd["server"]
          BY ONLY <1>7, <1>9, <2>2, <5>2
        <5> QED BY ONLY <5>1, <5>7, <5>8, <5>9, TwoEnds DEF Direction
      <4> QED BY <1>3, <4>10, <4>11
    <3> QED BY <3>0, <3>a
  <2> QED BY <2>1, <2>2
<1>18. StreamsInv'
  BY <1>9, <1>17 DEF StreamsInv
<1> QED BY <1>13, <1>14, <1>15, <1>16, <1>18 DEF IInv, LengthsFit

(* A new connection has no bytes yet, and no end's stream was on it.       *)
LEMMA ConnectedStep ==
    ASSUME IInv, Free("client"), Conn("client") = 0, ConnectSucceeds, UNCHANGED <<kind, acceptor>>
    PROVE  IInv'
<1>1. call["client"].op = "idle" /\ Conn("client") = 0 /\ Len(chan) < MaxConnections
  BY DEF ConnectSucceeds, Free
<1>2. /\ obj \in [Ends -> Object] /\ call \in [Ends -> Call] /\ chan \in Seq(Channel)
      /\ DOMAIN chan = 1 .. Len(chan) /\ Len(chan) \in Nat /\ waiting \in Seq(DOMAIN chan)
      /\ DOMAIN waiting = 1 .. Len(waiting) /\ Len(waiting) \in Nat /\ MaxConnections \in Nat
  <2>1. obj \in [Ends -> Object] /\ call \in [Ends -> Call] /\ chan \in Seq(Channel)
        /\ waiting \in Seq(DOMAIN chan)
    BY DEF IInv, StreamsTypeOK
  <2>2. DOMAIN chan = 1 .. Len(chan) /\ Len(chan) \in Nat
    BY ONLY <2>1, LenProperties
  <2>3. PICK S : S = DOMAIN chan /\ waiting \in Seq(S)
    BY <2>1
  <2>4. DOMAIN waiting = 1 .. Len(waiting) /\ Len(waiting) \in Nat
    BY ONLY <2>3, LenProperties
  <2> QED BY ONLY <2>1, <2>2, <2>4, StreamAssumption
<1>3. "server" \in Ends /\ "client" \in Ends /\ \A e \in Ends : e = "client" \/ e = "server"
  BY DEF Ends
<1>4. obj["client"] \in Object /\ obj["client"].conn = 0
  BY <1>1, <1>2, <1>3 DEF Conn
<1>5. IInv'
  <2>1. PICK n, none, c, ob, op, k :
          /\ n = Len(chan) + 1 /\ none = <<>>
          /\ c = [wire |-> [e \in Ends |-> none],
                  fd |-> [e \in Ends |-> IF e = "client" THEN "open" ELSE "none"],
                  sent |-> [e \in Ends |-> none], got |-> [e \in Ends |-> none],
                  up |-> {}, keys |-> [e \in Ends |-> "own"], torn |-> FALSE, reset |-> FALSE]
          /\ ob = [obj["client"] EXCEPT !.conn = n, !.timed = TRUE]
          /\ op = (IF kind = "tls" THEN "handshake" ELSE "idle")
          /\ k = [Idle EXCEPT !.op = op]
    OBVIOUS
  <2>2. none \in Seq(Octet) /\ none \in Seq(Seq(Octet)) /\ Len(none) = 0
    BY ONLY <2>1, EmptySeq
  <2>3. /\ c \in Channel /\ c.fd["client"] = "open" /\ c.fd["server"] = "none" /\ c.torn = FALSE
        /\ \A e \in Ends : c.wire[e] = none /\ c.sent[e] = none /\ c.got[e] = none
    <3>1. PICK none1, wires, fds, strings, keys :
            /\ none1 = none /\ wires = [e \in Ends |-> none]
            /\ fds = [e \in Ends |-> IF e = "client" THEN "open" ELSE "none"]
            /\ strings = [e \in Ends |-> none] /\ keys = [e \in Ends |-> "own"]
      OBVIOUS
    <3>2. /\ wires \in [Ends -> Seq(Octet)] /\ strings \in [Ends -> Seq(Seq(Octet))]
          /\ \A e \in Ends : wires[e] = none /\ strings[e] = none
      <4>1. PICK S, T : S = Seq(Octet) /\ T = Seq(Seq(Octet))
        OBVIOUS
      <4> QED BY ONLY <2>2, <3>1, <4>1
    <3>3. /\ fds \in [Ends -> {"none", "open", "leaked", "closed"}] /\ fds["client"] = "open"
          /\ fds["server"] = "none" /\ keys \in [Ends -> {"own", "client's", "twice"}]
      BY ONLY <1>3, <3>1
    <3>4. c = [wire |-> wires, fd |-> fds, sent |-> strings, got |-> strings, up |-> {},
               keys |-> keys, torn |-> FALSE, reset |-> FALSE]
      BY ONLY <2>1, <3>1
    <3>5. {} \in SUBSET Ends
      OBVIOUS
    <3>6. c \in Channel
      BY ONLY <3>2, <3>3, <3>4, <3>5 DEF Channel
    <3> QED BY ONLY <3>2, <3>3, <3>4, <3>6
  <2>4. chan' = Append(chan, c)
    BY <2>1 DEF ConnectSucceeds
  <2>5. /\ chan' \in Seq(Channel) /\ Len(chan') = n /\ chan'[n] = c
        /\ \A i \in DOMAIN chan : chan'[i] = chan[i]
        /\ DOMAIN chan' = 1 .. n /\ n \in Nat /\ n > 0 /\ n \notin DOMAIN chan /\ n <= MaxConnections
    <3>1. /\ chan' \in Seq(Channel) /\ Len(chan') = Len(chan) + 1 /\ chan'[Len(chan) + 1] = c
          /\ \A i \in 1 .. Len(chan) : chan'[i] = chan[i]
      BY ONLY <1>2, <2>3, <2>4, AppendProperties
    <3>2. DOMAIN chan' = 1 .. Len(chan')
      BY ONLY <3>1, LenProperties
    <3>3. n \in Nat /\ n > 0 /\ n \notin 1 .. Len(chan) /\ n <= MaxConnections
      BY ONLY <1>1, <1>2, <2>1
    <3> QED BY ONLY <1>2, <2>1, <3>1, <3>2, <3>3
  <2>6. /\ waiting' = Append(waiting, n) /\ obj' = [obj EXCEPT !["client"] = ob]
        /\ call' = [call EXCEPT !["client"] = k]
    <3>1. Len(chan') = n
      BY <2>5
    <3>2. /\ waiting' = Append(waiting, Len(chan'))
          /\ obj' = [obj EXCEPT !["client"] = [@ EXCEPT !.conn = Len(chan'), !.timed = TRUE]]
          /\ call' = [call EXCEPT !["client"] =
                        [Idle EXCEPT !.op = IF kind = "tls" THEN "handshake" ELSE "idle"]]
      BY DEF ConnectSucceeds, Does
    <3> QED BY ONLY <2>1, <3>1, <3>2
  <2>7. /\ ob \in Object /\ ob.conn = n /\ k.op = op /\ op \in {"handshake", "idle"}
        /\ k \in Call /\ CallOf(k) /\ Len(k.part) + k.left < LengthModulus /\ k.pieces = <<>>
    <3>1. n \in -1 .. MaxConnections
      BY ONLY <1>2, <2>5
    <3>2. ob \in Object /\ ob.conn = n
      BY ONLY <1>4, <2>1, <3>1 DEF Object
    <3>3. op \in {"handshake", "idle"}
      BY ONLY <2>1
    <3>4. k.part = Idle.part /\ k.left = Idle.left /\ k.op = op /\ k.pieces = Idle.pieces
      BY ONLY <2>1 DEF Idle
    <3>5. k \in Call
      BY ONLY <2>1, <3>3, IdleIs DEF Call, Idle
    <3>6. Len(k.part) + k.left < LengthModulus
      BY ONLY <3>4, IdleIs
    <3>7. CallOf(k)
      BY ONLY <3>3, <3>4, IdleIs DEF CallOf
    <3> QED BY ONLY <3>2, <3>3, <3>4, <3>5, <3>6, <3>7, IdleIs
  <2>8. /\ obj'["client"] = ob /\ obj'["server"] = obj["server"]
        /\ call'["client"] = k /\ call'["server"] = call["server"]
        /\ obj' \in [Ends -> Object] /\ call' \in [Ends -> Call]
    BY ONLY <1>2, <1>3, <2>6, <2>7
  <2>9. Conn("client")' = n /\ Conn("server")' = Conn("server")
    BY ONLY <2>7, <2>8 DEF Conn
  <2>10. /\ Len(waiting') = Len(waiting) + 1 /\ DOMAIN waiting' = 1 .. Len(waiting')
         /\ waiting' \in Seq(DOMAIN chan') /\ waiting'[Len(waiting) + 1] = n
         /\ \A i \in DOMAIN waiting : waiting'[i] = waiting[i] /\ waiting[i] \in DOMAIN chan
    <3>1. PICK S : S = DOMAIN chan'
      OBVIOUS
    <3>2. \A i \in DOMAIN waiting : waiting[i] \in DOMAIN chan
      BY DEF IInv, StreamsTypeOK
    <3>3. DOMAIN chan \subseteq S /\ n \in S
      BY ONLY <1>2, <2>1, <2>5, <3>1
    <3>4. waiting \in Seq(S)
      <4>1. PICK D : D = DOMAIN chan /\ waiting \in Seq(D) /\ D \subseteq S
        BY ONLY <1>2, <3>3
      <4> QED BY ONLY <1>2, <4>1
    <3>5. /\ waiting' \in Seq(S) /\ Len(waiting') = Len(waiting) + 1
          /\ waiting'[Len(waiting) + 1] = n /\ \A i \in 1 .. Len(waiting) : waiting'[i] = waiting[i]
      BY ONLY <2>6, <3>3, <3>4, AppendProperties
    <3>6. DOMAIN waiting' = 1 .. Len(waiting')
      BY ONLY <3>5, LenProperties
    <3> QED BY ONLY <1>2, <3>1, <3>2, <3>5, <3>6
  <2>11. StreamsTypeOK'
    <3>1. \A i \in DOMAIN chan', a \in Ends : Len(chan'[i].wire[a]) <= Room
      <4>1. \A a \in Ends : Len(c.wire[a]) <= Room
        BY ONLY <2>2, <2>3, StreamAssumption
      <4>2. \A i \in DOMAIN chan, a \in Ends : Len(chan'[i].wire[a]) <= Room
        BY <2>5 DEF IInv, StreamsTypeOK
      <4>3. \A i \in DOMAIN chan' : i = n \/ i \in DOMAIN chan
        BY ONLY <1>2, <2>1, <2>5
      <4> QED BY ONLY <2>5, <4>1, <4>2, <4>3
    <3>2. \A a \in Ends : Len(call'[a].part) + call'[a].left < LengthModulus
      BY <1>3, <2>7, <2>8 DEF IInv, StreamsTypeOK
    <3> QED BY <1>1, <2>5, <2>8, <2>10, <3>1, <3>2 DEF IInv, StreamsTypeOK
  <2>12. \A i \in DOMAIN chan' : i = n \/ (i \in DOMAIN chan /\ i # n /\ i # 0)
    BY ONLY <1>2, <2>1, <2>5
  <2>13. DescriptorsHeld'
    <3> SUFFICES ASSUME NEW i \in DOMAIN chan', NEW a \in Ends, chan'[i].fd[a] = "open"
                 PROVE  Conn(a)' = i
      BY DEF DescriptorsHeld
    <3>1. CASE i = n
      BY <1>3, <2>3, <2>5, <2>9, <3>1
    <3>2. CASE i # n
      <4>1. i \in DOMAIN chan /\ i # 0 /\ chan'[i] = chan[i]
        BY <2>5, <2>12, <3>2
      <4>2. Conn(a) = i
        BY <4>1 DEF IInv, DescriptorsHeld
      <4> QED BY <1>1, <1>3, <2>9, <4>1, <4>2
    <3> QED BY <3>1, <3>2
  <2>14. CallsInv'
    <3>1. Conn("server") > 0 => Conn("server") \in DOMAIN chan /\ chan[Conn("server")].fd["server"] = "open"
      BY <1>3 DEF IInv, CallsInv
    <3>2. CallOf(call["server"]) /\ (call["server"].op \notin {"idle", "dead"} => Conn("server") > 0)
      BY <1>3 DEF IInv, CallsInv, CallOf
    <3>3. \A i \in DOMAIN chan : i \in DOMAIN chan'
      BY ONLY <1>2, <2>1, <2>5
    <3>4. ASSUME NEW a \in Ends
          PROVE  /\ Conn(a)' > 0 => Conn(a)' \in DOMAIN chan' /\ chan'[Conn(a)'].fd[a] = "open"
                 /\ call'[a].op \notin {"idle", "dead"} => Conn(a)' > 0
                 /\ CallOf(call'[a])
      <4>1. CASE a = "client"
        BY ONLY <2>3, <2>5, <2>7, <2>8, <2>9, <4>1
      <4>2. CASE a = "server"
        BY ONLY <2>5, <2>8, <2>9, <3>1, <3>2, <3>3, <4>2
      <4> QED BY <1>3, <4>1, <4>2
    <3> QED BY <3>4 DEF CallsInv, CallOf
  <2>15. BacklogInv'
    <3>1. \A i \in DOMAIN waiting' : i = Len(waiting) + 1 \/ i \in DOMAIN waiting
      BY ONLY <1>2, <2>10
    <3>2. \A i \in DOMAIN waiting' : chan'[waiting'[i]].fd["server"] = "none"
      <4>1. \A i \in DOMAIN waiting : chan[waiting[i]].fd["server"] = "none"
        BY DEF IInv, BacklogInv
      <4> QED BY ONLY <2>3, <2>5, <2>10, <3>1, <4>1
    <3>3. \A i, j \in DOMAIN waiting' : i # j => waiting'[i] # waiting'[j]
      <4>1. \A i, j \in DOMAIN waiting : i # j => waiting[i] # waiting[j]
        BY DEF IInv, BacklogInv
      <4>2. \A i \in DOMAIN waiting : waiting'[i] # n
        BY ONLY <2>5, <2>10
      <4> QED BY ONLY <2>10, <3>1, <4>1, <4>2
    <3>4. \A id \in DOMAIN chan' : chan'[id].fd["server"] = "none" =>
              chan'[id].sent["server"] = <<>> /\ chan'[id].got["server"] = <<>>
      <4>1. c.sent["server"] = <<>> /\ c.got["server"] = <<>>
        BY ONLY <1>3, <2>1, <2>3
      <4>2. \A id \in DOMAIN chan : chan[id].fd["server"] = "none" =>
              chan[id].sent["server"] = <<>> /\ chan[id].got["server"] = <<>>
        BY DEF IInv, BacklogInv
      <4> QED BY ONLY <2>5, <2>12, <4>1, <4>2
    <3> QED BY ONLY <3>2, <3>3, <3>4 DEF BacklogInv
  <2>16. ASSUME NEW i \in DOMAIN chan' PROVE \A a \in Ends : Direction(i, a)'
    <3>1. CASE i # n
      <4>1. i \in DOMAIN chan /\ i # 0 /\ i # n /\ chan'[i] = chan[i]
        BY <2>5, <2>12, <2>16, <3>1
      <4>2. \A a \in Ends : Direction(i, a)
        BY <4>1 DEF IInv, StreamsInv
      <4>3. \A a \in Ends : \/ Conn(a)' = Conn(a) /\ call'[a] = call[a]
                            \/ Conn(a)' # i /\ (Conn(a) = i => call[a].op # "text")
        BY <1>1, <1>3, <2>8, <2>9, <4>1
      <4> QED BY ONLY <4>1, <4>2, <4>3, Unmoved
    <3>2. CASE i = n
      <4>1. Conn("server")' # n
        <5>1. Conn("server") > 0 => Conn("server") \in DOMAIN chan
          BY <1>3 DEF IInv, CallsInv
        <5> QED BY ONLY <2>5, <2>9, <5>1
      <4>2. call'["client"].op # "text" /\ call'["client"].pieces = <<>>
        BY ONLY <2>7, <2>8
      <4> SUFFICES ASSUME NEW a \in Ends PROVE Direction(i, a)'
        OBVIOUS
      <4>3. PICK o, live, pend, text, part, left :
              /\ o = Other(a) /\ live = (Conn(a)' = n /\ c.fd[o] # "closed") /\ pend = Pending(a)'
              /\ text = (Conn(o)' = n /\ call'[o].op = "text")
              /\ part = call'[o].part /\ left = call'[o].left
        OBVIOUS
      <4>4. o \in Ends /\ (a = "client" \/ a = "server") /\ (a # o)
        BY ONLY <1>3, <4>3, TwoEnds, a \in Ends
      <4>5. ~ text
        BY ONLY <1>3, <4>1, <4>2, <4>3, <4>4
      <4>6. Carried(<<>>, <<>>, <<>>, live, <<>>, text, part, left)
        BY ONLY <4>5, CarriedNew
      <4>7. live => live /\ pend = <<>>
        <5>1. CASE a = "client"
          <6>1. FlattenSeq(<<>>) = <<>>
            BY ONLY <2>2, Flattened
          <6> QED BY ONLY <4>2, <4>3, <5>1, <6>1 DEF Pending
        <5>2. CASE a = "server"
          BY ONLY <4>1, <4>3, <5>2
        <5> QED BY ONLY <4>4, <5>1, <5>2
      <4>8. PICK nothing : nothing = <<>>
        OBVIOUS
      <4>9. Carried(nothing, nothing, nothing, live, nothing, text, part, left)
            /\ (live => live /\ pend = nothing)
        BY ONLY <4>6, <4>7, <4>8
      <4>10. (text <=> text) /\ (text => part = part /\ left = left)
        OBVIOUS
      <4>11. Carried(nothing, nothing, nothing, live, pend, text, part, left)
        BY ONLY <4>9, <4>10, CarriedWeaker
      <4>12. chan'[i].sent[a] = nothing /\ chan'[i].got[o] = nothing /\ chan'[i].wire[o] = nothing
             /\ chan'[i].fd[o] = c.fd[o]
        BY ONLY <2>1, <2>3, <2>5, <3>2, <4>4, <4>8, a \in Ends
      <4> QED BY ONLY <3>2, <4>3, <4>11, <4>12 DEF Direction
    <3> QED BY <3>1, <3>2
  <2>17. StreamsInv'
    BY <2>16 DEF StreamsInv
  <2> QED BY <2>11, <2>13, <2>14, <2>15, <2>17 DEF IInv, LengthsFit
<1> QED BY <1>5

(* A connect that fails leaves a socket, or none.                          *)
LEMMA NotConnectedStep ==
    ASSUME IInv, Conn("client") = 0, ConnectFails, UNCHANGED <<kind, acceptor>>
    PROVE  IInv'
<1>1. "client" \in Ends /\ obj["client"] \in Object /\ MaxConnections \in Nat
  BY StreamAssumption DEF Ends, IInv, StreamsTypeOK
<1>2. PICK made \in BOOLEAN :
        obj' = [obj EXCEPT !["client"] = [@ EXCEPT !.conn = IF made THEN -1 ELSE 0, !.timed = made]]
  BY DEF ConnectFails
<1>3. PICK m, ob : m = (IF made THEN -1 ELSE 0) /\ ob = [obj["client"] EXCEPT !.conn = m, !.timed = made]
  OBVIOUS
<1>4. m \in -1 .. MaxConnections /\ ~ m > 0
  BY ONLY <1>1, <1>3
<1>5. ob \in Object /\ ob.conn = m
  BY ONLY <1>1, <1>3, <1>4, made \in BOOLEAN DEF Object
<1>6. obj' = [obj EXCEPT !["client"] = ob]
  BY <1>2, <1>3 DEF IInv, StreamsTypeOK
<1>7. UNCHANGED <<kind, acceptor, waiting, chan, call>>
  BY DEF ConnectFails
<1>8. ~ Conn("client") > 0 /\ ~ ob.conn > 0
  BY ONLY <1>4, <1>5, Conn("client") = 0
<1> QED BY ONLY IInv, <1>1, <1>5, <1>6, <1>7, <1>8, ObjectStep

LEMMA ConnectStep ==
    ASSUME IInv, Connect PROVE IInv'
<1>1. "client" \in Ends
  BY DEF Ends
<1>2. CASE Conn("client") # 0
  BY <1>1, <1>2, DiesStep DEF Connect
<1>3. CASE Conn("client") = 0
  BY <1>3, ConnectedStep, NotConnectedStep DEF Connect
<1> QED BY <1>2, <1>3
-----------------------------------------------------------------------------
LEMMA InitInv == LengthsFit /\ Init => IInv
<1> SUFFICES ASSUME LengthsFit, Init PROVE IInv
  OBVIOUS
<1>1. /\ kind \in Kinds /\ acceptor = "none" /\ waiting = <<>> /\ chan = <<>>
      /\ obj = [e \in Ends |-> NoObject] /\ call = [e \in Ends |-> Idle]
  BY DEF Init
<1>2. PICK none : none = <<>> /\ none = waiting /\ none = chan
  BY <1>1
<1>3. none \in Seq(Channel) /\ none \in Seq({}) /\ Len(none) = 0 /\ DOMAIN none = {}
  <2>1. none \in Seq(Channel) /\ none \in Seq({}) /\ Len(none) = 0
    BY ONLY <1>2, EmptySeq
  <2>2. DOMAIN none = 1 .. Len(none)
    BY ONLY <2>1, LenProperties
  <2> QED BY ONLY <2>1, <2>2
<1>4. /\ \A e \in Ends : obj[e] = NoObject /\ call[e] = Idle /\ Conn(e) = 0
      /\ obj \in [Ends -> Object] /\ call \in [Ends -> Call]
  BY <1>1, IdleIs DEF Conn
<1>5. StreamsTypeOK
  <2>1. \A e \in Ends : Len(call[e].part) + call[e].left < LengthModulus
    BY ONLY <1>4, IdleIs
  <2>2. kind \in {"tcp", "tls"}
    BY ONLY <1>1, StreamAssumption
  <2>3. waiting \in Seq(DOMAIN chan) /\ chan \in Seq(Channel) /\ Len(chan) <= MaxConnections
    <3>1. 0 <= MaxConnections
      BY ONLY StreamAssumption
    <3>2. waiting = none /\ chan = none /\ DOMAIN chan = {}
      BY ONLY <1>2, <1>3
    <3> QED BY ONLY <1>3, <3>1, <3>2
  <2>4. \A id \in DOMAIN chan, e \in Ends : Len(chan[id].wire[e]) <= Room
    BY ONLY <1>2, <1>3
  <2> QED BY ONLY <1>1, <1>4, <2>1, <2>2, <2>3, <2>4 DEF StreamsTypeOK
<1>6. DescriptorsHeld /\ BacklogInv /\ StreamsInv
  BY ONLY <1>2, <1>3 DEF DescriptorsHeld, BacklogInv, StreamsInv
<1>7. CallsInv
  BY ONLY <1>4, IdleIs DEF CallsInv, CallOf
<1> QED BY ONLY LengthsFit, <1>5, <1>6, <1>7 DEF IInv

LEMMA NextInv == IInv /\ [Next]_vars => IInv'
<1> SUFFICES ASSUME IInv, [Next]_vars PROVE IInv'
  OBVIOUS
<1>1. CASE AcceptorOpens
  <2>1. "server" \in Ends
    BY DEF Ends
  <2>2. CASE kind = "tcp" /\ acceptor # "none"
    BY <1>1, <2>1, <2>2, DiesStep DEF AcceptorOpens
  <2>3. CASE ~ (kind = "tcp" /\ acceptor # "none")
    <3>1. UNCHANGED <<kind, waiting, chan, obj, call>> /\ acceptor' \in {acceptor, "none", "made", "open"}
      BY <1>1, <2>3 DEF AcceptorOpens
    <3>2. acceptor' \in {"none", "made", "open"}
      BY <3>1 DEF IInv, StreamsTypeOK
    <3> QED BY ONLY IInv, <3>1, <3>2, AcceptorOnly
  <2> QED BY <2>2, <2>3
<1>2. CASE AcceptorCloses
  BY <1>2, AcceptorClosesStep
<1>3. CASE Accept
  BY <1>3, AcceptStep
<1>4. CASE Connect
  BY <1>4, ConnectStep
<1>5. CASE UNCHANGED vars
  <2>1. acceptor' \in {"none", "made", "open"}
    BY <1>5 DEF vars, IInv, StreamsTypeOK
  <2> QED BY <1>5, <2>1, AcceptorOnly DEF vars
<1>6. ASSUME NEW e \in Ends, CallStep(e) PROVE IInv'
  <2>1. CASE Handshake(e)
    BY <2>1, HandshakeStep
  <2>2. CASE HandshakeFails(e)
    BY <2>2, HandshakeFailsStep
  <2>3. CASE SendStep(e)
    BY <2>3, SendStepStep
  <2>4. CASE WriteNothing(e)
    BY <2>4, WriteNothingStep
  <2>5. CASE SendFails(e)
    BY <2>5, SendFailsStep
  <2>6. CASE WriteEnds(e)
    BY <2>6, WriteEndsStep
  <2>7. CASE RecvStep(e)
    BY <2>7, RecvStepStep
  <2>8. CASE RecvFails(e)
    BY <2>8, RecvFailsStep
  <2>9. CASE StreamInEnds(e)
    BY <2>9, StreamInEndsStep
  <2> QED BY ONLY <1>6, <2>1, <2>2, <2>3, <2>4, <2>5, <2>6, <2>7, <2>8, <2>9 DEF CallStep
<1>7. ASSUME NEW e \in Ends, Calls(e) PROVE IInv'
  <2>1. CASE SetOptions(e)
    BY <2>1, SetOptionsStep
  <2>2. CASE Disconnect(e)
    BY <2>2, DisconnectStep
  <2>3. CASE Destroy(e)
    BY <2>3, DestroyStep
  <2>4. CASE WriteString(e)
    BY <2>4, WriteStringStep
  <2>5. CASE ReadString(e)
    BY <2>5, ReadStringStep
  <2>6. CASE StreamIn(e)
    BY <2>6, StreamInStep
  <2>7. CASE ReadOnce(e)
    BY <2>7, ReadOnceStep
  <2> QED BY ONLY <1>7, <2>1, <2>2, <2>3, <2>4, <2>5, <2>6, <2>7 DEF Calls
<1> QED BY <1>1, <1>2, <1>3, <1>4, <1>5, <1>6, <1>7 DEF Next, Rests

(* What was read is in the order of the frames.                            *)
LEMMA ReadInOrder == IInv => FramesInOrder
<1> SUFFICES ASSUME IInv, NEW id \in DOMAIN chan, NEW e \in Ends, ~ chan[id].torn
             PROVE  /\ Len(chan[id].got[e]) <= Len(chan[id].sent[Other(e)])
                    /\ \A k \in 1 .. Len(chan[id].got[e]) :
                            \/ chan[id].got[e][k] = chan[id].sent[Other(e)][k]
                            \/ chan[id].sent[Other(e)][k] = <<>>
  BY DEF FramesInOrder
<1>1. PICK o : o = Other(e) /\ o \in Ends /\ Other(o) = e
  BY TwoEnds
<1>2. Direction(id, o)
  BY <1>1 DEF IInv, StreamsInv
<1>3. PICK sent, got, wire, live, pend, text, part, left :
        /\ sent = chan[id].sent[o] /\ got = chan[id].got[e] /\ wire = chan[id].wire[e]
        /\ live = (Conn(o) = id /\ chan[id].fd[e] # "closed") /\ pend = Pending(o)
        /\ text = (Conn(e) = id /\ call[e].op = "text")
        /\ part = call[e].part /\ left = call[e].left
  OBVIOUS
<1>4. Carried(sent, got, wire, live, pend, text, part, left)
  BY <1>1, <1>2, <1>3 DEF Direction
<1>5. HasRead(sent, got, text, part, left)
  BY ONLY <1>4, Zenon DEF Carried
<1>6. Len(got) <= Len(sent) /\ \A k \in 1 .. Len(got) : got[k] = sent[k] \/ sent[k] = <<>>
  BY ONLY <1>5, Zenon DEF HasRead
<1> QED BY ONLY <1>1, <1>3, <1>6

LEMMA Invariance == ASSUME LengthsFit PROVE Spec => []IInv
<1>1. Init => IInv
  BY InitInv
<1>2. IInv /\ [Next]_vars => IInv'
  BY NextInv
<1> QED BY <1>1, <1>2, PTL DEF Spec

(* The streams, the connections and the calls on them agree: a connection's*)
(* descriptor (tcp_stream's m_socket) is open only while the stream it was *)
(* given to has it, whatever calls fail and whoever dies; the server's is  *)
(* lost where its TLS handshake throws, and nowhere else.                  *)
THEOREM ConsistentAlways == ASSUME LengthsFit PROVE Spec => []Consistent
<1>1. IInv => Consistent
  BY DEF IInv, Consistent
<1> QED BY <1>1, Invariance, PTL

(* What stream.h's read<std::string> gave an end, on a connection none of  *)
(* whose calls threw and of which nobody read past the frames, are the     *)
(* first of the strings write<std::string> or write_v was given at the     *)
(* other end, unchanged and in order, but for the empty ones, whose place  *)
(* is taken by what the reader's string held: for strings of every length  *)
(* the 16 bits of a frame can tell, and in whatever parts send, writev and *)
(* recv took and gave their bytes.                                         *)
THEOREM StringsInOrder == ASSUME LengthsFit PROVE Spec => []FramesInOrder
<1>1. IInv => FramesInOrder
  BY ReadInOrder
<1> QED BY <1>1, Invariance, PTL
=============================================================================
