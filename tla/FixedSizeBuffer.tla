-------------------------- MODULE FixedSizeBuffer ---------------------------
(***************************************************************************)
(* fixed_size_buffer (event_loop.h): the ring every connection of the      *)
(* event loops is read into and written from.                              *)
(*                                                                         *)
(* A call that takes a lambda (consume_free, consume_used, and write and   *)
(* read, which are built on them) runs one step per call of the lambda, so *)
(* that what holds between two chunks can be stated.  The direct access    *)
(* pair of io_uring (get_free_region then advance_tail, get_used_region    *)
(* then advance_head) is a submission and a later completion.  The bytes a *)
(* call hands to its caller are in "taken".                                *)
(***************************************************************************)
EXTENDS RingCounters, Sequences

CONSTANT Byte   \* the values of a byte

VARIABLES
    m_impl,      \* the array
    m_head, m_tail,
    job,        \* the call in progress: its name, the bytes it has still to
                 \* visit, and the bytes the caller has still to move
    taken        \* what the last step handed to the caller

bufferVars == <<m_impl, m_head, m_tail, job, taken>>

BufferCalls == {"none", "consume_free", "consume_used", "write", "read",
          "recv", "send"}
NoCall == [op |-> "none", left |-> 0, want |-> 0]

(* The largest request of write and read: more than the ring holds.        *)
MaxRequest == BufferSize + 1

TypeOK ==
    /\ m_impl \in [Slot -> Byte]
    /\ m_head \in Counter
    /\ m_tail \in Counter
    /\ job \in [op : BufferCalls, left : 0 .. BufferSize, want : 0 .. MaxRequest]
    /\ taken \in Seq(Byte)

BufferInit ==
    /\ m_impl \in [Slot -> Byte]        \* the array is not initialised
    /\ m_head = 0
    /\ m_tail = 0
    /\ job = NoCall
    /\ taken = <<>>
-----------------------------------------------------------------------------
(* Copy "data" to the slots from m_tail on, and advance m_tail by it.      *)
Store(data, n) ==
    /\ m_impl' = [s \in Slot |->
            LET i == (s - SlotOf(m_tail)) % BufferSize
            IN  IF i < n THEN data[i + 1] ELSE m_impl[s]]
    /\ m_tail' = Advance(m_tail, n)

(* The n bytes from m_head on.                                             *)
Load(n) == [i \in 1 .. n |-> m_impl[SlotOf(m_head + i - 1)]]

(* Variant: a call ends with its chunk.                                    *)
AfterChunkEnds(n, chunk) == NoCall

(* The loop of consume_free and consume_used goes on after a lambda that   *)
(* took n of a chunk unless the chunk was not used up or was the last.     *)
AfterChunk(n, chunk) ==
    IF n < chunk \/ job.left = n THEN NoCall
    ELSE [job EXCEPT !.left = @ - n,
                      !.want = IF job.op \in {"write", "read"} THEN @ - n ELSE @]

(* A full buffer has nothing to fill: the call returns 0 at once.          *)
BeginConsumeFree(op, want) ==
    /\ job = NoCall
    /\ Count(m_head, m_tail) # BufferSize
    /\ job' = [op |-> op, left |-> FreeSpace(m_head, m_tail), want |-> want]
    /\ taken' = <<>>
    /\ UNCHANGED <<m_impl, m_head, m_tail>>

(* The lambda is given the next free chunk.  The one of write copies what  *)
(* fits and is still wanted, another may write any number of bytes.        *)
FillChunk ==
    /\ job.op \in {"consume_free", "write"}
    /\ LET chunk == Chunk(m_tail, job.left)
       IN  \E n \in 0 .. chunk :
            /\ job.op = "write" => n = Smaller(chunk, job.want)
            /\ \E data \in [1 .. n -> Byte] : Store(data, n)
            /\ job' = AfterChunk(n, chunk)
    /\ taken' = <<>>
    /\ UNCHANGED m_head

BeginConsumeUsed(op, want) ==
    /\ job = NoCall
    /\ m_head # m_tail
    /\ job' = [op |-> op, left |-> Count(m_head, m_tail), want |-> want]
    /\ taken' = <<>>
    /\ UNCHANGED <<m_impl, m_head, m_tail>>

DrainChunk ==
    /\ job.op \in {"consume_used", "read"}
    /\ LET chunk == Chunk(m_head, job.left)
       IN  \E n \in 0 .. chunk :
            /\ job.op = "read" => n = Smaller(chunk, job.want)
            /\ taken' = Load(n)
            /\ m_head' = Advance(m_head, n)
            /\ job' = AfterChunk(n, chunk)
    /\ UNCHANGED <<m_impl, m_tail>>

ConsumeFree == BeginConsumeFree("consume_free", 0)
ConsumeUsed == BeginConsumeUsed("consume_used", 0)
Write == \E size \in 0 .. MaxRequest : BeginConsumeFree("write", size)
Read  == \E size \in 0 .. MaxRequest : BeginConsumeUsed("read", size)
-----------------------------------------------------------------------------
(* An asynchronous recv is submitted for the free region, if there is one. *)
GetFreeRegion ==
    /\ job = NoCall
    /\ FreeRegion(m_head, m_tail) > 0
    /\ job' = [op |-> "recv", left |-> FreeRegion(m_head, m_tail), want |-> 0]
    /\ taken' = <<>>
    /\ UNCHANGED <<m_impl, m_head, m_tail>>

(* It completes with n bytes in the region.                                *)
AdvanceTail ==
    /\ job.op = "recv"
    /\ \E n \in 0 .. job.left : \E data \in [1 .. n -> Byte] : Store(data, n)
    /\ job' = NoCall
    /\ taken' = <<>>
    /\ UNCHANGED m_head

GetUsedRegion ==
    /\ job = NoCall
    /\ UsedRegion(m_head, m_tail) > 0
    /\ job' = [op |-> "send", left |-> UsedRegion(m_head, m_tail), want |-> 0]
    /\ taken' = <<>>
    /\ UNCHANGED <<m_impl, m_head, m_tail>>

(* Variant: a short send counts as the whole region.                       *)
AdvanceHeadWhole ==
    /\ job.op = "send"
    /\ \E n \in 0 .. job.left : taken' = Load(n)
    /\ m_head' = Advance(m_head, job.left)
    /\ job' = NoCall
    /\ UNCHANGED <<m_impl, m_tail>>

(* The kernel has sent n bytes of the region.                              *)
AdvanceHead ==
    /\ job.op = "send"
    /\ \E n \in 0 .. job.left :
        /\ taken' = Load(n)
        /\ m_head' = Advance(m_head, n)
    /\ job' = NoCall
    /\ UNCHANGED <<m_impl, m_tail>>

Reset ==
    /\ job = NoCall
    /\ m_head' = 0
    /\ m_tail' = 0
    /\ taken' = <<>>
    /\ UNCHANGED <<m_impl, job>>

BufferNext ==
    \/ ConsumeFree \/ Write \/ FillChunk
    \/ ConsumeUsed \/ Read \/ DrainChunk
    \/ GetFreeRegion \/ AdvanceTail
    \/ GetUsedRegion \/ AdvanceHead
    \/ Reset

BufferSpec == BufferInit /\ [][BufferNext]_bufferVars
-----------------------------------------------------------------------------
(* The assertion of count (event_loop.h:173): the counters never drift     *)
(* apart by more than the ring, whatever mix of calls moved them and       *)
(* wherever they have wrapped.                                             *)
CountBound == Count(m_head, m_tail) <= BufferSize

(* consume_free and consume_used read the counters once and then count     *)
(* down a local: the local and the counters never disagree.                *)
LeftIsCurrent ==
    /\ job.op \in {"consume_free", "write"} => job.left = FreeSpace(m_head, m_tail)
    /\ job.op \in {"consume_used", "read"} => job.left = Count(m_head, m_tail)

(* The slots that hold bytes nobody has consumed.                          *)
Unread == SlotsFrom(m_head, Count(m_head, m_tail))

(* "Buffer is not overwriting old data" (event_loop.h:44): no region given *)
(* out to be written into holds an unread byte.                            *)
NoOverwrite ==
    /\ job.op \in {"consume_free", "write"} =>
         SlotsFrom(m_tail, Chunk(m_tail, job.left)) \cap Unread = {}
    /\ job.op = "recv" => SlotsFrom(m_tail, job.left) \cap Unread = {}

(* No region given out to be read from goes past the bytes that are there, *)
(* or past the end of the array.                                           *)
RegionIsUnread ==
    /\ job.op \in {"consume_used", "read"} =>
         /\ SlotsFrom(m_head, Chunk(m_head, job.left)) \subseteq Unread
         /\ SlotOf(m_head) + Chunk(m_head, job.left) <= BufferSize
    /\ job.op = "send" =>
         /\ SlotsFrom(m_head, job.left) \subseteq Unread
         /\ SlotOf(m_head) + job.left <= BufferSize

(* "Returns {nullptr, 0} if buffer is full" (event_loop.h:128), and only   *)
(* then: otherwise a loop that submits a recv would wait for nothing.      *)
FreeRegionUsable ==
    FreeRegion(m_head, m_tail) = 0 <=> Count(m_head, m_tail) = BufferSize

(* write and read move all they are asked to, or all there is: the end of  *)
(* the array in the middle of a request does not cut it short.             *)
RequestsAreGreedy ==
    [][ (job.op \in {"write", "read"} /\ job'.op = "none") =>
            LET moved == IF job.op = "write" THEN Count(m_tail, m_tail')
                                              ELSE Count(m_head, m_head')
            IN  \/ moved = job.want
                \/ job.op = "write" /\ FreeSpace(m_head', m_tail') = 0
                \/ job.op = "read" /\ IsEmpty(m_head', m_tail') ]_bufferVars

(* The ring implements a bounded FIFO queue of the bytes between m_head    *)
(* and m_tail.                                                             *)
Queue == INSTANCE ByteQueue
    WITH queue <- Load(Count(m_head, m_tail)), taken <- taken,
         Capacity <- BufferSize
QueueSpec == Queue!Spec
=============================================================================
