---------------------------- MODULE UringTcpLoop ----------------------------
(***************************************************************************)
(* uring_tcp_event_loop (uring/uring_tcp_event_loop.h): the TCP event loop *)
(* over io_uring.  One thread runs it and handles one completion after     *)
(* another; handling one calls nothing that waits, so it is one step.      *)
(* stop() is called from another thread.                                   *)
(*                                                                         *)
(* The callbacks are their answers, as in EpollLoop.  Definitions marked   *)
(* Variant are plausible bugs, kept beside what they are a variant of:     *)
(* each breaks a property stated at the end.                               *)
(***************************************************************************)
EXTENDS UringRing, BufferPool, Functions

CONSTANTS
    TableSize,                    \* m_connections.size()
    OnConnect, OnRead, OnWrite    \* what the callbacks may answer

States == {"idle", "read", "write", "die"}     \* el_connection_state
Table  == 0 .. TableSize - 1

ASSUME LoopAssumption ==
    /\ TableSize \in Nat /\ Fds \subseteq Table
    /\ OnConnect \subseteq States /\ OnRead \subseteq States /\ OnWrite \subseteq States

VARIABLES
    m_running,
    m_connections,   \* of each descriptor: its state, its buffer, and the
                     \* operation it waits for (active_op)
    pc               \* where the loop's thread is

table   == <<m_connections, m_pl, ring>>
sockets == <<sock, backlog, fdOwner>>
vars    == <<sockets, rings, table, m_running, pc>>

TypeOK ==
    /\ RingTypeOK
    /\ PoolTypeOK
    /\ m_running \in BOOLEAN
    /\ m_connections \in [Table -> [state : States \ {"die"},
                                    buffer : Buffers \cup {NoBuffer},
                                    op : {"none", "recv", "send"}]]
    /\ pc \in {"wait", "batch", "stopped", "crashed"}

(* run() is at its loop.                                                   *)
Init ==
    /\ RingInit
    /\ PoolInit
    /\ m_running = TRUE
    /\ m_connections = [f \in Table |->
                            [state |-> "idle", buffer |-> NoBuffer, op |-> "none"]]
    /\ pc = "wait"

BufferOf(f) == m_connections[f].buffer
-----------------------------------------------------------------------------
(* What submit_recv and submit_send would work on.                         *)
Region(kind, r) ==
    IF kind = "recv" THEN FreeRegion(r.head, r.tail) ELSE UsedRegion(r.head, r.tail)

Wanted(state) == CASE state = "read"  -> "recv"
                   [] state = "write" -> "send"
                   [] OTHER           -> "none"

(* They return without an operation when there is nothing to work on, or   *)
(* the submission queue is full.                                           *)
CanSubmit(kind, r) ==
    kind # "none" /\ Region(kind, r) > 0 /\ Len(sq) < RingEntries

SqAfter(kind, f, b, r) ==
    IF CanSubmit(kind, r)
    THEN Append(sq, [kind |-> kind, fd |-> f, buffer |-> b, size |-> Region(kind, r)])
    ELSE sq

(* Variant: active_op is set whether or not there is an operation.         *)
OpAlways(kind, r) == kind
OpAfter(kind, r) == IF CanSubmit(kind, r) THEN kind ELSE "none"

(* Variant: the buffer pointer is left in the table.                       *)
RemoveKeepsBuffer(f) ==
    /\ Redeem(BufferOf(f)) /\ ring' = AfterReset(BufferOf(f))
    /\ m_connections' = [m_connections EXCEPT ![f].op = "none"]
    /\ Close(f)

(* remove_connection.  The state in the table stays what it was.           *)
RemoveConnection(f) ==
    /\ IF BufferOf(f) # NoBuffer
       THEN Redeem(BufferOf(f)) /\ ring' = AfterReset(BufferOf(f))
       ELSE UNCHANGED <<m_pl, ring>>
    /\ m_connections' = [m_connections EXCEPT ![f].buffer = NoBuffer, ![f].op = "none"]
    /\ Close(f)

(* The connection goes on in a state, its buffer's counters being r.       *)
GoOn(f, state, r) ==
    LET kind == Wanted(state)
    IN  /\ m_connections' = [m_connections EXCEPT
                ![f].state = IF state = "idle" THEN @ ELSE state,
                ![f].op = OpAfter(kind, r)]
        /\ ring' = [ring EXCEPT ![BufferOf(f)] = r]
        /\ sq' = SqAfter(kind, f, BufferOf(f), r)
        /\ UNCHANGED <<m_pl, sock, fdOwner>>

(* Variant: die is a state like the others.                                *)
AnswerNeverDies(f, state, r) == GoOn(f, state, r)

(* What a callback's answer does.                                          *)
Answer(f, state, r) ==
    IF state = "die" THEN RemoveConnection(f) /\ UNCHANGED sq ELSE GoOn(f, state, r)
-----------------------------------------------------------------------------
(* stop(), from any other thread, at any time.                             *)
Stop ==
    /\ m_running
    /\ m_running' = FALSE
    /\ UNCHANGED <<sockets, rings, table, pc>>

(* wait_cqe_timeout returns a completion; a timeout changes nothing.       *)
WaitCqe ==
    /\ pc = "wait" /\ m_running /\ cq # <<>>
    /\ pc' = "batch"
    /\ UNCHANGED <<sockets, rings, table, m_running>>

(* run() ends: every buffer goes back to the pool, in the order of the     *)
(* table, no connection is closed, and operations stay in the kernel.      *)
Buffered == {f \in Table : BufferOf(f) # NoBuffer}
Owned == {BufferOf(f) : f \in Buffered}
Cleanup ==
    /\ \E s \in Bijection(1 .. Cardinality(Buffered), Buffered) :
        /\ \A i, j \in DOMAIN s : i < j => s[i] < s[j]
        /\ m_pl' = m_pl \o [i \in DOMAIN s |-> BufferOf(s[i])]
    /\ ring' = [b \in Buffers |-> IF b \in Owned THEN EmptyRing ELSE ring[b]]
    /\ m_connections' = [f \in Table |-> [m_connections[f] EXCEPT !.buffer = NoBuffer]]
    /\ pc' = "stopped"
    /\ UNCHANGED <<sockets, rings, m_running>>

LeaveLoop == pc = "wait" /\ ~m_running /\ Cleanup

(* A signal interrupts the wait: that ends run() too.                      *)
WaitFails == "eintr" \in Faults /\ pc = "wait" /\ m_running /\ Cleanup

EndOfBatch ==
    /\ pc = "batch" /\ cq = <<>>
    /\ Submit
    /\ pc' = "wait"
    /\ UNCHANGED <<sockets, cq, table, m_running>>

(* The completions of a batch are handled in order.                        *)
Handling(e) ==
    /\ pc = "batch" /\ cq # <<>>
    /\ e = Head(cq)
    /\ cq' = Tail(cq)
    /\ UNCHANGED <<flying, backlog, m_running>>

(* An accept has completed, and is armed again after what it led to.       *)
Accepted(e) == Handling(e) /\ e.ud = TagAccept

(* Variant: an accept that failed is not armed again.                      *)
AcceptGivesUp ==
    /\ Accepted(Head(cq)) /\ Head(cq).res < 0
    /\ UNCHANGED <<sq, pc, sock, fdOwner, table>>

AcceptFails ==
    /\ Accepted(Head(cq)) /\ Head(cq).res < 0
    /\ Len(sq) < RingEntries
    /\ sq' = Append(sq, Accept)
    /\ UNCHANGED <<pc, sock, fdOwner, table>>

(* push_new_connection and on_connect, which answers die: the connection   *)
(* is removed, its buffer just allocated with it.                          *)
AcceptRefused ==
    /\ Accepted(Head(cq)) /\ Head(cq).res >= 0 /\ "die" \in OnConnect
    /\ Len(sq) < RingEntries
    /\ m_connections' = [m_connections EXCEPT
            ![Head(cq).res].buffer = NoBuffer, ![Head(cq).res].op = "none"]
    /\ m_pl' = Append(PoolWithout, Allocated)
    /\ ring' = [RingWithNew EXCEPT ![Allocated] = EmptyRing]
    /\ Close(Head(cq).res)
    /\ sq' = Append(sq, Accept)
    /\ UNCHANGED pc

(* Or another state: the first operation goes before the next accept.      *)
AcceptOne ==
    /\ Accepted(Head(cq)) /\ Head(cq).res >= 0
    /\ \E state \in OnConnect \ {"die"} :
        LET f == Head(cq).res
            kind == Wanted(state)
            r == RingWithNew[Allocated]
        IN  /\ Len(SqAfter(kind, f, Allocated, r)) < RingEntries
            /\ m_connections' = [m_connections EXCEPT
                    ![f] = [state |-> state, buffer |-> Allocated, op |-> OpAfter(kind, r)]]
            /\ sq' = Append(SqAfter(kind, f, Allocated, r), Accept)
    /\ m_pl' = PoolWithout
    /\ ring' = RingWithNew
    /\ UNCHANGED <<pc, sock, fdOwner>>

(* rearm_accept finds the submission queue full: its assertion fails.      *)
AcceptCrashes ==
    /\ pc = "batch" /\ cq # <<>> /\ Head(cq).ud = TagAccept
    /\ \/ Len(sq) = RingEntries
       \/ /\ Len(sq) = RingEntries - 1 /\ Head(cq).res >= 0
          /\ \E state \in OnConnect :
                CanSubmit(Wanted(state), RingWithNew[Allocated])
    /\ pc' = "crashed"
    /\ UNCHANGED <<sockets, rings, table, m_running>>

(* Variant: only an error ends a connection.                               *)
EndedByError(e) == e.res < 0

(* The end of the stream ends a connection, as an error does.              *)
Ended(e) == e.res <= 0

OfConnection(e) == Handling(e) /\ e.ud # TagAccept

ConnectionEnds ==
    /\ OfConnection(Head(cq)) /\ Ended(Head(cq))
    /\ RemoveConnection(FdOfTag(Head(cq).ud))
    /\ UNCHANGED <<sq, pc>>

(* A completion with bytes.  The handlers ignore one that the connection   *)
(* does not wait for (any more).                                           *)
Completed(f) ==
    /\ OfConnection(Head(cq)) /\ ~Ended(Head(cq))
    /\ f = FdOfTag(Head(cq).ud)

Ignored == UNCHANGED <<sq, sock, fdOwner, table>>

(* handle_recv_completion: on_read is asked each time.                     *)
RecvCompleted ==
    /\ \E f \in Table :
        /\ Completed(f) /\ IsRecv(Head(cq).ud)
        /\ IF m_connections[f].op # "recv" THEN Ignored
           ELSE LET r == [ring[BufferOf(f)] EXCEPT !.tail = Advance(@, Head(cq).res)]
                IN  \E state \in OnRead : Answer(f, state, r)
    /\ UNCHANGED pc

(* Variants: on_write is asked after a short send as well; or never.       *)
DrainedAlways(r) == TRUE
DrainedNever(r) == FALSE
Drained(r) == IsEmpty(r.head, r.tail)

(* handle_send_completion: on_write is asked when all has been sent, until *)
(* then the rest is submitted.                                             *)
SendCompleted ==
    /\ \E f \in Table :
        /\ Completed(f) /\ IsSend(Head(cq).ud)
        /\ IF m_connections[f].op # "send" THEN Ignored
           ELSE LET r == [ring[BufferOf(f)] EXCEPT !.head = Advance(@, Head(cq).res)]
                IN  IF Drained(r) THEN \E state \in OnWrite : Answer(f, state, r)
                                  ELSE GoOn(f, "write", r)
    /\ UNCHANGED pc

Halted == pc \in {"stopped", "crashed"} /\ UNCHANGED vars

LoopStep ==
    \/ WaitCqe \/ LeaveLoop \/ EndOfBatch
    \/ AcceptFails \/ AcceptRefused \/ AcceptOne \/ AcceptCrashes
    \/ ConnectionEnds \/ RecvCompleted \/ SendCompleted

Running == pc \notin {"stopped", "crashed"}
KernelStep(step) == Running /\ step /\ UNCHANGED <<table, m_running, pc>>
PeerActs == \E c \in Clients : KernelStep(PeerStep(c) /\ UNCHANGED rings)
Completes == KernelStep(KernelAccept) \/ \E f \in Fds : KernelStep(KernelMove(f))

Next == LoopStep \/ WaitFails \/ Stop \/ Halted \/ PeerActs \/ Completes

Spec == Init /\ [][Next]_vars

(* The loop's thread is scheduled, the kernel completes what it can, and a *)
(* client reads what is sent to it or, once it has closed, resets.         *)
Takes(c) == (Reads(c) \/ AnswersReset(c)) /\ UNCHANGED <<backlog, fdOwner, rings>>
Fairness ==
    /\ WF_vars(LoopStep)
    /\ WF_vars(KernelStep(CompleteAccept))
    /\ \A f \in Fds : WF_vars(KernelStep(KernelMove(f)))
    /\ \A c \in Clients : WF_vars(KernelStep(Takes(c)))

FairSpec == Spec /\ Fairness
-----------------------------------------------------------------------------
(* Operations that are not over: prepared, in the kernel, or completed and *)
(* not handled.                                                            *)
Prepared == {sq[i] : i \in DOMAIN sq}
Unhandled(f) == {i \in DOMAIN cq : cq[i].ud # TagAccept /\ FdOfTag(cq[i].ud) = f}
Outstanding(f) ==
    Cardinality({i \in DOMAIN sq : sq[i].fd = f})
    + Cardinality({op \in flying : op.fd = f}) + Cardinality(Unhandled(f))

(* A connection waits for one operation at a time, and active_op is which: *)
(* the stale check of the handlers (:217 and :238) never has to catch one, *)
(* no operation outlives its connection while run() runs, and each works   *)
(* on the region its connection's buffer would give out now.               *)
OpsAreCurrent ==
    Running =>
        /\ \A f \in Fds :
            Outstanding(f) = IF m_connections[f].op = "none" THEN 0 ELSE 1
        /\ \A op \in Prepared \cup flying : op.kind # "accept" =>
            /\ m_connections[op.fd].op = op.kind
            /\ op.buffer = BufferOf(op.fd) /\ op.buffer # NoBuffer
            /\ op.size = Region(op.kind, ring[op.buffer])
        /\ \A f \in Fds : \A i \in Unhandled(f) :
            /\ cq[i].ud \in {TagRecv(f), TagSend(f)}
            /\ m_connections[f].op = (IF IsRecv(cq[i].ud) THEN "recv" ELSE "send")
            /\ BufferOf(f) # NoBuffer
            /\ cq[i].res <= Region(m_connections[f].op, ring[BufferOf(f)])

(* Whatever accept returns and the callbacks answer, one accept is always  *)
(* on its way: the server does not stop listening.                         *)
AcceptArmed ==
    Running =>
        Cardinality({i \in DOMAIN sq : sq[i] = Accept})
        + Cardinality({op \in flying : op = Accept})
        + Cardinality({i \in DOMAIN cq : cq[i].ud = TagAccept}) = 1

(* Every buffer is in one place: the pool, or one connection that is open. *)
Pooled == {m_pl[i] : i \in DOMAIN m_pl}
BufferConservation ==
    /\ \A f \in Table : BufferOf(f) # NoBuffer => f \in Fds \ FreeFds
    /\ \A f, g \in Table : (f # g /\ BufferOf(f) # NoBuffer) => BufferOf(f) # BufferOf(g)
    /\ \A i, j \in DOMAIN m_pl : i # j => m_pl[i] # m_pl[j]
    /\ Owned \cap Pooled = {} /\ Owned \cup Pooled = Buffers

(* A buffer holds what was received on its connection and not sent back,   *)
(* but for the completion that is not handled yet.                         *)
ByteAccount ==
    \A f \in Fds : (fdOwner[f] # NoClient /\ BufferOf(f) # NoBuffer) =>
        LET s == sock[fdOwner[f]]
            moved == IF Unhandled(f) = {} THEN 0
                     ELSE LET e == cq[CHOOSE i \in Unhandled(f) : TRUE]
                          IN  IF e.res <= 0 THEN 0
                              ELSE IF IsRecv(e.ud) THEN e.res ELSE -e.res
        IN  Held(BufferOf(f)) + moved = s.in - s.out

(* stop() ends run(), whatever completes meanwhile.                        *)
StopEndsRun == ~m_running ~> ~Running

(* What a client sends comes back to the last byte, though an operation is *)
(* prepared in one batch, submitted at its end, and may complete at once.  *)
Echoed ==
    \A c \in Clients, n \in 1 .. MaxBytes :
        Sent(c) >= n ~> (sock[c].out >= n \/ sock[c].peer # "up" \/ ~m_running)

(* A connection that its client closed or reset is removed, whatever it    *)
(* waits for.                                                              *)
EndedIsRemoved ==
    \A c \in Clients :
        (sock[c].phase = "open" /\ sock[c].peer # "up")
            ~> (sock[c].phase = "closed" \/ ~m_running)

(* Everything ends that is told to: the loop by stop(), a connection by    *)
(* its client.                                                             *)
EverythingEnds == StopEndsRun /\ EndedIsRemoved

(* Each connection behaves as the state machine the callbacks drive; bytes *)
(* move when the kernel moves them, callbacks are asked when it is handled.*)
FdOf(c) == CHOOSE f \in Fds : fdOwner[f] = c
IsOpen(c) ==
    sock[c].phase = "open"
    /\ \A i \in DOMAIN cq : ~(cq[i].ud = TagAccept /\ cq[i].res = FdOf(c))
Contract == INSTANCE ConnectionContract
    WITH phase <- [c \in Clients |-> IF IsOpen(c) THEN "open"
                                     ELSE IF sock[c].phase = "closed" THEN "closed" ELSE "new"],
         state <- [c \in Clients |-> IF IsOpen(c)
                                     THEN m_connections[FdOf(c)].state ELSE "idle"],
         held  <- [c \in Clients |-> IF IsOpen(c) THEN sock[c].in - sock[c].out ELSE 0],
         Capacity <- BufferSize
ContractSpec == Contract!Spec
=============================================================================
