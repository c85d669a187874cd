----------------------------- MODULE EpollLoop ------------------------------
(***************************************************************************)
(* event_loop_impl_t of linux/event_loop_impl.h: the TCP event loop over   *)
(* edge-triggered epoll, with the connection table and the buffer pool of  *)
(* event_loop.h.  One thread runs it; stop() is called from another.       *)
(*                                                                         *)
(* A step of the loop makes at most one system call on a socket, so that   *)
(* clients act between any two of them.  The callbacks the application     *)
(* gives the loop are their answers: any member of a constant, per call.   *)
(*                                                                         *)
(* Definitions marked Variant are plausible bugs, kept beside what they    *)
(* are a variant of: each breaks a property stated at the end.             *)
(***************************************************************************)
EXTENDS EpollSockets, BufferPool

CONSTANTS
    MaxAccepts,      \* config::max_accepts_per_tick
    OnConnect, OnRead, OnWrite, OnErr   \* what the callbacks may answer

States == {"idle", "read", "write", "die"}     \* el_connection_state

ASSUME LoopAssumption ==
    /\ MaxAccepts \in Nat
    /\ OnConnect \subseteq States /\ OnRead \subseteq States
    /\ OnWrite \subseteq States /\ OnErr \subseteq States

VARIABLES
    m_running,
    m_events,        \* what epoll_wait returned and is not dispatched yet
    m_connections,   \* of each descriptor: its state and its buffer
    thread           \* where the loop's thread is, and its locals

table == <<m_connections, m_pl, ring>>
vars  == <<kernel, m_running, m_events, table, thread>>

(* accepts: connections taken in this handle_accept.  Of handle_read and   *)
(* handle_write: the descriptor, the buffer that consume_free or           *)
(* consume_used works on, the bytes it has still to visit, and "error".    *)
Thread ==
    [pc : {"wait", "dispatch", "accept", "recv", "on_read", "send", "on_write",
           "stopped", "crashed"},
     accepts : 0 .. MaxAccepts, conn : Fds \cup {Listen},
     this : Buffers \cup {NoBuffer}, left : 0 .. BufferSize, error : BOOLEAN]

Event == [fd : Fds \cup {Listen}, ev : SUBSET Signal, to : Clients \cup {NoClient}]

TypeOK ==
    /\ EpollTypeOK
    /\ m_running \in BOOLEAN
    /\ m_events \subseteq Event
    /\ PoolTypeOK
    /\ m_connections \in [Fds -> [state : States, buffer : Buffers \cup {NoBuffer}]]
    /\ thread \in Thread

(* run() has opened the listening socket, registered it, and filled the    *)
(* pool.                                                                   *)
Init ==
    /\ EpollInit
    /\ m_running = TRUE
    /\ m_events = {}
    /\ PoolInit
    /\ m_connections = [f \in Fds |-> [state |-> "idle", buffer |-> NoBuffer]]
    /\ thread = [pc |-> "wait", accepts |-> 0, conn |-> Listen,
                 this |-> NoBuffer, left |-> 0, error |-> FALSE]

At(place)   == thread.pc = place
Goto(place) == thread' = [thread EXCEPT !.pc = place]
BufferOf(f) == m_connections[f].buffer
-----------------------------------------------------------------------------
(* Variant: the buffer pointer is left in the table.                       *)
RemoveKeepsBuffer(f) == Close(f) /\ Redeem(BufferOf(f)) /\ UNCHANGED m_connections

(* remove_connection: out of epoll, closed, its buffer to the pool.  The   *)
(* state in the table stays what it was.                                   *)
RemoveConnection(f) ==
    /\ Close(f)
    /\ Redeem(BufferOf(f))
    /\ m_connections' = [m_connections EXCEPT ![f].buffer = NoBuffer]

(* Variant: every state watches for input.                                 *)
InterestAlwaysIn(state) ==
    {"HUP", "IN"} \cup (IF state = "write" THEN {"OUT"} ELSE {})

(* What epoll is told to watch for in a state.                             *)
Interest(state) ==
    {"HUP"} \cup (IF state = "read" THEN {"IN"} ELSE {})
            \cup (IF state = "write" THEN {"OUT"} ELSE {})

(* Variant: the new state is not told to epoll.                            *)
ApplyStateUnarmed(f, state) ==
    IF state = "die" THEN RemoveConnection(f)
    ELSE /\ m_connections' = [m_connections EXCEPT ![f].state = state]
         /\ UNCHANGED <<sockets, m_pl>>

(* apply_state, on a connection that is open.  What it leaves of the       *)
(* buffers' counters is RingAfter, for a caller may go on and move them.   *)
ApplyState(f, state) ==
    IF state = "die" THEN RemoveConnection(f)
    ELSE /\ m_connections' = [m_connections EXCEPT ![f].state = state]
         /\ Arm(f, Interest(state), fdOwner[f])
         /\ UNCHANGED <<sock, fdOwner, m_pl>>

RingAfter(f, state) == IF state = "die" THEN AfterReset(BufferOf(f)) ELSE ring
-----------------------------------------------------------------------------
(* stop(), from any other thread, at any time.                             *)
Stop ==
    /\ m_running
    /\ m_running' = FALSE
    /\ UNCHANGED <<kernel, m_events, table, thread>>

(* epoll_wait returns what is pending; a timeout changes nothing.          *)
EpollWait ==
    /\ At("wait") /\ m_running
    /\ Reported # {}
    /\ m_events' = Reported
    /\ ready' = {}
    /\ Goto("dispatch")
    /\ UNCHANGED <<sock, fdOwner, armed, backlog, errno, m_running, table>>

(* A signal interrupts it: it returns -1, no event is dispatched.          *)
EpollInterrupted ==
    /\ "eintr" \in Faults
    /\ At("wait") /\ m_running
    /\ errno' = "other"
    /\ UNCHANGED <<sockets, backlog, m_running, m_events, table, thread>>

(* The loop ends: the listening socket is closed, and nothing else.        *)
LeaveLoop ==
    /\ At("wait") /\ ~m_running
    /\ Goto("stopped")
    /\ UNCHANGED <<kernel, m_running, m_events, table>>

EndOfBatch ==
    /\ At("dispatch") /\ m_events = {}
    /\ Goto("wait")
    /\ UNCHANGED <<kernel, m_running, m_events, table>>

(* The events of a batch are handled one at a time; input goes before      *)
(* output, and either before a hang-up.                                    *)
Dispatch(e) ==
    /\ At("dispatch") /\ e \in m_events
    /\ m_events' = m_events \ {e}
    /\ UNCHANGED <<backlog, errno, m_running>>

DispatchAccept ==
    /\ \E e \in m_events : e.fd = Listen /\ Dispatch(e)
    /\ thread' = [thread EXCEPT !.pc = "accept", !.accepts = 0]
    /\ UNCHANGED <<sockets, table>>

(* handle_read: consume_free on the connection's buffer.  When it is full  *)
(* nothing is received, and the application is asked at once.              *)
DispatchRead ==
    /\ \E e \in m_events :
        /\ e.fd # Listen /\ "IN" \in e.ev
        /\ Dispatch(e)
        /\ LET b == BufferOf(e.fd)
           IN  thread' = [thread EXCEPT
                    !.pc = IF Held(b) = BufferSize THEN "on_read" ELSE "recv",
                    !.conn = e.fd, !.this = b, !.left = BufferSize - Held(b),
                    !.error = FALSE]
    /\ UNCHANGED <<sockets, table>>

(* handle_write: consume_used on it, unless it is empty.                   *)
DispatchWrite ==
    /\ \E e \in m_events :
        /\ e.fd # Listen /\ "IN" \notin e.ev /\ "OUT" \in e.ev
        /\ Dispatch(e)
        /\ LET b == BufferOf(e.fd)
           IN  thread' = [thread EXCEPT
                    !.pc = IF Held(b) = 0 THEN "on_write" ELSE "send",
                    !.conn = e.fd, !.this = b, !.left = Held(b)]
    /\ UNCHANGED <<sockets, table>>

DispatchHangup ==
    /\ \E e \in m_events :
        /\ e.fd # Listen /\ e.ev = {"HUP"}
        /\ Dispatch(e)
        /\ RemoveConnection(e.fd)
        /\ ring' = AfterReset(BufferOf(e.fd))
    /\ UNCHANGED thread
-----------------------------------------------------------------------------
(* Variant: one accept too many.                                           *)
AcceptingOneMore == At("accept") /\ thread.accepts <= MaxAccepts

(* handle_accept, one turn of its loop.                                    *)
Accepting == At("accept") /\ thread.accepts < MaxAccepts
NextTurn  == thread' = [thread EXCEPT !.accepts = @ + 1]

(* The limit is reached; or accept fails, for no descriptor is left, or    *)
(* else the backlog is empty.                                              *)
AcceptEnds ==
    /\ \/ At("accept") /\ thread.accepts = MaxAccepts /\ UNCHANGED errno
       \/ Accepting /\ FreeFds = {} /\ errno' = "other"
       \/ Accepting /\ FreeFds # {} /\ backlog = <<>> /\ errno' = "EAGAIN"
    /\ Goto("dispatch")
    /\ UNCHANGED <<sockets, backlog, m_running, m_events, table>>

(* fcntl fails on the new socket: it is closed.  If it was F_GETFL the     *)
(* loop of handle_accept ends, if it was F_SETFL it goes on.               *)
AcceptFcntlFails ==
    /\ Accepting /\ "fcntl" \in Faults
    /\ FreeFds # {} /\ backlog # <<>>
    /\ backlog' = Tail(backlog)
    /\ sock' = [sock EXCEPT ![Head(backlog)].phase = "closed"]
    /\ errno' = "other"
    /\ Goto("dispatch") \/ NextTurn
    /\ UNCHANGED <<fdOwner, armed, ready, m_running, m_events, table>>

(* push_new_connection, on_connect, and epoll_ctl ADD.  A descriptor that  *)
(* cannot be added stays in the table, and is not watched.                 *)
AcceptOne ==
    /\ Accepting
    /\ backlog # <<>>
    /\ \E f \in Fds, state \in OnConnect \ {"die"} :
        /\ Lowest(f)
        /\ m_pl' = PoolWithout
        /\ ring' = RingWithNew
        /\ m_connections' = [m_connections EXCEPT
                ![f] = [state |-> state, buffer |-> Allocated]]
        /\ fdOwner' = [fdOwner EXCEPT ![f] = Head(backlog)]
        /\ sock' = [sock EXCEPT ![Head(backlog)].phase = "open"]
        /\ \/ Arm(f, Interest(state), Head(backlog)) /\ UNCHANGED errno
           \/ "epoll_add" \in Faults /\ errno' = "other" /\ UNCHANGED <<armed, ready>>
    /\ backlog' = Tail(backlog)
    /\ NextTurn
    /\ UNCHANGED <<m_running, m_events>>

(* on_connect answers die: what was pushed is removed again, the buffer    *)
(* with it; epoll_ctl DEL fails on a descriptor that was never added.      *)
AcceptRefused ==
    /\ Accepting /\ "die" \in OnConnect
    /\ FreeFds # {} /\ backlog # <<>>
    /\ m_pl' = Append(PoolWithout, Allocated)
    /\ ring' = [RingWithNew EXCEPT ![Allocated] = EmptyRing]
    /\ sock' = [sock EXCEPT ![Head(backlog)].phase = "closed"]
    /\ backlog' = Tail(backlog)
    /\ errno' = "other"
    /\ NextTurn
    /\ UNCHANGED <<fdOwner, armed, ready, m_connections, m_running, m_events>>
-----------------------------------------------------------------------------
(* handle_read and handle_write.  Each step is one call of the lambda they *)
(* give consume_free or consume_used, on the next chunk of the buffer.     *)
Client    == fdOwner[thread.conn]
FreeChunk == Chunk(ring[thread.this].tail, thread.left)
UsedChunk == Chunk(ring[thread.this].head, thread.left)

(* In(place): at the lambda, the connection being open.                    *)
In(place) == At(place) /\ thread.conn \in Fds /\ Client # NoClient

(* consume_free and consume_used go on after n bytes of a chunk, unless    *)
(* it was not used up or was the last.                                     *)
AfterChunk(n, chunk, end) ==
    thread' = [thread EXCEPT !.left = IF n < chunk THEN 0 ELSE @ - n,
                             !.pc = IF n < chunk \/ thread.left = n THEN end ELSE @]

RecvSome ==
    /\ In("recv") /\ sock[Client].rx > 0
    /\ LET n == Smaller(FreeChunk, sock[Client].rx)
       IN  /\ sock' = [sock EXCEPT ![Client].rx = @ - n, ![Client].in = @ + n]
           /\ ring' = [ring EXCEPT ![thread.this].tail = Advance(@, n)]
           /\ AfterChunk(n, FreeChunk, "on_read")
    /\ UNCHANGED <<fdOwner, armed, ready, backlog, errno, m_running, m_events,
                   m_connections, m_pl>>

(* Variant: no error is told from "nothing yet".                           *)
RecvAgainAlways ==
    /\ In("recv") /\ sock[Client].rx = 0
    /\ errno' = "EAGAIN"
    /\ AfterChunk(0, FreeChunk, "on_read")
    /\ UNCHANGED <<sockets, backlog, m_running, m_events, table>>

(* Nothing to receive yet; or the end of the stream, when an earlier call  *)
(* has left EAGAIN in errno: recv returned 0 and did not set it.           *)
RecvAgain ==
    /\ In("recv")
    /\ NothingYet(Client) \/ (AtEnd(Client) /\ errno = "EAGAIN")
    /\ errno' = "EAGAIN"
    /\ AfterChunk(0, FreeChunk, "on_read")
    /\ UNCHANGED <<sockets, backlog, m_running, m_events, table>>

(* on_err decides what becomes of the connection.  The lambda returns the  *)
(* size of the chunk, as if it had been filled.                            *)
RecvFails ==
    /\ In("recv")
    /\ RecvReset(Client) \/ (AtEnd(Client) /\ errno # "EAGAIN")
    /\ errno' = "other"
    /\ \E state \in OnErr :
        /\ ApplyState(thread.conn, state)
        /\ ring' = [RingAfter(thread.conn, state) EXCEPT
                        ![thread.this].tail = Advance(@, FreeChunk)]
    /\ thread' = [thread EXCEPT !.left = @ - FreeChunk, !.error = TRUE,
                    !.pc = IF thread.left = FreeChunk THEN "on_read" ELSE @]
    /\ UNCHANGED <<backlog, m_running, m_events>>

(* Ask a callback, and apply what it answers unless that is idle.          *)
Ask(answers) ==
    \E state \in answers :
        IF state = "idle" THEN UNCHANGED <<sockets, table>>
        ELSE /\ ApplyState(thread.conn, state)
             /\ ring' = RingAfter(thread.conn, state)

OnReadStep ==
    /\ At("on_read")
    /\ IF ~thread.error /\ Held(thread.this) # 0 THEN Ask(OnRead)
       ELSE UNCHANGED <<sockets, table>>
    /\ Goto("dispatch")
    /\ UNCHANGED <<backlog, errno, m_running, m_events>>

SendSome ==
    /\ In("send") /\ ~SendBroken(Client) /\ ~NoRoom(Client)
    /\ LET n == Smaller(UsedChunk, SendRoom - sock[Client].tx)
       IN  /\ sock' = [sock EXCEPT ![Client].tx = @ + n, ![Client].out = @ + n]
           /\ ring' = [ring EXCEPT ![thread.this].head = Advance(@, n)]
           /\ AfterChunk(n, UsedChunk, "on_write")
    /\ UNCHANGED <<fdOwner, armed, ready, backlog, errno, m_running, m_events,
                   m_connections, m_pl>>

SendAgain ==
    /\ In("send") /\ NoRoom(Client)
    /\ errno' = "EAGAIN"
    /\ AfterChunk(0, UsedChunk, "on_write")
    /\ UNCHANGED <<sockets, backlog, m_running, m_events, table>>

(* As in handle_read, but there is no flag for the error.                  *)
SendFails ==
    /\ In("send") /\ SendBroken(Client)
    /\ errno' = "other"
    /\ \E state \in OnErr :
        /\ ApplyState(thread.conn, state)
        /\ ring' = [RingAfter(thread.conn, state) EXCEPT
                        ![thread.this].head = Advance(@, UsedChunk)]
    /\ AfterChunk(UsedChunk, UsedChunk, "on_write")
    /\ UNCHANGED <<backlog, m_running, m_events>>

(* Variant: on_write is asked after a short send as well.                  *)
OnWriteAlways ==
    /\ At("on_write") /\ BufferOf(thread.conn) # NoBuffer
    /\ Ask(OnWrite)
    /\ Goto("dispatch")
    /\ UNCHANGED <<backlog, errno, m_running, m_events>>

OnWriteStep ==
    /\ At("on_write") /\ BufferOf(thread.conn) # NoBuffer
    /\ IF Held(thread.this) = 0 THEN Ask(OnWrite) ELSE UNCHANGED <<sockets, table>>
    /\ Goto("dispatch")
    /\ UNCHANGED <<backlog, errno, m_running, m_events>>

(* The connection was removed under the handler: the lambda, called again  *)
(* on the next chunk, fails on the closed descriptor and its die redeems a *)
(* null buffer; or handle_write asks the null buffer whether it is empty.  *)
Crash ==
    /\ \/ (At("recv") \/ At("send")) /\ Client = NoClient
       \/ At("on_write") /\ BufferOf(thread.conn) = NoBuffer
    /\ Goto("crashed")
    /\ UNCHANGED <<kernel, m_running, m_events, table>>

Halted == (At("stopped") \/ At("crashed")) /\ UNCHANGED vars

LoopStep ==
    \/ EpollWait \/ LeaveLoop \/ EndOfBatch
    \/ DispatchAccept \/ DispatchRead \/ DispatchWrite \/ DispatchHangup
    \/ AcceptEnds \/ AcceptFcntlFails \/ AcceptOne \/ AcceptRefused
    \/ RecvSome \/ RecvAgain \/ RecvFails \/ OnReadStep
    \/ SendSome \/ SendAgain \/ SendFails \/ OnWriteStep
    \/ Crash

Running == ~At("stopped") /\ ~At("crashed")
PeerActs ==
    /\ Running
    /\ \E c \in Clients : PeerStep(c)
    /\ UNCHANGED <<m_running, m_events, table, thread>>

Next == LoopStep \/ EpollInterrupted \/ Stop \/ Halted \/ PeerActs

Spec == Init /\ [][Next]_vars

(* The loop's thread is scheduled.  A client that is connected reads what  *)
(* is sent to it; nothing makes it connect, send, close or reset.          *)
PeerReads(c) ==
    Running /\ PeerRead(c)
    /\ UNCHANGED <<fdOwner, armed, errno, m_running, m_events, table, thread>>
Fairness == WF_vars(LoopStep) /\ \A c \in Clients : WF_vars(PeerReads(c))

FairSpec == Spec /\ Fairness
-----------------------------------------------------------------------------
(* Every buffer that was ever made is in exactly one place: once in the    *)
(* pool, or with one connection; and the connections that have one are     *)
(* those whose descriptor is open.  remove_connection and                  *)
(* push_new_connection keep this through every error path.                 *)
Owned == {BufferOf(f) : f \in Fds} \ {NoBuffer}
Pooled == {m_pl[i] : i \in DOMAIN m_pl}

OwnersAreOpen ==
    \A f \in Fds : BufferOf(f) # NoBuffer <=> fdOwner[f] # NoClient
NoBufferShared ==
    /\ \A f, g \in Fds : (f # g /\ BufferOf(f) # NoBuffer)
                            => BufferOf(f) # BufferOf(g)
    /\ \A i, j \in DOMAIN m_pl : i # j => m_pl[i] # m_pl[j]
    /\ Owned \cap Pooled = {}
NoBufferLost == Owned \cup Pooled = Buffers

BufferConservation == OwnersAreOpen /\ NoBufferShared /\ NoBufferLost

(* However connections come and go, the pool makes no more buffers than    *)
(* were asked for in advance or can be in use at once.                     *)
PoolBound ==
    Len(ring) <= IF Prepool >= Cardinality(Fds) THEN Prepool ELSE Cardinality(Fds)

(* An event that waits in the batch is still about the connection it was   *)
(* reported for, and the state that connection is in is the one the        *)
(* handler it goes to asserts (event_loop_impl.h:185 and :209), whatever   *)
(* the events before it did: closed descriptors and accepted new ones.     *)
EventsAreCurrent ==
    \A e \in m_events : e.fd # Listen =>
        /\ fdOwner[e.fd] = e.to
        /\ "IN" \in e.ev => m_connections[e.fd].state = "read"
        /\ ("IN" \notin e.ev /\ "OUT" \in e.ev) => m_connections[e.fd].state = "write"

(* A connection's buffer holds what was received on that connection and    *)
(* not sent back on it: no byte is lost, invented, or from another client. *)
ByteAccount ==
    \A f \in Fds : fdOwner[f] # NoClient =>
        LET s == sock[fdOwner[f]] IN Held(BufferOf(f)) = s.in - s.out

(* A callback that answers die is the end of the connection               *)
(* (event_loop.h:251): the loop does not use the connection after it.      *)
NeverCrashes == ~At("crashed")

(* stop() ends run(), whatever the clients do meanwhile.                   *)
StopEndsRun == ~m_running ~> (At("stopped") \/ At("crashed"))

(* No wake-up is lost: what a client sends is received and sent back, to   *)
(* the last byte, though every edge is reported once.  on_connect may have *)
(* answered idle: then the loop has no interest in what the client sends.  *)
Idles(c) == \E f \in Fds : fdOwner[f] = c /\ m_connections[f].state = "idle"
Echoed ==
    \A c \in Clients, n \in 1 .. MaxBytes :
        (sock[c].rx + sock[c].in >= n)
            ~> \/ sock[c].out >= n
               \/ sock[c].peer # "up" \/ Idles(c) \/ ~m_running \/ At("crashed")

(* A connection its client has reset is closed, and its buffer redeemed.   *)
ResetIsRemoved ==
    \A c \in Clients :
        (sock[c].phase = "open" /\ sock[c].peer = "rst")
            ~> (sock[c].phase = "closed" \/ ~m_running \/ At("crashed"))

(* Everything ends that is told to: the loop by stop(), a connection by    *)
(* its client's reset.                                                     *)
EverythingEnds == StopEndsRun /\ ResetIsRemoved

(* Each connection behaves as the state machine the callbacks drive.       *)
FdOf(c) == CHOOSE f \in Fds : fdOwner[f] = c
Contract == INSTANCE ConnectionContract
    WITH phase <- [c \in Clients |->
                        IF sock[c].phase = "queued" THEN "new" ELSE sock[c].phase],
         state <- [c \in Clients |-> IF sock[c].phase = "open"
                        THEN m_connections[FdOf(c)].state ELSE "idle"],
         held  <- [c \in Clients |-> IF sock[c].phase = "open"
                        THEN Held(BufferOf(FdOf(c))) ELSE 0],
         Capacity <- BufferSize
ContractSpec == Contract!Spec
=============================================================================
