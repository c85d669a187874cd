----------------------------- MODULE KqueueLoop -----------------------------
(***************************************************************************)
(* event_loop_impl_t of nix/event_loop_impl.h: the TCP event loop over     *)
(* kqueue, which reports a socket as long as it is ready, its two filters  *)
(* apart.  stop() is called from another thread, which closes the queue    *)
(* and deletes the acceptor under the loop's feet.                         *)
(*                                                                         *)
(* A handler is one step, and callbacks are their answers, as in           *)
(* TlsEpollLoop; on_err answers "die", as it does in the tests.  What is   *)
(* undefined in the code (the use of a connection that has been erased)    *)
(* ends the model as a crash.  Variants are plausible bugs.                *)
(***************************************************************************)
EXTENDS Sockets, BufferPool

CONSTANTS
    MaxAccepts,                  \* max_accepts_per_tick
    OnConnect, OnRead, OnWrite   \* what the callbacks may answer

States == {"idle", "read", "write", "die"}     \* el_connection_state
Listen == 0                                    \* m_acceptor->raw()

ASSUME LoopAssumption ==
    /\ MaxAccepts \in Nat
    /\ OnConnect \subseteq States /\ OnRead \subseteq States /\ OnWrite \subseteq States

VARIABLES
    armed,                   \* descriptors whose write filter is on
    m_kq, m_acceptor,        \* "none", "open", or "gone"
    m_running, stopping,     \* and how far stop() is
    m_events, handled,       \* what kevent returned; of that, what is done
    m_connections,           \* of each descriptor: its state and buffer
    pc, accepts              \* where the thread is; handle_accept's count

sockets == <<sock, backlog, fdOwner, armed>>
table   == <<m_connections, m_pl, ring>>
objects == <<m_kq, m_acceptor, m_running, stopping>>
vars    == <<sockets, table, objects, m_events, handled, pc, accepts>>

(* eof: EV_EOF is set.                                                     *)
Event == [fd : Fds \cup {Listen}, filter : {"READ", "WRITE"}, eof : BOOLEAN,
          to : Clients \cup {NoClient}]

TypeOK ==
    /\ SocketsTypeOK /\ PoolTypeOK
    /\ armed \subseteq Fds
    /\ m_kq \in {"none", "open", "gone"} /\ m_acceptor \in {"none", "open", "gone"}
    /\ m_running \in BOOLEAN /\ stopping \in 0 .. 3
    /\ m_events \subseteq Event /\ handled \subseteq m_events
    /\ m_connections \in [Fds -> [state : States \ {"die"}, buffer : Buffers \cup {NoBuffer}]]
    /\ pc \in {"start", "wait", "dispatch", "accept", "stopped", "destroyed",
               "crashed", "asserted"}
    /\ accepts \in 0 .. MaxAccepts

Init ==
    /\ SocketsInit /\ PoolInit
    /\ armed = {} /\ m_kq = "none" /\ m_acceptor = "none"
    /\ m_running = TRUE /\ stopping = 0
    /\ m_events = {} /\ handled = {}
    /\ m_connections = [f \in Fds |-> [state |-> "idle", buffer |-> NoBuffer]]
    /\ pc = "start" /\ accepts = 0

BufferOf(f) == m_connections[f].buffer
Known(f)    == BufferOf(f) # NoBuffer       \* f is in m_connections
-----------------------------------------------------------------------------
(* run(), up to its loop.                                                  *)
SetUp ==
    /\ pc = "start"
    /\ m_kq' = "open" /\ m_acceptor' = "open"
    /\ pc' = "wait"
    /\ UNCHANGED <<sockets, table, m_running, stopping, m_events, handled, accepts>>

(* open throws; or kqueue, or the filter of the listening socket, fails:   *)
(* on_err is told and run() returns.                                       *)
SetUpFails ==
    /\ pc = "start" /\ "setup" \in Faults
    /\ m_acceptor' = "open" /\ m_kq' \in {"none", "open"}
    /\ pc' = "stopped"
    /\ UNCHANGED <<sockets, table, m_running, stopping, m_events, handled, accepts>>

(* stop(), called from another thread once run() has begun: the flag, the  *)
(* queue, the acceptor.                                                    *)
Stop ==
    /\ pc \notin {"start", "destroyed", "crashed", "asserted"} /\ stopping < 3
    /\ stopping' = stopping + 1
    /\ m_running' = IF stopping = 0 THEN FALSE ELSE m_running
    /\ m_kq' = IF stopping = 1 /\ m_kq = "open" THEN "gone" ELSE m_kq
    /\ m_acceptor' = IF stopping = 2 /\ m_acceptor = "open" THEN "gone" ELSE m_acceptor
    /\ UNCHANGED <<sockets, table, m_events, handled, pc, accepts>>

(* The loop ends, and nothing is closed.                                   *)
LeaveLoop ==
    /\ pc = "wait" /\ ~m_running
    /\ pc' = "stopped"
    /\ UNCHANGED <<sockets, table, objects, m_events, handled, accepts>>

(* The destructor closes the queue, deletes the acceptor, frees the pool.  *)
Destroy ==
    /\ pc = "stopped" /\ stopping \in {0, 3}
    /\ m_kq' = IF m_kq = "open" THEN "gone" ELSE m_kq
    /\ m_acceptor' = IF m_acceptor = "open" THEN "gone" ELSE m_acceptor
    /\ m_pl' = <<>>
    /\ pc' = "destroyed"
    /\ UNCHANGED <<sockets, m_connections, ring, m_running, stopping, m_events, handled, accepts>>
-----------------------------------------------------------------------------
(* A connection in the hands of a handler: its socket, its buffer's        *)
(* counters, its state, whether its write filter is on; and dead or lost:  *)
(* erased, and then used.                                                  *)
Conn(f) ==
    [s |-> sock[fdOwner[f]], r |-> ring[BufferOf(f)], state |-> m_connections[f].state,
     armed |-> f \in armed, dead |-> FALSE, garbage |-> 0, lost |-> FALSE]

(* Variant: the write filter is not put on.                                *)
ApplyStateUnarmed(x, state) ==
    IF state = "die" THEN [x EXCEPT !.dead = TRUE] ELSE [x EXCEPT !.state = state]

(* apply_state: only the write filter is ever changed.                     *)
ApplyState(x, state) ==
    IF state = "die" THEN [x EXCEPT !.dead = TRUE]
    ELSE [x EXCEPT !.state = state,
                   !.armed = (state = "write") \/ (@ /\ state = "idle")]

Ask(x, answers) == {IF state = "idle" THEN x ELSE ApplyState(x, state) : state \in answers}

(* What recv finds when no byte is left: 0 is an error or not, as errno    *)
(* happens to be.                                                          *)
RecvEnds(s) == CASE s.peer = "up"  -> {"again"}
                 [] s.peer = "fin" -> {"again", "error"}
                 [] s.peer = "rst" -> {"error"}

(* handle_read: consume_free, in two chunks at most.  After an error the   *)
(* chunk counts as filled, in a buffer that is back in the pool; and when  *)
(* another chunk follows, the lambda works on an erased connection.        *)
HandleRead(x) ==
    LET left  == BufferSize - Count(x.r.head, x.r.tail)
        first == Chunk(x.r.tail, left)
        n     == Smaller(left, x.s.rx)
        ends  == IF n < left /\ n \in {0, first} THEN RecvEnds([x.s EXCEPT !.rx = 0]) ELSE {"again"}
        y     == [x EXCEPT !.s.rx = @ - n, !.s.in = @ + n, !.r.tail = Advance(@, n)]
        asked == IF IsEmpty(y.r.head, y.r.tail) THEN {y} ELSE Ask(y, OnRead)
        error == [y EXCEPT !.dead = TRUE, !.garbage = IF n = 0 THEN first ELSE left - first,
                           !.lost = (n = 0 /\ first < left)]
    IN  (IF "again" \in ends THEN asked ELSE {}) \cup (IF "error" \in ends THEN {error} ELSE {})

(* handle_write: consume_used; then on_write, if all is sent.  After an    *)
(* error the connection is erased, and asked whether it is empty.          *)
HandleWrite(x) ==
    LET used == Count(x.r.head, x.r.tail)
        n    == Smaller(used, SendRoom - x.s.tx)
        y    == [x EXCEPT !.s.tx = @ + n, !.s.out = @ + n, !.r.head = Advance(@, n)]
    IN  IF used > 0 /\ x.s.peer = "rst" THEN {[x EXCEPT !.dead = TRUE, !.lost = TRUE]}
        ELSE IF n = used THEN Ask(y, OnWrite) ELSE {y}

(* do_remove_connection: closed, its buffer redeemed (and "garbage" bytes  *)
(* counted in it afterwards), erased.                                      *)
RemoveConnection(f, s, garbage) ==
    /\ sock' = [sock EXCEPT ![fdOwner[f]] = [s EXCEPT !.phase = "closed"]]
    /\ fdOwner' = [fdOwner EXCEPT ![f] = NoClient]
    /\ armed' = armed \ {f}
    /\ m_pl' = Append(m_pl, BufferOf(f))
    /\ ring' = [ring EXCEPT ![BufferOf(f)] = [head |-> 0, tail |-> garbage]]
    /\ m_connections' = [m_connections EXCEPT ![f] = [state |-> "idle", buffer |-> NoBuffer]]

(* A handler is done with the connection x.                                *)
Done(f, x) ==
    /\ pc' = IF x.lost THEN "crashed" ELSE pc
    /\ IF x.dead THEN RemoveConnection(f, x.s, x.garbage)
       ELSE /\ sock' = [sock EXCEPT ![fdOwner[f]] = x.s]
            /\ armed' = IF x.armed THEN armed \cup {f} ELSE armed \ {f}
            /\ ring' = [ring EXCEPT ![BufferOf(f)] = x.r]
            /\ m_connections' = [m_connections EXCEPT ![f].state = x.state]
            /\ UNCHANGED <<fdOwner, m_pl>>
-----------------------------------------------------------------------------
(* What kevent would return: it looks at the sockets as they are.          *)
Pending ==
    {[fd |-> f, filter |-> "READ", eof |-> sock[fdOwner[f]].peer # "up", to |-> fdOwner[f]] :
        f \in {g \in Fds \ FreeFds : sock[fdOwner[g]].rx > 0 \/ sock[fdOwner[g]].peer # "up"}}
    \cup
    {[fd |-> f, filter |-> "WRITE", eof |-> sock[fdOwner[f]].peer = "rst", to |-> fdOwner[f]] :
        f \in {g \in armed : sock[fdOwner[g]].tx < SendRoom \/ sock[fdOwner[g]].peer = "rst"}}
    \cup (IF backlog # <<>>
          THEN {[fd |-> Listen, filter |-> "READ", eof |-> FALSE, to |-> NoClient]} ELSE {})

Kevent ==
    /\ pc = "wait" /\ m_running /\ m_kq = "open" /\ Pending # {}
    /\ m_events' = Pending /\ handled' = {}
    /\ pc' = "dispatch"
    /\ UNCHANGED <<sockets, table, objects, accepts>>

(* A signal: on_err is told, and the loop ends.                            *)
KeventFails ==
    /\ pc = "wait" /\ m_running /\ "eintr" \in Faults
    /\ m_running' = FALSE
    /\ UNCHANGED <<sockets, table, m_kq, m_acceptor, stopping, m_events, handled, pc, accepts>>

(* Variant: the last batch is dispatched again.                            *)
EndOfBatchAgain ==
    /\ pc = "dispatch" /\ handled = m_events
    /\ handled' = {}
    /\ pc' \in {"wait", "dispatch"}
    /\ UNCHANGED <<sockets, table, objects, m_events, accepts>>

EndOfBatch ==
    /\ pc = "dispatch" /\ handled = m_events
    /\ m_events' = {} /\ handled' = {}
    /\ pc' = "wait"
    /\ UNCHANGED <<sockets, table, objects, accepts>>

Dispatch(e) ==
    /\ pc = "dispatch" /\ e \in m_events \ handled
    /\ handled' = handled \cup {e}
    /\ UNCHANGED <<backlog, objects, m_events>>

(* Variant: only a connection that reads is removed at its end.            *)
ErasesReading(f) == Known(f) /\ m_connections[f].state = "read"
Erases(f) == Known(f)

(* EV_EOF goes first: input that came before the end is not read.          *)
DispatchEof ==
    /\ \E e \in m_events :
        /\ e.eof /\ Dispatch(e)
        /\ IF Erases(e.fd) THEN RemoveConnection(e.fd, sock[fdOwner[e.fd]], 0)
           ELSE UNCHANGED <<sock, fdOwner, armed, table>>
    /\ UNCHANGED <<pc, accepts>>

(* Every other event asks the acceptor which descriptor is its own.        *)
DispatchLost ==
    /\ m_acceptor = "gone"
    /\ \E e \in m_events : ~e.eof /\ Dispatch(e)
    /\ pc' = "crashed"
    /\ UNCHANGED <<sock, fdOwner, armed, table, accepts>>

DispatchAccept ==
    /\ m_acceptor = "open"
    /\ \E e \in m_events : e.fd = Listen /\ Dispatch(e)
    /\ pc' = "accept" /\ accepts' = 0
    /\ UNCHANGED <<sock, fdOwner, armed, table>>

(* An event of a connection: for whatever connection has the descriptor.   *)
Handle(e, state, outcomes) ==
    /\ m_acceptor = "open" /\ e.fd # Listen /\ ~e.eof /\ Dispatch(e)
    /\ CASE ~Known(e.fd) -> UNCHANGED <<sock, fdOwner, armed, table, pc>>
         [] Known(e.fd) /\ m_connections[e.fd].state # state ->
                pc' = "asserted" /\ UNCHANGED <<sock, fdOwner, armed, table>>
         [] OTHER -> \E x \in outcomes : Done(e.fd, x)
    /\ UNCHANGED accepts

DispatchRead ==
    \E e \in m_events : e.filter = "READ" /\ Handle(e, "read", HandleRead(Conn(e.fd)))
DispatchWrite ==
    \E e \in m_events : e.filter = "WRITE" /\ Handle(e, "write", HandleWrite(Conn(e.fd)))
-----------------------------------------------------------------------------
(* handle_accept, one turn of its loop.                                    *)
Accepting == pc = "accept" /\ accepts < MaxAccepts

AcceptEnds ==
    /\ pc = "accept"
    /\ accepts = MaxAccepts \/ m_acceptor = "gone" \/ FreeFds = {} \/ backlog = <<>>
    /\ pc' = IF m_acceptor = "gone" /\ accepts < MaxAccepts THEN "crashed" ELSE "dispatch"
    /\ UNCHANGED <<sockets, table, objects, m_events, handled, accepts>>

Accept(f, c) ==
    /\ Accepting /\ m_acceptor = "open" /\ backlog # <<>> /\ Lowest(f) /\ c = Head(backlog)
    /\ backlog' = Tail(backlog)
    /\ accepts' = accepts + 1
    /\ UNCHANGED <<objects, m_events, handled>>

(* fcntl fails (after F_GETFL the loop ends), or kevent, as it does when   *)
(* the queue is closed: so is the connection.                              *)
AcceptFails ==
    /\ "fcntl" \in Faults \/ m_kq = "gone"
    /\ \E f \in Fds, c \in Clients : Accept(f, c) /\ sock' = [sock EXCEPT ![c].phase = "closed"]
    /\ pc' \in {pc, "dispatch"}
    /\ UNCHANGED <<fdOwner, armed, table>>

(* on_connect answers, of a connection whose read filter is on; when it    *)
(* answers die, the buffer goes back.                                      *)
AcceptOne ==
    /\ \E f \in Fds, c \in Clients, state \in OnConnect :
        /\ Accept(f, c) /\ m_kq = "open"
        /\ IF state = "die"
           THEN /\ sock' = [sock EXCEPT ![c].phase = "closed"]
                /\ m_pl' = Append(PoolWithout, Allocated)
                /\ ring' = [RingWithNew EXCEPT ![Allocated] = EmptyRing]
                /\ UNCHANGED <<fdOwner, armed, m_connections>>
           ELSE /\ sock' = [sock EXCEPT ![c].phase = "open"]
                /\ fdOwner' = [fdOwner EXCEPT ![f] = c]
                /\ armed' = IF state = "write" THEN armed \cup {f} ELSE armed
                /\ m_connections' = [m_connections EXCEPT
                        ![f] = [state |-> state, buffer |-> Allocated]]
                /\ m_pl' = PoolWithout /\ ring' = RingWithNew
    /\ UNCHANGED pc

-----------------------------------------------------------------------------
(* kevent times out; or all is over.                                       *)
Rests == pc \in {"wait", "stopped", "destroyed", "crashed", "asserted"} /\ UNCHANGED vars

LoopStep ==
    \/ SetUp \/ LeaveLoop \/ Destroy \/ Kevent \/ EndOfBatch
    \/ DispatchEof \/ DispatchLost \/ DispatchAccept \/ DispatchRead \/ DispatchWrite
    \/ AcceptEnds \/ AcceptFails \/ AcceptOne

Running == pc \in {"wait", "dispatch", "accept"}
Peer(step) ==
    /\ Running /\ step
    /\ UNCHANGED <<fdOwner, armed, table, objects, m_events, handled, pc, accepts>>

PeerReads(c) == Peer(Reads(c) /\ UNCHANGED backlog)
PeerActs(c) ==
    PeerReads(c) \/ Peer(Connects(c))
        \/ Peer((Sends(c) \/ Closes(c) \/ Resets(c)) /\ UNCHANGED backlog)

Next == LoopStep \/ SetUpFails \/ KeventFails \/ Stop \/ Rests \/ \E c \in Clients : PeerActs(c)

Spec == Init /\ [][Next]_vars

(* The loop's thread is scheduled; stop(), once begun, returns; and a      *)
(* client reads what is sent to it.                                        *)
Fairness ==
    /\ WF_vars(LoopStep) /\ WF_vars(stopping > 0 /\ Stop)
    /\ \A c \in Clients : WF_vars(PeerReads(c))
FairSpec == Spec /\ Fairness
-----------------------------------------------------------------------------
(* While run() runs, a descriptor is in the table exactly while it is open,*)
(* its write filter is on only then, and every buffer is in one place.     *)
Owned  == {BufferOf(f) : f \in Fds} \ {NoBuffer}
Pooled == {m_pl[i] : i \in DOMAIN m_pl}
BufferConservation ==
    Running => /\ \A f \in Fds : Known(f) <=> fdOwner[f] # NoClient
               /\ armed \cap FreeFds = {}
               /\ \A f, g \in Fds : (f # g /\ Known(f)) => BufferOf(f) # BufferOf(g)
               /\ \A i, j \in DOMAIN m_pl : i # j => m_pl[i] # m_pl[j]
               /\ Owned \cap Pooled = {} /\ Owned \cup Pooled = Buffers

(* A buffer holds what was received on its connection and not sent back;   *)
(* as long as no client has left (a failed recv leaves bytes in the pool). *)
ByteAccount ==
    (\A c \in Clients : sock[c].peer = "up") =>
        \A f \in Fds : Known(f) => Held(BufferOf(f)) = sock[fdOwner[f]].in - sock[fdOwner[f]].out

(* An event is for the connection it was reported of, unless the other     *)
(* filter's event of the same batch closed that one.                       *)
EventsAreCurrent ==
    \A e \in m_events \ handled :
        e.fd = Listen \/ fdOwner[e.fd] = e.to \/ \E d \in handled : d.fd = e.fd

(* The loop's thread loses its way only after stop() is through, or a      *)
(* client left: never by the order of a batch's events alone.  Nor does it *)
(* find a connection in another state than it asserts (:220, :244) of      *)
(* clients that stay and wait for their reply (a Window of 1): input that  *)
(* comes while a reply is sent is reported, and not expected.              *)
SomebodyLeft == \E c \in Clients : sock[c].peer # "up"
CrashesHaveCause ==
    /\ pc = "crashed"  => (m_acceptor = "gone" /\ m_kq = "gone") \/ SomebodyLeft
    /\ pc = "asserted" => Window > 1 \/ SomebodyLeft

(* stop() ends run(), though another thread calls it.                      *)
StopEndsRun == ~m_running ~> (~Running /\ pc # "start")

(* What a client sends comes back, though its replies wait in one state    *)
(* and its input is reported in every one.                                 *)
Over(c) == sock[c].phase = "closed" \/ ~m_running \/ ~Running
Returned(c) == Sent(c) <= sock[c].out \/ sock[c].peer # "up" \/ Over(c)
Echoed == \A c \in Clients : ~Returned(c) ~> Returned(c)

(* A connection its client closed or reset is removed.                     *)
EndedIsRemoved ==
    \A c \in Clients : (sock[c].phase = "open" /\ sock[c].peer # "up") ~> Over(c)

(* The loop's tables and objects agree with each other, with the sockets   *)
(* and with the bytes that moved, whatever has happened: all of the above. *)
Consistent ==
    /\ TypeOK /\ BufferConservation /\ ByteAccount
    /\ EventsAreCurrent /\ CrashesHaveCause

(* Everything ends that is told to: the loop by stop(), a connection by    *)
(* its client.                                                             *)
EverythingEnds == StopEndsRun /\ EndedIsRemoved
=============================================================================
