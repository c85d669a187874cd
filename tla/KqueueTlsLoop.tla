--------------------------- MODULE KqueueTlsLoop ---------------------------
(***************************************************************************)
(* tls_event_loop_impl of nix/tls_event_loop_impl.h: the TLS event loop    *)
(* over kqueue, from run() to the destructor.  Both filters of a           *)
(* descriptor are on from the accept; the states then only take the write  *)
(* filter off and put it on again.                                         *)
(*                                                                         *)
(* Handlers are one step and callbacks their answers, as in TlsEpollLoop;  *)
(* what is undefined in the code ends the model as a crash.  Variants are  *)
(* plausible bugs.                                                         *)
(***************************************************************************)
EXTENDS TlsSockets, BufferPool, Functions

CONSTANTS
    MaxAccepts,                  \* max_accepts_per_tick
    OnConnect, OnRead, OnWrite   \* what the callbacks may answer

States == {"idle", "read", "write", "die"}     \* el_connection_state
Listen == 0                                    \* m_listen_socket

ASSUME LoopAssumption ==
    /\ MaxAccepts \in Nat /\ SendRoom >= BufferSize
    /\ OnConnect \subseteq States /\ OnRead \subseteq States /\ OnWrite \subseteq States

VARIABLES
    armed,                   \* descriptors whose write filter is on
    held,                    \* what run() has opened
    m_running,
    m_events, handled,       \* what kevent returned; of that, what is done
    m_connections,           \* of each descriptor: its state and its buffer
    ssl,                     \* descriptors with an SSL object in m_tls_states
    m_pending_handshakes,
    pc, accepts              \* where the thread is; handle_accept's count

sockets == <<sock, backlog, fdOwner, tls, armed>>
table   == <<m_connections, ssl, m_pending_handshakes, m_pl, ring>>
thread  == <<pc, accepts>>
vars    == <<sockets, table, thread, held, m_running, m_events, handled>>

Event == [fd : Fds \cup {Listen}, filter : {"READ", "WRITE"}, eof : BOOLEAN,
          to : Clients \cup {NoClient}]

TypeOK ==
    /\ TlsTypeOK /\ PoolTypeOK
    /\ armed \subseteq Fds
    /\ held \subseteq {"ctx", "listen", "kq"} /\ m_running \in BOOLEAN
    /\ m_events \subseteq Event /\ handled \subseteq m_events
    /\ m_connections \in [Fds -> [state : States \ {"die"}, buffer : Buffers \cup {NoBuffer}]]
    /\ ssl \subseteq Fds /\ m_pending_handshakes \subseteq Fds
    /\ pc \in {"start", "wait", "dispatch", "accept", "stopped", "threw", "destroyed", "crashed"}
    /\ accepts \in 0 .. MaxAccepts

Init ==
    /\ TlsInit /\ PoolInit
    /\ armed = {} /\ held = {} /\ m_running = TRUE
    /\ m_events = {} /\ handled = {}
    /\ m_connections = [f \in Fds |-> [state |-> "idle", buffer |-> NoBuffer]]
    /\ ssl = {} /\ m_pending_handshakes = {}
    /\ pc = "start" /\ accepts = 0

BufferOf(f) == m_connections[f].buffer
Buffered == {f \in Fds : BufferOf(f) # NoBuffer}
Owned    == {BufferOf(f) : f \in Buffered}
-----------------------------------------------------------------------------
(* run(), up to its loop; whatever fails throws, and only until the socket *)
(* is open is anything freed before.                                       *)
SetUp ==
    /\ pc = "start"
    /\ held' = {"ctx", "listen", "kq"}
    /\ pc' = "wait"
    /\ UNCHANGED <<sockets, table, accepts, m_running, m_events, handled>>

SetUpFails ==
    /\ pc = "start" /\ "setup" \in Faults
    /\ held' \in {{}, {"ctx", "listen"}, {"ctx", "listen", "kq"}}
    /\ pc' = "threw"
    /\ UNCHANGED <<sockets, table, accepts, m_running, m_events, handled>>

(* The loop ends, by stop() or a signal in kevent; nothing is cleaned up.  *)
Ends ==
    /\ pc' = "stopped"
    /\ UNCHANGED <<sockets, table, accepts, held, m_running, m_events, handled>>

LeaveLoop   == pc = "wait" /\ ~m_running /\ Ends
KeventFails == pc = "wait" /\ m_running /\ "eintr" \in Faults /\ Ends

(* The destructor: the context, the queue, the SSL objects; the buffers go *)
(* to the pool, in the order of an unordered set; it is not drained.       *)
Destroy ==
    /\ pc \in {"stopped", "threw"}
    /\ held' = held \ {"ctx", "kq"}
    /\ ssl' = {}
    /\ \E s \in Bijection(1 .. Cardinality(Buffered), Buffered) :
        m_pl' = m_pl \o [i \in DOMAIN s |-> BufferOf(s[i])]
    /\ ring' = [b \in Buffers |-> IF b \in Owned THEN EmptyRing ELSE ring[b]]
    /\ m_connections' = [f \in Fds |-> [m_connections[f] EXCEPT !.buffer = NoBuffer]]
    /\ pc' = "destroyed"
    /\ UNCHANGED <<sockets, m_pending_handshakes, accepts, m_running, m_events, handled>>

(* stop(), from any other thread, at any time.                             *)
Stop ==
    /\ m_running /\ m_running' = FALSE
    /\ UNCHANGED <<sockets, table, thread, held, m_events, handled>>
-----------------------------------------------------------------------------
(* A connection in the hands of a handler: its socket, the bytes inside    *)
(* its SSL object, its buffer's counters, its state, whether its write     *)
(* filter is on; and dead or lost: erased, and then used.                  *)
Conn(f, c, s, r) ==
    [s |-> s, inside |-> inside[c], r |-> r, state |-> m_connections[f].state,
     armed |-> f \in armed, dead |-> FALSE, lost |-> FALSE]

(* Variant: the write filter stays off.                                    *)
ApplyStateUnarmed(x, state) ==
    IF state = "die" THEN [x EXCEPT !.dead = TRUE]
    ELSE [x EXCEPT !.state = state, !.armed = (@ /\ state # "read")]

(* apply_state.                                                            *)
ApplyState(x, state) ==
    IF state = "die" THEN [x EXCEPT !.dead = TRUE]
    ELSE [x EXCEPT !.state = state,
                   !.armed = (state = "write") \/ (@ /\ state = "idle")]

Ask(x, answers) == {ApplyState(x, state) : state \in answers}

(* handle_read: SSL_read as long as there are input and space.             *)
HandleRead(x) ==
    IF x.state # "read" THEN {x}
    ELSE UNION {
        LET y == [x EXCEPT !.s.rx = @ - o.n, !.s.in = @ + o.n, !.inside = o.inside,
                           !.r.tail = Advance(@, o.n)]
        IN  IF o.end = "error" THEN {ApplyState(y, "die")}
            ELSE IF o.n = 0 THEN {y} ELSE Ask(y, OnRead) :
        o \in ReadsTls(x.s, BufferSize - Count(x.r.head, x.r.tail), FALSE)}

(* handle_write: consume_used, once; then on_write, if all is sent.  When  *)
(* SSL_write fails the connection is erased, and asked whether it is empty.*)
HandleWrite(x) ==
    LET used  == Count(x.r.head, x.r.tail)
        first == Chunk(x.r.head, used)
        n     == Writes(x.s, first, used - first, FALSE)
        y     == [x EXCEPT !.s.tx = @ + n, !.s.out = @ + n, !.r.head = Advance(@, n)]
    IN  CASE x.state # "write" -> {x}
          [] x.state = "write" /\ used > 0 /\ x.s.peer = "rst" ->
                {[x EXCEPT !.dead = TRUE, !.lost = TRUE]}
          [] OTHER -> IF n = used THEN Ask(y, OnWrite) ELSE {y}

(* Variant: the handshake stays pending.                                   *)
ForgetKeepsPending(f) == ssl' = ssl \ {f} /\ UNCHANGED m_pending_handshakes
Forget(f) == ssl' = ssl \ {f} /\ m_pending_handshakes' = m_pending_handshakes \ {f}

(* remove_connection: both filters, the SSL object, the handshake, the     *)
(* descriptor, the buffer (b, of a pool and its counters as they are then).*)
RemoveConnection(f, c, s, b, pool, rings) ==
    /\ armed' = armed \ {f}
    /\ sock' = [sock EXCEPT ![c] = [s EXCEPT !.phase = "closed"]]
    /\ fdOwner' = [fdOwner EXCEPT ![f] = NoClient]
    /\ Forget(f)
    /\ m_pl' = IF b = NoBuffer THEN pool ELSE Append(pool, b)
    /\ ring' = IF b = NoBuffer THEN rings ELSE [rings EXCEPT ![b] = EmptyRing]
    /\ m_connections' = [m_connections EXCEPT ![f] = [state |-> "idle", buffer |-> NoBuffer]]

(* A handler is done with the connection x of client c.                    *)
Done(f, c, b, pool, rings, x) ==
    /\ pc' = IF x.lost THEN "crashed" ELSE pc
    /\ inside' = [inside EXCEPT ![c] = x.inside]
    /\ IF x.dead THEN RemoveConnection(f, c, x.s, b, pool, rings)
       ELSE /\ sock' = [sock EXCEPT ![c] = x.s]
            /\ fdOwner' = [fdOwner EXCEPT ![f] = c]
            /\ armed' = IF x.armed THEN armed \cup {f} ELSE armed \ {f}
            /\ ssl' = ssl \cup {f} /\ m_pending_handshakes' = m_pending_handshakes \ {f}
            /\ m_pl' = pool /\ ring' = [rings EXCEPT ![b] = x.r]
            /\ m_connections' = [m_connections EXCEPT ![f] = [state |-> x.state, buffer |-> b]]

(* register_connection, and on_connect's answer.                           *)
Established(f, c) ==
    \E x \in Ask([Conn(f, c, [sock[c] EXCEPT !.phase = "open"], RingWithNew[Allocated])
                     EXCEPT !.armed = TRUE], OnConnect) :
        Done(f, c, Allocated, PoolWithout, RingWithNew, x)
-----------------------------------------------------------------------------
(* What kevent would return: it looks at the sockets as they are.          *)
Pending ==
    {[fd |-> f, filter |-> "READ", eof |-> sock[fdOwner[f]].peer # "up", to |-> fdOwner[f]] :
        f \in {g \in Fds \ FreeFds : Visible[fdOwner[g]].rx > 0 \/ sock[fdOwner[g]].peer # "up"}}
    \cup
    {[fd |-> f, filter |-> "WRITE", eof |-> sock[fdOwner[f]].peer = "rst", to |-> fdOwner[f]] :
        f \in {g \in armed : sock[fdOwner[g]].tx < SendRoom \/ sock[fdOwner[g]].peer = "rst"}}
    \cup (IF backlog # <<>>
          THEN {[fd |-> Listen, filter |-> "READ", eof |-> FALSE, to |-> NoClient]} ELSE {})

Kevent ==
    /\ pc = "wait" /\ m_running /\ Pending # {}
    /\ m_events' = Pending /\ handled' = {}
    /\ pc' = "dispatch"
    /\ UNCHANGED <<sockets, table, accepts, held, m_running>>

(* Variant: the last batch is dispatched again.                            *)
EndOfBatchAgain ==
    /\ pc = "dispatch" /\ handled = m_events
    /\ handled' = {}
    /\ pc' \in {"wait", "dispatch"}
    /\ UNCHANGED <<sockets, table, accepts, held, m_running, m_events>>

EndOfBatch ==
    /\ pc = "dispatch" /\ handled = m_events
    /\ m_events' = {} /\ handled' = {}
    /\ pc' = "wait"
    /\ UNCHANGED <<sockets, table, accepts, held, m_running>>

Dispatch(e) ==
    /\ pc = "dispatch" /\ e \in m_events \ handled
    /\ handled' = handled \cup {e}
    /\ UNCHANGED <<backlog, held, m_running, m_events>>

(* Variant: only a connection that reads is removed at its end.            *)
RemovesReading(f) == BufferOf(f) # NoBuffer /\ m_connections[f].state = "read"
Removes(f) == fdOwner[f] # NoClient

(* EV_EOF goes first, and closes whatever connection has the descriptor.   *)
DispatchEof ==
    /\ \E e \in m_events :
        /\ e.eof /\ Dispatch(e)
        /\ LET c == fdOwner[e.fd] b == BufferOf(e.fd)
           IN  IF Removes(e.fd)
               THEN RemoveConnection(e.fd, c, sock[c], b, m_pl, ring)
               ELSE UNCHANGED <<sock, fdOwner, armed, table>>
    /\ UNCHANGED <<tls, thread>>

DispatchAccept ==
    /\ \E e \in m_events : e.fd = Listen /\ Dispatch(e)
    /\ pc' = "accept" /\ accepts' = 0
    /\ UNCHANGED <<sock, fdOwner, tls, armed, table>>

OfConnection(e) == e.fd # Listen /\ ~e.eof /\ Dispatch(e)

(* Variant: of a pending handshake, only input is looked at, once it has   *)
(* been answered.                                                          *)
RetriesNot(e) == e.fd \in m_pending_handshakes /\ hs[fdOwner[e.fd]] # "hello"
Retries(e) == e.fd \in m_pending_handshakes

(* retry_handshake, at either filter's event: any answer but "ok" and      *)
(* WANT_READ closes.                                                       *)
DispatchPending ==
    /\ \E e \in m_events :
        /\ OfConnection(e) /\ Retries(e)
        /\ LET c == fdOwner[e.fd]
           IN  \E o \in Handshakes(c) :
                /\ hs' = [hs EXCEPT ![c] = o.hs]
                /\ CASE o.ret = "ok"   -> Established(e.fd, c)
                     [] o.ret = "want" -> UNCHANGED <<sock, fdOwner, inside, armed, table, pc>>
                     [] OTHER -> /\ RemoveConnection(e.fd, c, sock[c], NoBuffer, m_pl, ring)
                                 /\ UNCHANGED <<inside, pc>>
    /\ UNCHANGED accepts

(* An event of a connection: for whatever connection has the descriptor.   *)
ConnOf(f) == Conn(f, fdOwner[f], sock[fdOwner[f]], ring[BufferOf(f)])
Handle(e, outcomes) ==
    /\ OfConnection(e) /\ ~Retries(e)
    /\ IF BufferOf(e.fd) = NoBuffer THEN UNCHANGED <<sock, fdOwner, inside, armed, table, pc>>
       ELSE \E x \in outcomes : Done(e.fd, fdOwner[e.fd], BufferOf(e.fd), m_pl, ring, x)
    /\ UNCHANGED <<hs, accepts>>

DispatchRead ==
    \E e \in m_events : e.filter = "READ" /\ Handle(e, HandleRead(ConnOf(e.fd)))
DispatchWrite ==
    \E e \in m_events : e.filter = "WRITE" /\ Handle(e, HandleWrite(ConnOf(e.fd)))
-----------------------------------------------------------------------------
(* handle_accept, one turn of its loop.                                    *)
Accepting == pc = "accept" /\ accepts < MaxAccepts

AcceptEnds ==
    /\ pc = "accept"
    /\ accepts = MaxAccepts \/ FreeFds = {} \/ backlog = <<>>
    /\ pc' = "dispatch"
    /\ UNCHANGED <<sockets, table, accepts, held, m_running, m_events, handled>>

Accept(f, c) ==
    /\ Accepting /\ backlog # <<>> /\ Lowest(f) /\ c = Head(backlog)
    /\ backlog' = Tail(backlog)
    /\ accepts' = accepts + 1
    /\ UNCHANGED <<held, m_running, m_events, handled>>

(* fcntl, SSL_new or kevent fails, or the handshake does, for any reason   *)
(* but WANT_READ: the socket is closed.  After F_GETFL the loop ends.      *)
AcceptFails ==
    /\ \E f \in Fds, c \in Clients :
        /\ Accept(f, c)
        /\ \/ "fcntl" \in Faults /\ pc' \in {pc, "dispatch"}
           \/ (\E o \in Handshakes(c) : o.ret = "error") /\ pc' = pc
        /\ sock' = [sock EXCEPT ![c].phase = "closed"]
    /\ UNCHANGED <<fdOwner, tls, armed, table>>

AcceptEstablished ==
    \E f \in Fds, c \in Clients :
        /\ Accept(f, c)
        /\ \E o \in Handshakes(c) : o.ret = "ok" /\ hs' = [hs EXCEPT ![c] = o.hs]
        /\ Established(f, c)

(* Both filters are on while the handshake is pending.                     *)
AcceptPending ==
    /\ \E f \in Fds, c \in Clients :
        /\ Accept(f, c)
        /\ \E o \in Handshakes(c) : o.ret = "want" /\ hs' = [hs EXCEPT ![c] = o.hs]
        /\ sock' = [sock EXCEPT ![c].phase = "open"]
        /\ fdOwner' = [fdOwner EXCEPT ![f] = c]
        /\ armed' = armed \cup {f}
        /\ ssl' = ssl \cup {f} /\ m_pending_handshakes' = m_pending_handshakes \cup {f}
    /\ UNCHANGED <<pc, inside, m_connections, m_pl, ring>>
-----------------------------------------------------------------------------
(* kevent times out; or all is over.                                       *)
Rests == pc \in {"wait", "destroyed", "crashed"} /\ UNCHANGED vars

LoopStep ==
    \/ SetUp \/ LeaveLoop \/ Destroy \/ Kevent \/ EndOfBatch
    \/ DispatchEof \/ DispatchAccept \/ DispatchPending \/ DispatchRead \/ DispatchWrite
    \/ AcceptEnds \/ AcceptFails \/ AcceptEstablished \/ AcceptPending

Running == pc \in {"wait", "dispatch", "accept"}
Peer(step) ==
    /\ Running /\ step
    /\ UNCHANGED <<fdOwner, armed, table, thread, held, m_running, m_events, handled>>

PeerReads(c) == Peer(Reads(c) /\ UNCHANGED <<backlog, tls>>)
PeerActs(c) ==
    \/ PeerReads(c)
    \/ Peer(Connects(c) /\ UNCHANGED tls)
    \/ Peer((Speaks(c) \/ SendsRecord(c)) /\ UNCHANGED backlog)
    \/ Peer((Closes(c) \/ Resets(c)) /\ UNCHANGED <<backlog, tls>>)

Next ==
    \/ LoopStep \/ SetUpFails \/ KeventFails \/ Stop \/ Rests
    \/ \E c \in Clients : PeerActs(c)

Spec == Init /\ [][Next]_vars

(* The loop's thread is scheduled, and a client reads what is sent to it.  *)
(* Of a batch's events, each is reached: the order is kevent's.            *)
Fairness == WF_vars(LoopStep) /\ \A c \in Clients : WF_vars(PeerReads(c))
FairSpec == Spec /\ Fairness
-----------------------------------------------------------------------------
(* While run() runs, an SSL object belongs to a connection that is open,   *)
(* and the handshake of one is pending until its client is established;    *)
(* only then has it a buffer; and a write filter is of an open descriptor. *)
TlsObjects ==
    Running => /\ armed \subseteq ssl
               /\ \A f \in Fds :
                    LET open == fdOwner[f] # NoClient
                        established == open /\ hs[fdOwner[f]] = "done"
                    IN  /\ f \in ssl <=> open
                        /\ f \in m_pending_handshakes <=> (open /\ ~established)
                        /\ BufferOf(f) # NoBuffer <=> established

(* Every buffer is in one place, the pool or one connection; and whatever  *)
(* the loop was doing when it ended, the destructor collects them all.     *)
Pooled == {m_pl[i] : i \in DOMAIN m_pl}
BufferConservation ==
    pc # "crashed" =>
        /\ \A f, g \in Fds : (f # g /\ BufferOf(f) # NoBuffer) => BufferOf(f) # BufferOf(g)
        /\ \A i, j \in DOMAIN m_pl : i # j => m_pl[i] # m_pl[j]
        /\ Owned \cap Pooled = {} /\ Owned \cup Pooled = Buffers
        /\ pc = "destroyed" => Owned = {} /\ ssl = {} /\ held \subseteq {"listen"}

(* A buffer holds what was decrypted on its connection and not sent back.  *)
ByteAccount ==
    \A f \in Fds : (fdOwner[f] # NoClient /\ BufferOf(f) # NoBuffer) =>
        Held(BufferOf(f)) = sock[fdOwner[f]].in - sock[fdOwner[f]].out

(* An event is for the connection it was reported of, unless the other     *)
(* filter's event of the same batch closed that one.                       *)
EventsAreCurrent ==
    \A e \in m_events \ handled :
        e.fd = Listen \/ fdOwner[e.fd] = e.to \/ \E d \in handled : d.fd = e.fd

(* stop() ends run(), whatever the clients do meanwhile.                   *)
StopEndsRun == ~m_running ~> (~Running /\ pc # "start")

(* What a client says in the handshake is answered, or the connection is   *)
(* closed.                                                                 *)
Over(c) == sock[c].phase = "closed" \/ ~m_running \/ ~Running
HandshakeAnswered ==
    \A c \in Clients : (sock[c].phase = "open" /\ hs[c] \in {"hello", "ready", "bad"})
                            ~> (hs[c] \in {"replied", "done"} \/ Over(c))

(* What a client sends comes back; but for bytes inside the library, which *)
(* no event will announce, and unless the client left or the application   *)
(* waits for nothing.                                                      *)
Idles(c) == \E f \in Fds : fdOwner[f] = c /\ m_connections[f].state = "idle"
Returned(c) == Sent(c) = sock[c].out \/ sock[c].peer # "up" \/ Idles(c) \/ Over(c)
Echoed == \A c \in Senders : ~Returned(c) ~> (Returned(c) \/ inside[c] > 0)

(* A connection its client closed or reset is removed, established or not. *)
EndedIsRemoved ==
    \A c \in Clients : (sock[c].phase = "open" /\ sock[c].peer # "up") ~> Over(c)

(* The loop's tables and objects agree with each other, with the sockets   *)
(* and with the bytes that moved, whatever has happened: all of the above. *)
Consistent == TypeOK /\ TlsObjects /\ BufferConservation /\ ByteAccount /\ EventsAreCurrent

(* Everything ends that is told to: the loop by stop(), a connection by    *)
(* its client.                                                             *)
EverythingEnds == StopEndsRun /\ EndedIsRemoved
=============================================================================
