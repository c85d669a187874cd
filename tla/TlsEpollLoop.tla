---------------------------- MODULE TlsEpollLoop ----------------------------
(***************************************************************************)
(* tls_event_loop_impl of linux/tls_event_loop_impl.h: the TLS event loop  *)
(* over edge-triggered epoll, from run() to the destructor.                *)
(*                                                                         *)
(* A handler is one step: nothing it does is seen before it returns, and   *)
(* what a client does between two of its calls it may as well do before    *)
(* the first.  The callbacks are their answers, as in EpollLoop.           *)
(* Definitions marked Variant are plausible bugs, kept beside what they    *)
(* are a variant of: each breaks a property stated at the end.             *)
(***************************************************************************)
EXTENDS TlsSockets, BufferPool, Functions

CONSTANTS
    MaxAccepts,                  \* max_accepts_per_tick
    Ktls,                        \* clients whose connections the kernel can offload
    OnConnect, OnRead, OnWrite   \* what the callbacks may answer

States == {"idle", "read", "write", "die"}     \* el_connection_state
Listen == 0                                    \* m_listen_socket
Signal == {"IN", "OUT", "HUP"}                 \* HUP: and RDHUP and ERR

ASSUME LoopAssumption ==
    /\ MaxAccepts \in Nat /\ Ktls \subseteq Clients /\ SendRoom >= BufferSize
    /\ OnConnect \subseteq States /\ OnRead \subseteq States /\ OnWrite \subseteq States

VARIABLES
    armed, ready,            \* epoll's, as in EpollSockets
    held,                    \* what run() has opened: m_ctx, the listening
                             \* socket, m_epfd
    m_running,
    m_events,                \* what epoll_wait returned, not dispatched yet
    m_connections,           \* of each descriptor: its state and its buffer
    ssl,                     \* descriptors with an SSL object in m_tls_states
    m_pending_handshakes,
    pc, accepts              \* where the thread is; handle_accept's count

sockets == <<sock, backlog, fdOwner, tls, armed, ready>>
table   == <<m_connections, ssl, m_pending_handshakes, m_pl, ring>>
thread  == <<pc, accepts>>
vars    == <<sockets, table, thread, held, m_running, m_events>>

Epoll == INSTANCE EpollSockets WITH sock <- Visible, errno <- "other"

TypeOK ==
    /\ TlsTypeOK /\ PoolTypeOK
    /\ armed \in [Fds -> SUBSET Signal] /\ ready \subseteq Fds \cup {Listen}
    /\ held \subseteq {"ctx", "listen", "epfd"}
    /\ m_running \in BOOLEAN
    /\ m_events \subseteq [fd : Fds \cup {Listen}, ev : SUBSET Signal,
                           to : Clients \cup {NoClient}]
    /\ m_connections \in [Fds -> [state : States \ {"die"}, buffer : Buffers \cup {NoBuffer}]]
    /\ ssl \subseteq Fds /\ m_pending_handshakes \subseteq Fds
    /\ pc \in {"start", "wait", "dispatch", "accept", "stopped", "threw", "destroyed", "crashed"}
    /\ accepts \in 0 .. MaxAccepts

Init ==
    /\ TlsInit /\ PoolInit
    /\ armed = [f \in Fds |-> {}] /\ ready = {}
    /\ held = {} /\ m_running = TRUE /\ m_events = {}
    /\ m_connections = [f \in Fds |-> [state |-> "idle", buffer |-> NoBuffer]]
    /\ ssl = {} /\ m_pending_handshakes = {}
    /\ pc = "start" /\ accepts = 0

BufferOf(f) == m_connections[f].buffer
Buffered == {f \in Fds : BufferOf(f) # NoBuffer}
Owned    == {BufferOf(f) : f \in Buffered}
-----------------------------------------------------------------------------
(* run(), up to its loop.  Whatever fails throws; the context is freed     *)
(* before, until the socket is open.  From then on the destructor frees    *)
(* it, and nobody closes the socket.                                       *)
SetUp ==
    /\ pc = "start"
    /\ held' = {"ctx", "listen", "epfd"}
    /\ pc' = "wait"
    /\ UNCHANGED <<sockets, table, accepts, m_running, m_events>>

SetUpFails ==
    /\ pc = "start" /\ "setup" \in Faults
    /\ held' \in {{}, {"ctx", "listen"}}
    /\ pc' = "threw"
    /\ UNCHANGED <<sockets, table, accepts, m_running, m_events>>

(* Variant: a handshake's SSL object is not freed.                         *)
FreeEstablished == ssl' = m_pending_handshakes
FreeObjects     == ssl' = {}

(* The loop ends: every SSL object is freed and every buffer redeemed, in  *)
(* the order of the table; no connection is closed.                        *)
LeaveLoop ==
    /\ pc = "wait" /\ ~m_running
    /\ FreeObjects /\ m_pending_handshakes' = {}
    /\ \E s \in Bijection(1 .. Cardinality(Buffered), Buffered) :
        /\ \A i, j \in DOMAIN s : i < j => s[i] < s[j]
        /\ m_pl' = m_pl \o [i \in DOMAIN s |-> BufferOf(s[i])]
    /\ ring' = [b \in Buffers |-> IF b \in Owned THEN EmptyRing ELSE ring[b]]
    /\ m_connections' = [f \in Fds |-> [m_connections[f] EXCEPT !.buffer = NoBuffer]]
    /\ held' = {"ctx"}
    /\ pc' = "stopped"
    /\ UNCHANGED <<sockets, accepts, m_running, m_events>>

(* The destructor frees the context and what is in the pool.               *)
Destroy ==
    /\ pc \in {"stopped", "threw"}
    /\ held' = held \ {"ctx"}
    /\ m_pl' = <<>>
    /\ pc' = "destroyed"
    /\ UNCHANGED <<sockets, accepts, m_connections, ssl, m_pending_handshakes, ring,
                   m_running, m_events>>

(* stop(), from any other thread, at any time.                             *)
Stop ==
    /\ m_running /\ m_running' = FALSE
    /\ UNCHANGED <<sockets, table, thread, held, m_events>>
-----------------------------------------------------------------------------
(* A connection in the hands of a handler: its socket, the bytes inside    *)
(* its SSL object, its buffer's counters, its state; whether epoll has     *)
(* been told of that, and whether it is dead.                              *)
Conn(c, s, r, state) ==
    [s |-> s, inside |-> inside[c], ktls |-> c \in Ktls, r |-> r, state |-> state,
     told |-> FALSE, dead |-> FALSE]

(* Variant: epoll is not told of the new state.                            *)
ApplyStateUntold(x, state) ==
    IF state = "die" THEN [x EXCEPT !.dead = TRUE] ELSE [x EXCEPT !.state = state]

(* apply_state.                                                            *)
ApplyState(x, state) ==
    IF state = "die" THEN [x EXCEPT !.dead = TRUE]
    ELSE [x EXCEPT !.state = state, !.told = TRUE]

Ask(x, answers) == {ApplyState(x, state) : state \in answers}

(* handle_read: SSL_read, or recv, as long as there are input and space.   *)
(* An error is the end, and on_read is not asked about bytes before it.    *)
HandleRead(x) ==
    IF x.state # "read" THEN {x}
    ELSE UNION {
        LET y == [x EXCEPT !.s.rx = @ - o.n, !.s.in = @ + o.n, !.inside = o.inside,
                           !.r.tail = Advance(@, o.n)]
        IN  IF o.end = "error" THEN {ApplyState(y, "die")}
            ELSE IF o.n = 0 THEN {y} ELSE Ask(y, OnRead) :
        o \in ReadsTls(x.s, BufferSize - Count(x.r.head, x.r.tail), x.ktls)}

(* handle_write: consume_used, once; then on_write, if all is sent.        *)
HandleWrite(x) ==
    IF x.state # "write" THEN {x}
    ELSE LET used  == Count(x.r.head, x.r.tail)
             first == Chunk(x.r.head, used)
             n     == Writes(x.s, first, used - first, x.ktls)
             y     == [x EXCEPT !.s.tx = @ + n, !.s.out = @ + n, !.r.head = Advance(@, n)]
         IN  IF IsEmpty(y.r.head, y.r.tail) THEN Ask(y, OnWrite) ELSE {y}

(* on_connect, and handle_read: what came with the handshake has no edge   *)
(* of its own any more.                                                    *)
Greet(x) ==
    UNION {LET y == ApplyState(x, state)
           IN  IF state = "read" THEN HandleRead(y) ELSE {y} : state \in OnConnect}

(* Variant: a connection that only waits for input has no hang-up.         *)
InterestNoHangup(state) ==
    CASE state = "read" -> {"IN"} [] state = "write" -> {"HUP", "OUT"} [] OTHER -> {"HUP"}

(* What epoll is told to watch for in a state.                             *)
Interest(state) ==
    {"HUP"} \cup (IF state = "read" THEN {"IN"} ELSE {})
            \cup (IF state = "write" THEN {"OUT"} ELSE {})

(* epoll_ctl ADD and MOD look at the socket, and report again.             *)
Arm(f, signals, s) ==
    /\ armed' = [armed EXCEPT ![f] = signals]
    /\ ready' = IF Epoll!Readiness(s) \cap signals # {} THEN ready \cup {f} ELSE ready

(* remove_connection: out of epoll, its SSL object freed, closed, its      *)
(* buffer (b, of a pool and its counters as they are then) redeemed.       *)
RemoveConnection(f, c, s, b, pool, rings) ==
    /\ armed' = [armed EXCEPT ![f] = {}] /\ ready' = ready \ {f}
    /\ sock' = [sock EXCEPT ![c] = [s EXCEPT !.phase = "closed"]]
    /\ fdOwner' = [fdOwner EXCEPT ![f] = NoClient]
    /\ ssl' = ssl \ {f} /\ m_pending_handshakes' = m_pending_handshakes \ {f}
    /\ m_pl' = IF b = NoBuffer THEN pool ELSE Append(pool, b)
    /\ ring' = IF b = NoBuffer THEN rings ELSE [rings EXCEPT ![b] = EmptyRing]
    /\ m_connections' = [m_connections EXCEPT ![f].buffer = NoBuffer]

(* A handler is done with the connection x of client c.                    *)
Done(f, c, b, pool, rings, x) ==
    /\ inside' = [inside EXCEPT ![c] = x.inside]
    /\ IF x.dead THEN RemoveConnection(f, c, x.s, b, pool, rings)
       ELSE /\ sock' = [sock EXCEPT ![c] = x.s]
            /\ fdOwner' = [fdOwner EXCEPT ![f] = c]
            /\ ssl' = ssl \cup {f} /\ m_pending_handshakes' = m_pending_handshakes \ {f}
            /\ m_pl' = pool /\ ring' = [rings EXCEPT ![b] = x.r]
            /\ m_connections' = [m_connections EXCEPT ![f] = [state |-> x.state, buffer |-> b]]
            /\ IF x.told THEN Arm(f, Interest(x.state), [x.s EXCEPT !.rx = @ - x.inside])
               ELSE UNCHANGED <<armed, ready>>

(* register_connection, then what Greet leaves.                            *)
Established(f, c) ==
    \E x \in Greet(Conn(c, [sock[c] EXCEPT !.phase = "open"], RingWithNew[Allocated],
                         m_connections[f].state)) :
        Done(f, c, Allocated, PoolWithout, RingWithNew, x)
-----------------------------------------------------------------------------
EpollWait ==
    /\ pc = "wait" /\ m_running /\ Epoll!Reported # {}
    /\ m_events' = Epoll!Reported
    /\ ready' = {}
    /\ pc' = "dispatch"
    /\ UNCHANGED <<sock, backlog, fdOwner, tls, armed, table, accepts, held, m_running>>

EndOfBatch ==
    /\ pc = "dispatch" /\ m_events = {}
    /\ pc' = "wait"
    /\ UNCHANGED <<sockets, table, accepts, held, m_running, m_events>>

Dispatch(e) ==
    /\ pc = "dispatch" /\ e \in m_events
    /\ m_events' = m_events \ {e}
    /\ UNCHANGED <<backlog, held, m_running>>

DispatchAccept ==
    /\ \E e \in m_events : e.fd = Listen /\ Dispatch(e)
    /\ pc' = "accept" /\ accepts' = 0
    /\ UNCHANGED <<sock, fdOwner, tls, armed, ready, table>>

(* A hang-up goes before everything else.                                  *)
DispatchHangup ==
    /\ \E e \in m_events :
        /\ e.fd # Listen /\ "HUP" \in e.ev /\ Dispatch(e)
        /\ RemoveConnection(e.fd, fdOwner[e.fd], sock[fdOwner[e.fd]], BufferOf(e.fd), m_pl, ring)
    /\ UNCHANGED <<tls, thread>>

OfConnection(e) == e.fd # Listen /\ "HUP" \notin e.ev /\ Dispatch(e)

(* retry_handshake: any answer but "ok" and WANT_READ closes.              *)
DispatchPending ==
    /\ \E e \in m_events :
        /\ OfConnection(e) /\ e.fd \in m_pending_handshakes
        /\ LET c == fdOwner[e.fd]
           IN  \E o \in Handshakes(c) :
                /\ hs' = [hs EXCEPT ![c] = o.hs]
                /\ CASE o.ret = "ok"   -> Established(e.fd, c)
                     [] o.ret = "want" ->
                            UNCHANGED <<sock, fdOwner, inside, armed, ready, table>>
                     [] OTHER -> /\ RemoveConnection(e.fd, c, sock[c], NoBuffer, m_pl, ring)
                                 /\ UNCHANGED inside
    /\ UNCHANGED thread

ConnOf(f) == Conn(fdOwner[f], sock[fdOwner[f]], ring[BufferOf(f)], m_connections[f].state)
Handle(f, outcomes) ==
    \E x \in outcomes : Done(f, fdOwner[f], BufferOf(f), m_pl, ring, x)

DispatchRead ==
    /\ \E e \in m_events :
        /\ OfConnection(e) /\ e.fd \notin m_pending_handshakes /\ "IN" \in e.ev
        /\ Handle(e.fd, HandleRead(ConnOf(e.fd)))
    /\ UNCHANGED <<hs, thread>>

(* handle_write's event; and its sending fails.                            *)
ForWriting(e) ==
    OfConnection(e) /\ e.fd \notin m_pending_handshakes /\ "IN" \notin e.ev
Fails(f) ==
    /\ m_connections[f].state = "write" /\ Held(BufferOf(f)) > 0
    /\ SendBroken(fdOwner[f])

DispatchWrite ==
    /\ \E e \in m_events :
        ForWriting(e) /\ ~Fails(e.fd) /\ Handle(e.fd, HandleWrite(ConnOf(e.fd)))
    /\ UNCHANGED <<hs, thread>>

(* The lambda removes the connection, then handle_write asks a null buffer *)
(* whether it is empty.                                                    *)
Crash ==
    /\ \E e \in m_events : ForWriting(e) /\ Fails(e.fd)
    /\ pc' = "crashed"
    /\ UNCHANGED <<sock, fdOwner, tls, armed, ready, table, accepts>>
-----------------------------------------------------------------------------
(* handle_accept, one turn of its loop.                                    *)
Accepting == pc = "accept" /\ accepts < MaxAccepts

AcceptEnds ==
    /\ pc = "accept"
    /\ accepts = MaxAccepts \/ FreeFds = {} \/ backlog = <<>>
    /\ pc' = "dispatch"
    /\ UNCHANGED <<sockets, table, accepts, held, m_running, m_events>>

(* Of the next client and the descriptor it gets.                          *)
Accept(f, c) ==
    /\ Accepting /\ backlog # <<>> /\ Lowest(f) /\ c = Head(backlog)
    /\ backlog' = Tail(backlog)
    /\ UNCHANGED <<held, m_running, m_events>>

NextTurn == pc' = pc /\ accepts' = accepts + 1

(* fcntl or SSL_new fails, or the handshake does, for any reason but       *)
(* WANT_READ: the socket is closed.  After F_GETFL the loop ends.          *)
AcceptFails ==
    /\ \E f \in Fds, c \in Clients :
        /\ Accept(f, c)
        /\ \/ "fcntl" \in Faults /\ (NextTurn \/ (pc' = "dispatch" /\ UNCHANGED accepts))
           \/ (\E o \in Handshakes(c) : o.ret = "error") /\ NextTurn
        /\ sock' = [sock EXCEPT ![c].phase = "closed"]
    /\ UNCHANGED <<fdOwner, tls, armed, ready, table>>

AcceptEstablished ==
    /\ \E f \in Fds, c \in Clients :
        /\ Accept(f, c)
        /\ \E o \in Handshakes(c) : o.ret = "ok" /\ hs' = [hs EXCEPT ![c] = o.hs]
        /\ Established(f, c)
    /\ NextTurn

(* What epoll watches for while a handshake is pending; Variant: no input. *)
PendingInterestNoInput == {"OUT", "HUP"}
PendingInterest == Signal

AcceptPending ==
    /\ \E f \in Fds, c \in Clients :
        /\ Accept(f, c)
        /\ \E o \in Handshakes(c) : o.ret = "want" /\ hs' = [hs EXCEPT ![c] = o.hs]
        /\ sock' = [sock EXCEPT ![c].phase = "open"]
        /\ fdOwner' = [fdOwner EXCEPT ![f] = c]
        /\ Arm(f, PendingInterest, Visible[c])
        /\ ssl' = ssl \cup {f} /\ m_pending_handshakes' = m_pending_handshakes \cup {f}
    /\ NextTurn
    /\ UNCHANGED <<inside, m_connections, m_pl, ring>>

(* epoll_wait times out; or all is over.                                   *)
Rests == pc \in {"wait", "destroyed", "crashed"} /\ UNCHANGED vars

LoopStep ==
    \/ SetUp \/ LeaveLoop \/ Destroy \/ EpollWait \/ EndOfBatch
    \/ DispatchAccept \/ DispatchHangup \/ DispatchPending \/ DispatchRead \/ DispatchWrite
    \/ Crash \/ AcceptEnds \/ AcceptFails \/ AcceptEstablished \/ AcceptPending

Running == pc \in {"wait", "dispatch", "accept"}
Peer(step) == Running /\ step /\ UNCHANGED <<fdOwner, armed, table, thread, held, m_running, m_events>>

(* A read makes room: an edge, if the last write found none.               *)
PeerReads(c) == Peer(Reads(c) /\ Epoll!Wake(c, {"OUT"}) /\ UNCHANGED <<backlog, tls>>)
PeerActs(c) ==
    \/ PeerReads(c)
    \/ Peer(Connects(c) /\ ready' = ready \cup {Listen} /\ UNCHANGED tls)
    \/ Peer((Speaks(c) \/ SendsRecord(c)) /\ Epoll!Wake(c, {"IN"}) /\ UNCHANGED backlog)
    \/ Peer(Closes(c) /\ Epoll!Wake(c, {"IN", "HUP"}) /\ UNCHANGED <<backlog, tls>>)
    \/ Peer(Resets(c) /\ Epoll!Wake(c, Signal) /\ UNCHANGED <<backlog, tls>>)

Next == LoopStep \/ SetUpFails \/ Stop \/ Rests \/ \E c \in Clients : PeerActs(c)

Spec == Init /\ [][Next]_vars

(* The loop's thread is scheduled, and a client reads what is sent to it.  *)
Fairness == WF_vars(LoopStep) /\ \A c \in Clients : WF_vars(PeerReads(c))
FairSpec == Spec /\ Fairness
-----------------------------------------------------------------------------
(* While run() runs, an SSL object belongs to a connection that is open,   *)
(* and the handshake of one is pending until its client is established;    *)
(* only then has it a buffer.  Each way a handshake may go, at accept and  *)
(* after, keeps the four tables and the descriptors in step.               *)
TlsObjects ==
    Running => \A f \in Fds :
        LET open == fdOwner[f] # NoClient
            established == open /\ hs[fdOwner[f]] = "done"
        IN  /\ f \in ssl <=> open
            /\ f \in m_pending_handshakes <=> (open /\ ~established)
            /\ BufferOf(f) # NoBuffer <=> established

(* Every buffer is in one place: the pool, or one connection; also when    *)
(* run() has thrown or returned, until the destructor frees the pool.      *)
Pooled == {m_pl[i] : i \in DOMAIN m_pl}
BufferConservation ==
    pc # "destroyed" =>
        /\ \A f, g \in Fds : (f # g /\ BufferOf(f) # NoBuffer) => BufferOf(f) # BufferOf(g)
        /\ \A i, j \in DOMAIN m_pl : i # j => m_pl[i] # m_pl[j]
        /\ Owned \cap Pooled = {} /\ Owned \cup Pooled = Buffers

(* A buffer holds what was decrypted on its connection and not sent back.  *)
ByteAccount ==
    \A f \in Fds : (fdOwner[f] # NoClient /\ BufferOf(f) # NoBuffer) =>
        Held(BufferOf(f)) = sock[fdOwner[f]].in - sock[fdOwner[f]].out

(* However run() ended, the destructor leaves no TLS object, and no buffer *)
(* that is not freed with the pool; and only a failed bind or epoll_create *)
(* leaves the listening socket open.                                       *)
NothingOutlives ==
    /\ pc = "destroyed" => ssl = {} /\ Owned = {} /\ held \subseteq {"listen"}
    /\ pc = "stopped" => held = {"ctx"} /\ Owned \cup Pooled = Buffers

(* stop() ends run(), whatever the clients do meanwhile.                   *)
StopEndsRun == ~m_running ~> (~Running /\ pc # "start")

(* What a client says in the handshake is answered, or the connection is   *)
(* closed: it is not left waiting for an edge that was already reported.   *)
Over(c) == sock[c].phase = "closed" \/ ~m_running \/ pc \in {"crashed", "destroyed"}
HandshakeAnswered ==
    \A c \in Clients : (sock[c].phase = "open" /\ hs[c] \in {"hello", "ready", "bad"})
                            ~> (hs[c] \in {"replied", "done"} \/ Over(c))

(* What a client sends comes back though every edge is reported once; but  *)
(* for bytes inside the library, which no event will announce, and unless  *)
(* the application waits for nothing or the client left.                   *)
Idles(c) == \E f \in Fds : fdOwner[f] = c /\ m_connections[f].state = "idle"
Returned(c) == Sent(c) = sock[c].out \/ sock[c].peer # "up" \/ Idles(c) \/ Over(c)
Echoed == \A c \in Senders : ~Returned(c) ~> (Returned(c) \/ inside[c] > 0)

(* A connection its client closed or reset is removed, established or not. *)
EndedIsRemoved ==
    \A c \in Clients : (sock[c].phase = "open" /\ sock[c].peer # "up") ~> Over(c)

(* The loop's tables and objects agree with each other, with the sockets   *)
(* and with the bytes that moved, whatever has happened: all of the above. *)
Consistent == TypeOK /\ TlsObjects /\ BufferConservation /\ ByteAccount /\ NothingOutlives

(* Everything ends that is told to: the loop by stop(), a connection by    *)
(* its client.                                                             *)
EverythingEnds == StopEndsRun /\ EndedIsRemoved
=============================================================================
