---------------------------- MODULE UringTlsLoop ----------------------------
(***************************************************************************)
(* uring_tls_event_loop (uring/uring_tls_event_loop.h): the TLS event loop *)
(* over io_uring.  It accepts with epoll, polls its connections through    *)
(* the ring and then calls the TLS library; a connection whose TLS is the  *)
(* kernel's receives and sends through the ring.                           *)
(*                                                                         *)
(* Handling an accept or a completion calls nothing that waits: it is one  *)
(* step, as in TlsEpollLoop.  Definitions marked Variant are plausible     *)
(* bugs, kept beside what they are a variant of.                           *)
(***************************************************************************)
EXTENDS TlsSockets, BufferPool, FiniteSetsExt, Functions, Bags

CONSTANTS
    RingEntries,                        \* RING_ENTRIES (4096)
    Ktls,                               \* clients whose connections the kernel can offload
    OnConnect, OnRead, OnWrite, OnErr   \* what the callbacks may answer

States == {"idle", "read", "write", "die"}     \* el_connection_state
Kinds  == {"recv", "send", "poll_in", "poll_out"}

ASSUME LoopAssumption ==
    /\ RingEntries \in Nat \ {0}
    /\ Ktls \subseteq Clients /\ SendRoom >= BufferSize
    /\ OnConnect \subseteq States /\ OnRead \subseteq States
    /\ OnWrite \subseteq States /\ OnErr \subseteq States

VARIABLES
    sq,              \* operations prepared and not submitted, in order
    flying,          \* a bag: those in the kernel, of the client whose
                     \* connection it was at submission
    cq,              \* completions the loop has not handled, in order
    held,            \* what run() has opened
    m_running,
    m_connections,   \* of each descriptor: state, buffer, active_op
    ssl,             \* descriptors with an SSL object
    m_pending_handshakes,
    pc               \* where the thread is

sockets == <<sock, backlog, fdOwner, tls>>
rings   == <<sq, flying, cq>>
table   == <<m_connections, ssl, m_pending_handshakes, m_pl, ring>>
vars    == <<sockets, rings, table, held, m_running, pc>>

TypeOK ==
    /\ TlsTypeOK /\ PoolTypeOK
    /\ sq \in Seq([kind : Kinds, fd : Fds, size : Nat]) /\ Len(sq) <= RingEntries
    /\ IsABag(flying)
    /\ DOMAIN flying \subseteq [kind : Kinds, fd : Fds, size : Nat, of : Clients]
    /\ cq \in Seq([kind : Kinds, fd : Fds, res : Int])
    /\ held \subseteq {"ctx", "listen", "epfd"} /\ m_running \in BOOLEAN
    /\ m_connections \in [Fds -> [state : States \ {"die"}, buffer : Buffers \cup {NoBuffer},
                                  op : Kinds \cup {"none", "handshake_poll"}]]
    /\ ssl \subseteq Fds /\ m_pending_handshakes \subseteq Fds
    /\ pc \in {"start", "tick", "accept", "batch", "stopped", "threw", "destroyed", "crashed"}

Init ==
    /\ TlsInit /\ PoolInit
    /\ sq = <<>> /\ flying = EmptyBag /\ cq = <<>>
    /\ held = {} /\ m_running = TRUE
    /\ m_connections = [f \in Fds |-> [state |-> "idle", buffer |-> NoBuffer, op |-> "none"]]
    /\ ssl = {} /\ m_pending_handshakes = {}
    /\ pc = "start"

BufferOf(f) == m_connections[f].buffer
Buffered == {f \in Fds : BufferOf(f) # NoBuffer}
Owned    == {BufferOf(f) : f \in Buffered}

(* The members of a finite set of numbers, the least first.                *)
InOrder(S) ==
    {s \in Bijection(1 .. Cardinality(S), S) : \A i, j \in DOMAIN s : i < j => s[i] < s[j]}
-----------------------------------------------------------------------------
(* run(), up to its loop.  Whatever fails throws; the context is freed     *)
(* before, until the socket is open.                                       *)
SetUp ==
    /\ pc = "start"
    /\ held' = {"ctx", "listen", "epfd"}
    /\ pc' = "tick"
    /\ UNCHANGED <<sockets, rings, table, m_running>>

SetUpFails ==
    /\ pc = "start" /\ "setup" \in Faults
    /\ held' \in {{}, {"ctx", "listen"}, {"ctx", "listen", "epfd"}}
    /\ pc' = "threw"
    /\ UNCHANGED <<sockets, rings, table, m_running>>

(* The end of run(): SSL objects are freed and buffers redeemed, in the    *)
(* order of the table; nothing that is in the kernel is cancelled, and no  *)
(* connection closed.                                                      *)
LeaveLoop ==
    /\ ssl' = {} /\ m_pending_handshakes' = {}
    /\ \E s \in InOrder(Buffered) : m_pl' = m_pl \o [i \in DOMAIN s |-> BufferOf(s[i])]
    /\ ring' = [b \in Buffers |-> IF b \in Owned THEN EmptyRing ELSE ring[b]]
    /\ m_connections' = [f \in Fds |-> [m_connections[f] EXCEPT !.buffer = NoBuffer]]
    /\ held' = {"ctx"}
    /\ pc' = "stopped"
    /\ UNCHANGED <<sockets, rings, m_running>>

(* The destructor frees the context and what is in the pool.               *)
Destroy ==
    /\ pc \in {"stopped", "threw"}
    /\ held' = held \ {"ctx"}
    /\ m_pl' = <<>>
    /\ pc' = "destroyed"
    /\ UNCHANGED <<sockets, rings, m_connections, ssl, m_pending_handshakes, ring, m_running>>

(* stop(), from any other thread, at any time.                             *)
Stop ==
    /\ m_running /\ m_running' = FALSE
    /\ UNCHANGED <<sockets, rings, table, held, pc>>
-----------------------------------------------------------------------------
(* A connection in the hands of a handler: its socket, the bytes inside    *)
(* its SSL object, its buffer's counters, its state and active_op, the     *)
(* operations prepared meanwhile, and whether it is dead.                  *)
Conn(f, c, s, r) ==
    [s |-> s, inside |-> inside[c], ktls |-> c \in Ktls, r |-> r, fd |-> f,
     state |-> m_connections[f].state, op |-> m_connections[f].op,
     todo |-> <<>>, dead |-> FALSE]

CanSubmit(x) == Len(sq) + Len(x.todo) < RingEntries

(* submit_poll_in and submit_poll_out.                                     *)
Poll(x, kind) ==
    IF ~CanSubmit(x) THEN x
    ELSE [x EXCEPT !.op = kind, !.todo = Append(@, [kind |-> kind, fd |-> x.fd, size |-> 0])]

(* submit_recv_ktls and submit_send_ktls: nothing, for an empty region.    *)
Move(x, kind, size) ==
    IF size = 0 \/ ~CanSubmit(x) THEN x
    ELSE [x EXCEPT !.op = kind, !.todo = Append(@, [kind |-> kind, fd |-> x.fd, size |-> size])]
SendRest(x) == Move(x, "send", UsedRegion(x.r.head, x.r.tail))

(* apply_state.                                                            *)
ApplyState(x, state) ==
    LET y == [x EXCEPT !.state = state]
    IN  CASE state = "die"  -> [x EXCEPT !.dead = TRUE]
          [] state = "idle" -> y
          [] state = "read" -> IF x.ktls THEN Move(y, "recv", FreeRegion(y.r.head, y.r.tail))
                               ELSE Poll(y, "poll_in")
          [] state = "write" -> IF x.ktls THEN SendRest(y) ELSE Poll(y, "poll_out")

Ask(x, answers) == {ApplyState(x, state) : state \in answers}

(* handle_read: SSL_read as long as there are input and space.  An error   *)
(* is the end; the end of the stream, with nothing before it, is nothing.  *)
HandleRead(x) ==
    IF x.state # "read" \/ x.ktls THEN {x}
    ELSE UNION {
        LET y == [x EXCEPT !.s.rx = @ - o.n, !.s.in = @ + o.n, !.inside = o.inside,
                           !.r.tail = Advance(@, o.n)]
        IN  IF o.end = "error" THEN {[y EXCEPT !.dead = TRUE]}
            ELSE IF o.n > 0 THEN Ask(y, OnRead)
            ELSE IF o.end = "want" THEN {Poll(y, "poll_in")} ELSE {y} :
        o \in ReadsTls(x.s, BufferSize - Count(x.r.head, x.r.tail), FALSE)}

(* handle_write: SSL_write until the buffer is empty or there is no room.  *)
(* Once it fails what is left is taken for sent, and on_err decides.       *)
HandleWrite(x) ==
    IF x.state # "write" THEN {x}
    ELSE LET used  == Count(x.r.head, x.r.tail)
             first == Chunk(x.r.head, used)
             n     == Writes(x.s, first, used - first, FALSE)
             y     == [x EXCEPT !.s.tx = @ + n, !.s.out = @ + n, !.r.head = Advance(@, n)]
         IN  IF used > 0 /\ x.s.peer = "rst" THEN Ask([x EXCEPT !.r.head = x.r.tail], OnErr)
             ELSE IF n = used THEN Ask(y, OnWrite) ELSE {Poll(y, "poll_out")}

(* A completed receive or send; a short one is followed by another.        *)
Received(x, n) == Ask([x EXCEPT !.op = "none", !.r.tail = Advance(@, n)], OnRead)
SentSome(x, n) ==
    LET y == [x EXCEPT !.op = "none", !.r.head = Advance(@, n)]
    IN  IF IsEmpty(y.r.head, y.r.tail) THEN Ask(y, OnWrite) ELSE {SendRest(y)}

(* on_connect; and handle_read, for what came with the handshake.          *)
Greet(x) ==
    UNION {IF state = "die" THEN {ApplyState(x, state)} ELSE HandleRead(ApplyState(x, state)) :
              state \in OnConnect}

(* close: the descriptor is free, whatever is in the kernel.               *)
CloseOf(f, s) ==
    IF fdOwner[f] = NoClient THEN UNCHANGED <<sock, fdOwner>>
    ELSE /\ sock' = [sock EXCEPT ![fdOwner[f]] = [s EXCEPT !.phase = "closed"]]
         /\ fdOwner' = [fdOwner EXCEPT ![f] = NoClient]

(* Variant: the buffer pointer is left in the table.                       *)
Unbuffered(f) == [m_connections[f] EXCEPT !.op = "none"]
Forgotten(f) == [m_connections[f] EXCEPT !.op = "none", !.buffer = NoBuffer]

(* remove_connection, b being its buffer.                                  *)
RemoveConnection(f, s, b, pool, buffers) ==
    /\ ssl' = ssl \ {f} /\ m_pending_handshakes' = m_pending_handshakes \ {f}
    /\ m_pl' = IF b = NoBuffer THEN pool ELSE Append(pool, b)
    /\ ring' = IF b = NoBuffer THEN buffers ELSE [buffers EXCEPT ![b] = EmptyRing]
    /\ m_connections' = [m_connections EXCEPT ![f] = Forgotten(f)]

(* A handler is done with the connection x of client c.                    *)
Done(c, b, pool, buffers, x) ==
    /\ inside' = [inside EXCEPT ![c] = x.inside]
    /\ sq' = sq \o x.todo
    /\ IF x.dead
       THEN /\ RemoveConnection(x.fd, x.s, b, pool, buffers)
            /\ sock' = [sock EXCEPT ![c] = [x.s EXCEPT !.phase = "closed"]]
            /\ fdOwner' = [fdOwner EXCEPT ![x.fd] = NoClient]
       ELSE /\ sock' = [sock EXCEPT ![c] = x.s]
            /\ fdOwner' = [fdOwner EXCEPT ![x.fd] = c]
            /\ ssl' = ssl \cup {x.fd} /\ m_pending_handshakes' = m_pending_handshakes \ {x.fd}
            /\ m_pl' = pool /\ ring' = [buffers EXCEPT ![b] = x.r]
            /\ m_connections' = [m_connections EXCEPT
                    ![x.fd] = [state |-> x.state, buffer |-> b, op |-> x.op]]

(* register_connection, then what Greet leaves.                            *)
Established(f, c) ==
    \E x \in Greet([Conn(f, c, [sock[c] EXCEPT !.phase = "open"], RingWithNew[Allocated])
                        EXCEPT !.op = "none"]) :
        Done(c, Allocated, PoolWithout, RingWithNew, x)

(* Variant: nobody polls for it.                                           *)
HandshakeUnpolled(x) == x
HandshakePoll(x) == Poll(x, "poll_in")

(* A handshake goes on: it waits for input, and the operation is a poll.   *)
Waits(f, c) ==
    LET x == HandshakePoll([Conn(f, c, sock[c], EmptyRing) EXCEPT !.op = "handshake_poll"])
    IN  /\ sq' = sq \o x.todo
        /\ m_connections' = [m_connections EXCEPT ![f].op = x.op]
        /\ ssl' = ssl \cup {f} /\ m_pending_handshakes' = m_pending_handshakes \cup {f}
        /\ sock' = [sock EXCEPT ![c].phase = "open"]
        /\ fdOwner' = [fdOwner EXCEPT ![f] = c]
        /\ UNCHANGED <<inside, m_pl, ring>>
-----------------------------------------------------------------------------
Leave == pc = "tick" /\ ~m_running /\ LeaveLoop

Tick ==
    /\ pc = "tick" /\ m_running
    /\ pc' = "accept"
    /\ UNCHANGED <<sockets, rings, table, held, m_running>>

(* handle_accept, on the next client and the descriptor it gets: as long   *)
(* as epoll reports the listening socket, which it does for any client.    *)
Accept(f, c) ==
    /\ pc = "accept"
    /\ backlog # <<>> /\ Lowest(f) /\ c = Head(backlog)
    /\ backlog' = Tail(backlog)
    /\ UNCHANGED <<flying, cq, held, m_running, pc>>

(* fcntl or SSL_new fails, or the handshake does.                          *)
AcceptFails ==
    /\ \E f \in Fds, c \in Clients :
        /\ Accept(f, c)
        /\ "fcntl" \in Faults \/ \E o \in Handshakes(c) : o.ret = "error"
        /\ sock' = [sock EXCEPT ![c].phase = "closed"]
    /\ UNCHANGED <<fdOwner, tls, sq, table>>

AcceptEstablished ==
    \E f \in Fds, c \in Clients :
        /\ Accept(f, c)
        /\ \E o \in Handshakes(c) : o.ret = "ok" /\ hs' = [hs EXCEPT ![c] = o.hs]
        /\ Established(f, c)

AcceptPending ==
    \E f \in Fds, c \in Clients :
        /\ Accept(f, c)
        /\ \E o \in Handshakes(c) : o.ret = "want" /\ hs' = [hs EXCEPT ![c] = o.hs]
        /\ Waits(f, c)

(* Nobody waits to be accepted (a client for whom no descriptor is left    *)
(* does, and is reported for ever); then wait_cqe_timeout returns, and     *)
(* finds completions or not.                                               *)
WaitCqe ==
    /\ pc = "accept" /\ backlog = <<>>
    /\ pc' = "batch"
    /\ UNCHANGED <<sockets, rings, table, held, m_running>>

(* A signal interrupts the wait: that ends run().                          *)
WaitFails == "eintr" \in Faults /\ pc = "batch" /\ cq = <<>> /\ LeaveLoop

(* submit: an operation whose descriptor is closed fails at once.          *)
Submit ==
    LET live == {i \in DOMAIN sq : fdOwner[sq[i].fd] # NoClient}
        InKernel(op) == [kind |-> op.kind, fd |-> op.fd, size |-> op.size, of |-> fdOwner[op.fd]]
    IN  /\ flying' = flying (+) [op \in {InKernel(sq[i]) : i \in live} |->
                                    Cardinality({i \in live : InKernel(sq[i]) = op})]
        /\ \E dead \in InOrder(DOMAIN sq \ live) :
            cq' = cq \o [i \in DOMAIN dead |->
                            [kind |-> sq[dead[i]].kind, fd |-> sq[dead[i]].fd, res |-> -1]]
        /\ sq' = <<>>

EndOfBatch ==
    /\ pc = "batch" /\ cq = <<>> /\ Submit
    /\ pc' = "tick"
    /\ UNCHANGED <<sockets, table, held, m_running>>

(* The next completion: for a connection, or what there was of it.         *)
Handling(f) ==
    /\ pc = "batch" /\ cq # <<>> /\ f = Head(cq).fd
    /\ cq' = Tail(cq)
    /\ UNCHANGED <<flying, backlog, held, m_running>>

(* Variant: errors are told to nobody.                                     *)
FailedNever(e) == FALSE
Failed(e) == e.res < 0

(* An error removes whatever has the descriptor.                           *)
ErrorCompleted ==
    /\ \E f \in Fds :
        /\ Handling(f) /\ Failed(Head(cq))
        /\ RemoveConnection(f, sock[fdOwner[f]], BufferOf(f), m_pl, ring)
        /\ CloseOf(f, sock[fdOwner[f]])
    /\ UNCHANGED <<tls, sq, pc>>

(* retry_handshake, whatever has completed.                                *)
PendingCompleted ==
    /\ \E f \in Fds :
        /\ Handling(f) /\ ~Failed(Head(cq)) /\ f \in m_pending_handshakes
        /\ \E o \in Handshakes(fdOwner[f]) :
            /\ hs' = [hs EXCEPT ![fdOwner[f]] = o.hs]
            /\ CASE o.ret = "ok"   -> Established(f, fdOwner[f])
                 [] o.ret = "want" -> Waits(f, fdOwner[f])
                 [] OTHER -> /\ ssl' = ssl \ {f}
                             /\ m_pending_handshakes' = m_pending_handshakes \ {f}
                             /\ CloseOf(f, sock[fdOwner[f]])
                             /\ UNCHANGED <<inside, sq, m_connections, m_pl, ring>>
    /\ UNCHANGED pc

OfConnection(f, kind) ==
    /\ Handling(f) /\ ~Failed(Head(cq)) /\ f \notin m_pending_handshakes
    /\ Head(cq).kind = kind

(* What completed is what the connection waits for.                        *)
Expected(f, kind) ==
    m_connections[f].op = kind /\ (kind \in {"recv", "send"} => Head(cq).res > 0)
Ignored == UNCHANGED <<sock, fdOwner, inside, sq, table>>

ConnOf(f) == Conn(f, fdOwner[f], sock[fdOwner[f]], ring[BufferOf(f)])
Handle(f, outcomes) ==
    \E x \in outcomes : Done(fdOwner[f], BufferOf(f), m_pl, ring, x)

(* The handlers use a buffer that is not there.                            *)
Dangles(f, kind) ==
    /\ Expected(f, kind) /\ BufferOf(f) = NoBuffer
    /\ kind = "poll_in" => m_connections[f].state = "read"

RecvCompleted ==
    /\ \E f \in Fds :
        /\ OfConnection(f, "recv")
        /\ IF Expected(f, "recv") THEN Handle(f, Received(ConnOf(f), Head(cq).res)) ELSE Ignored
    /\ UNCHANGED <<hs, pc>>

SendCompleted ==
    /\ \E f \in Fds :
        /\ OfConnection(f, "send")
        /\ IF Expected(f, "send") THEN Handle(f, SentSome(ConnOf(f), Head(cq).res)) ELSE Ignored
    /\ UNCHANGED <<hs, pc>>

PollInCompleted ==
    /\ \E f \in Fds :
        /\ OfConnection(f, "poll_in") /\ ~Dangles(f, "poll_in")
        /\ IF Expected(f, "poll_in") /\ BufferOf(f) # NoBuffer
           THEN Handle(f, HandleRead(ConnOf(f)))
           ELSE Ignored
    /\ UNCHANGED <<hs, pc>>

PollOutCompleted ==
    /\ \E f \in Fds :
        /\ OfConnection(f, "poll_out")
        /\ IF Expected(f, "poll_out") THEN Handle(f, HandleWrite(ConnOf(f))) ELSE Ignored
    /\ UNCHANGED <<hs, pc>>

Crash ==
    /\ \E f \in Fds : OfConnection(f, "poll_in") /\ Dangles(f, "poll_in")
    /\ pc' = "crashed"
    /\ UNCHANGED <<sock, fdOwner, tls, sq, table>>
-----------------------------------------------------------------------------
(* The kernel: an operation completes.  A poll keeps a connection whose    *)
(* descriptor was closed, and reports it some time.                        *)
Complete(op, res) ==
    /\ flying' = flying (-) SetToBag({op})
    /\ cq' = Append(cq, [kind |-> op.kind, fd |-> op.fd, res |-> res])
    /\ UNCHANGED <<sq, backlog, fdOwner, tls>>

CompletePoll(op) ==
    /\ LET s == Visible[op.of]
       IN  \/ op.kind = "poll_in"  /\ (s.rx > 0 \/ s.peer # "up")
           \/ op.kind = "poll_out" /\ (s.tx < SendRoom \/ s.peer = "rst")
           \/ op.kind \in {"poll_in", "poll_out"} /\ s.phase = "closed"
    /\ Complete(op, 1)
    /\ UNCHANGED sock

CompleteRecv(op) ==
    /\ op.kind = "recv"
    /\ LET c == op.of
           n == Smaller(op.size, sock[c].rx)
       IN  IF n > 0 THEN /\ Complete(op, n)
                         /\ sock' = [sock EXCEPT ![c].rx = @ - n, ![c].in = @ + n]
           ELSE /\ (AtEnd(c) /\ Complete(op, 0)) \/ (RecvReset(c) /\ Complete(op, -1))
                /\ UNCHANGED sock

CompleteSend(op) ==
    /\ op.kind = "send"
    /\ LET c == op.of
           n == Smaller(op.size, SendRoom - sock[c].tx)
       IN  IF SendBroken(c) THEN Complete(op, -1) /\ UNCHANGED sock
           ELSE /\ ~NoRoom(c) /\ Complete(op, n)
                /\ sock' = [sock EXCEPT ![c].tx = @ + n, ![c].out = @ + n]

KernelMove(f) ==
    \E op \in DOMAIN flying :
        op.fd = f /\ (CompletePoll(op) \/ CompleteRecv(op) \/ CompleteSend(op))

(* epoll_wait finds nobody, the wait times out; or all is over.            *)
Rests == pc \in {"accept", "destroyed", "crashed"} /\ UNCHANGED vars

LoopStep ==
    \/ SetUp \/ Leave \/ Tick \/ Destroy
    \/ AcceptFails \/ AcceptEstablished \/ AcceptPending \/ WaitCqe \/ EndOfBatch \/ ErrorCompleted \/ PendingCompleted
    \/ RecvCompleted \/ SendCompleted \/ PollInCompleted \/ PollOutCompleted \/ Crash

Running == pc \in {"tick", "accept", "batch"}
KernelStep(step) == Running /\ step /\ UNCHANGED <<table, held, m_running, pc>>
PeerReads(c) == KernelStep(Reads(c) /\ UNCHANGED <<backlog, fdOwner, tls, rings>>)
PeerActs(c) ==
    \/ PeerReads(c)
    \/ KernelStep(/\ \/ Connects(c) /\ UNCHANGED tls
                     \/ Speaks(c) /\ UNCHANGED backlog
                     \/ SendsRecord(c) /\ UNCHANGED backlog
                     \/ (Closes(c) \/ Resets(c)) /\ UNCHANGED <<backlog, tls>>
                  /\ UNCHANGED <<fdOwner, rings>>)

Next ==
    \/ LoopStep \/ SetUpFails \/ WaitFails \/ Stop \/ Rests
    \/ \E c \in Clients : PeerActs(c)
    \/ \E f \in Fds : KernelStep(KernelMove(f))

Spec == Init /\ [][Next]_vars

(* The loop's thread is scheduled, the kernel completes what it can, and a *)
(* client reads what is sent to it.                                        *)
Fairness ==
    /\ WF_vars(LoopStep)
    /\ \A f \in Fds : WF_vars(KernelStep(KernelMove(f)))
    /\ \A c \in Clients : WF_vars(PeerReads(c))
FairSpec == Spec /\ Fairness
-----------------------------------------------------------------------------
(* An SSL object belongs to a connection that is open, and the handshake   *)
(* of one is pending until its client is established; only then has it a   *)
(* buffer.  Each way a handshake may go keeps the tables in step.          *)
TlsObjects ==
    Running => \A f \in Fds :
        LET open == fdOwner[f] # NoClient
            established == open /\ hs[fdOwner[f]] = "done"
        IN  /\ f \in ssl <=> open
            /\ f \in m_pending_handshakes <=> (open /\ ~established)
            /\ BufferOf(f) # NoBuffer <=> established

(* Every buffer is in one place: the pool, or one connection; also when    *)
(* run() has thrown or returned, until the destructor frees the pool.      *)
Pooled == {m_pl[i] : i \in DOMAIN m_pl}
BufferConservation ==
    pc # "destroyed" =>
        /\ \A f, g \in Fds : (f # g /\ BufferOf(f) # NoBuffer) => BufferOf(f) # BufferOf(g)
        /\ \A i, j \in DOMAIN m_pl : i # j => m_pl[i] # m_pl[j]
        /\ Owned \cap Pooled = {} /\ Owned \cup Pooled = Buffers

(* What the ring has moved in or out of the buffer of a connection, as    *)
(* completions say that are not handled yet.                               *)
Unhandled(f, kind) ==
    FoldSet(LAMBDA i, n : cq[i].res + n, 0,
            {i \in DOMAIN cq : cq[i].fd = f /\ cq[i].kind = kind /\ cq[i].res > 0})

(* A buffer holds what was received on its connection and not sent back,   *)
(* but for a completion that is not handled yet; until sending fails.      *)
ByteAccount ==
    \A f \in Fds : (fdOwner[f] # NoClient /\ BufferOf(f) # NoBuffer) =>
        LET s == sock[fdOwner[f]]
        IN  Held(BufferOf(f)) + Unhandled(f, "recv") - Unhandled(f, "send") = s.in - s.out
            \/ s.peer = "rst"

(* However run() ended, the destructor leaves no TLS object and no buffer  *)
(* that is not freed with the pool.                                        *)
NothingOutlives ==
    /\ pc = "destroyed" => ssl = {} /\ Owned = {} /\ held \subseteq {"listen", "epfd"}
    /\ pc = "stopped" => held = {"ctx"} /\ Owned \cup Pooled = Buffers

(* stop() ends run(), whatever the clients do meanwhile.                   *)
StopEndsRun == ~m_running ~> (~Running /\ pc # "start")

(* What a client says in the handshake is answered, or the connection is   *)
(* closed.                                                                 *)
Over(c) == sock[c].phase = "closed" \/ ~m_running \/ ~Running
HandshakeAnswered ==
    \A c \in Clients : (sock[c].phase \in {"queued", "open"} /\ hs[c] \in {"hello", "ready", "bad"})
                            ~> (hs[c] \in {"replied", "done"} \/ Over(c))

(* A connection that its client has reset is removed.                      *)
ResetIsRemoved == \A c \in Clients : (sock[c].phase = "open" /\ sock[c].peer = "rst") ~> Over(c)

(* The loop's tables and objects agree with each other, with the sockets   *)
(* and with the bytes that moved, whatever has happened: all of the above. *)
Consistent == TypeOK /\ TlsObjects /\ BufferConservation /\ ByteAccount /\ NothingOutlives

(* Everything ends that is told to: the loop by stop(), a connection by    *)
(* its client.                                                             *)
EverythingEnds == StopEndsRun /\ ResetIsRemoved
=============================================================================
