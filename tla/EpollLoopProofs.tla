--------------------------- MODULE EpollLoopProofs --------------------------
(***************************************************************************)
(* The safety invariants of the epoll loop, for any number of clients,     *)
(* descriptors and buffers, any buffer size, any faults, and callbacks     *)
(* that answer anything.                                                   *)
(*                                                                         *)
(* BufferConservation needs EventsAreCurrent, for an event of a connection *)
(* that is gone would redeem a buffer it does not have; that needs epoll   *)
(* to watch for what the state says; and both need what a handler between  *)
(* two of its system calls knows about its connection.                     *)
(*                                                                         *)
(* Then the byte account and the connection contract, between clients that *)
(* stay connected.                                                         *)
(***************************************************************************)
EXTENDS EpollLoop, SharedLemmas

BufferTable == [f \in Fds |-> BufferOf(f)]

(* Each buffer is in one place, those of the open connections with them.   *)
PoolInv ==
    /\ Conserved(m_pl, Len(m_pl), Len(ring), Fds, BufferTable)
    /\ OwnersAreOpen
    /\ PoolBound

(* epoll watches open descriptors only, for what their states say.         *)
ArmedInv ==
    \A f \in Fds : armed[f] # {} =>
        fdOwner[f] # NoClient /\ armed[f] = Interest(m_connections[f].state)

(* An event of the batch is the only one of its descriptor, and current.   *)
EventsInv ==
    /\ EventsAreCurrent
    /\ \A e \in m_events : e.fd # Listen => e.to # NoClient
    /\ \A d, e \in m_events : d.fd = e.fd => d = e

(* What a handler knows between two of its steps.  After an error its      *)
(* connection may be gone.                                                 *)
Handling == thread.pc \in {"recv", "on_read", "send", "on_write"}
Gone == fdOwner[thread.conn] = NoClient
HandlerInv ==
    Handling =>
        /\ thread.conn \in Fds
        /\ \A e \in m_events : e.fd # thread.conn
        /\ ~Gone => thread.this = BufferOf(thread.conn)
        /\ (Gone /\ (At("recv") \/ At("on_read"))) => thread.error
        /\ (At("recv") /\ ~Gone) => Held(thread.this) + thread.left <= BufferSize
        /\ (At("send") /\ ~Gone) => thread.left <= Held(thread.this)

(* No ring holds more than it has room for, unless the loop is about to    *)
(* crash over one that was redeemed while bytes were sent from it.         *)
Doomed == At("crashed") \/ ((At("send") \/ At("on_write")) /\ Gone)
HeldInv == Doomed \/ \A b \in Buffers : Held(b) <= BufferSize

IInv == TypeOK /\ PoolInv /\ ArmedInv /\ EventsInv /\ HandlerInv /\ HeldInv
-----------------------------------------------------------------------------
LEMMA Basics ==
    /\ Listen \notin Fds /\ NoClient \notin Clients
    /\ \A state : Interest(state) \subseteq Signal
    /\ \A state : /\ "IN" \in Interest(state) => state = "read"
                  /\ "OUT" \in Interest(state) => state = "write"
    BY SocketAssumption DEF Listen, Interest, Signal

(* TypeOK, in the form the proofs use it.                                  *)
LEMMA Types ==
    ASSUME TypeOK
    PROVE  /\ sock \in [Clients -> Socket] /\ backlog \in Seq(Clients)
           /\ fdOwner \in [Fds -> Clients \cup {NoClient}]
           /\ armed \in [Fds -> SUBSET Signal] /\ ready \subseteq Fds \cup {Listen}
           /\ errno \in Errno /\ m_running \in BOOLEAN /\ m_events \subseteq Event
           /\ PoolTypeOK /\ thread \in Thread
           /\ m_connections \in [Fds -> [state : States, buffer : Buffers \cup {NoBuffer}]]
           /\ ring \in Seq(CounterPair) /\ Len(ring) \in Nat /\ Buffers = 1 .. Len(ring)
           /\ m_pl \in Seq(Buffers) /\ Len(m_pl) \in Nat
<1>1. /\ ring \in Seq(CounterPair) /\ m_pl \in Seq(Buffers)
  BY DEF TypeOK, PoolTypeOK, CounterPair
<1>2. Len(ring) \in Nat /\ Len(m_pl) \in Nat
  BY <1>1, LenProperties
<1> QED BY <1>1, <1>2 DEF TypeOK, EpollTypeOK, SocketsTypeOK, Buffers

(* An open connection has a buffer.                                        *)
LEMMA OpenHasBuffer ==
    ASSUME TypeOK, PoolInv, NEW f \in Fds, fdOwner[f] # NoClient
    PROVE  fdOwner[f] \in Clients /\ BufferOf(f) \in Buffers
    BY Types DEF PoolInv, OwnersAreOpen, BufferOf

(* Facts that are about neither rings nor sockets survive a step that does *)
(* not change what they are about.                                         *)
LEMMA PoolUnchanged ==
    ASSUME PoolInv, UNCHANGED <<m_connections, m_pl, fdOwner>>, Len(ring') = Len(ring)
    PROVE  PoolInv'
    BY DEF PoolInv, OwnersAreOpen, PoolBound, BufferTable, BufferOf

(* remove_connection of a connection that is open.                         *)
LEMMA RemoveKeeps ==
    ASSUME TypeOK, PoolInv, ArmedInv, NEW f \in Fds, fdOwner[f] # NoClient,
           RemoveConnection(f), Len(ring') = Len(ring)
    PROVE  /\ sock' \in [Clients -> Socket]
           /\ fdOwner' \in [Fds -> Clients \cup {NoClient}]
           /\ armed' \in [Fds -> SUBSET Signal] /\ ready' \subseteq Fds \cup {Listen}
           /\ m_connections' \in [Fds -> [state : States, buffer : Buffers \cup {NoBuffer}]]
           /\ m_pl' \in Seq(Buffers)
           /\ PoolInv' /\ ArmedInv'
           /\ fdOwner'[f] = NoClient
           /\ \A g \in Fds : g # f => /\ fdOwner'[g] = fdOwner[g]
                                      /\ m_connections'[g] = m_connections[g]
<1>1. fdOwner[f] \in Clients /\ BufferOf(f) \in Buffers
  BY OpenHasBuffer
<1>2. /\ sock' = [sock EXCEPT ![fdOwner[f]].phase = "closed"]
      /\ fdOwner' = [fdOwner EXCEPT ![f] = NoClient]
      /\ armed' = [armed EXCEPT ![f] = {}]
      /\ ready' = ready \ {f}
      /\ m_pl' = Append(m_pl, BufferOf(f))
      /\ m_connections' = [m_connections EXCEPT ![f].buffer = NoBuffer]
  BY DEF RemoveConnection, Close, Redeem
<1>3. sock' \in [Clients -> Socket]
  BY <1>1, <1>2, Types, PhaseType
<1>4. /\ fdOwner' \in [Fds -> Clients \cup {NoClient}]
      /\ armed' \in [Fds -> SUBSET Signal] /\ ready' \subseteq Fds \cup {Listen}
  BY <1>2, Types
<1>5. m_connections' \in [Fds -> [state : States, buffer : Buffers \cup {NoBuffer}]]
  BY <1>2, Types
<1>6. /\ fdOwner'[f] = NoClient /\ armed'[f] = {}
      /\ m_connections'[f].buffer = NoBuffer
      /\ \A g \in Fds : g # f => /\ fdOwner'[g] = fdOwner[g] /\ armed'[g] = armed[g]
                                 /\ m_connections'[g] = m_connections[g]
  BY <1>2, Types
<1>7. /\ m_pl' \in Seq(Buffers) /\ Len(m_pl') = Len(m_pl) + 1
      /\ \A i \in 1 .. Len(m_pl) : m_pl'[i] = m_pl[i]
      /\ m_pl'[Len(m_pl) + 1] = BufferOf(f)
  BY <1>1, <1>2, Types, AppendProperties
<1>8. Conserved(m_pl', Len(m_pl'), Len(ring'), Fds, BufferTable')
  <2>1. /\ BufferTable[f] # 0 /\ BufferTable[f] = BufferOf(f) /\ BufferTable'[f] = 0
        /\ \A g \in Fds : g # f => BufferTable'[g] = BufferTable[g]
    BY <1>1, <1>6, Types DEF BufferTable, BufferOf, NoBuffer
  <2>2. Conserved(m_pl, Len(m_pl), Len(ring), Fds, BufferTable)
    BY DEF PoolInv
  <2>3. PICK p, k, n, u, t : /\ p = m_pl' /\ k = Len(m_pl) /\ n = Len(ring)
                             /\ u = BufferTable /\ t = BufferTable'
    OBVIOUS
  <2>4. (\A i \in 1 .. k : p[i] = m_pl[i]) /\ p[k + 1] = u[f]
    BY <1>7, <2>1, <2>3
  <2>5. /\ Conserved(m_pl, k, n, Fds, u) /\ u[f] # 0 /\ t[f] = 0
        /\ \A g \in Fds : g # f => t[g] = u[g]
    BY <2>1, <2>2, <2>3
  <2>6. Conserved(p, k + 1, n, Fds, t)
    BY <2>4, <2>5, ConservedPush
  <2> QED BY <1>6, <1>7, <2>3, <2>6
<1>9. OwnersAreOpen'
  BY <1>6 DEF PoolInv, OwnersAreOpen, BufferOf
<1>10. ArmedInv'
  BY <1>6 DEF ArmedInv
<1>11. PoolBound'
  BY DEF PoolInv, PoolBound
<1> QED BY <1>3, <1>4, <1>5, <1>6, <1>7, <1>8, <1>9, <1>10, <1>11 DEF PoolInv

(* apply_state of a connection that is open, whatever the state.           *)
LEMMA ApplyKeeps ==
    ASSUME TypeOK, PoolInv, ArmedInv, NEW f \in Fds, fdOwner[f] # NoClient,
           NEW state \in States, ApplyState(f, state), Len(ring') = Len(ring)
    PROVE  /\ sock' \in [Clients -> Socket]
           /\ fdOwner' \in [Fds -> Clients \cup {NoClient}]
           /\ armed' \in [Fds -> SUBSET Signal] /\ ready' \subseteq Fds \cup {Listen}
           /\ m_connections' \in [Fds -> [state : States, buffer : Buffers \cup {NoBuffer}]]
           /\ m_pl' \in Seq(Buffers)
           /\ PoolInv' /\ ArmedInv'
           /\ state = "die" => fdOwner'[f] = NoClient
           /\ state # "die" => fdOwner' = fdOwner /\ BufferOf(f)' = BufferOf(f)
           /\ \A g \in Fds : g # f => /\ fdOwner'[g] = fdOwner[g]
                                      /\ m_connections'[g] = m_connections[g]
<1>1. CASE state = "die"
  <2>1. RemoveConnection(f)
    BY <1>1 DEF ApplyState
  <2> QED BY <1>1, <2>1, RemoveKeeps
<1>2. CASE state # "die"
  <2>1. /\ m_connections' = [m_connections EXCEPT ![f].state = state]
        /\ Arm(f, Interest(state), fdOwner[f])
        /\ UNCHANGED <<sock, fdOwner, m_pl>>
    BY <1>2 DEF ApplyState
  <2>2. /\ armed' = [armed EXCEPT ![f] = Interest(state)]
        /\ ready' \subseteq ready \cup {f}
    BY <2>1 DEF Arm
  <2>3. /\ armed' \in [Fds -> SUBSET Signal] /\ ready' \subseteq Fds \cup {Listen}
    BY <2>2, Types, Basics
  <2>4. m_connections' \in [Fds -> [state : States, buffer : Buffers \cup {NoBuffer}]]
    BY <2>1, Types
  <2>5. /\ armed'[f] = Interest(state) /\ m_connections'[f].state = state
        /\ \A g \in Fds : m_connections'[g].buffer = m_connections[g].buffer
        /\ \A g \in Fds : g # f => /\ armed'[g] = armed[g]
                                   /\ m_connections'[g] = m_connections[g]
    BY <2>1, <2>2, Types
  <2>6. PoolInv'
    BY <2>1, <2>5 DEF PoolInv, OwnersAreOpen, PoolBound, BufferTable, BufferOf
  <2>7. ArmedInv'
    BY <2>1, <2>5 DEF ArmedInv
  <2> QED BY <1>2, <2>1, <2>3, <2>4, <2>5, <2>6, <2>7, Types DEF BufferOf
<1> QED BY <1>1, <1>2
-----------------------------------------------------------------------------
(* Steps of the clients.                                                   *)
LEMMA PeerTypes ==
    ASSUME TypeOK, NEW c \in Clients, PeerStep(c)
    PROVE  /\ sock' \in [Clients -> Socket] /\ backlog' \in Seq(Clients)
           /\ ready' \subseteq Fds \cup {Listen}
<1>1. /\ sock \in [Clients -> Socket] /\ backlog \in Seq(Clients)
      /\ ready \subseteq Fds \cup {Listen}
  BY Types
<1>2. \/ Connects(c)
      \/ (Sends(c) \/ Reads(c) \/ Closes(c) \/ Resets(c)) /\ UNCHANGED backlog
  BY DEF PeerStep, Connect, PeerSend, PeerRead, PeerClose, PeerReset
<1>3. sock' \in [Clients -> Socket] /\ backlog' \in Seq(Clients)
  BY <1>1, <1>2, ClientTypes
<1>4. ready' \subseteq Fds \cup {Listen}
  BY <1>1 DEF PeerStep, Connect, PeerSend, PeerRead, PeerClose, PeerReset, Wake
<1> QED BY <1>3, <1>4

(* TypeOK from what a step changes.                                        *)
LEMMA SameTypes ==
    ASSUME TypeOK, UNCHANGED <<fdOwner, armed, m_events, table, thread>>,
           sock' \in [Clients -> Socket], backlog' \in Seq(Clients),
           ready' \subseteq Fds \cup {Listen}, errno' \in Errno, m_running' \in BOOLEAN
    PROVE  TypeOK'
<1>1. EpollTypeOK'
  BY DEF TypeOK, EpollTypeOK, SocketsTypeOK
<1>2. PoolTypeOK' /\ Buffers' = Buffers
  BY DEF TypeOK, PoolTypeOK, Buffers, table
<1>3. m_events' \subseteq Event /\ thread' \in Thread'
  BY <1>2 DEF TypeOK, Thread
<1> QED BY <1>1, <1>2, <1>3 DEF TypeOK, table

(* A step that leaves the table, what epoll watches, the batch and the     *)
(* handler alone keeps the invariant.                                      *)
LEMMA OthersKeep ==
    ASSUME IInv, TypeOK', UNCHANGED <<fdOwner, armed, m_events, table, thread>>
    PROVE  IInv'
<1> USE DEF IInv, table
<1>1. PoolInv'
  BY PoolUnchanged
<1>2. ArmedInv'
  BY DEF ArmedInv
<1>3. EventsInv'
  BY DEF EventsInv, EventsAreCurrent
<1>4. HandlerInv'
  BY DEF HandlerInv, Handling, Gone, At, BufferOf, Held
<1>5. HeldInv'
  BY DEF HeldInv, Doomed, Gone, At, Held, Buffers
<1> QED BY <1>1, <1>2, <1>3, <1>4, <1>5

LEMMA EnvironmentSteps ==
    ASSUME IInv, Stop \/ EpollInterrupted \/ PeerActs \/ UNCHANGED vars
    PROVE  IInv'
<1> USE DEF IInv
<1>1. UNCHANGED <<fdOwner, armed, m_events, table, thread>>
  BY DEF Stop, EpollInterrupted, PeerActs, PeerStep, vars, kernel, sockets
<1>2. /\ sock' \in [Clients -> Socket] /\ backlog' \in Seq(Clients)
      /\ ready' \subseteq Fds \cup {Listen}
  <2>1. CASE UNCHANGED <<sock, backlog, ready>>
    BY <2>1, Types
  <2>2. CASE PeerActs
    BY <2>2, PeerTypes DEF PeerActs
  <2> QED BY <2>1, <2>2 DEF Stop, EpollInterrupted, vars, kernel, sockets
<1>3. errno' \in Errno /\ m_running' \in BOOLEAN
  <2>1. errno \in Errno /\ m_running \in BOOLEAN /\ "other" \in Errno
    BY Types DEF Errno
  <2>2. CASE Stop
    BY <2>1, <2>2 DEF Stop, kernel
  <2>3. CASE EpollInterrupted
    BY <2>1, <2>3 DEF EpollInterrupted
  <2>4. CASE PeerActs
    BY <2>1, <2>4 DEF PeerActs, PeerStep
  <2>5. CASE UNCHANGED vars
    BY <2>1, <2>5 DEF vars, kernel
  <2> QED BY <2>2, <2>3, <2>4, <2>5
<1>4. TypeOK'
  BY <1>1, <1>2, <1>3, SameTypes
<1> QED BY <1>1, <1>4, OthersKeep
-----------------------------------------------------------------------------
(* Steps of the loop outside the handlers of a connection.                 *)
LEMMA ThreadFields ==
    ASSUME NEW t \in Thread
    PROVE  /\ t.accepts \in 0 .. MaxAccepts /\ t.conn \in Fds \cup {Listen}
           /\ t.this \in Buffers \cup {NoBuffer} /\ t.left \in 0 .. BufferSize
           /\ t.error \in BOOLEAN
    BY DEF Thread

(* A step that changes neither sockets nor table, and ends outside of the  *)
(* handlers.                                                               *)
LEMMA TurnKeeps ==
    ASSUME IInv, UNCHANGED <<sock, fdOwner, armed, table, m_running>>,
           backlog' \in Seq(Clients), ready' \subseteq Fds \cup {Listen}, errno' \in Errno,
           m_events' \subseteq Event, EventsInv', thread' \in Thread,
           thread'.pc \in {"wait", "dispatch", "accept", "stopped", "crashed"},
           ~Doomed \/ thread'.pc = "crashed"
    PROVE  IInv'
<1>1. /\ UNCHANGED <<m_connections, m_pl, ring>> /\ Buffers' = Buffers
  BY DEF table, Buffers
<1>2. TypeOK'
  BY <1>1 DEF IInv, TypeOK, EpollTypeOK, SocketsTypeOK, PoolTypeOK, Thread
<1>3. PoolInv'
  BY <1>1, PoolUnchanged DEF IInv
<1>4. ArmedInv'
  BY <1>1 DEF IInv, ArmedInv
<1>5. HandlerInv'
  BY DEF HandlerInv, Handling
<1>6. HeldInv'
  BY <1>1 DEF IInv, HeldInv, Doomed, At, Held
<1> QED BY <1>2, <1>3, <1>4, <1>5, <1>6 DEF IInv

(* Removing an event from the batch keeps what is said of the others.      *)
LEMMA FewerEvents ==
    ASSUME EventsInv, m_events' \subseteq m_events, UNCHANGED <<fdOwner, m_connections>>
    PROVE  EventsInv'
    BY DEF EventsInv, EventsAreCurrent

LEMMA ReportedCurrent ==
    ASSUME IInv, m_events' = Reported, UNCHANGED <<fdOwner, m_connections>>
    PROVE  EventsInv' /\ m_events' \subseteq Event
<1>1. /\ ArmedInv /\ armed \in [Fds -> SUBSET Signal] /\ ready \subseteq Fds \cup {Listen}
      /\ fdOwner \in [Fds -> Clients \cup {NoClient}]
  BY Types DEF IInv
<1>2. ASSUME NEW e \in Reported
      PROVE  \/ e = [fd |-> Listen, ev |-> {"IN"}, to |-> NoClient]
             \/ \E f \in Fds : /\ fdOwner[f] # NoClient /\ e.ev # {}
                               /\ e = [fd |-> f, to |-> fdOwner[f],
                                       ev |-> Readiness(sock[fdOwner[f]]) \cap armed[f]]
  BY <1>1 DEF Reported, Pending
<1>3. ASSUME NEW e \in Reported, e.fd # Listen
      PROVE  /\ e.fd \in Fds /\ e.to = fdOwner[e.fd] /\ e.to # NoClient
             /\ e.ev \subseteq armed[e.fd] /\ e.ev # {}
             /\ armed[e.fd] = Interest(m_connections[e.fd].state)
  <2>1. PICK f \in Fds : /\ fdOwner[f] # NoClient /\ e.ev # {}
                         /\ e = [fd |-> f, to |-> fdOwner[f],
                                 ev |-> Readiness(sock[fdOwner[f]]) \cap armed[f]]
    BY <1>2, <1>3
  <2>2. e.fd = f /\ e.to = fdOwner[f] /\ e.ev \subseteq armed[f] /\ armed[f] # {}
    BY <2>1
  <2> QED BY <1>1, <2>1, <2>2 DEF ArmedInv
<1>4. ASSUME NEW e \in Reported PROVE e \in Event
  <2>1. CASE e = [fd |-> Listen, ev |-> {"IN"}, to |-> NoClient]
    <3>1. {"IN"} \in SUBSET Signal
      BY DEF Signal
    <3>2. Listen \in Fds \cup {Listen} /\ NoClient \in Clients \cup {NoClient}
      OBVIOUS
    <3> QED BY <2>1, <3>1, <3>2 DEF Event
  <2>2. CASE \E f \in Fds : e = [fd |-> f, to |-> fdOwner[f],
                                 ev |-> Readiness(sock[fdOwner[f]]) \cap armed[f]]
    <3>1. PICK f \in Fds : e = [fd |-> f, to |-> fdOwner[f],
                                ev |-> Readiness(sock[fdOwner[f]]) \cap armed[f]]
      BY <2>2
    <3>2. Readiness(sock[fdOwner[f]]) \cap armed[f] \in SUBSET Signal
      BY <1>1
    <3> QED BY <1>1, <3>1, <3>2 DEF Event
  <2> QED BY <1>2, <2>1, <2>2
<1>6. ASSUME NEW e \in Reported, e.fd = Listen
      PROVE  e = [fd |-> Listen, ev |-> {"IN"}, to |-> NoClient]
  <2>1. ~ \E f \in Fds : /\ fdOwner[f] # NoClient /\ e.ev # {}
                         /\ e = [fd |-> f, to |-> fdOwner[f],
                                 ev |-> Readiness(sock[fdOwner[f]]) \cap armed[f]]
    BY <1>6, Basics
  <2> QED BY <1>2, <2>1
<1>5. ASSUME NEW d \in Reported, NEW e \in Reported, d.fd = e.fd PROVE d = e
  <2>1. CASE d.fd = Listen
    BY <1>5, <1>6, <2>1
  <2>2. CASE d.fd # Listen
    <3>1. PICK f \in Fds : d = [fd |-> f, to |-> fdOwner[f],
                                ev |-> Readiness(sock[fdOwner[f]]) \cap armed[f]]
      BY <1>2, <2>2
    <3>2. PICK g \in Fds : e = [fd |-> g, to |-> fdOwner[g],
                                ev |-> Readiness(sock[fdOwner[g]]) \cap armed[g]]
      BY <1>2, <1>5, <2>2
    <3>3. f = g
      BY <1>5, <3>1, <3>2
    <3> QED BY <3>1, <3>2, <3>3
  <2> QED BY <2>1, <2>2
<1>7. EventsAreCurrent'
  <2> SUFFICES ASSUME NEW e \in Reported, e.fd # Listen
               PROVE  /\ fdOwner[e.fd] = e.to
                      /\ "IN" \in e.ev => m_connections[e.fd].state = "read"
                      /\ ("IN" \notin e.ev /\ "OUT" \in e.ev)
                            => m_connections[e.fd].state = "write"
    BY DEF EventsAreCurrent
  <2> QED BY <1>3, Basics
<1> QED BY <1>3, <1>4, <1>5, <1>7 DEF EventsInv

LEMMA TurnSteps ==
    ASSUME IInv, \/ EpollWait \/ LeaveLoop \/ EndOfBatch \/ DispatchAccept
                 \/ AcceptEnds \/ Crash
    PROVE  IInv'
<1>1. /\ thread \in Thread /\ m_events \subseteq Event /\ errno \in Errno
      /\ ready \subseteq Fds \cup {Listen} /\ backlog \in Seq(Clients)
  BY Types DEF IInv
<1>2. CASE EpollWait
  <2>1. EventsInv' /\ m_events' \subseteq Event
    BY <1>2, ReportedCurrent DEF EpollWait, IInv, table
  <2>2. thread' \in Thread /\ thread'.pc = "dispatch"
    BY <1>1, <1>2 DEF EpollWait, Goto, Thread
  <2> QED BY <1>1, <1>2, <2>1, <2>2, TurnKeeps DEF EpollWait, At, Doomed
<1>3. CASE LeaveLoop \/ EndOfBatch \/ Crash
  <2>1. EventsInv'
    BY <1>3, FewerEvents DEF LeaveLoop, EndOfBatch, Crash, IInv, kernel, sockets, table
  <2>2. /\ thread' \in Thread /\ thread'.pc \in {"stopped", "wait", "crashed"}
        /\ ~Doomed \/ thread'.pc = "crashed"
    BY <1>1, <1>3 DEF LeaveLoop, EndOfBatch, Crash, Goto, Thread, At, Doomed
  <2> QED BY <1>1, <1>3, <2>1, <2>2, TurnKeeps
          DEF LeaveLoop, EndOfBatch, Crash, kernel, sockets
<1>4. CASE DispatchAccept
  <2>1. EventsInv' /\ m_events' \subseteq Event
    BY <1>1, <1>4, FewerEvents DEF DispatchAccept, Dispatch, IInv, sockets, table
  <2>2. thread' \in Thread /\ thread'.pc = "accept" /\ ~Doomed
    <3>1. 0 \in 0 .. MaxAccepts
      BY LoopAssumption
    <3> QED BY <1>1, <1>4, <3>1 DEF DispatchAccept, Dispatch, Thread, At, Doomed
  <2> QED BY <1>1, <1>4, <2>1, <2>2, TurnKeeps DEF DispatchAccept, Dispatch, sockets
<1>5. CASE AcceptEnds
  <2>1. EventsInv'
    BY <1>5, FewerEvents DEF AcceptEnds, IInv, sockets, table
  <2>2. thread' \in Thread /\ thread'.pc = "dispatch" /\ ~Doomed
    BY <1>1, <1>5 DEF AcceptEnds, Accepting, Goto, Thread, At, Doomed
  <2>3. errno' \in Errno
    BY <1>1, <1>5 DEF AcceptEnds, Errno
  <2> QED BY <1>1, <1>5, <2>1, <2>2, <2>3, TurnKeeps DEF AcceptEnds, sockets
<1> QED BY <1>2, <1>3, <1>4, <1>5
-----------------------------------------------------------------------------
(* An event of a connection: it is open, and its ring is as full as it can *)
(* be at most.                                                             *)
LEMMA EventOfConnection ==
    ASSUME IInv, At("dispatch"), NEW e \in m_events, e.fd # Listen
    PROVE  /\ e.fd \in Fds /\ fdOwner[e.fd] # NoClient
           /\ BufferOf(e.fd) \in Buffers
           /\ Held(BufferOf(e.fd)) \in Nat /\ Held(BufferOf(e.fd)) <= BufferSize
<1>1. e.fd \in Fds /\ fdOwner[e.fd] # NoClient
  BY Types DEF IInv, Event, EventsInv, EventsAreCurrent
<1>2. BufferOf(e.fd) \in Buffers
  BY <1>1, OpenHasBuffer DEF IInv
<1>3. ring[BufferOf(e.fd)] \in CounterPair
  BY <1>2, Types, ElementOfSeq DEF IInv
<1>4. ring[BufferOf(e.fd)].head \in Counter /\ ring[BufferOf(e.fd)].tail \in Counter
  BY <1>3 DEF CounterPair
<1>5. Held(BufferOf(e.fd)) \in Counter
  BY <1>4, CountCases DEF Held
<1>6. Held(BufferOf(e.fd)) \in Nat
  BY <1>5, SMT DEF Counter
<1>7. Held(BufferOf(e.fd)) <= BufferSize
  BY <1>2 DEF IInv, HeldInv, Doomed, At
<1> QED BY <1>1, <1>2, <1>6, <1>7

(* The start of a handler.                                                 *)
LEMMA HandlerStarts ==
    ASSUME IInv, UNCHANGED <<sockets, backlog, errno, m_running, table>>,
           NEW e \in m_events, e.fd # Listen, At("dispatch"), m_events' = m_events \ {e},
           thread' \in Thread, thread'.conn = e.fd, thread'.this = BufferOf(e.fd),
           thread'.pc \in {"recv", "on_read", "send", "on_write"},
           thread'.pc = "recv" => Held(BufferOf(e.fd)) + thread'.left <= BufferSize,
           thread'.pc = "send" => thread'.left <= Held(BufferOf(e.fd))
    PROVE  IInv'
<1>1. /\ UNCHANGED <<m_connections, m_pl, ring, sock, fdOwner, armed, ready>>
      /\ Buffers' = Buffers
  BY DEF table, sockets, Buffers
<1>2. /\ e.fd \in Fds /\ fdOwner[e.fd] # NoClient
      /\ \A d \in m_events : d.fd = e.fd => d = e
  BY EventOfConnection DEF IInv, EventsInv
<1>3. TypeOK'
  BY <1>1 DEF IInv, TypeOK, EpollTypeOK, SocketsTypeOK, PoolTypeOK, Thread
<1>4. PoolInv'
  BY <1>1, PoolUnchanged DEF IInv
<1>5. ArmedInv'
  BY <1>1 DEF IInv, ArmedInv
<1>6. EventsInv'
  BY <1>1, FewerEvents DEF IInv
<1>7. HandlerInv'
  BY <1>1, <1>2 DEF HandlerInv, Handling, Gone, At, BufferOf, Held
<1>8. HeldInv'
  BY <1>1 DEF IInv, HeldInv, Doomed, At, Held
<1> QED BY <1>3, <1>4, <1>5, <1>6, <1>7, <1>8 DEF IInv

LEMMA DispatchSteps ==
    ASSUME IInv, DispatchRead \/ DispatchWrite
    PROVE  IInv'
<1>1. thread \in Thread /\ BufferSize \in Nat
  BY Types, CounterFacts DEF IInv
<1>2. CASE DispatchRead
  <2>1. PICK e \in m_events :
          /\ e.fd # Listen /\ Dispatch(e)
          /\ thread' = [thread EXCEPT
                !.pc = IF Held(BufferOf(e.fd)) = BufferSize THEN "on_read" ELSE "recv",
                !.conn = e.fd, !.this = BufferOf(e.fd),
                !.left = BufferSize - Held(BufferOf(e.fd)), !.error = FALSE]
    BY <1>2 DEF DispatchRead
  <2>2. /\ e.fd \in Fds /\ BufferOf(e.fd) \in Buffers
        /\ Held(BufferOf(e.fd)) \in Nat /\ Held(BufferOf(e.fd)) <= BufferSize
    BY <2>1, EventOfConnection DEF Dispatch
  <2>3. PICK h \in Nat : h = Held(BufferOf(e.fd)) /\ h <= BufferSize
    BY <2>2
  <2>4. BufferSize - h \in 0 .. BufferSize /\ h + (BufferSize - h) <= BufferSize
    BY <1>1, <2>3
  <2>5. /\ thread' \in Thread /\ thread'.conn = e.fd /\ thread'.this = BufferOf(e.fd)
        /\ thread'.pc \in {"recv", "on_read"} /\ thread'.left = BufferSize - h
    BY <1>1, <2>1, <2>2, <2>3, <2>4 DEF Thread
  <2> QED BY <1>2, <2>1, <2>3, <2>4, <2>5, HandlerStarts DEF DispatchRead, Dispatch
<1>3. CASE DispatchWrite
  <2>1. PICK e \in m_events :
          /\ e.fd # Listen /\ Dispatch(e)
          /\ thread' = [thread EXCEPT
                !.pc = IF Held(BufferOf(e.fd)) = 0 THEN "on_write" ELSE "send",
                !.conn = e.fd, !.this = BufferOf(e.fd), !.left = Held(BufferOf(e.fd))]
    BY <1>3 DEF DispatchWrite
  <2>2. /\ e.fd \in Fds /\ BufferOf(e.fd) \in Buffers
        /\ Held(BufferOf(e.fd)) \in Nat /\ Held(BufferOf(e.fd)) <= BufferSize
    BY <2>1, EventOfConnection DEF Dispatch
  <2>3. PICK h \in 0 .. BufferSize : h = Held(BufferOf(e.fd))
    BY <1>1, <2>2
  <2>4. h <= h
    BY <1>1, <2>3
  <2>5. /\ thread' \in Thread /\ thread'.conn = e.fd /\ thread'.this = BufferOf(e.fd)
        /\ thread'.pc \in {"send", "on_write"} /\ thread'.left = h
    BY <1>1, <2>1, <2>2, <2>3 DEF Thread
  <2>6. /\ UNCHANGED <<sockets, backlog, errno, m_running, table>>
        /\ At("dispatch") /\ m_events' = m_events \ {e}
    BY <1>3, <2>1 DEF DispatchWrite, Dispatch
  <2>7. thread'.pc = "send" => thread'.left <= Held(BufferOf(e.fd))
    BY <2>3, <2>4, <2>5
  <2>8. /\ thread'.pc \in {"recv", "on_read", "send", "on_write"}
        /\ thread'.pc # "recv"
    BY <2>5
  <2> QED BY <2>1, <2>5, <2>6, <2>7, <2>8, HandlerStarts
<1> QED BY <1>2, <1>3
-----------------------------------------------------------------------------
(* Steps that close a connection or change its state.                      *)
LEMMA OtherEventsKeep ==
    ASSUME TypeOK, EventsInv, m_events' \subseteq m_events, NEW f \in Fds,
           \A e \in m_events' : e.fd # f,
           \A g \in Fds : g # f => /\ fdOwner'[g] = fdOwner[g]
                                  /\ m_connections'[g] = m_connections[g]
    PROVE  EventsInv'
<1>1. \A e \in m_events : e.fd \in Fds \cup {Listen}
  BY Types DEF Event
<1> QED BY <1>1 DEF EventsInv, EventsAreCurrent

(* TypeOK' when no buffer is made.                                         *)
LEMMA TypesKept ==
    ASSUME TypeOK, Len(ring') = Len(ring), ring' \in Seq(CounterPair),
           sock' \in [Clients -> Socket], backlog' \in Seq(Clients),
           fdOwner' \in [Fds -> Clients \cup {NoClient}],
           armed' \in [Fds -> SUBSET Signal], ready' \subseteq Fds \cup {Listen},
           errno' \in Errno, m_running' \in BOOLEAN, m_events' \subseteq m_events,
           m_connections' \in [Fds -> [state : States, buffer : Buffers \cup {NoBuffer}]],
           m_pl' \in Seq(Buffers), thread' \in Thread
    PROVE  TypeOK'
<1>1. EpollTypeOK'
  BY DEF EpollTypeOK, SocketsTypeOK
<1>2. PoolTypeOK' /\ Buffers' = Buffers
  BY DEF PoolTypeOK, Buffers, CounterPair
<1>3. m_events' \subseteq Event /\ thread' \in Thread'
  BY <1>2, Types DEF Thread
<1> QED BY <1>1, <1>2, <1>3 DEF TypeOK

LEMMA HangupStep ==
    ASSUME IInv, DispatchHangup
    PROVE  IInv'
<1>1. PICK e \in m_events :
        /\ e.fd # Listen /\ Dispatch(e) /\ RemoveConnection(e.fd)
        /\ ring' = AfterReset(BufferOf(e.fd)) /\ UNCHANGED thread
  BY DEF DispatchHangup
<1>2. /\ At("dispatch") /\ m_events' = m_events \ {e}
      /\ UNCHANGED <<backlog, errno, m_running, thread>>
  BY <1>1 DEF Dispatch
<1>3. /\ e.fd \in Fds /\ fdOwner[e.fd] # NoClient /\ BufferOf(e.fd) \in 1 .. Len(ring)
      /\ ring \in Seq(CounterPair)
      /\ \A d \in m_events : d.fd = e.fd => d = e
  BY <1>1, <1>2, EventOfConnection, Types DEF IInv, EventsInv
<1>4. /\ ring' \in Seq(CounterPair) /\ Len(ring') = Len(ring)
      /\ \A b \in 1 .. Len(ring) : Held(b) <= BufferSize => Held(b)' <= BufferSize
  <2>1. PICK b \in 1 .. Len(ring) : b = BufferOf(e.fd)
    BY <1>3
  <2>2. ring' = [ring EXCEPT ![b] = EmptyRing]
    BY <1>1, <2>1 DEF AfterReset
  <2>3. /\ ring' \in Seq(CounterPair) /\ Len(ring') = Len(ring)
        /\ Count(ring'[b].head, ring'[b].tail) = 0
        /\ \A d \in 1 .. Len(ring) : d # b => ring'[d] = ring[d]
    BY <1>3, <2>2, RingEmptied
  <2>4. 0 <= BufferSize
    BY CounterFacts
  <2> QED BY <2>3, <2>4 DEF Held
<1>5. /\ sock' \in [Clients -> Socket]
      /\ fdOwner' \in [Fds -> Clients \cup {NoClient}]
      /\ armed' \in [Fds -> SUBSET Signal] /\ ready' \subseteq Fds \cup {Listen}
      /\ m_connections' \in [Fds -> [state : States, buffer : Buffers \cup {NoBuffer}]]
      /\ m_pl' \in Seq(Buffers)
      /\ PoolInv' /\ ArmedInv'
      /\ \A g \in Fds : g # e.fd => /\ fdOwner'[g] = fdOwner[g]
                                    /\ m_connections'[g] = m_connections[g]
  BY <1>1, <1>3, <1>4, RemoveKeeps DEF IInv
<1>6. TypeOK'
  BY <1>2, <1>4, <1>5, Types, TypesKept DEF IInv
<1>7. EventsInv'
  BY <1>2, <1>3, <1>5, OtherEventsKeep DEF IInv
<1>8. HandlerInv'
  BY <1>2 DEF HandlerInv, Handling, At
<1>9. HeldInv'
  BY <1>2, <1>4 DEF IInv, HeldInv, Doomed, At, Buffers
<1> QED BY <1>5, <1>6, <1>7, <1>8, <1>9 DEF IInv
-----------------------------------------------------------------------------
(* handle_accept.                                                          *)
LEMMA BacklogHead ==
    ASSUME TypeOK, backlog # <<>>
    PROVE  Head(backlog) \in Clients /\ Tail(backlog) \in Seq(Clients)
    BY Types, HeadTailProperties

LEMMA NextTurnType ==
    ASSUME thread \in Thread, Accepting, NextTurn
    PROVE  thread' \in Thread /\ thread'.pc = "accept"
<1>1. thread.accepts + 1 \in 0 .. MaxAccepts
  BY ThreadFields, LoopAssumption DEF Accepting
<1>2. PICK n \in 0 .. MaxAccepts : n = thread.accepts + 1
  BY <1>1
<1>3. thread' = [thread EXCEPT !.accepts = n]
  BY <1>2 DEF NextTurn
<1> QED BY <1>3 DEF Thread, Accepting, At

LEMMA FcntlStep ==
    ASSUME IInv, AcceptFcntlFails
    PROVE  IInv'
<1>1. /\ Accepting /\ At("accept") /\ backlog # <<>>
      /\ backlog' = Tail(backlog) /\ errno' = "other"
      /\ sock' = [sock EXCEPT ![Head(backlog)].phase = "closed"]
      /\ UNCHANGED <<fdOwner, armed, ready, m_running, m_events, m_connections, m_pl, ring>>
  BY DEF AcceptFcntlFails, Accepting, table
<1>2. thread' \in Thread /\ thread'.pc \in {"accept", "dispatch"}
  <2>1. CASE NextTurn
    BY <1>1, <2>1, Types, NextTurnType DEF IInv
  <2>2. CASE Goto("dispatch")
    BY <2>2, Types DEF IInv, Goto, Thread
  <2> QED BY <2>1, <2>2 DEF AcceptFcntlFails
<1>3. sock' \in [Clients -> Socket] /\ backlog' \in Seq(Clients) /\ errno' \in Errno
  BY <1>1, BacklogHead, Types, PhaseType DEF IInv, Errno
<1>4. TypeOK'
  BY <1>1, <1>2, <1>3, Types, TypesKept DEF IInv
<1>5. PoolInv' /\ ArmedInv'
  BY <1>1, PoolUnchanged DEF IInv, ArmedInv
<1>6. EventsInv'
  BY <1>1, FewerEvents DEF IInv
<1>7. HandlerInv'
  BY <1>2 DEF HandlerInv, Handling
<1>8. HeldInv'
  BY <1>1 DEF IInv, HeldInv, Doomed, At, Held, Buffers
<1> QED BY <1>4, <1>5, <1>6, <1>7, <1>8 DEF IInv

(* A buffer is made only when every other one is with a connection, and a  *)
(* descriptor is free.                                                     *)
LEMMA BoundKept ==
    ASSUME PoolBound, NEW f \in Fds, BufferTable[f] = 0, NEW n \in Nat, n = Len(ring),
           Len(ring') = n \/ (Conserved(m_pl, 0, n, Fds, BufferTable) /\ Len(ring') = n + 1)
    PROVE  PoolBound'
<1>1. IsFiniteSet(Fds) /\ Cardinality(Fds) \in Nat /\ Prepool \in Nat
  BY SocketAssumption, PoolAssumption, FS_CardinalityType
<1>2. CASE Len(ring') = n
  BY <1>2 DEF PoolBound
<1>3. CASE Conserved(m_pl, 0, n, Fds, BufferTable) /\ Len(ring') = n + 1
  <2>1. n + 1 <= Cardinality(Fds)
    BY <1>1, <1>3, RoomForNew
  <2> QED BY <1>1, <1>3, <2>1 DEF PoolBound
<1> QED BY <1>2, <1>3

(* push_new_connection.                                                    *)
LEMMA PushKeeps ==
    ASSUME TypeOK, PoolInv, NEW f \in Fds, fdOwner[f] = NoClient, NEW c \in Clients,
           NEW state \in States, m_pl' = PoolWithout, ring' = RingWithNew,
           m_connections' = [m_connections EXCEPT
                ![f] = [state |-> state, buffer |-> Allocated]],
           fdOwner' = [fdOwner EXCEPT ![f] = c]
    PROVE  /\ fdOwner' \in [Fds -> Clients \cup {NoClient}]
           /\ PoolTypeOK' /\ ring' \in Seq(CounterPair) /\ Len(ring') \in Nat
           /\ Len(ring) <= Len(ring')
           /\ m_connections' \in [Fds -> [state : States, buffer : Buffers' \cup {NoBuffer}]]
           /\ \A b \in 1 .. Len(ring) : ring'[b] = ring[b]
           /\ \A b \in 1 .. Len(ring') : b \in 1 .. Len(ring) \/ ring'[b] = EmptyRing
           /\ PoolInv'
           /\ fdOwner'[f] = c /\ m_connections'[f].state = state
           /\ \A g \in Fds : g # f => /\ fdOwner'[g] = fdOwner[g]
                                      /\ m_connections'[g] = m_connections[g]
<1>1. PICK L, n : L = Len(m_pl) /\ n = Len(ring)
  OBVIOUS
<1>2. PoolTypeOK /\ L \in Nat /\ n \in Nat /\ ring \in Seq(CounterPair)
  BY <1>1, Types
<1>3. /\ BufferTable[f] = 0
      /\ Conserved(m_pl, L, n, Fds, BufferTable)
  BY <1>1 DEF PoolInv, OwnersAreOpen, BufferTable, BufferOf, NoBuffer
<1>4. /\ fdOwner'[f] = c /\ m_connections'[f].state = state
      /\ m_connections'[f].buffer = Allocated
      /\ \A g \in Fds : g # f => /\ fdOwner'[g] = fdOwner[g]
                                 /\ m_connections'[g] = m_connections[g]
      /\ fdOwner' \in [Fds -> Clients \cup {NoClient}]
  BY Types
<1>5. /\ BufferTable'[f] = Allocated
      /\ \A g \in Fds : g # f => BufferTable'[g] = BufferTable[g]
  BY <1>4 DEF BufferTable, BufferOf
<1>6. PICK N : N = Len(ring')
  OBVIOUS
<1>7. /\ N \in Nat /\ n <= N /\ Allocated \in 1 .. N /\ ring' \in Seq(CounterPair)
      /\ \A b \in 1 .. n : ring'[b] = ring[b]
      /\ \A b \in 1 .. N : b \in 1 .. n \/ ring'[b] = EmptyRing
      /\ m_pl' \in Seq(1 .. N)
      /\ Conserved(m_pl', Len(m_pl'), N, Fds, BufferTable')
      /\ N = n \/ (L = 0 /\ N = n + 1)
  <2>1. PICK u, t : u = BufferTable /\ t = BufferTable'
    OBVIOUS
  <2>2. /\ Conserved(m_pl, Len(m_pl), Len(ring), Fds, u) /\ u[f] = 0
        /\ t[f] = Allocated /\ \A g \in Fds : g # f => t[g] = u[g]
    BY <1>1, <1>3, <1>5, <2>1
  <2> QED BY <1>1, <1>2, <1>6, <2>1, <2>2, PushedBuffer
<1>8. Buffers' = 1 .. N /\ Buffers \subseteq 1 .. N
  BY <1>1, <1>2, <1>6, <1>7 DEF Buffers
<1>9. m_connections' \in [Fds -> [state : States, buffer : Buffers' \cup {NoBuffer}]]
  <2>1. [state |-> state, buffer |-> Allocated]
            \in [state : States, buffer : Buffers' \cup {NoBuffer}]
    BY <1>7, <1>8
  <2>2. m_connections \in [Fds -> [state : States, buffer : Buffers' \cup {NoBuffer}]]
    BY <1>8, Types
  <2> QED BY <2>1, <2>2
<1>10. PoolTypeOK'
  BY <1>7, <1>8 DEF PoolTypeOK, CounterPair
<1>11. OwnersAreOpen'
  <2>1. Allocated # NoBuffer /\ c # NoClient
    BY <1>7, Basics DEF NoBuffer
  <2> QED BY <1>4, <2>1 DEF PoolInv, OwnersAreOpen, BufferOf
<1>12. PoolBound'
  BY <1>1, <1>2, <1>3, <1>6, <1>7, BoundKept DEF PoolInv
<1> QED BY <1>1, <1>4, <1>6, <1>7, <1>9, <1>10, <1>11, <1>12 DEF PoolInv

LEMMA AcceptStep ==
    ASSUME IInv, AcceptOne
    PROVE  IInv'
<1> DEFINE c == Head(backlog)
<1>1. PICK f \in Fds, state \in OnConnect \ {"die"} :
        /\ Lowest(f)
        /\ m_pl' = PoolWithout
        /\ ring' = RingWithNew
        /\ m_connections' = [m_connections EXCEPT
                ![f] = [state |-> state, buffer |-> Allocated]]
        /\ fdOwner' = [fdOwner EXCEPT ![f] = c]
        /\ sock' = [sock EXCEPT ![c].phase = "open"]
        /\ \/ Arm(f, Interest(state), c) /\ UNCHANGED errno
           \/ errno' = "other" /\ UNCHANGED <<armed, ready>>
  BY DEF AcceptOne
<1>2. /\ Accepting /\ backlog # <<>> /\ backlog' = Tail(backlog) /\ NextTurn
      /\ UNCHANGED <<m_running, m_events>> /\ At("accept")
  BY DEF AcceptOne, Accepting
<1>3. c \in Clients /\ backlog' \in Seq(Clients)
  BY <1>2, BacklogHead DEF IInv
<1>4. fdOwner[f] = NoClient /\ state \in States
  BY <1>1, LoopAssumption DEF Lowest, FreeFds
<1> HIDE DEF c
<1>5. /\ fdOwner' \in [Fds -> Clients \cup {NoClient}]
      /\ PoolTypeOK' /\ ring' \in Seq(CounterPair) /\ Len(ring') \in Nat
      /\ Len(ring) <= Len(ring')
      /\ m_connections' \in [Fds -> [state : States, buffer : Buffers' \cup {NoBuffer}]]
      /\ \A b \in 1 .. Len(ring) : ring'[b] = ring[b]
      /\ \A b \in 1 .. Len(ring') : b \in 1 .. Len(ring) \/ ring'[b] = EmptyRing
      /\ PoolInv'
      /\ fdOwner'[f] = c /\ m_connections'[f].state = state
      /\ \A g \in Fds : g # f => /\ fdOwner'[g] = fdOwner[g]
                                 /\ m_connections'[g] = m_connections[g]
  BY <1>1, <1>3, <1>4, PushKeeps DEF IInv
<1>6. thread' \in Thread /\ thread'.pc = "accept"
  BY <1>2, Types, NextTurnType DEF IInv
<1>7. sock' \in [Clients -> Socket]
  BY <1>1, <1>3, Types, PhaseType DEF IInv
<1>8. /\ armed' \in [Fds -> SUBSET Signal] /\ ready' \subseteq Fds \cup {Listen}
      /\ armed'[f] \in {{}, Interest(state)}
      /\ \A g \in Fds : g # f => armed'[g] = armed[g]
      /\ errno' \in Errno
  <2>1. armed[f] = {}
    BY <1>4 DEF IInv, ArmedInv
  <2>2. CASE Arm(f, Interest(state), c) /\ UNCHANGED errno
    BY <2>2, Types, Basics DEF IInv, Arm
  <2>3. CASE errno' = "other" /\ UNCHANGED <<armed, ready>>
    BY <2>1, <2>3, Types DEF IInv, Errno
  <2> QED BY <1>1, <2>2, <2>3
<1>9. TypeOK'
  <2>1. Buffers \subseteq Buffers'
    BY <1>5, Types DEF IInv, Buffers
  <2>2. thread' \in Thread'
    BY <1>6, <2>1 DEF Thread
  <2>3. m_events' \subseteq Event /\ m_running' \in BOOLEAN
    BY <1>2, Types DEF IInv
  <2>4. EpollTypeOK'
    BY <1>3, <1>5, <1>7, <1>8 DEF EpollTypeOK, SocketsTypeOK
  <2> QED BY <1>5, <2>2, <2>3, <2>4 DEF TypeOK
<1>10. ArmedInv'
  <2>1. c # NoClient
    BY <1>3, Basics
  <2> QED BY <1>5, <1>8, <2>1 DEF IInv, ArmedInv
<1>11. EventsInv'
  <2>1. \A e \in m_events : e.fd # f
    BY <1>4, Basics DEF IInv, EventsInv, EventsAreCurrent
  <2> QED BY <1>2, <1>5, <2>1, OtherEventsKeep DEF IInv
<1>12. HandlerInv'
  BY <1>6 DEF HandlerInv, Handling
<1>13. HeldInv'
  <2>1. Count(EmptyRing.head, EmptyRing.tail) = 0 /\ 0 <= BufferSize
    <3>1. 0 \in Counter
      BY CounterFacts, SMT DEF Counter
    <3> QED BY <3>1, CounterFacts, CountCases, SMT DEF EmptyRing
  <2>2. \A b \in 1 .. Len(ring) : Held(b) <= BufferSize
    BY <1>2 DEF IInv, HeldInv, Doomed, At, Buffers
  <2> QED BY <1>5, <2>1, <2>2 DEF HeldInv, Held, Buffers
<1> QED BY <1>5, <1>9, <1>10, <1>11, <1>12, <1>13 DEF IInv
LEMMA RefuseStep ==
    ASSUME IInv, AcceptRefused
    PROVE  IInv'
<1>1. /\ Accepting /\ At("accept") /\ backlog # <<>> /\ NextTurn
      /\ m_pl' = Append(PoolWithout, Allocated)
      /\ ring' = [RingWithNew EXCEPT ![Allocated] = EmptyRing]
      /\ sock' = [sock EXCEPT ![Head(backlog)].phase = "closed"]
      /\ backlog' = Tail(backlog) /\ errno' = "other"
      /\ UNCHANGED <<fdOwner, armed, ready, m_connections, m_running, m_events>>
  BY DEF AcceptRefused, Accepting
<1>2. PICK L, n, N : L = Len(m_pl) /\ n = Len(ring) /\ N = Len(ring')
  OBVIOUS
<1>3. PoolTypeOK /\ L \in Nat /\ n \in Nat /\ ring \in Seq(CounterPair)
  BY <1>2, Types DEF IInv
<1>4. /\ BufferTable' = BufferTable /\ OwnersAreOpen'
      /\ Conserved(m_pl, L, n, Fds, BufferTable)
  BY <1>1, <1>2 DEF IInv, PoolInv, OwnersAreOpen, BufferTable, BufferOf
<1>5. /\ N \in Nat /\ n <= N /\ ring' \in Seq(CounterPair)
      /\ \A b \in 1 .. N : \/ b \in 1 .. n /\ ring'[b] = ring[b]
                           \/ Count(ring'[b].head, ring'[b].tail) = 0
      /\ m_pl' \in Seq(1 .. N)
      /\ Conserved(m_pl', Len(m_pl'), N, Fds, BufferTable)
      /\ N = n \/ (L = 0 /\ N = n + 1)
  <2>1. PICK u : u = BufferTable
    OBVIOUS
  <2>2. Conserved(m_pl, Len(m_pl), Len(ring), Fds, u)
    BY <1>2, <1>4, <2>1
  <2>3. /\ m_pl' = Append(PoolWithout, Allocated)
        /\ ring' = [RingWithNew EXCEPT ![Allocated] = EmptyRing]
    BY <1>1
  <2> QED BY <1>2, <1>3, <2>1, <2>2, <2>3, RefusedBuffer
<1>6. Buffers' = 1 .. N /\ Buffers = 1 .. n /\ Buffers \subseteq Buffers'
  BY <1>2, <1>3, <1>5 DEF Buffers
<1>7. PoolInv' /\ PoolTypeOK'
  <2>1. PICK f \in Fds : fdOwner[f] = NoClient
    BY DEF AcceptRefused, FreeFds
  <2>2. BufferTable[f] = 0
    BY <2>1 DEF IInv, PoolInv, OwnersAreOpen, BufferTable, BufferOf, NoBuffer
  <2>3. PoolBound'
    BY <1>2, <1>3, <1>4, <1>5, <2>2, BoundKept DEF IInv, PoolInv
  <2> QED BY <1>2, <1>4, <1>5, <1>6, <2>3 DEF PoolInv, PoolTypeOK, CounterPair
<1>8. thread' \in Thread /\ thread'.pc = "accept"
  BY <1>1, Types, NextTurnType DEF IInv
<1>9. sock' \in [Clients -> Socket] /\ backlog' \in Seq(Clients) /\ errno' \in Errno
  BY <1>1, BacklogHead, Types, PhaseType DEF IInv, Errno
<1>10. TypeOK'
  <2>1. thread' \in Thread'
    BY <1>6, <1>8 DEF Thread
  <2>2. m_connections' \in [Fds -> [state : States, buffer : Buffers' \cup {NoBuffer}]]
    BY <1>1, <1>6, Types DEF IInv
  <2>3. m_events' \subseteq Event /\ m_running' \in BOOLEAN
    BY <1>1, Types DEF IInv
  <2>4. EpollTypeOK'
    BY <1>1, <1>9, Types DEF IInv, EpollTypeOK, SocketsTypeOK
  <2> QED BY <1>7, <2>1, <2>2, <2>3, <2>4 DEF TypeOK
<1>11. ArmedInv' /\ EventsInv'
  BY <1>1, FewerEvents DEF IInv, ArmedInv
<1>12. HandlerInv'
  BY <1>8 DEF HandlerInv, Handling
<1>13. HeldInv'
  <2>1. \A b \in 1 .. n : Held(b) <= BufferSize
    BY <1>1, <1>6 DEF IInv, HeldInv, Doomed, At
  <2>2. 0 <= BufferSize
    BY CounterFacts
  <2> QED BY <1>5, <1>6, <2>1, <2>2 DEF HeldInv, Held
<1> QED BY <1>7, <1>10, <1>11, <1>12, <1>13 DEF IInv
-----------------------------------------------------------------------------
(* handle_read and handle_write, between two system calls.                 *)
LEMMA InHandler ==
    ASSUME IInv, Handling, ~Gone
    PROVE  /\ thread \in Thread /\ thread.conn \in Fds /\ thread.left \in 0 .. BufferSize
           /\ fdOwner[thread.conn] \in Clients
           /\ thread.this = BufferOf(thread.conn) /\ thread.this \in 1 .. Len(ring)
           /\ ring \in Seq(CounterPair)
           /\ ring[thread.this].head \in Counter /\ ring[thread.this].tail \in Counter
           /\ Held(thread.this) \in Nat
           /\ \A b \in 1 .. Len(ring) : Held(b) <= BufferSize
           /\ \A e \in m_events : e.fd # thread.conn
<1>1. /\ thread \in Thread /\ ring \in Seq(CounterPair) /\ Buffers = 1 .. Len(ring)
  BY Types DEF IInv
<1>2. /\ thread.conn \in Fds /\ thread.this = BufferOf(thread.conn)
      /\ \A e \in m_events : e.fd # thread.conn
  BY DEF IInv, HandlerInv
<1>3. fdOwner[thread.conn] \in Clients /\ thread.this \in 1 .. Len(ring)
  BY <1>1, <1>2, OpenHasBuffer DEF IInv, Gone
<1>4. ring[thread.this] \in CounterPair
  BY <1>1, <1>3, ElementOfSeq
<1>5. ring[thread.this].head \in Counter /\ ring[thread.this].tail \in Counter
  BY <1>4 DEF CounterPair
<1>6. Held(thread.this) \in Counter
  BY <1>5, CountCases DEF Held
<1>7. Held(thread.this) \in Nat
  BY <1>6, SMT DEF Counter
<1>8. \A b \in 1 .. Len(ring) : Held(b) <= BufferSize
  BY <1>1 DEF IInv, HeldInv, Doomed, At, Handling
<1> QED BY <1>1, <1>2, <1>3, <1>5, <1>7, <1>8, ThreadFields

(* consume_free and consume_used visit no byte twice.                      *)
LEMMA AfterChunkFacts ==
    ASSUME thread \in Thread, NEW n \in Nat, NEW chunk \in 0 .. thread.left, n <= chunk,
           NEW end \in {"on_read", "on_write"}, AfterChunk(n, chunk, end)
    PROVE  /\ thread' \in Thread /\ thread'.conn = thread.conn
           /\ thread'.this = thread.this /\ thread'.error = thread.error
           /\ thread'.pc \in {thread.pc, end}
           /\ thread'.left \in Nat /\ thread'.left + n <= thread.left
<1>1. thread.left \in 0 .. BufferSize /\ BufferSize \in Nat
  BY ThreadFields, CounterFacts
<1>2. PICK l : l = IF n < chunk THEN 0 ELSE thread.left - n
  OBVIOUS
<1>3. l \in 0 .. BufferSize /\ l \in Nat /\ l + n <= thread.left
  BY <1>1, <1>2
<1>4. PICK p \in {thread.pc, end} :
        p = IF n < chunk \/ thread.left = n THEN end ELSE thread.pc
  OBVIOUS
<1>5. thread' = [thread EXCEPT !.left = l, !.pc = p]
  BY <1>2, <1>4 DEF AfterChunk
<1> QED BY <1>3, <1>4, <1>5 DEF Thread

(* A step that moves bytes between a socket and its ring.                  *)
LEMMA HandlerContinues ==
    ASSUME IInv, Handling, ~Gone, sock' \in [Clients -> Socket], errno' \in Errno,
           UNCHANGED <<fdOwner, armed, ready, backlog, m_running, m_events,
                       m_connections, m_pl>>,
           ring' \in Seq(CounterPair), Len(ring') = Len(ring),
           \A b \in 1 .. Len(ring) : b # thread.this => ring'[b] = ring[b],
           NEW h \in Nat, h <= BufferSize,
           h = Count(ring'[thread.this].head, ring'[thread.this].tail),
           thread' \in Thread, thread'.conn = thread.conn, thread'.this = thread.this,
           thread'.pc \in {"recv", "on_read", "send", "on_write"},
           thread'.pc = "recv" => h + thread'.left <= BufferSize,
           thread'.pc = "send" => thread'.left <= h
    PROVE  IInv'
<1>1. TypeOK'
  BY Types, TypesKept DEF IInv
<1>2. PoolInv' /\ ArmedInv' /\ EventsInv'
  BY PoolUnchanged, FewerEvents DEF IInv, ArmedInv
<1>3. /\ thread.conn \in Fds /\ thread.this = BufferOf(thread.conn)
      /\ \A e \in m_events : e.fd # thread.conn
      /\ \A b \in 1 .. Len(ring) : Held(b) <= BufferSize
  BY InHandler
<1>4. ~Gone' /\ BufferOf(thread.conn)' = BufferOf(thread.conn)
  BY DEF Gone, BufferOf
<1>5. HandlerInv'
  BY <1>3, <1>4 DEF HandlerInv, Held, At, BufferOf
<1>6. HeldInv'
  BY <1>3 DEF HeldInv, Held, Buffers
<1> QED BY <1>1, <1>2, <1>5, <1>6 DEF IInv

(* x bytes are received, or y sent, on the connection of the handler.      *)
Moves(x, y) ==
    /\ ~Gone
    /\ UNCHANGED <<fdOwner, backlog, m_connections, m_pl>>
    /\ thread'.conn = thread.conn /\ Len(ring') = Len(ring)
    /\ \A b \in 1 .. Len(ring) : b # thread.this => ring'[b] = ring[b]
    /\ Count(ring'[thread.this].head, ring'[thread.this].tail) = (Held(thread.this) + x) - y
    /\ sock'[Client].in = sock[Client].in + x /\ sock'[Client].out = sock[Client].out + y
    /\ \A c \in Clients : /\ sock'[c].phase = sock[c].phase /\ sock'[c].peer = sock[c].peer
                          /\ c # Client => sock'[c] = sock[c]
    /\ \/ /\ At("recv") /\ thread'.pc \in {"recv", "on_read"}
          /\ y = 0 /\ Held(thread.this) + x <= BufferSize
       \/ /\ At("send") /\ thread'.pc \in {"send", "on_write"}
          /\ x = 0 /\ y <= Held(thread.this)

LEMMA RecvStep ==
    ASSUME IInv, RecvSome \/ RecvAgain
    PROVE  IInv' /\ (RecvSome => \E n \in Nat : Moves(n, 0))
<1>1. In("recv") /\ Handling /\ ~Gone /\ At("recv") /\ Client \in Clients
  BY InHandler DEF RecvSome, RecvAgain, In, Handling, At, Gone, Client
<1>2. /\ thread \in Thread /\ thread.left \in 0 .. BufferSize
      /\ thread.this \in 1 .. Len(ring) /\ ring \in Seq(CounterPair)
      /\ ring[thread.this].tail \in Counter
      /\ Held(thread.this) \in Nat /\ Held(thread.this) <= BufferSize
  BY <1>1, InHandler
<1>3. Held(thread.this) + thread.left <= BufferSize
  BY <1>1 DEF IInv, HandlerInv
<1>4. PICK chunk \in 0 .. thread.left : chunk = FreeChunk
  BY <1>2, ChunkBounds DEF FreeChunk
<1>5. sock \in [Clients -> Socket] /\ errno \in Errno /\ BufferSize \in Nat
  BY Types, CounterFacts DEF IInv
<1>6. CASE RecvSome
  <2>1. sock[Client].rx \in 0 .. MaxBytes /\ sock[Client].in \in Nat /\ MaxBytes \in Nat
    BY <1>1, <1>5, SocketCounts
  <2>2. PICK n \in Nat : n = Smaller(FreeChunk, sock[Client].rx)
                         /\ n <= chunk /\ n <= sock[Client].rx
    BY <1>2, <1>4, <2>1 DEF Smaller
  <2>3. /\ sock' = [sock EXCEPT ![Client].rx = @ - n, ![Client].in = @ + n]
        /\ ring' = [ring EXCEPT ![thread.this].tail = Advance(@, n)]
        /\ AfterChunk(n, chunk, "on_read")
        /\ UNCHANGED <<fdOwner, armed, ready, backlog, errno, m_running, m_events,
                       m_connections, m_pl>>
    BY <1>4, <1>6, <2>2 DEF RecvSome
  <2>4. sock' \in [Clients -> Socket]
    BY <1>1, <1>5, <2>2, <2>3, ReceivedType
  <2>5. /\ thread' \in Thread /\ thread'.conn = thread.conn /\ thread'.this = thread.this
        /\ thread'.pc \in {"recv", "on_read"}
        /\ thread'.left \in Nat /\ thread'.left + n <= thread.left
    BY <1>1, <1>2, <2>2, <2>3, AfterChunkFacts DEF At
  <2>6. PICK b \in 1 .. Len(ring) : b = thread.this
    BY <1>2
  <2>7. PICK h \in Nat : h = Held(b) + n /\ h <= BufferSize
                         /\ h + thread'.left <= BufferSize
    <3>1. PICK old, left, next \in Nat :
              old = Held(b) /\ left = thread.left /\ next = thread'.left
      BY <1>2, <2>5, <2>6
    <3>2. old + left <= BufferSize /\ next + n <= left /\ BufferSize \in Nat
      BY <1>3, <1>5, <2>5, <2>6, <3>1
    <3>3. old + n \in Nat /\ old + n <= BufferSize /\ (old + n) + next <= BufferSize
      BY <3>2
    <3> QED BY <3>1, <3>3
  <2>8. /\ ring' = [ring EXCEPT ![b].tail = Advance(@, n)]
        /\ Count(ring[b].head, ring[b].tail) + n <= BufferSize
    BY <2>3, <2>6, <2>7 DEF Held
  <2>9. /\ ring' \in Seq(CounterPair) /\ Len(ring') = Len(ring)
        /\ Count(ring'[b].head, ring'[b].tail) = Count(ring[b].head, ring[b].tail) + n
        /\ \A d \in 1 .. Len(ring) : d # b => ring'[d] = ring[d]
    <3>1. PICK e, t : e = [head |-> ring[b].head, tail |-> t] /\ t = Advance(ring[b].tail, n)
      OBVIOUS
    <3>2. ring' = [ring EXCEPT ![b].tail = t]
      BY <2>8, <3>1
    <3>3. ring' = [ring EXCEPT ![b] = e]
      <4>1. ring[b] \in CounterPair
        BY <1>2, ElementOfSeq
      <4>2. e = [ring[b] EXCEPT !.tail = t]
        BY <3>1, <4>1 DEF CounterPair
      <4> QED BY <3>2, <4>2
    <3> QED BY <1>2, <2>8, <3>1, <3>3, OneTailMoves
  <2>10. h = Count(ring'[b].head, ring'[b].tail)
    BY <2>7, <2>9 DEF Held
  <2>11. IInv'
    BY <1>1, <1>5, <2>3, <2>4, <2>5, <2>6, <2>7, <2>9, <2>10, HandlerContinues
  <2>12. Moves(n, 0)
    <3>1. /\ sock'[Client].in = sock[Client].in + n /\ sock'[Client].out = sock[Client].out
          /\ \A c \in Clients : /\ sock'[c].phase = sock[c].phase /\ sock'[c].peer = sock[c].peer
                                /\ c # Client => sock'[c] = sock[c]
      BY <1>1, <1>5, <2>3, ReceivedBytes
    <3>2. h - 0 = h /\ sock[Client].out + 0 = sock[Client].out
      <4>1. PICK o \in Nat : o = sock[Client].out
        BY <1>1, <1>5, SocketCounts
      <4> QED BY <2>7, <4>1
    <3> QED BY <1>1, <2>3, <2>5, <2>6, <2>7, <2>9, <2>10, <3>1, <3>2 DEF Moves
  <2> QED BY <2>2, <2>11, <2>12
<1>7. CASE RecvAgain /\ ~RecvSome
  <2>1. /\ AfterChunk(0, chunk, "on_read") /\ errno' \in Errno
        /\ UNCHANGED <<sock, fdOwner, armed, ready, backlog, m_running, m_events,
                       m_connections, m_pl, ring>>
    BY <1>4, <1>7 DEF RecvAgain, sockets, table, Errno
  <2>2. 0 \in Nat /\ 0 <= chunk
    BY <1>2, <1>4
  <2>3. /\ thread' \in Thread /\ thread'.conn = thread.conn /\ thread'.this = thread.this
        /\ thread'.pc \in {"recv", "on_read"}
        /\ thread'.left \in Nat /\ thread'.left + 0 <= thread.left
    BY <1>1, <1>2, <2>1, <2>2, AfterChunkFacts DEF At
  <2>4. PICK h \in Nat : h = Held(thread.this)
    BY <1>2
  <2>5. h <= BufferSize /\ h + thread'.left <= BufferSize
    BY <1>2, <1>3, <1>5, <2>3, <2>4
  <2>6. h = Count(ring'[thread.this].head, ring'[thread.this].tail)
    BY <2>1, <2>4 DEF Held
  <2> QED BY <1>1, <1>2, <1>5, <1>7, <2>1, <2>3, <2>5, <2>6, HandlerContinues
<1> QED BY <1>6, <1>7

LEMMA SendStep ==
    ASSUME IInv, SendSome \/ SendAgain
    PROVE  IInv' /\ (SendSome => \E n \in Nat : Moves(0, n))
<1>1. In("send") /\ Handling /\ ~Gone /\ At("send") /\ Client \in Clients
  BY InHandler DEF SendSome, SendAgain, In, Handling, At, Gone, Client
<1>2. /\ thread \in Thread /\ thread.left \in 0 .. BufferSize
      /\ thread.this \in 1 .. Len(ring) /\ ring \in Seq(CounterPair)
      /\ ring[thread.this].head \in Counter
      /\ Held(thread.this) \in Nat /\ Held(thread.this) <= BufferSize
  BY <1>1, InHandler
<1>3. thread.left <= Held(thread.this)
  BY <1>1 DEF IInv, HandlerInv
<1>4. PICK chunk \in 0 .. thread.left : chunk = UsedChunk
  BY <1>2, ChunkBounds DEF UsedChunk
<1>5. sock \in [Clients -> Socket] /\ errno \in Errno /\ BufferSize \in Nat
  BY Types, CounterFacts DEF IInv
<1>6. CASE SendSome
  <2>1. sock[Client].tx \in 0 .. SendRoom /\ sock[Client].out \in Nat /\ SendRoom \in Nat
    BY <1>1, <1>5, SocketCounts
  <2>2. PICK n \in Nat : n = Smaller(UsedChunk, SendRoom - sock[Client].tx)
                         /\ n <= chunk /\ n <= SendRoom - sock[Client].tx
    BY <1>2, <1>4, <2>1 DEF Smaller
  <2>3. /\ sock' = [sock EXCEPT ![Client].tx = @ + n, ![Client].out = @ + n]
        /\ ring' = [ring EXCEPT ![thread.this].head = Advance(@, n)]
        /\ AfterChunk(n, chunk, "on_write")
        /\ UNCHANGED <<fdOwner, armed, ready, backlog, errno, m_running, m_events,
                       m_connections, m_pl>>
    BY <1>4, <1>6, <2>2 DEF SendSome
  <2>4. sock' \in [Clients -> Socket]
    BY <1>1, <1>5, <2>2, <2>3, SentType
  <2>5. /\ thread' \in Thread /\ thread'.conn = thread.conn /\ thread'.this = thread.this
        /\ thread'.pc \in {"send", "on_write"}
        /\ thread'.left \in Nat /\ thread'.left + n <= thread.left
    BY <1>1, <1>2, <2>2, <2>3, AfterChunkFacts DEF At
  <2>6. PICK b \in 1 .. Len(ring) : b = thread.this
    BY <1>2
  <2>7. n \in 0 .. BufferSize /\ n <= Held(b)
    BY <1>2, <1>3, <1>4, <1>5, <2>2, <2>6
  <2>8. PICK h \in Nat : h = Held(b) - n /\ h <= BufferSize /\ thread'.left <= h
    BY <1>2, <1>3, <1>5, <2>5, <2>6, <2>7
  <2>9. ring' = [ring EXCEPT ![b].head = Advance(@, n)]
    BY <2>3, <2>6
  <2>10. /\ ring' \in Seq(CounterPair) /\ Len(ring') = Len(ring)
         /\ n <= Count(ring[b].head, ring[b].tail) =>
                Count(ring'[b].head, ring'[b].tail) = Count(ring[b].head, ring[b].tail) - n
         /\ \A d \in 1 .. Len(ring) : d # b => ring'[d] = ring[d]
    <3>1. PICK e, t : e = [head |-> t, tail |-> ring[b].tail] /\ t = Advance(ring[b].head, n)
      OBVIOUS
    <3>2. ring' = [ring EXCEPT ![b].head = t]
      BY <2>9, <3>1
    <3>3. ring' = [ring EXCEPT ![b] = e]
      <4>1. ring[b] \in CounterPair
        BY <1>2, ElementOfSeq
      <4>2. e = [ring[b] EXCEPT !.head = t]
        BY <3>1, <4>1 DEF CounterPair
      <4> QED BY <3>2, <4>2
    <3>4. /\ ring \in Seq(CounterPair) /\ b \in 1 .. Len(ring) /\ n \in 0 .. BufferSize
          /\ e = [head |-> Advance(ring[b].head, n), tail |-> ring[b].tail]
      BY <1>2, <2>7, <3>1
    <3>5. PICK s : s = ring'
      OBVIOUS
    <3>6. s = [ring EXCEPT ![b] = e]
      BY <3>3, <3>5
    <3>7. /\ s \in Seq(CounterPair) /\ Len(s) = Len(ring)
          /\ n <= Count(ring[b].head, ring[b].tail) =>
                Count(s[b].head, s[b].tail) = Count(ring[b].head, ring[b].tail) - n
          /\ \A d \in 1 .. Len(ring) : d # b => s[d] = ring[d]
      BY <3>4, <3>6, OneHeadMoves
    <3> QED BY <3>5, <3>7
  <2>11. h = Count(ring'[b].head, ring'[b].tail)
    BY <2>7, <2>8, <2>10 DEF Held
  <2>12. IInv'
    BY <1>1, <1>5, <2>3, <2>4, <2>5, <2>6, <2>8, <2>10, <2>11, HandlerContinues
  <2>13. Moves(0, n)
    <3>1. /\ sock'[Client].in = sock[Client].in /\ sock'[Client].out = sock[Client].out + n
          /\ \A c \in Clients : /\ sock'[c].phase = sock[c].phase /\ sock'[c].peer = sock[c].peer
                                /\ c # Client => sock'[c] = sock[c]
      BY <1>1, <1>5, <2>3, SentBytes
    <3>2. (Held(b) + 0) - n = h /\ sock[Client].in + 0 = sock[Client].in
      <4>1. PICK i \in Nat, k \in Nat : i = sock[Client].in /\ k = Held(b)
        BY <1>1, <1>2, <1>5, <2>6, SocketCounts
      <4>2. (k + 0) - n = k - n /\ i + 0 = i
        OBVIOUS
      <4> QED BY <2>8, <4>1, <4>2
    <3> QED BY <1>1, <2>3, <2>5, <2>6, <2>7, <2>10, <2>11, <3>1, <3>2 DEF Moves
  <2> QED BY <2>2, <2>12, <2>13
<1>7. CASE SendAgain /\ ~SendSome
  <2>1. /\ AfterChunk(0, chunk, "on_write") /\ errno' \in Errno
        /\ UNCHANGED <<sock, fdOwner, armed, ready, backlog, m_running, m_events,
                       m_connections, m_pl, ring>>
    BY <1>4, <1>7 DEF SendAgain, sockets, table, Errno
  <2>2. 0 \in Nat /\ 0 <= chunk
    BY <1>2, <1>4
  <2>3. /\ thread' \in Thread /\ thread'.conn = thread.conn /\ thread'.this = thread.this
        /\ thread'.pc \in {"send", "on_write"}
        /\ thread'.left \in Nat /\ thread'.left + 0 <= thread.left
    BY <1>1, <1>2, <2>1, <2>2, AfterChunkFacts DEF At
  <2>4. PICK h \in Nat : h = Held(thread.this)
    BY <1>2
  <2>5. h <= BufferSize /\ thread'.left <= h
    BY <1>2, <1>3, <1>5, <2>3, <2>4
  <2>6. h = Count(ring'[thread.this].head, ring'[thread.this].tail)
    BY <2>1, <2>4 DEF Held
  <2> QED BY <1>1, <1>2, <1>5, <1>7, <2>1, <2>3, <2>5, <2>6, HandlerContinues
<1> QED BY <1>6, <1>7
-----------------------------------------------------------------------------
(* What a callback answers is applied to the connection of the handler.    *)
LEMMA ConnectionChanges ==
    ASSUME IInv, Handling, ~Gone, NEW state \in States, ApplyState(thread.conn, state),
           ring' \in Seq(CounterPair), Len(ring') = Len(ring),
           UNCHANGED <<backlog, m_running, m_events>>, errno' \in Errno, thread' \in Thread
    PROVE  /\ TypeOK' /\ PoolInv' /\ ArmedInv' /\ EventsInv'
           /\ state = "die" => fdOwner'[thread.conn] = NoClient
           /\ state # "die" => /\ fdOwner' = fdOwner
                               /\ m_connections'[thread.conn].buffer = thread.this
<1>1. /\ thread.conn \in Fds /\ thread.this = BufferOf(thread.conn)
      /\ \A e \in m_events : e.fd # thread.conn
  BY InHandler
<1>2. PICK f \in Fds : f = thread.conn
  BY <1>1
<1>3. ApplyState(f, state) /\ fdOwner[f] # NoClient
  BY <1>2 DEF Gone
<1>4. /\ sock' \in [Clients -> Socket]
      /\ fdOwner' \in [Fds -> Clients \cup {NoClient}]
      /\ armed' \in [Fds -> SUBSET Signal] /\ ready' \subseteq Fds \cup {Listen}
      /\ m_connections' \in [Fds -> [state : States, buffer : Buffers \cup {NoBuffer}]]
      /\ m_pl' \in Seq(Buffers)
      /\ PoolInv' /\ ArmedInv'
      /\ state = "die" => fdOwner'[f] = NoClient
      /\ state # "die" => fdOwner' = fdOwner /\ BufferOf(f)' = BufferOf(f)
      /\ \A g \in Fds : g # f => /\ fdOwner'[g] = fdOwner[g]
                                 /\ m_connections'[g] = m_connections[g]
  BY <1>3, ApplyKeeps DEF IInv
<1>5. TypeOK'
  BY <1>4, Types, TypesKept DEF IInv
<1>6. EventsInv'
  BY <1>1, <1>2, <1>4, OtherEventsKeep DEF IInv
<1> QED BY <1>1, <1>2, <1>4, <1>5, <1>6 DEF BufferOf

(* The counters after apply_state.                                         *)
LEMMA AfterApply ==
    ASSUME IInv, Handling, ~Gone, NEW state \in States,
           NEW r, r = RingAfter(thread.conn, state)
    PROVE  /\ r \in Seq(CounterPair) /\ Len(r) = Len(ring)
           /\ \A b \in 1 .. Len(ring) : Count(r[b].head, r[b].tail) <= BufferSize
           /\ state = "die" => Count(r[thread.this].head, r[thread.this].tail) = 0
           /\ state # "die" => r = ring
<1>1. /\ thread.this = BufferOf(thread.conn) /\ thread.this \in 1 .. Len(ring)
      /\ ring \in Seq(CounterPair) /\ \A b \in 1 .. Len(ring) : Held(b) <= BufferSize
  BY InHandler
<1>2. PICK b \in 1 .. Len(ring) : b = thread.this
  BY <1>1
<1>3. CASE state = "die"
  <2>1. r = [ring EXCEPT ![b] = EmptyRing]
    BY <1>1, <1>2, <1>3 DEF RingAfter, AfterReset
  <2>2. /\ r \in Seq(CounterPair) /\ Len(r) = Len(ring)
        /\ Count(r[b].head, r[b].tail) = 0
        /\ \A d \in 1 .. Len(ring) : d # b => r[d] = ring[d]
    BY <1>1, <2>1, RingEmptied
  <2>3. 0 <= BufferSize
    BY CounterFacts
  <2> QED BY <1>1, <1>2, <1>3, <2>2, <2>3 DEF Held
<1>4. CASE state # "die"
  BY <1>1, <1>4 DEF RingAfter, Held
<1> QED BY <1>3, <1>4

LEMMA CallbackStep ==
    ASSUME IInv, OnReadStep \/ OnWriteStep
    PROVE  IInv'
<1>1. /\ At("on_read") \/ At("on_write")
      /\ Handling /\ Goto("dispatch")
      /\ UNCHANGED <<backlog, errno, m_running, m_events>>
  BY DEF OnReadStep, OnWriteStep, Handling, At
<1>2. thread' \in Thread /\ thread'.pc = "dispatch" /\ errno' \in Errno
  BY <1>1, Types DEF IInv, Goto, Thread
<1>3. CASE UNCHANGED <<sockets, table>>
  <2>1. EventsInv'
    BY <1>1, <1>3, FewerEvents DEF IInv, sockets, table
  <2>2. ~Doomed
    <3>1. CASE OnReadStep
      BY <3>1 DEF OnReadStep, Doomed, At
    <3>2. CASE OnWriteStep
      <4>1. thread.conn \in Fds /\ BufferOf(thread.conn) # NoBuffer
        BY <3>2 DEF OnWriteStep, IInv, HandlerInv, Handling, At
      <4> QED BY <3>2, <4>1 DEF OnWriteStep, IInv, PoolInv, OwnersAreOpen, Doomed, Gone, At
    <3> QED BY <3>1, <3>2
  <2> QED BY <1>1, <1>2, <1>3, <2>1, <2>2, Types, TurnKeeps DEF IInv, sockets
<1>4. CASE \/ Ask(OnRead) /\ ~thread.error /\ At("on_read")
           \/ Ask(OnWrite) /\ OnWriteStep
  <2>1. Handling /\ ~Gone
    <3>1. CASE At("on_read") /\ ~thread.error
      BY <3>1 DEF IInv, HandlerInv, Handling, At
    <3>2. CASE OnWriteStep
      <4>1. thread.conn \in Fds /\ BufferOf(thread.conn) # NoBuffer
        BY <3>2 DEF OnWriteStep, IInv, HandlerInv, Handling, At
      <4> QED BY <3>2, <4>1 DEF OnWriteStep, IInv, PoolInv, OwnersAreOpen, Gone, Handling, At
    <3> QED BY <1>4, <3>1, <3>2
  <2>2. PICK state \in States :
          \/ UNCHANGED <<sockets, table>>
          \/ /\ ApplyState(thread.conn, state)
             /\ ring' = RingAfter(thread.conn, state)
    BY <1>4, LoopAssumption DEF Ask
  <2>3. CASE UNCHANGED <<sockets, table>>
    BY <1>3, <2>3
  <2>4. CASE ApplyState(thread.conn, state) /\ ring' = RingAfter(thread.conn, state)
    <3>1. /\ ring' \in Seq(CounterPair) /\ Len(ring') = Len(ring)
          /\ \A b \in 1 .. Len(ring) : Count(ring'[b].head, ring'[b].tail) <= BufferSize
      BY <2>1, <2>4, AfterApply
    <3>2. TypeOK' /\ PoolInv' /\ ArmedInv' /\ EventsInv'
      BY <1>1, <1>2, <2>1, <2>4, <3>1, ConnectionChanges
    <3>3. HandlerInv'
      BY <1>2 DEF HandlerInv, Handling
    <3>4. HeldInv'
      BY <3>1 DEF HeldInv, Held, Buffers
    <3> QED BY <3>2, <3>3, <3>4 DEF IInv
  <2> QED BY <2>2, <2>3, <2>4
<1>5. CASE OnReadStep
  <2>1. \/ Ask(OnRead) /\ ~thread.error /\ At("on_read")
        \/ UNCHANGED <<sockets, table>>
    BY <1>5 DEF OnReadStep
  <2> QED BY <1>3, <1>4, <2>1
<1>6. CASE OnWriteStep
  <2>1. Ask(OnWrite) \/ UNCHANGED <<sockets, table>>
    BY <1>6 DEF OnWriteStep
  <2> QED BY <1>3, <1>4, <1>6, <2>1
<1> QED BY <1>5, <1>6

LEMMA RecvFailsStep ==
    ASSUME IInv, RecvFails
    PROVE  IInv'
<1>1. Handling /\ ~Gone /\ At("recv")
  BY DEF RecvFails, In, Handling, At, Gone, Client
<1>2. /\ thread \in Thread /\ thread.conn \in Fds /\ thread.left \in 0 .. BufferSize
      /\ thread.this \in 1 .. Len(ring) /\ thread.this = BufferOf(thread.conn)
      /\ ring[thread.this].tail \in Counter
      /\ Held(thread.this) \in Nat
      /\ \A e \in m_events : e.fd # thread.conn
  BY <1>1, InHandler
<1>3. Held(thread.this) + thread.left <= BufferSize /\ BufferSize \in Nat
  BY <1>1, CounterFacts DEF IInv, HandlerInv
<1>4. PICK chunk \in 0 .. thread.left : chunk = FreeChunk
  BY <1>2, ChunkBounds DEF FreeChunk
<1>5. PICK state \in States :
        /\ ApplyState(thread.conn, state)
        /\ ring' = [RingAfter(thread.conn, state) EXCEPT
                        ![thread.this].tail = Advance(@, chunk)]
  BY <1>4, LoopAssumption DEF RecvFails
<1>6. /\ UNCHANGED <<backlog, m_running, m_events>> /\ errno' = "other"
      /\ thread' = [thread EXCEPT !.left = @ - chunk, !.error = TRUE,
                    !.pc = IF thread.left = chunk THEN "on_read" ELSE @]
  BY <1>4 DEF RecvFails
<1>7. /\ thread' \in Thread /\ thread'.conn = thread.conn /\ thread'.this = thread.this
      /\ thread'.error /\ thread'.pc \in {"recv", "on_read"}
      /\ thread'.left = thread.left - chunk
  <2>1. PICK l \in 0 .. BufferSize : l = thread.left - chunk
    BY <1>2, <1>3, <1>4
  <2>2. PICK p \in {"recv", "on_read"} : p = IF thread.left = chunk THEN "on_read" ELSE "recv"
    OBVIOUS
  <2>3. thread' = [thread EXCEPT !.left = l, !.error = TRUE, !.pc = p]
    BY <1>1, <1>2, <1>6, <2>1, <2>2 DEF At
  <2> QED BY <1>2, <2>1, <2>2, <2>3 DEF Thread
<1>8. PICK b \in 1 .. Len(ring) : b = thread.this
  BY <1>2
<1>9. PICK r \in Seq(CounterPair) :
        /\ r = RingAfter(thread.conn, state) /\ Len(r) = Len(ring)
        /\ \A d \in 1 .. Len(ring) : Count(r[d].head, r[d].tail) <= BufferSize
        /\ state = "die" => Count(r[b].head, r[b].tail) = 0
        /\ state # "die" => r = ring
  BY <1>1, <1>8, AfterApply
<1>10. PICK h \in Nat : /\ h = Count(r[b].head, r[b].tail)
                        /\ h + chunk <= BufferSize
                        /\ state # "die" => h = Held(b)
  BY <1>2, <1>3, <1>4, <1>8, <1>9 DEF Held
<1>11. /\ ring' \in Seq(CounterPair) /\ Len(ring') = Len(ring)
       /\ Count(ring'[b].head, ring'[b].tail) = h + chunk
       /\ \A d \in 1 .. Len(ring) : d # b => ring'[d] = r[d]
  <2>1. PICK e, t : e = [head |-> r[b].head, tail |-> t] /\ t = Advance(r[b].tail, chunk)
    OBVIOUS
  <2>2. ring' = [r EXCEPT ![b].tail = t]
    BY <1>5, <1>8, <1>9, <2>1
  <2>3. r[b] \in CounterPair /\ b \in 1 .. Len(r)
    BY <1>9, ElementOfSeq
  <2>4. e = [r[b] EXCEPT !.tail = t]
    BY <2>1, <2>3 DEF CounterPair
  <2>5. ring' = [r EXCEPT ![b] = e]
    BY <2>2, <2>4
  <2>6. chunk \in Nat /\ Count(r[b].head, r[b].tail) + chunk <= BufferSize
    BY <1>2, <1>4, <1>10
  <2>7. /\ ring' \in Seq(CounterPair) /\ Len(ring') = Len(r)
        /\ Count(ring'[b].head, ring'[b].tail) = Count(r[b].head, r[b].tail) + chunk
        /\ \A d \in 1 .. Len(r) : d # b => ring'[d] = r[d]
    BY <2>1, <2>3, <2>5, <2>6, OneTailMoves
  <2> QED BY <1>9, <1>10, <2>7
<1>12. /\ TypeOK' /\ PoolInv' /\ ArmedInv' /\ EventsInv'
       /\ state = "die" => fdOwner'[thread.conn] = NoClient
       /\ state # "die" => /\ fdOwner' = fdOwner
                           /\ m_connections'[thread.conn].buffer = thread.this
  BY <1>1, <1>5, <1>6, <1>7, <1>11, ConnectionChanges DEF Errno
<1>13. HandlerInv'
  <2>1. ASSUME ~Gone' PROVE m_connections'[thread.conn].buffer = thread.this /\ h = Held(b)
    BY <1>2, <1>7, <1>10, <1>12, <2>1 DEF Gone
  <2>2. ASSUME ~Gone' PROVE Held(b)' + thread'.left <= BufferSize
    BY <1>2, <1>3, <1>4, <1>7, <1>8, <1>10, <1>11, <2>1, <2>2 DEF Held
  <2> QED BY <1>2, <1>6, <1>7, <1>8, <2>1, <2>2 DEF HandlerInv, At, BufferOf, Held
<1>14. HeldInv'
  BY <1>9, <1>10, <1>11 DEF HeldInv, Held, Buffers
<1> QED BY <1>12, <1>13, <1>14 DEF IInv

LEMMA SendFailsStep ==
    ASSUME IInv, SendFails
    PROVE  IInv'
<1>1. Handling /\ ~Gone /\ At("send")
  BY DEF SendFails, In, Handling, At, Gone, Client
<1>2. /\ thread \in Thread /\ thread.conn \in Fds /\ thread.left \in 0 .. BufferSize
      /\ thread.this \in 1 .. Len(ring) /\ thread.this = BufferOf(thread.conn)
      /\ ring[thread.this].head \in Counter
      /\ Held(thread.this) \in Nat
      /\ \A e \in m_events : e.fd # thread.conn
  BY <1>1, InHandler
<1>3. thread.left <= Held(thread.this) /\ BufferSize \in Nat
  BY <1>1, CounterFacts DEF IInv, HandlerInv
<1>4. PICK chunk \in 0 .. thread.left : chunk = UsedChunk
  BY <1>2, ChunkBounds DEF UsedChunk
<1>5. PICK state \in States :
        /\ ApplyState(thread.conn, state)
        /\ ring' = [RingAfter(thread.conn, state) EXCEPT
                        ![thread.this].head = Advance(@, chunk)]
  BY <1>4, LoopAssumption DEF SendFails
<1>6. /\ UNCHANGED <<backlog, m_running, m_events>> /\ errno' = "other"
      /\ AfterChunk(chunk, chunk, "on_write")
  BY <1>4 DEF SendFails
<1>7. /\ thread' \in Thread /\ thread'.conn = thread.conn /\ thread'.this = thread.this
      /\ thread'.pc \in {"send", "on_write"}
      /\ thread'.left \in Nat /\ thread'.left + chunk <= thread.left
  <2>1. chunk \in Nat /\ chunk <= chunk
    BY <1>2, <1>4
  <2> QED BY <1>1, <1>2, <1>6, <2>1, AfterChunkFacts DEF At
<1>8. PICK b \in 1 .. Len(ring) : b = thread.this
  BY <1>2
<1>9. PICK r \in Seq(CounterPair) :
        /\ r = RingAfter(thread.conn, state) /\ Len(r) = Len(ring)
        /\ \A d \in 1 .. Len(ring) : Count(r[d].head, r[d].tail) <= BufferSize
        /\ state # "die" => r = ring
  BY <1>1, AfterApply
<1>10. /\ ring' \in Seq(CounterPair) /\ Len(ring') = Len(ring)
       /\ chunk <= Count(r[b].head, r[b].tail) =>
             Count(ring'[b].head, ring'[b].tail) = Count(r[b].head, r[b].tail) - chunk
       /\ \A d \in 1 .. Len(ring) : d # b => ring'[d] = r[d]
  <2>1. PICK e, t : e = [head |-> t, tail |-> r[b].tail] /\ t = Advance(r[b].head, chunk)
    OBVIOUS
  <2>2. ring' = [r EXCEPT ![b].head = t]
    BY <1>5, <1>8, <1>9, <2>1
  <2>3. r[b] \in CounterPair /\ b \in 1 .. Len(r)
    BY <1>9, ElementOfSeq
  <2>4. e = [r[b] EXCEPT !.head = t]
    BY <2>1, <2>3 DEF CounterPair
  <2>5. ring' = [r EXCEPT ![b] = e]
    BY <2>2, <2>4
  <2>6. chunk \in 0 .. BufferSize
    BY <1>2, <1>3, <1>4
  <2>7. /\ ring' \in Seq(CounterPair) /\ Len(ring') = Len(r)
        /\ chunk <= Count(r[b].head, r[b].tail) =>
             Count(ring'[b].head, ring'[b].tail) = Count(r[b].head, r[b].tail) - chunk
        /\ \A d \in 1 .. Len(r) : d # b => ring'[d] = r[d]
    <3>1. e = [head |-> Advance(r[b].head, chunk), tail |-> r[b].tail]
      BY <2>1
    <3>2. PICK s : s = ring'
      OBVIOUS
    <3>3. s = [r EXCEPT ![b] = e]
      BY <2>5, <3>2
    <3>4. /\ s \in Seq(CounterPair) /\ Len(s) = Len(r)
          /\ chunk <= Count(r[b].head, r[b].tail) =>
               Count(s[b].head, s[b].tail) = Count(r[b].head, r[b].tail) - chunk
          /\ \A d \in 1 .. Len(r) : d # b => s[d] = r[d]
      <4>1. b \in 1 .. Len(r)
        BY <2>3
      <4>2. PICK n \in 0 .. BufferSize : n = chunk
        BY <2>6
      <4>3. e = [head |-> Advance(r[b].head, n), tail |-> r[b].tail]
        BY <3>1, <4>2
      <4>4. /\ s \in Seq(CounterPair) /\ Len(s) = Len(r)
            /\ n <= Count(r[b].head, r[b].tail) =>
                 Count(s[b].head, s[b].tail) = Count(r[b].head, r[b].tail) - n
            /\ \A d \in 1 .. Len(r) : d # b => s[d] = r[d]
        BY <3>3, <4>1, <4>3, OneHeadMoves
      <4> QED BY <4>2, <4>4
    <3> QED BY <3>2, <3>4
  <2> QED BY <1>9, <2>7
<1>11. /\ TypeOK' /\ PoolInv' /\ ArmedInv' /\ EventsInv'
       /\ state = "die" => fdOwner'[thread.conn] = NoClient
       /\ state # "die" => /\ fdOwner' = fdOwner
                           /\ m_connections'[thread.conn].buffer = thread.this
  BY <1>1, <1>5, <1>6, <1>7, <1>10, ConnectionChanges DEF Errno
<1>12. CASE state = "die"
  <2>1. Gone'
    BY <1>7, <1>11, <1>12 DEF Gone
  <2>2. HandlerInv'
    BY <1>2, <1>6, <1>7, <2>1 DEF HandlerInv, At
  <2>3. HeldInv'
    BY <1>7, <2>1 DEF HeldInv, Doomed, At
  <2> QED BY <1>11, <2>2, <2>3 DEF IInv
<1>13. CASE state # "die"
  <2>1. r = ring /\ m_connections'[thread.conn].buffer = thread.this
    BY <1>9, <1>11, <1>13
  <2>2. PICK h \in Nat : h = Held(b) /\ thread.left <= h /\ h <= BufferSize
    BY <1>2, <1>3, <1>8, <1>9, <2>1 DEF Held
  <2>3. Count(ring'[b].head, ring'[b].tail) = h - chunk
    BY <1>2, <1>4, <1>10, <2>1, <2>2 DEF Held
  <2>4. thread'.left <= h - chunk /\ h - chunk <= BufferSize
    <3>1. PICK left, next \in Nat : left = thread.left /\ next = thread'.left
      BY <1>2, <1>7
    <3>2. chunk \in Nat /\ next + chunk <= left /\ left <= h /\ h <= BufferSize
      BY <1>2, <1>4, <1>7, <2>2, <3>1
    <3>3. next <= h - chunk /\ h - chunk <= BufferSize
      BY <1>3, <3>2
    <3> QED BY <3>1, <3>3
  <2>5. HandlerInv'
    BY <1>2, <1>6, <1>7, <1>8, <2>1, <2>3, <2>4 DEF HandlerInv, At, BufferOf, Held
  <2>6. HeldInv'
    BY <1>9, <1>10, <2>3, <2>4 DEF HeldInv, Held, Buffers
  <2> QED BY <1>11, <2>5, <2>6 DEF IInv
<1> QED BY <1>12, <1>13
-----------------------------------------------------------------------------
LEMMA InitialStates ==
    ASSUME Init
    PROVE  IInv
<1>1. /\ m_connections = [f \in Fds |-> [state |-> "idle", buffer |-> NoBuffer]]
      /\ fdOwner = [f \in Fds |-> NoClient] /\ armed = [f \in Fds |-> {}]
      /\ ready = {} /\ errno = "other" /\ backlog = <<>>
      /\ m_running = TRUE /\ m_events = {}
      /\ sock = [c \in Clients |-> [phase |-> "new", peer |-> "up",
                                   rx |-> 0, tx |-> 0, in |-> 0, out |-> 0]]
      /\ thread = [pc |-> "wait", accepts |-> 0, conn |-> Listen,
                   this |-> NoBuffer, left |-> 0, error |-> FALSE]
  BY DEF Init, EpollInit, SocketsInit
<1>2. /\ ring = [i \in 1 .. Prepool |-> EmptyRing] /\ m_pl = [i \in 1 .. Prepool |-> i]
      /\ Prepool \in Nat
  BY PoolAssumption DEF Init, PoolInit
<1>3. EmptyRing \in CounterPair /\ Count(EmptyRing.head, EmptyRing.tail) = 0
  <2>1. 0 \in Counter
    BY CounterFacts, SMT DEF Counter
  <2> QED BY <2>1, CountCases, SMT DEF EmptyRing, CounterPair
<1>4. /\ ring \in Seq(CounterPair) /\ Len(ring) = Prepool
      /\ m_pl \in Seq(1 .. Prepool) /\ Len(m_pl) = Prepool
      /\ Buffers = 1 .. Prepool
  BY <1>2, <1>3 DEF Buffers
<1>5. TypeOK
  <2>1. SocketsTypeOK
    <3>1. 0 \in 0 .. MaxBytes /\ 0 \in 0 .. SendRoom /\ 0 \in Nat
      BY SocketAssumption
    <3> QED BY <1>1, <3>1, EmptySeq DEF SocketsTypeOK, Socket
  <2>2. EpollTypeOK
    BY <1>1, <2>1 DEF EpollTypeOK, Errno
  <2>3. thread \in Thread
    <3>1. 0 \in 0 .. MaxAccepts /\ 0 \in 0 .. BufferSize
      BY LoopAssumption, CounterFacts
    <3> QED BY <1>1, <3>1 DEF Thread
  <2>4. m_connections \in [Fds -> [state : States, buffer : Buffers \cup {NoBuffer}]]
    BY <1>1 DEF States
  <2>5. PoolTypeOK
    BY <1>4 DEF PoolTypeOK, CounterPair
  <2> QED BY <1>1, <2>2, <2>3, <2>4, <2>5 DEF TypeOK
<1>6. PoolInv
  <2>1. \A f \in Fds : BufferTable[f] = 0
    BY <1>1 DEF BufferTable, BufferOf, NoBuffer
  <2>2. 0 \in 0 .. Prepool /\ \A i \in 1 .. Prepool : i # 0
    BY <1>2
  <2>3. Conserved(m_pl, Prepool, Prepool, Fds, BufferTable)
    BY <1>2, <2>1, <2>2 DEF Conserved
  <2>4. OwnersAreOpen
    BY <1>1 DEF OwnersAreOpen, BufferOf
  <2>5. PoolBound
    <3>1. Cardinality(Fds) \in Nat
      BY SocketAssumption, FS_CardinalityType
    <3> QED BY <1>2, <1>4, <3>1 DEF PoolBound
  <2> QED BY <1>4, <2>3, <2>4, <2>5 DEF PoolInv
<1>7. ArmedInv /\ EventsInv /\ HandlerInv
  BY <1>1 DEF ArmedInv, EventsInv, EventsAreCurrent, HandlerInv, Handling
<1>8. HeldInv
  <2>1. \A b \in 1 .. Prepool : ring[b] = EmptyRing
    BY <1>2
  <2>2. 0 <= BufferSize
    BY CounterFacts
  <2> QED BY <1>3, <1>4, <2>1, <2>2 DEF HeldInv, Held
<1> QED BY <1>5, <1>6, <1>7, <1>8 DEF IInv

(* Every step of the loop, of a client and of stop() keeps the invariant.  *)
LEMMA Inductive ==
    ASSUME IInv, [Next]_vars
    PROVE  IInv'
<1>1. CASE LoopStep
  BY <1>1, TurnSteps, DispatchSteps, HangupStep, FcntlStep, AcceptStep, RefuseStep,
     RecvStep, RecvFailsStep, CallbackStep, SendStep, SendFailsStep DEF LoopStep
<1>2. CASE EpollInterrupted \/ Stop \/ PeerActs \/ UNCHANGED vars
  BY <1>2, EnvironmentSteps
<1>3. CASE Halted
  BY <1>3, EnvironmentSteps DEF Halted
<1> QED BY <1>1, <1>2, <1>3 DEF Next

THEOREM Invariance == Spec => []IInv
<1>1. Init => IInv
  BY InitialStates
<1>2. IInv /\ [Next]_vars => IInv'
  BY Inductive
<1> QED BY <1>1, <1>2, PTL DEF Spec

(* The variables keep their types, and no counter leaves its width.        *)
THEOREM TypeCorrect == Spec => []TypeOK
<1>1. IInv => TypeOK
  BY DEF IInv
<1> QED BY <1>1, Invariance, PTL

(* The pool neither loses a buffer nor gives one to two connections, on    *)
(* any path of accept, read, write, hang-up and error.                     *)
THEOREM BuffersConserved == Spec => []BufferConservation
<1>1. IInv => BufferConservation
  <2> SUFFICES ASSUME IInv PROVE BufferConservation
    OBVIOUS
  <2>1. PICK k, n : k = Len(m_pl) /\ n = Len(ring)
    OBVIOUS
  <2>2. /\ Conserved(m_pl, k, n, Fds, BufferTable) /\ OwnersAreOpen
        /\ Buffers = 1 .. n /\ DOMAIN m_pl = 1 .. k
        /\ \A f \in Fds : BufferTable[f] = BufferOf(f)
    BY <2>1, Types, LenProperties DEF IInv, PoolInv, BufferTable
  <2>3. NoBufferShared
    BY <2>2 DEF NoBufferShared, Conserved, Owned, Pooled, NoBuffer
  <2>4. NoBufferLost
    <3>1. \A b \in 1 .. n : b # 0
      BY <2>2 DEF Conserved
    <3>2. \A b \in 0 .. n : b = 0 \/ b \in 1 .. n
      BY <2>2 DEF Conserved
    <3>3. Owned \cup Pooled \subseteq Buffers
      BY <2>2, <3>2 DEF Conserved, Owned, Pooled, NoBuffer
    <3>4. Buffers \subseteq Owned \cup Pooled
      <4>1. ASSUME NEW b \in 1 .. n, NEW f \in Fds, BufferTable[f] = b PROVE b \in Owned
        BY <2>2, <3>1, <4>1 DEF Owned, NoBuffer
      <4>2. ASSUME NEW b \in 1 .. n, NEW i \in 1 .. k, m_pl[i] = b PROVE b \in Pooled
        BY <2>2, <4>2 DEF Pooled
      <4>3. \A b \in 1 .. n : \/ \E f \in Fds : BufferTable[f] = b
                             \/ \E i \in 1 .. k : m_pl[i] = b
        BY <2>2 DEF Conserved
      <4> QED BY <2>2, <4>1, <4>2, <4>3
    <3> QED BY <3>3, <3>4 DEF NoBufferLost
  <2> QED BY <2>2, <2>3, <2>4 DEF BufferConservation
<1> QED BY <1>1, Invariance, PTL

(* However connections come and go and are refused, the loop makes no more *)
(* buffers than were asked for in advance or can be in use at once.        *)
THEOREM PoolBounded == Spec => []PoolBound
<1>1. IInv => PoolBound
  BY DEF IInv, PoolInv
<1> QED BY <1>1, Invariance, PTL

(* No event of a batch reaches the connection that took over a descriptor, *)
(* nor a connection in a state its handler does not expect: the assertions *)
(* at event_loop_impl.h:185 and :209 hold whatever the callbacks answer.   *)
THEOREM EventsStayCurrent == Spec => []EventsAreCurrent
<1>1. IInv => EventsAreCurrent
  BY DEF IInv, EventsInv
<1> QED BY <1>1, Invariance, PTL
-----------------------------------------------------------------------------
(* The bytes.  When a receive or a send fails, the lambda returns the size *)
(* of its chunk, and the counters of the ring move over bytes that were    *)
(* never there: even those of a ring that was redeemed, and is given to    *)
(* another client.  So the bytes are accounted for as long as every client *)
(* is up, which none is any more that has closed or reset its connection.  *)
AllUp == \A c \in Clients : sock[c].peer = "up"

Balance(f) == sock[fdOwner[f]].in - sock[fdOwner[f]].out

(* A handler's connection is open, and in the state of that handler.       *)
HandlesOpen ==
    Handling =>
        /\ ~Gone
        /\ (At("recv") \/ At("on_read")) => m_connections[thread.conn].state = "read"
        /\ (At("send") \/ At("on_write")) => m_connections[thread.conn].state = "write"

Accounts ==
    /\ PoolContents(m_pl, ring)
    /\ \A f \in Fds : fdOwner[f] # NoClient => Held(BufferOf(f)) = Balance(f)
    /\ HandlesOpen

BInv == OneDescriptorEach /\ (AllUp => Accounts)

(* The buffers of two connections are two, and neither is in the pool.     *)
LEMMA Separate ==
    ASSUME IInv, NEW f \in Fds, fdOwner[f] # NoClient
    PROVE  /\ fdOwner[f] \in Clients /\ BufferOf(f) \in 1 .. Len(ring)
           /\ \A g \in Fds : (g # f /\ fdOwner[g] # NoClient) =>
                BufferOf(g) \in 1 .. Len(ring) /\ BufferOf(g) # BufferOf(f)
           /\ \A i \in 1 .. Len(m_pl) : m_pl[i] \in 1 .. Len(ring) /\ m_pl[i] # BufferOf(f)
<1>1. TypeOK /\ PoolInv /\ Buffers = 1 .. Len(ring)
  BY Types DEF IInv
<1>2. \A g \in Fds : fdOwner[g] # NoClient =>
        fdOwner[g] \in Clients /\ BufferOf(g) \in 1 .. Len(ring) /\ BufferOf(g) # 0
  BY <1>1, OpenHasBuffer DEF PoolInv, OwnersAreOpen, NoBuffer
<1>3. PICK buf, k, n : buf = BufferTable /\ k = Len(m_pl) /\ n = Len(ring)
  OBVIOUS
<1>4. Conserved(m_pl, k, n, Fds, buf) /\ \A g \in Fds : buf[g] = BufferOf(g)
  BY <1>1, <1>3 DEF PoolInv, BufferTable
<1>5. /\ \A g \in Fds : (g # f /\ buf[f] # 0) => buf[f] # buf[g]
      /\ \A i \in 1 .. k : m_pl[i] \in 1 .. n /\ buf[f] # m_pl[i]
  BY <1>4 DEF Conserved
<1> QED BY <1>2, <1>3, <1>4, <1>5

(* A step at one descriptor leaves the others' accounts alone.             *)
LEMMA AccountsFrom ==
    ASSUME Accounts, NEW f, PoolContents(m_pl', ring'), HandlesOpen',
           \A g \in Fds : (g # f /\ fdOwner'[g] # NoClient) =>
                /\ fdOwner'[g] = fdOwner[g]
                /\ m_connections'[g].buffer = BufferOf(g)
                /\ ring'[BufferOf(g)] = ring[BufferOf(g)]
                /\ sock'[fdOwner[g]].in = sock[fdOwner[g]].in
                /\ sock'[fdOwner[g]].out = sock[fdOwner[g]].out,
           (f \in Fds /\ fdOwner'[f] # NoClient) => Held(BufferOf(f))' = Balance(f)'
    PROVE  Accounts'
<1>1. ASSUME NEW g \in Fds, g # f, fdOwner'[g] # NoClient
      PROVE  Held(BufferOf(g))' = Balance(g)'
  <2>1. fdOwner'[g] = fdOwner[g] /\ fdOwner[g] # NoClient /\ BufferOf(g)' = BufferOf(g)
    BY <1>1 DEF BufferOf
  <2>2. Held(BufferOf(g))' = Held(BufferOf(g)) /\ Balance(g)' = Balance(g)
    BY <1>1, <2>1 DEF Held, Balance
  <2>3. Held(BufferOf(g)) = Balance(g)
    BY <2>1 DEF Accounts
  <2> QED BY <2>2, <2>3
<1> QED BY <1>1 DEF Accounts

(* The accounts see only what moves bytes, opens or closes.                *)
LEMMA AccountsSame ==
    ASSUME Accounts, UNCHANGED <<fdOwner, table>>, SameBytes, HandlesOpen',
           fdOwner \in [Fds -> Clients \cup {NoClient}]
    PROVE  Accounts'
<1>1. UNCHANGED <<m_connections, m_pl, ring, fdOwner>>
  BY DEF table
<1>2. PoolContents(m_pl', ring')
  BY <1>1 DEF Accounts
<1>3. \A g \in Fds : fdOwner[g] # NoClient => fdOwner[g] \in Clients
  OBVIOUS
<1>4. ASSUME NEW g \in Fds, fdOwner'[g] # NoClient
      PROVE  Held(BufferOf(g))' = Balance(g)'
  <2>1. Held(BufferOf(g)) = Balance(g)
    BY <1>1, <1>4 DEF Accounts
  <2>2. Held(BufferOf(g))' = Held(BufferOf(g)) /\ Balance(g)' = Balance(g)
    BY <1>1, <1>3, <1>4 DEF Held, BufferOf, Balance, SameBytes
  <2> QED BY <2>1, <2>2
<1> QED BY <1>2, <1>4 DEF Accounts

LEMMA ChunkPlace ==
    ASSUME thread \in Thread, NEW n, NEW chunk, NEW end, AfterChunk(n, chunk, end)
    PROVE  thread'.conn = thread.conn /\ thread'.pc \in {thread.pc, end}
<1>1. PICK l, p : /\ l = IF n < chunk THEN 0 ELSE thread.left - n
                  /\ p = IF n < chunk \/ thread.left = n THEN end ELSE thread.pc
  OBVIOUS
<1>2. thread' = [thread EXCEPT !.left = l, !.pc = p]
  BY <1>1 DEF AfterChunk
<1> QED BY <1>1, <1>2 DEF Thread

(* Where the handlers are after a step that moves no byte.                 *)
LEMMA QuietPlace ==
    ASSUME IInv, HandlesOpen,
           \/ EpollWait \/ EpollInterrupted \/ Stop \/ LeaveLoop \/ EndOfBatch
           \/ DispatchAccept \/ DispatchRead \/ DispatchWrite \/ AcceptEnds
           \/ AcceptFcntlFails \/ RecvAgain \/ SendAgain \/ Crash \/ PeerActs
           \/ Halted \/ UNCHANGED vars
    PROVE  HandlesOpen' /\ UNCHANGED <<fdOwner, table>>
<1>1. UNCHANGED <<fdOwner, table>>
  <2>1. CASE \/ EpollWait \/ EpollInterrupted \/ Stop \/ LeaveLoop \/ EndOfBatch
             \/ DispatchAccept
    BY <2>1 DEF EpollWait, EpollInterrupted, Stop, LeaveLoop, EndOfBatch, DispatchAccept,
                kernel, sockets
  <2>3. CASE DispatchRead \/ DispatchWrite
    BY <2>3, Zenon DEF DispatchRead, DispatchWrite, sockets
  <2>2. CASE \/ AcceptEnds \/ AcceptFcntlFails \/ RecvAgain \/ SendAgain \/ Crash
             \/ PeerActs \/ Halted \/ UNCHANGED vars
    BY <2>2 DEF AcceptEnds, AcceptFcntlFails, RecvAgain, SendAgain, Crash, PeerActs,
                PeerStep, Halted, vars, kernel, sockets
  <2> QED BY <2>1, <2>2, <2>3
<1>2. m_connections' = m_connections /\ fdOwner' = fdOwner /\ thread \in Thread
  BY <1>1, Types DEF table, IInv
<1>3. CASE thread'.pc \in {"wait", "dispatch", "accept", "stopped", "crashed"}
  BY <1>1, <1>3 DEF HandlesOpen, Handling
<1>4. CASE thread' = thread
  BY <1>1, <1>2, <1>4 DEF HandlesOpen, Handling, At, Gone
<1>5. CASE EpollWait \/ LeaveLoop \/ EndOfBatch \/ AcceptEnds \/ Crash
  <2>1. \/ Goto("dispatch") \/ Goto("stopped") \/ Goto("wait") \/ Goto("crashed")
    BY <1>5 DEF EpollWait, LeaveLoop, EndOfBatch, AcceptEnds, Crash
  <2> QED BY <1>1, <1>2, <1>3, <2>1 DEF Goto, Thread
<1>6. CASE DispatchAccept
  BY <1>1, <1>2, <1>3, <1>6 DEF DispatchAccept, Thread
<1>7. CASE AcceptFcntlFails
  BY <1>1, <1>2, <1>3, <1>7 DEF AcceptFcntlFails, Accepting, At, Goto, NextTurn, Thread
<1>8. CASE EpollInterrupted \/ Stop \/ PeerActs \/ Halted \/ UNCHANGED vars
  BY <1>1, <1>4, <1>8 DEF EpollInterrupted, Stop, PeerActs, Halted, vars
<1>9. CASE RecvAgain
  <2>1. thread'.conn = thread.conn /\ thread'.pc \in {"recv", "on_read"} /\ At("recv")
    BY <1>2, <1>9, ChunkPlace DEF RecvAgain, In, At
  <2> QED BY <1>1, <1>2, <2>1 DEF HandlesOpen, Handling, At, Gone
<1>10. CASE SendAgain
  <2>1. thread'.conn = thread.conn /\ thread'.pc \in {"send", "on_write"} /\ At("send")
    BY <1>2, <1>10, ChunkPlace DEF SendAgain, In, At
  <2> QED BY <1>1, <1>2, <2>1 DEF HandlesOpen, Handling, At, Gone
<1>11. CASE DispatchRead
  <2>1. PICK e \in m_events :
            /\ e.fd # Listen /\ "IN" \in e.ev
            /\ Dispatch(e)
            /\ LET b == BufferOf(e.fd)
               IN  thread' = [thread EXCEPT
                    !.pc = IF Held(b) = BufferSize THEN "on_read" ELSE "recv",
                    !.conn = e.fd, !.this = b, !.left = BufferSize - Held(b),
                    !.error = FALSE]
    BY <1>11, Zenon DEF DispatchRead
  <2>2. fdOwner[e.fd] # NoClient /\ m_connections[e.fd].state = "read"
    BY <2>1, EventOfConnection DEF Dispatch, IInv, EventsInv, EventsAreCurrent
  <2>3. thread'.pc \in {"on_read", "recv"} /\ thread'.conn = e.fd
    BY <1>2, <2>1 DEF Thread
  <2> QED BY <1>1, <1>2, <2>2, <2>3 DEF HandlesOpen, Handling, At, Gone
<1>12. CASE DispatchWrite
  <2>1. PICK e \in m_events :
            /\ e.fd # Listen /\ "IN" \notin e.ev /\ "OUT" \in e.ev
            /\ Dispatch(e)
            /\ LET b == BufferOf(e.fd)
               IN  thread' = [thread EXCEPT
                    !.pc = IF Held(b) = 0 THEN "on_write" ELSE "send",
                    !.conn = e.fd, !.this = b, !.left = Held(b)]
    BY <1>12, Zenon DEF DispatchWrite
  <2>2. fdOwner[e.fd] # NoClient /\ m_connections[e.fd].state = "write"
    BY <2>1, EventOfConnection DEF Dispatch, IInv, EventsInv, EventsAreCurrent
  <2>3. thread'.pc \in {"on_write", "send"} /\ thread'.conn = e.fd
    BY <1>2, <2>1 DEF Thread
  <2> QED BY <1>1, <1>2, <2>2, <2>3 DEF HandlesOpen, Handling, At, Gone
<1> QED BY <1>5, <1>6, <1>7, <1>8, <1>9, <1>10, <1>11, <1>12

(* Steps that move no byte, and apply no state.                            *)
LEMMA QuietDescriptors ==
    ASSUME IInv, OneDescriptorEach,
           \/ EpollWait \/ EpollInterrupted \/ Stop \/ LeaveLoop \/ EndOfBatch
           \/ DispatchAccept \/ DispatchRead \/ DispatchWrite \/ AcceptEnds
           \/ RecvAgain \/ SendAgain \/ Crash \/ PeerActs \/ Halted \/ UNCHANGED vars
    PROVE  /\ OneDescriptorEach' /\ SameBytes
           /\ \A c \in Clients : /\ \/ sock'[c].phase = sock[c].phase
                                    \/ sock[c].phase = "new" /\ sock'[c].phase = "queued"
                                 /\ sock'[c].peer = "up" => sock[c].peer = "up"
           /\ PeerActs \/ sock' = sock
<1>1. /\ sock \in [Clients -> Socket] /\ backlog \in Seq(Clients)
      /\ fdOwner \in [Fds -> Clients \cup {NoClient}]
  BY Types DEF IInv
<1>2. CASE PeerActs
  <2>1. PICK c \in Clients :
          /\ \/ Connects(c)
             \/ (Sends(c) \/ Reads(c) \/ Closes(c) \/ Resets(c)) /\ UNCHANGED backlog
          /\ fdOwner' = fdOwner
    BY <1>2 DEF PeerActs, PeerStep, Connect, PeerSend, PeerRead, PeerClose, PeerReset
  <2>2. /\ OneDescriptorEach' /\ SameBytes
    BY <1>1, <2>1, ClientDescriptors
  <2>3. \A d \in Clients : sock'[d].phase = IF Connects(c) /\ d = c THEN "queued"
                                            ELSE sock[d].phase
    BY <1>1, <2>1, ClientBytes
  <2>4. Connects(c) => sock[c].phase = "new"
    BY DEF Connects
  <2>5. \A d \in Clients : sock'[d].peer = "up" => sock[d].peer = "up"
    BY <1>1, <2>1, PeersOfClients
  <2> QED BY <1>2, <2>2, <2>3, <2>4, <2>5
<1>3. CASE UNCHANGED <<sock, backlog, fdOwner>>
  BY <1>3 DEF OneDescriptorEach, SameBytes
<1>4. CASE \/ EpollWait \/ EpollInterrupted \/ Stop \/ LeaveLoop \/ EndOfBatch
           \/ DispatchAccept \/ AcceptEnds
  BY <1>3, <1>4 DEF EpollWait, EpollInterrupted, Stop, LeaveLoop, EndOfBatch,
                    DispatchAccept, Dispatch, AcceptEnds, kernel, sockets
<1>5. CASE DispatchRead \/ DispatchWrite
  <2>1. UNCHANGED sockets
    BY <1>5, Zenon DEF DispatchRead, DispatchWrite
  <2>2. \E e \in m_events : Dispatch(e)
    BY <1>5, Zenon DEF DispatchRead, DispatchWrite
  <2> QED BY <1>3, <2>1, <2>2 DEF Dispatch, sockets
<1>6. CASE RecvAgain \/ SendAgain \/ Crash \/ Halted \/ UNCHANGED vars
  BY <1>3, <1>6 DEF RecvAgain, SendAgain, Crash, Halted, vars, kernel, sockets
<1> QED BY <1>2, <1>4, <1>5, <1>6

(* The first of the backlog is accepted, or closed at once.                *)
LEMMA AcceptedClient ==
    ASSUME IInv, OneDescriptorEach, AcceptFcntlFails \/ AcceptOne \/ AcceptRefused
    PROVE  /\ OneDescriptorEach' /\ SameBytes
           /\ Head(backlog) \in Clients /\ sock[Head(backlog)].phase = "queued"
           /\ sock[Head(backlog)].in = 0 /\ sock[Head(backlog)].out = 0
           /\ \A g \in Fds : fdOwner[g] # Head(backlog)
           /\ \A d \in Clients :
                /\ sock'[d].phase = IF d # Head(backlog) THEN sock[d].phase
                                    ELSE IF AcceptOne THEN "open" ELSE "closed"
                /\ sock'[d].peer = sock[d].peer
<1>1. /\ sock \in [Clients -> Socket] /\ backlog \in Seq(Clients)
      /\ fdOwner \in [Fds -> Clients \cup {NoClient}]
  BY Types DEF IInv
<1>2. backlog # <<>> /\ backlog' = Tail(backlog)
  BY DEF AcceptFcntlFails, AcceptOne, AcceptRefused
<1>3. CASE AcceptOne
  <2>1. PICK f \in FreeFds : /\ fdOwner' = [fdOwner EXCEPT ![f] = Head(backlog)]
                             /\ sock' = [sock EXCEPT ![Head(backlog)].phase = "open"]
    BY <1>3 DEF AcceptOne, Lowest
  <2>2. PICK phase \in {"open", "closed"} : phase = "open"
    OBVIOUS
  <2>3. /\ sock' = [sock EXCEPT ![Head(backlog)].phase = phase]
        /\ fdOwner' = IF phase = "open" THEN [fdOwner EXCEPT ![f] = Head(backlog)] ELSE fdOwner
    BY <2>1, <2>2
  <2>4. /\ OneDescriptorEach' /\ SameBytes
        /\ Head(backlog) \in Clients /\ sock[Head(backlog)].phase = "queued"
        /\ sock[Head(backlog)].in = 0 /\ sock[Head(backlog)].out = 0
        /\ \A g \in Fds : fdOwner[g] # Head(backlog)
        /\ \A d \in Clients : sock'[d].phase = IF d = Head(backlog) THEN phase
                                               ELSE sock[d].phase
    BY <1>1, <1>2, <2>3, AcceptDescriptors
  <2>5. \A d \in Clients : sock'[d].peer = sock[d].peer
    BY <1>1, <2>3, PhaseOnly
  <2> QED BY <1>3, <2>2, <2>4, <2>5
<1>4. CASE ~AcceptOne
  <2>1. /\ fdOwner' = fdOwner /\ FreeFds # {}
        /\ sock' = [sock EXCEPT ![Head(backlog)].phase = "closed"]
    BY <1>4 DEF AcceptFcntlFails, AcceptRefused
  <2>2. PICK f \in FreeFds : TRUE
    BY <2>1
  <2>3. PICK phase \in {"open", "closed"} : phase = "closed"
    OBVIOUS
  <2>4. /\ sock' = [sock EXCEPT ![Head(backlog)].phase = phase]
        /\ fdOwner' = IF phase = "open" THEN [fdOwner EXCEPT ![f] = Head(backlog)] ELSE fdOwner
    BY <2>1, <2>3
  <2>5. /\ OneDescriptorEach' /\ SameBytes
        /\ Head(backlog) \in Clients /\ sock[Head(backlog)].phase = "queued"
        /\ sock[Head(backlog)].in = 0 /\ sock[Head(backlog)].out = 0
        /\ \A g \in Fds : fdOwner[g] # Head(backlog)
        /\ \A d \in Clients : sock'[d].phase = IF d = Head(backlog) THEN phase
                                               ELSE sock[d].phase
    BY <1>1, <1>2, <2>4, AcceptDescriptors
  <2>6. \A d \in Clients : sock'[d].peer = sock[d].peer
    BY <1>1, <2>4, PhaseOnly
  <2> QED BY <1>4, <2>3, <2>5, <2>6
<1> QED BY <1>3, <1>4
-----------------------------------------------------------------------------
(* apply_state on the connection of f: it ends, or is in another state.    *)
Ends(f) ==
    /\ fdOwner' = [fdOwner EXCEPT ![f] = NoClient]
    /\ \A d \in Clients : sock'[d].phase = IF d = fdOwner[f] THEN "closed" ELSE sock[d].phase

GoesOn(f, state) ==
    /\ fdOwner' = fdOwner /\ \A d \in Clients : sock'[d].phase = sock[d].phase
    /\ m_connections'[f].state = state

LEMMA AppliedState ==
    ASSUME IInv, OneDescriptorEach, NEW f \in Fds, fdOwner[f] # NoClient,
           NEW state \in States, ApplyState(f, state), backlog' = backlog
    PROVE  /\ OneDescriptorEach' /\ SameBytes
           /\ \A g \in Fds : g # f => m_connections'[g] = m_connections[g]
           /\ \A c \in Clients : sock'[c].peer = sock[c].peer
           /\ state = "die" => Ends(f) /\ m_pl' = Append(m_pl, BufferOf(f))
           /\ state # "die" => /\ GoesOn(f, state) /\ m_pl' = m_pl
                               /\ m_connections'[f].buffer = BufferOf(f)
<1>1. /\ sock \in [Clients -> Socket] /\ backlog \in Seq(Clients)
      /\ fdOwner \in [Fds -> Clients \cup {NoClient}]
      /\ m_connections \in [Fds -> [state : States, buffer : Buffers \cup {NoBuffer}]]
  BY Types DEF IInv
<1>2. CASE state = "die"
  <2>1. /\ sock' = [sock EXCEPT ![fdOwner[f]].phase = "closed"]
        /\ fdOwner' = [fdOwner EXCEPT ![f] = NoClient]
        /\ m_pl' = Append(m_pl, BufferOf(f))
        /\ m_connections' = [m_connections EXCEPT ![f].buffer = NoBuffer]
    BY <1>2 DEF ApplyState, RemoveConnection, Close, Redeem
  <2>2. /\ OneDescriptorEach' /\ SameBytes
        /\ \A d \in Clients : sock'[d].phase = IF d = fdOwner[f] THEN "closed"
                                               ELSE sock[d].phase
    BY <1>1, <2>1, CloseDescriptors
  <2>3. \A c \in Clients : sock'[c].peer = sock[c].peer
    BY <1>1, <2>1, PhaseOnly
  <2>4. \A g \in Fds : g # f => m_connections'[g] = m_connections[g]
    BY <1>1, <2>1
  <2> QED BY <1>2, <2>1, <2>2, <2>3, <2>4 DEF Ends
<1>3. CASE state # "die"
  <2>1. /\ sock' = sock /\ fdOwner' = fdOwner /\ m_pl' = m_pl
        /\ m_connections' = [m_connections EXCEPT ![f].state = state]
    BY <1>3 DEF ApplyState
  <2>2. OneDescriptorEach' /\ SameBytes
    BY <2>1 DEF OneDescriptorEach, SameBytes
  <2>3. /\ m_connections'[f].state = state /\ m_connections'[f].buffer = BufferOf(f)
        /\ \A g \in Fds : g # f => m_connections'[g] = m_connections[g]
    BY <1>1, <2>1 DEF BufferOf
  <2> QED BY <1>3, <2>1, <2>2, <2>3 DEF GoesOn
<1> QED BY <1>2, <1>3

LEMMA AppliedAccounts ==
    ASSUME IInv, OneDescriptorEach, Accounts, NEW f \in Fds, fdOwner[f] # NoClient,
           NEW state \in States, ApplyState(f, state), backlog' = backlog,
           ring' = RingAfter(f, state), HandlesOpen'
    PROVE  Accounts'
<1>1. /\ SameBytes
      /\ \A g \in Fds : g # f => m_connections'[g] = m_connections[g]
      /\ state = "die" => Ends(f) /\ m_pl' = Append(m_pl, BufferOf(f))
      /\ state # "die" => /\ GoesOn(f, state) /\ m_pl' = m_pl
                          /\ m_connections'[f].buffer = BufferOf(f)
  BY AppliedState
<1>2. /\ fdOwner \in [Fds -> Clients \cup {NoClient}]
      /\ ring \in Seq(CounterPair) /\ m_pl \in Seq(1 .. Len(ring))
      /\ PoolContents(m_pl, ring)
  BY Types DEF IInv, Accounts
<1>3. /\ BufferOf(f) \in 1 .. Len(ring)
      /\ \A g \in Fds : (g # f /\ fdOwner[g] # NoClient) =>
           BufferOf(g) \in 1 .. Len(ring) /\ BufferOf(g) # BufferOf(f)
  BY Separate
<1>4. CASE state = "die"
  <2>1. PICK b \in 1 .. Len(ring) : b = BufferOf(f)
    BY <1>3
  <2>2. PICK p, s : p = m_pl' /\ s = ring'
    OBVIOUS
  <2>3. p = Append(m_pl, b) /\ s = [ring EXCEPT ![b] = EmptyRing]
    BY <1>1, <1>4, <2>1, <2>2 DEF RingAfter, AfterReset
  <2>4. PoolContents(p, s)
    BY <1>2, <2>3, ContentsRedeemed
  <2>5. \A d \in 1 .. Len(ring) : d # b => s[d] = ring[d]
    BY <1>2, <2>3, RingEmptied
  <2>6. /\ fdOwner'[f] = NoClient
        /\ \A g \in Fds : g # f => fdOwner'[g] = fdOwner[g]
    BY <1>1, <1>2, <1>4 DEF Ends
  <2>7. ASSUME NEW g \in Fds, g # f, fdOwner'[g] # NoClient
        PROVE  /\ fdOwner'[g] = fdOwner[g] /\ m_connections'[g].buffer = BufferOf(g)
               /\ ring'[BufferOf(g)] = ring[BufferOf(g)]
               /\ sock'[fdOwner[g]].in = sock[fdOwner[g]].in
               /\ sock'[fdOwner[g]].out = sock[fdOwner[g]].out
    BY <1>1, <1>2, <1>3, <2>1, <2>2, <2>5, <2>6, <2>7 DEF SameBytes, BufferOf
  <2>8. PoolContents(m_pl', ring')
    BY <2>2, <2>4
  <2> QED BY <2>6, <2>7, <2>8, AccountsFrom
<1>5. CASE state # "die"
  <2>1. ring' = ring /\ m_pl' = m_pl /\ fdOwner' = fdOwner
    BY <1>1, <1>5 DEF RingAfter, GoesOn
  <2>2. ASSUME NEW g \in Fds, fdOwner'[g] # NoClient
        PROVE  /\ fdOwner'[g] = fdOwner[g] /\ m_connections'[g].buffer = BufferOf(g)
               /\ sock'[fdOwner[g]].in = sock[fdOwner[g]].in
               /\ sock'[fdOwner[g]].out = sock[fdOwner[g]].out
    BY <1>1, <1>2, <1>5, <2>1, <2>2 DEF SameBytes, BufferOf
  <2>3. Held(BufferOf(f))' = Balance(f)'
    <3>1. Held(BufferOf(f))' = Held(BufferOf(f)) /\ Balance(f)' = Balance(f)
      BY <2>1, <2>2 DEF Held, BufferOf, Balance
    <3> QED BY <3>1 DEF Accounts
  <2>4. PoolContents(m_pl', ring')
    BY <1>2, <2>1
  <2> QED BY <2>1, <2>2, <2>3, <2>4, AccountsFrom
<1> QED BY <1>4, <1>5

(* Bytes move.                                                             *)
LEMMA MovedDescriptors ==
    ASSUME IInv, OneDescriptorEach, NEW x, NEW y, Moves(x, y)
    PROVE  /\ OneDescriptorEach'
           /\ \A c \in Clients : sock'[c].peer = sock[c].peer
<1>1. thread.conn \in Fds /\ fdOwner[thread.conn] # NoClient
  BY InHandler DEF Moves, Handling, At, Gone
<1>2. /\ fdOwner \in [Fds -> Clients \cup {NoClient}] /\ backlog \in Seq(Clients)
      /\ UNCHANGED <<fdOwner, backlog>>
      /\ \A c \in Clients : /\ sock'[c].phase = sock[c].phase /\ sock'[c].peer = sock[c].peer
                            /\ c # Client => sock'[c] = sock[c]
  BY Types DEF IInv, Moves
<1>3. sock[Client].phase = "open"
  BY <1>1 DEF OneDescriptorEach, Client
<1> QED BY <1>2, <1>3, DescriptorsKept

LEMMA MovedAccounts ==
    ASSUME IInv, OneDescriptorEach, Accounts, NEW x \in Nat, NEW y \in Nat, Moves(x, y)
    PROVE  OneDescriptorEach' /\ Accounts'
<1>0. PICK f : f = thread.conn
  OBVIOUS
<1>1. Handling /\ ~Gone
  BY DEF Moves, Handling, At
<1>2. /\ f \in Fds /\ fdOwner[f] \in Clients /\ fdOwner[f] # NoClient
      /\ thread.this = BufferOf(f) /\ thread.this \in 1 .. Len(ring)
      /\ Held(thread.this) \in Nat
  BY <1>0, <1>1, InHandler DEF Gone
<1>3. /\ fdOwner \in [Fds -> Clients \cup {NoClient}]
      /\ backlog \in Seq(Clients) /\ sock \in [Clients -> Socket]
      /\ BufferSize \in Nat /\ PoolContents(m_pl, ring)
  BY Types, CounterFacts DEF IInv, Accounts
<1>4. /\ UNCHANGED <<fdOwner, backlog, m_connections, m_pl>>
      /\ thread'.conn = thread.conn /\ Len(ring') = Len(ring)
      /\ \A b \in 1 .. Len(ring) : b # thread.this => ring'[b] = ring[b]
      /\ Count(ring'[thread.this].head, ring'[thread.this].tail)
            = (Held(thread.this) + x) - y
      /\ sock'[Client].in = sock[Client].in + x /\ sock'[Client].out = sock[Client].out + y
      /\ \A c \in Clients : /\ sock'[c].phase = sock[c].phase
                            /\ c # Client => sock'[c] = sock[c]
      /\ Client = fdOwner[f]
  BY <1>0 DEF Moves, Client
<1>5. OneDescriptorEach'
  BY MovedDescriptors
<1>6. PICK k \in Nat, i \in Nat, o \in Nat :
        /\ k = Held(thread.this) /\ i = sock[Client].in /\ o = sock[Client].out
        /\ k = i - o
  <2>1. sock[Client].in \in Nat /\ sock[Client].out \in Nat
    BY <1>2, <1>3, <1>4, SocketCounts
  <2>2. Held(thread.this) = sock[Client].in - sock[Client].out
    BY <1>2, <1>4 DEF Accounts, Balance
  <2> QED BY <1>2, <2>1, <2>2
<1>7. PoolContents(m_pl', ring')
  <2>1. Count(ring'[thread.this].head, ring'[thread.this].tail) <= BufferSize
    <3>1. k <= BufferSize
      BY <1>1, <1>2, <1>6, InHandler
    <3>2. (y = 0 /\ k + x <= BufferSize) \/ (x = 0 /\ y <= k)
      BY <1>6 DEF Moves
    <3>3. (k + x) - y <= BufferSize
      BY <1>3, <3>1, <3>2
    <3> QED BY <1>4, <1>6, <3>3
  <2>2. \A j \in 1 .. Len(m_pl) : m_pl[j] \in 1 .. Len(ring) /\ m_pl[j] # thread.this
    BY <1>2, Separate
  <2>3. PICK b, s : b = thread.this /\ s = ring'
    OBVIOUS
  <2>4. /\ Len(s) = Len(ring) /\ \A d \in 1 .. Len(ring) : d # b => s[d] = ring[d]
        /\ Count(s[b].head, s[b].tail) <= BufferSize
        /\ \A j \in 1 .. Len(m_pl) : m_pl[j] \in 1 .. Len(ring) /\ m_pl[j] # b
    BY <1>4, <2>1, <2>2, <2>3
  <2>5. PoolContents(m_pl, s)
    BY <1>3, <2>4, ContentsMoved
  <2> QED BY <1>4, <2>3, <2>5
<1>8. HandlesOpen'
  <2>1. ~Gone' /\ Handling
    BY <1>0, <1>1, <1>4 DEF Gone
  <2>2. \/ At("recv") /\ thread'.pc \in {"recv", "on_read"}
        \/ At("send") /\ thread'.pc \in {"send", "on_write"}
    BY DEF Moves
  <2> QED BY <1>4, <2>1, <2>2 DEF Accounts, HandlesOpen, At
<1>9. Held(BufferOf(f))' = Balance(f)'
  <2>1. Held(BufferOf(f))' = (k + x) - y
    BY <1>2, <1>4, <1>6 DEF Held, BufferOf
  <2>2. Balance(f)' = (i + x) - (o + y)
    BY <1>4, <1>6 DEF Balance
  <2>3. (k + x) - y = (i + x) - (o + y)
    BY <1>6
  <2> QED BY <2>1, <2>2, <2>3
<1>10. ASSUME NEW g \in Fds, g # f, fdOwner'[g] # NoClient
       PROVE  /\ fdOwner'[g] = fdOwner[g] /\ m_connections'[g].buffer = BufferOf(g)
              /\ ring'[BufferOf(g)] = ring[BufferOf(g)]
              /\ sock'[fdOwner[g]].in = sock[fdOwner[g]].in
              /\ sock'[fdOwner[g]].out = sock[fdOwner[g]].out
  <2>1. fdOwner[g] # NoClient /\ fdOwner[g] \in Clients
    BY <1>3, <1>4, <1>10
  <2>2. BufferOf(g) \in 1 .. Len(ring) /\ BufferOf(g) # thread.this
    BY <1>2, <1>10, <2>1, Separate
  <2>3. fdOwner[g] # Client
    BY <1>2, <1>4, <1>10, <2>1 DEF OneDescriptorEach
  <2> QED BY <1>4, <2>1, <2>2, <2>3 DEF BufferOf
<1>11. Accounts'
  BY <1>7, <1>8, <1>9, <1>10, AccountsFrom
<1> QED BY <1>5, <1>11

(* A client is given a descriptor: its connection is in the state that     *)
(* on_connect answered, its buffer is empty.                               *)
Opens(f, state) ==
    /\ fdOwner[f] = NoClient /\ fdOwner'[f] = Head(backlog)
    /\ m_connections'[f].state = state
    /\ \A g \in Fds : g # f => /\ fdOwner'[g] = fdOwner[g]
                               /\ m_connections'[g] = m_connections[g]

LEMMA AcceptOneAccounts ==
    ASSUME IInv, OneDescriptorEach, Accounts, AcceptOne
    PROVE  Accounts' /\ \E f \in Fds, state \in States \ {"die"} : Opens(f, state)
<1>1. PICK c \in Clients : c = Head(backlog)
  BY AcceptedClient
<1>2. PICK f \in Fds, state \in OnConnect \ {"die"} :
        /\ Lowest(f)
        /\ m_pl' = PoolWithout
        /\ ring' = RingWithNew
        /\ m_connections' = [m_connections EXCEPT
                ![f] = [state |-> state, buffer |-> Allocated]]
        /\ fdOwner' = [fdOwner EXCEPT ![f] = c]
  BY <1>1 DEF AcceptOne
<1>3. fdOwner[f] = NoClient /\ state \in States \ {"die"}
  BY <1>2, LoopAssumption DEF Lowest, FreeFds
<1>4. /\ \A b \in 1 .. Len(ring) : ring'[b] = ring[b]
      /\ fdOwner'[f] = c /\ m_connections'[f].state = state
      /\ \A g \in Fds : g # f => /\ fdOwner'[g] = fdOwner[g]
                                 /\ m_connections'[g] = m_connections[g]
  <2>1. TypeOK /\ PoolInv
    BY DEF IInv
  <2>2. state \in States
    BY <1>3
  <2> QED BY <1>2, <1>3, <2>1, <2>2, PushKeeps
<1>5. PoolContents(m_pl', ring') /\ ring'[Allocated] = EmptyRing
  <2>1. PoolTypeOK /\ PoolContents(m_pl, ring)
    BY Types DEF IInv, Accounts
  <2>2. PoolContents(PoolWithout, RingWithNew) /\ RingWithNew[Allocated] = EmptyRing
    BY <2>1, ContentsAllocated
  <2> QED BY <1>2, <2>2
<1>6. m_connections'[f].buffer = Allocated
  BY <1>2, Types DEF IInv
<1>7. /\ SameBytes /\ sock[c].in = 0 /\ sock[c].out = 0
  BY <1>1, AcceptedClient
<1>8. Held(BufferOf(f))' = Balance(f)'
  <2>1. Held(BufferOf(f))' = 0
    BY <1>5, <1>6, EmptyHoldsNothing DEF Held, BufferOf
  <2>2. sock'[c].in = 0 /\ sock'[c].out = 0
    BY <1>7 DEF SameBytes
  <2>3. Balance(f)' = 0
    BY <1>4, <2>2 DEF Balance
  <2> QED BY <2>1, <2>3
<1>9. ASSUME NEW g \in Fds, g # f, fdOwner'[g] # NoClient
      PROVE  /\ fdOwner'[g] = fdOwner[g] /\ m_connections'[g].buffer = BufferOf(g)
             /\ ring'[BufferOf(g)] = ring[BufferOf(g)]
             /\ sock'[fdOwner[g]].in = sock[fdOwner[g]].in
             /\ sock'[fdOwner[g]].out = sock[fdOwner[g]].out
  <2>1. fdOwner[g] # NoClient
    BY <1>4, <1>9
  <2>2. fdOwner[g] \in Clients /\ BufferOf(g) \in 1 .. Len(ring)
    BY <2>1, Separate
  <2> QED BY <1>4, <1>7, <1>9, <2>2 DEF SameBytes, BufferOf
<1>10. HandlesOpen'
  <2>1. thread \in Thread /\ Accepting /\ NextTurn
    BY Types DEF AcceptOne, IInv
  <2>2. thread'.pc = "accept"
    BY <2>1, NextTurnType
  <2> QED BY <2>2 DEF HandlesOpen, Handling
<1>11. Accounts'
  BY <1>5, <1>8, <1>9, <1>10, AccountsFrom
<1> QED BY <1>1, <1>3, <1>4, <1>11 DEF Opens

LEMMA AcceptRefusedAccounts ==
    ASSUME IInv, OneDescriptorEach, Accounts, AcceptRefused
    PROVE  Accounts' /\ UNCHANGED <<fdOwner, m_connections>>
<1>1. /\ Accepting /\ NextTurn
      /\ m_pl' = Append(PoolWithout, Allocated)
      /\ ring' = [RingWithNew EXCEPT ![Allocated] = EmptyRing]
      /\ UNCHANGED <<fdOwner, m_connections>>
  BY DEF AcceptRefused
<1>2. PoolTypeOK /\ PoolContents(m_pl, ring) /\ thread \in Thread
  BY Types DEF IInv, Accounts
<1>3. PoolContents(m_pl', ring')
  BY <1>1, <1>2, ContentsRefused
<1>4. \A g \in Fds : fdOwner[g] # NoClient => ring'[BufferOf(g)] = ring[BufferOf(g)]
  <2>1. PICK u : u = BufferTable
    OBVIOUS
  <2>2. Conserved(m_pl, Len(m_pl), Len(ring), Fds, u)
    BY <2>1 DEF IInv, PoolInv
  <2>3. /\ m_pl' = Append(PoolWithout, Allocated)
        /\ ring' = [RingWithNew EXCEPT ![Allocated] = EmptyRing]
    BY <1>1
  <2>4. \A g \in Fds : u[g] # 0 => ring'[u[g]] = ring[u[g]]
    BY <1>2, <2>2, <2>3, RefusedBuffer
  <2>5. \A g \in Fds : u[g] = BufferOf(g) /\ (fdOwner[g] # NoClient => u[g] # 0)
    BY <2>1 DEF IInv, PoolInv, OwnersAreOpen, BufferTable, NoBuffer
  <2> QED BY <2>4, <2>5
<1>5. SameBytes /\ \A g \in Fds : fdOwner[g] # NoClient => fdOwner[g] \in Clients
  BY AcceptedClient, Types DEF IInv
<1>6. HandlesOpen'
  <2>1. thread'.pc = "accept"
    BY <1>1, <1>2, NextTurnType
  <2> QED BY <2>1 DEF HandlesOpen, Handling
<1>7. ASSUME NEW g \in Fds, fdOwner'[g] # NoClient
      PROVE  Held(BufferOf(g))' = Balance(g)'
  <2>1. Held(BufferOf(g)) = Balance(g)
    BY <1>1, <1>7 DEF Accounts
  <2>2. Held(BufferOf(g))' = Held(BufferOf(g)) /\ Balance(g)' = Balance(g)
    BY <1>1, <1>4, <1>5, <1>7 DEF Held, BufferOf, Balance, SameBytes
  <2> QED BY <2>1, <2>2
<1> QED BY <1>1, <1>3, <1>6, <1>7 DEF Accounts

(* A callback is asked, and what it answers is applied.                    *)
Asked(state) ==
    /\ Handling /\ ~Gone
    /\ (At("on_read") /\ Held(thread.this) # 0) \/ (At("on_write") /\ Held(thread.this) = 0)
    /\ ApplyState(thread.conn, state) /\ ring' = RingAfter(thread.conn, state)

LEMMA AskedStep ==
    ASSUME IInv, OnReadStep \/ OnWriteStep
    PROVE  /\ backlog' = backlog /\ thread'.pc = "dispatch"
           /\ UNCHANGED <<sockets, table>> \/ \E state \in States \ {"idle"} : Asked(state)
<1>1. Goto("dispatch") /\ backlog' = backlog /\ thread \in Thread
  BY Types DEF OnReadStep, OnWriteStep, IInv
<1>2. thread'.pc = "dispatch"
  BY <1>1 DEF Goto, Thread
<1>3. CASE OnReadStep
  <2>1. CASE ~thread.error /\ Held(thread.this) # 0
    <3>1. Ask(OnRead) /\ At("on_read")
      BY <1>3, <2>1 DEF OnReadStep
    <3>2. Handling /\ ~Gone
      BY <2>1, <3>1 DEF IInv, HandlerInv, Handling, At
    <3> QED BY <1>1, <1>2, <2>1, <3>1, <3>2, LoopAssumption DEF Ask, Asked
  <2>2. CASE ~(~thread.error /\ Held(thread.this) # 0)
    BY <1>1, <1>2, <1>3, <2>2 DEF OnReadStep
  <2> QED BY <2>1, <2>2
<1>4. CASE OnWriteStep
  <2>1. CASE Held(thread.this) = 0
    <3>1. Ask(OnWrite) /\ At("on_write") /\ BufferOf(thread.conn) # NoBuffer
      BY <1>4, <2>1 DEF OnWriteStep
    <3>2. Handling /\ thread.conn \in Fds
      BY <3>1 DEF IInv, HandlerInv, Handling, At
    <3>3. ~Gone
      BY <3>1, <3>2 DEF IInv, PoolInv, OwnersAreOpen, Gone
    <3> QED BY <1>1, <1>2, <2>1, <3>1, <3>2, <3>3, LoopAssumption DEF Ask, Asked
  <2>2. CASE Held(thread.this) # 0
    BY <1>1, <1>2, <1>4, <2>2 DEF OnWriteStep
  <2> QED BY <2>1, <2>2
<1> QED BY <1>3, <1>4

(* What apply_state does to the connections.                               *)
Answers(f, state) ==
    /\ fdOwner[f] # NoClient
    /\ \A g \in Fds : g # f => m_connections'[g] = m_connections[g]
    /\ state = "die" => Ends(f)
    /\ state # "die" => GoesOn(f, state)

LEMMA AskedDescriptors ==
    ASSUME IInv, OneDescriptorEach, OnReadStep \/ OnWriteStep
    PROVE  /\ OneDescriptorEach' /\ SameBytes
           /\ \A c \in Clients : sock'[c].peer = sock[c].peer
           /\ Accounts => Accounts'
           /\ \A state \in States : Asked(state) => Answers(thread.conn, state)
<1>1. /\ backlog' = backlog /\ thread'.pc = "dispatch"
      /\ UNCHANGED <<sockets, table>> \/ \E state \in States \ {"idle"} : Asked(state)
  BY AskedStep
<1>2. HandlesOpen'
  BY <1>1 DEF HandlesOpen, Handling
<1>3. ASSUME NEW state \in States, Asked(state)
      PROVE  /\ OneDescriptorEach' /\ SameBytes
             /\ \A c \in Clients : sock'[c].peer = sock[c].peer
             /\ Accounts => Accounts'
             /\ Answers(thread.conn, state)
  <2>1. thread.conn \in Fds /\ fdOwner[thread.conn] # NoClient
    BY <1>3, InHandler DEF Asked, Gone
  <2>2. PICK f \in Fds : f = thread.conn /\ fdOwner[f] # NoClient
    BY <2>1
  <2>3. ApplyState(f, state) /\ ring' = RingAfter(f, state)
    BY <1>3, <2>2 DEF Asked
  <2>4. /\ OneDescriptorEach' /\ SameBytes
        /\ \A g \in Fds : g # f => m_connections'[g] = m_connections[g]
        /\ \A c \in Clients : sock'[c].peer = sock[c].peer
        /\ state = "die" => Ends(f)
        /\ state # "die" => GoesOn(f, state)
    BY <1>1, <2>2, <2>3, AppliedState
  <2>5. ASSUME Accounts PROVE Accounts'
    BY <1>1, <1>2, <2>2, <2>3, <2>5, AppliedAccounts
  <2> QED BY <2>2, <2>4, <2>5 DEF Answers
<1>4. CASE UNCHANGED <<sockets, table>>
  <2>1. UNCHANGED <<sock, fdOwner, table>>
    BY <1>4 DEF sockets
  <2>2. OneDescriptorEach' /\ SameBytes
    BY <1>1, <2>1 DEF OneDescriptorEach, SameBytes
  <2>3. Accounts => Accounts'
    BY <1>2, <2>1, <2>2, AccountsSame, Types DEF IInv
  <2> QED BY <1>3, <2>1, <2>2, <2>3
<1> QED BY <1>1, <1>3, <1>4

LEMMA HangupAccounts ==
    ASSUME IInv, OneDescriptorEach, DispatchHangup
    PROVE  /\ OneDescriptorEach' /\ SameBytes
           /\ \A c \in Clients : sock'[c].peer = sock[c].peer
           /\ Accounts => Accounts'
           /\ \E f \in Fds : Answers(f, "die")
<1>1. PICK e \in m_events :
        /\ e.fd # Listen /\ Dispatch(e) /\ RemoveConnection(e.fd)
        /\ ring' = AfterReset(BufferOf(e.fd)) /\ UNCHANGED thread
  BY DEF DispatchHangup
<1>2. At("dispatch") /\ backlog' = backlog
  BY <1>1 DEF Dispatch
<1>3. PICK f \in Fds, state \in States : f = e.fd /\ fdOwner[f] # NoClient /\ state = "die"
  BY <1>1, <1>2, EventOfConnection DEF States
<1>4. ApplyState(f, state) /\ ring' = RingAfter(f, state)
  BY <1>1, <1>3 DEF ApplyState, RingAfter
<1>5. /\ OneDescriptorEach' /\ SameBytes
      /\ \A g \in Fds : g # f => m_connections'[g] = m_connections[g]
      /\ \A c \in Clients : sock'[c].peer = sock[c].peer
      /\ state = "die" => Ends(f)
  BY <1>2, <1>3, <1>4, AppliedState
<1>6. HandlesOpen'
  BY <1>1, <1>2 DEF HandlesOpen, Handling, At
<1>7. ASSUME Accounts PROVE Accounts'
  BY <1>2, <1>3, <1>4, <1>6, <1>7, AppliedAccounts
<1> QED BY <1>3, <1>5, <1>7 DEF Answers

(* A receive or a send fails on the connection of a client that is down.   *)
LEMMA FailedDescriptors ==
    ASSUME IInv, OneDescriptorEach, RecvFails \/ SendFails
    PROVE  /\ OneDescriptorEach'
           /\ \A c \in Clients : sock'[c].peer = sock[c].peer
           /\ ~AllUp
<1>1. Handling /\ ~Gone /\ backlog' = backlog
  BY DEF RecvFails, SendFails, In, Handling, At, Gone, Client
<1>2. PICK f \in Fds : f = thread.conn /\ fdOwner[f] \in Clients /\ fdOwner[f] # NoClient
  BY <1>1, InHandler DEF Gone
<1>3. PICK state \in States : ApplyState(f, state)
  BY <1>2, LoopAssumption DEF RecvFails, SendFails
<1>4. OneDescriptorEach' /\ \A c \in Clients : sock'[c].peer = sock[c].peer
  BY <1>1, <1>2, <1>3, AppliedState
<1>5. sock[fdOwner[f]].peer # "up"
  BY <1>2 DEF RecvFails, SendFails, Client, RecvReset, AtEnd, SendBroken
<1> QED BY <1>2, <1>4, <1>5 DEF AllUp
-----------------------------------------------------------------------------
(* The steps, by what they do to the connections and their bytes.          *)
Quiet ==
    \/ EpollWait \/ EpollInterrupted \/ Stop \/ LeaveLoop \/ EndOfBatch
    \/ DispatchAccept \/ DispatchRead \/ DispatchWrite \/ AcceptEnds
    \/ RecvAgain \/ SendAgain \/ Crash \/ PeerActs \/ Halted \/ UNCHANGED vars

LEMMA Steps ==
    ASSUME [Next]_vars
    PROVE  \/ Quiet \/ AcceptFcntlFails \/ AcceptOne \/ AcceptRefused
           \/ RecvSome \/ SendSome \/ OnReadStep \/ OnWriteStep \/ DispatchHangup
           \/ RecvFails \/ SendFails
  BY DEF Next, LoopStep, Quiet

LEMMA QuietAccounts ==
    ASSUME IInv, OneDescriptorEach, Accounts, Quiet \/ AcceptFcntlFails
    PROVE  Accounts' /\ UNCHANGED <<fdOwner, table>>
<1>1. HandlesOpen' /\ UNCHANGED <<fdOwner, table>>
  BY QuietPlace DEF Quiet, Accounts
<1>2. SameBytes
  BY QuietDescriptors, AcceptedClient DEF Quiet
<1> QED BY <1>1, <1>2, AccountsSame, Types DEF IInv

LEMMA SomeMove ==
    ASSUME IInv, RecvSome \/ SendSome
    PROVE  \E x \in Nat, y \in Nat : Moves(x, y) /\ (RecvSome => y = 0) /\ (SendSome => x = 0)
<1>1. CASE RecvSome
  <2>1. PICK n \in Nat : Moves(n, 0)
    BY <1>1, RecvStep
  <2>2. ~SendSome
    BY <1>1 DEF RecvSome, SendSome, In, At
  <2> QED BY <2>1, <2>2
<1>2. CASE SendSome
  <2>1. PICK n \in Nat : Moves(0, n)
    BY <1>2, SendStep
  <2>2. ~RecvSome
    BY <1>2 DEF RecvSome, SendSome, In, At
  <2> QED BY <2>1, <2>2
<1> QED BY <1>1, <1>2

(* Every step keeps the account, as long as the clients are up.            *)
LEMMA BytesKept ==
    ASSUME IInv, OneDescriptorEach, [Next]_vars
    PROVE  /\ OneDescriptorEach'
           /\ \A c \in Clients : sock'[c].peer = "up" => sock[c].peer = "up"
           /\ (Accounts /\ AllUp) => Accounts'
<1>1. CASE Quiet
  BY <1>1, QuietDescriptors, QuietAccounts DEF Quiet
<1>2. CASE AcceptFcntlFails \/ AcceptOne \/ AcceptRefused
  BY <1>2, AcceptedClient, QuietAccounts, AcceptOneAccounts, AcceptRefusedAccounts
<1>3. CASE RecvSome \/ SendSome
  <2>1. PICK x \in Nat, y \in Nat : Moves(x, y)
    BY <1>3, SomeMove
  <2> QED BY <2>1, MovedDescriptors, MovedAccounts
<1>4. CASE OnReadStep \/ OnWriteStep
  BY <1>4, AskedDescriptors
<1>5. CASE DispatchHangup
  BY <1>5, HangupAccounts
<1>6. CASE RecvFails \/ SendFails
  BY <1>6, FailedDescriptors
<1> QED BY <1>1, <1>2, <1>3, <1>4, <1>5, <1>6, Steps

LEMMA InitialAccounts ==
    ASSUME Init
    PROVE  BInv
<1>1. OneDescriptorEach /\ PoolContents(m_pl, ring)
  BY DescriptorsInit, ContentsInit DEF Init, EpollInit
<1>2. \A f \in Fds : fdOwner[f] = NoClient
  BY DEF Init, EpollInit, SocketsInit
<1>3. HandlesOpen
  BY DEF Init, HandlesOpen, Handling
<1> QED BY <1>1, <1>2, <1>3 DEF BInv, Accounts

LEMMA BytesInvariant == Spec => [](IInv /\ BInv)
<1>1. Init => BInv
  BY InitialAccounts
<1>2. IInv /\ BInv /\ [Next]_vars => BInv'
  <2> SUFFICES ASSUME IInv, BInv, [Next]_vars PROVE BInv'
    OBVIOUS
  <2>1. /\ OneDescriptorEach'
        /\ \A c \in Clients : sock'[c].peer = "up" => sock[c].peer = "up"
        /\ (Accounts /\ AllUp) => Accounts'
    BY BytesKept DEF BInv
  <2>2. AllUp' => AllUp
    BY <2>1 DEF AllUp
  <2> QED BY <2>1, <2>2 DEF BInv
<1> QED BY <1>1, <1>2, Invariance, PTL DEF Spec

(* No byte is lost, invented or taken from another client, whatever the    *)
(* callbacks answer and however connections share descriptors and buffers, *)
(* until a client is down.                                                 *)
THEOREM BytesUntilDown == Spec => [](AllUp => ByteAccount)
<1>1. BInv => (AllUp => ByteAccount)
  BY DEF BInv, Accounts, ByteAccount, Balance
<1> QED BY <1>1, BytesInvariant, PTL

(* When clients neither close nor reset, that is for ever.                 *)
LEMMA StayUp ==
    ASSUME IInv, OneDescriptorEach, AllUp, [Next]_vars, {"fin", "rst"} \cap Faults = {}
    PROVE  AllUp'
<1>1. CASE PeerActs
  <2>1. PICK c \in Clients : Connects(c) \/ Sends(c) \/ Reads(c) \/ Closes(c) \/ Resets(c)
    BY <1>1 DEF PeerActs, PeerStep, Connect, PeerSend, PeerRead, PeerClose, PeerReset
  <2> QED BY <2>1, ClientsStayUp, Types DEF AllUp, IInv
<1>2. CASE Quiet /\ ~PeerActs
  <2>1. sock' = sock
    BY <1>2, QuietDescriptors DEF Quiet
  <2> QED BY <2>1 DEF AllUp
<1>3. CASE AcceptFcntlFails \/ AcceptOne \/ AcceptRefused
  BY <1>3, AcceptedClient DEF AllUp
<1>4. CASE RecvSome \/ SendSome
  <2>1. PICK x \in Nat, y \in Nat : Moves(x, y)
    BY <1>4, SomeMove
  <2> QED BY <2>1, MovedDescriptors DEF AllUp
<1>5. CASE OnReadStep \/ OnWriteStep \/ DispatchHangup \/ RecvFails \/ SendFails
  BY <1>5, AskedDescriptors, HangupAccounts, FailedDescriptors DEF AllUp
<1> QED BY <1>1, <1>2, <1>3, <1>4, <1>5, Steps

THEOREM AlwaysUp ==
    ASSUME {"fin", "rst"} \cap Faults = {}
    PROVE  Spec => []AllUp
<1>1. Init => AllUp
  BY DEF Init, EpollInit, SocketsInit, AllUp
<1>2. IInv /\ BInv /\ AllUp /\ [Next]_vars => AllUp'
  BY StayUp DEF BInv
<1> QED BY <1>1, <1>2, BytesInvariant, PTL DEF Spec

(* Between clients that stay connected every byte is accounted for.        *)
THEOREM BytesAccounted ==
    ASSUME {"fin", "rst"} \cap Faults = {}
    PROVE  Spec => []ByteAccount
  BY BytesUntilDown, AlwaysUp, PTL
-----------------------------------------------------------------------------
(* The connection contract's view of each client.                          *)
PhaseOf(c) == IF sock[c].phase = "queued" THEN "new" ELSE sock[c].phase
StateOf(c) == IF sock[c].phase = "open" THEN m_connections[FdOf(c)].state ELSE "idle"
HeldOf(c)  == IF sock[c].phase = "open" THEN Held(BufferOf(FdOf(c))) ELSE 0

LEMMA DescriptorFound ==
    ASSUME NEW own, NEW f \in Fds, NEW c, own[f] = c, c # NoClient,
           \A g, h \in Fds : (own[g] = own[h] /\ own[g] # NoClient) => g = h
    PROVE  (CHOOSE g \in Fds : own[g] = c) = f
<1>1. PICK g : g = CHOOSE h \in Fds : own[h] = c
  OBVIOUS
<1>2. g \in Fds /\ own[g] = c
  BY <1>1
<1> QED BY <1>1, <1>2

(* The view of the client of a descriptor; and after a step.               *)
LEMMA View ==
    ASSUME OneDescriptorEach, Accounts, NEW f \in Fds, NEW c \in Clients, fdOwner[f] = c
    PROVE  /\ PhaseOf(c) = "open" /\ StateOf(c) = m_connections[f].state
           /\ HeldOf(c) = Balance(f) /\ HeldOf(c) = Held(BufferOf(f))
<1>1. c # NoClient
  BY SocketAssumption
<1>2. FdOf(c) = f
  <2>1. PICK own : own = fdOwner
    OBVIOUS
  <2>2. (CHOOSE g \in Fds : own[g] = c) = f
    BY <1>1, <2>1, DescriptorFound DEF OneDescriptorEach
  <2> QED BY <2>1, <2>2 DEF FdOf
<1>3. sock[c].phase = "open" /\ Held(BufferOf(f)) = Balance(f)
  BY <1>1 DEF OneDescriptorEach, Accounts
<1> QED BY <1>2, <1>3 DEF PhaseOf, StateOf, HeldOf

LEMMA ViewNext ==
    ASSUME OneDescriptorEach', Accounts', NEW f \in Fds, NEW c \in Clients, fdOwner'[f] = c
    PROVE  /\ PhaseOf(c)' = "open" /\ StateOf(c)' = m_connections'[f].state
           /\ HeldOf(c)' = Balance(f)' /\ HeldOf(c)' = Held(BufferOf(f))'
<1>1. c # NoClient
  BY SocketAssumption
<1>2. FdOf(c)' = f
  <2>1. PICK own : own = fdOwner'
    OBVIOUS
  <2>2. (CHOOSE g \in Fds : own[g] = c) = f
    BY <1>1, <2>1, DescriptorFound DEF OneDescriptorEach
  <2> QED BY <2>1, <2>2 DEF FdOf
<1>3. sock'[c].phase = "open" /\ Held(BufferOf(f))' = Balance(f)'
  BY <1>1 DEF OneDescriptorEach, Accounts
<1>4. HeldOf(c)' = Held(BufferOf(f))'
  BY <1>2, <1>3 DEF HeldOf, BufferOf
<1> QED BY <1>2, <1>3, <1>4 DEF PhaseOf, StateOf

(* A client without a descriptor.                                          *)
LEMMA ViewClosed ==
    ASSUME NEW c \in Clients
    PROVE  /\ sock[c].phase # "open" => StateOf(c) = "idle" /\ HeldOf(c) = 0
           /\ sock'[c].phase # "open" => StateOf(c)' = "idle" /\ HeldOf(c)' = 0
  BY DEF StateOf, HeldOf

(* What a step leaves of a client as it was.                               *)
Unmoved(d) ==
    /\ \/ sock'[d].phase = sock[d].phase
       \/ sock[d].phase = "new" /\ sock'[d].phase = "queued"
    /\ sock'[d].in = sock[d].in /\ sock'[d].out = sock[d].out
    /\ \A f \in Fds : fdOwner[f] = d =>
            fdOwner'[f] = d /\ m_connections'[f].state = m_connections[f].state

SameView(d) == PhaseOf(d)' = PhaseOf(d) /\ StateOf(d)' = StateOf(d) /\ HeldOf(d)' = HeldOf(d)

LEMMA Unseen ==
    ASSUME OneDescriptorEach, OneDescriptorEach', Accounts, Accounts',
           NEW d \in Clients, Unmoved(d)
    PROVE  SameView(d)
<1>1. CASE sock[d].phase = "open"
  <2>1. PICK f \in Fds : fdOwner[f] = d
    BY <1>1 DEF OneDescriptorEach
  <2>2. fdOwner'[f] = d /\ m_connections'[f].state = m_connections[f].state
    BY <2>1 DEF Unmoved
  <2>3. /\ PhaseOf(d) = "open" /\ StateOf(d) = m_connections[f].state
        /\ HeldOf(d) = Balance(f)
    BY <2>1, View
  <2>4. /\ PhaseOf(d)' = "open" /\ StateOf(d)' = m_connections'[f].state
        /\ HeldOf(d)' = Balance(f)'
    BY <2>2, ViewNext
  <2>5. Balance(f)' = Balance(f)
    BY <2>1, <2>2 DEF Unmoved, Balance
  <2> QED BY <2>2, <2>3, <2>4, <2>5 DEF SameView
<1>2. CASE sock[d].phase # "open"
  <2>1. sock'[d].phase # "open" /\ PhaseOf(d)' = PhaseOf(d)
    BY <1>2 DEF Unmoved, PhaseOf
  <2> QED BY <1>2, <2>1, ViewClosed DEF SameView
<1> QED BY <1>1, <1>2
-----------------------------------------------------------------------------
(* One client's turn in the contract: it is opened, is refused, receives,  *)
(* is sent to, has a callback asked about it, or ends.                     *)
OpenTurn(c) ==
    /\ PhaseOf(c) = "new" /\ PhaseOf(c)' = "open"
    /\ StateOf(c)' \in {"idle", "read", "write"} /\ HeldOf(c)' = HeldOf(c)
RefuseTurn(c) ==
    /\ PhaseOf(c) = "new" /\ PhaseOf(c)' = "closed"
    /\ StateOf(c)' = StateOf(c) /\ HeldOf(c)' = HeldOf(c)
ReceiveTurn(c) ==
    /\ PhaseOf(c) = "open" /\ PhaseOf(c)' = "open"
    /\ StateOf(c) = "read" /\ StateOf(c)' = "read"
    /\ \E n \in 1 .. BufferSize - HeldOf(c) : HeldOf(c)' = HeldOf(c) + n
SendTurn(c) ==
    /\ PhaseOf(c) = "open" /\ PhaseOf(c)' = "open"
    /\ StateOf(c) = "write" /\ StateOf(c)' = "write"
    /\ \E n \in 1 .. HeldOf(c) : HeldOf(c)' = HeldOf(c) - n
AskTurn(c) ==
    /\ PhaseOf(c) = "open" /\ PhaseOf(c)' = "open" /\ HeldOf(c)' = HeldOf(c)
    /\ (StateOf(c) = "read" /\ HeldOf(c) > 0) \/ (StateOf(c) = "write" /\ HeldOf(c) = 0)
    /\ StateOf(c)' \in {"read", "write"}
EndTurn(c) ==
    /\ PhaseOf(c) = "open" /\ PhaseOf(c)' = "closed"
    /\ StateOf(c)' = "idle" /\ HeldOf(c)' = 0

Turns(c) ==
    OpenTurn(c) \/ RefuseTurn(c) \/ ReceiveTurn(c) \/ SendTurn(c) \/ AskTurn(c) \/ EndTurn(c)

LEMMA TurnIsStep ==
    ASSUME NEW c \in Clients, \A d \in Clients : d # c => SameView(d), Turns(c)
    PROVE  Contract!Next
<1>1. PICK p, q, s, t, h, k :
        /\ p = [d \in Clients |-> PhaseOf(d)] /\ q = [d \in Clients |-> PhaseOf(d)']
        /\ s = [d \in Clients |-> StateOf(d)] /\ t = [d \in Clients |-> StateOf(d)']
        /\ h = [d \in Clients |-> HeldOf(d)]  /\ k = [d \in Clients |-> HeldOf(d)']
  OBVIOUS
<1>2. /\ p[c] = PhaseOf(c) /\ s[c] = StateOf(c) /\ h[c] = HeldOf(c)
      /\ q = [p EXCEPT ![c] = PhaseOf(c)'] /\ t = [s EXCEPT ![c] = StateOf(c)']
      /\ k = [h EXCEPT ![c] = HeldOf(c)']
  <2>1. \A d \in Clients : d # c => q[d] = p[d] /\ t[d] = s[d] /\ k[d] = h[d]
    BY <1>1 DEF SameView
  <2> QED BY <1>1, <2>1
<1>3. /\ PhaseOf(c)' = PhaseOf(c) => q = p
      /\ StateOf(c)' = StateOf(c) => t = s
      /\ HeldOf(c)' = HeldOf(c) => k = h
  BY <1>1, <1>2
<1>4. /\ p = [d \in Clients |-> IF sock[d].phase = "queued" THEN "new" ELSE sock[d].phase]
      /\ s = [d \in Clients |-> IF sock[d].phase = "open"
                                THEN m_connections[FdOf(d)].state ELSE "idle"]
      /\ h = [d \in Clients |-> IF sock[d].phase = "open"
                                THEN Held(BufferOf(FdOf(d))) ELSE 0]
  BY <1>1 DEF PhaseOf, StateOf, HeldOf
<1>5. /\ q = [d \in Clients |-> IF sock'[d].phase = "queued" THEN "new" ELSE sock'[d].phase]
      /\ t = [d \in Clients |-> IF sock'[d].phase = "open"
                                THEN m_connections'[FdOf(d)'].state ELSE "idle"]
      /\ k = [d \in Clients |-> IF sock'[d].phase = "open"
                                THEN Held(BufferOf(FdOf(d)))' ELSE 0]
  BY <1>1 DEF PhaseOf, StateOf, HeldOf
<1>6. CASE OpenTurn(c)
  <2>1. Contract!Open(c)
    BY <1>2, <1>3, <1>4, <1>5, <1>6 DEF OpenTurn, Contract!Open
  <2> QED BY <2>1 DEF Contract!Next
<1>7. CASE RefuseTurn(c)
  <2>1. Contract!Refuse(c)
    BY <1>2, <1>3, <1>4, <1>5, <1>7 DEF RefuseTurn, Contract!Refuse
  <2> QED BY <2>1 DEF Contract!Next
<1>8. CASE ReceiveTurn(c)
  <2>1. Contract!Receive(c)
    BY <1>1, <1>2, <1>3, <1>4, <1>5, <1>8 DEF ReceiveTurn, Contract!Receive
  <2> QED BY <2>1 DEF Contract!Next
<1>9. CASE SendTurn(c)
  <2>1. Contract!Send(c)
    BY <1>1, <1>2, <1>3, <1>4, <1>5, <1>9 DEF SendTurn, Contract!Send
  <2> QED BY <2>1 DEF Contract!Next
<1>10. CASE AskTurn(c)
  <2>1. Contract!AskOnRead(c) \/ Contract!AskOnWrite(c)
    BY <1>2, <1>3, <1>4, <1>5, <1>10 DEF AskTurn, Contract!AskOnRead, Contract!AskOnWrite
  <2> QED BY <2>1 DEF Contract!Next
<1>11. CASE EndTurn(c)
  <2>1. Contract!End(c)
    BY <1>2, <1>3, <1>4, <1>5, <1>11 DEF EndTurn, Contract!End
  <2> QED BY <2>1 DEF Contract!Next
<1> QED BY <1>6, <1>7, <1>8, <1>9, <1>10, <1>11 DEF Turns

(* Or nobody's.                                                            *)
LEMMA NoTurn ==
    ASSUME \A d \in Clients : SameView(d)
    PROVE  UNCHANGED Contract!vars
<1> DEFINE p == [d \in Clients |-> PhaseOf(d)]
           q == [d \in Clients |-> PhaseOf(d)']
           s == [d \in Clients |-> StateOf(d)]
           t == [d \in Clients |-> StateOf(d)']
           h == [d \in Clients |-> HeldOf(d)]
           k == [d \in Clients |-> HeldOf(d)']
<1>1. q = p /\ t = s /\ k = h
  BY DEF SameView
<1>2. /\ p = [d \in Clients |-> IF sock[d].phase = "queued" THEN "new" ELSE sock[d].phase]
      /\ s = [d \in Clients |-> IF sock[d].phase = "open"
                                THEN m_connections[FdOf(d)].state ELSE "idle"]
      /\ h = [d \in Clients |-> IF sock[d].phase = "open"
                                THEN Held(BufferOf(FdOf(d))) ELSE 0]
  BY DEF PhaseOf, StateOf, HeldOf
<1>3. /\ q = [d \in Clients |-> IF sock'[d].phase = "queued" THEN "new" ELSE sock'[d].phase]
      /\ t = [d \in Clients |-> IF sock'[d].phase = "open"
                                THEN m_connections'[FdOf(d)'].state ELSE "idle"]
      /\ k = [d \in Clients |-> IF sock'[d].phase = "open"
                                THEN Held(BufferOf(FdOf(d)))' ELSE 0]
  BY DEF PhaseOf, StateOf, HeldOf
<1> HIDE DEF p, q, s, t, h, k
<1> QED BY <1>1, <1>2, <1>3 DEF Contract!vars
-----------------------------------------------------------------------------
(* Steps the contract does not see, and connections closed unseen.         *)
LEMMA QuietTurn ==
    ASSUME IInv, OneDescriptorEach, OneDescriptorEach', Accounts, Accounts', Quiet
    PROVE  UNCHANGED Contract!vars
<1>1. UNCHANGED <<fdOwner, table>>
  BY QuietAccounts
<1>2. /\ SameBytes
      /\ \A c \in Clients : \/ sock'[c].phase = sock[c].phase
                            \/ sock[c].phase = "new" /\ sock'[c].phase = "queued"
  BY QuietDescriptors DEF Quiet
<1>3. \A d \in Clients : Unmoved(d)
  BY <1>1, <1>2 DEF Unmoved, SameBytes, table
<1>4. \A d \in Clients : SameView(d)
  BY <1>3, Unseen
<1> QED BY <1>4, NoTurn

LEMMA RefusedTurn ==
    ASSUME IInv, OneDescriptorEach, OneDescriptorEach', Accounts, Accounts',
           AcceptFcntlFails \/ AcceptRefused
    PROVE  Contract!Next
<1>1. UNCHANGED <<fdOwner, m_connections>>
  BY QuietAccounts, AcceptRefusedAccounts DEF table
<1>2. ~AcceptOne
  <2>1. PICK c \in Clients : c = Head(backlog)
    BY AcceptedClient
  <2>2. ASSUME AcceptOne PROVE FALSE
    <3>1. \E f \in Fds : fdOwner[f] = NoClient /\ fdOwner'[f] = c
      <4>1. PICK f \in Fds, state \in States \ {"die"} : Opens(f, state)
        BY <2>2, AcceptOneAccounts
      <4> QED BY <2>1, <4>1 DEF Opens
    <3>2. c # NoClient
      BY SocketAssumption
    <3> QED BY <1>1, <3>1, <3>2
  <2> QED BY <2>2
<1>3. PICK c \in Clients : c = Head(backlog)
  BY AcceptedClient
<1>4. /\ SameBytes /\ sock[c].phase = "queued" /\ sock'[c].phase = "closed"
      /\ \A g \in Fds : fdOwner[g] # c
      /\ \A d \in Clients : d # c => sock'[d].phase = sock[d].phase
  BY <1>2, <1>3, AcceptedClient
<1>5. ASSUME NEW d \in Clients, d # c PROVE SameView(d)
  <2>1. Unmoved(d)
    BY <1>1, <1>4, <1>5 DEF Unmoved, SameBytes
  <2> QED BY <2>1, Unseen
<1>6. RefuseTurn(c)
  <2>1. StateOf(c) = "idle" /\ HeldOf(c) = 0 /\ StateOf(c)' = "idle" /\ HeldOf(c)' = 0
    BY <1>4, ViewClosed
  <2> QED BY <1>4, <2>1 DEF RefuseTurn, PhaseOf
<1>7. Turns(c)
  BY <1>6 DEF Turns
<1> QED BY <1>5, <1>7, TurnIsStep

LEMMA OpenedTurn ==
    ASSUME IInv, OneDescriptorEach, OneDescriptorEach', Accounts, Accounts', AcceptOne
    PROVE  Contract!Next
<1>1. PICK f \in Fds, state \in States \ {"die"} : Opens(f, state)
  BY AcceptOneAccounts
<1>2. PICK c \in Clients : c = Head(backlog)
  BY AcceptedClient
<1>3. /\ SameBytes /\ sock[c].phase = "queued" /\ sock[c].in = 0 /\ sock[c].out = 0
      /\ \A g \in Fds : fdOwner[g] # c
      /\ \A d \in Clients : d # c => sock'[d].phase = sock[d].phase
  BY <1>2, AcceptedClient
<1>4. /\ fdOwner[f] = NoClient /\ fdOwner'[f] = c /\ m_connections'[f].state = state
      /\ \A g \in Fds : g # f => /\ fdOwner'[g] = fdOwner[g]
                                 /\ m_connections'[g] = m_connections[g]
  BY <1>1, <1>2 DEF Opens
<1>5. ASSUME NEW d \in Clients, d # c PROVE SameView(d)
  <2>1. \A g \in Fds : fdOwner[g] = d => g # f
    BY <1>4, SocketAssumption
  <2>2. Unmoved(d)
    BY <1>3, <1>4, <1>5, <2>1 DEF Unmoved, SameBytes
  <2> QED BY <2>2, Unseen
<1>6. OpenTurn(c)
  <2>1. PhaseOf(c) = "new" /\ HeldOf(c) = 0
    BY <1>3, ViewClosed DEF PhaseOf
  <2>2. PhaseOf(c)' = "open" /\ StateOf(c)' = state /\ HeldOf(c)' = Balance(f)'
    BY <1>4, ViewNext
  <2>3. sock'[c].in = 0 /\ sock'[c].out = 0
    BY <1>3 DEF SameBytes
  <2>4. Balance(f)' = 0
    BY <1>4, <2>3 DEF Balance
  <2> QED BY <2>1, <2>2, <2>4 DEF OpenTurn, States
<1>7. Turns(c)
  BY <1>6 DEF Turns
<1> QED BY <1>5, <1>7, TurnIsStep

(* Bytes move.                                                             *)
LEMMA MovedTurn ==
    ASSUME IInv, OneDescriptorEach, OneDescriptorEach', Accounts, Accounts',
           NEW x \in Nat, NEW y \in Nat, Moves(x, y)
    PROVE  Contract!Next \/ UNCHANGED Contract!vars
<1>1. Handling /\ ~Gone
  BY DEF Moves, Handling, At
<1>2. PICK f \in Fds : /\ f = thread.conn /\ fdOwner[f] \in Clients
                       /\ thread.this = BufferOf(f) /\ Held(BufferOf(f)) \in Nat
  BY <1>1, InHandler
<1>3. PICK c \in Clients : c = fdOwner[f]
  BY <1>2
<1>4. /\ UNCHANGED <<fdOwner, m_connections>>
      /\ Count(ring'[thread.this].head, ring'[thread.this].tail)
            = (Held(thread.this) + x) - y
      /\ \A d \in Clients : /\ sock'[d].phase = sock[d].phase
                            /\ d # c => sock'[d] = sock[d]
  BY <1>2, <1>3 DEF Moves, Client
<1>5. ASSUME NEW d \in Clients, d # c PROVE SameView(d)
  <2>1. Unmoved(d)
    BY <1>4, <1>5 DEF Unmoved
  <2> QED BY <2>1, Unseen
<1>6. PICK k \in Nat, m \in Int :
        k = Held(BufferOf(f)) /\ m = Held(BufferOf(f))' /\ m = (k + x) - y
  <2>1. PICK k \in Nat : k = Held(BufferOf(f))
    BY <1>2
  <2>2. PICK m \in Int : m = (k + x) - y
    OBVIOUS
  <2>3. Held(BufferOf(f))' = (Held(thread.this) + x) - y
    BY <1>2, <1>4 DEF Held, BufferOf
  <2> QED BY <1>2, <2>1, <2>2, <2>3
<1>7. /\ PhaseOf(c) = "open" /\ HeldOf(c) = k /\ StateOf(c) = m_connections[f].state
      /\ PhaseOf(c)' = "open" /\ HeldOf(c)' = m /\ StateOf(c)' = m_connections[f].state
  <2>1. fdOwner'[f] = c
    BY <1>3, <1>4
  <2>2. PhaseOf(c)' = "open" /\ HeldOf(c)' = m /\ StateOf(c)' = m_connections'[f].state
    BY <1>6, <2>1, ViewNext
  <2> QED BY <1>3, <1>4, <1>6, <2>2, View
<1>8. BufferSize \in Nat
  BY CounterFacts
<1>9. /\ x # 0 => y = 0 /\ k + x <= BufferSize /\ m_connections[f].state = "read"
      /\ y # 0 => x = 0 /\ y <= k /\ m_connections[f].state = "write"
  <2>1. \/ At("recv") /\ y = 0 /\ k + x <= BufferSize
        \/ At("send") /\ x = 0 /\ y <= k
    BY <1>2, <1>6 DEF Moves
  <2>2. /\ At("recv") => m_connections[f].state = "read"
        /\ At("send") => m_connections[f].state = "write"
    BY <1>1, <1>2 DEF Accounts, HandlesOpen
  <2> QED BY <2>1, <2>2
<1>10. CASE x # 0
  <2>1. x \in 1 .. BufferSize - k /\ m = k + x
    BY <1>6, <1>8, <1>9, <1>10
  <2>2. ReceiveTurn(c)
    BY <1>7, <1>9, <1>10, <2>1 DEF ReceiveTurn
  <2>3. Turns(c)
    BY <2>2 DEF Turns
  <2> QED BY <1>5, <2>3, TurnIsStep
<1>11. CASE y # 0
  <2>1. y \in 1 .. k /\ m = k - y
    BY <1>6, <1>9, <1>11
  <2>2. SendTurn(c)
    BY <1>7, <1>9, <1>11, <2>1 DEF SendTurn
  <2>3. Turns(c)
    BY <2>2 DEF Turns
  <2> QED BY <1>5, <2>3, TurnIsStep
<1>12. CASE x = 0 /\ y = 0
  <2>1. m = k
    BY <1>6, <1>12
  <2>2. SameView(c)
    BY <1>7, <2>1 DEF SameView
  <2>3. \A d \in Clients : SameView(d)
    BY <1>5, <2>2
  <2> QED BY <2>3, NoTurn
<1> QED BY <1>10, <1>11, <1>12

(* A connection ends, or is in another state.                              *)
LEMMA AnsweredTurn ==
    ASSUME IInv, OneDescriptorEach, OneDescriptorEach', Accounts, Accounts', SameBytes,
           NEW f \in Fds, NEW state \in States \ {"idle"}, Answers(f, state),
           \/ state = "die"
           \/ m_connections[f].state = "read" /\ Held(BufferOf(f)) # 0
           \/ m_connections[f].state = "write" /\ Held(BufferOf(f)) = 0
    PROVE  Contract!Next
<1>1. /\ fdOwner \in [Fds -> Clients \cup {NoClient}] /\ fdOwner[f] # NoClient
      /\ \A g \in Fds : g # f => m_connections'[g] = m_connections[g]
      /\ state = "die" => Ends(f)
      /\ state # "die" => GoesOn(f, state)
  BY Types DEF Answers, IInv
<1>2. PICK c \in Clients : c = fdOwner[f]
  BY <1>1
<1>3. PICK k \in Nat : k = Held(BufferOf(f))
  <2>1. BufferOf(f) \in 1 .. Len(ring) /\ ring \in Seq(CounterPair)
    BY <1>1, Separate, Types DEF IInv
  <2>2. ring[BufferOf(f)] \in CounterPair
    BY <2>1, ElementOfSeq
  <2>3. ring[BufferOf(f)].head \in Counter /\ ring[BufferOf(f)].tail \in Counter
    BY <2>2 DEF CounterPair
  <2>4. Held(BufferOf(f)) \in Counter
    BY <2>3, CountCases DEF Held
  <2>5. Held(BufferOf(f)) \in Nat
    BY <2>4, SMT DEF Counter
  <2> QED BY <2>5
<1>4. ASSUME NEW d \in Clients, d # c PROVE SameView(d)
  <2>1. /\ sock'[d].phase = sock[d].phase
        /\ \A g \in Fds : fdOwner[g] = d => g # f /\ fdOwner'[g] = d
    BY <1>1, <1>2, <1>4 DEF Ends, GoesOn
  <2>2. Unmoved(d)
    BY <1>1, <2>1 DEF Unmoved, SameBytes
  <2> QED BY <2>2, Unseen
<1>5. /\ PhaseOf(c) = "open" /\ StateOf(c) = m_connections[f].state
      /\ HeldOf(c) = k /\ HeldOf(c) = Balance(f)
  BY <1>2, <1>3, View
<1>6. CASE state = "die"
  <2>1. sock'[c].phase = "closed"
    BY <1>1, <1>2, <1>6 DEF Ends
  <2>2. StateOf(c)' = "idle" /\ HeldOf(c)' = 0 /\ PhaseOf(c)' = "closed"
    BY <2>1, ViewClosed DEF PhaseOf
  <2>3. EndTurn(c)
    BY <1>5, <2>2 DEF EndTurn
  <2>4. Turns(c)
    BY <2>3 DEF Turns
  <2> QED BY <1>4, <2>4, TurnIsStep
<1>7. CASE state # "die"
  <2>1. fdOwner'[f] = c /\ m_connections'[f].state = state /\ state \in {"read", "write"}
    BY <1>1, <1>2, <1>7 DEF GoesOn, States
  <2>2. PhaseOf(c)' = "open" /\ StateOf(c)' = state /\ HeldOf(c)' = Balance(f)'
    BY <2>1, ViewNext
  <2>3. Balance(f)' = Balance(f)
    BY <1>2, <2>1 DEF Balance, SameBytes
  <2>4. (StateOf(c) = "read" /\ HeldOf(c) > 0) \/ (StateOf(c) = "write" /\ HeldOf(c) = 0)
    <3>1. \/ m_connections[f].state = "read" /\ k # 0
          \/ m_connections[f].state = "write" /\ k = 0
      BY <1>3, <1>7
    <3>2. k # 0 => k > 0
      OBVIOUS
    <3> QED BY <1>5, <3>1, <3>2
  <2>5. AskTurn(c)
    BY <1>5, <2>1, <2>2, <2>3, <2>4 DEF AskTurn
  <2>6. Turns(c)
    BY <2>5 DEF Turns
  <2> QED BY <1>4, <2>6, TurnIsStep
<1> QED BY <1>6, <1>7

LEMMA AskedTurn ==
    ASSUME IInv, OneDescriptorEach, OneDescriptorEach', Accounts, Accounts',
           OnReadStep \/ OnWriteStep
    PROVE  Contract!Next \/ UNCHANGED Contract!vars
<1>1. SameBytes
  BY AskedDescriptors
<1>2. CASE UNCHANGED <<sockets, table>>
  <2>1. \A d \in Clients : Unmoved(d)
    BY <1>2 DEF Unmoved, sockets, table
  <2>2. \A d \in Clients : SameView(d)
    BY <2>1, Unseen
  <2> QED BY <2>2, NoTurn
<1>3. ASSUME NEW state \in States \ {"idle"}, Asked(state) PROVE Contract!Next
  <2>1. /\ Handling /\ ~Gone /\ thread.conn \in Fds /\ thread.this = BufferOf(thread.conn)
        /\ \/ At("on_read") /\ Held(thread.this) # 0
           \/ At("on_write") /\ Held(thread.this) = 0
    BY <1>3, InHandler DEF Asked
  <2>2. PICK f \in Fds : f = thread.conn
    BY <2>1
  <2>3. \/ m_connections[f].state = "read" /\ Held(BufferOf(f)) # 0
        \/ m_connections[f].state = "write" /\ Held(BufferOf(f)) = 0
    BY <2>1, <2>2 DEF Accounts, HandlesOpen
  <2>4. Answers(f, state)
    BY <1>3, <2>2, AskedDescriptors
  <2> QED BY <1>1, <2>3, <2>4, AnsweredTurn
<1> QED BY <1>2, <1>3, AskedStep

LEMMA HangupTurn ==
    ASSUME IInv, OneDescriptorEach, OneDescriptorEach', Accounts, Accounts', DispatchHangup
    PROVE  Contract!Next
<1>1. PICK f \in Fds : Answers(f, "die")
  BY HangupAccounts
<1>2. PICK state \in States \ {"idle"} : state = "die"
  BY DEF States
<1> QED BY <1>1, <1>2, HangupAccounts, AnsweredTurn
-----------------------------------------------------------------------------
LEMMA StepKeepsContract ==
    ASSUME IInv, OneDescriptorEach, Accounts, AllUp, [Next]_vars
    PROVE  [Contract!Next]_(Contract!vars)
<1>1. OneDescriptorEach' /\ Accounts'
  BY BytesKept
<1>2. CASE Quiet
  BY <1>1, <1>2, QuietTurn
<1>3. CASE AcceptFcntlFails \/ AcceptRefused
  BY <1>1, <1>3, RefusedTurn
<1>4. CASE AcceptOne
  BY <1>1, <1>4, OpenedTurn
<1>5. CASE RecvSome \/ SendSome
  <2>1. PICK x \in Nat, y \in Nat : Moves(x, y)
    BY <1>5, SomeMove
  <2> QED BY <1>1, <2>1, MovedTurn
<1>6. CASE OnReadStep \/ OnWriteStep
  BY <1>1, <1>6, AskedTurn
<1>7. CASE DispatchHangup
  BY <1>1, <1>7, HangupTurn
<1>8. CASE RecvFails \/ SendFails
  BY <1>8, FailedDescriptors
<1> QED BY <1>2, <1>3, <1>4, <1>5, <1>6, <1>7, <1>8, Steps

(* As long as the clients are up, each connection behaves as the state     *)
(* machine the callbacks drive.                                            *)
LEMMA ContractWhileUp == Spec /\ []AllUp => ContractSpec
<1>1. Init => Contract!Init
  <2> SUFFICES ASSUME Init PROVE Contract!Init
    OBVIOUS
  <2>1. \A c \in Clients : sock[c].phase = "new"
    BY DEF Init, EpollInit, SocketsInit
  <2> QED BY <2>1 DEF Contract!Init
<1>2. IInv /\ BInv /\ AllUp /\ [Next]_vars => [Contract!Next]_(Contract!vars)
  BY StepKeepsContract DEF BInv
<1> QED BY <1>1, <1>2, BytesInvariant, PTL DEF Spec, ContractSpec, Contract!Spec

(* The epoll loop implements the contract of a connection: between clients *)
(* that stay connected, callbacks are asked in their states only, and only *)
(* bytes received and sent change what a buffer holds.                     *)
THEOREM KeepsContract ==
    ASSUME {"fin", "rst"} \cap Faults = {}
    PROVE  Spec => ContractSpec
  BY ContractWhileUp, AlwaysUp, PTL
=============================================================================
