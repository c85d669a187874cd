-------------------------- MODULE KqueueLoopProofs --------------------------
(***************************************************************************)
(* The safety invariants of the kqueue loop, for any number of clients,    *)
(* descriptors and buffers, any buffer size, any faults, any answers of    *)
(* the callbacks, and a stop() at any time.                                *)
(*                                                                         *)
(* An event of a batch may come after one that closed its connection, and  *)
(* after an accept that gave its descriptor away; nothing but the table    *)
(* tells a handler so.  The table is right as long as run() runs: it has   *)
(* an entry for each open descriptor, with a buffer of its own.            *)
(***************************************************************************)
EXTENDS KqueueLoop, SharedLemmas

BufferTable == [f \in Fds |-> BufferOf(f)]

(* Each buffer is in one place, those of the table with open connections;  *)
(* and the write filter is on only of those.                               *)
PoolInv ==
    /\ Conserved(m_pl, Len(m_pl), Len(ring), Fds, BufferTable)
    /\ \A f \in Fds : Known(f) <=> fdOwner[f] # NoClient
    /\ \A f \in armed : Known(f)

(* No ring holds more than fits, not even one in the pool where bytes were *)
(* counted after its connection failed.                                    *)
HeldInv == \A b \in Buffers : Held(b) <= BufferSize

(* An event of a connection names it.                                      *)
EventsInv ==
    /\ EventsAreCurrent
    /\ \A e \in m_events : IF e.fd = Listen THEN ~e.eof ELSE e.to # NoClient

(* stop() closes the queue before the acceptor, and neither before run()   *)
(* has opened them; a crash has its cause.                                 *)
ObjectsInv ==
    /\ pc = "start" => stopping = 0
    /\ Running => /\ stopping < 2 => m_kq = "open"
                  /\ stopping >= 2 => m_kq = "gone"
                  /\ stopping < 3 => m_acceptor = "open"
    /\ pc = "crashed" => (m_acceptor = "gone" /\ m_kq = "gone") \/ SomebodyLeft

IInv ==
    /\ TypeOK
    /\ pc # "destroyed" => PoolInv
    /\ HeldInv /\ EventsInv /\ ObjectsInv

(* The bytes, as long as no client has left.                               *)
AllUp == \A c \in Clients : sock[c].peer = "up"

Balance(f) == sock[fdOwner[f]].in - sock[fdOwner[f]].out

Accounts ==
    /\ PoolContents(m_pl, ring)
    /\ \A f \in Fds : Known(f) => Held(BufferOf(f)) = Balance(f)

BInv == OneDescriptorEach /\ (AllUp => Accounts)

(* Callbacks that answer what arrives: on_connect and on_write read on,    *)
(* or end the connection.                                                  *)
Replies == OnConnect \subseteq {"read", "die"} /\ OnWrite \subseteq {"read", "die"}

(* A client has sent no more than Window bytes that it has not read back.  *)
InWindow == \A c \in Clients : Sent(c) - Echoes(c) <= Window

(* A connection writes what it holds, and has its write filter on then.    *)
ReplyHeld ==
    \A f \in Fds : Known(f) =>
        /\ m_connections[f].state \in {"read", "write"}
        /\ f \in armed <=> m_connections[f].state = "write"
        /\ m_connections[f].state = "write" => Held(BufferOf(f)) # 0

(* So a connection has one event in a batch, and in the state for it.      *)
EventsExpected ==
    /\ \A e \in m_events \ handled : e.fd # Listen =>
        /\ fdOwner[e.fd] = e.to
        /\ e.filter = "READ" => m_connections[e.fd].state = "read"
        /\ e.filter = "WRITE" => m_connections[e.fd].state = "write"
    /\ \A d, e \in m_events \ handled : d.fd = e.fd => d = e

Echo    == InWindow /\ ReplyHeld /\ EventsExpected /\ pc # "asserted"
EchoInv == AllUp => Echo
-----------------------------------------------------------------------------
LEMMA Types ==
    ASSUME TypeOK
    PROVE  /\ Buffers = 1 .. Len(ring) /\ Len(ring) \in Nat /\ ring \in Seq(CounterPair)
           /\ m_pl \in Seq(Buffers) /\ Len(m_pl) \in Nat
           /\ sock \in [Clients -> Socket] /\ backlog \in Seq(Clients)
           /\ fdOwner \in [Fds -> Clients \cup {NoClient}]
           /\ \A f \in Fds : BufferOf(f) \in Buffers \cup {NoBuffer}
           /\ \A b \in Buffers : ring[b] \in CounterPair
<1>1. SocketsTypeOK /\ PoolTypeOK
      /\ m_connections \in [Fds -> [state : States \ {"die"}, buffer : Buffers \cup {NoBuffer}]]
  BY DEF TypeOK
<1>2. ring \in Seq(CounterPair) /\ m_pl \in Seq(Buffers) /\ Buffers = 1 .. Len(ring)
  BY <1>1 DEF PoolTypeOK, CounterPair, Buffers
<1>3. \A b \in 1 .. Len(ring) : ring[b] \in CounterPair
  BY <1>2, ElementOfSeq
<1>4. \A f \in Fds : BufferOf(f) \in Buffers \cup {NoBuffer}
  BY <1>1 DEF BufferOf
<1> QED BY <1>1, <1>2, <1>3, <1>4, LenProperties DEF SocketsTypeOK

(* A connection in the table is open, and has a buffer of its own.         *)
LEMMA KnownIsOpen ==
    ASSUME TypeOK, PoolInv, NEW f \in Fds, Known(f)
    PROVE  /\ fdOwner[f] \in Clients /\ fdOwner[f] # NoClient
           /\ BufferOf(f) \in 1 .. Len(ring) /\ BufferOf(f) # 0
           /\ ring[BufferOf(f)] \in CounterPair
           /\ sock[fdOwner[f]] \in Socket
           /\ \A g \in Fds : (g # f /\ Known(g)) => BufferOf(g) # BufferOf(f)
<1>1. fdOwner[f] # NoClient /\ fdOwner[f] \in Clients
  BY Types DEF PoolInv
<1>2. BufferOf(f) # 0 /\ BufferOf(f) \in 1 .. Len(ring)
  BY Types DEF Known, NoBuffer
<1>3. \A g \in Fds : BufferTable[g] = BufferOf(g)
  BY DEF BufferTable
<1>4. \A g \in Fds : (g # f /\ Known(g)) => BufferOf(g) # BufferOf(f)
  BY <1>2, <1>3 DEF PoolInv, Conserved, Known, NoBuffer
<1> QED BY <1>1, <1>2, <1>4, Types
-----------------------------------------------------------------------------
(* What a handler does to a connection in its hands.                       *)
ConnType == [s : Socket, r : CounterPair, state : States \ {"die"}, armed : BOOLEAN,
             dead : BOOLEAN, garbage : 0 .. BufferSize, lost : BOOLEAN]

Holds(x) == Count(x.r.head, x.r.tail)

(* Before a handler.                                                       *)
Fresh(x) == x \in ConnType /\ Holds(x) <= BufferSize /\ ~x.dead /\ ~x.lost /\ x.garbage = 0

(* on_read or on_write was asked: x has become y.                          *)
Asked(x, y, answers) ==
    /\ y \in ConnType /\ y.s = x.s /\ y.r = x.r /\ y.garbage = x.garbage /\ y.lost = x.lost
    /\ \/ y.dead
       \/ ~y.dead /\ y.state = x.state /\ y.armed = x.armed /\ "idle" \in answers
       \/ ~y.dead /\ y.state \in answers /\ y.state # "idle" /\ y.armed = (y.state = "write")

LEMMA AskOutcome ==
    ASSUME NEW x \in ConnType, ~x.dead, NEW answers, answers \subseteq States,
           NEW y \in Ask(x, answers)
    PROVE  Asked(x, y, answers)
<1>1. PICK a \in answers : y = IF a = "idle" THEN x ELSE ApplyState(x, a)
  BY DEF Ask
<1>2. a \in States
  BY <1>1
<1>3. CASE a = "idle"
  BY <1>1, <1>3 DEF Asked
<1>4. CASE a = "die"
  <2>1. y = [x EXCEPT !.dead = TRUE]
    BY <1>1, <1>4 DEF ApplyState
  <2> QED BY <2>1 DEF Asked, ConnType
<1>5. CASE a \in {"read", "write"}
  <2>1. PICK m \in BOOLEAN : m = (a = "write")
    OBVIOUS
  <2>2. y = [x EXCEPT !.state = a, !.armed = (a = "write") \/ (x.armed /\ a = "idle")]
    BY <1>1, <1>5 DEF ApplyState
  <2>3. ((a = "write") \/ (x.armed /\ a = "idle")) = m
    BY <1>5, <2>1
  <2>4. y = [x EXCEPT !.state = a, !.armed = m]
    BY <2>2, <2>3
  <2>5. /\ y \in ConnType /\ y.s = x.s /\ y.r = x.r /\ y.garbage = x.garbage
        /\ y.lost = x.lost /\ y.dead = x.dead /\ y.state = a /\ y.armed = m
    BY <1>5, <2>1, <2>4 DEF ConnType, States
  <2> QED BY <1>1, <1>5, <2>1, <2>5 DEF Asked
<1> QED BY <1>2, <1>3, <1>4, <1>5 DEF States
(* After it: no byte was lost, unless the socket had failed.               *)
Outcome(x, y) ==
    /\ y \in ConnType /\ Holds(y) <= BufferSize
    /\ y.s.phase = x.s.phase /\ y.s.peer = x.s.peer
    /\ y.s.rx + y.s.in = x.s.rx + x.s.in
    /\ y.s.out + x.s.tx = x.s.out + y.s.tx
    /\ y.lost => y.dead /\ x.s.peer # "up"
    /\ x.s.peer = "up" => /\ y.garbage = 0
                          /\ Holds(y) + x.s.in + y.s.out = Holds(x) + y.s.in + x.s.out

LEMMA HoldsType ==
    ASSUME NEW x \in ConnType
    PROVE  /\ x.s \in Socket /\ x.r \in CounterPair
           /\ x.s.rx \in Nat /\ x.s.tx \in Nat /\ x.s.in \in Nat /\ x.s.out \in Nat
           /\ x.r.head \in Counter /\ x.r.tail \in Counter /\ Holds(x) \in Nat
           /\ BufferSize \in Nat \ {0}
<1>1. x.s \in Socket /\ x.r \in CounterPair
  BY DEF ConnType
<1>2. x.r.head \in Counter /\ x.r.tail \in Counter
  BY <1>1 DEF CounterPair
<1>3. Holds(x) \in Counter
  BY <1>2, CountCases DEF Holds
<1>4. Counter \subseteq Nat /\ BufferSize \in Nat \ {0}
  BY CounterFacts, SMT DEF Counter
<1>5. x.s.rx \in Nat /\ x.s.tx \in Nat /\ x.s.in \in Nat /\ x.s.out \in Nat
  <2>1. x.s.rx \in 0 .. MaxBytes /\ x.s.tx \in 0 .. SendRoom /\ x.s.in \in Nat /\ x.s.out \in Nat
    BY <1>1, SocketCounts
  <2> QED BY <2>1
<1> QED BY <1>1, <1>2, <1>3, <1>4, <1>5

(* The bytes recv has put into the buffer.                                 *)
Receives(x, n, y) ==
    /\ n \in Nat /\ n <= x.s.rx /\ Holds(x) + n <= BufferSize
    /\ y = [x EXCEPT !.s.rx = @ - n, !.s.in = @ + n, !.r.tail = Advance(@, n)]

LEMMA Received ==
    ASSUME NEW x, Fresh(x), NEW n, NEW y, Receives(x, n, y)
    PROVE  /\ Outcome(x, y) /\ Holds(y) = Holds(x) + n /\ ~y.dead /\ ~y.lost
           /\ y.state = x.state /\ y.armed = x.armed /\ y.s.peer = x.s.peer
<1> /\ n \in Nat /\ n <= x.s.rx /\ Holds(x) + n <= BufferSize
    /\ y = [x EXCEPT !.s.rx = @ - n, !.s.in = @ + n, !.r.tail = Advance(@, n)]
  BY DEF Receives
<1>1. x \in ConnType /\ ~x.dead /\ ~x.lost /\ x.garbage = 0
  BY DEF Fresh
<1>2. PICK s : s = [x.s EXCEPT !.rx = @ - n, !.in = @ + n]
  OBVIOUS
<1>3. PICK r : r = [x.r EXCEPT !.tail = Advance(@, n)]
  OBVIOUS
<1>4. y = [x EXCEPT !.s = s, !.r = r]
  BY <1>1, <1>2, <1>3 DEF ConnType
<1>5. /\ y.s = s /\ y.r = r /\ y.state = x.state /\ y.armed = x.armed
      /\ y.dead = x.dead /\ y.lost = x.lost /\ y.garbage = x.garbage
  BY <1>1, <1>4 DEF ConnType
<1>6. /\ s \in Socket /\ s.phase = x.s.phase /\ s.peer = x.s.peer
      /\ s.rx = x.s.rx - n /\ s.in = x.s.in + n /\ s.tx = x.s.tx /\ s.out = x.s.out
  <2>1. x.s \in Socket /\ x.s.rx \in 0 .. MaxBytes /\ x.s.in \in Nat /\ MaxBytes \in Nat
    BY <1>1, HoldsType, SocketCounts
  <2>2. x.s.rx - n \in 0 .. MaxBytes /\ x.s.in + n \in Nat
    BY <2>1
  <2> QED BY <1>2, <2>1, <2>2 DEF Socket
<1>7. r \in CounterPair /\ Count(r.head, r.tail) = Holds(x) + n
  <2>1. PICK c : c = x.r
    OBVIOUS
  <2>2. c \in CounterPair /\ n \in Nat /\ r = [c EXCEPT !.tail = Advance(@, n)]
    BY <1>1, <1>3, <2>1, HoldsType
  <2>3. Count(c.head, c.tail) + n <= BufferSize /\ Holds(x) = Count(c.head, c.tail)
    BY <2>1 DEF Holds
  <2>4. r \in CounterPair /\ Count(r.head, r.tail) = Count(c.head, c.tail) + n
    BY ONLY <2>2, <2>3, RingReceives
  <2> QED BY <2>3, <2>4
<1>8. y \in ConnType
  BY <1>1, <1>4, <1>6, <1>7 DEF ConnType
<1>9. /\ x.s.rx \in Nat /\ x.s.in \in Nat /\ x.s.tx \in Nat /\ x.s.out \in Nat
      /\ Holds(x) \in Nat
  BY <1>1, HoldsType
<1>10. Holds(y) = Holds(x) + n
  BY <1>5, <1>7 DEF Holds
<1>11. /\ y.s.rx + y.s.in = x.s.rx + x.s.in
       /\ y.s.out + x.s.tx = x.s.out + y.s.tx
       /\ Holds(y) + x.s.in + y.s.out = Holds(x) + y.s.in + x.s.out
  <2>1. PICK a \in Nat, b \in Nat, c \in Nat, d \in Nat, h \in Nat :
          a = x.s.rx /\ b = x.s.in /\ c = x.s.tx /\ d = x.s.out /\ h = Holds(x)
    BY <1>9
  <2>2. /\ y.s.rx = a - n /\ y.s.in = b + n /\ y.s.tx = c /\ y.s.out = d /\ Holds(y) = h + n
    BY <1>5, <1>6, <1>10, <2>1
  <2>3. /\ (a - n) + (b + n) = a + b /\ d + c = d + c
        /\ (h + n) + b + d = h + (b + n) + d
    OBVIOUS
  <2> QED BY <2>1, <2>2, <2>3
<1> QED BY <1>1, <1>5, <1>6, <1>8, <1>10, <1>11 DEF Outcome

(* The bytes send has taken out of it.                                     *)
Delivers(x, n, y) ==
    /\ n \in Nat /\ n <= SendRoom - x.s.tx /\ n <= Holds(x)
    /\ y = [x EXCEPT !.s.tx = @ + n, !.s.out = @ + n, !.r.head = Advance(@, n)]

LEMMA Delivered ==
    ASSUME NEW x, Fresh(x), NEW n, NEW y, Delivers(x, n, y)
    PROVE  /\ Outcome(x, y) /\ Holds(y) = Holds(x) - n /\ ~y.dead /\ ~y.lost
           /\ y.state = x.state /\ y.armed = x.armed /\ y.s.peer = x.s.peer
<1> /\ n \in Nat /\ n <= SendRoom - x.s.tx /\ n <= Holds(x)
    /\ y = [x EXCEPT !.s.tx = @ + n, !.s.out = @ + n, !.r.head = Advance(@, n)]
  BY DEF Delivers
<1>1. x \in ConnType /\ ~x.dead /\ ~x.lost /\ x.garbage = 0 /\ Holds(x) <= BufferSize
  BY DEF Fresh
<1>2. PICK s : s = [x.s EXCEPT !.tx = @ + n, !.out = @ + n]
  OBVIOUS
<1>3. PICK r : r = [x.r EXCEPT !.head = Advance(@, n)]
  OBVIOUS
<1>4. y = [x EXCEPT !.s = s, !.r = r]
  BY <1>1, <1>2, <1>3 DEF ConnType
<1>5. /\ y.s = s /\ y.r = r /\ y.state = x.state /\ y.armed = x.armed
      /\ y.dead = x.dead /\ y.lost = x.lost /\ y.garbage = x.garbage
  BY <1>1, <1>4 DEF ConnType
<1>6. /\ s \in Socket /\ s.phase = x.s.phase /\ s.peer = x.s.peer
      /\ s.rx = x.s.rx /\ s.in = x.s.in /\ s.tx = x.s.tx + n /\ s.out = x.s.out + n
  <2>1. x.s \in Socket /\ x.s.tx \in 0 .. SendRoom /\ x.s.out \in Nat /\ SendRoom \in Nat
    BY <1>1, HoldsType, SocketCounts
  <2>2. x.s.tx + n \in 0 .. SendRoom /\ x.s.out + n \in Nat
    BY <2>1
  <2> QED BY <1>2, <2>1, <2>2 DEF Socket
<1>7. r \in CounterPair /\ Count(r.head, r.tail) = Holds(x) - n
  <2>1. PICK c : c = x.r
    OBVIOUS
  <2>2. c \in CounterPair /\ n \in Nat /\ r = [c EXCEPT !.head = Advance(@, n)]
    BY <1>1, <1>3, <2>1, HoldsType
  <2>3. n <= Count(c.head, c.tail) /\ Holds(x) = Count(c.head, c.tail)
    BY <2>1 DEF Holds
  <2>4. r \in CounterPair /\ Count(r.head, r.tail) = Count(c.head, c.tail) - n
    BY ONLY <2>2, <2>3, RingSends
  <2> QED BY <2>3, <2>4
<1>8. y \in ConnType
  BY <1>1, <1>4, <1>6, <1>7 DEF ConnType
<1>9. /\ x.s.rx \in Nat /\ x.s.in \in Nat /\ x.s.tx \in Nat /\ x.s.out \in Nat
      /\ Holds(x) \in Nat /\ BufferSize \in Nat
  BY <1>1, HoldsType
<1>10. Holds(y) = Holds(x) - n
  BY <1>5, <1>7 DEF Holds
<1>11. /\ y.s.rx + y.s.in = x.s.rx + x.s.in
       /\ y.s.out + x.s.tx = x.s.out + y.s.tx
       /\ Holds(y) + x.s.in + y.s.out = Holds(x) + y.s.in + x.s.out
       /\ Holds(y) <= BufferSize
  <2>1. PICK a \in Nat, b \in Nat, c \in Nat, d \in Nat, h \in Nat :
          a = x.s.rx /\ b = x.s.in /\ c = x.s.tx /\ d = x.s.out /\ h = Holds(x)
    BY <1>9
  <2>2. /\ y.s.rx = a /\ y.s.in = b /\ y.s.tx = c + n /\ y.s.out = d + n /\ Holds(y) = h - n
    BY <1>5, <1>6, <1>10, <2>1
  <2>3. /\ (d + n) + c = d + (c + n)
        /\ (h - n) + b + (d + n) = h + b + d
    OBVIOUS
  <2>4. h - n <= BufferSize
    BY <1>1, <1>9, <2>1
  <2> QED BY <2>1, <2>2, <2>3, <2>4
<1> QED BY <1>1, <1>5, <1>6, <1>8, <1>10, <1>11 DEF Outcome
LEMMA OutcomeAsked ==
    ASSUME NEW x, NEW y, NEW z, NEW answers, Outcome(x, y), ~y.lost, Asked(y, z, answers)
    PROVE  Outcome(x, z)
<1>1. /\ z \in ConnType /\ z.s = y.s /\ z.r = y.r /\ z.garbage = y.garbage /\ z.lost = y.lost
  BY DEF Asked
<1>2. Holds(z) = Holds(y)
  BY <1>1 DEF Holds
<1> QED BY <1>1, <1>2 DEF Outcome

(* It is erased; left in its state; or it has something to say and is told *)
(* what to do next.                                                        *)
AfterRead(x, y) ==
    \/ y.dead
    \/ y.state = x.state /\ y.armed = x.armed
    \/ y.state # "idle" /\ y.armed = (y.state = "write") /\ Holds(y) # 0

LEMMA ReadOutcome ==
    ASSUME NEW x, Fresh(x), NEW y \in HandleRead(x)
    PROVE  Outcome(x, y) /\ AfterRead(x, y)
<1>1. PICK left, first, n, z :
        /\ left = BufferSize - Count(x.r.head, x.r.tail)
        /\ first = Chunk(x.r.tail, left)
        /\ n = Smaller(left, x.s.rx)
        /\ z = [x EXCEPT !.s.rx = @ - n, !.s.in = @ + n, !.r.tail = Advance(@, n)]
  OBVIOUS
<1>2. \/ y \in (IF IsEmpty(z.r.head, z.r.tail) THEN {z} ELSE Ask(z, OnRead))
      \/ /\ "error" \in RecvEnds([x.s EXCEPT !.rx = 0])
         /\ y = [z EXCEPT !.dead = TRUE, !.garbage = IF n = 0 THEN first ELSE left - first,
                          !.lost = (n = 0 /\ first < left)]
  BY <1>1 DEF HandleRead
<1>3. x \in ConnType /\ Holds(x) <= BufferSize
  BY DEF Fresh
<1>4. /\ x.s \in Socket /\ x.s.rx \in Nat /\ Holds(x) \in Nat /\ BufferSize \in Nat
      /\ x.r.tail \in Counter
  BY <1>3, HoldsType
<1>5. left \in 0 .. BufferSize /\ left = BufferSize - Holds(x)
  BY <1>1, <1>3, <1>4 DEF Holds
<1>6. n \in Nat /\ n <= x.s.rx /\ n <= left
  BY <1>1, <1>4, <1>5 DEF Smaller
<1>7. Holds(x) + n <= BufferSize
  BY <1>3, <1>4, <1>5, <1>6
<1>8. /\ Outcome(x, z) /\ Holds(z) = Holds(x) + n /\ ~z.dead /\ ~z.lost
      /\ z.state = x.state /\ z.armed = x.armed /\ z.s.peer = x.s.peer
  <2>1. z = [x EXCEPT !.s.rx = @ - n, !.s.in = @ + n, !.r.tail = Advance(@, n)]
    BY <1>1
  <2>2. n \in Nat /\ n <= x.s.rx /\ Holds(x) + n <= BufferSize
    BY <1>6, <1>7
  <2>3. Receives(x, n, z)
    BY <2>1, <2>2 DEF Receives
  <2> QED BY <2>3, Received
<1>9. z \in ConnType
  BY <1>8 DEF Outcome
<1>10. CASE y \in (IF IsEmpty(z.r.head, z.r.tail) THEN {z} ELSE Ask(z, OnRead))
  <2>1. CASE IsEmpty(z.r.head, z.r.tail)
    BY <1>8, <1>10, <2>1 DEF AfterRead
  <2>2. CASE ~IsEmpty(z.r.head, z.r.tail)
    <3>1. y \in Ask(z, OnRead) /\ OnRead \subseteq States
      BY <1>10, <2>2, LoopAssumption
    <3>2. Asked(z, y, OnRead)
      BY <1>8, <1>9, <3>1, AskOutcome
    <3>3. Outcome(x, y)
      BY <1>8, <3>2, OutcomeAsked
    <3>4. Holds(y) # 0
      <4>1. z.r.head \in Counter /\ z.r.tail \in Counter
        BY <1>9, HoldsType
      <4>2. Count(z.r.head, z.r.tail) # 0
        BY <2>2, <4>1, EmptyCount
      <4> QED BY <3>2, <4>2 DEF Asked, Holds
    <3>5. AfterRead(x, y)
      BY <1>8, <3>2, <3>4 DEF Asked, AfterRead
    <3> QED BY <3>3, <3>5
  <2> QED BY <2>1, <2>2
<1>11. CASE /\ "error" \in RecvEnds([x.s EXCEPT !.rx = 0])
            /\ y = [z EXCEPT !.dead = TRUE, !.garbage = IF n = 0 THEN first ELSE left - first,
                             !.lost = (n = 0 /\ first < left)]
  <2>1. x.s.peer # "up"
    <3>1. PICK s : s = [x.s EXCEPT !.rx = 0]
      OBVIOUS
    <3>2. s.peer = x.s.peer
      BY <1>4, <3>1 DEF Socket
    <3>3. s.peer = "up" => RecvEnds(s) = {"again"}
      BY DEF RecvEnds
    <3> QED BY <1>11, <3>1, <3>2, <3>3
  <2>2. first \in 0 .. left
    BY <1>1, <1>4, <1>5, ChunkBounds
  <2>3. PICK g : g = IF n = 0 THEN first ELSE left - first
    OBVIOUS
  <2>4. g \in 0 .. BufferSize
    BY <1>4, <1>5, <2>2, <2>3
  <2>5. PICK l \in BOOLEAN : l = (n = 0 /\ first < left)
    OBVIOUS
  <2>6. y = [z EXCEPT !.dead = TRUE, !.garbage = g, !.lost = l]
    BY <1>11, <2>3, <2>5
  <2>7. y \in ConnType /\ y.s = z.s /\ y.r = z.r /\ y.dead
    BY <1>9, <2>4, <2>6 DEF ConnType
  <2>8. Holds(y) = Holds(z)
    BY <2>7 DEF Holds
  <2> QED BY <1>8, <2>1, <2>7, <2>8 DEF Outcome, AfterRead
<1> QED BY <1>2, <1>10, <1>11

(* It is erased; left in its state with something to send; or asked.       *)
AfterWrite(x, y) ==
    \/ y.dead
    \/ y.state = x.state /\ y.armed = x.armed /\ (Holds(y) # 0 \/ "idle" \in OnWrite)
    \/ y.state \in OnWrite /\ y.state # "idle" /\ y.armed = (y.state = "write")

LEMMA WriteOutcome ==
    ASSUME NEW x, Fresh(x), NEW y \in HandleWrite(x)
    PROVE  Outcome(x, y) /\ AfterWrite(x, y)
<1>1. PICK used, n, z :
        /\ used = Count(x.r.head, x.r.tail)
        /\ n = Smaller(used, SendRoom - x.s.tx)
        /\ z = [x EXCEPT !.s.tx = @ + n, !.s.out = @ + n, !.r.head = Advance(@, n)]
  OBVIOUS
<1>2. \/ x.s.peer = "rst" /\ y = [x EXCEPT !.dead = TRUE, !.lost = TRUE]
      \/ n = used /\ y \in Ask(z, OnWrite)
      \/ n # used /\ y = z
  BY <1>1 DEF HandleWrite
<1>3. x \in ConnType /\ ~x.dead /\ Holds(x) <= BufferSize
  BY DEF Fresh
<1>4. /\ x.s \in Socket /\ x.s.tx \in 0 .. SendRoom /\ SendRoom \in Nat
      /\ Holds(x) \in Nat /\ used = Holds(x)
  BY <1>1, <1>3, HoldsType, SocketCounts DEF Holds
<1>5. n \in Nat /\ n <= SendRoom - x.s.tx /\ n <= Holds(x) /\ (n # used => Holds(x) - n # 0)
  <2>1. PICK r, u : r = SendRoom - x.s.tx /\ u = used
    OBVIOUS
  <2>2. r \in Nat /\ u \in Nat /\ u = Holds(x)
    BY <1>4, <2>1
  <2>3. n = IF u <= r THEN u ELSE r
    BY <1>1, <2>1 DEF Smaller
  <2>4. n \in Nat /\ n <= r /\ n <= u /\ (n # u => u - n # 0)
    BY <2>2, <2>3
  <2>5. n <= SendRoom - x.s.tx
    BY <2>1, <2>4
  <2>6. n <= Holds(x) /\ (n # used => Holds(x) - n # 0)
    BY <2>1, <2>2, <2>4
  <2> QED BY <2>4, <2>5, <2>6
<1>6. /\ Outcome(x, z) /\ Holds(z) = Holds(x) - n /\ ~z.dead /\ ~z.lost
      /\ z.state = x.state /\ z.armed = x.armed /\ z.s.peer = x.s.peer
  <2>1. z = [x EXCEPT !.s.tx = @ + n, !.s.out = @ + n, !.r.head = Advance(@, n)]
    BY <1>1
  <2>2. Delivers(x, n, z)
    BY <1>5, <2>1 DEF Delivers
  <2> QED BY <2>2, Delivered
<1>7. CASE x.s.peer = "rst" /\ y = [x EXCEPT !.dead = TRUE, !.lost = TRUE]
  <2>1. y \in ConnType /\ y.s = x.s /\ y.r = x.r /\ y.dead
    BY <1>3, <1>7 DEF ConnType
  <2>2. Holds(y) = Holds(x)
    BY <2>1 DEF Holds
  <2> QED BY <1>3, <1>7, <2>1, <2>2 DEF Outcome, AfterWrite
<1>8. CASE n = used /\ y \in Ask(z, OnWrite)
  <2>1. z \in ConnType /\ OnWrite \subseteq States
    BY <1>6, LoopAssumption DEF Outcome
  <2>2. Asked(z, y, OnWrite)
    BY <1>6, <1>8, <2>1, AskOutcome
  <2>3. Outcome(x, y)
    BY <1>6, <2>2, OutcomeAsked
  <2> QED BY <1>6, <2>2, <2>3 DEF Asked, AfterWrite
<1>9. CASE n # used /\ y = z
  BY <1>5, <1>6, <1>9 DEF AfterWrite
<1> QED BY <1>2, <1>7, <1>8, <1>9
-----------------------------------------------------------------------------
(* The types, in two parts: the connections, and where the threads are.    *)
TableOK ==
    /\ sock \in [Clients -> Socket]
    /\ fdOwner \in [Fds -> Clients \cup {NoClient}]
    /\ armed \subseteq Fds
    /\ ring \in Seq(CounterPair) /\ m_pl \in Seq(1 .. Len(ring))
    /\ m_connections \in [Fds -> [state  : States \ {"die"},
                                  buffer : 1 .. Len(ring) \cup {NoBuffer}]]

ThreadsOK ==
    /\ backlog \in Seq(Clients)
    /\ m_kq \in {"none", "open", "gone"} /\ m_acceptor \in {"none", "open", "gone"}
    /\ m_running \in BOOLEAN /\ stopping \in 0 .. 3
    /\ m_events \subseteq Event /\ handled \subseteq m_events
    /\ pc \in {"start", "wait", "dispatch", "accept", "stopped", "destroyed",
               "crashed", "asserted"}
    /\ accepts \in 0 .. MaxAccepts

LEMMA TypeParts ==
    /\ TypeOK <=> TableOK /\ ThreadsOK
    /\ TypeOK' <=> TableOK' /\ ThreadsOK'
  BY DEF TypeOK, TableOK, ThreadsOK, SocketsTypeOK, PoolTypeOK, CounterPair, Buffers

TableInv == TableOK /\ PoolInv /\ HeldInv

LEMMA TableUnchanged ==
    ASSUME UNCHANGED <<fdOwner, armed, table>>
    PROVE  /\ TableOK /\ sock' \in [Clients -> Socket] => TableOK'
           /\ PoolInv => PoolInv'
           /\ HeldInv => HeldInv'
<1>1. /\ UNCHANGED <<m_connections, m_pl, ring, fdOwner, armed>>
      /\ Buffers' = Buffers /\ Len(ring') = Len(ring)
  BY DEF table, Buffers
<1>2. TableOK /\ sock' \in [Clients -> Socket] => TableOK'
  BY <1>1 DEF TableOK
<1>3. PoolInv => PoolInv'
  BY <1>1 DEF PoolInv, BufferTable, BufferOf, Known
<1>4. HeldInv => HeldInv'
  BY <1>1 DEF HeldInv, Held
<1> QED BY <1>2, <1>3, <1>4

(* A connection is erased.                                                 *)
LEMMA RemoveKeeps ==
    ASSUME TypeOK, PoolInv, HeldInv, NEW f \in Fds, Known(f),
           NEW s \in Socket, NEW garbage \in 0 .. BufferSize, RemoveConnection(f, s, garbage)
    PROVE  /\ TableInv' /\ fdOwner'[f] = NoClient /\ ~Known(f)'
           /\ \A g \in Fds : g # f => /\ fdOwner'[g] = fdOwner[g]
                                      /\ m_connections'[g] = m_connections[g]
<1>1. /\ fdOwner[f] \in Clients /\ BufferOf(f) \in 1 .. Len(ring) /\ BufferOf(f) # 0
      /\ Buffers = 1 .. Len(ring) /\ ring \in Seq(CounterPair) /\ m_pl \in Seq(1 .. Len(ring))
      /\ Len(m_pl) \in Nat
  BY KnownIsOpen, Types
<1>2. PICK b \in 1 .. Len(ring) : b = BufferOf(f)
  BY <1>1
<1>3. /\ sock' = [sock EXCEPT ![fdOwner[f]] = [s EXCEPT !.phase = "closed"]]
      /\ fdOwner' = [fdOwner EXCEPT ![f] = NoClient]
      /\ armed' = armed \ {f}
      /\ m_pl' = Append(m_pl, b)
      /\ ring' = [ring EXCEPT ![b] = [head |-> 0, tail |-> garbage]]
      /\ m_connections' = [m_connections EXCEPT ![f] = [state |-> "idle", buffer |-> NoBuffer]]
  BY <1>2 DEF RemoveConnection
<1>4. sock' \in [Clients -> Socket]
  <2>1. PICK t : t = [s EXCEPT !.phase = "closed"]
    OBVIOUS
  <2>2. t \in Socket
    BY <2>1 DEF Socket
  <2> QED BY <1>1, <1>3, <2>1, <2>2, Types
<1>5. fdOwner' \in [Fds -> Clients \cup {NoClient}] /\ armed' \subseteq Fds
  <2>1. armed \subseteq Fds
    BY DEF TypeOK
  <2> QED BY <1>3, <2>1, Types
<1>6. PICK e : e = [head |-> 0, tail |-> garbage]
  OBVIOUS
<1>7. e \in CounterPair /\ Count(e.head, e.tail) = garbage /\ garbage <= BufferSize
  <2>1. 0 \in Counter /\ garbage \in Counter /\ garbage \in Nat /\ garbage <= BufferSize
    BY CounterFacts, SMT DEF Counter
  <2>2. Count(0, garbage) = garbage
    BY <2>1, CountCases
  <2> QED BY <1>6, <2>1, <2>2 DEF CounterPair
<1>8. /\ ring' \in Seq(CounterPair) /\ Len(ring') = Len(ring) /\ ring'[b] = e
      /\ \A d \in 1 .. Len(ring) : d # b => ring'[d] = ring[d]
  BY <1>1, <1>2, <1>3, <1>6, <1>7, OneRing
<1>9. HeldInv'
  <2>1. \A d \in 1 .. Len(ring) : Held(d) <= BufferSize
    BY <1>1 DEF HeldInv
  <2>2. ASSUME NEW d \in 1 .. Len(ring)
        PROVE  Count(ring'[d].head, ring'[d].tail) <= BufferSize
    BY <1>7, <1>8, <2>1 DEF Held
  <2> QED BY <1>8, <2>2 DEF HeldInv, Buffers, Held
<1>10. /\ m_connections \in [Fds -> [state : States \ {"die"},
                                     buffer : 1 .. Len(ring) \cup {NoBuffer}]]
  BY <1>1 DEF TypeOK
<1>11. /\ m_connections' \in [Fds -> [state : States \ {"die"},
                                      buffer : 1 .. Len(ring') \cup {NoBuffer}]]
       /\ m_connections'[f].buffer = NoBuffer
       /\ \A g \in Fds : g # f => m_connections'[g] = m_connections[g]
  BY <1>3, <1>8, <1>10 DEF States
<1>12. fdOwner'[f] = NoClient /\ \A g \in Fds : g # f => fdOwner'[g] = fdOwner[g]
  BY <1>3, Types
<1>13. /\ m_pl' \in Seq(1 .. Len(ring')) /\ Len(m_pl') = Len(m_pl) + 1
       /\ \A i \in 1 .. Len(m_pl) : m_pl'[i] = m_pl[i]
       /\ m_pl'[Len(m_pl) + 1] = b
  BY <1>1, <1>2, <1>3, <1>8, AppendProperties
<1>14. Conserved(m_pl', Len(m_pl'), Len(ring'), Fds, BufferTable')
  <2>1. /\ BufferTable[f] # 0 /\ BufferTable[f] = b /\ BufferTable'[f] = 0
        /\ \A g \in Fds : g # f => BufferTable'[g] = BufferTable[g]
    BY <1>1, <1>2, <1>11 DEF BufferTable, BufferOf, NoBuffer
  <2>2. Conserved(m_pl, Len(m_pl), Len(ring), Fds, BufferTable)
    BY DEF PoolInv
  <2>3. PICK p, k, n, u, t : /\ p = m_pl' /\ k = Len(m_pl) /\ n = Len(ring)
                             /\ u = BufferTable /\ t = BufferTable'
    OBVIOUS
  <2>4. (\A i \in 1 .. k : p[i] = m_pl[i]) /\ p[k + 1] = u[f]
    BY <1>13, <2>1, <2>3
  <2>5. /\ Conserved(m_pl, k, n, Fds, u) /\ u[f] # 0 /\ t[f] = 0
        /\ \A g \in Fds : g # f => t[g] = u[g]
    BY <2>1, <2>2, <2>3
  <2>6. Conserved(p, k + 1, n, Fds, t)
    BY <2>4, <2>5, ConservedPush
  <2> QED BY <1>8, <1>13, <2>3, <2>6
<1>15. ~Known(f)' /\ \A g \in Fds : g # f => Known(g)' = Known(g)
  BY <1>11 DEF Known, BufferOf
<1>16. PoolInv'
  <2>1. \A g \in armed' : g # f /\ Known(g) /\ g \in Fds
    BY <1>3 DEF PoolInv, TypeOK
  <2>2. \A g \in Fds : Known(g)' <=> fdOwner'[g] # NoClient
    BY <1>12, <1>15 DEF PoolInv
  <2>3. \A g \in armed' : Known(g)'
    BY <1>15, <2>1
  <2> QED BY <1>14, <2>2, <2>3 DEF PoolInv
<1> QED BY <1>4, <1>5, <1>8, <1>9, <1>11, <1>12, <1>13, <1>15, <1>16 DEF TableInv, TableOK

(* A connection is put back into the table as a handler left it.           *)
Back(f, x) ==
    /\ sock' = [sock EXCEPT ![fdOwner[f]] = x.s]
    /\ armed' = IF x.armed THEN armed \cup {f} ELSE armed \ {f}
    /\ ring' = [ring EXCEPT ![BufferOf(f)] = x.r]
    /\ m_connections' = [m_connections EXCEPT ![f].state = x.state]
    /\ UNCHANGED <<fdOwner, m_pl>>

LEMMA BackKeeps ==
    ASSUME TypeOK, PoolInv, HeldInv, NEW f \in Fds, Known(f),
           NEW x \in ConnType, Holds(x) <= BufferSize, Back(f, x)
    PROVE  /\ TableInv' /\ fdOwner' = fdOwner
           /\ m_connections'[f].state = x.state
           /\ \A g \in Fds : BufferOf(g)' = BufferOf(g)
           /\ \A g \in Fds : g # f => m_connections'[g] = m_connections[g]
           /\ Len(ring') = Len(ring) /\ ring'[BufferOf(f)] = x.r
           /\ \A b \in 1 .. Len(ring) : b # BufferOf(f) => ring'[b] = ring[b]
<1>1. /\ fdOwner[f] \in Clients /\ BufferOf(f) \in 1 .. Len(ring)
      /\ Buffers = 1 .. Len(ring) /\ ring \in Seq(CounterPair) /\ m_pl \in Seq(1 .. Len(ring))
  BY KnownIsOpen, Types
<1>2. PICK b \in 1 .. Len(ring) : b = BufferOf(f)
  BY <1>1
<1>3. /\ sock' = [sock EXCEPT ![fdOwner[f]] = x.s]
      /\ armed' = IF x.armed THEN armed \cup {f} ELSE armed \ {f}
      /\ ring' = [ring EXCEPT ![b] = x.r]
      /\ m_connections' = [m_connections EXCEPT ![f].state = x.state]
      /\ UNCHANGED <<fdOwner, m_pl>>
  BY <1>2 DEF Back
<1>4. x.s \in Socket /\ x.r \in CounterPair /\ x.state \in States \ {"die"}
  BY DEF ConnType
<1>5. sock' \in [Clients -> Socket] /\ armed' \subseteq Fds
  <2>1. armed \subseteq Fds
    BY DEF TypeOK
  <2> QED BY <1>1, <1>3, <1>4, <2>1, Types
<1>6. /\ ring' \in Seq(CounterPair) /\ Len(ring') = Len(ring) /\ ring'[b] = x.r
      /\ \A d \in 1 .. Len(ring) : d # b => ring'[d] = ring[d]
  BY <1>1, <1>2, <1>3, <1>4, OneRing
<1>7. HeldInv'
  <2>1. \A d \in 1 .. Len(ring) : Held(d) <= BufferSize
    BY <1>1 DEF HeldInv
  <2>2. ASSUME NEW d \in 1 .. Len(ring)
        PROVE  Count(ring'[d].head, ring'[d].tail) <= BufferSize
    BY <1>6, <2>1 DEF Held, Holds
  <2> QED BY <1>6, <2>2 DEF HeldInv, Buffers, Held
<1>8. m_connections \in [Fds -> [state : States \ {"die"},
                                 buffer : 1 .. Len(ring) \cup {NoBuffer}]]
  BY <1>1 DEF TypeOK
<1>9. /\ m_connections' \in [Fds -> [state : States \ {"die"},
                                     buffer : 1 .. Len(ring') \cup {NoBuffer}]]
      /\ m_connections'[f].state = x.state
      /\ \A g \in Fds : m_connections'[g].buffer = m_connections[g].buffer
      /\ \A g \in Fds : g # f => m_connections'[g] = m_connections[g]
  BY <1>3, <1>4, <1>6, <1>8
<1>10. \A g \in Fds : BufferOf(g)' = BufferOf(g) /\ Known(g)' = Known(g)
  BY <1>9 DEF BufferOf, Known
<1>11. BufferTable' = BufferTable
  BY <1>10 DEF BufferTable
<1>12. PoolInv'
  <2>1. Conserved(m_pl', Len(m_pl'), Len(ring'), Fds, BufferTable')
    BY <1>3, <1>6, <1>11 DEF PoolInv
  <2>2. \A g \in Fds : Known(g)' <=> fdOwner'[g] # NoClient
    BY <1>3, <1>10 DEF PoolInv
  <2>3. \A g \in armed' : g \in Fds /\ Known(g)
    BY <1>3 DEF PoolInv, TypeOK
  <2>4. \A g \in armed' : Known(g)'
    BY <1>10, <2>3
  <2> QED BY <2>1, <2>2, <2>4 DEF PoolInv
<1> QED BY <1>1, <1>2, <1>3, <1>5, <1>6, <1>7, <1>9, <1>10, <1>12, Types DEF TableInv, TableOK
-----------------------------------------------------------------------------
(* Every event is of the listening socket or of a descriptor.              *)
LEMMA EventTypes ==
    ASSUME TypeOK, NEW e \in m_events
    PROVE  /\ e.fd \in Fds \/ e.fd = Listen
           /\ Listen \notin Fds /\ e.eof \in BOOLEAN
           /\ e.filter \in {"READ", "WRITE"} /\ e.to \in Clients \cup {NoClient}
  BY SocketAssumption DEF TypeOK, Event, Listen

(* Within a batch only what is closed, or accepted in its place, changes.  *)
LEMMA EventsAfter ==
    ASSUME TypeOK, EventsInv, m_events' = m_events, handled \subseteq handled',
           \A d \in m_events \ handled' : d.fd \in Fds =>
                fdOwner'[d.fd] = fdOwner[d.fd] \/ \E e \in handled' : e.fd = d.fd
    PROVE  EventsInv'
<1>1. ASSUME NEW d \in m_events' \ handled'
      PROVE  d.fd = Listen \/ fdOwner'[d.fd] = d.to \/ \E e \in handled' : e.fd = d.fd
  <2>1. d \in m_events \ handled
    BY <1>1
  <2>2. d.fd = Listen \/ fdOwner[d.fd] = d.to \/ \E e \in handled : e.fd = d.fd
    BY <2>1 DEF EventsInv, EventsAreCurrent
  <2> QED BY <1>1, <2>1, <2>2, EventTypes
<1> QED BY <1>1 DEF EventsInv, EventsAreCurrent

(* A new batch, of what is open.                                           *)
LEMMA PendingTypes ==
    ASSUME TypeOK, PoolInv, NEW e \in Pending
    PROVE  /\ e \in Event
           /\ \/ e.fd = Listen /\ ~e.eof /\ e.filter = "READ"
              \/ /\ e.fd \in Fds /\ Known(e.fd) /\ e.to = fdOwner[e.fd] /\ e.to # NoClient
                 /\ e.filter = "READ" => sock[e.to].rx > 0 \/ sock[e.to].peer # "up"
                 /\ e.filter = "WRITE" => e.fd \in armed
                 /\ e.eof => sock[e.to].peer # "up"
<1>1. /\ armed \subseteq Fds /\ Listen \notin Fds
      /\ \A f \in Fds : Known(f) <=> fdOwner[f] # NoClient
      /\ \A f \in armed : Known(f)
      /\ \A f \in Fds : fdOwner[f] \in Clients \cup {NoClient}
  BY SocketAssumption, Types DEF TypeOK, PoolInv, Listen
<1>2. CASE \E f \in {g \in Fds \ FreeFds : sock[fdOwner[g]].rx > 0 \/ sock[fdOwner[g]].peer # "up"} :
             e = [fd |-> f, filter |-> "READ", eof |-> sock[fdOwner[f]].peer # "up",
                  to |-> fdOwner[f]]
  <2>1. PICK f \in Fds : /\ fdOwner[f] # NoClient
                         /\ sock[fdOwner[f]].rx > 0 \/ sock[fdOwner[f]].peer # "up"
                         /\ e = [fd |-> f, filter |-> "READ",
                                 eof |-> sock[fdOwner[f]].peer # "up", to |-> fdOwner[f]]
    BY <1>2 DEF FreeFds
  <2>2. PICK u : u = (sock[fdOwner[f]].peer # "up")
    OBVIOUS
  <2>3. u \in BOOLEAN
    BY <2>2
  <2>4. e.fd = f /\ e.filter = "READ" /\ e.eof = u /\ e.to = fdOwner[f] /\ e \in Event
    BY <1>1, <2>1, <2>2, <2>3 DEF Event
  <2> QED BY <1>1, <2>1, <2>2, <2>4
<1>3. CASE \E f \in {g \in armed : sock[fdOwner[g]].tx < SendRoom \/ sock[fdOwner[g]].peer = "rst"} :
             e = [fd |-> f, filter |-> "WRITE", eof |-> sock[fdOwner[f]].peer = "rst",
                  to |-> fdOwner[f]]
  <2>1. PICK f \in armed : e = [fd |-> f, filter |-> "WRITE",
                                eof |-> sock[fdOwner[f]].peer = "rst", to |-> fdOwner[f]]
    BY <1>3
  <2>2. PICK u : u = (sock[fdOwner[f]].peer = "rst")
    OBVIOUS
  <2>3. u \in BOOLEAN /\ f \in Fds /\ Known(f) /\ fdOwner[f] # NoClient
    BY <1>1, <2>2
  <2>4. e.fd = f /\ e.filter = "WRITE" /\ e.eof = u /\ e.to = fdOwner[f] /\ e \in Event
    BY <1>1, <2>1, <2>2, <2>3 DEF Event
  <2> QED BY <2>1, <2>2, <2>3, <2>4
<1>4. CASE e = [fd |-> Listen, filter |-> "READ", eof |-> FALSE, to |-> NoClient]
  BY <1>4 DEF Event
<1> QED BY <1>2, <1>3, <1>4 DEF Pending

(* The queue and the acceptor go in their order.                           *)
LEMMA ObjectsKept ==
    ASSUME TypeOK, ObjectsInv, Running, UNCHANGED <<m_kq, m_acceptor, stopping>>,
           pc' # "start", pc' = "crashed" => m_acceptor = "gone" \/ SomebodyLeft'
    PROVE  ObjectsInv'
<1>1. stopping \in 0 .. 3
  BY DEF TypeOK
<1>2. m_acceptor = "gone" => m_kq = "gone"
  <2> SUFFICES ASSUME m_acceptor = "gone" PROVE m_kq = "gone"
    OBVIOUS
  <2>1. m_acceptor # "open"
    OBVIOUS
  <2>2. ~(stopping < 3)
    BY <2>1 DEF ObjectsInv
  <2>3. stopping >= 2
    BY <1>1, <2>2
  <2> QED BY <2>3 DEF ObjectsInv
<1>3. Running' => /\ stopping' < 2 => m_kq' = "open"
                  /\ stopping' >= 2 => m_kq' = "gone"
                  /\ stopping' < 3 => m_acceptor' = "open"
  BY DEF ObjectsInv
<1> QED BY <1>2, <1>3 DEF ObjectsInv

(* Steps that leave the connections alone.                                 *)
LEMMA QuietTable ==
    ASSUME IInv, UNCHANGED <<sock, fdOwner, armed, table>>
    PROVE  TableOK' /\ HeldInv' /\ (pc # "destroyed" => PoolInv') /\ ThreadsOK
<1>1. TableOK /\ ThreadsOK /\ sock' \in [Clients -> Socket]
  BY TypeParts, Types DEF IInv
<1> QED BY <1>1, TableUnchanged DEF IInv

LEMMA Unchanged ==
    ASSUME IInv, UNCHANGED vars
    PROVE  IInv'
<1>1. UNCHANGED <<sock, fdOwner, armed, table>>
      /\ UNCHANGED <<backlog, m_kq, m_acceptor, m_running, stopping, m_events, handled, pc, accepts>>
  BY DEF vars, sockets, objects
<1>2. TableOK' /\ HeldInv' /\ (pc # "destroyed" => PoolInv') /\ ThreadsOK
  BY <1>1, QuietTable
<1>3. ThreadsOK'
  BY <1>1, <1>2 DEF ThreadsOK
<1>4. EventsInv' /\ ObjectsInv'
  BY <1>1 DEF IInv, EventsInv, EventsAreCurrent, ObjectsInv, Running, SomebodyLeft
<1> QED BY <1>1, <1>2, <1>3, <1>4, TypeParts DEF IInv

LEMMA StartAndStop ==
    ASSUME IInv, SetUp \/ SetUpFails \/ Stop \/ LeaveLoop \/ Destroy \/ Rests
    PROVE  IInv'
<1> USE DEF objects, sockets
<1>1. stopping \in 0 .. 3 /\ TypeOK /\ ObjectsInv /\ EventsInv
  BY DEF IInv, TypeOK
<1>2. CASE SetUp \/ SetUpFails
  <2>1. UNCHANGED <<sock, fdOwner, armed, table>> /\ pc = "start" /\ pc # "destroyed"
    BY <1>2 DEF SetUp, SetUpFails
  <2>2. ThreadsOK'
    BY <1>2, <2>1, QuietTable DEF SetUp, SetUpFails, ThreadsOK
  <2>3. EventsInv'
    BY <1>1, <1>2 DEF SetUp, SetUpFails, EventsInv, EventsAreCurrent
  <2>4. stopping' = 0
    BY <1>1, <1>2, <2>1 DEF SetUp, SetUpFails, ObjectsInv
  <2>5. ObjectsInv'
    BY <1>2, <2>4 DEF SetUp, SetUpFails, ObjectsInv, Running
  <2> QED BY <2>1, <2>2, <2>3, <2>5, QuietTable, TypeParts DEF IInv
<1>3. CASE Stop
  <2>1. /\ UNCHANGED <<sock, fdOwner, armed, table, m_events, handled, pc>>
        /\ pc \notin {"start", "destroyed", "crashed"} /\ stopping < 3 /\ stopping' = stopping + 1
        /\ m_kq' = IF stopping = 1 /\ m_kq = "open" THEN "gone" ELSE m_kq
        /\ m_acceptor' = IF stopping = 2 /\ m_acceptor = "open" THEN "gone" ELSE m_acceptor
    BY <1>3 DEF Stop
  <2>2. ThreadsOK'
    <3>1. stopping' \in 0 .. 3
      BY <1>1, <2>1
    <3> QED BY <1>3, <2>1, <3>1, QuietTable DEF Stop, ThreadsOK
  <2>3. EventsInv'
    BY <1>1, <2>1 DEF EventsInv, EventsAreCurrent
  <2>4. ObjectsInv'
    <3>1. ASSUME Running
          PROVE  /\ stopping' < 2 => m_kq' = "open"
                 /\ stopping' >= 2 => m_kq' = "gone"
                 /\ stopping' < 3 => m_acceptor' = "open"
      <4>1. /\ stopping < 2 => m_kq = "open"
            /\ stopping >= 2 => m_kq = "gone"
            /\ stopping < 3 => m_acceptor = "open"
        BY <1>1, <3>1 DEF ObjectsInv
      <4>2. stopping = 0 \/ stopping = 1 \/ stopping = 2
        BY <1>1, <2>1
      <4> QED BY <2>1, <4>1, <4>2
    <3>2. Running' <=> Running
      BY <2>1 DEF Running
    <3> QED BY <2>1, <3>1, <3>2 DEF ObjectsInv
  <2> QED BY <2>1, <2>2, <2>3, <2>4, QuietTable, TypeParts DEF IInv
<1>4. CASE LeaveLoop
  <2>1. UNCHANGED <<sock, fdOwner, armed, table, m_kq, m_acceptor, stopping>> /\ Running
        /\ pc = "wait" /\ pc' = "stopped"
    BY <1>4 DEF LeaveLoop, Running
  <2>2. ThreadsOK'
    BY <1>4, <2>1, QuietTable DEF LeaveLoop, ThreadsOK
  <2>3. EventsInv'
    BY <1>1, <1>4 DEF LeaveLoop, EventsInv, EventsAreCurrent
  <2>4. ObjectsInv'
    BY <1>1, <2>1, ObjectsKept
  <2> QED BY <2>1, <2>2, <2>3, <2>4, QuietTable, TypeParts DEF IInv
<1>5. CASE Destroy
  <2>1. UNCHANGED <<sock, fdOwner, armed, m_connections, ring>> /\ m_pl' = <<>>
        /\ pc' = "destroyed"
    BY <1>5 DEF Destroy
  <2>2. TableOK'
    <3>1. TableOK
      BY <1>1, TypeParts
    <3>2. m_pl' \in Seq(1 .. Len(ring'))
      BY <2>1
    <3> QED BY <2>1, <3>1, <3>2 DEF TableOK
  <2>3. ThreadsOK'
    BY <1>1, <1>5, TypeParts DEF Destroy, ThreadsOK
  <2>4. EventsInv'
    BY <1>1, <1>5 DEF Destroy, EventsInv, EventsAreCurrent
  <2>5. ObjectsInv' /\ HeldInv'
    BY <2>1 DEF ObjectsInv, Running, IInv, HeldInv, Held, Buffers
  <2> QED BY <2>1, <2>2, <2>3, <2>4, <2>5, TypeParts DEF IInv
<1>6. CASE Rests
  <2>1. UNCHANGED vars
    BY <1>6 DEF Rests
  <2> QED BY <2>1, Unchanged
<1> QED BY <1>2, <1>3, <1>4, <1>5, <1>6
(* Steps of the loop that leave the connections alone.                     *)
LEMMA BatchSteps ==
    ASSUME IInv, Kevent \/ KeventFails \/ EndOfBatch \/ DispatchLost \/ DispatchAccept \/ AcceptEnds
    PROVE  IInv'
<1> USE DEF objects, sockets
<1>1. TypeOK /\ ObjectsInv /\ EventsInv
  BY DEF IInv
<1>2. /\ Running /\ UNCHANGED <<sock, backlog, fdOwner, armed, table, m_kq, m_acceptor, stopping>>
      /\ pc' # "start" /\ pc' # "destroyed" /\ pc # "destroyed"
      /\ pc' = "crashed" => m_acceptor = "gone"
  BY DEF Kevent, KeventFails, EndOfBatch, DispatchLost, DispatchAccept, Dispatch, AcceptEnds, Running
<1>3. TableOK' /\ HeldInv' /\ PoolInv' /\ ThreadsOK /\ PoolInv
  BY <1>2, QuietTable DEF IInv
<1>4. ObjectsInv'
  BY <1>1, <1>2, ObjectsKept
<1>5. CASE Kevent
  <2>1. m_events' = Pending /\ handled' = {} /\ pc' = "dispatch" /\ UNCHANGED <<m_running, accepts>>
    BY <1>5 DEF Kevent
  <2>2. ThreadsOK'
    BY <1>1, <1>2, <1>3, <2>1, PendingTypes DEF ThreadsOK
  <2>3. EventsInv'
    <3>1. ASSUME NEW e \in Pending
          PROVE  /\ e.fd = Listen \/ fdOwner[e.fd] = e.to
                 /\ IF e.fd = Listen THEN ~e.eof ELSE e.to # NoClient
      <4>1. Listen \notin Fds
        BY SocketAssumption DEF Listen
      <4> QED BY <1>1, <1>3, <4>1, PendingTypes
    <3> QED BY <1>2, <2>1, <3>1 DEF EventsInv, EventsAreCurrent
  <2> QED BY <1>3, <1>4, <2>2, <2>3, TypeParts DEF IInv
<1>6. CASE KeventFails \/ AcceptEnds
  <2>1. UNCHANGED <<m_events, handled>>
    BY <1>6 DEF KeventFails, AcceptEnds
  <2>2. ThreadsOK'
    BY <1>2, <1>3, <1>6, <2>1 DEF KeventFails, AcceptEnds, ThreadsOK
  <2>3. EventsInv'
    BY <1>1, <1>2, <2>1 DEF EventsInv, EventsAreCurrent
  <2> QED BY <1>3, <1>4, <2>2, <2>3, TypeParts DEF IInv
<1>7. CASE EndOfBatch
  <2>1. m_events' = {} /\ handled' = {} /\ pc' = "wait" /\ UNCHANGED <<m_running, accepts>>
    BY <1>7 DEF EndOfBatch
  <2>2. ThreadsOK'
    BY <1>2, <1>3, <2>1 DEF ThreadsOK
  <2>3. EventsInv'
    BY <2>1 DEF EventsInv, EventsAreCurrent
  <2> QED BY <1>3, <1>4, <2>2, <2>3, TypeParts DEF IInv
<1>8. CASE DispatchLost \/ DispatchAccept
  <2>1. PICK e \in m_events : Dispatch(e)
    BY <1>8 DEF DispatchLost, DispatchAccept
  <2>2. m_events' = m_events /\ handled' = handled \cup {e} /\ m_running' = m_running
    BY <2>1 DEF Dispatch
  <2>3. ThreadsOK'
    <3>1. /\ pc' \in {"accept", "crashed"}
          /\ accepts' = accepts \/ accepts' = 0
          /\ 0 \in 0 .. MaxAccepts
      BY <1>8, LoopAssumption DEF DispatchLost, DispatchAccept
    <3> QED BY <1>2, <1>3, <2>1, <2>2, <3>1 DEF ThreadsOK
  <2>4. EventsInv'
    BY <1>1, <1>2, <2>2, EventsAfter
  <2> QED BY <1>3, <1>4, <2>3, <2>4, TypeParts DEF IInv
<1> QED BY <1>5, <1>6, <1>7, <1>8

(* A client's step.                                                        *)
LEMMA PeerStep ==
    ASSUME IInv, NEW c \in Clients, PeerActs(c)
    PROVE  IInv'
<1>1. /\ Running
      /\ UNCHANGED <<fdOwner, armed, table, objects, m_events, handled, pc, accepts>>
      /\ \/ Connects(c)
         \/ (Sends(c) \/ Reads(c) \/ Closes(c) \/ Resets(c)) /\ UNCHANGED backlog
  BY DEF PeerActs, PeerReads, Peer
<1>2. UNCHANGED <<m_kq, m_acceptor, m_running, stopping>> /\ pc # "destroyed" /\ pc # "start"
      /\ pc # "crashed"
  BY <1>1 DEF objects, Running
<1>3. TypeOK /\ TableOK /\ ThreadsOK /\ PoolInv /\ HeldInv /\ EventsInv /\ ObjectsInv
  BY <1>2, TypeParts DEF IInv
<1>4. sock' \in [Clients -> Socket] /\ backlog' \in Seq(Clients)
  BY <1>1, <1>3, Types, ClientTypes
<1>5. TableOK' /\ PoolInv' /\ HeldInv'
  BY <1>1, <1>3, <1>4, TableUnchanged
<1>6. ThreadsOK'
  BY <1>1, <1>2, <1>3, <1>4 DEF ThreadsOK
<1>7. EventsInv'
  BY <1>1, <1>3 DEF EventsInv, EventsAreCurrent
<1>8. ObjectsInv'
  BY <1>1, <1>2, <1>3, ObjectsKept
<1> QED BY <1>5, <1>6, <1>7, <1>8, TypeParts DEF IInv
-----------------------------------------------------------------------------
LEMMA FreshConnection ==
    ASSUME TypeOK, PoolInv, HeldInv, NEW f \in Fds, Known(f)
    PROVE  /\ Fresh(Conn(f)) /\ Conn(f).s = sock[fdOwner[f]] /\ Conn(f).r = ring[BufferOf(f)]
           /\ Conn(f).state = m_connections[f].state /\ Conn(f).armed = (f \in armed)
           /\ Holds(Conn(f)) = Held(BufferOf(f))
<1>1. /\ sock[fdOwner[f]] \in Socket /\ ring[BufferOf(f)] \in CounterPair
      /\ BufferOf(f) \in Buffers
  BY KnownIsOpen, Types
<1>2. m_connections[f].state \in States \ {"die"} /\ Held(BufferOf(f)) <= BufferSize
  BY <1>1 DEF TypeOK, HeldInv
<1>3. PICK a : a = (f \in armed)
  OBVIOUS
<1>4. PICK x : x = Conn(f)
  OBVIOUS
<1>5. x = [s |-> sock[fdOwner[f]], r |-> ring[BufferOf(f)], state |-> m_connections[f].state,
           armed |-> a, dead |-> FALSE, garbage |-> 0, lost |-> FALSE]
  BY <1>3, <1>4 DEF Conn
<1>6. /\ x.s = sock[fdOwner[f]] /\ x.r = ring[BufferOf(f)] /\ x.state = m_connections[f].state
      /\ x.armed = a /\ x.dead = FALSE /\ x.garbage = 0 /\ x.lost = FALSE
  BY <1>5
<1>7. 0 \in 0 .. BufferSize
  BY CounterFacts, SMT
<1>8. x \in ConnType
  <2>1. a \in BOOLEAN
    BY <1>3
  <2> QED BY <1>1, <1>2, <1>5, <1>7, <2>1 DEF ConnType
<1>9. Holds(x) = Held(BufferOf(f))
  BY <1>6 DEF Holds, Held
<1> QED BY <1>2, <1>3, <1>4, <1>6, <1>8, <1>9 DEF Fresh

(* One event of a connection is dispatched and its connection erased ...   *)
LEMMA ErasedStep ==
    ASSUME IInv, NEW e \in m_events, Dispatch(e), Known(e.fd), e.fd \in Fds,
           NEW s \in Socket, NEW garbage \in 0 .. BufferSize,
           RemoveConnection(e.fd, s, garbage), UNCHANGED accepts,
           pc' = pc \/ (pc' = "crashed" /\ s.peer # "up")
    PROVE  IInv'
<1>1. /\ pc = "dispatch" /\ m_events' = m_events /\ handled' = handled \cup {e}
      /\ UNCHANGED <<backlog, m_kq, m_acceptor, m_running, stopping>>
  BY DEF Dispatch, objects
<1>2. TypeOK /\ PoolInv /\ HeldInv /\ EventsInv /\ ObjectsInv /\ ThreadsOK
  BY <1>1, TypeParts DEF IInv
<1>3. /\ TableInv' /\ \A g \in Fds : g # e.fd => fdOwner'[g] = fdOwner[g]
  BY <1>2, RemoveKeeps
<1>4. ThreadsOK'
  BY <1>1, <1>2 DEF ThreadsOK
<1>5. EventsInv'
  BY <1>1, <1>2, <1>3, EventsAfter
<1>6. s.peer # "up" => SomebodyLeft'
  <2>1. PICK c \in Clients : c = fdOwner[e.fd]
    BY <1>2, KnownIsOpen
  <2>2. PICK t : t = [s EXCEPT !.phase = "closed"]
    OBVIOUS
  <2>3. sock' = [sock EXCEPT ![c] = t]
    BY <2>1, <2>2 DEF RemoveConnection
  <2>4. sock'[c] = t /\ t.peer = s.peer
    BY <1>2, <2>2, <2>3, Types DEF Socket
  <2> QED BY <2>4 DEF SomebodyLeft
<1>7. ObjectsInv'
  BY <1>1, <1>2, <1>6, ObjectsKept DEF Running
<1> QED BY <1>3, <1>4, <1>5, <1>7, TypeParts DEF IInv, TableInv

(* ... or put back.                                                        *)
LEMMA BackStep ==
    ASSUME IInv, NEW e \in m_events, Dispatch(e), Known(e.fd), e.fd \in Fds,
           NEW x \in ConnType, Holds(x) <= BufferSize, Back(e.fd, x), UNCHANGED <<pc, accepts>>
    PROVE  IInv'
<1>1. /\ pc = "dispatch" /\ m_events' = m_events /\ handled' = handled \cup {e}
      /\ UNCHANGED <<backlog, m_kq, m_acceptor, m_running, stopping>>
  BY DEF Dispatch, objects
<1>2. TypeOK /\ PoolInv /\ HeldInv /\ EventsInv /\ ObjectsInv /\ ThreadsOK
  BY <1>1, TypeParts DEF IInv
<1>3. TableInv' /\ fdOwner' = fdOwner
  BY <1>2, BackKeeps
<1>4. ThreadsOK'
  BY <1>1, <1>2 DEF ThreadsOK
<1>5. EventsInv'
  BY <1>1, <1>2, <1>3, EventsAfter
<1>6. ObjectsInv'
  BY <1>1, <1>2, ObjectsKept DEF Running
<1> QED BY <1>3, <1>4, <1>5, <1>6, TypeParts DEF IInv, TableInv
(* What handling an event of a connection may do.                          *)
LEMMA HandleCases ==
    ASSUME NEW e, NEW state, NEW outcomes, Handle(e, state, outcomes)
    PROVE  \/ ~Known(e.fd) /\ UNCHANGED <<sock, fdOwner, armed, table, pc>>
           \/ /\ Known(e.fd) /\ m_connections[e.fd].state # state
              /\ pc' = "asserted" /\ UNCHANGED <<sock, fdOwner, armed, table>>
           \/ /\ Known(e.fd) /\ m_connections[e.fd].state = state
              /\ \E x \in outcomes : Done(e.fd, x)
  BY DEF Handle

(* An event that finds no connection, or one in another state.             *)
LEMMA IdleStep ==
    ASSUME IInv, NEW e \in m_events, Dispatch(e), UNCHANGED <<sock, fdOwner, armed, table, accepts>>,
           pc' \in {pc, "asserted"}
    PROVE  IInv'
<1>1. /\ pc = "dispatch" /\ m_events' = m_events /\ handled' = handled \cup {e}
      /\ UNCHANGED <<backlog, m_kq, m_acceptor, m_running, stopping>>
  BY DEF Dispatch, objects
<1>2. TableOK' /\ HeldInv' /\ PoolInv' /\ ThreadsOK /\ TypeOK /\ EventsInv /\ ObjectsInv
  BY <1>1, QuietTable DEF IInv
<1>3. ThreadsOK'
  BY <1>1, <1>2 DEF ThreadsOK
<1>4. EventsInv'
  BY <1>1, <1>2, EventsAfter
<1>5. ObjectsInv'
  BY <1>1, <1>2, ObjectsKept DEF Running
<1> QED BY <1>2, <1>3, <1>4, <1>5, TypeParts DEF IInv

LEMMA HandledStep ==
    ASSUME IInv, NEW e \in m_events, NEW state, NEW outcomes, Handle(e, state, outcomes),
           NEW known, known = (e.fd \in Fds /\ Known(e.fd)),
           known => \A x \in outcomes : Outcome(Conn(e.fd), x)
    PROVE  IInv'
<1>1. e.fd # Listen /\ Dispatch(e) /\ UNCHANGED accepts
  BY DEF Handle
<1>2. pc = "dispatch" /\ TypeOK /\ PoolInv /\ HeldInv /\ e.fd \in Fds
  BY <1>1, EventTypes DEF IInv, Dispatch
<1>3. CASE /\ UNCHANGED <<sock, fdOwner, armed, table>> /\ pc' \in {pc, "asserted"}
  BY <1>1, <1>3, IdleStep
<1>4. ASSUME Known(e.fd), NEW x \in outcomes, Done(e.fd, x)
      PROVE  IInv'
  <2>1. Outcome(Conn(e.fd), x)
    BY <1>2, <1>4
  <2>2. /\ x \in ConnType /\ Holds(x) <= BufferSize
        /\ x.lost => x.dead /\ x.s.peer # "up"
    BY <2>1 DEF Outcome
  <2>3. x.s \in Socket /\ x.garbage \in 0 .. BufferSize /\ x.lost \in BOOLEAN /\ x.dead \in BOOLEAN
    BY <2>2 DEF ConnType
  <2>4. CASE x.dead
    <3>1. RemoveConnection(e.fd, x.s, x.garbage) /\ pc' = IF x.lost THEN "crashed" ELSE pc
      BY <1>4, <2>4 DEF Done
    <3> QED BY <1>1, <1>2, <1>4, <2>2, <2>3, <3>1, ErasedStep
  <2>5. CASE ~x.dead
    <3>1. Back(e.fd, x) /\ pc' = pc
      BY <1>4, <2>2, <2>5 DEF Done, Back
    <3> QED BY <1>1, <1>2, <1>4, <2>2, <3>1, BackStep
  <2> QED BY <2>3, <2>4, <2>5
<1> QED BY <1>3, <1>4, HandleCases

LEMMA DispatchSteps ==
    ASSUME IInv, DispatchEof \/ DispatchRead \/ DispatchWrite
    PROVE  IInv'
<1>1. CASE DispatchEof
  <2>1. PICK e \in m_events :
          /\ e.eof /\ Dispatch(e)
          /\ IF Known(e.fd) THEN RemoveConnection(e.fd, sock[fdOwner[e.fd]], 0)
             ELSE UNCHANGED <<sock, fdOwner, armed, table>>
    BY <1>1 DEF DispatchEof, Erases
  <2>2. UNCHANGED <<pc, accepts>> /\ pc = "dispatch" /\ TypeOK /\ PoolInv
    BY <1>1, <2>1 DEF DispatchEof, Dispatch, IInv
  <2>3. e.fd \in Fds
    BY <2>1, <2>2, EventTypes DEF IInv, EventsInv
  <2>4. CASE Known(e.fd)
    <3>1. sock[fdOwner[e.fd]] \in Socket /\ 0 \in 0 .. BufferSize
      BY <2>2, <2>3, <2>4, KnownIsOpen, CounterFacts
    <3> QED BY <2>1, <2>2, <2>3, <2>4, <3>1, ErasedStep
  <2>5. CASE ~Known(e.fd)
    BY <2>1, <2>2, <2>5, IdleStep
  <2> QED BY <2>4, <2>5
<1>2. CASE DispatchRead
  <2>1. PICK e \in m_events : Handle(e, "read", HandleRead(Conn(e.fd)))
    BY <1>2 DEF DispatchRead
  <2>2. PICK known : known = (e.fd \in Fds /\ Known(e.fd))
    OBVIOUS
  <2>3. ASSUME known, NEW x \in HandleRead(Conn(e.fd))
        PROVE  Outcome(Conn(e.fd), x)
    <3>1. TypeOK /\ PoolInv /\ HeldInv
      BY <2>1 DEF Handle, Dispatch, IInv
    <3>2. Fresh(Conn(e.fd))
      BY <2>2, <2>3, <3>1, FreshConnection
    <3> QED BY <2>3, <3>2, ReadOutcome
  <2> QED BY <2>1, <2>2, <2>3, HandledStep
<1>3. CASE DispatchWrite
  <2>1. PICK e \in m_events : Handle(e, "write", HandleWrite(Conn(e.fd)))
    BY <1>3 DEF DispatchWrite
  <2>2. PICK known : known = (e.fd \in Fds /\ Known(e.fd))
    OBVIOUS
  <2>3. ASSUME known, NEW x \in HandleWrite(Conn(e.fd))
        PROVE  Outcome(Conn(e.fd), x)
    <3>1. TypeOK /\ PoolInv /\ HeldInv
      BY <2>1 DEF Handle, Dispatch, IInv
    <3>2. Fresh(Conn(e.fd))
      BY <2>2, <2>3, <3>1, FreshConnection
    <3> QED BY <2>3, <3>2, WriteOutcome
  <2> QED BY <2>1, <2>2, <2>3, HandledStep
<1> QED BY <1>1, <1>2, <1>3
-----------------------------------------------------------------------------
(* An accept, of the first in the backlog, with a descriptor that is free. *)
LEMMA AcceptFacts ==
    ASSUME IInv, NEW f \in Fds, NEW c \in Clients, Accept(f, c), pc' \in {pc, "dispatch"}
    PROVE  /\ pc = "accept" /\ fdOwner[f] = NoClient /\ ~Known(f)
           /\ backlog # <<>> /\ c = Head(backlog) /\ backlog' = Tail(backlog)
           /\ backlog \in Seq(Clients)
           /\ TypeOK /\ PoolInv /\ HeldInv /\ EventsInv /\ ThreadsOK'
           /\ m_events' = m_events /\ handled' = handled /\ ObjectsInv'
<1>1. /\ pc = "accept" /\ accepts < MaxAccepts /\ backlog # <<>> /\ fdOwner[f] = NoClient
      /\ c = Head(backlog) /\ backlog' = Tail(backlog) /\ accepts' = accepts + 1
      /\ UNCHANGED <<m_kq, m_acceptor, m_running, stopping, m_events, handled>>
  BY DEF Accept, Accepting, Lowest, FreeFds, objects
<1>2. TypeOK /\ PoolInv /\ HeldInv /\ EventsInv /\ ObjectsInv /\ ThreadsOK
  BY <1>1, TypeParts DEF IInv
<1>3. backlog \in Seq(Clients) /\ backlog' \in Seq(Clients)
  BY <1>1, <1>2, Types, HeadTailProperties
<1>4. accepts' \in 0 .. MaxAccepts
  BY <1>1, <1>2, LoopAssumption DEF ThreadsOK
<1>5. ThreadsOK'
  BY <1>1, <1>2, <1>3, <1>4 DEF ThreadsOK
<1>6. ObjectsInv'
  BY <1>1, <1>2, ObjectsKept DEF Running
<1>7. ~Known(f)
  BY <1>1, <1>2 DEF PoolInv
<1> QED BY <1>1, <1>2, <1>3, <1>5, <1>6, <1>7

LEMMA AcceptFailsStep ==
    ASSUME IInv, AcceptFails
    PROVE  IInv'
<1>1. PICK f \in Fds, c \in Clients : Accept(f, c) /\ sock' = [sock EXCEPT ![c].phase = "closed"]
  BY DEF AcceptFails
<1>2. UNCHANGED <<fdOwner, armed, table>> /\ pc' \in {pc, "dispatch"}
  BY DEF AcceptFails
<1>3. /\ pc = "accept" /\ TypeOK /\ PoolInv /\ HeldInv /\ EventsInv /\ ThreadsOK'
      /\ m_events' = m_events /\ handled' = handled /\ ObjectsInv'
  BY <1>1, <1>2, AcceptFacts
<1>4. sock' \in [Clients -> Socket]
  BY <1>1, <1>3, Types, PhaseType
<1>5. TableOK' /\ PoolInv' /\ HeldInv'
  BY <1>2, <1>3, <1>4, TypeParts, TableUnchanged
<1>6. EventsInv'
  BY <1>2, <1>3 DEF EventsInv, EventsAreCurrent
<1> QED BY <1>3, <1>5, <1>6, TypeParts DEF IInv

(* on_connect answered die.                                                *)
LEMMA RefusedTable ==
    ASSUME TypeOK, PoolInv, HeldInv, NEW c \in Clients,
           sock' = [sock EXCEPT ![c].phase = "closed"],
           m_pl' = Append(PoolWithout, Allocated),
           ring' = [RingWithNew EXCEPT ![Allocated] = EmptyRing],
           UNCHANGED <<fdOwner, armed, m_connections>>
    PROVE  TableInv'
<1>1. PICK L, n, N : L = Len(m_pl) /\ n = Len(ring) /\ N = Len(ring')
  OBVIOUS
<1>2. PoolTypeOK /\ L \in Nat /\ n \in Nat /\ ring \in Seq(CounterPair)
  BY <1>1, Types DEF TypeOK
<1>3. /\ BufferTable' = BufferTable /\ \A f \in Fds : Known(f)' = Known(f)
      /\ Conserved(m_pl, L, n, Fds, BufferTable) /\ armed \subseteq Fds
  BY <1>1 DEF PoolInv, BufferTable, BufferOf, Known, TypeOK
<1>4. /\ N \in Nat /\ n <= N /\ ring' \in Seq(CounterPair)
      /\ \A b \in 1 .. N : \/ b \in 1 .. n /\ ring'[b] = ring[b]
                           \/ Count(ring'[b].head, ring'[b].tail) = 0
      /\ m_pl' \in Seq(1 .. N)
      /\ Conserved(m_pl', Len(m_pl'), N, Fds, BufferTable)
  <2>1. PICK u : u = BufferTable
    OBVIOUS
  <2>2. Conserved(m_pl, Len(m_pl), Len(ring), Fds, u)
    BY <1>1, <1>3, <2>1
  <2> QED BY <1>1, <1>2, <2>1, <2>2, RefusedBuffer
<1>5. PoolInv'
  <2>1. Conserved(m_pl', Len(m_pl'), Len(ring'), Fds, BufferTable')
    BY <1>1, <1>3, <1>4
  <2>2. \A f \in Fds : Known(f)' <=> fdOwner'[f] # NoClient
    BY <1>3 DEF PoolInv
  <2>3. \A f \in armed' : Known(f)'
    BY <1>3 DEF PoolInv
  <2> QED BY <2>1, <2>2, <2>3 DEF PoolInv
<1>6. HeldInv'
  <2>1. \A b \in 1 .. n : Count(ring[b].head, ring[b].tail) <= BufferSize
    BY <1>1 DEF HeldInv, Held, Buffers
  <2>2. 0 <= BufferSize
    BY CounterFacts
  <2>3. \A b \in 1 .. N : Count(ring'[b].head, ring'[b].tail) <= BufferSize
    BY <1>4, <2>1, <2>2
  <2> QED BY <1>1, <2>3 DEF HeldInv, Held, Buffers
<1>7. sock' \in [Clients -> Socket]
  BY Types, PhaseType
<1>8. m_connections' \in [Fds -> [state : States \ {"die"}, buffer : 1 .. Len(ring') \cup {NoBuffer}]]
  <2>1. m_connections \in [Fds -> [state : States \ {"die"}, buffer : 1 .. n \cup {NoBuffer}]]
    BY <1>1 DEF TypeOK, Buffers
  <2>2. 1 .. n \subseteq 1 .. N
    BY <1>2, <1>4
  <2> QED BY <1>1, <2>1, <2>2
<1>9. fdOwner' \in [Fds -> Clients \cup {NoClient}] /\ armed' \subseteq Fds
  BY <1>3, Types
<1> QED BY <1>1, <1>4, <1>5, <1>6, <1>7, <1>8, <1>9 DEF TableInv, TableOK

(* push_new_connection.                                                    *)
LEMMA PushedTable ==
    ASSUME TypeOK, PoolInv, HeldInv, NEW f \in Fds, fdOwner[f] = NoClient, NEW c \in Clients,
           NEW state \in States \ {"die"},
           sock' = [sock EXCEPT ![c].phase = "open"],
           fdOwner' = [fdOwner EXCEPT ![f] = c],
           armed' = IF state = "write" THEN armed \cup {f} ELSE armed,
           m_connections' = [m_connections EXCEPT
                ![f] = [state |-> state, buffer |-> Allocated]],
           m_pl' = PoolWithout, ring' = RingWithNew
    PROVE  /\ TableInv' /\ Known(f)' /\ BufferOf(f)' = Allocated
           /\ m_connections'[f].state = state /\ fdOwner'[f] = c
           /\ \A g \in Fds : g # f => /\ fdOwner'[g] = fdOwner[g]
                                      /\ m_connections'[g] = m_connections[g]
           /\ \A b \in 1 .. Len(ring) : ring'[b] = ring[b]
<1>1. PICK L, n, N : L = Len(m_pl) /\ n = Len(ring) /\ N = Len(ring')
  OBVIOUS
<1>2. PoolTypeOK /\ L \in Nat /\ n \in Nat /\ ring \in Seq(CounterPair)
  BY <1>1, Types DEF TypeOK
<1>3. BufferTable[f] = 0 /\ Conserved(m_pl, L, n, Fds, BufferTable) /\ c # NoClient
  BY <1>1, SocketAssumption DEF PoolInv, BufferTable, BufferOf, Known, NoBuffer
<1>4. m_connections \in [Fds -> [state : States \ {"die"}, buffer : 1 .. n \cup {NoBuffer}]]
  BY <1>1 DEF TypeOK, Buffers
<1>5. /\ fdOwner'[f] = c /\ m_connections'[f].state = state
      /\ m_connections'[f].buffer = Allocated
      /\ \A g \in Fds : g # f => /\ fdOwner'[g] = fdOwner[g]
                                 /\ m_connections'[g] = m_connections[g]
      /\ fdOwner' \in [Fds -> Clients \cup {NoClient}]
  BY <1>4, Types
<1>6. /\ BufferTable'[f] = Allocated
      /\ \A g \in Fds : g # f => BufferTable'[g] = BufferTable[g]
  BY <1>5 DEF BufferTable, BufferOf
<1>7. /\ N \in Nat /\ n <= N /\ Allocated \in 1 .. N /\ ring' \in Seq(CounterPair)
      /\ \A b \in 1 .. n : ring'[b] = ring[b]
      /\ \A b \in 1 .. N : b \in 1 .. n \/ ring'[b] = EmptyRing
      /\ m_pl' \in Seq(1 .. N)
      /\ Conserved(m_pl', Len(m_pl'), N, Fds, BufferTable')
  <2>1. PICK u, t : u = BufferTable /\ t = BufferTable'
    OBVIOUS
  <2>2. /\ Conserved(m_pl, Len(m_pl), Len(ring), Fds, u) /\ u[f] = 0
        /\ t[f] = Allocated /\ \A g \in Fds : g # f => t[g] = u[g]
    BY <1>1, <1>3, <1>6, <2>1
  <2> QED BY <1>1, <1>2, <2>1, <2>2, PushedBuffer
<1>8. m_connections' \in [Fds -> [state : States \ {"die"}, buffer : 1 .. N \cup {NoBuffer}]]
  <2>1. [state |-> state, buffer |-> Allocated]
            \in [state : States \ {"die"}, buffer : 1 .. N \cup {NoBuffer}]
    BY <1>7
  <2>2. 1 .. n \subseteq 1 .. N
    BY <1>2, <1>7
  <2>3. m_connections \in [Fds -> [state : States \ {"die"}, buffer : 1 .. N \cup {NoBuffer}]]
    BY <1>4, <2>2
  <2> QED BY <2>1, <2>3
<1>9. /\ Known(f)' /\ BufferOf(f)' = Allocated
      /\ \A g \in Fds : g # f => Known(g)' = Known(g)
  BY <1>5, <1>7 DEF Known, BufferOf, NoBuffer
<1>10. PoolInv'
  <2>1. Conserved(m_pl', Len(m_pl'), Len(ring'), Fds, BufferTable')
    BY <1>1, <1>7
  <2>2. \A g \in Fds : Known(g)' <=> fdOwner'[g] # NoClient
    BY <1>3, <1>5, <1>9 DEF PoolInv
  <2>3. \A g \in armed' : g \in Fds /\ (g = f \/ Known(g))
    BY DEF PoolInv, TypeOK
  <2>4. \A g \in armed' : Known(g)'
    BY <1>9, <2>3
  <2> QED BY <2>1, <2>2, <2>4 DEF PoolInv
<1>11. HeldInv'
  <2>1. \A b \in 1 .. n : Count(ring[b].head, ring[b].tail) <= BufferSize
    BY <1>1 DEF HeldInv, Held, Buffers
  <2>2. Count(EmptyRing.head, EmptyRing.tail) <= BufferSize
    BY EmptyHoldsNothing, CounterFacts
  <2>3. \A b \in 1 .. N : Count(ring'[b].head, ring'[b].tail) <= BufferSize
    BY <1>7, <2>1, <2>2
  <2> QED BY <1>1, <2>3 DEF HeldInv, Held, Buffers
<1>12. sock' \in [Clients -> Socket] /\ armed' \subseteq Fds
  <2>1. armed \subseteq Fds
    BY DEF TypeOK
  <2> QED BY <2>1, Types, PhaseType
<1> QED BY <1>1, <1>5, <1>7, <1>8, <1>9, <1>10, <1>11, <1>12 DEF TableInv, TableOK

LEMMA AcceptOneStep ==
    ASSUME IInv, AcceptOne
    PROVE  IInv'
<1>1. PICK f \in Fds, c \in Clients, state \in OnConnect :
        /\ Accept(f, c)
        /\ IF state = "die"
           THEN /\ sock' = [sock EXCEPT ![c].phase = "closed"]
                /\ m_pl' = Append(PoolWithout, Allocated)
                /\ ring' = [RingWithNew EXCEPT ![Allocated] = EmptyRing]
                /\ UNCHANGED <<fdOwner, armed, m_connections>>
           ELSE /\ sock' = [sock EXCEPT ![c].phase = "open"]
                /\ fdOwner' = [fdOwner EXCEPT ![f] = c]
                /\ armed' = IF state = "write" THEN armed \cup {f} ELSE armed
                /\ m_connections' = [m_connections EXCEPT
                        ![f] = [state |-> state, buffer |-> Allocated]]
                /\ m_pl' = PoolWithout /\ ring' = RingWithNew
  BY DEF AcceptOne
<1>2. pc' = pc /\ state \in States
  BY LoopAssumption DEF AcceptOne
<1>3. /\ fdOwner[f] = NoClient /\ TypeOK /\ PoolInv /\ HeldInv /\ EventsInv /\ ThreadsOK'
      /\ m_events' = m_events /\ handled' = handled /\ ObjectsInv'
  BY <1>1, <1>2, AcceptFacts
<1>4. CASE state = "die"
  <2>1. TableInv'
    BY <1>1, <1>3, <1>4, RefusedTable
  <2>2. EventsInv'
    BY <1>1, <1>3, <1>4 DEF EventsInv, EventsAreCurrent
  <2> QED BY <1>3, <2>1, <2>2, TypeParts DEF IInv, TableInv
<1>5. CASE state # "die"
  <2>1. TableInv' /\ \A g \in Fds : g # f => fdOwner'[g] = fdOwner[g]
    BY <1>1, <1>2, <1>3, <1>5, PushedTable
  <2>2. EventsInv'
    <3>1. ASSUME NEW d \in m_events \ handled', d.fd = f
          PROVE  \E e \in handled' : e.fd = d.fd
      <4>1. d \in m_events \ handled /\ Listen \notin Fds
        BY <1>3, <3>1, SocketAssumption DEF Listen
      <4>2. d.fd # Listen /\ d.to # NoClient
        BY <1>3, <3>1, <4>1 DEF EventsInv
      <4>3. fdOwner[d.fd] = d.to \/ \E e \in handled : e.fd = d.fd
        BY <1>3, <4>1, <4>2 DEF EventsInv, EventsAreCurrent
      <4> QED BY <1>3, <3>1, <4>2, <4>3
    <3> QED BY <1>3, <2>1, <3>1, EventsAfter
  <2> QED BY <1>3, <2>1, <2>2, TypeParts DEF IInv, TableInv
<1> QED BY <1>4, <1>5
-----------------------------------------------------------------------------
LEMMA InitialStates ==
    ASSUME Init
    PROVE  IInv
<1>1. \A f \in Fds : BufferOf(f) = NoBuffer /\ ~Known(f) /\ fdOwner[f] = NoClient
  BY DEF Init, SocketsInit, BufferOf, Known
<1>2. /\ Prepool \in Nat /\ ring \in Seq(CounterPair) /\ Len(ring) = Prepool
      /\ m_pl \in Seq(1 .. Prepool) /\ Len(m_pl) = Prepool
      /\ \A i \in 1 .. Prepool : m_pl[i] = i /\ ring[i] = EmptyRing
  <2>1. EmptyRing \in CounterPair /\ Prepool \in Nat
    BY EmptyHoldsNothing, PoolAssumption
  <2> QED BY <2>1 DEF Init, PoolInit
<1>3. TableOK
  <2>1. \A c \in Clients : [phase |-> "new", peer |-> "up", rx |-> 0, tx |-> 0,
                            in |-> 0, out |-> 0] \in Socket
    BY SocketAssumption DEF Socket
  <2>2. [state |-> "idle", buffer |-> NoBuffer]
            \in [state : States \ {"die"}, buffer : 1 .. Prepool \cup {NoBuffer}]
    BY DEF States
  <2> QED BY <1>2, <2>1, <2>2 DEF TableOK, Init, SocketsInit
<1>4. ThreadsOK
  BY LoopAssumption DEF ThreadsOK, Init, SocketsInit
<1>5. Conserved(m_pl, Len(m_pl), Len(ring), Fds, BufferTable)
  <2>1. \A f \in Fds : BufferTable[f] = 0
    BY <1>1 DEF BufferTable, NoBuffer
  <2> QED BY <1>2, <2>1 DEF Conserved
<1>6. PoolInv
  BY <1>1, <1>5 DEF PoolInv, Init
<1>7. HeldInv
  <2>1. Count(EmptyRing.head, EmptyRing.tail) <= BufferSize
    BY EmptyHoldsNothing, CounterFacts
  <2> QED BY <1>2, <2>1 DEF HeldInv, Held, Buffers
<1>8. EventsInv /\ ObjectsInv
  BY DEF EventsInv, EventsAreCurrent, ObjectsInv, Running, Init
<1> QED BY <1>3, <1>4, <1>6, <1>7, <1>8, TypeParts DEF IInv

LEMMA Inductive ==
    ASSUME IInv, [Next]_vars
    PROVE  IInv'
<1>1. CASE \/ SetUp \/ SetUpFails \/ Stop \/ LeaveLoop \/ Destroy \/ Rests
  BY <1>1, StartAndStop
<1>2. CASE \/ Kevent \/ KeventFails \/ EndOfBatch \/ DispatchLost \/ DispatchAccept \/ AcceptEnds
  BY <1>2, BatchSteps
<1>3. CASE DispatchEof \/ DispatchRead \/ DispatchWrite
  BY <1>3, DispatchSteps
<1>4. CASE AcceptFails \/ AcceptOne
  BY <1>4, AcceptFailsStep, AcceptOneStep
<1>5. CASE \E c \in Clients : PeerActs(c)
  BY <1>5, PeerStep
<1>6. CASE UNCHANGED vars
  BY <1>6, Unchanged
<1> QED BY <1>1, <1>2, <1>3, <1>4, <1>5, <1>6 DEF Next, LoopStep

LEMMA Invariance == Spec => []IInv
<1>1. Init => IInv
  BY InitialStates
<1>2. IInv /\ [Next]_vars => IInv'
  BY Inductive
<1> QED BY <1>1, <1>2, PTL DEF Spec

(* The variables keep their types, whatever the callbacks answer and       *)
(* whenever stop() is called.                                              *)
THEOREM TypeCorrect == Spec => []TypeOK
<1>1. IInv => TypeOK
  BY DEF IInv
<1> QED BY <1>1, Invariance, PTL

LEMMA ConservedMeans ==
    ASSUME TypeOK, PoolInv
    PROVE  BufferConservation
<1> SUFFICES ASSUME Running PROVE BufferConservation
  BY DEF BufferConservation
<1>1. PICK k, n : k = Len(m_pl) /\ n = Len(ring)
  OBVIOUS
<1>2. /\ Conserved(m_pl, k, n, Fds, BufferTable)
      /\ Buffers = 1 .. n /\ DOMAIN m_pl = 1 .. k
      /\ \A f \in Fds : BufferTable[f] = BufferOf(f)
  BY <1>1, Types, LenProperties DEF PoolInv, BufferTable
<1>3. \A f \in Fds : Known(f) <=> fdOwner[f] # NoClient
  BY DEF PoolInv
<1>4. armed \cap FreeFds = {}
  BY DEF PoolInv, FreeFds
<1>5. /\ \A f, g \in Fds : (f # g /\ Known(f)) => BufferOf(f) # BufferOf(g)
      /\ \A i, j \in DOMAIN m_pl : i # j => m_pl[i] # m_pl[j]
      /\ Owned \cap Pooled = {}
  BY <1>2 DEF Conserved, Known, Owned, Pooled, NoBuffer
<1>6. Owned \cup Pooled = Buffers
  <2>1. \A b \in 1 .. n : b # 0
    BY <1>2 DEF Conserved
  <2>2. Owned \subseteq 1 .. n
    BY <1>2, Types DEF Owned, NoBuffer
  <2>3. Pooled \subseteq 1 .. n
    BY <1>2 DEF Conserved, Pooled
  <2>4. ASSUME NEW b \in 1 .. n PROVE b \in Owned \cup Pooled
    <3>1. (\E f \in Fds : BufferOf(f) = b) \/ (\E i \in 1 .. k : m_pl[i] = b)
      BY <1>2 DEF Conserved
    <3> QED BY <1>2, <2>1, <3>1 DEF Owned, Pooled, NoBuffer
  <2> QED BY <1>2, <2>2, <2>3, <2>4
<1> QED BY <1>3, <1>4, <1>5, <1>6 DEF BufferConservation

(* As long as run() runs the table has an entry for each open descriptor   *)
(* and for no other, and each buffer is in one place: on every path of     *)
(* accept, read, write, end of stream and error.                           *)
THEOREM BuffersConserved == Spec => []BufferConservation
<1>1. IInv => BufferConservation
  BY ConservedMeans DEF IInv, BufferConservation, Running
<1> QED BY <1>1, Invariance, PTL

(* An event that is not handled yet is for the connection it was reported  *)
(* of, unless its other filter's event came first and closed that one.     *)
THEOREM EventsStayCurrent == Spec => []EventsAreCurrent
<1>1. IInv => EventsAreCurrent
  BY DEF IInv, EventsInv
<1> QED BY <1>1, Invariance, PTL

(* The loop uses a connection, its queue or its acceptor after they are    *)
(* gone only when stop() is through, or a client left.                     *)
THEOREM CrashesExplained ==
    Spec => [](pc = "crashed" => (m_acceptor = "gone" /\ m_kq = "gone") \/ SomebodyLeft)
<1>1. IInv => (pc = "crashed" => (m_acceptor = "gone" /\ m_kq = "gone") \/ SomebodyLeft)
  BY DEF IInv, ObjectsInv
<1> QED BY <1>1, Invariance, PTL
-----------------------------------------------------------------------------
(* The bytes.  After a recv has failed the lambda's chunk counts as        *)
(* filled, in a ring that is in the pool: so as long as nobody has left.   *)
LEMMA SameAccounts ==
    ASSUME IInv, BInv, UNCHANGED <<fdOwner, m_connections, ring>>,
           m_pl' = m_pl \/ m_pl' = <<>>, OneDescriptorEach', SameBytes,
           \A d \in Clients : sock'[d].peer = "up" => sock[d].peer = "up", pc # "destroyed"
    PROVE  BInv'
<1> SUFFICES ASSUME AllUp' PROVE Accounts'
  BY DEF BInv
<1>1. AllUp /\ Accounts
  BY DEF AllUp, BInv
<1>2. PoolContents(m_pl', ring')
  BY <1>1 DEF Accounts, PoolContents
<1>3. \A f \in Fds : Known(f) => fdOwner[f] \in Clients
  BY KnownIsOpen DEF IInv
<1>4. ASSUME NEW f \in Fds, Known(f)'
      PROVE  Held(BufferOf(f))' = Balance(f)'
  <2>1. Known(f) /\ BufferOf(f)' = BufferOf(f)
    BY <1>4 DEF Known, BufferOf
  <2>2. Held(BufferOf(f)) = Balance(f)
    BY <1>1, <2>1 DEF Accounts
  <2>3. PICK c \in Clients : c = fdOwner[f]
    BY <1>3, <2>1
  <2>4. sock'[c].in = sock[c].in /\ sock'[c].out = sock[c].out
    BY DEF SameBytes
  <2> QED BY <2>1, <2>2, <2>3, <2>4 DEF Held, Balance
<1> QED BY <1>2, <1>4 DEF Accounts

LEMMA QuietAccounts ==
    ASSUME IInv, BInv, UNCHANGED <<sock, backlog, fdOwner, m_connections, ring>>,
           m_pl' = m_pl \/ m_pl' = <<>>, pc # "destroyed"
    PROVE  BInv'
<1>1. OneDescriptorEach' /\ SameBytes
  BY DEF BInv, OneDescriptorEach, SameBytes
<1> QED BY <1>1, SameAccounts

LEMMA PeerAccounts ==
    ASSUME IInv, BInv, NEW c \in Clients, PeerActs(c)
    PROVE  BInv'
<1>1. /\ Running /\ UNCHANGED <<fdOwner, table>>
      /\ \/ Connects(c)
         \/ (Sends(c) \/ Reads(c) \/ Closes(c) \/ Resets(c)) /\ UNCHANGED backlog
  BY DEF PeerActs, PeerReads, Peer
<1>2. UNCHANGED <<m_connections, ring, m_pl, fdOwner>> /\ pc # "destroyed"
  BY <1>1 DEF table, Running
<1>3. /\ sock \in [Clients -> Socket] /\ backlog \in Seq(Clients)
      /\ fdOwner \in [Fds -> Clients \cup {NoClient}]
  BY Types DEF IInv
<1>4. OneDescriptorEach' /\ SameBytes
  BY <1>1, <1>2, <1>3, ClientDescriptors DEF BInv
<1>5. \A d \in Clients : sock'[d].peer = "up" => sock[d].peer = "up"
  BY <1>1, <1>3, PeersOfClients
<1> QED BY <1>2, <1>4, <1>5, SameAccounts

(* The other connections, when one is put back or erased.                  *)
LEMMA OtherAccounts ==
    ASSUME TypeOK, PoolInv, OneDescriptorEach, Accounts, NEW f \in Fds, Known(f),
           NEW g \in Fds, g # f, Known(g)', m_connections'[g] = m_connections[g],
           fdOwner'[g] = fdOwner[g],
           \A d \in Clients : d # fdOwner[f] => sock'[d] = sock[d],
           \A b \in 1 .. Len(ring) : b # BufferOf(f) => ring'[b] = ring[b]
    PROVE  Held(BufferOf(g))' = Balance(g)'
<1>1. Known(g) /\ BufferOf(g)' = BufferOf(g)
  BY DEF Known, BufferOf
<1>2. /\ fdOwner[g] \in Clients /\ fdOwner[g] # NoClient
      /\ BufferOf(g) \in 1 .. Len(ring) /\ BufferOf(g) # BufferOf(f)
  BY <1>1, KnownIsOpen
<1>3. fdOwner[g] # fdOwner[f]
  BY <1>2 DEF OneDescriptorEach
<1>4. PICK c \in Clients : c = fdOwner[g]
  BY <1>2
<1>5. PICK b \in 1 .. Len(ring) : b = BufferOf(g)
  BY <1>2
<1>6. sock'[c] = sock[c] /\ ring'[b] = ring[b]
  BY <1>2, <1>3, <1>4, <1>5
<1>7. Held(b) = Balance(g)
  BY <1>1, <1>5 DEF Accounts
<1> QED BY <1>1, <1>4, <1>5, <1>6, <1>7 DEF Held, Balance

LEMMA ErasedAccounts ==
    ASSUME TypeOK, PoolInv, HeldInv, BInv, NEW f \in Fds, Known(f),
           NEW s \in Socket, NEW garbage \in 0 .. BufferSize, RemoveConnection(f, s, garbage),
           backlog' = backlog, s.peer = sock[fdOwner[f]].peer, s.peer = "up" => garbage = 0
    PROVE  BInv' /\ (AllUp' => AllUp)
<1>1. PICK c \in Clients : c = fdOwner[f]
  BY KnownIsOpen
<1>2. PICK b \in 1 .. Len(ring) : b = BufferOf(f)
  BY KnownIsOpen
<1>3. PICK t : t = [s EXCEPT !.phase = "closed"]
  OBVIOUS
<1>4. t.phase = "closed" /\ t.peer = s.peer
  BY <1>3 DEF Socket
<1>5. /\ sock \in [Clients -> Socket] /\ backlog \in Seq(Clients)
      /\ fdOwner \in [Fds -> Clients \cup {NoClient}] /\ c # NoClient
      /\ ring \in Seq(CounterPair) /\ m_pl \in Seq(1 .. Len(ring))
  BY <1>1, Types, SocketAssumption
<1>6. /\ sock' = [sock EXCEPT ![c] = t] /\ fdOwner' = [fdOwner EXCEPT ![f] = NoClient]
      /\ m_pl' = Append(m_pl, b)
      /\ ring' = [ring EXCEPT ![b] = [head |-> 0, tail |-> garbage]]
  BY <1>1, <1>2, <1>3 DEF RemoveConnection
<1>7. sock'[c] = t /\ \A d \in Clients : d # c => sock'[d] = sock[d]
  BY <1>5, <1>6
<1>8. OneDescriptorEach'
  BY <1>1, <1>4, <1>5, <1>6, <1>7, ErasedDescriptors DEF BInv
<1>9. AllUp' => AllUp /\ s.peer = "up"
  BY <1>1, <1>4, <1>7 DEF AllUp
<1>10. ASSUME AllUp'
       PROVE  Accounts'
  <2>1. Accounts /\ OneDescriptorEach
    BY <1>9, <1>10 DEF BInv
  <2>2. ring' = [ring EXCEPT ![b] = EmptyRing]
    BY <1>6, <1>9, <1>10 DEF EmptyRing
  <2>3. PoolContents(m_pl', ring')
    BY <1>5, <1>6, <2>1, <2>2, ContentsRedeemed DEF Accounts
  <2>4. \A d \in 1 .. Len(ring) : d # b => ring'[d] = ring[d]
    BY <1>5, <2>2, RingEmptied
  <2>5. /\ ~Known(f)' /\ \A g \in Fds : g # f => /\ fdOwner'[g] = fdOwner[g]
                                                 /\ m_connections'[g] = m_connections[g]
    BY RemoveKeeps
  <2>6. ASSUME NEW g \in Fds, Known(g)'
        PROVE  Held(BufferOf(g))' = Balance(g)'
    <3>1. g # f
      BY <2>5, <2>6
    <3> QED BY <1>1, <1>2, <1>7, <2>1, <2>4, <2>5, <2>6, <3>1, OtherAccounts
  <2> QED BY <2>3, <2>6 DEF Accounts
<1> QED BY <1>8, <1>9, <1>10 DEF BInv

LEMMA BackAccounts ==
    ASSUME TypeOK, PoolInv, HeldInv, BInv, NEW f \in Fds, Known(f),
           NEW x, Outcome(Conn(f), x), Back(f, x), backlog' = backlog
    PROVE  BInv' /\ (AllUp' => AllUp)
<1>1. PICK c \in Clients : c = fdOwner[f] /\ c # NoClient
  BY KnownIsOpen
<1>2. PICK b \in 1 .. Len(ring) : b = BufferOf(f)
  BY KnownIsOpen
<1>3. /\ sock \in [Clients -> Socket] /\ backlog \in Seq(Clients)
      /\ fdOwner \in [Fds -> Clients \cup {NoClient}]
      /\ ring \in Seq(CounterPair) /\ m_pl \in Seq(1 .. Len(ring))
  BY Types
<1>4. PICK y : y = Conn(f)
  OBVIOUS
<1>5. y \in ConnType /\ y.s = sock[c] /\ y.r = ring[b] /\ Holds(y) = Held(b)
  BY <1>1, <1>2, <1>4, FreshConnection DEF Fresh
<1>6. /\ x \in ConnType /\ Holds(x) <= BufferSize
      /\ x.s.phase = y.s.phase /\ x.s.peer = y.s.peer
      /\ y.s.peer = "up" => Holds(x) + y.s.in + x.s.out = Holds(y) + x.s.in + y.s.out
  BY <1>4 DEF Outcome
<1>7. sock' = [sock EXCEPT ![c] = x.s] /\ m_pl' = m_pl /\ fdOwner' = fdOwner
  BY <1>1 DEF Back
<1>8. sock'[c] = x.s /\ \A d \in Clients : d # c => sock'[d] = sock[d]
  BY <1>3, <1>7
<1>9. sock[c].phase = "open"
  BY <1>1 DEF BInv, OneDescriptorEach
<1>10. OneDescriptorEach'
  <2>1. \A d \in Clients : /\ sock'[d].phase = sock[d].phase
                           /\ sock[d].phase # "open" =>
                                sock'[d].in = sock[d].in /\ sock'[d].out = sock[d].out
    BY <1>5, <1>6, <1>8, <1>9
  <2> QED BY <1>3, <1>7, <2>1, DescriptorsKept DEF BInv
<1>11. AllUp' => AllUp
  BY <1>5, <1>6, <1>8 DEF AllUp
<1>12. /\ \A g \in Fds : BufferOf(g)' = BufferOf(g) /\ Known(g)' = Known(g)
       /\ \A g \in Fds : g # f => m_connections'[g] = m_connections[g]
       /\ Len(ring') = Len(ring) /\ ring'[b] = x.r
       /\ \A d \in 1 .. Len(ring) : d # b => ring'[d] = ring[d]
  BY <1>2, <1>6, BackKeeps DEF Known
<1>13. ASSUME AllUp'
       PROVE  Accounts'
  <2>1. Accounts /\ OneDescriptorEach /\ y.s.peer = "up"
    BY <1>5, <1>11, <1>13 DEF BInv, AllUp
  <2>2. PoolContents(m_pl, ring')
    <3>1. \A i \in 1 .. Len(m_pl) : m_pl[i] \in 1 .. Len(ring) /\ m_pl[i] # b
      <4>1. BufferTable[f] = b /\ Conserved(m_pl, Len(m_pl), Len(ring), Fds, BufferTable)
        BY <1>2 DEF PoolInv, BufferTable
      <4> QED BY <4>1 DEF Conserved
    <3>2. Count(ring'[b].head, ring'[b].tail) <= BufferSize
      BY <1>6, <1>12 DEF Holds
    <3>3. PICK pl, r, t : pl = m_pl /\ r = ring /\ t = ring'
      OBVIOUS
    <3>4. PoolContents(pl, r)
      BY <2>1, <3>3 DEF Accounts
    <3>5. Len(t) = Len(r) /\ \A d \in 1 .. Len(r) : d # b => t[d] = r[d]
      BY <1>12, <3>3
    <3>6. Count(t[b].head, t[b].tail) <= BufferSize
      BY <3>2, <3>3
    <3>7. \A i \in 1 .. Len(pl) : pl[i] \in 1 .. Len(r) /\ pl[i] # b
      BY <3>1, <3>3
    <3>8. PoolContents(pl, t)
      BY <3>4, <3>5, <3>6, <3>7, ContentsMoved
    <3> QED BY <3>3, <3>8
  <2>3. Held(BufferOf(f))' = Balance(f)'
    <3>1. Held(b) = sock[c].in - sock[c].out
      BY <1>1, <1>2, <2>1 DEF Accounts, Balance
    <3>2. Held(BufferOf(f))' = Holds(x) /\ Balance(f)' = x.s.in - x.s.out
      BY <1>1, <1>2, <1>7, <1>8, <1>12 DEF Held, Holds, Balance
    <3>3. PICK h \in Nat, i \in Nat, o \in Nat, k \in Nat, j \in Nat, p \in Nat :
            /\ h = Holds(y) /\ i = y.s.in /\ o = y.s.out
            /\ k = Holds(x) /\ j = x.s.in /\ p = x.s.out
      BY <1>5, <1>6, HoldsType
    <3>4. h = i - o /\ k + i + p = h + j + o
      BY <1>5, <1>6, <2>1, <3>1, <3>3
    <3>5. k = j - p
      BY <3>4
    <3> QED BY <3>2, <3>3, <3>5
  <2>4. ASSUME NEW g \in Fds, Known(g)', g # f
        PROVE  Held(BufferOf(g))' = Balance(g)'
    BY <1>1, <1>2, <1>7, <1>8, <1>12, <2>1, <2>4, OtherAccounts
  <2> QED BY <1>7, <2>2, <2>3, <2>4 DEF Accounts
<1> QED BY <1>10, <1>11, <1>13 DEF BInv

(* An accepted connection has moved no byte yet.                           *)
LEMMA AcceptedBytes ==
    ASSUME IInv, OneDescriptorEach, NEW f \in Fds, NEW c \in Clients, Accept(f, c),
           pc' \in {pc, "dispatch"}, NEW phase \in {"open", "closed"},
           sock' = [sock EXCEPT ![c].phase = phase],
           fdOwner' = IF phase = "open" THEN [fdOwner EXCEPT ![f] = c] ELSE fdOwner
    PROVE  /\ OneDescriptorEach' /\ SameBytes /\ sock[c].in = 0 /\ sock[c].out = 0
           /\ \A d \in Clients : sock'[d].peer = sock[d].peer
           /\ AllUp' = AllUp
<1>1. /\ fdOwner[f] = NoClient /\ backlog # <<>> /\ c = Head(backlog) /\ backlog' = Tail(backlog)
      /\ TypeOK
  BY AcceptFacts
<1>2. /\ sock \in [Clients -> Socket] /\ backlog \in Seq(Clients)
      /\ fdOwner \in [Fds -> Clients \cup {NoClient}]
  BY <1>1, Types
<1>3. f \in FreeFds
  BY <1>1 DEF FreeFds
<1>4. /\ sock' = [sock EXCEPT ![Head(backlog)].phase = phase]
      /\ fdOwner' = IF phase = "open" THEN [fdOwner EXCEPT ![f] = Head(backlog)] ELSE fdOwner
  BY <1>1
<1>5. /\ OneDescriptorEach' /\ SameBytes
      /\ sock[Head(backlog)].in = 0 /\ sock[Head(backlog)].out = 0
  BY <1>1, <1>2, <1>3, <1>4, AcceptDescriptors
<1>6. \A d \in Clients : sock'[d].peer = sock[d].peer
  BY <1>2, PhaseOnly
<1> QED BY <1>1, <1>5, <1>6 DEF AllUp

LEMMA AcceptFailsAccounts ==
    ASSUME IInv, BInv, AcceptFails
    PROVE  BInv'
<1>1. PICK f \in Fds, c \in Clients : Accept(f, c) /\ sock' = [sock EXCEPT ![c].phase = "closed"]
  BY DEF AcceptFails
<1>2. UNCHANGED <<fdOwner, m_connections, ring, m_pl>> /\ pc' \in {pc, "dispatch"}
  BY DEF AcceptFails, table
<1>3. PICK phase \in {"open", "closed"} : phase = "closed"
  OBVIOUS
<1>4. /\ sock' = [sock EXCEPT ![c].phase = phase]
      /\ fdOwner' = IF phase = "open" THEN [fdOwner EXCEPT ![f] = c] ELSE fdOwner
  BY <1>1, <1>2, <1>3
<1>5. OneDescriptorEach' /\ SameBytes /\ \A d \in Clients : sock'[d].peer = sock[d].peer
  BY <1>1, <1>2, <1>4, AcceptedBytes DEF BInv
<1>6. pc # "destroyed"
  BY <1>1 DEF Accept, Accepting
<1> QED BY <1>2, <1>5, <1>6, SameAccounts

LEMMA RefusedAccounts ==
    ASSUME IInv, BInv, NEW f \in Fds, NEW c \in Clients, Accept(f, c), pc' = pc,
           sock' = [sock EXCEPT ![c].phase = "closed"],
           m_pl' = Append(PoolWithout, Allocated),
           ring' = [RingWithNew EXCEPT ![Allocated] = EmptyRing],
           UNCHANGED <<fdOwner, armed, m_connections>>
    PROVE  BInv'
<1>1. TypeOK /\ PoolInv /\ PoolTypeOK
  BY AcceptFacts DEF TypeOK
<1>2. PICK phase \in {"open", "closed"} : phase = "closed"
  OBVIOUS
<1>3. /\ sock' = [sock EXCEPT ![c].phase = phase]
      /\ fdOwner' = IF phase = "open" THEN [fdOwner EXCEPT ![f] = c] ELSE fdOwner
  BY <1>2
<1>4. OneDescriptorEach' /\ SameBytes /\ AllUp' = AllUp
  BY <1>3, AcceptedBytes DEF BInv
<1>5. \A g \in Fds : Known(g) => ring'[BufferOf(g)] = ring[BufferOf(g)]
  <2>1. PICK u : u = BufferTable
    OBVIOUS
  <2>2. Conserved(m_pl, Len(m_pl), Len(ring), Fds, u)
    BY <1>1, <2>1 DEF PoolInv
  <2>3. \A g \in Fds : u[g] # 0 => ring'[u[g]] = ring[u[g]]
    BY <1>1, <2>2, RefusedBuffer
  <2>4. \A g \in Fds : u[g] = BufferOf(g) /\ (Known(g) => u[g] # 0)
    BY <2>1 DEF BufferTable, Known, NoBuffer
  <2> QED BY <2>3, <2>4
<1>6. ASSUME AllUp'
      PROVE  Accounts'
  <2>1. Accounts
    BY <1>4, <1>6 DEF BInv
  <2>2. PoolContents(m_pl', ring')
    BY <1>1, <2>1, ContentsRefused DEF Accounts
  <2>3. ASSUME NEW g \in Fds, Known(g)'
        PROVE  Held(BufferOf(g))' = Balance(g)'
    <3>1. Known(g) /\ BufferOf(g)' = BufferOf(g)
      BY <2>3 DEF Known, BufferOf
    <3>2. Held(BufferOf(g)) = Balance(g) /\ fdOwner[g] \in Clients
      BY <1>1, <2>1, <3>1, KnownIsOpen DEF Accounts
    <3>3. PICK d \in Clients : d = fdOwner[g]
      BY <3>2
    <3>4. sock'[d].in = sock[d].in /\ sock'[d].out = sock[d].out
      BY <1>4 DEF SameBytes
    <3>5. ring'[BufferOf(g)] = ring[BufferOf(g)]
      BY <1>5, <3>1
    <3> QED BY <3>1, <3>2, <3>3, <3>4, <3>5 DEF Held, Balance
  <2> QED BY <2>2, <2>3 DEF Accounts
<1> QED BY <1>4, <1>6 DEF BInv

LEMMA PushedAccounts ==
    ASSUME IInv, BInv, NEW f \in Fds, NEW c \in Clients, NEW state \in States \ {"die"},
           Accept(f, c), pc' = pc,
           sock' = [sock EXCEPT ![c].phase = "open"],
           fdOwner' = [fdOwner EXCEPT ![f] = c],
           armed' = IF state = "write" THEN armed \cup {f} ELSE armed,
           m_connections' = [m_connections EXCEPT
                ![f] = [state |-> state, buffer |-> Allocated]],
           m_pl' = PoolWithout, ring' = RingWithNew
    PROVE  BInv'
<1>1. TypeOK /\ PoolInv /\ HeldInv /\ PoolTypeOK /\ fdOwner[f] = NoClient
  BY AcceptFacts DEF TypeOK
<1>2. PICK phase \in {"open", "closed"} : phase = "open"
  OBVIOUS
<1>3. /\ sock' = [sock EXCEPT ![c].phase = phase]
      /\ fdOwner' = IF phase = "open" THEN [fdOwner EXCEPT ![f] = c] ELSE fdOwner
  BY <1>2
<1>4. /\ OneDescriptorEach' /\ SameBytes /\ AllUp' = AllUp
      /\ sock[c].in = 0 /\ sock[c].out = 0
  BY <1>3, AcceptedBytes DEF BInv
<1>5. /\ BufferOf(f)' = Allocated /\ fdOwner'[f] = c
      /\ \A g \in Fds : g # f => /\ fdOwner'[g] = fdOwner[g]
                                 /\ m_connections'[g] = m_connections[g]
      /\ \A b \in 1 .. Len(ring) : ring'[b] = ring[b]
  BY <1>1, PushedTable
<1>6. ASSUME AllUp'
      PROVE  Accounts'
  <2>1. Accounts
    BY <1>4, <1>6 DEF BInv
  <2>2. PoolContents(m_pl', ring') /\ ring'[Allocated] = EmptyRing
    BY <1>1, <2>1, ContentsAllocated DEF Accounts
  <2>3. Held(BufferOf(f))' = Balance(f)'
    <3>1. Held(BufferOf(f))' = 0
      BY <1>5, <2>2, EmptyHoldsNothing DEF Held
    <3>2. sock'[c].in = 0 /\ sock'[c].out = 0
      BY <1>4 DEF SameBytes
    <3>3. Balance(f)' = 0
      BY <1>5, <3>2 DEF Balance
    <3> QED BY <3>1, <3>3
  <2>4. ASSUME NEW g \in Fds, Known(g)', g # f
        PROVE  Held(BufferOf(g))' = Balance(g)'
    <3>1. Known(g) /\ BufferOf(g)' = BufferOf(g) /\ fdOwner'[g] = fdOwner[g]
      BY <1>5, <2>4 DEF Known, BufferOf
    <3>2. /\ Held(BufferOf(g)) = Balance(g) /\ fdOwner[g] \in Clients
          /\ BufferOf(g) \in 1 .. Len(ring)
      BY <1>1, <2>1, <3>1, KnownIsOpen DEF Accounts
    <3>3. PICK d \in Clients : d = fdOwner[g]
      BY <3>2
    <3>4. sock'[d].in = sock[d].in /\ sock'[d].out = sock[d].out
      BY <1>4 DEF SameBytes
    <3>5. ring'[BufferOf(g)] = ring[BufferOf(g)]
      BY <1>5, <3>2
    <3> QED BY <3>1, <3>2, <3>3, <3>4, <3>5 DEF Held, Balance
  <2> QED BY <2>2, <2>3, <2>4 DEF Accounts
<1> QED BY <1>4, <1>6 DEF BInv

LEMMA AcceptOneAccounts ==
    ASSUME IInv, BInv, AcceptOne
    PROVE  BInv'
<1>1. PICK f \in Fds, c \in Clients, state \in OnConnect :
        /\ Accept(f, c)
        /\ IF state = "die"
           THEN /\ sock' = [sock EXCEPT ![c].phase = "closed"]
                /\ m_pl' = Append(PoolWithout, Allocated)
                /\ ring' = [RingWithNew EXCEPT ![Allocated] = EmptyRing]
                /\ UNCHANGED <<fdOwner, armed, m_connections>>
           ELSE /\ sock' = [sock EXCEPT ![c].phase = "open"]
                /\ fdOwner' = [fdOwner EXCEPT ![f] = c]
                /\ armed' = IF state = "write" THEN armed \cup {f} ELSE armed
                /\ m_connections' = [m_connections EXCEPT
                        ![f] = [state |-> state, buffer |-> Allocated]]
                /\ m_pl' = PoolWithout /\ ring' = RingWithNew
  BY DEF AcceptOne
<1>2. pc' = pc /\ state \in States
  BY LoopAssumption DEF AcceptOne
<1>3. CASE state = "die"
  BY <1>1, <1>2, <1>3, RefusedAccounts
<1>4. CASE state # "die"
  BY <1>1, <1>2, <1>4, PushedAccounts
<1> QED BY <1>3, <1>4

(* An event of a connection, like HandledStep.                             *)
LEMMA HandledAccounts ==
    ASSUME IInv, BInv, NEW e \in m_events, NEW state, NEW outcomes, Handle(e, state, outcomes),
           NEW known, known = (e.fd \in Fds /\ Known(e.fd)),
           known => \A x \in outcomes : Outcome(Conn(e.fd), x)
    PROVE  BInv'
<1>1. e.fd # Listen /\ Dispatch(e)
  BY DEF Handle
<1>2. /\ pc = "dispatch" /\ TypeOK /\ PoolInv /\ HeldInv /\ e.fd \in Fds /\ backlog' = backlog
  BY <1>1, EventTypes DEF IInv, Dispatch
<1>3. CASE UNCHANGED <<sock, fdOwner, armed, table>>
  BY <1>2, <1>3, QuietAccounts DEF table
<1>4. ASSUME Known(e.fd), NEW x \in outcomes, Done(e.fd, x)
      PROVE  BInv'
  <2>1. Outcome(Conn(e.fd), x)
    BY <1>2, <1>4
  <2>2. x \in ConnType /\ Conn(e.fd).s = sock[fdOwner[e.fd]]
    BY <1>2, <1>4, <2>1, FreshConnection DEF Outcome
  <2>3. /\ x.s \in Socket /\ x.garbage \in 0 .. BufferSize /\ x.dead \in BOOLEAN
        /\ x.s.peer = sock[fdOwner[e.fd]].peer /\ (x.s.peer = "up" => x.garbage = 0)
    BY <2>1, <2>2 DEF ConnType, Outcome
  <2>4. CASE x.dead
    <3>1. RemoveConnection(e.fd, x.s, x.garbage)
      BY <1>4, <2>4 DEF Done
    <3> QED BY <1>2, <1>4, <2>3, <3>1, ErasedAccounts
  <2>5. CASE ~x.dead
    <3>1. Back(e.fd, x)
      BY <1>4, <2>5 DEF Done, Back
    <3> QED BY <1>2, <1>4, <2>1, <3>1, BackAccounts
  <2> QED BY <2>3, <2>4, <2>5
<1> QED BY <1>3, <1>4, HandleCases

LEMMA DispatchAccounts ==
    ASSUME IInv, BInv, DispatchEof \/ DispatchRead \/ DispatchWrite
    PROVE  BInv'
<1>1. CASE DispatchEof
  <2>1. PICK e \in m_events :
          /\ e.eof /\ Dispatch(e)
          /\ IF Known(e.fd) THEN RemoveConnection(e.fd, sock[fdOwner[e.fd]], 0)
             ELSE UNCHANGED <<sock, fdOwner, armed, table>>
    BY <1>1 DEF DispatchEof, Erases
  <2>2. pc = "dispatch" /\ backlog' = backlog /\ TypeOK /\ PoolInv /\ HeldInv
    BY <2>1 DEF Dispatch, IInv
  <2>3. e.fd \in Fds
    BY <2>1, <2>2, EventTypes DEF IInv, EventsInv
  <2>4. CASE Known(e.fd)
    <3>1. sock[fdOwner[e.fd]] \in Socket /\ 0 \in 0 .. BufferSize
      BY <2>2, <2>3, <2>4, KnownIsOpen, CounterFacts
    <3> QED BY <2>1, <2>2, <2>3, <2>4, <3>1, ErasedAccounts
  <2>5. CASE ~Known(e.fd)
    BY <2>1, <2>2, <2>5, QuietAccounts DEF table
  <2> QED BY <2>4, <2>5
<1>2. CASE DispatchRead
  <2>1. PICK e \in m_events : Handle(e, "read", HandleRead(Conn(e.fd)))
    BY <1>2 DEF DispatchRead
  <2>2. PICK known : known = (e.fd \in Fds /\ Known(e.fd))
    OBVIOUS
  <2>3. ASSUME known, NEW x \in HandleRead(Conn(e.fd))
        PROVE  Outcome(Conn(e.fd), x)
    <3>1. TypeOK /\ PoolInv /\ HeldInv
      BY <2>1 DEF Handle, Dispatch, IInv
    <3>2. Fresh(Conn(e.fd))
      BY <2>2, <2>3, <3>1, FreshConnection
    <3> QED BY <2>3, <3>2, ReadOutcome
  <2> QED BY <2>1, <2>2, <2>3, HandledAccounts
<1>3. CASE DispatchWrite
  <2>1. PICK e \in m_events : Handle(e, "write", HandleWrite(Conn(e.fd)))
    BY <1>3 DEF DispatchWrite
  <2>2. PICK known : known = (e.fd \in Fds /\ Known(e.fd))
    OBVIOUS
  <2>3. ASSUME known, NEW x \in HandleWrite(Conn(e.fd))
        PROVE  Outcome(Conn(e.fd), x)
    <3>1. TypeOK /\ PoolInv /\ HeldInv
      BY <2>1 DEF Handle, Dispatch, IInv
    <3>2. Fresh(Conn(e.fd))
      BY <2>2, <2>3, <3>1, FreshConnection
    <3> QED BY <2>3, <3>2, WriteOutcome
  <2> QED BY <2>1, <2>2, <2>3, HandledAccounts
<1> QED BY <1>1, <1>2, <1>3

(* Destruction frees the pool: what is said of its rings says nothing then.*)
LEMMA AccountsInductive ==
    ASSUME IInv, BInv, [Next]_vars
    PROVE  BInv'
<1> USE DEF sockets, table
<1>1. CASE \/ SetUp \/ SetUpFails \/ Stop \/ LeaveLoop \/ Destroy
  <2>1. /\ UNCHANGED <<sock, backlog, fdOwner, m_connections, ring>>
        /\ m_pl' = m_pl \/ m_pl' = <<>>
        /\ pc # "destroyed"
    BY <1>1 DEF SetUp, SetUpFails, Stop, LeaveLoop, Destroy
  <2> QED BY <2>1, QuietAccounts
<1>2. CASE \/ Kevent \/ KeventFails \/ EndOfBatch \/ DispatchLost \/ DispatchAccept \/ AcceptEnds
  <2>1. /\ UNCHANGED <<sock, backlog, fdOwner, m_connections, ring, m_pl>> /\ pc # "destroyed"
    BY <1>2 DEF Kevent, KeventFails, EndOfBatch, DispatchLost, DispatchAccept, Dispatch, AcceptEnds
  <2> QED BY <2>1, QuietAccounts
<1>3. CASE DispatchEof \/ DispatchRead \/ DispatchWrite
  BY <1>3, DispatchAccounts
<1>4. CASE AcceptFails \/ AcceptOne
  BY <1>4, AcceptFailsAccounts, AcceptOneAccounts
<1>5. CASE \E c \in Clients : PeerActs(c)
  BY <1>5, PeerAccounts
<1>6. CASE Rests \/ UNCHANGED vars
  <2>1. UNCHANGED <<sock, backlog, fdOwner, m_connections, ring, m_pl>>
    BY <1>6 DEF Rests, vars
  <2>2. OneDescriptorEach' = OneDescriptorEach /\ AllUp' = AllUp
    BY <2>1 DEF OneDescriptorEach, AllUp
  <2>3. Accounts' = Accounts
    BY <2>1 DEF Accounts, PoolContents, Known, BufferOf, Held, Balance
  <2> QED BY <2>2, <2>3 DEF BInv
<1> QED BY <1>1, <1>2, <1>3, <1>4, <1>5, <1>6 DEF Next, LoopStep

LEMMA InitialAccounts ==
    ASSUME Init
    PROVE  BInv
<1>1. OneDescriptorEach /\ PoolContents(m_pl, ring)
  BY DescriptorsInit, ContentsInit DEF Init
<1>2. \A f \in Fds : ~Known(f)
  BY DEF Init, Known, BufferOf
<1> QED BY <1>1, <1>2 DEF BInv, Accounts

LEMMA AccountsInvariance == Spec => [](IInv /\ BInv)
<1>1. Init => IInv /\ BInv
  BY InitialStates, InitialAccounts
<1>2. IInv /\ BInv /\ [Next]_vars => IInv' /\ BInv'
  BY Inductive, AccountsInductive
<1> QED BY <1>1, <1>2, PTL DEF Spec

(* As long as no client has left, a buffer holds what was received on its  *)
(* connection and not sent back: no step of the loop loses a byte or       *)
(* counts one twice, and none goes to another connection.                  *)
THEOREM BytesAccounted == Spec => []ByteAccount
<1>1. BInv => ByteAccount
  BY DEF BInv, ByteAccount, AllUp, Accounts, Balance
<1> QED BY <1>1, AccountsInvariance, PTL
-----------------------------------------------------------------------------
(* The states the handlers assert.  A client that waits for its reply has  *)
(* nothing to send while the loop holds its byte.                          *)
LEMMA WindowKept ==
    ASSUME InWindow, sock \in [Clients -> Socket], sock' \in [Clients -> Socket],
           \A d \in Clients :
                /\ sock'[d].rx + sock'[d].in = sock[d].rx + sock[d].in
                /\ sock'[d].out + sock[d].tx = sock[d].out + sock'[d].tx
    PROVE  InWindow'
<1> SUFFICES ASSUME NEW c \in Clients
             PROVE  (sock'[c].rx + sock'[c].in) - (sock'[c].out - sock'[c].tx) <= Window
  BY DEF InWindow, Sent, Echoes
<1>1. /\ sock[c].rx \in Nat /\ sock[c].tx \in Nat /\ sock[c].in \in Nat /\ sock[c].out \in Nat
      /\ sock'[c].rx \in Nat /\ sock'[c].tx \in Nat /\ sock'[c].in \in Nat /\ sock'[c].out \in Nat
  BY SocketCounts
<1>2. (sock[c].rx + sock[c].in) - (sock[c].out - sock[c].tx) <= Window
  BY DEF InWindow, Sent, Echoes
<1>3. /\ sock'[c].rx + sock'[c].in = sock[c].rx + sock[c].in
      /\ sock'[c].out + sock[c].tx = sock[c].out + sock'[c].tx
  OBVIOUS
<1>4. PICK i, j, o, p, t, u :
        /\ i = sock[c].rx + sock[c].in /\ o = sock[c].out /\ t = sock[c].tx
        /\ j = sock'[c].rx + sock'[c].in /\ p = sock'[c].out /\ u = sock'[c].tx
  OBVIOUS
<1>. i \in Nat /\ j \in Nat /\ o \in Nat /\ p \in Nat /\ t \in Nat /\ u \in Nat
  BY <1>1, <1>4
<1>5. i - (o - t) <= Window /\ j = i /\ p + t = o + u /\ Window \in Nat
  BY <1>2, <1>3, <1>4, SocketAssumption
<1>6. j - (p - u) <= Window
  BY <1>5
<1> QED BY <1>4, <1>6

LEMMA ReplyAlone ==
    ASSUME TypeOK, PoolInv, Accounts, InWindow, Window <= 1, NEW f \in Fds, Known(f),
           Held(BufferOf(f)) # 0
    PROVE  sock[fdOwner[f]].rx = 0
<1>1. PICK c \in Clients : c = fdOwner[f]
  BY KnownIsOpen
<1>2. sock[c].rx \in Nat /\ sock[c].tx \in Nat /\ sock[c].in \in Nat /\ sock[c].out \in Nat
  BY Types, SocketCounts
<1>3. PICK h \in Nat : h = Held(BufferOf(f))
  <2>1. ring[BufferOf(f)] \in CounterPair
    BY KnownIsOpen
  <2>2. ring[BufferOf(f)].head \in Counter /\ ring[BufferOf(f)].tail \in Counter
    BY <2>1 DEF CounterPair
  <2>3. Held(BufferOf(f)) \in Counter
    BY <2>2, CountCases DEF Held
  <2> QED BY <2>3, CounterFacts, SMT DEF Counter
<1>4. h # 0 /\ h = sock[c].in - sock[c].out
  BY <1>1, <1>3 DEF Accounts, Balance
<1>5. (sock[c].rx + sock[c].in) - (sock[c].out - sock[c].tx) <= Window
  BY <1>1 DEF InWindow, Sent, Echoes
<1>6. PICK r \in Nat, i \in Nat, o \in Nat, t \in Nat :
        r = sock[c].rx /\ i = sock[c].in /\ o = sock[c].out /\ t = sock[c].tx
  BY <1>2
<1>7. (r + i) - (o - t) <= 1 /\ h = i - o /\ h # 0
  BY <1>4, <1>5, <1>6, SocketAssumption
<1>8. r = 0
  BY <1>3, <1>6, <1>7
<1> QED BY <1>1, <1>6, <1>8

(* What a client sends is within its window; what it reads widens it.      *)
LEMMA PeerWindow ==
    ASSUME TypeOK, InWindow, NEW c \in Clients, AllUp',
           Connects(c) \/ Sends(c) \/ Reads(c) \/ Closes(c) \/ Resets(c)
    PROVE  InWindow'
<1>1. sock \in [Clients -> Socket] /\ sock[c] \in Socket
  BY Types
<1>2. /\ sock[c].rx \in Nat /\ sock[c].tx \in Nat /\ sock[c].in \in Nat /\ sock[c].out \in Nat
      /\ Window \in Nat /\ MaxBytes \in Nat
  BY <1>1, SocketCounts, SocketAssumption
<1>3. (sock[c].rx + sock[c].in) - (sock[c].out - sock[c].tx) <= Window
  BY DEF InWindow, Sent, Echoes
<1>4. ASSUME NEW t \in Nat, NEW r \in Nat, sock'[c].rx = r, sock'[c].tx = t,
             \A d \in Clients : d # c => sock'[d] = sock[d],
             sock'[c].in = sock[c].in, sock'[c].out = sock[c].out,
             (r + sock[c].in) - (sock[c].out - t) <= Window
      PROVE  InWindow'
  BY <1>4 DEF InWindow, Sent, Echoes
<1>5. CASE Connects(c)
  <2>1. PICK s : s = [sock[c] EXCEPT !.phase = "queued"]
    OBVIOUS
  <2>2. sock' = [sock EXCEPT ![c] = s]
    BY <1>5, <2>1 DEF Connects
  <2>3. s.rx = sock[c].rx /\ s.tx = sock[c].tx /\ s.in = sock[c].in /\ s.out = sock[c].out
    BY <1>1, <2>1 DEF Socket
  <2> QED BY <1>1, <1>2, <1>3, <1>4, <2>2, <2>3
<1>6. CASE Sends(c)
  <2>1. PICK n \in 1 .. MaxBytes - Sent(c) :
          /\ Sent(c) + n - Echoes(c) <= Window
          /\ sock' = [sock EXCEPT ![c].rx = @ + n]
    BY <1>6 DEF Sends
  <2>2. PICK s, r : s = [sock[c] EXCEPT !.rx = r] /\ r = sock[c].rx + n
    OBVIOUS
  <2>3. sock' = [sock EXCEPT ![c] = s]
    BY <2>1, <2>2
  <2>4. s.rx = r /\ s.tx = sock[c].tx /\ s.in = sock[c].in /\ s.out = sock[c].out
    BY <1>1, <2>2 DEF Socket
  <2>5. n \in Nat
    BY <1>2, <2>1 DEF Sent
  <2>6. r \in Nat /\ (r + sock[c].in) - (sock[c].out - sock[c].tx) <= Window
    BY <1>2, <2>1, <2>2, <2>5 DEF Sent, Echoes
  <2> QED BY <1>1, <1>2, <1>4, <2>3, <2>4, <2>6
<1>7. CASE Reads(c)
  <2>1. PICK n \in 1 .. sock[c].tx : sock' = [sock EXCEPT ![c].tx = @ - n]
    BY <1>7 DEF Reads
  <2>2. PICK s, t : s = [sock[c] EXCEPT !.tx = t] /\ t = sock[c].tx - n
    OBVIOUS
  <2>3. sock' = [sock EXCEPT ![c] = s]
    BY <2>1, <2>2
  <2>4. s.rx = sock[c].rx /\ s.tx = t /\ s.in = sock[c].in /\ s.out = sock[c].out
    BY <1>1, <2>2 DEF Socket
  <2>5. t \in Nat /\ (sock[c].rx + sock[c].in) - (sock[c].out - t) <= Window
    BY <1>2, <1>3, <2>1, <2>2
  <2> QED BY <1>1, <1>2, <1>4, <2>3, <2>4, <2>5
<1>8. CASE Closes(c) \/ Resets(c)
  <2>1. sock'[c].peer # "up"
    <3>1. ASSUME NEW n, n # "up",
                 sock' = [sock EXCEPT ![c].peer = n] \/ sock' = [sock EXCEPT ![c].peer = n, ![c].tx = 0]
          PROVE  sock'[c].peer # "up"
      BY <1>1, <3>1 DEF Socket
    <3> QED BY <1>8, <3>1 DEF Closes, Resets, AnswersReset, ResetOf
  <2> QED BY <2>1 DEF AllUp
<1> QED BY <1>5, <1>6, <1>7, <1>8

(* A step that leaves the table alone, and handles no event or one more.   *)
LEMMA QuietEcho ==
    ASSUME Echo, InWindow', UNCHANGED <<fdOwner, armed, m_connections, ring>>,
           m_events' \ handled' \subseteq m_events \ handled, pc' # "asserted"
    PROVE  Echo'
<1>1. ReplyHeld'
  BY DEF Echo, ReplyHeld, Known, BufferOf, Held
<1>2. EventsExpected'
  BY DEF Echo, EventsExpected
<1> QED BY <1>1, <1>2 DEF Echo

LEMMA SameWindow ==
    ASSUME InWindow, UNCHANGED sock
    PROVE  InWindow'
  BY DEF InWindow, Sent, Echoes

LEMMA KeventEcho ==
    ASSUME Window <= 1, IInv, BInv, AllUp, Echo, Kevent
    PROVE  Echo'
<1>1. /\ m_events' = Pending /\ handled' = {} /\ pc' = "dispatch" /\ pc = "wait"
      /\ UNCHANGED <<sock, fdOwner, armed, m_connections, ring>>
  BY DEF Kevent, sockets, table
<1>2. TypeOK /\ PoolInv /\ Accounts /\ InWindow /\ ReplyHeld
  BY <1>1 DEF IInv, BInv, Echo
<1>3. ASSUME NEW e \in Pending, e.fd # Listen
      PROVE  /\ e.fd \in Fds /\ Known(e.fd) /\ fdOwner[e.fd] = e.to /\ e \in Event /\ ~e.eof
             /\ e.filter = "READ" => m_connections[e.fd].state = "read"
             /\ e.filter = "WRITE" => m_connections[e.fd].state = "write"
  <2>1. /\ e \in Event
        /\ e.fd \in Fds /\ Known(e.fd) /\ e.to = fdOwner[e.fd] /\ e.to # NoClient
        /\ e.filter = "READ" => sock[e.to].rx > 0 \/ sock[e.to].peer # "up"
        /\ e.filter = "WRITE" => e.fd \in armed
        /\ e.eof => sock[e.to].peer # "up"
    BY <1>2, <1>3, PendingTypes
  <2>2. sock[e.to].peer = "up"
    BY <1>2, <2>1, KnownIsOpen DEF AllUp
  <2>3. /\ m_connections[e.fd].state \in {"read", "write"}
        /\ e.fd \in armed <=> m_connections[e.fd].state = "write"
        /\ m_connections[e.fd].state = "write" => Held(BufferOf(e.fd)) # 0
    BY <1>2, <2>1 DEF ReplyHeld
  <2>4. m_connections[e.fd].state = "write" => sock[e.to].rx = 0
    BY <1>2, <2>1, <2>3, ReplyAlone
  <2>5. e.filter = "READ" => m_connections[e.fd].state = "read"
    BY <2>1, <2>2, <2>3, <2>4
  <2> QED BY <2>1, <2>2, <2>3, <2>5
<1>4. ASSUME NEW d \in Pending, NEW e \in Pending, d.fd = e.fd
      PROVE  d = e
  <2>1. d \in Event /\ e \in Event /\ Listen \notin Fds
    BY <1>2, PendingTypes, SocketAssumption DEF Listen
  <2>2. CASE e.fd = Listen
    <3>1. /\ d.eof = FALSE /\ e.eof = FALSE /\ d.filter = "READ" /\ e.filter = "READ"
          /\ d.to = NoClient /\ e.to = NoClient
      <4>1. ASSUME NEW x \in Pending, x.fd = Listen
            PROVE  x = [fd |-> Listen, filter |-> "READ", eof |-> FALSE, to |-> NoClient]
        <5>1. armed \subseteq Fds
          BY <1>2 DEF TypeOK
        <5> QED BY <2>1, <4>1, <5>1 DEF Pending
      <4> QED BY <1>4, <2>2, <4>1
    <3> QED BY <1>4, <2>1, <3>1 DEF Event
  <2>3. CASE e.fd # Listen
    <3>1. d.to = e.to /\ d.eof = e.eof
      BY <1>3, <1>4, <2>1, <2>3 DEF Event
    <3>2. d.filter \in {"READ", "WRITE"} /\ e.filter \in {"READ", "WRITE"}
      BY <2>1 DEF Event
    <3>3. d.filter = e.filter
      BY <1>3, <1>4, <2>3, <3>2
    <3> QED BY <1>4, <2>1, <3>1, <3>3 DEF Event
  <2> QED BY <2>2, <2>3
<1>5. EventsExpected'
  BY <1>1, <1>3, <1>4 DEF EventsExpected
<1>6. ReplyHeld' /\ InWindow'
  BY <1>1, <1>2, SameWindow DEF ReplyHeld, Known, BufferOf, Held
<1> QED BY <1>1, <1>5, <1>6 DEF Echo

(* The other connections, and the events left, when one event is handled.  *)
LEMMA OthersEcho ==
    ASSUME TypeOK, PoolInv, Echo, NEW f \in Fds, Known(f),
           NEW g \in Fds, g # f, Known(g)', m_connections'[g] = m_connections[g],
           g \in armed' <=> g \in armed,
           \A b \in 1 .. Len(ring) : b # BufferOf(f) => ring'[b] = ring[b]
    PROVE  /\ m_connections'[g].state \in {"read", "write"}
           /\ g \in armed' <=> m_connections'[g].state = "write"
           /\ m_connections'[g].state = "write" => Held(BufferOf(g))' # 0
<1>1. Known(g) /\ BufferOf(g)' = BufferOf(g)
  BY DEF Known, BufferOf
<1>2. BufferOf(g) \in 1 .. Len(ring) /\ BufferOf(g) # BufferOf(f)
  BY <1>1, KnownIsOpen
<1>3. Held(BufferOf(g))' = Held(BufferOf(g))
  BY <1>1, <1>2 DEF Held
<1> QED BY <1>1, <1>3 DEF Echo, ReplyHeld

LEMMA EventsLeft ==
    ASSUME Echo, NEW e \in m_events \ handled, m_events' = m_events,
           handled' = handled \cup {e}, NEW f, f = e.fd,
           \A d \in m_events \ handled : (d.fd # Listen /\ d.fd # f) =>
                /\ fdOwner'[d.fd] = fdOwner[d.fd] /\ m_connections'[d.fd] = m_connections[d.fd]
    PROVE  EventsExpected'
<1>1. ASSUME NEW d \in m_events' \ handled'
      PROVE  d \in m_events \ handled /\ d.fd # f
  BY <1>1 DEF Echo, EventsExpected
<1> QED BY <1>1 DEF Echo, EventsExpected

LEMMA ErasedEcho ==
    ASSUME IInv, Echo, NEW e \in m_events, Dispatch(e), Known(e.fd), e.fd \in Fds,
           NEW s \in Socket, NEW garbage \in 0 .. BufferSize,
           RemoveConnection(e.fd, s, garbage), pc' # "asserted",
           s.rx + s.in = sock[fdOwner[e.fd]].rx + sock[fdOwner[e.fd]].in,
           s.out + sock[fdOwner[e.fd]].tx = sock[fdOwner[e.fd]].out + s.tx
    PROVE  Echo'
<1>1. /\ pc = "dispatch" /\ m_events' = m_events /\ handled' = handled \cup {e}
      /\ e \in m_events \ handled
  BY DEF Dispatch
<1>2. TypeOK /\ PoolInv /\ HeldInv /\ EventsInv
  BY <1>1 DEF IInv
<1>3. PICK f \in Fds : f = e.fd
  OBVIOUS
<1>4. PICK c \in Clients : c = fdOwner[f]
  BY <1>2, <1>3, KnownIsOpen
<1>5. PICK b \in 1 .. Len(ring) : b = BufferOf(f)
  BY <1>2, <1>3, KnownIsOpen
<1>6. /\ TableInv' /\ ~Known(f)'
      /\ \A g \in Fds : g # f => fdOwner'[g] = fdOwner[g] /\ m_connections'[g] = m_connections[g]
  BY <1>2, <1>3, RemoveKeeps
<1>7. /\ sock' = [sock EXCEPT ![c] = [s EXCEPT !.phase = "closed"]]
      /\ armed' = armed \ {f} /\ ring' = [ring EXCEPT ![b] = [head |-> 0, tail |-> garbage]]
  BY <1>3, <1>4, <1>5 DEF RemoveConnection
<1>8. InWindow'
  <2>1. PICK t : t = [s EXCEPT !.phase = "closed"]
    OBVIOUS
  <2>2. t.rx = s.rx /\ t.in = s.in /\ t.out = s.out /\ t.tx = s.tx
    BY <2>1 DEF Socket
  <2>3. sock \in [Clients -> Socket] /\ sock' \in [Clients -> Socket]
    BY <1>2, <1>6, Types DEF TableInv, TableOK
  <2>4. sock'[c] = t /\ \A d \in Clients : d # c => sock'[d] = sock[d]
    BY <1>7, <2>1, <2>3
  <2>5. /\ t.rx + t.in = sock[c].rx + sock[c].in
        /\ t.out + sock[c].tx = sock[c].out + t.tx
    BY <1>3, <1>4, <2>2
  <2>6. ASSUME NEW d \in Clients
        PROVE  /\ sock'[d].rx + sock'[d].in = sock[d].rx + sock[d].in
               /\ sock'[d].out + sock[d].tx = sock[d].out + sock'[d].tx
    BY <2>4, <2>5
  <2> QED BY <2>3, <2>6, WindowKept DEF Echo
<1>9. ReplyHeld'
  <2>1. \A d \in 1 .. Len(ring) : d # b => ring'[d] = ring[d]
    BY <1>2, <1>7, Types
  <2>2. ASSUME NEW g \in Fds, Known(g)'
        PROVE  /\ m_connections'[g].state \in {"read", "write"}
               /\ g \in armed' <=> m_connections'[g].state = "write"
               /\ m_connections'[g].state = "write" => Held(BufferOf(g))' # 0
    <3>1. g # f
      BY <1>6, <2>2
    <3>2. g \in armed' <=> g \in armed
      BY <1>7, <3>1
    <3> QED BY <1>2, <1>3, <1>5, <1>6, <2>1, <2>2, <3>1, <3>2, OthersEcho
  <2> QED BY <2>2 DEF ReplyHeld
<1>10. EventsExpected'
  <2>1. \A d \in m_events \ handled : (d.fd # Listen /\ d.fd # f) =>
            /\ fdOwner'[d.fd] = fdOwner[d.fd] /\ m_connections'[d.fd] = m_connections[d.fd]
    BY <1>2, <1>6, EventTypes
  <2> QED BY <1>1, <1>3, <2>1, EventsLeft
<1> QED BY <1>8, <1>9, <1>10 DEF Echo

LEMMA BackEcho ==
    ASSUME IInv, Echo, NEW e \in m_events, Dispatch(e), Known(e.fd), e.fd \in Fds,
           NEW x, Outcome(Conn(e.fd), x), Back(e.fd, x), pc' # "asserted",
           x.state \in {"read", "write"}, x.armed = (x.state = "write"),
           x.state = "write" => Holds(x) # 0
    PROVE  Echo'
<1>1. /\ pc = "dispatch" /\ m_events' = m_events /\ handled' = handled \cup {e}
      /\ e \in m_events \ handled
  BY DEF Dispatch
<1>2. TypeOK /\ PoolInv /\ HeldInv /\ EventsInv
  BY <1>1 DEF IInv
<1>3. PICK f \in Fds : f = e.fd
  OBVIOUS
<1>4. PICK c \in Clients : c = fdOwner[f]
  BY <1>2, <1>3, KnownIsOpen
<1>5. PICK b \in 1 .. Len(ring) : b = BufferOf(f)
  BY <1>2, <1>3, KnownIsOpen
<1>6. PICK y : y = Conn(f)
  OBVIOUS
<1>7. /\ x \in ConnType /\ Holds(x) <= BufferSize
      /\ x.s.rx + x.s.in = y.s.rx + y.s.in
      /\ x.s.out + y.s.tx = y.s.out + x.s.tx
  BY <1>3, <1>6 DEF Outcome
<1>8. y.s = sock[c]
  BY <1>2, <1>3, <1>4, <1>6, FreshConnection
<1>9. /\ TableInv' /\ fdOwner' = fdOwner /\ m_connections'[f].state = x.state
      /\ \A g \in Fds : BufferOf(g)' = BufferOf(g)
      /\ \A g \in Fds : g # f => m_connections'[g] = m_connections[g]
      /\ ring'[b] = x.r /\ \A d \in 1 .. Len(ring) : d # b => ring'[d] = ring[d]
  BY <1>2, <1>3, <1>5, <1>7, BackKeeps
<1>10. /\ sock' = [sock EXCEPT ![c] = x.s]
       /\ armed' = IF x.armed THEN armed \cup {f} ELSE armed \ {f}
  BY <1>3, <1>4 DEF Back
<1>11. InWindow'
  <2>1. sock \in [Clients -> Socket] /\ sock' \in [Clients -> Socket]
    BY <1>2, <1>9, Types DEF TableInv, TableOK
  <2>2. sock'[c] = x.s /\ \A d \in Clients : d # c => sock'[d] = sock[d]
    BY <1>10, <2>1
  <2>3. ASSUME NEW d \in Clients
        PROVE  /\ sock'[d].rx + sock'[d].in = sock[d].rx + sock[d].in
               /\ sock'[d].out + sock[d].tx = sock[d].out + sock'[d].tx
    BY <1>7, <1>8, <2>2
  <2> QED BY <2>1, <2>3, WindowKept DEF Echo
<1>12. ReplyHeld'
  <2>1. /\ m_connections'[f].state \in {"read", "write"}
        /\ f \in armed' <=> m_connections'[f].state = "write"
        /\ m_connections'[f].state = "write" => Held(BufferOf(f))' # 0
    <3>1. Held(BufferOf(f))' = Holds(x)
      BY <1>5, <1>9 DEF Held, Holds
    <3>2. f \in armed' <=> x.state = "write"
      BY <1>10
    <3> QED BY <1>9, <3>1, <3>2
  <2>2. ASSUME NEW g \in Fds, Known(g)', g # f
        PROVE  /\ m_connections'[g].state \in {"read", "write"}
               /\ g \in armed' <=> m_connections'[g].state = "write"
               /\ m_connections'[g].state = "write" => Held(BufferOf(g))' # 0
    <3>1. g \in armed' <=> g \in armed
      BY <1>10, <2>2
    <3> QED BY <1>2, <1>3, <1>5, <1>9, <2>2, <3>1, OthersEcho
  <2> QED BY <2>1, <2>2 DEF ReplyHeld
<1>13. EventsExpected'
  <2>1. \A d \in m_events \ handled : (d.fd # Listen /\ d.fd # f) =>
            /\ fdOwner'[d.fd] = fdOwner[d.fd] /\ m_connections'[d.fd] = m_connections[d.fd]
    BY <1>2, <1>9, EventTypes
  <2> QED BY <1>1, <1>3, <2>1, EventsLeft
<1> QED BY <1>11, <1>12, <1>13 DEF Echo

(* A handler leaves its connection reading, or writing what it holds.      *)
Replying(x) ==
    \/ x.dead
    \/ /\ x.state \in {"read", "write"} /\ x.armed = (x.state = "write")
       /\ x.state = "write" => Holds(x) # 0

LEMMA HandledEcho ==
    ASSUME IInv, BInv, EchoInv, AllUp', NEW e \in m_events, NEW state, NEW outcomes,
           Handle(e, state, outcomes), state \in {"read", "write"},
           e.filter = IF state = "read" THEN "READ" ELSE "WRITE",
           NEW known, known = (e.fd \in Fds /\ Known(e.fd) /\ m_connections[e.fd].state = state),
           known => \A x \in outcomes : Outcome(Conn(e.fd), x),
           known /\ Echo => \A x \in outcomes : Replying(x)
    PROVE  Echo'
<1>1. e.fd # Listen /\ Dispatch(e)
  BY DEF Handle
<1>2. /\ pc = "dispatch" /\ TypeOK /\ PoolInv /\ HeldInv /\ e.fd \in Fds /\ backlog' = backlog
      /\ m_events' = m_events /\ handled' = handled \cup {e} /\ e \in m_events \ handled
  BY <1>1, EventTypes DEF IInv, Dispatch
<1>3. CASE UNCHANGED <<sock, fdOwner, armed, table, pc>>
  <2>1. Echo
    BY <1>3 DEF EchoInv, AllUp
  <2>2. InWindow'
    BY <1>3, <2>1, SameWindow DEF Echo
  <2>3. UNCHANGED <<fdOwner, armed, m_connections, ring>> /\ pc' # "asserted"
    BY <1>2, <1>3 DEF table
  <2>4. m_events' \ handled' \subseteq m_events \ handled
    BY <1>2
  <2> QED BY <2>1, <2>2, <2>3, <2>4, QuietEcho
<1>4. CASE /\ Known(e.fd) /\ m_connections[e.fd].state # state
           /\ UNCHANGED <<sock, fdOwner, armed, table>>
  <2>1. Echo
    BY <1>4 DEF EchoInv, AllUp
  <2>2. m_connections[e.fd].state = state
    BY <1>1, <1>2, <2>1 DEF Echo, EventsExpected
  <2> QED BY <1>4, <2>2
<1>5. ASSUME Known(e.fd), m_connections[e.fd].state = state, NEW x \in outcomes, Done(e.fd, x)
      PROVE  Echo'
  <2>1. Outcome(Conn(e.fd), x)
    BY <1>2, <1>5
  <2>2. PICK y : y = Conn(e.fd) /\ Outcome(y, x)
    BY <2>1
  <2>3. y.s = sock[fdOwner[e.fd]] /\ fdOwner[e.fd] \in Clients
    BY <1>2, <1>5, <2>2, FreshConnection, KnownIsOpen
  <2>4. /\ x \in ConnType /\ Holds(x) <= BufferSize /\ x.s.peer = y.s.peer
        /\ y.s.peer = "up" => x.garbage = 0 /\ ~x.lost
        /\ x.s.rx + x.s.in = y.s.rx + y.s.in
        /\ x.s.out + y.s.tx = y.s.out + x.s.tx
    BY <2>2 DEF Outcome
  <2>5. x.s \in Socket /\ x.garbage \in 0 .. BufferSize /\ x.dead \in BOOLEAN
    BY <2>4 DEF ConnType
  <2>6. pc' = IF x.lost THEN "crashed" ELSE pc
    BY <1>5 DEF Done
  <2>7. pc' # "asserted"
    BY <1>2, <2>6
  <2>8. CASE x.dead
    <3>1. RemoveConnection(e.fd, x.s, x.garbage)
      BY <1>5, <2>8 DEF Done
    <3>2. AllUp' => AllUp
      BY <1>2, <1>5, <2>3, <2>4, <2>5, <3>1, ErasedAccounts
    <3>3. Echo
      BY <3>2 DEF EchoInv
    <3> QED BY <1>1, <1>2, <1>5, <2>3, <2>4, <2>5, <2>7, <3>1, <3>3, ErasedEcho
  <2>9. CASE ~x.dead
    <3>1. Back(e.fd, x)
      BY <1>5, <2>9 DEF Done, Back
    <3>2. AllUp' => AllUp
      BY <1>2, <1>5, <2>1, <3>1, BackAccounts
    <3>3. Echo
      BY <3>2 DEF EchoInv
    <3>4. /\ x.state \in {"read", "write"} /\ x.armed = (x.state = "write")
          /\ x.state = "write" => Holds(x) # 0
      <4>1. Replying(x)
        BY <1>2, <1>5, <3>3
      <4> QED BY <2>9, <4>1 DEF Replying
    <3> QED BY <1>1, <1>2, <1>5, <2>1, <2>7, <3>1, <3>3, <3>4, BackEcho
  <2> QED BY <2>5, <2>8, <2>9
<1> QED BY <1>2, <1>3, <1>4, <1>5, HandleCases

LEMMA ReadEcho ==
    ASSUME IInv, BInv, EchoInv, AllUp', DispatchRead
    PROVE  Echo'
<1>1. PICK e \in m_events : e.filter = "READ" /\ Handle(e, "read", HandleRead(Conn(e.fd)))
  BY DEF DispatchRead
<1>2. PICK known : known = (e.fd \in Fds /\ Known(e.fd) /\ m_connections[e.fd].state = "read")
  OBVIOUS
<1>3. TypeOK /\ PoolInv /\ HeldInv
  BY <1>1 DEF Handle, Dispatch, IInv
<1>4. ASSUME known
      PROVE  Fresh(Conn(e.fd))
  BY <1>2, <1>3, <1>4, FreshConnection
<1>5. ASSUME known, NEW x \in HandleRead(Conn(e.fd))
      PROVE  Outcome(Conn(e.fd), x)
  BY <1>4, <1>5, ReadOutcome
<1>6. ASSUME known, Echo, NEW x \in HandleRead(Conn(e.fd))
      PROVE  Replying(x)
  <2>1. AfterRead(Conn(e.fd), x) /\ x \in ConnType
    BY <1>4, <1>6, ReadOutcome DEF Outcome
  <2>2. PICK y, a : y = Conn(e.fd) /\ a = (e.fd \in armed)
    OBVIOUS
  <2>3. y.state = "read" /\ y.armed = a
    BY <1>2, <1>3, <1>6, <2>2, FreshConnection
  <2>4. ~a
    BY <1>2, <1>6, <2>2 DEF Echo, ReplyHeld
  <2>5. AfterRead(y, x)
    BY <2>1, <2>2
  <2>6. CASE x.state = y.state /\ x.armed = y.armed
    <3>1. x.armed = FALSE /\ x.state = "read"
      <4>1. a = FALSE
        BY <2>2, <2>4
      <4> QED BY <2>3, <2>6, <4>1
    <3> QED BY <3>1 DEF Replying
  <2>7. CASE x.state # "idle" /\ x.armed = (x.state = "write") /\ Holds(x) # 0
    <3>1. x.state \in {"read", "write"}
      BY <2>1, <2>7 DEF ConnType, States
    <3> QED BY <2>7, <3>1 DEF Replying
  <2> QED BY <2>5, <2>6, <2>7 DEF AfterRead, Replying
<1> QED BY <1>1, <1>2, <1>5, <1>6, HandledEcho

LEMMA WriteEcho ==
    ASSUME Replies, IInv, BInv, EchoInv, AllUp', DispatchWrite
    PROVE  Echo'
<1>1. PICK e \in m_events : e.filter = "WRITE" /\ Handle(e, "write", HandleWrite(Conn(e.fd)))
  BY DEF DispatchWrite
<1>2. PICK known : known = (e.fd \in Fds /\ Known(e.fd) /\ m_connections[e.fd].state = "write")
  OBVIOUS
<1>3. TypeOK /\ PoolInv /\ HeldInv
  BY <1>1 DEF Handle, Dispatch, IInv
<1>4. ASSUME known
      PROVE  Fresh(Conn(e.fd))
  BY <1>2, <1>3, <1>4, FreshConnection
<1>5. ASSUME known, NEW x \in HandleWrite(Conn(e.fd))
      PROVE  Outcome(Conn(e.fd), x)
  BY <1>4, <1>5, WriteOutcome
<1>6. ASSUME known, Echo, NEW x \in HandleWrite(Conn(e.fd))
      PROVE  Replying(x)
  <2>1. AfterWrite(Conn(e.fd), x) /\ x \in ConnType
    BY <1>4, <1>6, WriteOutcome DEF Outcome
  <2>2. PICK y, a : y = Conn(e.fd) /\ a = (e.fd \in armed)
    OBVIOUS
  <2>3. y.state = "write" /\ y.armed = a
    BY <1>2, <1>3, <1>6, <2>2, FreshConnection
  <2>4. a
    BY <1>2, <1>6, <2>2 DEF Echo, ReplyHeld
  <2>5. AfterWrite(y, x) /\ "idle" \notin OnWrite
    BY <2>1, <2>2 DEF Replies
  <2>6. CASE x.state = y.state /\ x.armed = y.armed /\ Holds(x) # 0
    BY <2>3, <2>4, <2>6 DEF Replying
  <2>7. CASE x.state \in OnWrite /\ x.state # "idle" /\ x.armed = (x.state = "write")
    <3>1. x.state = "read"
      BY <2>1, <2>7 DEF ConnType, Replies
    <3> QED BY <2>7, <3>1 DEF Replying
  <2> QED BY <2>5, <2>6, <2>7 DEF AfterWrite, Replying
<1> QED BY <1>1, <1>2, <1>5, <1>6, HandledEcho

LEMMA EofEcho ==
    ASSUME IInv, BInv, EchoInv, AllUp', DispatchEof
    PROVE  Echo'
<1>1. PICK e \in m_events :
        /\ e.eof /\ Dispatch(e)
        /\ IF Known(e.fd) THEN RemoveConnection(e.fd, sock[fdOwner[e.fd]], 0)
           ELSE UNCHANGED <<sock, fdOwner, armed, table>>
  BY DEF DispatchEof, Erases
<1>2. /\ pc = "dispatch" /\ backlog' = backlog /\ TypeOK /\ PoolInv /\ HeldInv /\ pc' = pc
      /\ m_events' = m_events /\ handled' = handled \cup {e}
  BY <1>1 DEF Dispatch, IInv, DispatchEof
<1>3. e.fd \in Fds
  BY <1>1, <1>2, EventTypes DEF IInv, EventsInv
<1>4. CASE Known(e.fd)
  <2>1. PICK s \in Socket : s = sock[fdOwner[e.fd]] /\ RemoveConnection(e.fd, s, 0)
    BY <1>1, <1>2, <1>3, <1>4, KnownIsOpen
  <2>2. 0 \in 0 .. BufferSize
    BY CounterFacts
  <2>3. AllUp' => AllUp
    BY <1>2, <1>3, <1>4, <2>1, <2>2, ErasedAccounts
  <2>4. Echo
    BY <2>3 DEF EchoInv
  <2>5. /\ s.rx + s.in = sock[fdOwner[e.fd]].rx + sock[fdOwner[e.fd]].in
        /\ s.out + sock[fdOwner[e.fd]].tx = sock[fdOwner[e.fd]].out + s.tx
    BY <2>1
  <2> QED BY <1>1, <1>2, <1>3, <1>4, <2>1, <2>2, <2>4, <2>5, ErasedEcho
<1>5. CASE ~Known(e.fd)
  <2>1. Echo /\ UNCHANGED <<sock, fdOwner, armed, m_connections, ring>>
    BY <1>1, <1>5 DEF EchoInv, AllUp, table
  <2>2. InWindow'
    BY <2>1, SameWindow DEF Echo
  <2>3. m_events' \ handled' \subseteq m_events \ handled /\ pc' # "asserted"
    BY <1>2
  <2> QED BY <2>1, <2>2, <2>3, QuietEcho
<1> QED BY <1>4, <1>5

LEMMA AcceptEcho ==
    ASSUME Replies, IInv, BInv, EchoInv, AllUp', AcceptFails \/ AcceptOne
    PROVE  Echo'
<1>1. ASSUME NEW f \in Fds, NEW c \in Clients, Accept(f, c), pc' \in {pc, "dispatch"},
             NEW phase \in {"open", "closed"}, sock' = [sock EXCEPT ![c].phase = phase],
             fdOwner' = IF phase = "open" THEN [fdOwner EXCEPT ![f] = c] ELSE fdOwner
      PROVE  /\ Echo /\ InWindow' /\ pc' # "asserted"
             /\ m_events' = m_events /\ handled' = handled
             /\ TypeOK /\ PoolInv /\ HeldInv /\ EventsInv /\ PoolTypeOK
             /\ fdOwner[f] = NoClient /\ ~Known(f)
  <2>1. /\ m_events' = m_events /\ handled' = handled /\ pc = "accept"
        /\ TypeOK /\ PoolInv /\ HeldInv /\ EventsInv /\ fdOwner[f] = NoClient /\ ~Known(f)
    BY <1>1, AcceptFacts
  <2>2. Echo
    BY <1>1, AcceptedBytes DEF BInv, EchoInv
  <2>3. sock \in [Clients -> Socket] /\ sock' \in [Clients -> Socket]
    BY <1>1, <2>1, Types, PhaseType
  <2>4. PICK s : s = [sock[c] EXCEPT !.phase = phase] /\ sock[c] \in Socket
    BY <2>3
  <2>5. sock'[c] = s /\ \A d \in Clients : d # c => sock'[d] = sock[d]
    BY <1>1, <2>3, <2>4
  <2>6. s.rx = sock[c].rx /\ s.in = sock[c].in /\ s.out = sock[c].out /\ s.tx = sock[c].tx
    BY <2>4 DEF Socket
  <2>7. ASSUME NEW d \in Clients
        PROVE  /\ sock'[d].rx + sock'[d].in = sock[d].rx + sock[d].in
               /\ sock'[d].out + sock[d].tx = sock[d].out + sock'[d].tx
    BY <2>5, <2>6
  <2>8. InWindow'
    BY <2>2, <2>3, <2>7, WindowKept DEF Echo
  <2> QED BY <1>1, <2>1, <2>2, <2>8 DEF TypeOK
<1>2. CASE AcceptFails
  <2>1. PICK f \in Fds, c \in Clients : Accept(f, c) /\ sock' = [sock EXCEPT ![c].phase = "closed"]
    BY <1>2 DEF AcceptFails
  <2>2. UNCHANGED <<fdOwner, armed, m_connections, ring>> /\ pc' \in {pc, "dispatch"}
    BY <1>2 DEF AcceptFails, table
  <2>3. PICK phase \in {"open", "closed"} : phase = "closed"
    OBVIOUS
  <2>4. /\ sock' = [sock EXCEPT ![c].phase = phase]
        /\ fdOwner' = IF phase = "open" THEN [fdOwner EXCEPT ![f] = c] ELSE fdOwner
    BY <2>1, <2>2, <2>3
  <2>5. Echo /\ InWindow' /\ pc' # "asserted" /\ m_events' = m_events /\ handled' = handled
    BY <1>1, <2>1, <2>2, <2>4
  <2> QED BY <2>2, <2>5, QuietEcho
<1>3. CASE AcceptOne
  <2>1. PICK f \in Fds, c \in Clients, state \in OnConnect :
        /\ Accept(f, c)
        /\ IF state = "die"
           THEN /\ sock' = [sock EXCEPT ![c].phase = "closed"]
                /\ m_pl' = Append(PoolWithout, Allocated)
                /\ ring' = [RingWithNew EXCEPT ![Allocated] = EmptyRing]
                /\ UNCHANGED <<fdOwner, armed, m_connections>>
           ELSE /\ sock' = [sock EXCEPT ![c].phase = "open"]
                /\ fdOwner' = [fdOwner EXCEPT ![f] = c]
                /\ armed' = IF state = "write" THEN armed \cup {f} ELSE armed
                /\ m_connections' = [m_connections EXCEPT
                        ![f] = [state |-> state, buffer |-> Allocated]]
                /\ m_pl' = PoolWithout /\ ring' = RingWithNew
    BY <1>3 DEF AcceptOne
  <2>2. pc' = pc
    BY <1>3 DEF AcceptOne
  <2>3. PICK phase \in {"open", "closed"} : phase = IF state = "die" THEN "closed" ELSE "open"
    OBVIOUS
  <2>4. /\ sock' = [sock EXCEPT ![c].phase = phase]
        /\ fdOwner' = IF phase = "open" THEN [fdOwner EXCEPT ![f] = c] ELSE fdOwner
    BY <2>1, <2>3
  <2>5. /\ Echo /\ InWindow' /\ pc' # "asserted" /\ m_events' = m_events /\ handled' = handled
        /\ TypeOK /\ PoolInv /\ HeldInv /\ EventsInv /\ PoolTypeOK
        /\ fdOwner[f] = NoClient /\ ~Known(f)
    BY <1>1, <2>1, <2>2, <2>4
  <2>6. CASE state = "die"
    <3>1. \A g \in Fds : Known(g) => ring'[BufferOf(g)] = ring[BufferOf(g)]
      <4>1. PICK u : u = BufferTable
        OBVIOUS
      <4>2. Conserved(m_pl, Len(m_pl), Len(ring), Fds, u)
        BY <2>5, <4>1 DEF PoolInv
      <4>3. /\ m_pl' = Append(PoolWithout, Allocated)
            /\ ring' = [RingWithNew EXCEPT ![Allocated] = EmptyRing]
        BY <2>1, <2>6
      <4>4. \A g \in Fds : u[g] # 0 => ring'[u[g]] = ring[u[g]]
        BY <2>5, <4>2, <4>3, RefusedBuffer
      <4>5. \A g \in Fds : u[g] = BufferOf(g) /\ (Known(g) => u[g] # 0)
        BY <4>1 DEF BufferTable, Known, NoBuffer
      <4> QED BY <4>4, <4>5
    <3>2. UNCHANGED <<fdOwner, armed, m_connections>>
      BY <2>1, <2>6
    <3>3. ReplyHeld'
      BY <2>5, <3>1, <3>2 DEF Echo, ReplyHeld, Known, BufferOf, Held
    <3>4. EventsExpected'
      BY <2>5, <3>2 DEF Echo, EventsExpected
    <3> QED BY <2>5, <3>3, <3>4 DEF Echo
  <2>7. CASE state # "die"
    <3>0. state \in States \ {"die"}
      BY <2>7, LoopAssumption
    <3>1. state = "read"
      BY <2>7 DEF Replies
    <3>2. /\ sock' = [sock EXCEPT ![c].phase = "open"]
          /\ fdOwner' = [fdOwner EXCEPT ![f] = c]
          /\ armed' = IF state = "write" THEN armed \cup {f} ELSE armed
          /\ m_connections' = [m_connections EXCEPT
                  ![f] = [state |-> state, buffer |-> Allocated]]
          /\ m_pl' = PoolWithout /\ ring' = RingWithNew
      BY <2>1, <2>7
    <3>3. /\ m_connections'[f].state = state
          /\ \A g \in Fds : g # f => /\ fdOwner'[g] = fdOwner[g]
                                     /\ m_connections'[g] = m_connections[g]
          /\ \A b \in 1 .. Len(ring) : ring'[b] = ring[b]
      <4>1. TypeOK /\ PoolInv /\ HeldInv /\ fdOwner[f] = NoClient
        BY <2>5
      <4>2. /\ \A g \in Fds : g # f => /\ fdOwner'[g] = fdOwner[g]
                                        /\ m_connections'[g] = m_connections[g]
            /\ \A b \in 1 .. Len(ring) : ring'[b] = ring[b]
        BY <3>0, <3>2, <4>1, PushedTable
      <4>3. m_connections'[f] = [state |-> state, buffer |-> Allocated]
        BY <3>2, <4>1 DEF TypeOK
      <4> QED BY <4>2, <4>3
    <3>4. armed' = armed /\ f \notin armed
      BY <2>5, <3>1, <3>2 DEF PoolInv
    <3>5. ASSUME NEW g \in Fds, Known(g)', g # f
          PROVE  /\ m_connections'[g].state \in {"read", "write"}
                 /\ g \in armed' <=> m_connections'[g].state = "write"
                 /\ m_connections'[g].state = "write" => Held(BufferOf(g))' # 0
      <4>1. Known(g) /\ BufferOf(g)' = BufferOf(g) /\ m_connections'[g] = m_connections[g]
        BY <3>3, <3>5 DEF Known, BufferOf
      <4>2. BufferOf(g) \in 1 .. Len(ring)
        BY <2>5, <4>1, KnownIsOpen
      <4>3. Held(BufferOf(g))' = Held(BufferOf(g))
        BY <3>3, <4>1, <4>2 DEF Held
      <4> QED BY <2>5, <3>4, <4>1, <4>3 DEF Echo, ReplyHeld
    <3>6. ReplyHeld'
      BY <3>1, <3>3, <3>4, <3>5 DEF ReplyHeld
    <3>7. EventsExpected'
      <4>1. ASSUME NEW d \in m_events' \ handled', d.fd # Listen
            PROVE  d \in m_events \ handled /\ d.fd \in Fds /\ d.fd # f
        <5>1. d \in m_events \ handled /\ d.fd \in Fds
          BY <2>5, <4>1, EventTypes
        <5>2. fdOwner[d.fd] = d.to /\ d.to # NoClient
          BY <2>5, <4>1, <5>1 DEF Echo, EventsExpected, EventsInv
        <5> QED BY <2>5, <5>1, <5>2
      <4> QED BY <2>5, <3>3, <4>1 DEF Echo, EventsExpected
    <3> QED BY <2>5, <3>6, <3>7 DEF Echo
  <2> QED BY <2>6, <2>7
<1> QED BY <1>2, <1>3

LEMMA PeerEcho ==
    ASSUME IInv, BInv, EchoInv, AllUp', NEW c \in Clients, PeerActs(c)
    PROVE  Echo'
<1>1. /\ Running /\ UNCHANGED <<fdOwner, armed, table, m_events, handled, pc>>
      /\ Connects(c) \/ Sends(c) \/ Reads(c) \/ Closes(c) \/ Resets(c)
  BY DEF PeerActs, PeerReads, Peer
<1>2. TypeOK /\ sock \in [Clients -> Socket]
  BY Types DEF IInv
<1>3. Echo
  <2>1. AllUp
    BY <1>1, <1>2, PeersOfClients DEF AllUp
  <2> QED BY <2>1 DEF EchoInv
<1>4. InWindow'
  BY <1>1, <1>2, <1>3, PeerWindow DEF Echo
<1>5. UNCHANGED <<fdOwner, armed, m_connections, ring>> /\ pc' # "asserted"
  BY <1>1 DEF table, Running
<1>6. m_events' \ handled' \subseteq m_events \ handled
  BY <1>1
<1> QED BY <1>3, <1>4, <1>5, <1>6, QuietEcho

LEMMA EchoInductive ==
    ASSUME Replies, Window <= 1, IInv, BInv, EchoInv, [Next]_vars
    PROVE  EchoInv'
<1> SUFFICES ASSUME AllUp' PROVE Echo'
  BY DEF EchoInv
<1> USE DEF sockets, table
<1>1. CASE \/ SetUp \/ SetUpFails \/ Stop \/ LeaveLoop \/ Destroy \/ KeventFails
           \/ EndOfBatch \/ DispatchLost \/ DispatchAccept \/ AcceptEnds
  <2>1. /\ UNCHANGED <<sock, fdOwner, armed, m_connections, ring>> /\ pc' # "asserted"
        /\ m_events' \ handled' \subseteq m_events \ handled
    BY <1>1 DEF SetUp, SetUpFails, Stop, LeaveLoop, Destroy, KeventFails, EndOfBatch,
                DispatchLost, DispatchAccept, Dispatch, AcceptEnds
  <2>2. Echo
    BY <2>1 DEF EchoInv, AllUp
  <2>3. InWindow'
    BY <2>1, <2>2, SameWindow DEF Echo
  <2> QED BY <2>1, <2>2, <2>3, QuietEcho
<1>2. CASE Kevent
  <2>1. UNCHANGED sock
    BY <1>2 DEF Kevent
  <2>2. AllUp /\ Echo
    BY <2>1 DEF EchoInv, AllUp
  <2> QED BY <1>2, <2>2, KeventEcho
<1>3. CASE DispatchEof \/ DispatchRead \/ DispatchWrite
  BY <1>3, EofEcho, ReadEcho, WriteEcho
<1>4. CASE AcceptFails \/ AcceptOne
  BY <1>4, AcceptEcho
<1>5. CASE \E c \in Clients : PeerActs(c)
  BY <1>5, PeerEcho
<1>6. CASE Rests \/ UNCHANGED vars
  <2>1. UNCHANGED <<sock, fdOwner, armed, m_connections, ring, m_events, handled, pc>>
    BY <1>6 DEF Rests, vars
  <2>2. Echo /\ pc # "asserted"
    BY <2>1 DEF EchoInv, AllUp, Echo
  <2>3. InWindow'
    BY <2>1, <2>2, SameWindow DEF Echo
  <2>4. m_events' \ handled' \subseteq m_events \ handled /\ pc' # "asserted"
    BY <2>1, <2>2
  <2> QED BY <2>1, <2>2, <2>3, <2>4, QuietEcho
<1> QED BY <1>1, <1>2, <1>3, <1>4, <1>5, <1>6 DEF Next, LoopStep

LEMMA InitialEcho ==
    ASSUME Init
    PROVE  EchoInv
<1>1. \A c \in Clients : /\ sock[c].rx = 0 /\ sock[c].in = 0
                         /\ sock[c].out = 0 /\ sock[c].tx = 0
  BY DEF Init, SocketsInit
<1>2. Window \in Nat
  BY SocketAssumption
<1>3. InWindow
  BY <1>1, <1>2 DEF InWindow, Sent, Echoes
<1>4. ReplyHeld /\ EventsExpected
  BY DEF Init, ReplyHeld, EventsExpected, Known, BufferOf
<1> QED BY <1>3, <1>4 DEF EchoInv, Echo, Init

(* The loop's tables and objects agree with each other, with the sockets   *)
(* and with the bytes that moved, whatever happens; and of callbacks that  *)
(* answer what arrives, and clients that wait for it, no handler asserts a *)
(* state its connection is not in.                                         *)
THEOREM ConsistentAlways ==
    ASSUME Replies
    PROVE  Spec => []Consistent
<1>1. IInv /\ BInv => TypeOK /\ BufferConservation /\ ByteAccount /\ EventsAreCurrent
  <2>1. IInv => BufferConservation
    BY ConservedMeans DEF IInv, BufferConservation, Running
  <2>2. BInv => ByteAccount
    BY DEF BInv, ByteAccount, AllUp, Accounts, Balance
  <2> QED BY <2>1, <2>2 DEF IInv, EventsInv
<1>2. CASE Window > 1
  <2>1. IInv /\ BInv => Consistent
    BY <1>1, <1>2 DEF IInv, ObjectsInv, Consistent, CrashesHaveCause
  <2> QED BY <2>1, AccountsInvariance, PTL
<1>3. CASE ~(Window > 1)
  <2>1. Window <= 1
    BY <1>3, SocketAssumption
  <2>2. Init => IInv /\ BInv /\ EchoInv
    BY InitialStates, InitialAccounts, InitialEcho
  <2>3. IInv /\ BInv /\ EchoInv /\ [Next]_vars => IInv' /\ BInv' /\ EchoInv'
    BY <2>1, Inductive, AccountsInductive, EchoInductive
  <2>4. IInv /\ BInv /\ EchoInv => Consistent
    <3>1. EchoInv => (pc = "asserted" => SomebodyLeft)
      BY DEF EchoInv, Echo, AllUp, SomebodyLeft
    <3> QED BY <1>1, <3>1 DEF IInv, ObjectsInv, Consistent, CrashesHaveCause
  <2> QED BY <2>2, <2>3, <2>4, PTL DEF Spec
<1> QED BY <1>2, <1>3
=============================================================================
