------------------------- MODULE TlsEpollLoopProofs -------------------------
(***************************************************************************)
(* The safety invariants of the TLS loop over epoll, for any number of     *)
(* clients, descriptors and buffers, any buffer size, any faults, any      *)
(* answers of the callbacks, any connections the kernel takes over, and a  *)
(* stop() at any time.                                                     *)
(*                                                                         *)
(* A descriptor goes through three tables: it has an SSL object while it   *)
(* is open, is pending until its handshake is done, and has a buffer from  *)
(* then on.  Each handler serves one descriptor, and leaves it in one of   *)
(* the states the tables allow; what it does to the bytes in its hands is  *)
(* settled before it touches the tables (Outcome), and where its buffer    *)
(* comes from does not matter (Ready).                                     *)
(***************************************************************************)
EXTENDS TlsEpollLoop, SharedLemmas

BufferTable == [f \in Fds |-> BufferOf(f)]

(* From the start to the end of run().                                     *)
Alive == pc \in {"start", "wait", "dispatch", "accept"}

TablesInv ==
    \A f \in Fds :
        /\ f \in ssl <=> fdOwner[f] # NoClient
        /\ f \in m_pending_handshakes <=> (fdOwner[f] # NoClient /\ hs[fdOwner[f]] # "done")
        /\ BufferOf(f) # NoBuffer <=> (fdOwner[f] # NoClient /\ hs[fdOwner[f]] = "done")

(* No byte is read or sent before the handshake is done.                   *)
HandshakeInv ==
    \A c \in Clients : IF hs[c] = "done" THEN sock[c].phase \in {"open", "closed"}
                       ELSE sock[c].in = 0 /\ sock[c].out = 0

(* Of a batch, each event is of a descriptor that is open, and the only    *)
(* one of it: nothing else closes that descriptor before.                  *)
EventsInv ==
    /\ \A e \in m_events : e.fd # Listen => fdOwner[e.fd] # NoClient
    /\ \A d, e \in m_events : d.fd = e.fd => d = e

EndInv ==
    /\ pc \in {"start", "threw", "stopped", "destroyed"} =>
            ssl = {} /\ \A f \in Fds : BufferOf(f) = NoBuffer
    /\ pc = "threw" => held \subseteq {"ctx", "listen"}
    /\ pc = "stopped" => held = {"ctx"}
    /\ pc = "destroyed" => held \subseteq {"listen"}

PoolInv == Conserved(m_pl, Len(m_pl), Len(ring), Fds, BufferTable)

IInv ==
    /\ TypeOK /\ OneDescriptorEach
    /\ pc # "destroyed" => PoolInv
    /\ Alive => TablesInv
    /\ HandshakeInv /\ EventsInv /\ PoolContents(m_pl, ring) /\ ByteAccount /\ EndInv
-----------------------------------------------------------------------------
(* What a handler does to a connection in its hands.                       *)
ConnType == [s : Socket, inside : 0 .. MaxBytes, ktls : BOOLEAN, r : CounterPair,
             state : States \ {"die"}, told : BOOLEAN, dead : BOOLEAN]

Holds(x) == Count(x.r.head, x.r.tail)

Fresh(x) == x \in ConnType /\ Holds(x) <= BufferSize

(* A callback was asked: x has become y.                                   *)
Asked(x, y) == y \in ConnType /\ y.s = x.s /\ y.r = x.r

(* After a handler: no byte was lost.                                      *)
Outcome(x, y) ==
    /\ y \in ConnType /\ Holds(y) <= BufferSize /\ y.s.phase = x.s.phase
    /\ Holds(y) + x.s.in + y.s.out = Holds(x) + y.s.in + x.s.out

LEMMA HoldsType ==
    ASSUME NEW x \in ConnType
    PROVE  /\ x.s \in Socket /\ x.r \in CounterPair /\ x.ktls \in BOOLEAN
           /\ x.s.rx \in Nat /\ x.s.tx \in Nat /\ x.s.in \in Nat /\ x.s.out \in Nat
           /\ x.r.head \in Counter /\ x.r.tail \in Counter /\ Holds(x) \in Nat
           /\ BufferSize \in Nat \ {0}
<1>1. x.s \in Socket /\ x.r \in CounterPair /\ x.ktls \in BOOLEAN
  BY DEF ConnType
<1>2. x.r.head \in Counter /\ x.r.tail \in Counter
  BY <1>1 DEF CounterPair
<1>3. Holds(x) \in Counter
  BY <1>2, CountCases DEF Holds
<1>4. Counter \subseteq Nat /\ BufferSize \in Nat \ {0}
  BY CounterFacts, SMT DEF Counter
<1>5. x.s.rx \in Nat /\ x.s.tx \in Nat /\ x.s.in \in Nat /\ x.s.out \in Nat
  <2>1. x.s.rx \in 0 .. MaxBytes /\ x.s.tx \in 0 .. SendRoom /\ x.s.in \in Nat /\ x.s.out \in Nat
    BY <1>1, SocketCounts
  <2> QED BY <2>1
<1> QED BY <1>1, <1>2, <1>3, <1>4, <1>5

LEMMA ApplyOutcome ==
    ASSUME NEW x \in ConnType, NEW state \in States
    PROVE  Asked(x, ApplyState(x, state))
<1>1. PICK y : y = ApplyState(x, state)
  OBVIOUS
<1>2. CASE state = "die"
  <2>1. y = [x EXCEPT !.dead = TRUE]
    BY <1>1, <1>2 DEF ApplyState
  <2> QED BY <1>1, <2>1 DEF Asked, ConnType
<1>3. CASE state # "die"
  <2>1. y = [x EXCEPT !.state = state, !.told = TRUE] /\ state \in States \ {"die"}
    BY <1>1, <1>3 DEF ApplyState
  <2> QED BY <1>1, <2>1 DEF Asked, ConnType
<1> QED BY <1>2, <1>3

LEMMA OutcomeAsked ==
    ASSUME NEW x, NEW y, NEW z, Outcome(x, y), Asked(y, z)
    PROVE  Outcome(x, z)
<1>1. z \in ConnType /\ z.s = y.s /\ z.r = y.r
  BY DEF Asked
<1>2. Holds(z) = Holds(y)
  BY <1>1 DEF Holds
<1> QED BY <1>1, <1>2 DEF Outcome

(* Doing nothing, and asking about it.                                     *)
LEMMA OutcomeSame ==
    ASSUME NEW x, Fresh(x)
    PROVE  Outcome(x, x)
<1>1. x \in ConnType /\ Holds(x) <= BufferSize
  BY DEF Fresh
<1> QED BY <1>1 DEF Outcome

(* The bytes SSL_read has put into the buffer; i are left inside.          *)
Receives(x, n, i, y) ==
    /\ n \in Nat /\ n <= x.s.rx /\ Holds(x) + n <= BufferSize /\ i \in 0 .. MaxBytes
    /\ y = [x EXCEPT !.s.rx = @ - n, !.s.in = @ + n, !.inside = i, !.r.tail = Advance(@, n)]

LEMMA Received ==
    ASSUME NEW x, Fresh(x), NEW n, NEW i, NEW y, Receives(x, n, i, y)
    PROVE  Outcome(x, y)
<1> /\ n \in Nat /\ n <= x.s.rx /\ Holds(x) + n <= BufferSize /\ i \in 0 .. MaxBytes
    /\ y = [x EXCEPT !.s.rx = @ - n, !.s.in = @ + n, !.inside = i, !.r.tail = Advance(@, n)]
  BY DEF Receives
<1>1. x \in ConnType
  BY DEF Fresh
<1>2. PICK s : s = [x.s EXCEPT !.rx = @ - n, !.in = @ + n]
  OBVIOUS
<1>3. PICK r : r = [x.r EXCEPT !.tail = Advance(@, n)]
  OBVIOUS
<1>4. y = [x EXCEPT !.s = s, !.inside = i, !.r = r]
  BY <1>1, <1>2, <1>3 DEF ConnType
<1>5. y.s = s /\ y.r = r
  BY <1>1, <1>4 DEF ConnType
<1>6. /\ s \in Socket /\ s.phase = x.s.phase
      /\ s.rx = x.s.rx - n /\ s.in = x.s.in + n /\ s.tx = x.s.tx /\ s.out = x.s.out
  <2>1. x.s \in Socket /\ x.s.rx \in 0 .. MaxBytes /\ x.s.in \in Nat /\ MaxBytes \in Nat
    BY <1>1, HoldsType, SocketCounts
  <2>2. x.s.rx - n \in 0 .. MaxBytes /\ x.s.in + n \in Nat
    BY <2>1
  <2> QED BY <1>2, <2>1, <2>2 DEF Socket
<1>7. r \in CounterPair /\ Count(r.head, r.tail) = Holds(x) + n
  <2>1. PICK c : c = x.r
    OBVIOUS
  <2>2. c \in CounterPair /\ n \in Nat /\ r = [c EXCEPT !.tail = Advance(@, n)]
    BY <1>1, <1>3, <2>1, HoldsType
  <2>3. Count(c.head, c.tail) + n <= BufferSize /\ Holds(x) = Count(c.head, c.tail)
    BY <2>1 DEF Holds
  <2>4. r \in CounterPair /\ Count(r.head, r.tail) = Count(c.head, c.tail) + n
    BY ONLY <2>2, <2>3, RingReceives
  <2> QED BY <2>3, <2>4
<1>8. y \in ConnType
  BY <1>1, <1>4, <1>6, <1>7 DEF ConnType
<1>9. x.s.in \in Nat /\ x.s.out \in Nat /\ Holds(x) \in Nat
  BY <1>1, HoldsType
<1>10. Holds(y) = Holds(x) + n
  BY <1>5, <1>7 DEF Holds
<1>11. Holds(y) + x.s.in + y.s.out = Holds(x) + y.s.in + x.s.out
  <2>1. PICK b \in Nat, d \in Nat, h \in Nat : b = x.s.in /\ d = x.s.out /\ h = Holds(x)
    BY <1>9
  <2>2. y.s.in = b + n /\ y.s.out = d /\ Holds(y) = h + n
    BY <1>5, <1>6, <1>10, <2>1
  <2>3. (h + n) + b + d = h + (b + n) + d
    OBVIOUS
  <2> QED BY <2>1, <2>2, <2>3
<1> QED BY <1>5, <1>6, <1>8, <1>10, <1>11 DEF Outcome

(* The bytes SSL_write has taken out of it.                                *)
Delivers(x, n, y) ==
    /\ n \in Nat /\ n <= SendRoom - x.s.tx /\ n <= Holds(x)
    /\ y = [x EXCEPT !.s.tx = @ + n, !.s.out = @ + n, !.r.head = Advance(@, n)]

LEMMA Delivered ==
    ASSUME NEW x, Fresh(x), NEW n, NEW y, Delivers(x, n, y)
    PROVE  Outcome(x, y)
<1> /\ n \in Nat /\ n <= SendRoom - x.s.tx /\ n <= Holds(x)
    /\ y = [x EXCEPT !.s.tx = @ + n, !.s.out = @ + n, !.r.head = Advance(@, n)]
  BY DEF Delivers
<1>1. x \in ConnType /\ Holds(x) <= BufferSize
  BY DEF Fresh
<1>2. PICK s : s = [x.s EXCEPT !.tx = @ + n, !.out = @ + n]
  OBVIOUS
<1>3. PICK r : r = [x.r EXCEPT !.head = Advance(@, n)]
  OBVIOUS
<1>4. y = [x EXCEPT !.s = s, !.r = r]
  BY <1>1, <1>2, <1>3 DEF ConnType
<1>5. y.s = s /\ y.r = r
  BY <1>1, <1>4 DEF ConnType
<1>6. /\ s \in Socket /\ s.phase = x.s.phase
      /\ s.in = x.s.in /\ s.tx = x.s.tx + n /\ s.out = x.s.out + n
  <2>1. x.s \in Socket /\ x.s.tx \in 0 .. SendRoom /\ x.s.out \in Nat /\ SendRoom \in Nat
    BY <1>1, HoldsType, SocketCounts
  <2>2. x.s.tx + n \in 0 .. SendRoom /\ x.s.out + n \in Nat
    BY <2>1
  <2> QED BY <1>2, <2>1, <2>2 DEF Socket
<1>7. r \in CounterPair /\ Count(r.head, r.tail) = Holds(x) - n
  <2>1. PICK c : c = x.r
    OBVIOUS
  <2>2. c \in CounterPair /\ n \in Nat /\ r = [c EXCEPT !.head = Advance(@, n)]
    BY <1>1, <1>3, <2>1, HoldsType
  <2>3. n <= Count(c.head, c.tail) /\ Holds(x) = Count(c.head, c.tail)
    BY <2>1 DEF Holds
  <2>4. r \in CounterPair /\ Count(r.head, r.tail) = Count(c.head, c.tail) - n
    BY ONLY <2>2, <2>3, RingSends
  <2> QED BY <2>3, <2>4
<1>8. y \in ConnType
  BY <1>1, <1>4, <1>6, <1>7 DEF ConnType
<1>9. x.s.in \in Nat /\ x.s.out \in Nat /\ Holds(x) \in Nat /\ BufferSize \in Nat
  BY <1>1, HoldsType
<1>10. Holds(y) = Holds(x) - n
  BY <1>5, <1>7 DEF Holds
<1>11. /\ Holds(y) + x.s.in + y.s.out = Holds(x) + y.s.in + x.s.out
       /\ Holds(y) <= BufferSize
  <2>1. PICK b \in Nat, d \in Nat, h \in Nat : b = x.s.in /\ d = x.s.out /\ h = Holds(x)
    BY <1>9
  <2>2. y.s.in = b /\ y.s.out = d + n /\ Holds(y) = h - n
    BY <1>5, <1>6, <1>10, <2>1
  <2>3. (h - n) + b + (d + n) = h + b + d
    OBVIOUS
  <2>4. h - n <= BufferSize
    BY <1>1, <1>9, <2>1
  <2> QED BY <2>1, <2>2, <2>3, <2>4
<1> QED BY <1>5, <1>6, <1>8, <1>11 DEF Outcome
-----------------------------------------------------------------------------
(* What the library gives is there, and there is room for it.              *)
LEMMA ReadsGive ==
    ASSUME NEW s \in Socket, NEW free \in Nat, NEW ktls \in BOOLEAN,
           NEW o \in ReadsTls(s, free, ktls)
    PROVE  o.n \in Nat /\ o.n <= s.rx /\ o.n <= free /\ o.inside \in 0 .. MaxBytes
<1>1. PICK rx \in 0 .. MaxBytes : rx = s.rx /\ MaxBytes \in Nat
  BY SocketCounts
<1>2. CASE free <= rx
  <2>1. \A i \in 0 .. rx - free : i \in 0 .. MaxBytes
    BY <1>1, <1>2
  <2>2. 0 \in 0 .. MaxBytes
    BY <1>1
  <2>3. PICK i \in 0 .. MaxBytes : o = [n |-> free, inside |-> i, end |-> "full"]
    BY <1>1, <1>2, <2>1, <2>2 DEF ReadsTls
  <2>4. o.n = free /\ o.inside = i
    BY <2>3
  <2> QED BY <1>1, <1>2, <2>4
<1>3. CASE ~(free <= rx)
  <2>1. PICK e : o = [n |-> rx, inside |-> 0, end |-> e]
    BY <1>1, <1>3 DEF ReadsTls
  <2>2. o.n = rx /\ o.inside = 0
    BY <2>1
  <2>3. rx \in Nat /\ rx <= free /\ 0 \in 0 .. MaxBytes
    BY <1>1, <1>3
  <2> QED BY <1>1, <2>2, <2>3
<1> QED BY <1>2, <1>3

LEMMA WritesOneBounds ==
    ASSUME NEW s \in Socket, NEW size \in Nat, NEW ktls \in BOOLEAN
    PROVE  /\ WritesOne(s, size, ktls) \in Nat /\ WritesOne(s, size, ktls) <= size
           /\ WritesOne(s, size, ktls) <= SendRoom - s.tx
<1>1. PICK room \in Nat : room = SendRoom - s.tx
  <2>1. s.tx \in 0 .. SendRoom /\ SendRoom \in Nat
    BY SocketCounts
  <2> QED BY <2>1
<1>2. WritesOne(s, size, ktls) = IF size <= room THEN size ELSE IF ktls THEN room ELSE 0
  BY <1>1 DEF WritesOne
<1>3. PICK w : w = IF size <= room THEN size ELSE IF ktls THEN room ELSE 0
  OBVIOUS
<1>4. w \in Nat /\ w <= size /\ w <= room
  BY <1>3
<1> QED BY <1>1, <1>2, <1>3, <1>4

(* It takes what there is to send, and room for.                           *)
LEMMA WritesTake ==
    ASSUME NEW s \in Socket, NEW first \in Nat, NEW rest \in Nat, NEW ktls \in BOOLEAN,
           NEW n, n = Writes(s, first, rest, ktls)
    PROVE  n \in Nat /\ n <= SendRoom - s.tx /\ n <= first + rest
<1>1. PICK one \in Nat : /\ one = WritesOne(s, first, ktls)
                         /\ one <= first /\ one <= SendRoom - s.tx
  BY WritesOneBounds
<1>2. CASE one < first
  <2>1. n = one
    BY <1>1, <1>2 DEF Writes
  <2> QED BY <1>1, <1>2, <2>1
<1>3. CASE ~(one < first)
  <2>1. PICK tx \in 0 .. SendRoom : tx = s.tx + one
    <3>1. s.tx \in 0 .. SendRoom /\ SendRoom \in Nat
      BY SocketCounts
    <3> QED BY <1>1, <3>1
  <2>2. PICK t : t = [s EXCEPT !.tx = tx]
    OBVIOUS
  <2>3. t \in Socket /\ t.tx = tx
    BY <2>1, <2>2 DEF Socket
  <2>4. n = one + WritesOne(t, rest, ktls)
    BY <1>1, <1>3, <2>1, <2>2 DEF Writes
  <2>5. PICK two \in Nat : two = WritesOne(t, rest, ktls) /\ two <= rest /\ two <= SendRoom - tx
    BY <2>3, WritesOneBounds
  <2>6. s.tx \in Int /\ SendRoom \in Int
    BY SocketCounts
  <2>7. n = one + two
    BY <2>4, <2>5
  <2> QED BY <1>1, <2>1, <2>5, <2>6, <2>7
<1> QED BY <1>2, <1>3

LEMMA ReadOutcome ==
    ASSUME NEW x, Fresh(x), NEW y \in HandleRead(x)
    PROVE  Outcome(x, y)
<1>1. CASE x.state # "read"
  BY <1>1, OutcomeSame DEF HandleRead
<1>2. CASE x.state = "read"
  <2>1. PICK free, ktls : free = BufferSize - Count(x.r.head, x.r.tail) /\ ktls = x.ktls
    OBVIOUS
  <2>2. PICK o \in ReadsTls(x.s, free, ktls) :
          y \in LET z == [x EXCEPT !.s.rx = @ - o.n, !.s.in = @ + o.n, !.inside = o.inside,
                                   !.r.tail = Advance(@, o.n)]
                IN  IF o.end = "error" THEN {ApplyState(z, "die")}
                    ELSE IF o.n = 0 THEN {z} ELSE Ask(z, OnRead)
    BY <1>2, <2>1 DEF HandleRead
  <2>3. PICK n, i, z : /\ n = o.n /\ i = o.inside
                       /\ z = [x EXCEPT !.s.rx = @ - o.n, !.s.in = @ + o.n, !.inside = o.inside,
                                        !.r.tail = Advance(@, o.n)]
    OBVIOUS
  <2>4. y = ApplyState(z, "die") \/ y = z \/ y \in Ask(z, OnRead)
    BY <2>2, <2>3
  <2>5. x \in ConnType /\ Holds(x) <= BufferSize
    BY DEF Fresh
  <2>6. x.s \in Socket /\ Holds(x) \in Nat /\ BufferSize \in Nat /\ ktls \in BOOLEAN
    BY <2>1, <2>5, HoldsType
  <2>7. free \in Nat /\ free = BufferSize - Holds(x)
    BY <2>1, <2>5, <2>6 DEF Holds
  <2>8. n \in Nat /\ n <= x.s.rx /\ n <= free /\ i \in 0 .. MaxBytes
    BY <2>3, <2>6, <2>7, ReadsGive
  <2>9. Holds(x) + n <= BufferSize
    BY <2>6, <2>7, <2>8
  <2>10. z = [x EXCEPT !.s.rx = @ - n, !.s.in = @ + n, !.inside = i, !.r.tail = Advance(@, n)]
    BY <2>3
  <2>11. Receives(x, n, i, z)
    BY <2>8, <2>9, <2>10 DEF Receives
  <2>12. Outcome(x, z) /\ z \in ConnType
    BY <2>11, Received DEF Outcome
  <2>13. ASSUME NEW a \in States, y = ApplyState(z, a) PROVE Outcome(x, y)
    <3>1. Asked(z, y)
      BY <2>12, <2>13, ApplyOutcome
    <3> QED BY <2>12, <3>1, OutcomeAsked
  <2>14. "die" \in States /\ \A a \in OnRead : a \in States
    BY LoopAssumption DEF States
  <2> QED BY <2>4, <2>12, <2>13, <2>14 DEF Ask
<1> QED BY <1>1, <1>2

LEMMA WriteOutcome ==
    ASSUME NEW x, Fresh(x), NEW y \in HandleWrite(x)
    PROVE  Outcome(x, y)
<1>1. CASE x.state # "write"
  BY <1>1, OutcomeSame DEF HandleWrite
<1>2. CASE x.state = "write"
  <2>1. PICK used, first, rest, n, z :
          /\ used = Count(x.r.head, x.r.tail) /\ first = Chunk(x.r.head, used)
          /\ rest = used - first
          /\ n = Writes(x.s, first, rest, x.ktls)
          /\ z = [x EXCEPT !.s.tx = @ + n, !.s.out = @ + n, !.r.head = Advance(@, n)]
    OBVIOUS
  <2>2. y = z \/ y \in Ask(z, OnWrite)
    BY <1>2, <2>1 DEF HandleWrite
  <2>3. x \in ConnType /\ Holds(x) <= BufferSize /\ used = Holds(x)
    BY <2>1 DEF Fresh, Holds
  <2>4. /\ x.s \in Socket /\ Holds(x) \in Nat /\ BufferSize \in Nat /\ x.ktls \in BOOLEAN
        /\ x.r.head \in Counter
    BY <2>3, HoldsType
  <2>5. used \in 0 .. BufferSize
    BY <2>3, <2>4
  <2>6. first \in 0 .. used
    BY <2>1, <2>4, <2>5, ChunkBounds
  <2>7. first \in Nat /\ rest \in Nat /\ first + rest = used
    BY <2>1, <2>5, <2>6
  <2>8. n \in Nat /\ n <= SendRoom - x.s.tx /\ n <= first + rest
    BY <2>1, <2>4, <2>7, WritesTake
  <2>9. n <= Holds(x)
    BY <2>3, <2>7, <2>8
  <2>10. z = [x EXCEPT !.s.tx = @ + n, !.s.out = @ + n, !.r.head = Advance(@, n)]
    BY <2>1
  <2>11. Delivers(x, n, z)
    BY <2>8, <2>9, <2>10 DEF Delivers
  <2>12. Outcome(x, z) /\ z \in ConnType
    BY <2>11, Delivered DEF Outcome
  <2>13. ASSUME NEW a \in States, y = ApplyState(z, a) PROVE Outcome(x, y)
    <3>1. Asked(z, y)
      BY <2>12, <2>13, ApplyOutcome
    <3> QED BY <2>12, <3>1, OutcomeAsked
  <2>14. \A a \in OnWrite : a \in States
    BY LoopAssumption
  <2> QED BY <2>2, <2>12, <2>13, <2>14 DEF Ask
<1> QED BY <1>1, <1>2

LEMMA GreetOutcome ==
    ASSUME NEW x, Fresh(x), NEW y \in Greet(x)
    PROVE  Outcome(x, y)
<1>1. PICK a \in OnConnect : y \in LET z == ApplyState(x, a)
                                   IN  IF a = "read" THEN HandleRead(z) ELSE {z}
  BY DEF Greet
<1>2. PICK z : z = ApplyState(x, a)
  OBVIOUS
<1>3. a \in States /\ x \in ConnType
  BY LoopAssumption DEF Fresh
<1>4. Asked(x, z) /\ Outcome(x, z)
  BY <1>2, <1>3, ApplyOutcome, OutcomeSame, OutcomeAsked
<1>5. y \in HandleRead(z) \/ y = z
  BY <1>1, <1>2
<1>6. CASE y \in HandleRead(z)
  <2>1. Fresh(z)
    BY <1>4 DEF Outcome, Fresh
  <2>2. Outcome(z, y)
    BY <1>6, <2>1, ReadOutcome
  <2>3. z.s = x.s /\ Holds(z) = Holds(x)
    BY <1>4 DEF Asked, Holds
  <2> QED BY <2>2, <2>3 DEF Outcome
<1> QED BY <1>4, <1>5, <1>6
-----------------------------------------------------------------------------
(* The types, in two parts: the connections, and where the threads are.    *)
TableOK ==
    /\ sock \in [Clients -> Socket] /\ inside \in [Clients -> 0 .. MaxBytes]
    /\ fdOwner \in [Fds -> Clients \cup {NoClient}]
    /\ armed \in [Fds -> SUBSET Signal] /\ ready \subseteq Fds \cup {Listen}
    /\ ring \in Seq(CounterPair) /\ m_pl \in Seq(1 .. Len(ring))
    /\ m_connections \in [Fds -> [state  : States \ {"die"},
                                  buffer : 1 .. Len(ring) \cup {NoBuffer}]]
    /\ ssl \subseteq Fds /\ m_pending_handshakes \subseteq Fds

ThreadsOK ==
    /\ backlog \in Seq(Clients) /\ hs \in [Clients -> Phase]
    /\ held \subseteq {"ctx", "listen", "epfd"} /\ m_running \in BOOLEAN
    /\ m_events \subseteq [fd : Fds \cup {Listen}, ev : SUBSET Signal,
                           to : Clients \cup {NoClient}]
    /\ pc \in {"start", "wait", "dispatch", "accept", "stopped", "threw", "destroyed", "crashed"}
    /\ accepts \in 0 .. MaxAccepts

LEMMA TypeParts ==
    /\ TypeOK <=> TableOK /\ ThreadsOK
    /\ TypeOK' <=> TableOK' /\ ThreadsOK'
  BY DEF TypeOK, TableOK, ThreadsOK, TlsTypeOK, SocketsTypeOK, PoolTypeOK, CounterPair, Buffers

LEMMA Types ==
    ASSUME TypeOK
    PROVE  /\ PoolTypeOK /\ Buffers = 1 .. Len(ring) /\ Len(ring) \in Nat /\ Len(m_pl) \in Nat
           /\ ring \in Seq(CounterPair) /\ m_pl \in Seq(1 .. Len(ring))
           /\ sock \in [Clients -> Socket] /\ backlog \in Seq(Clients)
           /\ fdOwner \in [Fds -> Clients \cup {NoClient}]
           /\ \A f \in Fds : BufferOf(f) \in 0 .. Len(ring)
           /\ \A b \in 1 .. Len(ring) : ring[b] \in CounterPair
<1>1. TableOK /\ ThreadsOK /\ PoolTypeOK
  BY TypeParts DEF TypeOK
<1>2. Len(ring) \in Nat
  BY <1>1 DEF TableOK
<1>3. \A b \in 1 .. Len(ring) \cup {0} : b \in 0 .. Len(ring)
  BY <1>2
<1>4. \A f \in Fds : BufferOf(f) \in 0 .. Len(ring)
  BY <1>1, <1>3 DEF TableOK, BufferOf, NoBuffer
<1>5. \A b \in 1 .. Len(ring) : ring[b] \in CounterPair
  BY <1>1, ElementOfSeq DEF TableOK
<1> QED BY <1>1, <1>2, <1>4, <1>5, LenProperties DEF TableOK, ThreadsOK, Buffers

(* Descriptor f may have the buffer b of that pool and those rings: of its *)
(* own, or just allocated; NoBuffer if it has none.                        *)
Table(f, b) == [BufferTable EXCEPT ![f] = b]
Ready(f, b, pool, rings) ==
    /\ rings \in Seq(CounterPair) /\ pool \in Seq(1 .. Len(rings))
    /\ Len(ring) <= Len(rings) /\ b \in 0 .. Len(rings)
    /\ Conserved(pool, Len(pool), Len(rings), Fds, Table(f, b))
    /\ PoolContents(pool, rings)
    /\ \A d \in 1 .. Len(ring) : d # b => rings[d] = ring[d]

LEMMA ReadyOfOwn ==
    ASSUME TypeOK, PoolInv, PoolContents(m_pl, ring), NEW f \in Fds
    PROVE  Ready(f, BufferOf(f), m_pl, ring)
<1>1. Table(f, BufferOf(f)) = BufferTable
  BY DEF Table, BufferTable
<1>2. Conserved(m_pl, Len(m_pl), Len(ring), Fds, Table(f, BufferOf(f)))
  BY <1>1 DEF PoolInv
<1>3. Len(ring) <= Len(ring)
  BY Types
<1> QED BY <1>2, <1>3, Types DEF Ready

LEMMA ReadyOfNew ==
    ASSUME TypeOK, PoolInv, PoolContents(m_pl, ring), NEW f \in Fds, BufferOf(f) = NoBuffer
    PROVE  Ready(f, Allocated, PoolWithout, RingWithNew) /\ RingWithNew[Allocated] = EmptyRing
<1>1. PICK t : t = Table(f, Allocated)
  OBVIOUS
<1>2. /\ PoolTypeOK /\ Conserved(m_pl, Len(m_pl), Len(ring), Fds, BufferTable)
      /\ BufferTable[f] = 0
  BY Types DEF PoolInv, BufferTable, NoBuffer
<1>3. t[f] = Allocated /\ \A g \in Fds : g # f => t[g] = BufferTable[g]
  BY <1>1 DEF Table, BufferTable
<1>4. PICK p, r : p = PoolWithout /\ r = RingWithNew
  OBVIOUS
<1>5. /\ Len(r) \in Nat /\ Len(ring) <= Len(r)
      /\ r \in Seq(CounterPair) /\ Allocated \in 1 .. Len(r)
      /\ \A b \in 1 .. Len(ring) : r[b] = ring[b]
      /\ p \in Seq(1 .. Len(r)) /\ Conserved(p, Len(p), Len(r), Fds, t)
  BY <1>2, <1>3, <1>4, AllocatedBuffer
<1>6. PoolContents(p, r) /\ r[Allocated] = EmptyRing
  BY <1>2, <1>4, ContentsAllocated
<1>7. Allocated \in 0 .. Len(r)
  BY <1>5
<1> QED BY <1>1, <1>4, <1>5, <1>6, <1>7 DEF Ready

(* The other connections have other buffers.                               *)
LEMMA OtherBuffers ==
    ASSUME TypeOK, NEW f \in Fds, NEW b, NEW pool, NEW rings, Ready(f, b, pool, rings),
           NEW g \in Fds, g # f, BufferOf(g) # NoBuffer
    PROVE  /\ BufferOf(g) \in 1 .. Len(ring) /\ BufferOf(g) \in 1 .. Len(rings)
           /\ BufferOf(g) # b /\ rings[BufferOf(g)] = ring[BufferOf(g)]
<1>1. PICK t : t = Table(f, b)
  OBVIOUS
<1>2. t[f] = b /\ t[g] = BufferOf(g) /\ t[g] # 0
  BY <1>1 DEF Table, BufferTable, NoBuffer
<1>3. \A d, e \in Fds : (d # e /\ t[d] # 0) => t[d] # t[e]
  BY <1>1 DEF Ready, Conserved
<1>4. t[g] # t[f]
  BY <1>2, <1>3
<1>5. /\ BufferOf(g) \in 0 .. Len(ring) /\ Len(ring) \in Nat /\ Len(rings) \in Nat
      /\ Len(ring) <= Len(rings)
  BY Types, LenProperties DEF Ready
<1>6. BufferOf(g) \in 1 .. Len(ring) /\ BufferOf(g) \in 1 .. Len(rings)
  BY <1>5 DEF NoBuffer
<1> QED BY <1>2, <1>4, <1>6 DEF Ready

(* What a handler leaves: descriptor f of client c closed, or open with a  *)
(* buffer that holds so many bytes; the socket s; and the rest alone.      *)
Left(f, c, s, alive, holds) ==
    /\ sock'[c] = s /\ \A d \in Clients : d # c => sock'[d] = sock[d]
    /\ fdOwner' = [fdOwner EXCEPT ![f] = IF alive THEN c ELSE NoClient]
    /\ ssl' = IF alive THEN ssl \cup {f} ELSE ssl \ {f}
    /\ m_pending_handshakes' = m_pending_handshakes \ {f}
    /\ BufferOf(f)' # NoBuffer <=> alive
    /\ alive => Held(BufferOf(f))' = holds
    /\ \A g \in Fds : g # f =>
        /\ BufferOf(g)' = BufferOf(g)
        /\ BufferOf(g) # NoBuffer => Held(BufferOf(g))' = Held(BufferOf(g))

(* The socket was s before it was closed, if it was.                       *)
Leaves(f, c, s, alive, holds) ==
    \E t \in Socket : /\ t.phase = IF alive THEN s.phase ELSE "closed"
                      /\ t.in = s.in /\ t.out = s.out /\ Left(f, c, t, alive, holds)

TableInv == TableOK /\ PoolInv /\ PoolContents(m_pl, ring)

LEMMA RemoveLeaves ==
    ASSUME TypeOK, NEW f \in Fds, NEW c \in Clients, NEW b, NEW pool, NEW rings,
           Ready(f, b, pool, rings), NEW s \in Socket, RemoveConnection(f, c, s, b, pool, rings),
           inside' \in [Clients -> 0 .. MaxBytes], NEW holds
    PROVE  TableInv' /\ Leaves(f, c, s, FALSE, holds)
<1>0. PICK t : t = [s EXCEPT !.phase = "closed"]
  OBVIOUS
<1>1. /\ rings \in Seq(CounterPair) /\ pool \in Seq(1 .. Len(rings))
      /\ Len(ring) <= Len(rings) /\ b \in 0 .. Len(rings) /\ PoolContents(pool, rings)
      /\ Conserved(pool, Len(pool), Len(rings), Fds, Table(f, b))
  BY DEF Ready
<1>2. /\ armed' = [armed EXCEPT ![f] = {}] /\ ready' = ready \ {f}
      /\ sock' = [sock EXCEPT ![c] = t]
      /\ fdOwner' = [fdOwner EXCEPT ![f] = NoClient]
      /\ ssl' = ssl \ {f} /\ m_pending_handshakes' = m_pending_handshakes \ {f}
      /\ m_pl' = IF b = 0 THEN pool ELSE Append(pool, b)
      /\ ring' = IF b = 0 THEN rings ELSE [rings EXCEPT ![b] = EmptyRing]
      /\ m_connections' = [m_connections EXCEPT ![f].buffer = NoBuffer]
  BY <1>0 DEF RemoveConnection, NoBuffer
<1>3. t \in Socket /\ t.phase = "closed" /\ t.in = s.in /\ t.out = s.out
  BY <1>0 DEF Socket
<1>4. TableOK /\ Len(ring) \in Nat /\ Len(rings) \in Nat
  BY <1>1, TypeParts, Types, LenProperties
<1>5. /\ ring' \in Seq(CounterPair) /\ Len(ring') = Len(rings)
      /\ \A d \in 1 .. Len(rings) : d # b => ring'[d] = rings[d]
  <2>1. CASE b = 0
    BY <1>1, <1>2, <2>1
  <2>2. CASE b # 0
    <3>1. b \in 1 .. Len(rings)
      BY <1>1, <1>4, <2>2
    <3>2. ring' = [rings EXCEPT ![b] = EmptyRing]
      BY <1>2, <2>2
    <3> QED BY <1>1, <3>1, <3>2, RingEmptied
  <2> QED BY <2>1, <2>2
<1>6. /\ m_connections' \in [Fds -> [state  : States \ {"die"},
                                     buffer : 1 .. Len(ring') \cup {NoBuffer}]]
      /\ m_connections'[f].buffer = NoBuffer
      /\ \A g \in Fds : g # f => m_connections'[g] = m_connections[g]
  <2>1. \A d \in 1 .. Len(ring) : d \in 1 .. Len(ring')
    BY <1>1, <1>4, <1>5
  <2>2. m_connections \in [Fds -> [state  : States \ {"die"},
                                   buffer : 1 .. Len(ring') \cup {NoBuffer}]]
    BY <1>4, <2>1 DEF TableOK
  <2> QED BY <1>2, <2>2
<1>7. /\ BufferOf(f)' = NoBuffer /\ \A g \in Fds : g # f => BufferOf(g)' = BufferOf(g)
      /\ BufferTable'[f] = 0 /\ \A g \in Fds : g # f => BufferTable'[g] = Table(f, b)[g]
      /\ Table(f, b)[f] = b
  BY <1>6 DEF BufferOf, BufferTable, Table, NoBuffer
<1>8. /\ m_pl' \in Seq(1 .. Len(ring')) /\ Conserved(m_pl', Len(m_pl'), Len(ring'), Fds, BufferTable')
      /\ PoolContents(m_pl', ring')
  <2>1. CASE b = 0
    <3>1. m_pl' = pool /\ ring' = rings
      BY <1>2, <2>1
    <3>2. BufferTable' = Table(f, b)
      BY <1>7, <2>1 DEF BufferTable, Table
    <3> QED BY <1>1, <3>1, <3>2
  <2>2. CASE b # 0
    <3>1. b \in 1 .. Len(rings)
      BY <1>1, <1>4, <2>2
    <3>2. m_pl' = Append(pool, b) /\ ring' = [rings EXCEPT ![b] = EmptyRing]
      BY <1>2, <2>2
    <3>3. /\ m_pl' \in Seq(1 .. Len(rings)) /\ Len(m_pl') = Len(pool) + 1
          /\ \A i \in 1 .. Len(pool) : m_pl'[i] = pool[i]
          /\ m_pl'[Len(pool) + 1] = b
      BY <1>1, <3>1, <3>2, AppendProperties
    <3>4. PICK p, k, n, u, v : /\ p = m_pl' /\ k = Len(pool) /\ n = Len(rings)
                               /\ u = Table(f, b) /\ v = BufferTable'
      OBVIOUS
    <3>5. (\A i \in 1 .. k : p[i] = pool[i]) /\ p[k + 1] = u[f]
      BY <1>7, <3>3, <3>4
    <3>6. /\ Conserved(pool, k, n, Fds, u) /\ u[f] # 0 /\ v[f] = 0
          /\ \A g \in Fds : g # f => v[g] = u[g]
      BY <1>1, <1>7, <2>2, <3>4
    <3>7. Conserved(p, k + 1, n, Fds, v)
      BY <3>5, <3>6, ConservedPush
    <3>8. PoolContents(m_pl', ring')
      BY <1>1, <3>1, <3>2, ContentsRedeemed
    <3> QED BY <1>5, <3>3, <3>4, <3>7, <3>8
  <2> QED BY <2>1, <2>2
<1>9. /\ sock' \in [Clients -> Socket] /\ sock'[c] = t
      /\ \A d \in Clients : d # c => sock'[d] = sock[d]
      /\ fdOwner' \in [Fds -> Clients \cup {NoClient}]
      /\ armed' \in [Fds -> SUBSET Signal] /\ ready' \subseteq Fds \cup {Listen}
      /\ ssl' \subseteq Fds /\ m_pending_handshakes' \subseteq Fds
  BY <1>2, <1>3, <1>4 DEF TableOK
<1>10. ASSUME NEW g \in Fds, g # f, BufferOf(g) # NoBuffer
       PROVE  Held(BufferOf(g))' = Held(BufferOf(g))
  <2>1. PICK d : d = BufferOf(g)
    OBVIOUS
  <2>2. ring'[d] = ring[d]
    BY <1>5, <1>10, <2>1, OtherBuffers
  <2>3. BufferOf(g)' = d
    BY <1>7, <1>10, <2>1
  <2> QED BY <2>1, <2>2, <2>3 DEF Held
<1>11. Left(f, c, t, FALSE, holds)
  BY <1>2, <1>7, <1>9, <1>10 DEF Left
<1>12. Leaves(f, c, s, FALSE, holds)
  BY <1>3, <1>11 DEF Leaves
<1> QED BY <1>5, <1>6, <1>8, <1>9, <1>12 DEF TableInv, TableOK, PoolInv

LEMMA DoneLeaves ==
    ASSUME TypeOK, NEW f \in Fds, NEW c \in Clients, NEW b, b # NoBuffer, NEW pool, NEW rings,
           Ready(f, b, pool, rings), NEW x \in ConnType, Holds(x) <= BufferSize,
           Done(f, c, b, pool, rings, x)
    PROVE  TableInv' /\ Leaves(f, c, x.s, ~x.dead, Holds(x))
<1>1. /\ rings \in Seq(CounterPair) /\ pool \in Seq(1 .. Len(rings))
      /\ Len(ring) <= Len(rings) /\ b \in 0 .. Len(rings) /\ PoolContents(pool, rings)
      /\ Conserved(pool, Len(pool), Len(rings), Fds, Table(f, b))
  BY DEF Ready
<1>2. /\ TableOK /\ Len(ring) \in Nat /\ Len(rings) \in Nat
      /\ x.s \in Socket /\ x.r \in CounterPair /\ x.inside \in 0 .. MaxBytes
      /\ x.state \in States \ {"die"} /\ x.dead \in BOOLEAN
  BY <1>1, TypeParts, Types, LenProperties DEF ConnType
<1>3. inside' = [inside EXCEPT ![c] = x.inside]
  BY DEF Done
<1>4. inside' \in [Clients -> 0 .. MaxBytes]
  BY <1>2, <1>3 DEF TableOK
<1>5. CASE x.dead
  <2>1. PICK s \in Socket : s = x.s
    BY <1>2
  <2>2. RemoveConnection(f, c, s, b, pool, rings)
    BY <1>5, <2>1 DEF Done
  <2>3. TableInv' /\ Leaves(f, c, s, FALSE, Holds(x))
    BY <1>4, <2>2, RemoveLeaves
  <2> QED BY <1>5, <2>1, <2>3
<1>6. CASE ~x.dead
  <2>1. /\ sock' = [sock EXCEPT ![c] = x.s]
        /\ fdOwner' = [fdOwner EXCEPT ![f] = c]
        /\ ssl' = ssl \cup {f} /\ m_pending_handshakes' = m_pending_handshakes \ {f}
        /\ m_pl' = pool /\ ring' = [rings EXCEPT ![b] = x.r]
        /\ m_connections' = [m_connections EXCEPT ![f] = [state |-> x.state, buffer |-> b]]
    BY <1>6 DEF Done
  <2>2. armed' \in [Fds -> SUBSET Signal] /\ ready' \subseteq Fds \cup {Listen}
    <3>1. CASE x.told
      <4>1. Arm(f, Interest(x.state), [x.s EXCEPT !.rx = @ - x.inside])
        BY <1>6, <3>1 DEF Done
      <4>2. Interest(x.state) \in SUBSET Signal
        BY DEF Interest, Signal
      <4> QED BY <1>2, <4>1, <4>2 DEF Arm, TableOK
    <3>2. CASE ~x.told
      BY <1>2, <1>6, <3>2 DEF Done, TableOK
    <3> QED BY <3>1, <3>2
  <2>3. b \in 1 .. Len(rings)
    BY <1>1, <1>2 DEF NoBuffer
  <2>4. /\ ring' \in Seq(CounterPair) /\ Len(ring') = Len(rings) /\ ring'[b] = x.r
        /\ \A d \in 1 .. Len(rings) : d # b => ring'[d] = rings[d]
    BY <1>1, <1>2, <2>1, <2>3, OneRing
  <2>5. /\ m_connections' \in [Fds -> [state  : States \ {"die"},
                                       buffer : 1 .. Len(ring') \cup {NoBuffer}]]
        /\ m_connections'[f].buffer = b
        /\ \A g \in Fds : g # f => m_connections'[g] = m_connections[g]
    <3>1. \A d \in 1 .. Len(ring) : d \in 1 .. Len(ring')
      BY <1>1, <1>2, <2>4
    <3>2. m_connections \in [Fds -> [state  : States \ {"die"},
                                     buffer : 1 .. Len(ring') \cup {NoBuffer}]]
      BY <1>2, <3>1 DEF TableOK
    <3>3. [state |-> x.state, buffer |-> b]
            \in [state : States \ {"die"}, buffer : 1 .. Len(ring') \cup {NoBuffer}]
      BY <1>2, <2>3, <2>4
    <3> QED BY <2>1, <3>2, <3>3
  <2>6. /\ BufferOf(f)' = b /\ \A g \in Fds : g # f => BufferOf(g)' = BufferOf(g)
        /\ BufferTable' = Table(f, b) /\ Table(f, b)[f] = b
    BY <2>5 DEF BufferOf, BufferTable, Table
  <2>7. PoolContents(m_pl', ring')
    <3>1. \A i \in 1 .. Len(pool) : pool[i] \in 1 .. Len(rings) /\ pool[i] # b
      BY <1>1, <2>6 DEF Conserved
    <3>2. Count(ring'[b].head, ring'[b].tail) <= BufferSize
      BY <2>4 DEF Holds
    <3>3. PICK s : s = ring'
      OBVIOUS
    <3>4. /\ Len(s) = Len(rings) /\ \A d \in 1 .. Len(rings) : d # b => s[d] = rings[d]
          /\ Count(s[b].head, s[b].tail) <= BufferSize
      BY <2>4, <3>2, <3>3
    <3>5. PICK p, r : p = pool /\ r = rings
      OBVIOUS
    <3>6. PoolContents(p, r)
      BY <1>1, <3>5
    <3>7. Len(s) = Len(r) /\ \A d \in 1 .. Len(r) : d # b => s[d] = r[d]
      BY <3>4, <3>5
    <3>8. Count(s[b].head, s[b].tail) <= BufferSize
      BY <3>4
    <3>9. \A i \in 1 .. Len(p) : p[i] \in 1 .. Len(r) /\ p[i] # b
      BY <3>1, <3>5
    <3>10. PoolContents(p, s)
      BY <3>6, <3>7, <3>8, <3>9, ContentsMoved
    <3> QED BY <2>1, <3>3, <3>5, <3>10
  <2>8. m_pl' \in Seq(1 .. Len(ring')) /\ Conserved(m_pl', Len(m_pl'), Len(ring'), Fds, BufferTable')
    BY <1>1, <2>1, <2>4, <2>6
  <2>9. /\ sock' \in [Clients -> Socket] /\ sock'[c] = x.s
        /\ \A d \in Clients : d # c => sock'[d] = sock[d]
        /\ fdOwner' \in [Fds -> Clients \cup {NoClient}]
        /\ ssl' \subseteq Fds /\ m_pending_handshakes' \subseteq Fds
    BY <1>2, <2>1 DEF TableOK
  <2>10. ASSUME NEW g \in Fds, g # f, BufferOf(g) # NoBuffer
         PROVE  Held(BufferOf(g))' = Held(BufferOf(g))
    <3>1. PICK d : d = BufferOf(g)
      OBVIOUS
    <3>2. d \in 1 .. Len(rings) /\ d # b /\ rings[d] = ring[d]
      BY <2>10, <3>1, OtherBuffers
    <3>3. ring'[d] = ring[d] /\ BufferOf(g)' = d
      BY <2>4, <2>6, <2>10, <3>1, <3>2
    <3> QED BY <3>1, <3>3 DEF Held
  <2>11. Held(BufferOf(f))' = Holds(x)
    BY <2>4, <2>6 DEF Held, Holds
  <2>12. Left(f, c, x.s, TRUE, Holds(x))
    BY <2>1, <2>6, <2>9, <2>10, <2>11 DEF Left
  <2>13. Leaves(f, c, x.s, TRUE, Holds(x))
    BY <1>2, <2>12 DEF Leaves
  <2>14. TableInv'
    BY <1>4, <2>2, <2>4, <2>5, <2>7, <2>8, <2>9 DEF TableInv, TableOK, PoolInv
  <2> QED BY <1>6, <2>13, <2>14
<1> QED BY <1>2, <1>5, <1>6
-----------------------------------------------------------------------------
(* How far its client's handshake is then, and what has moved.             *)
Settled(c, s, alive, holds) ==
    /\ \A d \in Clients : d # c => hs'[d] = hs[d]
    /\ s.phase = "open"
    /\ alive => hs'[c] = "done" /\ holds = s.in - s.out
    /\ hs'[c] # "done" => s.in = 0 /\ s.out = 0

(* The tables, once a handler has left descriptor f.                       *)
LEMMA TablesAfter ==
    ASSUME TypeOK, TablesInv, HandshakeInv, ByteAccount,
           NEW f \in Fds, NEW c \in Clients, \A g \in Fds : g # f => fdOwner[g] # c,
           NEW u, NEW alive \in BOOLEAN, NEW holds,
           Leaves(f, c, u, alive, holds), Settled(c, u, alive, holds)
    PROVE  TablesInv' /\ HandshakeInv' /\ ByteAccount'
<1>0. PICK s : /\ s.phase \in {"open", "closed"} /\ s.in = u.in /\ s.out = u.out
               /\ Left(f, c, s, alive, holds)
  BY DEF Leaves, Settled
<1>1. /\ sock'[c] = s /\ \A d \in Clients : d # c => sock'[d] = sock[d]
      /\ fdOwner' = [fdOwner EXCEPT ![f] = IF alive THEN c ELSE NoClient]
      /\ ssl' = IF alive THEN ssl \cup {f} ELSE ssl \ {f}
      /\ m_pending_handshakes' = m_pending_handshakes \ {f}
      /\ BufferOf(f)' # NoBuffer <=> alive
      /\ alive => Held(BufferOf(f))' = holds
      /\ \A g \in Fds : g # f =>
          /\ BufferOf(g)' = BufferOf(g)
          /\ BufferOf(g) # NoBuffer => Held(BufferOf(g))' = Held(BufferOf(g))
  BY <1>0 DEF Left
<1>2. fdOwner \in [Fds -> Clients \cup {NoClient}] /\ NoClient \notin Clients
  BY Types, SocketAssumption
<1>10. /\ \A d \in Clients : d # c => hs'[d] = hs[d]
       /\ alive => hs'[c] = "done" /\ holds = s.in - s.out
       /\ hs'[c] = "done" => s.phase \in {"open", "closed"}
       /\ hs'[c] # "done" => s.in = 0 /\ s.out = 0
  BY <1>0 DEF Settled
<1>3. /\ fdOwner'[f] = IF alive THEN c ELSE NoClient
      /\ \A g \in Fds : g # f => fdOwner'[g] = fdOwner[g]
  BY <1>1, <1>2
<1>4. ASSUME NEW g \in Fds, g # f, fdOwner[g] # NoClient
      PROVE  /\ fdOwner[g] \in Clients /\ fdOwner[g] # c
             /\ hs'[fdOwner[g]] = hs[fdOwner[g]] /\ sock'[fdOwner[g]] = sock[fdOwner[g]]
  <2>1. fdOwner[g] \in Clients /\ fdOwner[g] # c
    BY <1>2, <1>4
  <2> QED BY <1>1, <1>10, <2>1
<1>5. TablesInv'
  <2>1. ASSUME NEW g \in Fds
        PROVE  /\ g \in ssl' <=> fdOwner'[g] # NoClient
               /\ g \in m_pending_handshakes' <=>
                      (fdOwner'[g] # NoClient /\ hs'[fdOwner'[g]] # "done")
               /\ BufferOf(g)' # NoBuffer <=> (fdOwner'[g] # NoClient /\ hs'[fdOwner'[g]] = "done")
    <3>1. CASE g = f
      BY <1>1, <1>2, <1>3, <1>10, <3>1
    <3>2. CASE g # f
      <4>1. /\ g \in ssl <=> fdOwner[g] # NoClient
            /\ g \in m_pending_handshakes <=> (fdOwner[g] # NoClient /\ hs[fdOwner[g]] # "done")
            /\ BufferOf(g) # NoBuffer <=> (fdOwner[g] # NoClient /\ hs[fdOwner[g]] = "done")
        BY DEF TablesInv
      <4>2. /\ fdOwner'[g] = fdOwner[g] /\ BufferOf(g)' = BufferOf(g)
            /\ g \in ssl' <=> g \in ssl
            /\ g \in m_pending_handshakes' <=> g \in m_pending_handshakes
        BY <1>1, <1>3, <3>2
      <4>3. fdOwner[g] # NoClient => hs'[fdOwner[g]] = hs[fdOwner[g]]
        BY <1>4, <3>2
      <4> QED BY <4>1, <4>2, <4>3
    <3> QED BY <3>1, <3>2
  <2> QED BY <2>1 DEF TablesInv
<1>6. HandshakeInv'
  BY <1>1, <1>10 DEF HandshakeInv
<1>7. ByteAccount'
  <2>1. ASSUME NEW g \in Fds, fdOwner'[g] # NoClient, BufferOf(g)' # NoBuffer
        PROVE  Held(BufferOf(g))' = sock'[fdOwner'[g]].in - sock'[fdOwner'[g]].out
    <3>1. CASE g = f
      BY <1>1, <1>3, <1>10, <2>1, <3>1
    <3>2. CASE g # f
      <4>1. /\ fdOwner[g] # NoClient /\ BufferOf(g) # NoBuffer /\ fdOwner'[g] = fdOwner[g]
            /\ Held(BufferOf(g))' = Held(BufferOf(g))
        BY <1>1, <1>3, <2>1, <3>2
      <4>2. sock'[fdOwner[g]] = sock[fdOwner[g]]
        BY <1>4, <3>2, <4>1
      <4>3. Held(BufferOf(g)) = sock[fdOwner[g]].in - sock[fdOwner[g]].out
        BY <4>1 DEF ByteAccount
      <4> QED BY <4>1, <4>2, <4>3
    <3> QED BY <3>1, <3>2
  <2> QED BY <2>1 DEF ByteAccount
<1> QED BY <1>5, <1>6, <1>7

(* The events left of a batch.                                             *)
LEMMA EventsKept ==
    ASSUME EventsInv, m_events' \subseteq m_events,
           \A e \in m_events' : e.fd # Listen => fdOwner'[e.fd] # NoClient
    PROVE  EventsInv'
    BY DEF EventsInv

LEMMA EventTypes ==
    ASSUME TypeOK, NEW e \in m_events, e.fd # Listen
    PROVE  e.fd \in Fds
    BY DEF TypeOK

(* The descriptors, once an event of one was handled.                      *)
LEMMA ServedDescriptors ==
    ASSUME TypeOK, OneDescriptorEach, NEW f \in Fds, NEW c \in Clients, c = fdOwner[f],
           backlog' = backlog, NEW u, NEW alive \in BOOLEAN, NEW holds,
           Leaves(f, c, u, alive, holds), Settled(c, u, alive, holds)
    PROVE  OneDescriptorEach'
<1>1. PICK s : /\ s.phase = IF alive THEN "open" ELSE "closed"
               /\ Left(f, c, s, alive, holds)
  BY DEF Leaves, Settled
<1>2. /\ sock'[c] = s /\ \A d \in Clients : d # c => sock'[d] = sock[d]
      /\ fdOwner' = [fdOwner EXCEPT ![f] = IF alive THEN c ELSE NoClient]
  BY <1>1 DEF Left
<1>3. /\ backlog \in Seq(Clients) /\ fdOwner \in [Fds -> Clients \cup {NoClient}]
      /\ NoClient \notin Clients /\ sock[c].phase = "open"
  BY Types, SocketAssumption DEF OneDescriptorEach
<1>4. CASE alive
  <2>1. fdOwner' = fdOwner
    BY <1>2, <1>3, <1>4
  <2>2. \A d \in Clients : /\ sock'[d].phase = sock[d].phase
                           /\ sock[d].phase # "open" =>
                                sock'[d].in = sock[d].in /\ sock'[d].out = sock[d].out
    BY <1>1, <1>2, <1>3, <1>4
  <2> QED BY <1>3, <2>1, <2>2, DescriptorsKept
<1>5. CASE ~alive
  <2>1. fdOwner' = [fdOwner EXCEPT ![f] = NoClient] /\ sock'[c].phase = "closed"
    BY <1>1, <1>2, <1>5
  <2> QED BY <1>2, <1>3, <2>1, ErasedDescriptors
<1> QED BY <1>4, <1>5

LEMMA ServedStep ==
    ASSUME IInv, NEW e \in m_events, e.fd # Listen, Dispatch(e), UNCHANGED thread,
           hs' \in [Clients -> Phase], NEW c \in Clients, c = fdOwner[e.fd],
           NEW u, NEW alive \in BOOLEAN, NEW holds,
           Leaves(e.fd, c, u, alive, holds), Settled(c, u, alive, holds), TableInv'
    PROVE  IInv'
<1>1. PICK f \in Fds : f = e.fd
  BY EventTypes DEF IInv
<1>2. /\ pc = "dispatch" /\ pc' = "dispatch" /\ accepts' = accepts
      /\ m_events' = m_events \ {e} /\ UNCHANGED <<backlog, held, m_running>>
  BY DEF Dispatch, thread
<1>3. /\ TypeOK /\ TablesInv /\ HandshakeInv /\ ByteAccount /\ OneDescriptorEach /\ EventsInv
      /\ ThreadsOK /\ fdOwner \in [Fds -> Clients \cup {NoClient}] /\ NoClient \notin Clients
  BY <1>2, TypeParts, Types, SocketAssumption DEF IInv, Alive
<1>4. Leaves(f, c, u, alive, holds) /\ c = fdOwner[f]
  BY <1>1
<1>5. \A g \in Fds : g # f => fdOwner[g] # c
  BY <1>3, <1>4 DEF OneDescriptorEach
<1>6. TablesInv' /\ HandshakeInv' /\ ByteAccount'
  BY <1>3, <1>4, <1>5, TablesAfter
<1>7. OneDescriptorEach'
  BY <1>2, <1>3, <1>4, ServedDescriptors
<1>8. EventsInv'
  <2>1. \A g \in Fds : g # f => fdOwner'[g] = fdOwner[g]
    BY <1>3, <1>4 DEF Leaves, Left
  <2>2. ASSUME NEW d \in m_events', d.fd # Listen PROVE fdOwner'[d.fd] # NoClient
    <3>1. d \in m_events /\ d.fd # f
      BY <1>1, <1>2, <1>3 DEF EventsInv
    <3>2. d.fd \in Fds /\ fdOwner[d.fd] # NoClient
      BY <1>3, <2>2, <3>1, EventTypes DEF EventsInv
    <3> QED BY <2>1, <3>1, <3>2
  <2> QED BY <1>2, <1>3, <2>2, EventsKept
<1>9. ThreadsOK'
  BY <1>2, <1>3 DEF ThreadsOK
<1>10. EndInv'
  BY <1>2 DEF EndInv
<1> QED BY <1>6, <1>7, <1>8, <1>9, <1>10, TypeParts DEF IInv, TableInv

(* ... and once a connection was accepted.                                 *)
LEMMA AcceptedStep ==
    ASSUME IInv, NEW f \in Fds, NEW c \in Clients, Accept(f, c), NextTurn,
           hs' \in [Clients -> Phase], NEW u, NEW alive \in BOOLEAN, NEW holds,
           Leaves(f, c, u, alive, holds), Settled(c, u, alive, holds), TableInv'
    PROVE  IInv'
<1>1. /\ pc = "accept" /\ accepts < MaxAccepts /\ pc' = "accept" /\ accepts' = accepts + 1
      /\ backlog # <<>> /\ backlog' = Tail(backlog) /\ c = Head(backlog)
      /\ UNCHANGED <<held, m_running, m_events>> /\ f \in FreeFds /\ fdOwner[f] = NoClient
  BY DEF Accept, Accepting, NextTurn, Lowest, FreeFds
<1>2. /\ TypeOK /\ TablesInv /\ HandshakeInv /\ ByteAccount /\ OneDescriptorEach /\ EventsInv
      /\ ThreadsOK /\ fdOwner \in [Fds -> Clients \cup {NoClient}] /\ NoClient \notin Clients
      /\ backlog \in Seq(Clients)
  BY <1>1, TypeParts, Types, SocketAssumption DEF IInv, Alive
<1>3. PICK s : /\ s.phase = IF alive THEN "open" ELSE "closed"
               /\ Left(f, c, s, alive, holds)
  BY DEF Leaves, Settled
<1>4. /\ sock'[c] = s /\ \A d \in Clients : d # c => sock'[d] = sock[d]
      /\ fdOwner' = [fdOwner EXCEPT ![f] = IF alive THEN c ELSE NoClient]
  BY <1>3 DEF Left
<1>5. PICK phase \in {"open", "closed"} : phase = s.phase
  BY <1>3
<1>6. fdOwner' = IF phase = "open" THEN [fdOwner EXCEPT ![f] = c] ELSE fdOwner
  BY <1>1, <1>2, <1>3, <1>4, <1>5
<1>7. AcceptsAs(c, f, phase)
  BY <1>1, <1>4, <1>5, <1>6 DEF AcceptsAs
<1>8. OneDescriptorEach' /\ \A g \in Fds : fdOwner[g] # c
  BY <1>1, <1>2, <1>7, AcceptedDescriptors
<1>9. TablesInv' /\ HandshakeInv' /\ ByteAccount'
  BY <1>2, <1>8, TablesAfter
<1>10. EventsInv'
  <2>1. \A g \in Fds : g # f => fdOwner'[g] = fdOwner[g]
    BY <1>2, <1>4
  <2>2. ASSUME NEW d \in m_events', d.fd # Listen PROVE fdOwner'[d.fd] # NoClient
    <3>1. d \in m_events
      BY <1>1
    <3>2. d.fd \in Fds /\ fdOwner[d.fd] # NoClient
      BY <1>2, <2>2, <3>1, EventTypes DEF EventsInv
    <3> QED BY <1>1, <2>1, <3>2
  <2> QED BY <1>1, <1>2, <2>2, EventsKept
<1>11. ThreadsOK'
  <2>1. accepts' \in 0 .. MaxAccepts
    BY <1>1, <1>2, LoopAssumption DEF ThreadsOK
  <2>2. backlog' \in Seq(Clients)
    BY <1>1, <1>2, HeadTailProperties
  <2> QED BY <1>1, <1>2, <2>1, <2>2 DEF ThreadsOK
<1>12. EndInv'
  BY <1>1 DEF EndInv
<1> QED BY <1>8, <1>9, <1>10, <1>11, <1>12, TypeParts DEF IInv, TableInv
-----------------------------------------------------------------------------
(* What a handler has moved is in its buffer.                              *)
LEMMA BytesSettled ==
    ASSUME NEW x \in ConnType, NEW y, Outcome(x, y), Holds(x) = x.s.in - x.s.out
    PROVE  Holds(y) = y.s.in - y.s.out
<1>1. y \in ConnType /\ Holds(y) + x.s.in + y.s.out = Holds(x) + y.s.in + x.s.out
  BY DEF Outcome
<1>2. PICK a \in Nat, b \in Nat, h \in Nat : a = x.s.in /\ b = x.s.out /\ h = Holds(x)
  BY HoldsType
<1>3. PICK i \in Nat, o \in Nat, k \in Nat : i = y.s.in /\ o = y.s.out /\ k = Holds(y)
  BY <1>1, HoldsType
<1>4. k + a + o = h + i + b /\ h = a - b
  BY <1>1, <1>2, <1>3
<1>5. k = i - o
  BY <1>2, <1>3, <1>4
<1> QED BY <1>3, <1>5

LEMMA ConnIsFresh ==
    ASSUME TypeOK, NEW c \in Clients, NEW s \in Socket, NEW r \in CounterPair,
           Count(r.head, r.tail) <= BufferSize, NEW state \in States \ {"die"},
           NEW x, x = Conn(c, s, r, state)
    PROVE  Fresh(x) /\ x.s = s /\ Holds(x) = Count(r.head, r.tail)
<1>1. inside[c] \in 0 .. MaxBytes
  BY DEF TypeOK, TlsTypeOK
<1>2. PICK k : k = (c \in Ktls)
  OBVIOUS
<1>3. x = [s |-> s, inside |-> inside[c], ktls |-> k, r |-> r, state |-> state,
           told |-> FALSE, dead |-> FALSE]
  BY <1>2 DEF Conn
<1>6. k \in BOOLEAN
  BY <1>2
<1>4. x \in ConnType /\ x.s = s /\ x.r = r
  BY <1>1, <1>3, <1>6 DEF ConnType
<1>5. Holds(x) = Count(r.head, r.tail)
  BY <1>4 DEF Holds
<1> QED BY <1>4, <1>5 DEF Fresh

(* An event of a connection is handled.                                    *)
LEMMA HandledStep ==
    ASSUME IInv, NEW e \in m_events, OfConnection(e), e.fd \notin m_pending_handshakes,
           UNCHANGED <<hs, thread>>, NEW y, Fresh(ConnOf(e.fd)) => Outcome(ConnOf(e.fd), y),
           Done(e.fd, fdOwner[e.fd], BufferOf(e.fd), m_pl, ring, y)
    PROVE  IInv'
<1>1. /\ e.fd # Listen /\ Dispatch(e) /\ pc = "dispatch"
      /\ TypeOK /\ TableOK /\ ThreadsOK /\ TablesInv /\ PoolInv /\ PoolContents(m_pl, ring)
      /\ OneDescriptorEach /\ EventsInv /\ ByteAccount
      /\ fdOwner \in [Fds -> Clients \cup {NoClient}]
  BY TypeParts, Types DEF OfConnection, Dispatch, IInv, Alive
<1>2. PICK f \in Fds : f = e.fd
  BY <1>1, EventTypes
<1>3. PICK c \in Clients : c = fdOwner[f]
  BY <1>1, <1>2 DEF EventsInv
<1>4. hs[c] = "done" /\ BufferOf(f) # NoBuffer /\ c # NoClient
  BY <1>2, <1>3, <1>1, SocketAssumption DEF TablesInv
<1>5. PICK b : b = BufferOf(f)
  OBVIOUS
<1>6. b # NoBuffer /\ b \in 1 .. Len(ring) /\ ring[b] \in CounterPair
  <2>1. b \in 0 .. Len(ring) /\ Len(ring) \in Nat
    BY <1>1, <1>5, Types
  <2>2. b \in 1 .. Len(ring)
    BY <1>4, <1>5, <2>1 DEF NoBuffer
  <2> QED BY <1>1, <1>4, <1>5, <2>2, Types
<1>7. PICK x : x = ConnOf(f)
  OBVIOUS
<1>8. Fresh(x) /\ x.s = sock[c] /\ Holds(x) = Held(b)
  <2>1. sock[c] \in Socket /\ m_connections[f].state \in States \ {"die"}
    BY <1>1 DEF TableOK
  <2>2. Count(ring[b].head, ring[b].tail) <= BufferSize
    BY <1>1, <1>6 DEF PoolContents
  <2>3. PICK s \in Socket, r \in CounterPair, state \in States \ {"die"} :
           s = sock[c] /\ r = ring[b] /\ state = m_connections[f].state
    BY <1>6, <2>1
  <2>4. x = Conn(c, s, r, state)
    BY <1>3, <1>5, <1>7, <2>3 DEF ConnOf
  <2>5. Count(r.head, r.tail) <= BufferSize
    BY <2>2, <2>3
  <2>6. Fresh(x) /\ x.s = s /\ Holds(x) = Count(r.head, r.tail)
    BY <1>1, <2>4, <2>5, ConnIsFresh
  <2> QED BY <2>3, <2>6 DEF Held
<1>9. Holds(x) = x.s.in - x.s.out
  BY <1>1, <1>3, <1>4, <1>5, <1>8 DEF ByteAccount
<1>10. Outcome(x, y) /\ x \in ConnType
  BY <1>2, <1>7, <1>8 DEF Fresh
<1>11. /\ y \in ConnType /\ Holds(y) <= BufferSize /\ y.s.phase = sock[c].phase
       /\ Holds(y) = y.s.in - y.s.out
  BY <1>8, <1>9, <1>10, BytesSettled DEF Outcome
<1>12. Ready(f, b, m_pl, ring)
  BY <1>1, <1>5, ReadyOfOwn
<1>13. TableInv' /\ Leaves(f, c, y.s, ~y.dead, Holds(y))
  <2>1. Done(f, c, b, m_pl, ring, y)
    BY <1>2, <1>3, <1>5
  <2> QED BY <1>1, <1>6, <1>11, <1>12, <2>1, DoneLeaves
<1>14. Settled(c, y.s, ~y.dead, Holds(y))
  <2>1. hs' = hs /\ sock[c].phase = "open"
    BY <1>1, <1>3, <1>4 DEF OneDescriptorEach
  <2> QED BY <1>4, <1>11, <2>1 DEF Settled
<1>15. hs' \in [Clients -> Phase] /\ UNCHANGED thread
  BY <1>1 DEF ThreadsOK
<1>16. PICK alive, s, h : alive = (~y.dead) /\ s = y.s /\ h = Holds(y)
  OBVIOUS
<1>17. /\ Leaves(e.fd, c, s, alive, h) /\ Settled(c, s, alive, h) /\ c = fdOwner[e.fd]
       /\ alive \in BOOLEAN
  BY <1>2, <1>3, <1>13, <1>14, <1>16
<1> QED BY <1>1, <1>13, <1>15, <1>17, ServedStep

LEMMA ReadAndWriteSteps ==
    ASSUME IInv, DispatchRead \/ DispatchWrite
    PROVE  IInv'
<1>1. CASE DispatchRead
  <2>1. PICK e \in m_events :
          /\ OfConnection(e) /\ e.fd \notin m_pending_handshakes
          /\ Handle(e.fd, HandleRead(ConnOf(e.fd)))
    BY <1>1 DEF DispatchRead
  <2>2. PICK y \in HandleRead(ConnOf(e.fd)) :
          Done(e.fd, fdOwner[e.fd], BufferOf(e.fd), m_pl, ring, y)
    BY <2>1 DEF Handle
  <2>3. UNCHANGED <<hs, thread>>
    BY <1>1 DEF DispatchRead
  <2>4. Fresh(ConnOf(e.fd)) => Outcome(ConnOf(e.fd), y)
    <3>1. PICK x : x = ConnOf(e.fd)
      OBVIOUS
    <3> QED BY <3>1, ReadOutcome
  <2> QED BY <2>1, <2>2, <2>3, <2>4, HandledStep
<1>2. CASE DispatchWrite
  <2>1. PICK e \in m_events :
          /\ OfConnection(e) /\ e.fd \notin m_pending_handshakes
          /\ Handle(e.fd, HandleWrite(ConnOf(e.fd)))
    BY <1>2 DEF DispatchWrite, ForWriting
  <2>2. PICK y \in HandleWrite(ConnOf(e.fd)) :
          Done(e.fd, fdOwner[e.fd], BufferOf(e.fd), m_pl, ring, y)
    BY <2>1 DEF Handle
  <2>3. UNCHANGED <<hs, thread>>
    BY <1>2 DEF DispatchWrite
  <2>4. Fresh(ConnOf(e.fd)) => Outcome(ConnOf(e.fd), y)
    <3>1. PICK x : x = ConnOf(e.fd)
      OBVIOUS
    <3> QED BY <3>1, WriteOutcome
  <2> QED BY <2>1, <2>2, <2>3, <2>4, HandledStep
<1> QED BY <1>1, <1>2

(* A hang-up, or a handshake that has failed.                              *)
LEMMA RemovedStep ==
    ASSUME IInv, NEW e \in m_events, e.fd # Listen, Dispatch(e), UNCHANGED <<inside, thread>>,
           NEW c \in Clients, c = fdOwner[e.fd],
           hs' \in [Clients -> Phase], \A d \in Clients : hs'[d] = hs[d],
           NEW b, b = BufferOf(e.fd), RemoveConnection(e.fd, c, sock[c], b, m_pl, ring)
    PROVE  IInv'
<1>1. /\ pc = "dispatch" /\ TypeOK /\ TableOK /\ PoolInv /\ PoolContents(m_pl, ring)
      /\ OneDescriptorEach /\ HandshakeInv
  BY TypeParts DEF Dispatch, IInv, Alive
<1>2. PICK f \in Fds : f = e.fd
  BY <1>1, EventTypes
<1>3. /\ sock[c] \in Socket /\ sock[c].phase = "open" /\ inside' \in [Clients -> 0 .. MaxBytes]
  BY <1>1, <1>2, SocketAssumption DEF TableOK, OneDescriptorEach
<1>4. Ready(f, b, m_pl, ring)
  BY <1>1, <1>2, ReadyOfOwn
<1>5. PICK s \in Socket : s = sock[c]
  BY <1>3
<1>6. RemoveConnection(f, c, s, b, m_pl, ring)
  BY <1>2, <1>5
<1>7. TableInv' /\ Leaves(f, c, s, FALSE, 0)
  BY <1>1, <1>3, <1>4, <1>6, RemoveLeaves
<1>8. Settled(c, s, FALSE, 0)
  BY <1>1, <1>3, <1>5 DEF Settled, HandshakeInv
<1>9. PICK alive \in BOOLEAN : alive = FALSE
  OBVIOUS
<1>10. Leaves(e.fd, c, s, alive, 0) /\ Settled(c, s, alive, 0) /\ UNCHANGED thread
  BY <1>2, <1>7, <1>8, <1>9
<1> QED BY <1>7, <1>10, ServedStep

LEMMA HangupStep ==
    ASSUME IInv, DispatchHangup
    PROVE  IInv'
<1>1. PICK e \in m_events :
        /\ e.fd # Listen /\ Dispatch(e)
        /\ RemoveConnection(e.fd, fdOwner[e.fd], sock[fdOwner[e.fd]], BufferOf(e.fd), m_pl, ring)
  BY DEF DispatchHangup
<1>2. UNCHANGED <<inside, thread>> /\ hs' = hs
  BY DEF DispatchHangup, tls
<1>3. TypeOK /\ EventsInv /\ ThreadsOK /\ fdOwner \in [Fds -> Clients \cup {NoClient}]
  BY TypeParts, Types DEF IInv
<1>4. PICK c \in Clients : c = fdOwner[e.fd]
  BY <1>1, <1>3, EventTypes DEF EventsInv
<1>5. PICK b : b = BufferOf(e.fd)
  OBVIOUS
<1>6. /\ hs' \in [Clients -> Phase] /\ \A d \in Clients : hs'[d] = hs[d]
      /\ RemoveConnection(e.fd, c, sock[c], b, m_pl, ring)
  BY <1>1, <1>2, <1>3, <1>4, <1>5 DEF ThreadsOK
<1> QED BY <1>1, <1>2, <1>4, <1>5, <1>6, RemovedStep

(* What a call of SSL_do_handshake may do to the handshake.                *)
LEMMA HandshakeResults ==
    ASSUME TypeOK, NEW c \in Clients, NEW o \in Handshakes(c)
    PROVE  /\ o.hs \in Phase
           /\ o.ret = "ok" => o.hs = "done"
           /\ o.ret = "want" => (o.hs = "done" <=> hs[c] = "done")
           /\ o.ret \notin {"ok", "want"} => o.hs = hs[c]
<1>1. hs[c] \in Phase
  BY DEF TypeOK, TlsTypeOK
<1>2. \/ o = [ret |-> "error", hs |-> hs[c]]
      \/ hs[c] = "ready" /\ o = [ret |-> "ok", hs |-> "done"]
      \/ hs[c] = "hello" /\ (o = [ret |-> "want", hs |-> "replied"] \/ o = [ret |-> "ok", hs |-> "done"])
      \/ o = [ret |-> "want", hs |-> hs[c]]
  BY DEF Handshakes
<1> QED BY <1>1, <1>2 DEF Phase

(* A handshake is done: the connection is registered, and greeted.         *)
LEMMA EstablishedLeaves ==
    ASSUME TypeOK, PoolInv, PoolContents(m_pl, ring), NEW f \in Fds, NEW c \in Clients,
           BufferOf(f) = NoBuffer, Established(f, c), sock[c].in = 0, sock[c].out = 0,
           hs' = [hs EXCEPT ![c] = "done"]
    PROVE  /\ TableInv'
           /\ \E s, h : \E alive \in BOOLEAN : Leaves(f, c, s, alive, h) /\ Settled(c, s, alive, h)
<1>1. TableOK /\ hs \in [Clients -> Phase]
  BY TypeParts DEF ThreadsOK
<1>2. PICK pool, rings, b : pool = PoolWithout /\ rings = RingWithNew /\ b = Allocated
  OBVIOUS
<1>3. Ready(f, b, pool, rings) /\ rings[b] = EmptyRing
  BY <1>2, ReadyOfNew
<1>4. PICK s : s = [sock[c] EXCEPT !.phase = "open"]
  OBVIOUS
<1>5. s \in Socket /\ s.phase = "open" /\ s.in = 0 /\ s.out = 0
  <2>1. sock[c] \in Socket
    BY <1>1 DEF TableOK
  <2> QED BY <1>4, <2>1 DEF Socket
<1>6. PICK x : x = Conn(c, s, EmptyRing, m_connections[f].state)
  OBVIOUS
<1>7. Fresh(x) /\ x.s = s /\ Holds(x) = 0
  <2>1. PICK r \in CounterPair : r = EmptyRing /\ Count(r.head, r.tail) = 0
    BY EmptyHoldsNothing
  <2>2. PICK state \in States \ {"die"} : state = m_connections[f].state
    BY <1>1 DEF TableOK
  <2>3. Count(r.head, r.tail) <= BufferSize
    BY <2>1, CounterFacts
  <2>4. x = Conn(c, s, r, state)
    BY <1>6, <2>1, <2>2
  <2>5. Fresh(x) /\ x.s = s /\ Holds(x) = Count(r.head, r.tail)
    BY <1>5, <2>3, <2>4, ConnIsFresh
  <2> QED BY <2>1, <2>5
<1>8. PICK y \in Greet(x) : Done(f, c, b, pool, rings, y)
  BY <1>2, <1>3, <1>4, <1>6 DEF Established
<1>9. Outcome(x, y)
  BY <1>7, GreetOutcome
<1>10. x \in ConnType /\ Holds(x) = x.s.in - x.s.out
  BY <1>5, <1>7 DEF Fresh
<1>11. /\ y \in ConnType /\ Holds(y) <= BufferSize /\ y.s.phase = "open"
       /\ Holds(y) = y.s.in - y.s.out
  BY <1>5, <1>7, <1>9, <1>10, BytesSettled DEF Outcome
<1>12. b # NoBuffer
  <2>1. Allocated # 0
    BY ContentsAllocated, Types, SMT
  <2> QED BY <1>2, <2>1 DEF NoBuffer
<1>13. TableInv' /\ Leaves(f, c, y.s, ~y.dead, Holds(y))
  BY <1>3, <1>8, <1>11, <1>12, DoneLeaves
<1>14. Settled(c, y.s, ~y.dead, Holds(y))
  BY <1>1, <1>11 DEF Settled
<1>15. PICK alive : alive = (~y.dead)
  OBVIOUS
<1>16. alive \in BOOLEAN
  BY <1>15
<1>17. Leaves(f, c, y.s, alive, Holds(y)) /\ Settled(c, y.s, alive, Holds(y))
  BY <1>13, <1>14, <1>15
<1> QED BY <1>13, <1>16, <1>17
-----------------------------------------------------------------------------
(* Steps that touch neither the tables nor who is established.             *)
LEMMA QuietStep ==
    ASSUME IInv, UNCHANGED <<fdOwner, table>>, TypeOK', OneDescriptorEach', EventsInv', EndInv',
           SameBytes, \A c \in Clients : hs'[c] = "done" <=> hs[c] = "done",
           \A c \in Clients : sock[c].phase \in {"open", "closed"} =>
                                sock'[c].phase \in {"open", "closed"},
           Alive' => Alive, pc' # "destroyed" => pc # "destroyed"
    PROVE  IInv'
<1>1. /\ TypeOK /\ OneDescriptorEach /\ HandshakeInv /\ ByteAccount
      /\ fdOwner \in [Fds -> Clients \cup {NoClient}]
  BY Types DEF IInv
<1>2. /\ fdOwner' = fdOwner /\ m_connections' = m_connections /\ ssl' = ssl
      /\ m_pending_handshakes' = m_pending_handshakes /\ m_pl' = m_pl /\ ring' = ring
  BY DEF table
<1>3. ASSUME NEW f \in Fds, fdOwner[f] # NoClient
      PROVE  /\ hs'[fdOwner[f]] = "done" <=> hs[fdOwner[f]] = "done"
             /\ sock'[fdOwner[f]].in = sock[fdOwner[f]].in
             /\ sock'[fdOwner[f]].out = sock[fdOwner[f]].out
  <2>1. fdOwner[f] \in Clients
    BY <1>1, <1>3
  <2> QED BY <2>1 DEF SameBytes
<1>4. pc' # "destroyed" => PoolInv'
  BY <1>2 DEF IInv, PoolInv, BufferTable, BufferOf
<1>5. Alive' => TablesInv'
  <2>1. SUFFICES ASSUME TablesInv PROVE TablesInv'
    BY DEF IInv
  <2> QED BY <1>2, <1>3, <2>1 DEF TablesInv, BufferOf
<1>6. HandshakeInv'
  BY <1>1 DEF HandshakeInv, SameBytes
<1>7. ByteAccount'
  <2>1. ASSUME NEW f \in Fds, fdOwner[f] # NoClient, BufferOf(f) # NoBuffer
        PROVE  Held(BufferOf(f)) = sock'[fdOwner[f]].in - sock'[fdOwner[f]].out
    BY <1>1, <1>3, <2>1 DEF ByteAccount
  <2> QED BY <1>2, <2>1 DEF ByteAccount, BufferOf, Held
<1>8. PoolContents(m_pl, ring)'
  BY <1>2 DEF IInv, PoolContents
<1> QED BY <1>4, <1>5, <1>6, <1>7, <1>8 DEF IInv

LEMMA SameClients ==
    ASSUME TypeOK, OneDescriptorEach, UNCHANGED <<sock, fdOwner, backlog>>
    PROVE  /\ OneDescriptorEach' /\ SameBytes
           /\ \A c \in Clients : sock[c].phase \in {"open", "closed"} =>
                                   sock'[c].phase \in {"open", "closed"}
<1>1. backlog \in Seq(Clients) /\ fdOwner \in [Fds -> Clients \cup {NoClient}]
  BY Types
<1> QED BY <1>1, DescriptorsKept DEF SameBytes

LEMMA StartSteps ==
    ASSUME IInv, SetUp \/ SetUpFails \/ Stop \/ Rests \/ UNCHANGED vars
    PROVE  IInv'
<1>1. UNCHANGED <<sockets, table, accepts, m_events>> /\ TableOK /\ ThreadsOK
  BY TypeParts DEF SetUp, SetUpFails, Stop, Rests, vars, thread, IInv
<1>2. /\ held' \subseteq {"ctx", "listen", "epfd"} /\ m_running' \in BOOLEAN
      /\ pc' \in {pc, "wait", "threw"}
      /\ pc' = "wait" => pc \in {"wait", "start"}
      /\ pc' = "threw" => (pc \in {"start", "threw"} /\ (held' \subseteq {"ctx", "listen"} \/ (pc = "threw" /\ held' = held)))
      /\ pc' = pc => held' = held
  <2>1. CASE SetUp
    BY <1>1, <2>1 DEF SetUp, ThreadsOK
  <2>2. CASE SetUpFails
    BY <1>1, <2>2 DEF SetUpFails, ThreadsOK
  <2>3. CASE Stop
    BY <1>1, <2>3 DEF Stop, thread, ThreadsOK
  <2>4. CASE Rests \/ UNCHANGED vars
    BY <1>1, <2>4 DEF Rests, vars, thread, ThreadsOK
  <2> QED BY <2>1, <2>2, <2>3, <2>4
<1>3. TypeOK'
  <2>1. TableOK'
    BY <1>1 DEF TableOK, sockets, table, tls
  <2>2. ThreadsOK'
    BY <1>1, <1>2 DEF ThreadsOK, sockets, tls
  <2> QED BY <2>1, <2>2, TypeParts
<1>4. /\ OneDescriptorEach' /\ SameBytes
      /\ \A c \in Clients : sock[c].phase \in {"open", "closed"} =>
                              sock'[c].phase \in {"open", "closed"}
  BY <1>1, SameClients DEF IInv, sockets
<1>5. EventsInv'
  BY <1>1 DEF IInv, EventsInv, sockets
<1>6. EndInv'
  BY <1>1, <1>2 DEF IInv, EndInv, table, BufferOf
<1>7. (Alive' => Alive) /\ (pc' # "destroyed" => pc # "destroyed")
  BY <1>2 DEF Alive
<1> QED BY <1>1, <1>3, <1>4, <1>5, <1>6, <1>7, QuietStep DEF sockets, tls

(* epoll_wait reports each descriptor once, and only while it is open.     *)
LEMMA ReportedOnce ==
    ASSUME TypeOK, NEW E, E = Epoll!Reported
    PROVE  /\ E \subseteq [fd : Fds \cup {Listen}, ev : SUBSET Signal, to : Clients \cup {NoClient}]
           /\ \A e \in E : e.fd # Listen => fdOwner[e.fd] # NoClient
           /\ \A d, e \in E : d.fd = e.fd => d = e
<1>1. /\ ready \subseteq Fds \cup {Listen} /\ armed \in [Fds -> SUBSET Signal]
      /\ fdOwner \in [Fds -> Clients \cup {NoClient}]
  BY TypeParts DEF TableOK
<1>2. DEFINE Of(f) == [fd |-> f, ev |-> Epoll!Readiness(Visible[fdOwner[f]]) \cap armed[f],
                       to |-> fdOwner[f]]
             L == [fd |-> Listen, ev |-> {"IN"}, to |-> NoClient]
<1>3. ASSUME NEW e \in E
      PROVE  \/ \E f \in Fds : f \in ready \ {Listen} /\ fdOwner[f] # NoClient /\ e = Of(f)
             \/ e = L
  <2>1. e \in Epoll!Pending
    BY DEF Epoll!Reported
  <2>2. \/ e \in {Of(f) : f \in {g \in ready \ {Listen} : fdOwner[g] # NoClient}}
        \/ e = L
    BY <2>1 DEF Epoll!Pending, Epoll!Listen, Listen, Epoll!NoClient, NoClient
  <2> HIDE DEF Of, L
  <2> QED BY <1>1, <2>2
<1>4. \A f \in Fds : Of(f).fd = f /\ Of(f).to = fdOwner[f] /\ Of(f).ev \subseteq Signal
  BY <1>1
<1>5. L.fd = Listen /\ {"IN"} \subseteq Signal
  BY DEF Signal
<1> HIDE DEF Of
<1>6. \A e \in E : e.fd # Listen => fdOwner[e.fd] # NoClient
  BY <1>3, <1>4, <1>5
<1>7. \A d, e \in E : d.fd = e.fd => d = e
  <2> SUFFICES ASSUME NEW d \in E, NEW e \in E, d.fd = e.fd PROVE d = e
    OBVIOUS
  <2> HIDE DEF L
  <2>1. \/ \E f \in Fds : f # Listen /\ d = Of(f) /\ d.fd = f
        \/ d = L /\ d.fd = Listen
    BY <1>3, <1>4, <1>5
  <2>2. \/ \E f \in Fds : f # Listen /\ e = Of(f) /\ e.fd = f
        \/ e = L /\ e.fd = Listen
    BY <1>3, <1>4, <1>5
  <2> QED BY <2>1, <2>2
<1>8. ASSUME NEW e \in E
      PROVE  e \in [fd : Fds \cup {Listen}, ev : SUBSET Signal, to : Clients \cup {NoClient}]
  <2>1. L \in [fd : Fds \cup {Listen}, ev : SUBSET Signal, to : Clients \cup {NoClient}]
    BY <1>5
  <2>2. \A f \in Fds : Of(f) \in [fd : Fds \cup {Listen}, ev : SUBSET Signal,
                                  to : Clients \cup {NoClient}]
    BY <1>1 DEF Of
  <2> QED BY <1>3, <2>1, <2>2
<1> QED BY <1>6, <1>7, <1>8

(* The loop goes from one event to the next.                               *)
LEMMA TurnSteps ==
    ASSUME IInv, EpollWait \/ EndOfBatch \/ DispatchAccept \/ AcceptEnds \/ Crash
    PROVE  IInv'
<1>1. /\ UNCHANGED <<sock, backlog, fdOwner, tls, armed, table, held, m_running>>
      /\ TypeOK /\ TableOK /\ ThreadsOK /\ OneDescriptorEach /\ EventsInv
  BY TypeParts DEF EpollWait, EndOfBatch, DispatchAccept, AcceptEnds, Crash, Dispatch, sockets,
                   ForWriting, OfConnection, IInv
<1>2. /\ pc \in {"wait", "dispatch", "accept"}
      /\ pc' \in {"wait", "dispatch", "accept", "crashed"} /\ accepts' \in {0, accepts}
      /\ ready' \subseteq ready
      /\ m_events' \subseteq m_events \/ m_events' = Epoll!Reported
  <2>1. CASE EpollWait
    BY <2>1 DEF EpollWait
  <2>2. CASE EndOfBatch \/ DispatchAccept \/ AcceptEnds
    BY <2>2 DEF EndOfBatch, DispatchAccept, AcceptEnds, Dispatch, sockets
  <2>3. CASE Crash
    BY <2>3 DEF Crash, ForWriting, OfConnection, Dispatch, sockets
  <2> QED BY <2>1, <2>2, <2>3
<1>3. /\ m_events' \subseteq [fd : Fds \cup {Listen}, ev : SUBSET Signal,
                              to : Clients \cup {NoClient}]
      /\ EventsInv'
  <2>1. CASE m_events' \subseteq m_events
    BY <1>1, <2>1 DEF ThreadsOK, EventsInv
  <2>2. CASE m_events' = Epoll!Reported
    <3>1. PICK E : E = Epoll!Reported
      OBVIOUS
    <3>2. /\ E \subseteq [fd : Fds \cup {Listen}, ev : SUBSET Signal,
                          to : Clients \cup {NoClient}]
          /\ \A e \in E : e.fd # Listen => fdOwner[e.fd] # NoClient
          /\ \A d, e \in E : d.fd = e.fd => d = e
      BY <1>1, <3>1, ReportedOnce
    <3> QED BY <1>1, <2>2, <3>1, <3>2 DEF EventsInv
  <2> QED BY <1>2, <2>1, <2>2
<1>4. TypeOK'
  <2>1. TableOK'
    BY <1>1, <1>2 DEF TableOK, table, tls
  <2>2. 0 \in 0 .. MaxAccepts
    BY LoopAssumption
  <2>3. ThreadsOK'
    BY <1>1, <1>2, <1>3, <2>2 DEF ThreadsOK, tls
  <2> QED BY <2>1, <2>3, TypeParts
<1>5. /\ OneDescriptorEach' /\ SameBytes
      /\ \A c \in Clients : sock[c].phase \in {"open", "closed"} =>
                              sock'[c].phase \in {"open", "closed"}
  BY <1>1, SameClients
<1>6. EndInv'
  BY <1>2 DEF EndInv
<1>7. (Alive' => Alive) /\ pc # "destroyed"
  BY <1>2 DEF Alive
<1> QED BY <1>1, <1>3, <1>4, <1>5, <1>6, <1>7, QuietStep DEF tls
-----------------------------------------------------------------------------
(* A pending handshake goes on.                                            *)
LEMMA PendingSteps ==
    ASSUME IInv, DispatchPending
    PROVE  IInv'
<1>1. PICK e \in m_events :
        /\ OfConnection(e) /\ e.fd \in m_pending_handshakes
        /\ \E o \in Handshakes(fdOwner[e.fd]) :
             /\ hs' = [hs EXCEPT ![fdOwner[e.fd]] = o.hs]
             /\ \/ o.ret = "ok" /\ Established(e.fd, fdOwner[e.fd])
                \/ o.ret = "want" /\ UNCHANGED <<sock, fdOwner, inside, armed, ready, table>>
                \/ /\ o.ret \notin {"ok", "want"}
                   /\ RemoveConnection(e.fd, fdOwner[e.fd], sock[fdOwner[e.fd]], NoBuffer,
                                       m_pl, ring)
                   /\ UNCHANGED inside
  BY DEF DispatchPending
<1>2. /\ e.fd # Listen /\ Dispatch(e) /\ pc = "dispatch" /\ m_events' = m_events \ {e}
      /\ UNCHANGED <<backlog, held, m_running>>
  BY <1>1 DEF OfConnection, Dispatch
<1>3. pc' = pc /\ accepts' = accepts /\ UNCHANGED thread
  BY DEF DispatchPending, thread
<1>4. /\ TypeOK /\ TableOK /\ ThreadsOK /\ OneDescriptorEach /\ EventsInv /\ TablesInv
      /\ HandshakeInv /\ PoolInv /\ PoolContents(m_pl, ring)
      /\ fdOwner \in [Fds -> Clients \cup {NoClient}]
  BY <1>2, TypeParts, Types DEF IInv, Alive
<1>5. PICK f \in Fds : f = e.fd
  BY <1>2, <1>4, EventTypes
<1>6. PICK c \in Clients : c = fdOwner[f]
  BY <1>2, <1>4, <1>5 DEF EventsInv
<1>7. PICK o \in Handshakes(c) :
        /\ hs' = [hs EXCEPT ![c] = o.hs]
        /\ \/ o.ret = "ok" /\ Established(f, c)
           \/ o.ret = "want" /\ UNCHANGED <<sock, fdOwner, inside, armed, ready, table>>
           \/ /\ o.ret \notin {"ok", "want"} /\ UNCHANGED inside
              /\ RemoveConnection(f, c, sock[c], NoBuffer, m_pl, ring)
  BY <1>1, <1>5, <1>6
<1>8. /\ o.hs \in Phase
      /\ o.ret = "ok" => o.hs = "done"
      /\ o.ret = "want" => (o.hs = "done" <=> hs[c] = "done")
      /\ o.ret \notin {"ok", "want"} => o.hs = hs[c]
  BY <1>4, HandshakeResults
<1>9. hs' \in [Clients -> Phase] /\ hs \in [Clients -> Phase]
  BY <1>4, <1>7, <1>8 DEF ThreadsOK
<1>10. hs[c] # "done" /\ BufferOf(f) = NoBuffer /\ sock[c].in = 0 /\ sock[c].out = 0
  BY <1>1, <1>4, <1>5, <1>6 DEF TablesInv, HandshakeInv
<1>11. CASE o.ret = "ok"
  <2>1. Established(f, c) /\ hs' = [hs EXCEPT ![c] = "done"]
    BY <1>7, <1>8, <1>11
  <2>2. /\ TableInv'
        /\ \E s, h : \E alive \in BOOLEAN : Leaves(f, c, s, alive, h) /\ Settled(c, s, alive, h)
    BY <1>4, <1>10, <2>1, EstablishedLeaves
  <2>3. PICK s, h : \E alive \in BOOLEAN :
           Leaves(e.fd, c, s, alive, h) /\ Settled(c, s, alive, h)
    BY <1>5, <2>2
  <2>4. PICK alive \in BOOLEAN : Leaves(e.fd, c, s, alive, h) /\ Settled(c, s, alive, h)
    BY <2>3
  <2>5. c = fdOwner[e.fd]
    BY <1>5, <1>6
  <2> QED BY <1>2, <1>3, <1>9, <2>2, <2>4, <2>5, ServedStep
<1>12. CASE o.ret = "want"
  <2>1. UNCHANGED <<sock, fdOwner, inside, armed, ready, table>>
    BY <1>7, <1>12
  <2>2. TypeOK'
    <3>1. TableOK'
      BY <1>4, <2>1 DEF TableOK, table
    <3>2. ThreadsOK'
      BY <1>2, <1>3, <1>4, <1>9 DEF ThreadsOK
    <3> QED BY <3>1, <3>2, TypeParts
  <2>3. /\ OneDescriptorEach' /\ SameBytes
        /\ \A d \in Clients : sock[d].phase \in {"open", "closed"} =>
                                sock'[d].phase \in {"open", "closed"}
    BY <1>2, <1>4, <2>1, SameClients
  <2>4. EventsInv'
    BY <1>2, <1>4, <2>1 DEF EventsInv
  <2>5. EndInv' /\ (Alive' => Alive) /\ pc # "destroyed"
    BY <1>2, <1>3 DEF EndInv, Alive
  <2>6. \A d \in Clients : hs'[d] = "done" <=> hs[d] = "done"
    BY <1>7, <1>8, <1>9, <1>12
  <2> QED BY <2>1, <2>2, <2>3, <2>4, <2>5, <2>6, QuietStep
<1>13. CASE o.ret \notin {"ok", "want"}
  <2>1. RemoveConnection(f, c, sock[c], NoBuffer, m_pl, ring) /\ UNCHANGED inside
    BY <1>7, <1>13
  <2>2. \A d \in Clients : hs'[d] = hs[d]
    BY <1>7, <1>8, <1>9, <1>13
  <2>3. PICK b : b = NoBuffer
    OBVIOUS
  <2>4. /\ RemoveConnection(e.fd, c, sock[c], b, m_pl, ring) /\ b = BufferOf(e.fd)
        /\ c = fdOwner[e.fd] /\ UNCHANGED <<inside, thread>>
    BY <1>3, <1>5, <1>6, <1>10, <2>1, <2>3
  <2> QED BY <1>2, <1>9, <2>2, <2>4, RemovedStep
<1> QED BY <1>11, <1>12, <1>13

(* A connection is accepted: its client is established at once ...         *)
LEMMA AcceptedClient ==
    ASSUME IInv, NEW f \in Fds, NEW c \in Clients, Accept(f, c)
    PROVE  /\ TypeOK /\ TableOK /\ ThreadsOK /\ OneDescriptorEach /\ TablesInv /\ PoolInv
           /\ EventsInv /\ HandshakeInv /\ ByteAccount /\ PoolContents(m_pl, ring)
           /\ f \in FreeFds /\ fdOwner[f] = NoClient /\ BufferOf(f) = NoBuffer /\ f \notin ssl
           /\ backlog # <<>> /\ backlog \in Seq(Clients) /\ c = Head(backlog)
           /\ backlog' = Tail(backlog) /\ backlog' \in Seq(Clients)
           /\ hs[c] # "done" /\ sock[c].in = 0 /\ sock[c].out = 0
           /\ sock[c].phase = "queued" /\ pc = "accept"
           /\ UNCHANGED <<held, m_running, m_events>>
<1>1. /\ pc = "accept" /\ backlog # <<>> /\ backlog' = Tail(backlog) /\ c = Head(backlog)
      /\ UNCHANGED <<held, m_running, m_events>> /\ f \in FreeFds /\ fdOwner[f] = NoClient
  BY DEF Accept, Accepting, Lowest, FreeFds
<1>2. /\ TypeOK /\ TableOK /\ ThreadsOK /\ OneDescriptorEach /\ TablesInv /\ PoolInv
      /\ EventsInv /\ HandshakeInv /\ ByteAccount /\ PoolContents(m_pl, ring)
      /\ backlog \in Seq(Clients)
  BY <1>1, TypeParts, Types DEF IInv, Alive
<1>3. BufferOf(f) = NoBuffer /\ f \notin ssl
  BY <1>1, <1>2 DEF TablesInv
<1>4. c = backlog[1] /\ 1 \in 1 .. Len(backlog) /\ backlog' \in Seq(Clients)
  BY <1>1, <1>2, HeadTailProperties, LenProperties, SMT
<1>5. sock[c].phase = "queued"
  BY <1>2, <1>4 DEF OneDescriptorEach
<1>6. hs[c] # "done" /\ sock[c].in = 0 /\ sock[c].out = 0
  BY <1>2, <1>5 DEF HandshakeInv, OneDescriptorEach
<1> QED BY <1>1, <1>2, <1>3, <1>4, <1>5, <1>6

LEMMA EstablishedStep ==
    ASSUME IInv, AcceptEstablished
    PROVE  IInv'
<1>1. PICK f \in Fds, c \in Clients :
        /\ Accept(f, c) /\ Established(f, c)
        /\ \E o \in Handshakes(c) : o.ret = "ok" /\ hs' = [hs EXCEPT ![c] = o.hs]
  BY DEF AcceptEstablished
<1>2. NextTurn
  BY DEF AcceptEstablished
<1>3. /\ TypeOK /\ ThreadsOK /\ PoolInv /\ PoolContents(m_pl, ring) /\ BufferOf(f) = NoBuffer
      /\ sock[c].in = 0 /\ sock[c].out = 0
  BY <1>1, AcceptedClient
<1>4. PICK o \in Handshakes(c) : o.ret = "ok" /\ hs' = [hs EXCEPT ![c] = o.hs]
  BY <1>1
<1>5. o.hs = "done"
  BY <1>3, <1>4, HandshakeResults
<1>6. hs' = [hs EXCEPT ![c] = "done"]
  BY <1>4, <1>5
<1>7. /\ TableInv'
      /\ \E s, h : \E alive \in BOOLEAN : Leaves(f, c, s, alive, h) /\ Settled(c, s, alive, h)
  BY <1>1, <1>3, <1>6, EstablishedLeaves
<1>8. PICK s, h : \E alive \in BOOLEAN : Leaves(f, c, s, alive, h) /\ Settled(c, s, alive, h)
  BY <1>7
<1>9. PICK alive \in BOOLEAN : Leaves(f, c, s, alive, h) /\ Settled(c, s, alive, h)
  BY <1>8
<1>10. hs' \in [Clients -> Phase]
  BY <1>3, <1>6 DEF ThreadsOK, Phase
<1> QED BY <1>1, <1>2, <1>7, <1>9, <1>10, AcceptedStep

(* ... or its handshake is pending ...                                     *)
LEMMA AcceptPendingStep ==
    ASSUME IInv, AcceptPending
    PROVE  IInv'
<1>1. PICK f \in Fds, c \in Clients :
        /\ Accept(f, c)
        /\ \E o \in Handshakes(c) : o.ret = "want" /\ hs' = [hs EXCEPT ![c] = o.hs]
        /\ sock' = [sock EXCEPT ![c].phase = "open"]
        /\ fdOwner' = [fdOwner EXCEPT ![f] = c]
        /\ Arm(f, PendingInterest, Visible[c])
        /\ ssl' = ssl \cup {f} /\ m_pending_handshakes' = m_pending_handshakes \cup {f}
  BY DEF AcceptPending
<1>2. NextTurn /\ UNCHANGED <<inside, m_connections, m_pl, ring>>
  BY DEF AcceptPending
<1>3. /\ TypeOK /\ TableOK /\ ThreadsOK /\ OneDescriptorEach /\ TablesInv /\ PoolInv
      /\ EventsInv /\ HandshakeInv /\ ByteAccount /\ PoolContents(m_pl, ring)
      /\ f \in FreeFds /\ fdOwner[f] = NoClient /\ BufferOf(f) = NoBuffer /\ f \notin ssl
      /\ backlog # <<>> /\ backlog \in Seq(Clients) /\ c = Head(backlog)
      /\ backlog' = Tail(backlog) /\ backlog' \in Seq(Clients)
      /\ hs[c] # "done" /\ sock[c].in = 0 /\ sock[c].out = 0
      /\ sock[c].phase = "queued" /\ pc = "accept"
      /\ UNCHANGED <<held, m_running, m_events>>
  BY <1>1, AcceptedClient
<1>4. PICK o \in Handshakes(c) : o.ret = "want" /\ hs' = [hs EXCEPT ![c] = o.hs]
  BY <1>1
<1>5. o.hs \in Phase /\ o.hs # "done" /\ hs \in [Clients -> Phase]
  BY <1>3, <1>4, HandshakeResults DEF ThreadsOK
<1>6. /\ hs' \in [Clients -> Phase] /\ hs'[c] # "done"
      /\ \A d \in Clients : d # c => hs'[d] = hs[d]
  BY <1>4, <1>5
<1>7. /\ sock' \in [Clients -> Socket] /\ sock'[c].phase = "open"
      /\ \A d \in Clients : d # c => sock'[d] = sock[d]
      /\ \A d \in Clients : sock'[d].in = sock[d].in /\ sock'[d].out = sock[d].out
  <2>1. sock \in [Clients -> Socket]
    BY <1>3 DEF TableOK
  <2>2. PICK t : t = sock'
    OBVIOUS
  <2>3. t = [sock EXCEPT ![c].phase = "open"]
    BY <1>1, <2>2
  <2>4. t \in [Clients -> Socket]
    BY <2>1, <2>3, PhaseType
  <2>5. \A d \in Clients : t[d].in = sock[d].in /\ t[d].out = sock[d].out
    BY <2>1, <2>3, PhaseOnly
  <2>6. t[c].phase = "open" /\ \A d \in Clients : d # c => t[d] = sock[d]
    BY <2>1, <2>3 DEF Socket
  <2> QED BY <2>2, <2>4, <2>5, <2>6
<1>8. OneDescriptorEach' /\ \A g \in Fds : fdOwner[g] # c
  <2>1. PICK phase \in {"open", "closed"} : phase = "open"
    OBVIOUS
  <2>2. AcceptsAs(c, f, phase)
    BY <1>1, <1>3, <1>7, <2>1 DEF AcceptsAs
  <2>3. fdOwner \in [Fds -> Clients \cup {NoClient}]
    BY <1>3 DEF TableOK
  <2> QED BY <1>3, <2>2, <2>3, AcceptedDescriptors
<1>9. /\ fdOwner \in [Fds -> Clients \cup {NoClient}] /\ NoClient \notin Clients
      /\ fdOwner'[f] = c /\ \A g \in Fds : g # f => fdOwner'[g] = fdOwner[g]
  BY <1>1, <1>3, SocketAssumption DEF TableOK
<1>10. ASSUME NEW g \in Fds, g # f, fdOwner[g] # NoClient
       PROVE  /\ hs'[fdOwner[g]] = hs[fdOwner[g]] /\ sock'[fdOwner[g]] = sock[fdOwner[g]]
  <2>1. fdOwner[g] \in Clients /\ fdOwner[g] # c
    BY <1>8, <1>9, <1>10
  <2> QED BY <1>6, <1>7, <2>1
<1>11. TablesInv'
  <2>1. ASSUME NEW g \in Fds
        PROVE  /\ g \in ssl' <=> fdOwner'[g] # NoClient
               /\ g \in m_pending_handshakes' <=>
                      (fdOwner'[g] # NoClient /\ hs'[fdOwner'[g]] # "done")
               /\ BufferOf(g) # NoBuffer <=> (fdOwner'[g] # NoClient /\ hs'[fdOwner'[g]] = "done")
    <3>1. CASE g = f
      BY <1>1, <1>3, <1>6, <1>9, <3>1
    <3>2. CASE g # f
      BY <1>1, <1>3, <1>9, <1>10, <3>2 DEF TablesInv
    <3> QED BY <3>1, <3>2
  <2> QED BY <1>2, <2>1 DEF TablesInv, BufferOf
<1>12. HandshakeInv'
  BY <1>3, <1>6, <1>7 DEF HandshakeInv
<1>13. ByteAccount'
  <2>1. ASSUME NEW g \in Fds, fdOwner'[g] # NoClient, BufferOf(g) # NoBuffer
        PROVE  Held(BufferOf(g)) = sock'[fdOwner'[g]].in - sock'[fdOwner'[g]].out
    BY <1>3, <1>9, <1>10, <2>1 DEF ByteAccount
  <2> QED BY <1>2, <2>1 DEF ByteAccount, BufferOf, Held
<1>14. EventsInv'
  <2>1. ASSUME NEW d \in m_events', d.fd # Listen PROVE fdOwner'[d.fd] # NoClient
    <3>1. d \in m_events /\ d.fd \in Fds /\ fdOwner[d.fd] # NoClient
      BY <1>3, <2>1, EventTypes DEF EventsInv
    <3> QED BY <1>3, <1>9, <3>1
  <2> QED BY <1>3, <2>1, EventsKept
<1>15. TableInv'
  <2>1. armed' \in [Fds -> SUBSET Signal] /\ ready' \subseteq Fds \cup {Listen}
    BY <1>1, <1>3 DEF Arm, PendingInterest, TableOK
  <2>2. fdOwner' \in [Fds -> Clients \cup {NoClient}]
    BY <1>1, <1>9
  <2>3. TableOK'
    BY <1>1, <1>2, <1>3, <1>7, <2>1, <2>2 DEF TableOK
  <2>4. PoolInv' /\ PoolContents(m_pl, ring)'
    BY <1>2, <1>3 DEF PoolInv, PoolContents, BufferTable, BufferOf
  <2> QED BY <2>3, <2>4 DEF TableInv
<1>16. ThreadsOK'
  <2>1. accepts' \in 0 .. MaxAccepts /\ pc' = pc
    BY <1>1, <1>2, <1>3, LoopAssumption DEF NextTurn, ThreadsOK, Accept, Accepting
  <2> QED BY <1>3, <1>6, <2>1 DEF ThreadsOK
<1>17. EndInv'
  BY <1>2, <1>3 DEF EndInv, NextTurn
<1> QED BY <1>8, <1>11, <1>12, <1>13, <1>14, <1>15, <1>16, <1>17, TypeParts DEF IInv, TableInv

(* ... or it is closed.                                                    *)
LEMMA AcceptFailsStep ==
    ASSUME IInv, AcceptFails
    PROVE  IInv'
<1>1. PICK f \in Fds, c \in Clients :
        Accept(f, c) /\ sock' = [sock EXCEPT ![c].phase = "closed"]
  BY DEF AcceptFails
<1>2. /\ UNCHANGED <<fdOwner, tls, armed, ready, table>>
      /\ pc' \in {pc, "dispatch"} /\ (accepts' = accepts \/ accepts' = accepts + 1)
  BY DEF AcceptFails, NextTurn
<1>3. /\ TypeOK /\ TableOK /\ ThreadsOK /\ OneDescriptorEach /\ EventsInv
      /\ f \in FreeFds /\ backlog # <<>> /\ backlog \in Seq(Clients) /\ c = Head(backlog)
      /\ backlog' = Tail(backlog) /\ backlog' \in Seq(Clients) /\ pc = "accept"
      /\ UNCHANGED <<held, m_running, m_events>>
  BY <1>1, AcceptedClient
<1>4. sock \in [Clients -> Socket] /\ fdOwner \in [Fds -> Clients \cup {NoClient}]
  BY <1>3 DEF TableOK
<1>5. sock' \in [Clients -> Socket]
  BY <1>1, <1>4, PhaseType
<1>6. /\ OneDescriptorEach' /\ SameBytes
      /\ \A d \in Clients : sock'[d].phase = IF d = c THEN "closed" ELSE sock[d].phase
  <2>1. PICK phase \in {"open", "closed"} : phase = "closed"
    OBVIOUS
  <2>2. fdOwner' = IF phase = "open" THEN [fdOwner EXCEPT ![f] = Head(backlog)] ELSE fdOwner
    BY <1>2, <2>1
  <2>3. sock' = [sock EXCEPT ![Head(backlog)].phase = phase]
    BY <1>1, <1>3, <2>1
  <2>4. /\ OneDescriptorEach' /\ SameBytes
        /\ \A d \in Clients : sock'[d].phase = IF d = Head(backlog) THEN phase
                                               ELSE sock[d].phase
    BY <1>3, <1>4, <2>2, <2>3, AcceptDescriptors
  <2> QED BY <1>3, <2>1, <2>4
<1>7. TypeOK'
  <2>1. TableOK'
    BY <1>2, <1>3, <1>5 DEF TableOK, table, tls
  <2>2. accepts' \in 0 .. MaxAccepts
    <3>1. accepts < MaxAccepts
      BY <1>1 DEF Accept, Accepting
    <3> QED BY <1>2, <1>3, <3>1, LoopAssumption DEF ThreadsOK
  <2>3. ThreadsOK'
    BY <1>2, <1>3, <2>2 DEF ThreadsOK, tls
  <2> QED BY <2>1, <2>3, TypeParts
<1>8. EventsInv'
  BY <1>2, <1>3 DEF EventsInv
<1>9. EndInv' /\ (Alive' => Alive) /\ pc # "destroyed"
  BY <1>2, <1>3 DEF EndInv, Alive
<1>10. \A d \in Clients : sock[d].phase \in {"open", "closed"} =>
                            sock'[d].phase \in {"open", "closed"}
  BY <1>6
<1>11. \A d \in Clients : hs'[d] = "done" <=> hs[d] = "done"
  BY <1>2 DEF tls
<1> QED BY <1>2, <1>6, <1>7, <1>8, <1>9, <1>10, <1>11, QuietStep
-----------------------------------------------------------------------------
(* What a client does shows on its socket, and on its handshake until that *)
(* is done.                                                                *)
LEMMA PeerSteps ==
    ASSUME IInv, NEW c \in Clients, PeerActs(c)
    PROVE  IInv'
<1>1. /\ UNCHANGED <<fdOwner, armed, table, thread, held, m_running, m_events>> /\ Running
      /\ ready' \subseteq ready \cup Fds \cup {Listen}
      /\ \/ Connects(c) /\ UNCHANGED tls
         \/ (Reads(c) \/ Closes(c) \/ Resets(c)) /\ UNCHANGED backlog /\ UNCHANGED tls
         \/ (Speaks(c) \/ SendsRecord(c)) /\ UNCHANGED backlog
  <2>1. \A signals : Epoll!Wake(c, signals) => ready' \subseteq ready \cup Fds
    BY DEF Epoll!Wake
  <2>2. CASE PeerReads(c)
    BY <2>1, <2>2 DEF PeerReads, Peer
  <2>3. CASE Peer(Connects(c) /\ ready' = ready \cup {Listen} /\ UNCHANGED tls)
    BY <2>3 DEF Peer
  <2>4. CASE Peer((Speaks(c) \/ SendsRecord(c)) /\ Epoll!Wake(c, {"IN"}) /\ UNCHANGED backlog)
    BY <2>1, <2>4 DEF Peer
  <2>5. CASE Peer(Closes(c) /\ Epoll!Wake(c, {"IN", "HUP"}) /\ UNCHANGED <<backlog, tls>>)
    BY <2>1, <2>5 DEF Peer
  <2>6. CASE Peer(Resets(c) /\ Epoll!Wake(c, Signal) /\ UNCHANGED <<backlog, tls>>)
    BY <2>1, <2>6 DEF Peer
  <2> QED BY <2>2, <2>3, <2>4, <2>5, <2>6 DEF PeerActs
<1>2. /\ TypeOK /\ TableOK /\ ThreadsOK /\ OneDescriptorEach /\ EventsInv
      /\ sock \in [Clients -> Socket] /\ backlog \in Seq(Clients)
      /\ fdOwner \in [Fds -> Clients \cup {NoClient}]
  BY TypeParts, Types DEF IInv
<1>3. /\ inside' = inside /\ hs' \in [Clients -> Phase]
      /\ \A d \in Clients : hs'[d] = "done" <=> hs[d] = "done"
  <2>1. CASE UNCHANGED tls
    BY <1>2, <2>1 DEF tls, ThreadsOK
  <2>2. CASE Speaks(c)
    <3>1. PICK h : /\ hs[c] \in {"none", "replied"} /\ hs' = [hs EXCEPT ![c] = h]
                   /\ h \in {"hello", "ready", "bad"}
      BY <2>2 DEF Speaks
    <3>2. hs \in [Clients -> Phase]
      BY <1>2 DEF ThreadsOK
    <3>3. h \in Phase /\ h # "done" /\ hs[c] # "done"
      BY <3>1 DEF Phase
    <3>4. hs' \in [Clients -> Phase] /\ \A d \in Clients : hs'[d] = IF d = c THEN h ELSE hs[d]
      BY <3>1, <3>2, <3>3
    <3>5. inside' = inside
      BY <2>2 DEF Speaks
    <3> QED BY <3>3, <3>4, <3>5
  <2>3. CASE SendsRecord(c)
    BY <2>1, <2>3 DEF SendsRecord
  <2> QED BY <1>1, <2>1, <2>2, <2>3
<1>4. /\ OneDescriptorEach' /\ SameBytes
      /\ sock' \in [Clients -> Socket] /\ backlog' \in Seq(Clients)
      /\ \A d \in Clients : sock[d].phase \in {"open", "closed"} =>
                              sock'[d].phase \in {"open", "closed"}
  <2>1. CASE Speaks(c) /\ UNCHANGED backlog
    <3>1. UNCHANGED <<sock, fdOwner, backlog>>
      BY <1>1, <2>1 DEF Speaks
    <3> QED BY <1>2, <3>1, SameClients
  <2>2. CASE ~(Speaks(c) /\ UNCHANGED backlog)
    <3>1. \/ Connects(c)
          \/ (Sends(c) \/ Reads(c) \/ Closes(c) \/ Resets(c)) /\ UNCHANGED backlog
      BY <1>1, <2>2 DEF SendsRecord
    <3>2. fdOwner' = fdOwner
      BY <1>1
    <3>3. OneDescriptorEach' /\ SameBytes
      BY <1>2, <3>1, <3>2, ClientDescriptors
    <3>4. sock' \in [Clients -> Socket] /\ backlog' \in Seq(Clients)
      BY <1>2, <3>1, ClientTypes
    <3>5. \A d \in Clients : sock'[d].phase = IF Connects(c) /\ d = c THEN "queued"
                                              ELSE sock[d].phase
      BY <1>2, <3>1, ClientBytes
    <3>6. Connects(c) => sock[c].phase = "new"
      BY DEF Connects
    <3> QED BY <3>3, <3>4, <3>5, <3>6
  <2> QED BY <2>1, <2>2
<1>5. TypeOK'
  <2>1. TableOK'
    BY <1>1, <1>2, <1>3, <1>4 DEF TableOK, table
  <2>2. ThreadsOK'
    BY <1>1, <1>2, <1>3, <1>4 DEF ThreadsOK, thread
  <2> QED BY <2>1, <2>2, TypeParts
<1>6. EventsInv'
  BY <1>1, <1>2 DEF EventsInv
<1>7. EndInv' /\ (Alive' => Alive) /\ pc # "destroyed"
  BY <1>1 DEF EndInv, Alive, Running, thread
<1> QED BY <1>1, <1>3, <1>4, <1>5, <1>6, <1>7, QuietStep

(* run() returns, and the loop is destroyed.                               *)
LEMMA EndSteps ==
    ASSUME IInv, LeaveLoop \/ Destroy
    PROVE  IInv'
<1>1. /\ UNCHANGED <<sock, backlog, fdOwner, tls, armed, ready, accepts, m_running, m_events>>
      /\ TypeOK /\ TableOK /\ ThreadsOK /\ OneDescriptorEach /\ EventsInv /\ HandshakeInv
      /\ PoolTypeOK /\ PoolInv /\ PoolContents(m_pl, ring)
  BY TypeParts, Types DEF LeaveLoop, Destroy, sockets, IInv
<1>2. OneDescriptorEach'
  BY <1>1, SameClients
<1>3. EventsInv' /\ HandshakeInv'
  BY <1>1 DEF EventsInv, HandshakeInv, tls
<1>4. CASE LeaveLoop
  <2>1. /\ pc' = "stopped" /\ held' = {"ctx"} /\ ssl' = {} /\ m_pending_handshakes' = {}
        /\ m_connections' = [f \in Fds |-> [m_connections[f] EXCEPT !.buffer = NoBuffer]]
        /\ ring' = [b \in Buffers |-> IF b \in Owned THEN EmptyRing ELSE ring[b]]
    BY <1>4 DEF LeaveLoop, FreeObjects
  <2>2. PICK s \in Bijection(1 .. Cardinality(Buffered), Buffered) :
          m_pl' = m_pl \o [i \in DOMAIN s |-> BufferOf(s[i])]
    BY <1>4 DEF LeaveLoop
  <2>3. \A f \in Fds : /\ m_connections'[f].state = m_connections[f].state
                       /\ m_connections'[f].buffer = NoBuffer
                       /\ m_connections'[f] \in [state  : States \ {"die"},
                                                 buffer : 1 .. Len(ring) \cup {NoBuffer}]
    BY <1>1, <2>1 DEF TableOK
  <2>4. PICK B, T, t, q, r : /\ B = Buffered /\ T = BufferTable /\ t = BufferTable'
                             /\ q = [i \in DOMAIN s |-> T[s[i]]] /\ r = ring'
    OBVIOUS
  <2>5. /\ B = {f \in Fds : T[f] # 0} /\ s \in Bijection(1 .. Cardinality(B), B)
        /\ \A f \in Fds : T[f] = BufferOf(f)
    BY <2>2, <2>4 DEF BufferTable, Buffered, NoBuffer
  <2>6. r = [b \in Buffers |-> IF \E f \in B : b = T[f] THEN EmptyRing ELSE ring[b]]
    BY <2>1, <2>4, <2>5 DEF Owned
  <2>7. \A f \in Fds : t[f] = 0
    BY <2>3, <2>4 DEF BufferTable, BufferOf, NoBuffer
  <2>8. PICK p : p = m_pl \o q
    OBVIOUS
  <2>9. m_pl' = p
    <3>1. \A i \in DOMAIN s : s[i] \in Fds
      BY <2>5, Fun_BijectionProperties DEF Bijection, Injection
    <3>2. q = [i \in DOMAIN s |-> BufferOf(s[i])]
      BY <2>4, <2>5, <3>1
    <3> QED BY <2>2, <2>8, <3>2
  <2>10. Conserved(m_pl, Len(m_pl), Len(ring), Fds, T) /\ IsFiniteSet(Fds)
    BY <1>1, <2>4, SocketAssumption DEF PoolInv
  <2>11. /\ r \in Seq(CounterPair) /\ Len(r) = Len(ring) /\ p \in Seq(1 .. Len(ring))
         /\ Conserved(p, Len(p), Len(r), Fds, t)
         /\ PoolContents(m_pl, ring) => PoolContents(p, r)
    <3>1. q = [i \in DOMAIN s |-> T[s[i]]]
      BY <2>4
    <3>2. RedeemsAll(Fds, T, s, p, r, t)
      BY <2>5, <2>6, <2>7, <2>8, <3>1 DEF RedeemsAll, WithBuffer
    <3> QED BY <1>1, <2>10, <3>2, AllRedeemed
  <2>12. PoolInv' /\ PoolContents(m_pl, ring)'
    BY <1>1, <2>4, <2>9, <2>11 DEF PoolInv
  <2>13. TypeOK'
    <3>1. m_connections' \in [Fds -> [state  : States \ {"die"},
                                      buffer : 1 .. Len(ring') \cup {NoBuffer}]]
      BY <2>1, <2>3, <2>4, <2>11
    <3>2. TableOK'
      BY <1>1, <2>1, <2>4, <2>9, <2>11, <3>1 DEF TableOK, tls
    <3>3. ThreadsOK'
      BY <1>1, <2>1 DEF ThreadsOK, tls
    <3> QED BY <3>2, <3>3, TypeParts
  <2>14. \A f \in Fds : BufferOf(f)' = NoBuffer
    BY <2>3 DEF BufferOf
  <2>15. ByteAccount' /\ EndInv' /\ ~Alive'
    BY <2>1, <2>14 DEF ByteAccount, EndInv, Alive
  <2> QED BY <1>2, <1>3, <2>12, <2>13, <2>15 DEF IInv
<1>5. CASE Destroy
  <2>1. /\ pc \in {"stopped", "threw"} /\ pc' = "destroyed"
        /\ held' = held \ {"ctx"} /\ m_pl' = <<>>
        /\ UNCHANGED <<m_connections, ssl, m_pending_handshakes, ring>>
    BY <1>5 DEF Destroy
  <2>2. TypeOK'
    <3>1. TableOK'
      BY <1>1, <2>1 DEF TableOK, tls
    <3>2. ThreadsOK'
      BY <1>1, <2>1 DEF ThreadsOK, tls
    <3> QED BY <3>1, <3>2, TypeParts
  <2>3. PoolContents(m_pl, ring)'
    BY <1>1, <2>1 DEF PoolContents
  <2>4. ByteAccount'
    BY <1>1, <2>1 DEF IInv, ByteAccount, BufferOf, Held
  <2>5. EndInv' /\ ~Alive'
    BY <1>1, <2>1 DEF IInv, EndInv, BufferOf, Alive
  <2> QED BY <1>2, <1>3, <2>1, <2>2, <2>3, <2>4, <2>5 DEF IInv
<1> QED BY <1>4, <1>5
-----------------------------------------------------------------------------
LEMMA InitialStates ==
    ASSUME Init
    PROVE  IInv
<1>1. /\ SocketsInit /\ PoolInit /\ hs = [c \in Clients |-> "none"]
      /\ inside = [c \in Clients |-> 0]
      /\ armed = [f \in Fds |-> {}] /\ ready = {}
      /\ held = {} /\ m_running = TRUE /\ m_events = {}
      /\ m_connections = [f \in Fds |-> [state |-> "idle", buffer |-> NoBuffer]]
      /\ ssl = {} /\ m_pending_handshakes = {}
      /\ pc = "start" /\ accepts = 0
  BY DEF Init, TlsInit
<1>2. OneDescriptorEach /\ PoolContents(m_pl, ring)
  BY <1>1, DescriptorsInit, ContentsInit
<1>3. /\ ring \in Seq(CounterPair) /\ m_pl \in Seq(1 .. Len(ring))
      /\ Len(ring) = Prepool /\ Len(m_pl) = Prepool /\ Prepool \in Nat
      /\ \A i \in 1 .. Prepool : m_pl[i] = i
  <2>1. EmptyRing \in CounterPair /\ Prepool \in Nat
    BY EmptyHoldsNothing, PoolAssumption
  <2> QED BY <1>1, <2>1 DEF PoolInit
<1>4. \A f \in Fds : BufferOf(f) = NoBuffer /\ BufferTable[f] = 0
  BY <1>1 DEF BufferOf, BufferTable, NoBuffer
<1>5. PoolInv
  BY <1>3, <1>4 DEF PoolInv, Conserved
<1>6. TypeOK
  <2>1. sock \in [Clients -> Socket] /\ backlog \in Seq(Clients)
    BY <1>1, SocketAssumption DEF SocketsInit, Socket
  <2>2. fdOwner \in [Fds -> Clients \cup {NoClient}] /\ 0 \in 0 .. MaxBytes
    BY <1>1, SocketAssumption DEF SocketsInit
  <2>3. TableOK
    BY <1>1, <1>3, <2>1, <2>2 DEF TableOK, States
  <2>4. ThreadsOK
    BY <1>1, <2>1, LoopAssumption DEF ThreadsOK, Phase
  <2> QED BY <2>3, <2>4, TypeParts
<1>7. TablesInv
  BY <1>1, <1>4 DEF TablesInv, SocketsInit
<1>8. HandshakeInv /\ EventsInv /\ ByteAccount /\ EndInv
  BY <1>1, <1>4 DEF HandshakeInv, EventsInv, ByteAccount, EndInv, SocketsInit
<1> QED BY <1>2, <1>5, <1>6, <1>7, <1>8 DEF IInv

LEMMA Inductive ==
    ASSUME IInv, [Next]_vars
    PROVE  IInv'
<1>1. CASE LoopStep
  BY <1>1, StartSteps, EndSteps, TurnSteps, HangupStep, PendingSteps, ReadAndWriteSteps,
     AcceptFailsStep, EstablishedStep, AcceptPendingStep DEF LoopStep
<1>2. CASE SetUpFails \/ Stop \/ Rests \/ UNCHANGED vars
  BY <1>2, StartSteps
<1>3. CASE \E c \in Clients : PeerActs(c)
  BY <1>3, PeerSteps
<1> QED BY <1>1, <1>2, <1>3 DEF Next

LEMMA Invariance == Spec => []IInv
<1>1. Init => IInv
  BY InitialStates
<1>2. IInv /\ [Next]_vars => IInv'
  BY Inductive
<1> QED BY <1>1, <1>2, PTL DEF Spec
-----------------------------------------------------------------------------
(* The variables keep their types: no descriptor is added to a table twice *)
(* or removed from one it is not in.                                       *)
THEOREM TypeCorrect == Spec => []TypeOK
<1>1. IInv => TypeOK
  BY DEF IInv
<1> QED BY <1>1, Invariance, PTL

(* Whichever way a handshake goes, at accept or after, and whenever it     *)
(* fails, the SSL objects, the pending handshakes and the buffers are      *)
(* those of the open descriptors that should have one.                     *)
THEOREM ObjectsAgree == Spec => []TlsObjects
<1>1. IInv => TlsObjects
  <2> SUFFICES ASSUME IInv, Running, NEW f \in Fds
               PROVE  LET open == fdOwner[f] # NoClient
                          established == open /\ hs[fdOwner[f]] = "done"
                      IN  /\ f \in ssl <=> open
                          /\ f \in m_pending_handshakes <=> (open /\ ~established)
                          /\ BufferOf(f) # NoBuffer <=> established
    BY DEF TlsObjects
  <2>1. TablesInv
    BY DEF IInv, Alive, Running
  <2> QED BY <2>1 DEF TablesInv
<1> QED BY <1>1, Invariance, PTL

(* What Conserved says of the pool and the connections.                    *)
LEMMA ConservedMeans ==
    ASSUME TypeOK, PoolInv
    PROVE  /\ \A f, g \in Fds : (f # g /\ BufferOf(f) # NoBuffer) => BufferOf(f) # BufferOf(g)
           /\ \A i, j \in DOMAIN m_pl : i # j => m_pl[i] # m_pl[j]
           /\ Owned \cap Pooled = {} /\ Owned \cup Pooled = Buffers
<1>1. PICK k, n : k = Len(m_pl) /\ n = Len(ring)
  OBVIOUS
<1>2. /\ Conserved(m_pl, k, n, Fds, BufferTable)
      /\ Buffers = 1 .. n /\ DOMAIN m_pl = 1 .. k
      /\ \A f \in Fds : BufferTable[f] = BufferOf(f)
  BY <1>1, Types, LenProperties DEF PoolInv, BufferTable
<1>3. /\ \A f, g \in Fds : (f # g /\ BufferOf(f) # NoBuffer) => BufferOf(f) # BufferOf(g)
      /\ \A i, j \in DOMAIN m_pl : i # j => m_pl[i] # m_pl[j]
  BY <1>2 DEF Conserved, NoBuffer
<1>4. Owned \cap Pooled = {}
  BY <1>2 DEF Conserved, Owned, Buffered, Pooled, NoBuffer
<1>5. Owned \cup Pooled = Buffers
  <2>1. \A b \in 1 .. n : b # 0
    BY <1>2 DEF Conserved
  <2>2. \A b \in 0 .. n : b = 0 \/ b \in 1 .. n
    BY <1>2 DEF Conserved
  <2>3. Owned \cup Pooled \subseteq Buffers
    BY <1>2, <2>2 DEF Conserved, Owned, Buffered, Pooled, NoBuffer
  <2>4. Buffers \subseteq Owned \cup Pooled
    <3>1. ASSUME NEW b \in 1 .. n, NEW f \in Fds, BufferTable[f] = b PROVE b \in Owned
      BY <1>2, <2>1, <3>1 DEF Owned, Buffered, NoBuffer
    <3>2. ASSUME NEW b \in 1 .. n, NEW i \in 1 .. k, m_pl[i] = b PROVE b \in Pooled
      BY <1>2, <3>2 DEF Pooled
    <3>3. \A b \in 1 .. n : \/ \E f \in Fds : BufferTable[f] = b
                           \/ \E i \in 1 .. k : m_pl[i] = b
      BY <1>2 DEF Conserved
    <3> QED BY <1>2, <3>1, <3>2, <3>3
  <2> QED BY <2>3, <2>4
<1> QED BY <1>3, <1>4, <1>5

(* The pool neither loses a buffer nor gives one to two connections; and   *)
(* when run() ends, or the loop crashes, they still have them all.         *)
THEOREM BuffersConserved == Spec => []BufferConservation
<1>1. IInv => BufferConservation
  BY ConservedMeans DEF IInv, BufferConservation
<1> QED BY <1>1, Invariance, PTL

(* Each buffer holds what was decrypted on its connection and not sent     *)
(* back, while bytes are left inside the library or the send queue is full.*)
THEOREM BytesAccounted == Spec => []ByteAccount
<1>1. IInv => ByteAccount
  BY DEF IInv
<1> QED BY <1>1, Invariance, PTL

(* run() returns, throws, or is stopped before it starts: the destructor   *)
(* leaves no SSL object, no context and no buffer out of the pool.         *)
THEOREM NothingLeft == Spec => []NothingOutlives
<1>1. IInv => NothingOutlives
  <2> SUFFICES ASSUME IInv PROVE NothingOutlives
    OBVIOUS
  <2>1. pc = "destroyed" => ssl = {} /\ Owned = {} /\ held \subseteq {"listen"}
    BY DEF IInv, EndInv, Owned, Buffered
  <2>2. pc = "stopped" => held = {"ctx"} /\ Owned \cup Pooled = Buffers
    BY ConservedMeans DEF IInv, EndInv
  <2> QED BY <2>1, <2>2 DEF NothingOutlives
<1> QED BY <1>1, Invariance, PTL

(* All of them at once.                                                    *)
THEOREM ConsistentAlways == Spec => []Consistent
<1> QED BY TypeCorrect, ObjectsAgree, BuffersConserved, BytesAccounted, NothingLeft, PTL
        DEF Consistent
=============================================================================
