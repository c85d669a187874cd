------------------------- MODULE UringTlsLoopProofs -------------------------
(***************************************************************************)
(* The safety invariants of the TLS loop over io_uring, for any number of  *)
(* clients, descriptors and buffers, any buffer and ring size, any faults, *)
(* any answers of the callbacks, any connections the kernel takes over,    *)
(* and a stop() at any time.                                               *)
(*                                                                         *)
(* A receive or a send is prepared, then in the kernel, then a completion: *)
(* three queues, and nothing takes it back when its connection is removed  *)
(* and the descriptor given to another.  What makes the account right is   *)
(* that a connection has one at most, in one of the queues, which it waits *)
(* for, and that nothing but its completion moves the connection on: so    *)
(* one whose connection is gone has not reached the kernel (MovesInv).     *)
(***************************************************************************)
EXTENDS UringTlsLoop, SharedLemmas

BufferTable == [f \in Fds |-> BufferOf(f)]

(* From the start to the end of run().                                     *)
Alive == pc = "start" \/ Running

TablesInv ==
    \A f \in Fds :
        /\ f \in ssl <=> fdOwner[f] # NoClient
        /\ f \in m_pending_handshakes <=> (fdOwner[f] # NoClient /\ hs[fdOwner[f]] # "done")
        /\ BufferOf(f) # NoBuffer <=> (fdOwner[f] # NoClient /\ hs[fdOwner[f]] = "done")

(* No byte is read or sent before the handshake is done.                   *)
HandshakeInv ==
    \A c \in Clients : IF hs[c] = "done" THEN sock[c].phase \in {"open", "closed"}
                       ELSE sock[c].in = 0 /\ sock[c].out = 0

EndInv ==
    /\ pc \in {"start", "threw", "stopped", "destroyed"} =>
            ssl = {} /\ \A f \in Fds : BufferOf(f) = NoBuffer
    /\ pc = "stopped" => held = {"ctx"}
    /\ pc = "destroyed" => held \subseteq {"listen", "epfd"}

PoolInv == Conserved(m_pl, Len(m_pl), Len(ring), Fds, BufferTable)

(* Receives and sends, and their completions that say something moved.     *)
IO == {"recv", "send"}
Moved(e) == e.kind \in IO /\ e.res > 0

(* The bytes a receive may add to a buffer that holds so many, or a send   *)
(* take from it.                                                           *)
Room(kind, holds) == IF kind = "recv" THEN BufferSize - holds ELSE holds

(* The connection with descriptor f waits for such an operation, of n      *)
(* bytes at most.                                                          *)
WaitsFor(f, kind, n) ==
    /\ fdOwner[f] # NoClient /\ BufferOf(f) # NoBuffer
    /\ m_connections[f].op = kind
    /\ n <= Room(kind, Held(BufferOf(f)))

(* Where they are, and that a descriptor has one at most.                  *)
PreparedInv ==
    \A i \in DOMAIN sq : sq[i].kind \in IO =>
        /\ \/ pc = "batch" /\ fdOwner[sq[i].fd] = NoClient
           \/ WaitsFor(sq[i].fd, sq[i].kind, sq[i].size)
        /\ \A j \in DOMAIN sq : (sq[j].kind \in IO /\ sq[j].fd = sq[i].fd) => i = j

FlyingInv ==
    \A o \in DOMAIN flying : o.kind \in IO =>
        /\ flying[o] = 1 /\ fdOwner[o.fd] = o.of /\ WaitsFor(o.fd, o.kind, o.size)
        /\ \A p \in DOMAIN flying : (p.kind \in IO /\ p.fd = o.fd) => p = o
        /\ \A i \in DOMAIN sq : sq[i].fd = o.fd => sq[i].kind \notin IO
        /\ \A i \in DOMAIN cq : cq[i].fd = o.fd => cq[i].res >= 0 /\ ~Moved(cq[i])

MovedInv ==
    \A i \in DOMAIN cq : Moved(cq[i]) =>
        /\ WaitsFor(cq[i].fd, cq[i].kind, cq[i].res)
        /\ \A j \in DOMAIN sq : sq[j].fd = cq[i].fd => sq[j].kind \notin IO
        /\ \A j \in DOMAIN cq : cq[j].fd = cq[i].fd =>
                cq[j].res >= 0 /\ (Moved(cq[j]) => i = j)

(* Nobody else waits for what needs a buffer.                              *)
WaitersInv ==
    \A f \in Fds : m_connections[f].op \in IO \cup {"poll_out"} => BufferOf(f) # NoBuffer

MovesInv ==
    /\ PreparedInv /\ FlyingInv /\ MovedInv /\ WaitersInv
    /\ pc \in {"start", "tick"} => sq = <<>>

(* What a completion has added to a buffer, or taken.                      *)
Change(e) == IF e.kind = "recv" THEN e.res ELSE -e.res
BytesInv ==
    \A f \in Fds : (fdOwner[f] # NoClient /\ BufferOf(f) # NoBuffer) =>
        LET s  == sock[fdOwner[f]]
            at == {i \in DOMAIN cq : cq[i].fd = f /\ Moved(cq[i])}
        IN  /\ \A i, j \in at : i = j
            /\ \/ s.peer = "rst"
               \/ /\ at = {} => Held(BufferOf(f)) = s.in - s.out
                  /\ \A i \in at : Held(BufferOf(f)) + Change(cq[i]) = s.in - s.out

IInv ==
    /\ TypeOK /\ OneDescriptorEach
    /\ pc # "destroyed" => PoolInv
    /\ Alive => TablesInv /\ MovesInv
    /\ HandshakeInv /\ PoolContents(m_pl, ring) /\ BytesInv /\ EndInv
-----------------------------------------------------------------------------
(* What a handler does to a connection in its hands.                       *)
Operation == [kind : Kinds, fd : Fds, size : Nat]
ConnType == [s : Socket, inside : 0 .. MaxBytes, ktls : BOOLEAN, r : CounterPair, fd : Fds,
             state : States \ {"die"}, op : Kinds \cup {"none", "handshake_poll"},
             todo : Seq(Operation), dead : BOOLEAN]

Holds(x) == Count(x.r.head, x.r.tail)

(* Its operations fit into the ring; they are polls; or one of them is     *)
(* not, and that is what the connection then waits for.                    *)
Fits(x) ==
    /\ Len(sq) + Len(x.todo) <= RingEntries
    /\ \A i \in DOMAIN x.todo : x.todo[i].fd = x.fd
OnlyPolls(x) == \A i \in DOMAIN x.todo : x.todo[i].kind \notin IO
OneMove(x) ==
    \A i \in DOMAIN x.todo : x.todo[i].kind \in IO =>
        /\ ~x.dead /\ x.op = x.todo[i].kind /\ x.todo[i].size <= Room(x.op, Holds(x))
        /\ \A j \in DOMAIN x.todo : x.todo[j].kind \in IO => i = j

Fresh(x) ==
    /\ x \in ConnType /\ Holds(x) <= BufferSize /\ Fits(x) /\ OnlyPolls(x) /\ ~x.dead
    /\ Len(sq) \in Nat

(* The same connection, with the same bytes.                               *)
Same(x, y) == y.s = x.s /\ y.r = x.r /\ y.fd = x.fd /\ y.ktls = x.ktls

(* A callback was asked: x has become y.                                   *)
Asked(x, y) ==
    y \in ConnType /\ Same(x, y) /\ Fits(y) /\ OneMove(y)

(* After a handler: no byte was lost, but for those of a connection that   *)
(* its client has reset.                                                   *)
Outcome(x, y) ==
    /\ y \in ConnType /\ Holds(y) <= BufferSize /\ Fits(y) /\ OneMove(y)
    /\ y.fd = x.fd /\ y.ktls = x.ktls /\ y.s.phase = x.s.phase /\ y.s.peer = x.s.peer
    /\ \/ x.s.peer = "rst"
       \/ Holds(y) + x.s.in + y.s.out = Holds(x) + y.s.in + x.s.out

LEMMA HoldsType ==
    ASSUME NEW x \in ConnType
    PROVE  /\ x.s \in Socket /\ x.r \in CounterPair /\ x.ktls \in BOOLEAN /\ x.fd \in Fds
           /\ x.s.rx \in Nat /\ x.s.tx \in Nat /\ x.s.in \in Nat /\ x.s.out \in Nat
           /\ x.r.head \in Counter /\ x.r.tail \in Counter /\ Holds(x) \in Nat
           /\ x.todo \in Seq(Operation) /\ DOMAIN x.todo = 1 .. Len(x.todo)
           /\ Len(x.todo) \in Nat /\ BufferSize \in Nat \ {0}
<1>1. /\ x.s \in Socket /\ x.r \in CounterPair /\ x.ktls \in BOOLEAN /\ x.fd \in Fds
      /\ x.todo \in Seq(Operation)
  BY DEF ConnType
<1>2. x.r.head \in Counter /\ x.r.tail \in Counter
  BY <1>1 DEF CounterPair
<1>3. Holds(x) \in Counter
  BY <1>2, CountCases DEF Holds
<1>4. Counter \subseteq Nat /\ BufferSize \in Nat \ {0}
  BY CounterFacts, SMT DEF Counter
<1>5. x.s.rx \in Nat /\ x.s.tx \in Nat /\ x.s.in \in Nat /\ x.s.out \in Nat
  <2>1. x.s.rx \in 0 .. MaxBytes /\ x.s.tx \in 0 .. SendRoom /\ x.s.in \in Nat /\ x.s.out \in Nat
    BY <1>1, SocketCounts
  <2> QED BY <2>1
<1>6. DOMAIN x.todo = 1 .. Len(x.todo) /\ Len(x.todo) \in Nat
  BY <1>1, LenProperties
<1> QED BY <1>1, <1>2, <1>3, <1>4, <1>5, <1>6

(* One operation is prepared.                                              *)
LEMMA OnePrepared ==
    ASSUME NEW x, Fresh(x), NEW kind \in Kinds, NEW size \in Nat, CanSubmit(x),
           kind \in IO => size <= Room(kind, Holds(x)),
           NEW y, y = [x EXCEPT !.op = kind,
                            !.todo = Append(@, [kind |-> kind, fd |-> x.fd, size |-> size])]
    PROVE  Asked(x, y) /\ ~y.dead /\ (kind \notin IO => OnlyPolls(y))
<1>1. x \in ConnType /\ Fits(x) /\ OnlyPolls(x) /\ ~x.dead
  BY DEF Fresh
<1>2. PICK o \in Operation : /\ o = [kind |-> kind, fd |-> x.fd, size |-> size]
                             /\ o.kind = kind /\ o.fd = x.fd /\ o.size = size
  <2>1. PICK f \in Fds : f = x.fd
    BY <1>1 DEF ConnType
  <2>2. PICK o : o = [kind |-> kind, fd |-> f, size |-> size]
    OBVIOUS
  <2>3. o \in Operation /\ o.kind = kind /\ o.fd = f /\ o.size = size
    BY ONLY <2>2, kind \in Kinds, f \in Fds, size \in Nat DEF Operation
  <2> QED BY <2>1, <2>2, <2>3
<1>3. PICK t, n : t = x.todo /\ n = Len(x.todo)
  OBVIOUS
<1>4. t \in Seq(Operation) /\ n \in Nat /\ n = Len(t) /\ DOMAIN t = 1 .. n
  BY <1>1, <1>3, HoldsType
<1>5. PICK u : u = Append(t, o)
  OBVIOUS
<1>6. /\ u \in Seq(Operation) /\ Len(u) = n + 1 /\ u[n + 1] = o
      /\ \A i \in 1 .. n : u[i] = t[i]
  BY <1>4, <1>5, AppendProperties
<1>7. DOMAIN u = 1 .. n + 1 /\ \A i \in 1 .. n + 1 : i \in 1 .. n \/ i = n + 1
  BY <1>4, <1>6, LenProperties
<1>8. y = [x EXCEPT !.op = kind, !.todo = u]
  BY <1>1, <1>2, <1>3, <1>5
<1>9. /\ y \in ConnType /\ Same(x, y) /\ y.todo = u /\ y.op = kind /\ y.dead = x.dead
  BY <1>1, <1>6, <1>8 DEF ConnType, Same
<1>10. Fits(y)
  <2>1. Len(sq) + n < RingEntries /\ \A i \in 1 .. n : t[i].fd = x.fd
    BY <1>1, <1>3, <1>4 DEF CanSubmit, Fits
  <2>2. Len(sq) + (n + 1) <= RingEntries
    <3>1. Len(sq) \in Int /\ RingEntries \in Int
      BY LoopAssumption DEF Fresh
    <3> QED BY ONLY <1>4, <2>1, <3>1
  <2>3. \A i \in 1 .. n + 1 : u[i].fd = x.fd
    BY <1>2, <1>6, <1>7, <2>1
  <2> QED BY <1>6, <1>7, <1>9, <2>2, <2>3 DEF Fits, Same
<1>11. \A i \in 1 .. n : u[i].kind \notin IO
  BY <1>1, <1>3, <1>4, <1>6 DEF OnlyPolls
<1>12. Holds(y) = Holds(x)
  BY <1>9 DEF Same, Holds
<1>13. OneMove(y)
  BY <1>1, <1>2, <1>6, <1>7, <1>9, <1>11, <1>12 DEF OneMove
<1>14. kind \notin IO => OnlyPolls(y)
  BY <1>2, <1>6, <1>7, <1>9, <1>11 DEF OnlyPolls
<1> QED BY <1>1, <1>9, <1>10, <1>13, <1>14 DEF Asked

LEMMA OnlyPollsMove ==
    ASSUME NEW x, OnlyPolls(x)
    PROVE  OneMove(x)
    BY DEF OnlyPolls, OneMove

LEMMA NothingPrepared ==
    ASSUME NEW x, Fresh(x)
    PROVE  Asked(x, x) /\ ~x.dead /\ OnlyPolls(x)
    BY OnlyPollsMove DEF Fresh, Asked, Same

LEMMA PollAsked ==
    ASSUME NEW x, Fresh(x), NEW kind \in {"poll_in", "poll_out"}
    PROVE  LET y == Poll(x, kind) IN Asked(x, y) /\ ~y.dead /\ OnlyPolls(y)
<1>1. PICK y : y = Poll(x, kind)
  OBVIOUS
<1>2. CASE ~CanSubmit(x)
  <2>1. y = x
    BY <1>1, <1>2 DEF Poll
  <2> QED BY <1>1, <2>1, NothingPrepared
<1>3. CASE CanSubmit(x)
  <2>1. PICK k \in Kinds, size \in Nat : k = kind /\ size = 0 /\ k \notin IO
    BY DEF Kinds, IO
  <2>2. y = [x EXCEPT !.op = k, !.todo = Append(@, [kind |-> k, fd |-> x.fd, size |-> size])]
    BY <1>1, <1>3, <2>1 DEF Poll
  <2>3. Asked(x, y) /\ ~y.dead /\ OnlyPolls(y)
    BY <1>3, <2>1, <2>2, OnePrepared
  <2> QED BY <1>1, <2>3
<1> QED BY <1>2, <1>3

LEMMA MoveAsked ==
    ASSUME NEW x, Fresh(x), NEW kind \in IO, NEW size \in Nat,
           size <= Room(kind, Holds(x))
    PROVE  LET y == Move(x, kind, size) IN Asked(x, y) /\ ~y.dead
<1>1. PICK y : y = Move(x, kind, size)
  OBVIOUS
<1>2. CASE size = 0 \/ ~CanSubmit(x)
  <2>1. y = x
    BY <1>1, <1>2 DEF Move
  <2> QED BY <1>1, <2>1, NothingPrepared
<1>3. CASE ~(size = 0 \/ ~CanSubmit(x))
  <2>1. kind \in Kinds
    BY DEF Kinds, IO
  <2>2. y = [x EXCEPT !.op = kind, !.todo = Append(@, [kind |-> kind, fd |-> x.fd, size |-> size])]
    BY <1>1, <1>3 DEF Move
  <2>3. Asked(x, y) /\ ~y.dead
    BY <1>3, <2>1, <2>2, OnePrepared
  <2> QED BY <1>1, <2>3
<1> QED BY <1>2, <1>3

LEMMA FreshState ==
    ASSUME NEW x, Fresh(x), NEW state \in States \ {"die"},
           NEW y, y = [x EXCEPT !.state = state]
    PROVE  Fresh(y) /\ Same(x, y)
<1>1. x \in ConnType /\ Holds(x) <= BufferSize /\ Fits(x) /\ OnlyPolls(x) /\ ~x.dead
      /\ Len(sq) \in Nat
  BY DEF Fresh
<1>2. /\ y \in ConnType /\ Same(x, y) /\ y.todo = x.todo /\ y.dead = x.dead
  BY <1>1 DEF ConnType, Same
<1>3. Holds(y) = Holds(x)
  BY <1>2 DEF Same, Holds
<1>4. Fits(y) /\ OnlyPolls(y)
  BY <1>1, <1>2 DEF Fits, OnlyPolls, Same
<1> QED BY <1>1, <1>2, <1>3, <1>4 DEF Fresh

LEMMA AskedSame ==
    ASSUME NEW x, NEW y, NEW z, Same(x, y), Asked(y, z)
    PROVE  Asked(x, z)
    BY DEF Asked, Same

(* What the regions of a buffer have room for.                             *)
LEMMA RegionsFit ==
    ASSUME NEW x, Fresh(x)
    PROVE  LET free == FreeRegion(x.r.head, x.r.tail)
               used == UsedRegion(x.r.head, x.r.tail)
           IN  /\ free \in Nat /\ free <= Room("recv", Holds(x))
               /\ used \in Nat /\ used <= Room("send", Holds(x))
<1>1. x \in ConnType /\ Holds(x) <= BufferSize
  BY DEF Fresh
<1>2. PICK head \in Counter, tail \in Counter : head = x.r.head /\ tail = x.r.tail
  BY <1>1, HoldsType
<1>3. PICK n \in Nat : n = Holds(x) /\ n = Count(head, tail)
  BY <1>1, <1>2, HoldsType DEF Holds
<1>4. BufferSize \in Nat /\ n <= BufferSize
  BY <1>1, <1>3, CounterFacts
<1>5. /\ FreeSpace(head, tail) \in 0 .. BufferSize
      /\ FreeRegion(head, tail) \in 0 .. FreeSpace(head, tail)
      /\ UsedRegion(head, tail) \in 0 .. n
  BY <1>3, <1>4, RegionBounds
<1>6. FreeSpace(head, tail) = BufferSize - n
  BY <1>3 DEF FreeSpace
<1>7. PICK free, used : free = FreeRegion(head, tail) /\ used = UsedRegion(head, tail)
  OBVIOUS
<1>8. free \in 0 .. BufferSize - n /\ used \in 0 .. n
  BY <1>5, <1>6, <1>7
<1>9. free \in Nat /\ free <= BufferSize - n /\ used \in Nat /\ used <= n
  BY ONLY <1>3, <1>4, <1>8
<1>10. Room("recv", n) = BufferSize - n /\ Room("send", n) = n
  BY DEF Room
<1> QED BY <1>2, <1>3, <1>7, <1>9, <1>10

LEMMA ApplyOutcome ==
    ASSUME NEW x, Fresh(x), NEW state \in States, NEW z, z = ApplyState(x, state)
    PROVE  Asked(x, z) /\ (state # "die" => ~z.dead) /\ (~x.ktls => OnlyPolls(z))
<1>1. CASE state = "die"
  <2>1. z = [x EXCEPT !.dead = TRUE]
    BY <1>1 DEF ApplyState
  <2>2. x \in ConnType /\ Fits(x) /\ OnlyPolls(x)
    BY DEF Fresh
  <2>3. z \in ConnType /\ Same(x, z) /\ z.todo = x.todo
    BY <2>1, <2>2 DEF ConnType, Same
  <2>4. Fits(z) /\ OnlyPolls(z)
    BY <2>2, <2>3 DEF Fits, OnlyPolls, Same
  <2> QED BY <1>1, <2>3, <2>4, OnlyPollsMove DEF Asked
<1>2. CASE state # "die"
  <2>1. PICK y : y = [x EXCEPT !.state = state]
    OBVIOUS
  <2>2. Fresh(y) /\ Same(x, y)
    BY <1>2, <2>1, FreshState
  <2>3. CASE state = "idle"
    <3>1. z = y
      BY <2>1, <2>3 DEF ApplyState
    <3> QED BY <2>2, <3>1, NothingPrepared, AskedSame
  <2>4. ASSUME NEW kind \in {"poll_in", "poll_out"}, z = Poll(y, kind)
        PROVE  Asked(x, z) /\ ~z.dead /\ OnlyPolls(z)
    BY <2>2, <2>4, PollAsked, AskedSame
  <2>5. ASSUME NEW kind \in IO, NEW size, z = Move(y, kind, size),
               size \in Nat, size <= Room(kind, Holds(y))
        PROVE  Asked(x, z) /\ ~z.dead
    BY <2>2, <2>5, MoveAsked, AskedSame
  <2>6. y.ktls = x.ktls
    BY <2>2 DEF Same
  <2>7. CASE state = "read"
    <3>1. z = IF x.ktls THEN Move(y, "recv", FreeRegion(y.r.head, y.r.tail))
              ELSE Poll(y, "poll_in")
      BY <2>1, <2>7 DEF ApplyState
    <3>2. CASE x.ktls
      <4>0. PICK kind \in IO : kind = "recv"
        BY DEF IO
      <4>1. PICK free : free = FreeRegion(y.r.head, y.r.tail)
        OBVIOUS
      <4>2. free \in Nat /\ free <= Room(kind, Holds(y))
        BY <2>2, <4>0, <4>1, RegionsFit
      <4>3. z = Move(y, kind, free)
        BY <3>1, <3>2, <4>0, <4>1
      <4> QED BY <2>5, <3>2, <4>2, <4>3
    <3>3. CASE ~x.ktls
      BY <2>4, <3>1, <3>3
    <3> QED BY <3>2, <3>3
  <2>8. CASE state = "write"
    <3>1. z = IF x.ktls THEN SendRest(y) ELSE Poll(y, "poll_out")
      BY <2>1, <2>8 DEF ApplyState
    <3>2. CASE x.ktls
      <4>0. PICK kind \in IO : kind = "send"
        BY DEF IO
      <4>1. PICK used : used = UsedRegion(y.r.head, y.r.tail)
        OBVIOUS
      <4>2. used \in Nat /\ used <= Room(kind, Holds(y))
        BY <2>2, <4>0, <4>1, RegionsFit
      <4>3. z = Move(y, kind, used)
        BY <3>1, <3>2, <4>0, <4>1 DEF SendRest
      <4> QED BY <2>5, <3>2, <4>2, <4>3
    <3>3. CASE ~x.ktls
      BY <2>4, <3>1, <3>3
    <3> QED BY <3>2, <3>3
  <2> QED BY <1>2, <2>3, <2>7, <2>8 DEF States
<1> QED BY <1>1, <1>2

LEMMA OutcomeAsked ==
    ASSUME NEW x, NEW y, NEW z, Outcome(x, y), Asked(y, z)
    PROVE  Outcome(x, z)
<1>1. z \in ConnType /\ z.s = y.s /\ z.r = y.r /\ z.fd = y.fd /\ z.ktls = y.ktls
      /\ Fits(z) /\ OneMove(z)
  BY DEF Asked, Same
<1>2. Holds(z) = Holds(y)
  BY <1>1 DEF Holds
<1> QED BY <1>1, <1>2 DEF Outcome

(* Doing nothing, and asking about it.                                     *)
LEMMA OutcomeSame ==
    ASSUME NEW x, Fresh(x)
    PROVE  Outcome(x, x)
    BY OnlyPollsMove DEF Fresh, Outcome

(* Bytes have moved: x has the socket s, the ring r, and is not yet asked. *)
Moves(x, s, i, r, y) ==
    /\ s \in Socket /\ r \in CounterPair /\ i \in 0 .. MaxBytes
    /\ Count(r.head, r.tail) <= BufferSize
    /\ y = [x EXCEPT !.s = s, !.inside = i, !.r = r]

LEMMA FreshMoves ==
    ASSUME NEW x, Fresh(x), NEW s, NEW i, NEW r, NEW y, Moves(x, s, i, r, y)
    PROVE  Fresh(y) /\ y.s = s /\ y.r = r /\ y.fd = x.fd /\ y.ktls = x.ktls
<1>1. /\ x \in ConnType /\ Fits(x) /\ OnlyPolls(x) /\ ~x.dead /\ Len(sq) \in Nat
      /\ s \in Socket /\ r \in CounterPair /\ i \in 0 .. MaxBytes
      /\ Count(r.head, r.tail) <= BufferSize
      /\ y = [x EXCEPT !.s = s, !.inside = i, !.r = r]
  BY DEF Fresh, Moves
<1>2. /\ y \in ConnType /\ y.s = s /\ y.r = r /\ y.fd = x.fd /\ y.ktls = x.ktls
      /\ y.todo = x.todo /\ y.dead = x.dead
  BY <1>1 DEF ConnType
<1>3. Fits(y) /\ OnlyPolls(y) /\ Holds(y) <= BufferSize
  BY <1>1, <1>2 DEF Fits, OnlyPolls, Holds
<1> QED BY <1>1, <1>2, <1>3 DEF Fresh

(* The bytes SSL_read has put into the buffer; i are left inside.          *)
Receives(x, n, i, y) ==
    /\ n \in Nat /\ n <= x.s.rx /\ Holds(x) + n <= BufferSize /\ i \in 0 .. MaxBytes
    /\ y = [x EXCEPT !.s.rx = @ - n, !.s.in = @ + n, !.inside = i, !.r.tail = Advance(@, n)]

LEMMA BytesRead ==
    ASSUME NEW x, Fresh(x), NEW n, NEW i, NEW y, Receives(x, n, i, y)
    PROVE  Outcome(x, y) /\ Fresh(y)
<1> /\ n \in Nat /\ n <= x.s.rx /\ Holds(x) + n <= BufferSize /\ i \in 0 .. MaxBytes
    /\ y = [x EXCEPT !.s.rx = @ - n, !.s.in = @ + n, !.inside = i, !.r.tail = Advance(@, n)]
  BY DEF Receives
<1>1. x \in ConnType
  BY DEF Fresh
<1>2. PICK s : s = [x.s EXCEPT !.rx = @ - n, !.in = @ + n]
  OBVIOUS
<1>3. PICK r : r = [x.r EXCEPT !.tail = Advance(@, n)]
  OBVIOUS
<1>4. y = [x EXCEPT !.s = s, !.inside = i, !.r = r]
  BY <1>1, <1>2, <1>3 DEF ConnType
<1>5. /\ s \in Socket /\ s.phase = x.s.phase /\ s.peer = x.s.peer
      /\ s.in = x.s.in + n /\ s.out = x.s.out
  <2>1. x.s \in Socket /\ x.s.rx \in 0 .. MaxBytes /\ x.s.in \in Nat /\ MaxBytes \in Nat
    BY <1>1, HoldsType, SocketCounts
  <2>2. x.s.rx - n \in 0 .. MaxBytes /\ x.s.in + n \in Nat
    BY <2>1
  <2> QED BY <1>2, <2>1, <2>2 DEF Socket
<1>6. r \in CounterPair /\ Count(r.head, r.tail) = Holds(x) + n
  <2>1. PICK c : c = x.r
    OBVIOUS
  <2>2. c \in CounterPair /\ n \in Nat /\ r = [c EXCEPT !.tail = Advance(@, n)]
    BY <1>1, <1>3, <2>1, HoldsType
  <2>3. Count(c.head, c.tail) + n <= BufferSize /\ Holds(x) = Count(c.head, c.tail)
    BY <2>1 DEF Holds
  <2>4. r \in CounterPair /\ Count(r.head, r.tail) = Count(c.head, c.tail) + n
    BY ONLY <2>2, <2>3, RingReceives
  <2> QED BY <2>3, <2>4
<1>7. Moves(x, s, i, r, y)
  BY <1>4, <1>5, <1>6 DEF Moves
<1>8. Fresh(y) /\ y.s = s /\ y.r = r /\ y.fd = x.fd /\ y.ktls = x.ktls
  BY ONLY Fresh(x), <1>7, FreshMoves
<1>9. Holds(y) + x.s.in + y.s.out = Holds(x) + y.s.in + x.s.out
  <2>1. PICK b \in Nat, d \in Nat, h \in Nat : b = x.s.in /\ d = x.s.out /\ h = Holds(x)
    BY <1>1, HoldsType
  <2>2. y.s.in = b + n /\ y.s.out = d /\ Holds(y) = h + n
    BY <1>5, <1>6, <1>8, <2>1 DEF Holds
  <2>3. (h + n) + b + d = h + (b + n) + d
    OBVIOUS
  <2> QED BY <2>1, <2>2, <2>3
<1>10. Outcome(y, y)
  BY <1>8, OutcomeSame
<1> QED BY <1>5, <1>8, <1>9, <1>10 DEF Outcome

(* The bytes SSL_write has taken out of it.                                *)
Delivers(x, n, y) ==
    /\ n \in Nat /\ n <= SendRoom - x.s.tx /\ n <= Holds(x)
    /\ y = [x EXCEPT !.s.tx = @ + n, !.s.out = @ + n, !.r.head = Advance(@, n)]

LEMMA BytesWritten ==
    ASSUME NEW x, Fresh(x), NEW n, NEW y, Delivers(x, n, y)
    PROVE  Outcome(x, y) /\ Fresh(y)
<1> /\ n \in Nat /\ n <= SendRoom - x.s.tx /\ n <= Holds(x)
    /\ y = [x EXCEPT !.s.tx = @ + n, !.s.out = @ + n, !.r.head = Advance(@, n)]
  BY DEF Delivers
<1>1. x \in ConnType /\ Holds(x) <= BufferSize
  BY DEF Fresh
<1>2. PICK s : s = [x.s EXCEPT !.tx = @ + n, !.out = @ + n]
  OBVIOUS
<1>3. PICK r : r = [x.r EXCEPT !.head = Advance(@, n)]
  OBVIOUS
<1>4. PICK i \in 0 .. MaxBytes : i = x.inside /\ y = [x EXCEPT !.s = s, !.inside = i, !.r = r]
  <2>1. PICK i : i = x.inside
    OBVIOUS
  <2>2. i \in 0 .. MaxBytes
    BY ONLY <1>1, <2>1 DEF ConnType
  <2>3. y = [x EXCEPT !.s.tx = @ + n, !.s.out = @ + n, !.r.head = Advance(@, n)]
    OBVIOUS
  <2>4. y = [x EXCEPT !.s = s, !.inside = i, !.r = r]
    BY ONLY <1>1, <1>2, <1>3, <2>1, <2>3 DEF ConnType
  <2> QED BY ONLY <2>1, <2>2, <2>4
<1>5. /\ s \in Socket /\ s.phase = x.s.phase /\ s.peer = x.s.peer
      /\ s.in = x.s.in /\ s.out = x.s.out + n
  <2>1. PICK t \in Socket : t = x.s
    BY <1>1, HoldsType
  <2>2. s = [t EXCEPT !.tx = @ + n, !.out = @ + n] /\ n <= SendRoom - t.tx
    BY <1>2, <2>1
  <2>3. /\ s \in Socket /\ s.phase = t.phase /\ s.peer = t.peer
        /\ s.in = t.in /\ s.out = t.out + n
    BY ONLY n \in Nat, <2>2, SocketSends
  <2> QED BY <2>1, <2>3
<1>6. r \in CounterPair /\ Count(r.head, r.tail) = Holds(x) - n
  <2>1. PICK c : c = x.r
    OBVIOUS
  <2>2. c \in CounterPair /\ n \in Nat /\ r = [c EXCEPT !.head = Advance(@, n)]
    BY <1>1, <1>3, <2>1, HoldsType
  <2>3. n <= Count(c.head, c.tail) /\ Holds(x) = Count(c.head, c.tail)
    BY <2>1 DEF Holds
  <2>4. r \in CounterPair /\ Count(r.head, r.tail) = Count(c.head, c.tail) - n
    BY ONLY <2>2, <2>3, RingSends
  <2> QED BY <2>3, <2>4
<1>7. Moves(x, s, i, r, y)
  <2>1. Holds(x) - n <= BufferSize
    <3>1. Holds(x) \in Nat /\ BufferSize \in Nat
      BY <1>1, HoldsType
    <3> QED BY <1>1, <3>1
  <2> QED BY <1>4, <1>5, <1>6, <2>1 DEF Moves
<1>8. Fresh(y) /\ y.s = s /\ y.r = r /\ y.fd = x.fd /\ y.ktls = x.ktls
  BY ONLY Fresh(x), <1>7, FreshMoves
<1>9. Holds(y) + x.s.in + y.s.out = Holds(x) + y.s.in + x.s.out
  <2>1. PICK b \in Nat, d \in Nat, h \in Nat : b = x.s.in /\ d = x.s.out /\ h = Holds(x)
    BY <1>1, HoldsType
  <2>2. y.s.in = b /\ y.s.out = d + n /\ Holds(y) = h - n
    BY <1>5, <1>6, <1>8, <2>1 DEF Holds
  <2>3. (h - n) + b + (d + n) = h + b + d
    OBVIOUS
  <2> QED BY <2>1, <2>2, <2>3
<1>10. Outcome(y, y)
  BY <1>8, OutcomeSame
<1> QED BY <1>5, <1>8, <1>9, <1>10 DEF Outcome

(* What could not be sent is taken for sent.                               *)
LEMMA BytesDropped ==
    ASSUME NEW x, Fresh(x), x.s.peer = "rst", NEW y, y = [x EXCEPT !.r.head = x.r.tail]
    PROVE  Outcome(x, y) /\ Fresh(y)
<1>1. x \in ConnType
  BY DEF Fresh
<1>2. PICK h \in Counter, t \in Counter : /\ x.r = [head |-> h, tail |-> t]
                                          /\ x.r.head = h /\ x.r.tail = t
  BY <1>1, HoldsType DEF CounterPair
<1>3. PICK r : r = [head |-> t, tail |-> t]
  OBVIOUS
<1>4. r \in CounterPair /\ r.head = t /\ r.tail = t /\ Count(r.head, r.tail) = 0
  <2>1. IsEmpty(t, t)
    BY DEF IsEmpty
  <2> QED BY <1>3, <2>1, EmptyCount DEF CounterPair
<1>9. PICK s \in Socket, i \in 0 .. MaxBytes : s = x.s /\ i = x.inside
  BY <1>1 DEF ConnType
<1>5. y = [x EXCEPT !.s = s, !.inside = i, !.r = r]
  <2>1. y = [x EXCEPT !.r = r]
    BY <1>1, <1>2, <1>3 DEF ConnType
  <2> QED BY <1>1, <1>9, <2>1 DEF ConnType
<1>6. Moves(x, s, i, r, y)
  <2>1. 0 <= BufferSize
    BY CounterFacts
  <2> QED BY <1>4, <1>5, <2>1 DEF Moves
<1>7. Fresh(y) /\ y.s = s /\ y.r = r /\ y.fd = x.fd /\ y.ktls = x.ktls
  BY ONLY Fresh(x), <1>6, FreshMoves
<1>8. Outcome(y, y)
  BY <1>7, OutcomeSame
<1> QED BY <1>7, <1>8, <1>9 DEF Outcome
-----------------------------------------------------------------------------
(* What the library gives is there, and there is room for it.              *)
LEMMA ReadsGive ==
    ASSUME NEW s \in Socket, NEW free \in Nat, NEW ktls \in BOOLEAN,
           NEW o \in ReadsTls(s, free, ktls)
    PROVE  o.n \in Nat /\ o.n <= s.rx /\ o.n <= free /\ o.inside \in 0 .. MaxBytes
<1>1. PICK rx \in 0 .. MaxBytes : rx = s.rx /\ MaxBytes \in Nat
  BY SocketCounts
<1>2. CASE free <= rx
  <2>1. \A i \in 0 .. rx - free : i \in 0 .. MaxBytes
    BY <1>1, <1>2
  <2>2. 0 \in 0 .. MaxBytes
    BY <1>1
  <2>3. PICK i \in 0 .. MaxBytes : o = [n |-> free, inside |-> i, end |-> "full"]
    BY <1>1, <1>2, <2>1, <2>2 DEF ReadsTls
  <2>4. o.n = free /\ o.inside = i
    BY <2>3
  <2> QED BY <1>1, <1>2, <2>4
<1>3. CASE ~(free <= rx)
  <2>1. PICK e : o = [n |-> rx, inside |-> 0, end |-> e]
    BY <1>1, <1>3 DEF ReadsTls
  <2>2. o.n = rx /\ o.inside = 0
    BY <2>1
  <2>3. rx \in Nat /\ rx <= free /\ 0 \in 0 .. MaxBytes
    BY <1>1, <1>3
  <2> QED BY <1>1, <2>2, <2>3
<1> QED BY <1>2, <1>3

LEMMA WritesOneBounds ==
    ASSUME NEW s \in Socket, NEW size \in Nat, NEW ktls \in BOOLEAN
    PROVE  /\ WritesOne(s, size, ktls) \in Nat /\ WritesOne(s, size, ktls) <= size
           /\ WritesOne(s, size, ktls) <= SendRoom - s.tx
<1>1. PICK room \in Nat : room = SendRoom - s.tx
  <2>1. s.tx \in 0 .. SendRoom /\ SendRoom \in Nat
    BY SocketCounts
  <2> QED BY <2>1
<1>2. WritesOne(s, size, ktls) = IF size <= room THEN size ELSE IF ktls THEN room ELSE 0
  BY <1>1 DEF WritesOne
<1>3. PICK w : w = IF size <= room THEN size ELSE IF ktls THEN room ELSE 0
  OBVIOUS
<1>4. w \in Nat /\ w <= size /\ w <= room
  BY <1>3
<1> QED BY <1>1, <1>2, <1>3, <1>4

(* It takes what there is to send, and room for.                           *)
LEMMA WritesTake ==
    ASSUME NEW s \in Socket, NEW first \in Nat, NEW rest \in Nat, NEW ktls \in BOOLEAN,
           NEW n, n = Writes(s, first, rest, ktls)
    PROVE  n \in Nat /\ n <= SendRoom - s.tx /\ n <= first + rest
<1>1. PICK one \in Nat : /\ one = WritesOne(s, first, ktls)
                         /\ one <= first /\ one <= SendRoom - s.tx
  BY WritesOneBounds
<1>2. CASE one < first
  <2>1. n = one
    BY <1>1, <1>2 DEF Writes
  <2> QED BY <1>1, <1>2, <2>1
<1>3. CASE ~(one < first)
  <2>1. PICK tx \in 0 .. SendRoom : tx = s.tx + one
    <3>1. s.tx \in 0 .. SendRoom /\ SendRoom \in Nat
      BY SocketCounts
    <3> QED BY <1>1, <3>1
  <2>2. PICK t : t = [s EXCEPT !.tx = tx]
    OBVIOUS
  <2>3. t \in Socket /\ t.tx = tx
    BY <2>1, <2>2 DEF Socket
  <2>4. n = one + WritesOne(t, rest, ktls)
    BY <1>1, <1>3, <2>1, <2>2 DEF Writes
  <2>5. PICK two \in Nat : two = WritesOne(t, rest, ktls) /\ two <= rest /\ two <= SendRoom - tx
    BY <2>3, WritesOneBounds
  <2>6. s.tx \in Int /\ SendRoom \in Int
    BY SocketCounts
  <2>7. n = one + two
    BY <2>4, <2>5
  <2> QED BY <1>1, <2>1, <2>5, <2>6, <2>7
<1> QED BY <1>2, <1>3

(* A callback is asked about what has moved.                               *)
LEMMA AskOutcome ==
    ASSUME NEW x, NEW z, Outcome(x, z), Fresh(z), NEW answers, answers \subseteq States,
           NEW y \in Ask(z, answers)
    PROVE  Outcome(x, y)
<1>1. PICK a \in answers : y = ApplyState(z, a)
  BY DEF Ask
<1>2. a \in States
  OBVIOUS
<1>3. Asked(z, y)
  BY <1>1, <1>2, ApplyOutcome
<1> QED BY <1>3, OutcomeAsked

LEMMA ReadOutcome ==
    ASSUME NEW x, Fresh(x), NEW y \in HandleRead(x)
    PROVE  Outcome(x, y)
<1>1. CASE x.state # "read" \/ x.ktls
  BY <1>1, OutcomeSame DEF HandleRead
<1>2. CASE ~(x.state # "read" \/ x.ktls)
  <2>1. PICK free, ktls : free = BufferSize - Count(x.r.head, x.r.tail) /\ ktls = FALSE
    OBVIOUS
  <2>2. PICK o \in ReadsTls(x.s, free, ktls) :
          y \in LET z == [x EXCEPT !.s.rx = @ - o.n, !.s.in = @ + o.n, !.inside = o.inside,
                                   !.r.tail = Advance(@, o.n)]
                IN  IF o.end = "error" THEN {[z EXCEPT !.dead = TRUE]}
                    ELSE IF o.n > 0 THEN Ask(z, OnRead)
                    ELSE IF o.end = "want" THEN {Poll(z, "poll_in")} ELSE {z}
    BY <1>2, <2>1 DEF HandleRead
  <2>3. PICK n, i : n = o.n /\ i = o.inside
    OBVIOUS
  <2>0. PICK z : z = [x EXCEPT !.s.rx = @ - n, !.s.in = @ + n, !.inside = i,
                               !.r.tail = Advance(@, n)]
    OBVIOUS
  <2>4. y = [z EXCEPT !.dead = TRUE] \/ y = z \/ y \in Ask(z, OnRead) \/ y = Poll(z, "poll_in")
    BY <2>2, <2>3, <2>0
  <2>5. x \in ConnType /\ Holds(x) <= BufferSize
    BY DEF Fresh
  <2>6. x.s \in Socket /\ Holds(x) \in Nat /\ BufferSize \in Nat /\ ktls \in BOOLEAN
    BY <2>1, <2>5, HoldsType
  <2>7. free \in Nat /\ free = BufferSize - Holds(x)
    BY <2>1, <2>5, <2>6 DEF Holds
  <2>8. n \in Nat /\ n <= x.s.rx /\ n <= free /\ i \in 0 .. MaxBytes
    BY <2>3, <2>6, <2>7, ReadsGive
  <2>9. Holds(x) + n <= BufferSize
    BY <2>6, <2>7, <2>8
  <2>10. Receives(x, n, i, z)
    BY <2>8, <2>9, <2>0 DEF Receives
  <2>11. Outcome(x, z) /\ Fresh(z)
    BY <2>10, BytesRead
  <2>12. CASE y = [z EXCEPT !.dead = TRUE]
    <3>1. PICK a \in States : a = "die"
      BY DEF States
    <3>2. y = ApplyState(z, a)
      BY <2>12, <3>1 DEF ApplyState
    <3> QED BY <2>11, <3>2, ApplyOutcome, OutcomeAsked
  <2>13. CASE y \in Ask(z, OnRead)
    BY <2>11, <2>13, AskOutcome, LoopAssumption
  <2>14. CASE y = Poll(z, "poll_in")
    BY <2>11, <2>14, PollAsked, OutcomeAsked
  <2> QED BY <2>4, <2>11, <2>12, <2>13, <2>14
<1> QED BY <1>1, <1>2

LEMMA WriteOutcome ==
    ASSUME NEW x, Fresh(x), NEW y \in HandleWrite(x)
    PROVE  Outcome(x, y)
<1>1. CASE x.state # "write"
  BY <1>1, OutcomeSame DEF HandleWrite
<1>2. CASE x.state = "write"
  <2>0. PICK k : k = FALSE
    OBVIOUS
  <2>1. PICK used, first, rest, n :
          /\ used = Count(x.r.head, x.r.tail) /\ first = Chunk(x.r.head, used)
          /\ rest = used - first
          /\ n = Writes(x.s, first, rest, k)
    OBVIOUS
  <2>2. PICK z, w : /\ z = [x EXCEPT !.s.tx = @ + n, !.s.out = @ + n, !.r.head = Advance(@, n)]
                    /\ w = [x EXCEPT !.r.head = x.r.tail]
    OBVIOUS
  <2>3. y \in IF used > 0 /\ x.s.peer = "rst" THEN Ask(w, OnErr)
              ELSE IF n = used THEN Ask(z, OnWrite) ELSE {Poll(z, "poll_out")}
    BY <1>2, <2>0, <2>1, <2>2 DEF HandleWrite
  <2>4. x \in ConnType /\ Holds(x) <= BufferSize /\ used = Holds(x)
    BY <2>1 DEF Fresh, Holds
  <2>5. CASE used > 0 /\ x.s.peer = "rst"
    <3>1. Outcome(x, w) /\ Fresh(w)
      BY <2>2, <2>5, BytesDropped
    <3>2. y \in Ask(w, OnErr)
      BY <2>3, <2>5
    <3> QED BY <3>1, <3>2, AskOutcome, LoopAssumption
  <2>6. CASE ~(used > 0 /\ x.s.peer = "rst")
    <3>1. /\ x.s \in Socket /\ Holds(x) \in Nat /\ BufferSize \in Nat /\ k \in BOOLEAN
          /\ x.r.head \in Counter
      BY <2>0, <2>4, HoldsType
    <3>2. used \in 0 .. BufferSize
      BY <2>4, <3>1
    <3>3. first \in 0 .. used
      BY <2>1, <3>1, <3>2, ChunkBounds
    <3>4. first \in Nat /\ rest \in Nat /\ first + rest = used
      BY <2>1, <3>2, <3>3
    <3>5. n \in Nat /\ n <= SendRoom - x.s.tx /\ n <= first + rest
      BY <2>1, <3>1, <3>4, WritesTake
    <3>6. n <= Holds(x)
      BY <2>4, <3>4, <3>5
    <3>7. Delivers(x, n, z)
      BY <2>2, <3>5, <3>6 DEF Delivers
    <3>8. Outcome(x, z) /\ Fresh(z)
      BY <3>7, BytesWritten
    <3>9. CASE y \in Ask(z, OnWrite)
      BY <3>8, <3>9, AskOutcome, LoopAssumption
    <3>10. CASE y = Poll(z, "poll_out")
      BY <3>8, <3>10, PollAsked, OutcomeAsked
    <3> QED BY <2>3, <2>6, <3>9, <3>10
  <2> QED BY <2>5, <2>6
<1> QED BY <1>1, <1>2

(* on_connect, then what came with the handshake: a connection that the    *)
(* kernel serves is not read, another prepares only polls.                 *)
LEMMA GreetOutcome ==
    ASSUME NEW x, Fresh(x), NEW y \in Greet(x)
    PROVE  Outcome(x, y)
<1>1. PICK a \in OnConnect : y \in IF a = "die" THEN {ApplyState(x, a)}
                                   ELSE HandleRead(ApplyState(x, a))
  BY DEF Greet
<1>2. PICK z : z = ApplyState(x, a)
  OBVIOUS
<1>3. a \in States /\ x \in ConnType
  BY LoopAssumption DEF Fresh
<1>4. Asked(x, z) /\ (a # "die" => ~z.dead) /\ (~x.ktls => OnlyPolls(z))
  BY <1>2, <1>3, ApplyOutcome
<1>5. Outcome(x, z)
  BY <1>4, OutcomeSame, OutcomeAsked
<1>6. CASE a = "die" \/ z.ktls
  <2>1. y = z
    BY <1>1, <1>2, <1>6 DEF HandleRead
  <2> QED BY <1>5, <2>1
<1>7. CASE ~(a = "die" \/ z.ktls)
  <2>1. z.s = x.s /\ Holds(z) = Holds(x) /\ z.ktls = x.ktls /\ z.fd = x.fd
    BY <1>4 DEF Asked, Same, Holds
  <2>2. Fresh(z)
    BY <1>4, <1>7, <2>1 DEF Asked, Fresh
  <2>3. y \in HandleRead(z)
    BY <1>1, <1>2, <1>7
  <2>4. Outcome(z, y)
    BY <2>2, <2>3, ReadOutcome
  <2> QED BY <2>1, <2>4 DEF Outcome
<1> QED BY <1>6, <1>7

(* A receive or a send has completed: the socket was accounted for when it *)
(* did, the buffer is now.                                                 *)
Completed(x, holds, y) ==
    \E z : /\ Fresh(z) /\ z.s = x.s /\ z.fd = x.fd /\ Holds(z) = holds
           /\ Outcome(z, y)

Idles(x, r, y) ==
    /\ r \in CounterPair /\ Count(r.head, r.tail) <= BufferSize
    /\ y = [x EXCEPT !.op = "none", !.r = r]

LEMMA FreshIdle ==
    ASSUME NEW x, Fresh(x), NEW r, NEW y, Idles(x, r, y)
    PROVE  Fresh(y) /\ y.s = x.s /\ y.r = r /\ y.fd = x.fd
<1>1. /\ x \in ConnType /\ Fits(x) /\ OnlyPolls(x) /\ ~x.dead /\ Len(sq) \in Nat
      /\ r \in CounterPair /\ Count(r.head, r.tail) <= BufferSize
      /\ y = [x EXCEPT !.op = "none", !.r = r]
  BY DEF Fresh, Idles
<1>2. /\ y \in ConnType /\ y.s = x.s /\ y.r = r /\ y.fd = x.fd
      /\ y.todo = x.todo /\ y.dead = x.dead
  BY <1>1 DEF ConnType
<1>3. Fits(y) /\ OnlyPolls(y) /\ Holds(y) <= BufferSize
  BY <1>1, <1>2 DEF Fits, OnlyPolls, Holds
<1> QED BY <1>1, <1>2, <1>3 DEF Fresh

LEMMA RecvOutcome ==
    ASSUME NEW x, Fresh(x), NEW n \in Nat, n <= Room("recv", Holds(x)), NEW y \in Received(x, n)
    PROVE  Completed(x, Holds(x) + n, y)
<1>1. x \in ConnType /\ Holds(x) <= BufferSize /\ n <= BufferSize - Holds(x)
  BY DEF Fresh, Room
<1>2. PICK c : c = x.r
  OBVIOUS
<1>3. PICK r : r = [c EXCEPT !.tail = Advance(@, n)]
  OBVIOUS
<1>4. c \in CounterPair /\ Holds(x) = Count(c.head, c.tail)
  BY <1>1, <1>2, HoldsType DEF Holds
<1>5. Count(c.head, c.tail) + n <= BufferSize
  <2>1. Holds(x) \in Nat /\ BufferSize \in Nat
    BY <1>1, HoldsType
  <2> QED BY <1>1, <1>4, <2>1
<1>6. r \in CounterPair /\ Count(r.head, r.tail) = Count(c.head, c.tail) + n
  BY ONLY n \in Nat, <1>3, <1>4, <1>5, RingReceives
<1>7. PICK z : z = [x EXCEPT !.op = "none", !.r = r]
  OBVIOUS
<1>8. Fresh(z) /\ z.s = x.s /\ z.r = r /\ z.fd = x.fd
  <2>1. Count(r.head, r.tail) <= BufferSize
    BY <1>5, <1>6
  <2>2. Idles(x, r, z)
    BY <1>6, <1>7, <2>1 DEF Idles
  <2> QED BY ONLY Fresh(x), <2>2, FreshIdle
<1>9. y \in Ask(z, OnRead)
  <2>1. z = [x EXCEPT !.op = "none", !.r.tail = Advance(@, n)]
    BY <1>1, <1>2, <1>3, <1>7 DEF ConnType
  <2> QED BY <2>1 DEF Received
<1>10. Holds(z) = Holds(x) + n
  BY <1>4, <1>6, <1>8 DEF Holds
<1>11. Outcome(z, y)
  BY <1>8, <1>9, OutcomeSame, AskOutcome, LoopAssumption
<1> QED BY <1>8, <1>10, <1>11 DEF Completed

LEMMA SendOutcome ==
    ASSUME NEW x, Fresh(x), NEW n \in Nat, n <= Room("send", Holds(x)), NEW y \in SentSome(x, n)
    PROVE  Completed(x, Holds(x) - n, y)
<1>1. x \in ConnType /\ Holds(x) <= BufferSize /\ n <= Holds(x)
  BY DEF Fresh, Room
<1>2. PICK c : c = x.r
  OBVIOUS
<1>3. PICK r : r = [c EXCEPT !.head = Advance(@, n)]
  OBVIOUS
<1>4. c \in CounterPair /\ Holds(x) = Count(c.head, c.tail)
  BY <1>1, <1>2, HoldsType DEF Holds
<1>5. n <= Count(c.head, c.tail)
  BY <1>1, <1>4
<1>6. r \in CounterPair /\ Count(r.head, r.tail) = Count(c.head, c.tail) - n
  BY ONLY n \in Nat, <1>3, <1>4, <1>5, RingSends
<1>7. PICK z : z = [x EXCEPT !.op = "none", !.r = r]
  OBVIOUS
<1>8. Count(r.head, r.tail) <= BufferSize
  <2>1. Holds(x) \in Nat /\ BufferSize \in Nat
    BY <1>1, HoldsType
  <2> QED BY <1>1, <1>4, <1>6, <2>1
<1>9. Fresh(z) /\ z.s = x.s /\ z.r = r /\ z.fd = x.fd
  <2>1. Idles(x, r, z)
    BY <1>6, <1>7, <1>8 DEF Idles
  <2> QED BY ONLY Fresh(x), <2>1, FreshIdle
<1>10. y \in IF IsEmpty(z.r.head, z.r.tail) THEN Ask(z, OnWrite) ELSE {SendRest(z)}
  <2>1. z = [x EXCEPT !.op = "none", !.r.head = Advance(@, n)]
    BY <1>1, <1>2, <1>3, <1>7 DEF ConnType
  <2> QED BY <2>1 DEF SentSome
<1>11. Holds(z) = Holds(x) - n
  BY <1>4, <1>6, <1>9 DEF Holds
<1>12. Outcome(z, y)
  <2>1. CASE y \in Ask(z, OnWrite)
    BY <1>9, <2>1, OutcomeSame, AskOutcome, LoopAssumption
  <2>2. CASE y = SendRest(z)
    <3>0. PICK kind \in IO : kind = "send"
      BY DEF IO
    <3>1. PICK used : used = UsedRegion(z.r.head, z.r.tail)
      OBVIOUS
    <3>2. used \in Nat /\ used <= Room(kind, Holds(z))
      BY <1>9, <3>0, <3>1, RegionsFit
    <3>3. y = Move(z, kind, used)
      BY <2>2, <3>0, <3>1 DEF SendRest
    <3>4. Asked(z, y)
      BY <1>9, <3>2, <3>3, MoveAsked
    <3> QED BY <1>9, <3>4, OutcomeSame, OutcomeAsked
  <2> QED BY <1>10, <2>1, <2>2
<1> QED BY <1>9, <1>11, <1>12 DEF Completed
-----------------------------------------------------------------------------
(* The types, in three parts: the connections, the ring, and the rest.     *)
TableOK ==
    /\ sock \in [Clients -> Socket] /\ inside \in [Clients -> 0 .. MaxBytes]
    /\ fdOwner \in [Fds -> Clients \cup {NoClient}]
    /\ ring \in Seq(CounterPair) /\ m_pl \in Seq(1 .. Len(ring))
    /\ m_connections \in [Fds -> [state  : States \ {"die"},
                                  buffer : 1 .. Len(ring) \cup {NoBuffer},
                                  op     : Kinds \cup {"none", "handshake_poll"}]]
    /\ ssl \subseteq Fds /\ m_pending_handshakes \subseteq Fds

Flying == [kind : Kinds, fd : Fds, size : Nat, of : Clients]
Completion == [kind : Kinds, fd : Fds, res : Int]
QueuesOK ==
    /\ sq \in Seq(Operation) /\ Len(sq) <= RingEntries
    /\ IsABag(flying) /\ DOMAIN flying \subseteq Flying
    /\ cq \in Seq(Completion)

ThreadOK ==
    /\ backlog \in Seq(Clients) /\ hs \in [Clients -> Phase]
    /\ held \subseteq {"ctx", "listen", "epfd"} /\ m_running \in BOOLEAN
    /\ pc \in {"start", "tick", "accept", "batch", "stopped", "threw", "destroyed", "crashed"}

LEMMA TypeParts ==
    /\ TypeOK <=> TableOK /\ QueuesOK /\ ThreadOK
    /\ TypeOK' <=> TableOK' /\ QueuesOK' /\ ThreadOK'
  BY DEF TypeOK, TableOK, QueuesOK, ThreadOK, TlsTypeOK, SocketsTypeOK, PoolTypeOK, CounterPair,
         Buffers, Operation, Flying, Completion

LEMMA Types ==
    ASSUME TypeOK
    PROVE  /\ PoolTypeOK /\ Buffers = 1 .. Len(ring) /\ Len(ring) \in Nat /\ Len(m_pl) \in Nat
           /\ ring \in Seq(CounterPair) /\ m_pl \in Seq(1 .. Len(ring))
           /\ sock \in [Clients -> Socket] /\ backlog \in Seq(Clients)
           /\ fdOwner \in [Fds -> Clients \cup {NoClient}]
           /\ \A f \in Fds : BufferOf(f) \in 0 .. Len(ring)
           /\ \A b \in 1 .. Len(ring) : ring[b] \in CounterPair
<1>1. TableOK /\ ThreadOK /\ PoolTypeOK
  BY TypeParts DEF TypeOK
<1>2. Len(ring) \in Nat
  BY <1>1 DEF TableOK
<1>3. \A b \in 1 .. Len(ring) \cup {0} : b \in 0 .. Len(ring)
  BY <1>2
<1>4. \A f \in Fds : BufferOf(f) \in 0 .. Len(ring)
  BY <1>1, <1>3 DEF TableOK, BufferOf, NoBuffer
<1>5. \A b \in 1 .. Len(ring) : ring[b] \in CounterPair
  BY <1>1, ElementOfSeq DEF TableOK
<1> QED BY <1>1, <1>2, <1>4, <1>5, LenProperties DEF TableOK, ThreadOK, Buffers

(* Descriptor f may have the buffer b of that pool and those buffers: of its *)
(* own, or just allocated; NoBuffer if it has none.                        *)
Table(f, b) == [BufferTable EXCEPT ![f] = b]
Ready(f, b, pool, buffers) ==
    /\ buffers \in Seq(CounterPair) /\ pool \in Seq(1 .. Len(buffers))
    /\ Len(ring) <= Len(buffers) /\ b \in 0 .. Len(buffers)
    /\ Conserved(pool, Len(pool), Len(buffers), Fds, Table(f, b))
    /\ PoolContents(pool, buffers)
    /\ \A d \in 1 .. Len(ring) : d # b => buffers[d] = ring[d]

LEMMA ReadyOfOwn ==
    ASSUME TypeOK, PoolInv, PoolContents(m_pl, ring), NEW f \in Fds
    PROVE  Ready(f, BufferOf(f), m_pl, ring)
<1>1. Table(f, BufferOf(f)) = BufferTable
  BY DEF Table, BufferTable
<1>2. Conserved(m_pl, Len(m_pl), Len(ring), Fds, Table(f, BufferOf(f)))
  BY <1>1 DEF PoolInv
<1>3. Len(ring) <= Len(ring)
  BY Types
<1> QED BY <1>2, <1>3, Types DEF Ready

LEMMA ReadyOfNew ==
    ASSUME TypeOK, PoolInv, PoolContents(m_pl, ring), NEW f \in Fds, BufferOf(f) = NoBuffer
    PROVE  Ready(f, Allocated, PoolWithout, RingWithNew) /\ RingWithNew[Allocated] = EmptyRing
<1>1. PICK t : t = Table(f, Allocated)
  OBVIOUS
<1>2. /\ PoolTypeOK /\ Conserved(m_pl, Len(m_pl), Len(ring), Fds, BufferTable)
      /\ BufferTable[f] = 0
  BY Types DEF PoolInv, BufferTable, NoBuffer
<1>3. t[f] = Allocated /\ \A g \in Fds : g # f => t[g] = BufferTable[g]
  BY <1>1 DEF Table, BufferTable
<1>4. PICK p, r : p = PoolWithout /\ r = RingWithNew
  OBVIOUS
<1>5. /\ Len(r) \in Nat /\ Len(ring) <= Len(r)
      /\ r \in Seq(CounterPair) /\ Allocated \in 1 .. Len(r)
      /\ \A b \in 1 .. Len(ring) : r[b] = ring[b]
      /\ p \in Seq(1 .. Len(r)) /\ Conserved(p, Len(p), Len(r), Fds, t)
  BY <1>2, <1>3, <1>4, AllocatedBuffer
<1>6. PoolContents(p, r) /\ r[Allocated] = EmptyRing
  BY <1>2, <1>4, ContentsAllocated
<1>7. Allocated \in 0 .. Len(r)
  BY <1>5
<1> QED BY <1>1, <1>4, <1>5, <1>6, <1>7 DEF Ready

(* The other connections have other buffers.                               *)
LEMMA OtherBuffers ==
    ASSUME TypeOK, NEW f \in Fds, NEW b, NEW pool, NEW buffers, Ready(f, b, pool, buffers),
           NEW g \in Fds, g # f, BufferOf(g) # NoBuffer
    PROVE  /\ BufferOf(g) \in 1 .. Len(ring) /\ BufferOf(g) \in 1 .. Len(buffers)
           /\ BufferOf(g) # b /\ buffers[BufferOf(g)] = ring[BufferOf(g)]
<1>1. PICK t : t = Table(f, b)
  OBVIOUS
<1>2. t[f] = b /\ t[g] = BufferOf(g) /\ t[g] # 0
  BY <1>1 DEF Table, BufferTable, NoBuffer
<1>3. \A d, e \in Fds : (d # e /\ t[d] # 0) => t[d] # t[e]
  BY <1>1 DEF Ready, Conserved
<1>4. t[g] # t[f]
  BY <1>2, <1>3
<1>5. /\ BufferOf(g) \in 0 .. Len(ring) /\ Len(ring) \in Nat /\ Len(buffers) \in Nat
      /\ Len(ring) <= Len(buffers)
  BY Types, LenProperties DEF Ready
<1>6. BufferOf(g) \in 1 .. Len(ring) /\ BufferOf(g) \in 1 .. Len(buffers)
  BY <1>5 DEF NoBuffer
<1> QED BY <1>2, <1>4, <1>6 DEF Ready

(* What a handler leaves: descriptor f of client c closed, or open with a  *)
(* buffer that holds so many bytes and waiting for op; the socket s; and   *)
(* the rest alone.                                                         *)
Left(f, c, s, alive, holds, op) ==
    /\ sock'[c] = s /\ \A d \in Clients : d # c => sock'[d] = sock[d]
    /\ fdOwner' = [fdOwner EXCEPT ![f] = IF alive THEN c ELSE NoClient]
    /\ ssl' = IF alive THEN ssl \cup {f} ELSE ssl \ {f}
    /\ m_pending_handshakes' = m_pending_handshakes \ {f}
    /\ BufferOf(f)' # NoBuffer <=> alive
    /\ IF alive THEN Held(BufferOf(f))' = holds /\ m_connections'[f].op = op
       ELSE m_connections'[f].op \notin IO \cup {"poll_out"}
    /\ \A g \in Fds : g # f =>
        /\ m_connections'[g] = m_connections[g]
        /\ BufferOf(g) # NoBuffer => Held(BufferOf(g))' = Held(BufferOf(g))

(* The socket was s before it was closed, if it was.                       *)
Leaves(f, c, s, alive, holds, op) ==
    \E t \in Socket : /\ t.phase = IF alive THEN s.phase ELSE "closed"
                      /\ t.in = s.in /\ t.out = s.out /\ t.peer = s.peer
                      /\ Left(f, c, t, alive, holds, op)

TableInv == TableOK /\ PoolInv /\ PoolContents(m_pl, ring)

(* remove_connection and close.                                            *)
Removes(f, c, s, b, pool, buffers) ==
    /\ RemoveConnection(f, s, b, pool, buffers)
    /\ sock' = [sock EXCEPT ![c] = [s EXCEPT !.phase = "closed"]]
    /\ fdOwner' = [fdOwner EXCEPT ![f] = NoClient]

LEMMA RemoveLeaves ==
    ASSUME TypeOK, NEW f \in Fds, NEW c \in Clients, NEW b, NEW pool, NEW buffers,
           Ready(f, b, pool, buffers), NEW s \in Socket, Removes(f, c, s, b, pool, buffers),
           inside' \in [Clients -> 0 .. MaxBytes], NEW holds, NEW op
    PROVE  TableInv' /\ Leaves(f, c, s, FALSE, holds, op)
<1>0. PICK t : t = [s EXCEPT !.phase = "closed"]
  OBVIOUS
<1>1. /\ buffers \in Seq(CounterPair) /\ pool \in Seq(1 .. Len(buffers))
      /\ Len(ring) <= Len(buffers) /\ b \in 0 .. Len(buffers) /\ PoolContents(pool, buffers)
      /\ Conserved(pool, Len(pool), Len(buffers), Fds, Table(f, b))
  BY DEF Ready
<1>2. /\ sock' = [sock EXCEPT ![c] = t]
      /\ fdOwner' = [fdOwner EXCEPT ![f] = NoClient]
      /\ ssl' = ssl \ {f} /\ m_pending_handshakes' = m_pending_handshakes \ {f}
      /\ m_pl' = IF b = 0 THEN pool ELSE Append(pool, b)
      /\ ring' = IF b = 0 THEN buffers ELSE [buffers EXCEPT ![b] = EmptyRing]
      /\ m_connections' = [m_connections EXCEPT ![f] = Forgotten(f)]
  BY <1>0 DEF Removes, RemoveConnection, NoBuffer
<1>3. t \in Socket /\ t.phase = "closed" /\ t.in = s.in /\ t.out = s.out /\ t.peer = s.peer
  BY <1>0 DEF Socket
<1>4. TableOK /\ Len(ring) \in Nat /\ Len(buffers) \in Nat
  BY <1>1, TypeParts, Types, LenProperties
<1>5. /\ ring' \in Seq(CounterPair) /\ Len(ring') = Len(buffers)
      /\ \A d \in 1 .. Len(buffers) : d # b => ring'[d] = buffers[d]
  <2>1. CASE b = 0
    BY <1>1, <1>2, <2>1
  <2>2. CASE b # 0
    <3>1. b \in 1 .. Len(buffers)
      BY <1>1, <1>4, <2>2
    <3>2. ring' = [buffers EXCEPT ![b] = EmptyRing]
      BY <1>2, <2>2
    <3> QED BY <1>1, <3>1, <3>2, RingEmptied
  <2> QED BY <2>1, <2>2
<1>6. /\ m_connections' \in [Fds -> [state  : States \ {"die"},
                                     buffer : 1 .. Len(ring') \cup {NoBuffer},
                                     op     : Kinds \cup {"none", "handshake_poll"}]]
      /\ m_connections'[f].buffer = NoBuffer /\ m_connections'[f].op = "none"
      /\ \A g \in Fds : g # f => m_connections'[g] = m_connections[g]
  <2>1. \A d \in 1 .. Len(ring) : d \in 1 .. Len(ring')
    BY <1>1, <1>4, <1>5
  <2>2. m_connections \in [Fds -> [state  : States \ {"die"},
                                   buffer : 1 .. Len(ring') \cup {NoBuffer},
                                   op     : Kinds \cup {"none", "handshake_poll"}]]
    BY <1>4, <2>1 DEF TableOK
  <2>3. PICK m : m = [m_connections[f] EXCEPT !.op = "none", !.buffer = NoBuffer]
    OBVIOUS
  <2>4. /\ m \in [state : States \ {"die"}, buffer : 1 .. Len(ring') \cup {NoBuffer},
                  op : Kinds \cup {"none", "handshake_poll"}]
        /\ m.buffer = NoBuffer /\ m.op = "none"
    BY <2>2, <2>3
  <2>5. m_connections' = [m_connections EXCEPT ![f] = m]
    BY <1>2, <2>3 DEF Forgotten
  <2> QED BY <2>2, <2>4, <2>5
<1>7. /\ BufferOf(f)' = NoBuffer /\ \A g \in Fds : g # f => BufferOf(g)' = BufferOf(g)
      /\ BufferTable'[f] = 0 /\ \A g \in Fds : g # f => BufferTable'[g] = Table(f, b)[g]
      /\ Table(f, b)[f] = b
  BY <1>6 DEF BufferOf, BufferTable, Table, NoBuffer
<1>8. /\ m_pl' \in Seq(1 .. Len(ring')) /\ Conserved(m_pl', Len(m_pl'), Len(ring'), Fds, BufferTable')
      /\ PoolContents(m_pl', ring')
  <2>1. CASE b = 0
    <3>1. m_pl' = pool /\ ring' = buffers
      BY <1>2, <2>1
    <3>2. BufferTable' = Table(f, b)
      BY <1>7, <2>1 DEF BufferTable, Table
    <3> QED BY <1>1, <3>1, <3>2
  <2>2. CASE b # 0
    <3>1. b \in 1 .. Len(buffers)
      BY <1>1, <1>4, <2>2
    <3>2. m_pl' = Append(pool, b) /\ ring' = [buffers EXCEPT ![b] = EmptyRing]
      BY <1>2, <2>2
    <3>3. /\ m_pl' \in Seq(1 .. Len(buffers)) /\ Len(m_pl') = Len(pool) + 1
          /\ \A i \in 1 .. Len(pool) : m_pl'[i] = pool[i]
          /\ m_pl'[Len(pool) + 1] = b
      BY <1>1, <3>1, <3>2, AppendProperties
    <3>4. PICK p, k, n, u, v : /\ p = m_pl' /\ k = Len(pool) /\ n = Len(buffers)
                               /\ u = Table(f, b) /\ v = BufferTable'
      OBVIOUS
    <3>5. (\A i \in 1 .. k : p[i] = pool[i]) /\ p[k + 1] = u[f]
      BY <1>7, <3>3, <3>4
    <3>6. /\ Conserved(pool, k, n, Fds, u) /\ u[f] # 0 /\ v[f] = 0
          /\ \A g \in Fds : g # f => v[g] = u[g]
      BY <1>1, <1>7, <2>2, <3>4
    <3>7. Conserved(p, k + 1, n, Fds, v)
      BY <3>5, <3>6, ConservedPush
    <3>8. PoolContents(m_pl', ring')
      BY <1>1, <3>1, <3>2, ContentsRedeemed
    <3> QED BY <1>5, <3>3, <3>4, <3>7, <3>8
  <2> QED BY <2>1, <2>2
<1>9. /\ sock' \in [Clients -> Socket] /\ sock'[c] = t
      /\ \A d \in Clients : d # c => sock'[d] = sock[d]
      /\ fdOwner' \in [Fds -> Clients \cup {NoClient}]
      /\ ssl' \subseteq Fds /\ m_pending_handshakes' \subseteq Fds
  BY <1>2, <1>3, <1>4 DEF TableOK
<1>10. ASSUME NEW g \in Fds, g # f, BufferOf(g) # NoBuffer
       PROVE  Held(BufferOf(g))' = Held(BufferOf(g))
  <2>1. PICK d : d = BufferOf(g)
    OBVIOUS
  <2>2. ring'[d] = ring[d]
    BY <1>5, <1>10, <2>1, OtherBuffers
  <2>3. BufferOf(g)' = d
    BY <1>7, <1>10, <2>1
  <2> QED BY <2>1, <2>2, <2>3 DEF Held
<1>11. Left(f, c, t, FALSE, holds, op)
  BY <1>2, <1>6, <1>7, <1>9, <1>10 DEF Left, IO
<1>12. Leaves(f, c, s, FALSE, holds, op)
  BY <1>3, <1>11 DEF Leaves
<1> QED BY <1>5, <1>6, <1>8, <1>9, <1>12 DEF TableInv, TableOK, PoolInv

LEMMA DoneLeaves ==
    ASSUME TypeOK, NEW f \in Fds, NEW c \in Clients, NEW b, b # NoBuffer, NEW pool, NEW buffers,
           Ready(f, b, pool, buffers), NEW x \in ConnType, Holds(x) <= BufferSize,
           x.fd = f, Done(c, b, pool, buffers, x)
    PROVE  TableInv' /\ Leaves(f, c, x.s, ~x.dead, Holds(x), x.op)
<1>1. /\ buffers \in Seq(CounterPair) /\ pool \in Seq(1 .. Len(buffers))
      /\ Len(ring) <= Len(buffers) /\ b \in 0 .. Len(buffers) /\ PoolContents(pool, buffers)
      /\ Conserved(pool, Len(pool), Len(buffers), Fds, Table(f, b))
  BY DEF Ready
<1>2. /\ TableOK /\ Len(ring) \in Nat /\ Len(buffers) \in Nat
      /\ x.s \in Socket /\ x.r \in CounterPair /\ x.inside \in 0 .. MaxBytes
      /\ x.state \in States \ {"die"} /\ x.dead \in BOOLEAN
      /\ x.op \in Kinds \cup {"none", "handshake_poll"}
  BY <1>1, TypeParts, Types, LenProperties DEF ConnType
<1>3. inside' = [inside EXCEPT ![c] = x.inside]
  BY DEF Done
<1>4. inside' \in [Clients -> 0 .. MaxBytes]
  BY <1>2, <1>3 DEF TableOK
<1>5. CASE x.dead
  <2>1. PICK s \in Socket : s = x.s
    BY <1>2
  <2>2. Removes(f, c, s, b, pool, buffers)
    BY <1>5, <2>1 DEF Done, Removes, RemoveConnection
  <2>3. TableInv' /\ Leaves(f, c, s, FALSE, Holds(x), x.op)
    BY <1>4, <2>2, RemoveLeaves
  <2> QED BY <1>5, <2>1, <2>3
<1>6. CASE ~x.dead
  <2>1. /\ sock' = [sock EXCEPT ![c] = x.s]
        /\ fdOwner' = [fdOwner EXCEPT ![f] = c]
        /\ ssl' = ssl \cup {f} /\ m_pending_handshakes' = m_pending_handshakes \ {f}
        /\ m_pl' = pool /\ ring' = [buffers EXCEPT ![b] = x.r]
        /\ m_connections' = [m_connections EXCEPT
                                ![f] = [state |-> x.state, buffer |-> b, op |-> x.op]]
    BY <1>6 DEF Done
  <2>3. b \in 1 .. Len(buffers)
    BY <1>1, <1>2 DEF NoBuffer
  <2>4. /\ ring' \in Seq(CounterPair) /\ Len(ring') = Len(buffers) /\ ring'[b] = x.r
        /\ \A d \in 1 .. Len(buffers) : d # b => ring'[d] = buffers[d]
    BY <1>1, <1>2, <2>1, <2>3, OneRing
  <2>5. /\ m_connections' \in [Fds -> [state  : States \ {"die"},
                                       buffer : 1 .. Len(ring') \cup {NoBuffer},
                                       op     : Kinds \cup {"none", "handshake_poll"}]]
        /\ m_connections'[f].buffer = b /\ m_connections'[f].op = x.op
        /\ \A g \in Fds : g # f => m_connections'[g] = m_connections[g]
    <3>1. \A d \in 1 .. Len(ring) : d \in 1 .. Len(ring')
      BY <1>1, <1>2, <2>4
    <3>2. m_connections \in [Fds -> [state  : States \ {"die"},
                                     buffer : 1 .. Len(ring') \cup {NoBuffer},
                                     op     : Kinds \cup {"none", "handshake_poll"}]]
      BY <1>2, <3>1 DEF TableOK
    <3>3. [state |-> x.state, buffer |-> b, op |-> x.op]
            \in [state : States \ {"die"}, buffer : 1 .. Len(ring') \cup {NoBuffer},
                 op : Kinds \cup {"none", "handshake_poll"}]
      BY <1>2, <2>3, <2>4
    <3> QED BY <2>1, <3>2, <3>3
  <2>6. /\ BufferOf(f)' = b /\ \A g \in Fds : g # f => BufferOf(g)' = BufferOf(g)
        /\ BufferTable' = Table(f, b) /\ Table(f, b)[f] = b
    BY <2>5 DEF BufferOf, BufferTable, Table
  <2>7. PoolContents(m_pl', ring')
    <3>1. \A i \in 1 .. Len(pool) : pool[i] \in 1 .. Len(buffers) /\ pool[i] # b
      BY <1>1, <2>6 DEF Conserved
    <3>2. Count(ring'[b].head, ring'[b].tail) <= BufferSize
      BY <2>4 DEF Holds
    <3>3. PICK s : s = ring'
      OBVIOUS
    <3>4. /\ Len(s) = Len(buffers) /\ \A d \in 1 .. Len(buffers) : d # b => s[d] = buffers[d]
          /\ Count(s[b].head, s[b].tail) <= BufferSize
      BY <2>4, <3>2, <3>3
    <3>5. PICK p, r : p = pool /\ r = buffers
      OBVIOUS
    <3>6. PoolContents(p, r)
      BY <1>1, <3>5
    <3>7. Len(s) = Len(r) /\ \A d \in 1 .. Len(r) : d # b => s[d] = r[d]
      BY <3>4, <3>5
    <3>8. Count(s[b].head, s[b].tail) <= BufferSize
      BY <3>4
    <3>9. \A i \in 1 .. Len(p) : p[i] \in 1 .. Len(r) /\ p[i] # b
      BY <3>1, <3>5
    <3>10. PoolContents(p, s)
      BY <3>6, <3>7, <3>8, <3>9, ContentsMoved
    <3> QED BY <2>1, <3>3, <3>5, <3>10
  <2>8. m_pl' \in Seq(1 .. Len(ring')) /\ Conserved(m_pl', Len(m_pl'), Len(ring'), Fds, BufferTable')
    BY <1>1, <2>1, <2>4, <2>6
  <2>9. /\ sock' \in [Clients -> Socket] /\ sock'[c] = x.s
        /\ \A d \in Clients : d # c => sock'[d] = sock[d]
        /\ fdOwner' \in [Fds -> Clients \cup {NoClient}]
        /\ ssl' \subseteq Fds /\ m_pending_handshakes' \subseteq Fds
    BY <1>2, <2>1 DEF TableOK
  <2>10. ASSUME NEW g \in Fds, g # f, BufferOf(g) # NoBuffer
         PROVE  Held(BufferOf(g))' = Held(BufferOf(g))
    <3>1. PICK d : d = BufferOf(g)
      OBVIOUS
    <3>2. d \in 1 .. Len(buffers) /\ d # b /\ buffers[d] = ring[d]
      BY <2>10, <3>1, OtherBuffers
    <3>3. ring'[d] = ring[d] /\ BufferOf(g)' = d
      BY <2>4, <2>6, <2>10, <3>1, <3>2
    <3> QED BY <3>1, <3>3 DEF Held
  <2>11. Held(BufferOf(f))' = Holds(x)
    BY <2>4, <2>6 DEF Held, Holds
  <2>12. Left(f, c, x.s, TRUE, Holds(x), x.op)
    BY <2>1, <2>5, <2>6, <2>9, <2>10, <2>11 DEF Left
  <2>13. Leaves(f, c, x.s, TRUE, Holds(x), x.op)
    BY <1>2, <2>12 DEF Leaves
  <2>14. TableInv'
    BY <1>4, <2>4, <2>5, <2>7, <2>8, <2>9 DEF TableInv, TableOK, PoolInv
  <2> QED BY <1>6, <2>13, <2>14
<1> QED BY <1>2, <1>5, <1>6
-----------------------------------------------------------------------------
(* The handler of descriptor f leaves the other connections alone,         *)
Apart(f) ==
    \A g \in Fds : g # f =>
        /\ fdOwner'[g] = fdOwner[g] /\ m_connections'[g] = m_connections[g]
        /\ BufferOf(g) # NoBuffer => Held(BufferOf(g))' = Held(BufferOf(g))

(* prepares operations,                                                    *)
Prepares(f, todo) ==
    /\ todo \in Seq(Operation) /\ Len(sq) + Len(todo) <= RingEntries
    /\ sq' = sq \o todo
    /\ \A i \in DOMAIN todo :
        /\ todo[i].fd = f
        /\ todo[i].kind \in IO =>
            /\ WaitsFor(f, todo[i].kind, todo[i].size)'
            /\ \A j \in DOMAIN todo : todo[j].kind \in IO => i = j

(* has taken a completion or none,                                         *)
Takes(f, k) ==
    /\ k \in {0, 1} /\ cq' \in Seq(Completion)
    /\ Len(cq) = Len(cq') + k
    /\ \A i \in DOMAIN cq' : cq'[i] = cq[i + k]
    /\ k = 1 => cq[1].fd = f

(* and nothing else is under way for it, or will reach the kernel.         *)
Still(f) ==
    /\ flying' = flying
    /\ \A o \in DOMAIN flying : o.kind \in IO => o.fd # f
    /\ \A i \in DOMAIN cq' : Moved(cq'[i]) => cq'[i].fd # f
    /\ \/ \A i \in DOMAIN sq : sq[i].kind \in IO => sq[i].fd # f
       \/ fdOwner'[f] = NoClient /\ pc = "batch"

LEMMA WaitsKept ==
    ASSUME NEW f \in Fds, Apart(f), NEW g \in Fds, g # f, NEW kind, NEW n, WaitsFor(g, kind, n)
    PROVE  WaitsFor(g, kind, n)'
<1>1. /\ fdOwner'[g] = fdOwner[g] /\ m_connections'[g] = m_connections[g]
      /\ BufferOf(g) # NoBuffer => Held(BufferOf(g))' = Held(BufferOf(g))
  BY DEF Apart
<1>2. BufferOf(g)' = BufferOf(g)
  BY <1>1 DEF BufferOf
<1> QED BY <1>1, <1>2 DEF WaitsFor

LEMMA QueueTypes ==
    ASSUME QueuesOK
    PROVE  /\ Len(sq) \in Nat /\ DOMAIN sq = 1 .. Len(sq) /\ \A i \in DOMAIN sq : sq[i] \in Operation
           /\ \A i \in DOMAIN sq : sq[i].fd \in Fds /\ sq[i].size \in Nat
           /\ Len(cq) \in Nat /\ DOMAIN cq = 1 .. Len(cq)
           /\ \A i \in DOMAIN cq : cq[i].fd \in Fds /\ cq[i].res \in Int /\ cq[i].kind \in Kinds
           /\ \A o \in DOMAIN flying : o \in Flying /\ o.fd \in Fds /\ o.size \in Nat
                                       /\ o.of \in Clients /\ o.kind \in Kinds
<1>1. sq \in Seq(Operation) /\ cq \in Seq(Completion) /\ DOMAIN flying \subseteq Flying
  BY DEF QueuesOK
<1>2. /\ Len(sq) \in Nat /\ DOMAIN sq = 1 .. Len(sq) /\ Len(cq) \in Nat /\ DOMAIN cq = 1 .. Len(cq)
  BY <1>1, LenProperties
<1>3. (\A i \in DOMAIN sq : sq[i] \in Operation) /\ \A i \in DOMAIN cq : cq[i] \in Completion
  BY <1>1, <1>2, ElementOfSeq
<1>4. \A i \in DOMAIN sq : sq[i].fd \in Fds /\ sq[i].size \in Nat
  BY <1>3 DEF Operation
<1>5. \A i \in DOMAIN cq : cq[i].fd \in Fds /\ cq[i].res \in Int /\ cq[i].kind \in Kinds
  BY <1>3 DEF Completion
<1>6. \A o \in DOMAIN flying : o \in Flying /\ o.fd \in Fds /\ o.size \in Nat
                               /\ o.of \in Clients /\ o.kind \in Kinds
  BY <1>1 DEF Flying
<1> QED BY <1>2, <1>3, <1>4, <1>5, <1>6

(* What was prepared, and what is left to handle.                          *)
LEMMA AfterPrepares ==
    ASSUME QueuesOK, NEW f, NEW todo, Prepares(f, todo)
    PROVE  /\ sq' \in Seq(Operation) /\ Len(sq') <= RingEntries
           /\ \A i \in DOMAIN sq' :
                \/ i \in DOMAIN sq /\ sq'[i] = sq[i]
                \/ \E j \in DOMAIN todo : i = Len(sq) + j /\ sq'[i] = todo[j]
<1>1. /\ sq \in Seq(Operation) /\ todo \in Seq(Operation) /\ sq' = sq \o todo
      /\ Len(sq) + Len(todo) <= RingEntries
  BY DEF QueuesOK, Prepares
<1>2. /\ sq' \in Seq(Operation) /\ Len(sq') = Len(sq) + Len(todo)
      /\ \A i \in 1 .. Len(sq) + Len(todo) :
            sq'[i] = IF i <= Len(sq) THEN sq[i] ELSE todo[i - Len(sq)]
  BY <1>1, ConcatProperties
<1>3. PICK m \in Nat, n \in Nat : m = Len(sq) /\ n = Len(todo) /\ DOMAIN sq = 1 .. m /\ DOMAIN todo = 1 .. n
  BY <1>1, LenProperties
<1>4. DOMAIN sq' = 1 .. m + n
  BY <1>2, <1>3, LenProperties
<1>5. ASSUME NEW i \in 1 .. m + n
      PROVE  \/ i \in 1 .. m /\ sq'[i] = sq[i]
             \/ \E j \in 1 .. n : i = m + j /\ sq'[i] = todo[j]
  <2>1. CASE i <= m
    BY <1>2, <1>3, <2>1
  <2>2. CASE ~(i <= m)
    <3>1. i - m \in 1 .. n /\ i = m + (i - m)
      BY <1>3, <2>2
    <3>2. sq'[i] = todo[i - m]
      BY <1>2, <1>3, <2>2
    <3> QED BY <3>1, <3>2
  <2> QED BY <2>1, <2>2
<1>6. \A i \in DOMAIN sq' :
        \/ i \in DOMAIN sq /\ sq'[i] = sq[i]
        \/ \E j \in DOMAIN todo : i = Len(sq) + j /\ sq'[i] = todo[j]
  <2> SUFFICES ASSUME NEW i \in DOMAIN sq'
               PROVE  \/ i \in DOMAIN sq /\ sq'[i] = sq[i]
                      \/ \E j \in DOMAIN todo : i = Len(sq) + j /\ sq'[i] = todo[j]
    OBVIOUS
  <2>1. i \in 1 .. m + n
    BY ONLY <1>4, i \in DOMAIN sq'
  <2>2. \/ i \in 1 .. m /\ sq'[i] = sq[i]
        \/ \E j \in 1 .. n : i = m + j /\ sq'[i] = todo[j]
    BY ONLY <1>5, <2>1
  <2> QED BY ONLY <1>3, <2>2
<1>7. sq' \in Seq(Operation) /\ Len(sq') <= RingEntries
  BY ONLY <1>1, <1>2
<1> QED BY ONLY <1>6, <1>7

LEMMA AfterTakes ==
    ASSUME QueuesOK, NEW f, NEW k, Takes(f, k)
    PROVE  \A i \in DOMAIN cq' : i \in Nat /\ i + k \in DOMAIN cq /\ cq'[i] = cq[i + k]
<1>1. /\ k \in {0, 1} /\ cq' \in Seq(Completion) /\ Len(cq) = Len(cq') + k
      /\ \A i \in DOMAIN cq' : cq'[i] = cq[i + k]
  BY DEF Takes
<1>2. PICK n \in Nat : n = Len(cq') /\ DOMAIN cq' = 1 .. n
  BY <1>1, LenProperties
<1>3. DOMAIN cq = 1 .. n + k
  BY <1>1, <1>2, QueueTypes
<1> QED BY <1>1, <1>2, <1>3

LEMMA MovesAfter ==
    ASSUME QueuesOK, MovesInv, NEW f \in Fds, Apart(f), NEW todo, Prepares(f, todo),
           NEW k, Takes(f, k), Still(f), pc' = pc, pc \in {"accept", "batch"},
           m_connections'[f].op \in IO \cup {"poll_out"} => BufferOf(f)' # NoBuffer
    PROVE  MovesInv' /\ QueuesOK'
<1>1. /\ PreparedInv /\ FlyingInv /\ MovedInv /\ WaitersInv
  BY DEF MovesInv
<1>2. /\ sq' \in Seq(Operation) /\ Len(sq') <= RingEntries
      /\ \A i \in DOMAIN sq' :
           \/ i \in DOMAIN sq /\ sq'[i] = sq[i]
           \/ \E j \in DOMAIN todo : i = Len(sq) + j /\ sq'[i] = todo[j]
  BY AfterPrepares
<1>3. \A i \in DOMAIN cq' : i \in Nat /\ i + k \in DOMAIN cq /\ cq'[i] = cq[i + k]
  BY AfterTakes
<1>4. /\ flying' = flying
      /\ \A o \in DOMAIN flying : o.kind \in IO => o.fd # f
      /\ \A i \in DOMAIN cq' : Moved(cq'[i]) => cq'[i].fd # f
      /\ \/ \A i \in DOMAIN sq : sq[i].kind \in IO => sq[i].fd # f
         \/ fdOwner'[f] = NoClient /\ pc = "batch"
  BY DEF Still
<1>5. \A i \in DOMAIN todo :
        /\ todo[i].fd = f
        /\ todo[i].kind \in IO =>
            /\ WaitsFor(f, todo[i].kind, todo[i].size)' /\ fdOwner'[f] # NoClient
            /\ \A j \in DOMAIN todo : todo[j].kind \in IO => i = j
  BY DEF Prepares, WaitsFor
<1>6. (\A i \in DOMAIN sq : sq[i].fd \in Fds) /\ \A i \in DOMAIN cq : cq[i].fd \in Fds
  BY QueueTypes
<1>7. \A o \in DOMAIN flying : o.fd \in Fds
  BY QueueTypes
<1>8. \A g \in Fds : g # f => fdOwner'[g] = fdOwner[g] /\ m_connections'[g] = m_connections[g]
  BY DEF Apart
<1>9. PreparedInv'
  <2>1. ASSUME NEW i \in DOMAIN sq', NEW p, p = sq'[i], p.kind \in IO
        PROVE  /\ \/ pc = "batch" /\ fdOwner'[p.fd] = NoClient
                  \/ WaitsFor(p.fd, p.kind, p.size)'
               /\ \A j \in DOMAIN sq' : (sq'[j].kind \in IO /\ sq'[j].fd = p.fd) => i = j
    <3>1. CASE i \in DOMAIN sq /\ sq'[i] = sq[i]
      <4>1. p = sq[i]
        BY <2>1, <3>1
      <4>2. /\ p.fd \in Fds /\ p.kind \in IO /\ sq'[i] = p
            /\ \/ pc = "batch" /\ fdOwner[p.fd] = NoClient
               \/ WaitsFor(p.fd, p.kind, p.size)
            /\ \A j \in DOMAIN sq : (sq[j].kind \in IO /\ sq[j].fd = p.fd) => i = j
        BY <1>1, <1>6, <2>1, <3>1, <4>1 DEF PreparedInv
      <4>3. \/ pc = "batch" /\ fdOwner'[p.fd] = NoClient
            \/ WaitsFor(p.fd, p.kind, p.size)'
        <5>1. CASE p.fd = f
          BY <1>4, <3>1, <4>1, <4>2, <5>1
        <5>2. CASE p.fd # f
          BY <1>8, <4>2, <5>2, WaitsKept
        <5> QED BY <5>1, <5>2
      <4>4. ASSUME NEW j \in DOMAIN sq', sq'[j].kind \in IO, sq'[j].fd = p.fd PROVE i = j
        <5>1. CASE j \in DOMAIN sq /\ sq'[j] = sq[j]
          BY <4>2, <4>4, <5>1
        <5>2. ASSUME NEW l \in DOMAIN todo, sq'[j] = todo[l] PROVE FALSE
          <6>1. p.fd = f /\ fdOwner'[f] # NoClient
            BY <1>5, <4>4, <5>2
          <6> QED BY <1>4, <3>1, <4>1, <4>2, <6>1
        <5> QED BY <1>2, <5>1, <5>2
      <4> QED BY <4>2, <4>3, <4>4
    <3>2. ASSUME NEW l \in DOMAIN todo, i = Len(sq) + l, sq'[i] = todo[l]
          PROVE  /\ WaitsFor(p.fd, p.kind, p.size)'
                 /\ \A j \in DOMAIN sq' : (sq'[j].kind \in IO /\ sq'[j].fd = p.fd) => i = j
      <4>1. p = todo[l]
        BY <2>1, <3>2
      <4>2. /\ sq'[i] = p /\ p.fd = f /\ p.kind \in IO /\ WaitsFor(f, p.kind, p.size)'
            /\ fdOwner'[f] # NoClient
            /\ \A j \in DOMAIN todo : todo[j].kind \in IO => l = j
        BY <1>5, <2>1, <3>2, <4>1
      <4>3. ASSUME NEW j \in DOMAIN sq', sq'[j].kind \in IO, sq'[j].fd = f PROVE i = j
        <5>1. CASE j \in DOMAIN sq /\ sq'[j] = sq[j]
          BY <1>4, <4>2, <4>3, <5>1
        <5>2. ASSUME NEW m \in DOMAIN todo, j = Len(sq) + m, sq'[j] = todo[m] PROVE i = j
          BY <3>2, <4>2, <4>3, <5>2
        <5> QED BY <1>2, <5>1, <5>2
      <4> QED BY <4>2, <4>3
    <3> QED BY <1>2, <3>1, <3>2
  <2> QED BY <2>1, pc' = pc DEF PreparedInv
<1>10. FlyingInv'
  <2>1. ASSUME NEW o \in DOMAIN flying, o.kind \in IO
        PROVE  /\ flying[o] = 1 /\ fdOwner'[o.fd] = o.of /\ WaitsFor(o.fd, o.kind, o.size)'
               /\ \A p \in DOMAIN flying : (p.kind \in IO /\ p.fd = o.fd) => p = o
               /\ \A i \in DOMAIN sq' : sq'[i].fd = o.fd => sq'[i].kind \notin IO
               /\ \A i \in DOMAIN cq' : cq'[i].fd = o.fd => cq'[i].res >= 0 /\ ~Moved(cq'[i])
    <3>1. /\ flying[o] = 1 /\ fdOwner[o.fd] = o.of /\ WaitsFor(o.fd, o.kind, o.size)
          /\ \A p \in DOMAIN flying : (p.kind \in IO /\ p.fd = o.fd) => p = o
          /\ \A i \in DOMAIN sq : sq[i].fd = o.fd => sq[i].kind \notin IO
          /\ \A i \in DOMAIN cq : cq[i].fd = o.fd => cq[i].res >= 0 /\ ~Moved(cq[i])
      BY <1>1, <2>1 DEF FlyingInv
    <3>2. o.fd \in Fds /\ o.fd # f
      BY <1>4, <1>7, <2>1
    <3>3. fdOwner'[o.fd] = o.of /\ WaitsFor(o.fd, o.kind, o.size)'
      BY <1>8, <3>1, <3>2, WaitsKept
    <3>4. \A i \in DOMAIN sq' : sq'[i].fd = o.fd => sq'[i].kind \notin IO
      BY <1>2, <1>5, <3>1, <3>2
    <3>5. \A i \in DOMAIN cq' : cq'[i].fd = o.fd => cq'[i].res >= 0 /\ ~Moved(cq'[i])
      BY <1>3, <3>1
    <3> QED BY <3>1, <3>3, <3>4, <3>5
  <2> QED BY <1>4, <2>1 DEF FlyingInv
<1>11. MovedInv'
  <2>1. ASSUME NEW i \in DOMAIN cq', NEW e, e = cq'[i], Moved(e)
        PROVE  /\ WaitsFor(e.fd, e.kind, e.res)'
               /\ \A j \in DOMAIN sq' : sq'[j].fd = e.fd => sq'[j].kind \notin IO
               /\ \A j \in DOMAIN cq' : cq'[j].fd = e.fd =>
                        cq'[j].res >= 0 /\ (Moved(cq'[j]) => i = j)
    <3>1. e = cq'[i]
      BY <2>1
    <3>2. i + k \in DOMAIN cq /\ e = cq[i + k] /\ e.fd \in Fds /\ e.fd # f
      BY <1>3, <1>4, <1>6, <2>1, <3>1
    <3>3. /\ WaitsFor(e.fd, e.kind, e.res)
          /\ \A j \in DOMAIN sq : sq[j].fd = e.fd => sq[j].kind \notin IO
          /\ \A j \in DOMAIN cq : cq[j].fd = e.fd =>
                cq[j].res >= 0 /\ (Moved(cq[j]) => i + k = j)
      BY <1>1, <2>1, <3>1, <3>2 DEF MovedInv
    <3>4. WaitsFor(e.fd, e.kind, e.res)'
      BY <3>2, <3>3, WaitsKept
    <3>5. \A j \in DOMAIN sq' : sq'[j].fd = e.fd => sq'[j].kind \notin IO
      BY <1>2, <1>5, <3>2, <3>3
    <3>6. ASSUME NEW j \in DOMAIN cq', cq'[j].fd = e.fd
          PROVE  cq'[j].res >= 0 /\ (Moved(cq'[j]) => i = j)
      <4>1. j + k \in DOMAIN cq /\ cq'[j] = cq[j + k] /\ i \in Nat /\ j \in Nat /\ k \in {0, 1}
        BY <1>3 DEF Takes
      <4>2. cq'[j].res >= 0 /\ (Moved(cq'[j]) => i + k = j + k)
        BY <3>3, <3>6, <4>1
      <4>3. i + k = j + k => i = j
        BY <4>1
      <4> QED BY <4>2, <4>3
    <3> QED BY <3>1, <3>4, <3>5, <3>6
  <2> QED BY <2>1 DEF MovedInv
<1>12. WaitersInv'
  <2>1. \A g \in Fds : g # f => BufferOf(g)' = BufferOf(g)
    BY <1>8 DEF BufferOf
  <2> QED BY <1>1, <1>8, <2>1 DEF WaitersInv
<1>13. QueuesOK'
  BY <1>2, <1>4 DEF QueuesOK, Takes
<1> QED BY <1>9, <1>10, <1>11, <1>12, <1>13 DEF MovesInv

(* The bytes, once the handler of descriptor f is done.                    *)
LEMMA BytesAfter ==
    ASSUME QueuesOK, fdOwner \in [Fds -> Clients \cup {NoClient}], BytesInv,
           NEW f \in Fds, Apart(f), NEW k, Takes(f, k), Still(f),
           \A g \in Fds : (g # f /\ fdOwner[g] # NoClient) => sock'[fdOwner[g]] = sock[fdOwner[g]],
           (fdOwner'[f] # NoClient /\ BufferOf(f)' # NoBuffer) =>
                \/ sock'[fdOwner'[f]].peer = "rst"
                \/ Held(BufferOf(f))' = sock'[fdOwner'[f]].in - sock'[fdOwner'[f]].out
    PROVE  BytesInv'
<1>1. \A i \in DOMAIN cq' : i \in Nat /\ i + k \in DOMAIN cq /\ cq'[i] = cq[i + k]
  BY AfterTakes
<1>2. /\ \A i \in DOMAIN cq' : Moved(cq'[i]) => cq'[i].fd # f
      /\ k \in {0, 1} /\ (k = 1 => cq[1].fd = f)
  BY DEF Still, Takes
<1> SUFFICES ASSUME NEW g \in Fds, fdOwner'[g] # NoClient, BufferOf(g)' # NoBuffer
             PROVE  LET s  == sock'[fdOwner'[g]]
                        at == {i \in DOMAIN cq' : cq'[i].fd = g /\ Moved(cq'[i])}
                    IN  /\ \A i, j \in at : i = j
                        /\ \/ s.peer = "rst"
                           \/ /\ at = {} => Held(BufferOf(g))' = s.in - s.out
                              /\ \A i \in at : Held(BufferOf(g))' + Change(cq'[i]) = s.in - s.out
  BY DEF BytesInv
<1>3. PICK s, at : /\ s = sock'[fdOwner'[g]]
                   /\ at = {i \in DOMAIN cq' : cq'[i].fd = g /\ Moved(cq'[i])}
  OBVIOUS
<1>4. CASE g = f
  <2>1. at = {}
    BY <1>2, <1>3, <1>4
  <2> QED BY <1>3, <1>4, <2>1
<1>5. CASE g # f
  <2>1. /\ fdOwner'[g] = fdOwner[g] /\ m_connections'[g] = m_connections[g]
        /\ BufferOf(g) # NoBuffer => Held(BufferOf(g))' = Held(BufferOf(g))
    BY <1>5 DEF Apart
  <2>2. BufferOf(g)' = BufferOf(g)
    BY <2>1 DEF BufferOf
  <2>4. s = sock[fdOwner[g]] /\ Held(BufferOf(g))' = Held(BufferOf(g))
    BY <1>3, <1>5, <2>1, <2>2
  <2>5. PICK was : was = {i \in DOMAIN cq : cq[i].fd = g /\ Moved(cq[i])}
    OBVIOUS
  <2>6. /\ \A i, j \in was : i = j
        /\ \/ s.peer = "rst"
           \/ /\ was = {} => Held(BufferOf(g)) = s.in - s.out
              /\ \A i \in was : Held(BufferOf(g)) + Change(cq[i]) = s.in - s.out
    BY <1>3, <2>1, <2>2, <2>4, <2>5 DEF BytesInv
  <2>7. \A i \in at : i \in Nat /\ i + k \in was /\ cq'[i] = cq[i + k]
    BY <1>1, <1>3, <2>5
  <2>8. ASSUME NEW i \in was PROVE i - k \in at
    <3>1. PICK n \in Nat : n = Len(cq') /\ DOMAIN cq' = 1 .. n /\ DOMAIN cq = 1 .. n + k
      <4>1. cq' \in Seq(Completion) /\ Len(cq) = Len(cq') + k
        BY DEF Takes
      <4> QED BY <4>1, LenProperties, QueueTypes
    <3>2. i \in 1 .. n + k /\ cq[i].fd = g /\ Moved(cq[i])
      BY <2>5, <3>1
    <3>3. ~(k = 1 /\ i = 1)
      BY <1>2, <1>5, <3>2
    <3>4. i - k \in 1 .. n /\ (i - k) + k = i
      BY <1>2, <3>1, <3>2, <3>3
    <3>5. cq'[i - k] = cq[i]
      BY <1>1, <3>1, <3>4
    <3> QED BY <1>3, <3>1, <3>2, <3>4, <3>5
  <2>9. \A i, j \in at : i = j
    <3>1. \A i, j \in at : i + k = j + k /\ i \in Nat /\ j \in Nat
      BY <2>6, <2>7
    <3> QED BY <1>2, <3>1
  <2>10. at = {} => was = {}
    BY <2>8
  <2> QED BY <1>3, <2>4, <2>6, <2>7, <2>9, <2>10
<1> QED BY <1>4, <1>5
-----------------------------------------------------------------------------
(* How far its client's handshake is then, and what has moved.             *)
Settled(c, s, alive, holds) ==
    /\ \A d \in Clients : d # c => hs'[d] = hs[d]
    /\ s.phase = "open"
    /\ alive => hs'[c] = "done" /\ (s.peer = "rst" \/ holds = s.in - s.out)
    /\ hs'[c] # "done" => s.in = 0 /\ s.out = 0

(* The tables, once a handler has left descriptor f.                       *)
LEMMA TablesAfter ==
    ASSUME TypeOK, TablesInv, HandshakeInv,
           NEW f \in Fds, NEW c \in Clients, \A g \in Fds : g # f => fdOwner[g] # c,
           NEW u, NEW alive \in BOOLEAN, NEW holds, NEW op,
           Leaves(f, c, u, alive, holds, op), Settled(c, u, alive, holds)
    PROVE  /\ TablesInv' /\ HandshakeInv' /\ Apart(f)
           /\ \A g \in Fds : (g # f /\ fdOwner[g] # NoClient) =>
                                sock'[fdOwner[g]] = sock[fdOwner[g]]
           /\ m_connections'[f].op \in IO \cup {"poll_out"} => BufferOf(f)' # NoBuffer
           /\ (fdOwner'[f] # NoClient /\ BufferOf(f)' # NoBuffer) =>
                \/ sock'[fdOwner'[f]].peer = "rst"
                \/ Held(BufferOf(f))' = sock'[fdOwner'[f]].in - sock'[fdOwner'[f]].out
<1>0. PICK s : /\ s.phase \in {"open", "closed"} /\ s.in = u.in /\ s.out = u.out
               /\ s.peer = u.peer /\ Left(f, c, s, alive, holds, op)
  BY DEF Leaves, Settled
<1>1. /\ sock'[c] = s /\ \A d \in Clients : d # c => sock'[d] = sock[d]
      /\ fdOwner' = [fdOwner EXCEPT ![f] = IF alive THEN c ELSE NoClient]
      /\ ssl' = IF alive THEN ssl \cup {f} ELSE ssl \ {f}
      /\ m_pending_handshakes' = m_pending_handshakes \ {f}
      /\ BufferOf(f)' # NoBuffer <=> alive
      /\ alive => Held(BufferOf(f))' = holds
      /\ ~alive => m_connections'[f].op \notin IO \cup {"poll_out"}
      /\ \A g \in Fds : g # f =>
          /\ m_connections'[g] = m_connections[g]
          /\ BufferOf(g) # NoBuffer => Held(BufferOf(g))' = Held(BufferOf(g))
  BY <1>0 DEF Left
<1>2. fdOwner \in [Fds -> Clients \cup {NoClient}] /\ NoClient \notin Clients
  BY Types, SocketAssumption
<1>10. /\ \A d \in Clients : d # c => hs'[d] = hs[d]
       /\ alive => hs'[c] = "done" /\ (s.peer = "rst" \/ holds = s.in - s.out)
       /\ hs'[c] = "done" => s.phase \in {"open", "closed"}
       /\ hs'[c] # "done" => s.in = 0 /\ s.out = 0
  BY <1>0 DEF Settled
<1>3. /\ fdOwner'[f] = IF alive THEN c ELSE NoClient
      /\ \A g \in Fds : g # f => fdOwner'[g] = fdOwner[g]
  BY <1>1, <1>2
<1>4. ASSUME NEW g \in Fds, g # f, fdOwner[g] # NoClient
      PROVE  /\ fdOwner[g] \in Clients /\ hs'[fdOwner[g]] = hs[fdOwner[g]]
             /\ sock'[fdOwner[g]] = sock[fdOwner[g]]
  <2>1. fdOwner[g] \in Clients /\ fdOwner[g] # c
    BY <1>2, <1>4
  <2> QED BY <1>1, <1>10, <2>1
<1>5. TablesInv'
  <2>1. ASSUME NEW g \in Fds
        PROVE  /\ g \in ssl' <=> fdOwner'[g] # NoClient
               /\ g \in m_pending_handshakes' <=>
                      (fdOwner'[g] # NoClient /\ hs'[fdOwner'[g]] # "done")
               /\ BufferOf(g)' # NoBuffer <=> (fdOwner'[g] # NoClient /\ hs'[fdOwner'[g]] = "done")
    <3>1. CASE g = f
      BY <1>1, <1>2, <1>3, <1>10, <3>1
    <3>2. CASE g # f
      <4>1. /\ g \in ssl <=> fdOwner[g] # NoClient
            /\ g \in m_pending_handshakes <=> (fdOwner[g] # NoClient /\ hs[fdOwner[g]] # "done")
            /\ BufferOf(g) # NoBuffer <=> (fdOwner[g] # NoClient /\ hs[fdOwner[g]] = "done")
        BY DEF TablesInv
      <4>2. /\ fdOwner'[g] = fdOwner[g] /\ BufferOf(g)' = BufferOf(g)
            /\ g \in ssl' <=> g \in ssl
            /\ g \in m_pending_handshakes' <=> g \in m_pending_handshakes
        BY <1>1, <1>3, <3>2 DEF BufferOf
      <4>3. fdOwner[g] # NoClient => hs'[fdOwner[g]] = hs[fdOwner[g]]
        BY <1>4, <3>2
      <4> QED BY <4>1, <4>2, <4>3
    <3> QED BY <3>1, <3>2
  <2> QED BY <2>1 DEF TablesInv
<1>6. HandshakeInv'
  BY <1>1, <1>10 DEF HandshakeInv
<1>7. Apart(f)
  BY <1>1, <1>3 DEF Apart
<1>8. m_connections'[f].op \in IO \cup {"poll_out"} => BufferOf(f)' # NoBuffer
  BY <1>1
<1>9. (fdOwner'[f] # NoClient /\ BufferOf(f)' # NoBuffer) =>
        \/ sock'[fdOwner'[f]].peer = "rst"
        \/ Held(BufferOf(f))' = sock'[fdOwner'[f]].in - sock'[fdOwner'[f]].out
  BY <1>1, <1>3, <1>10
<1> QED BY <1>4, <1>5, <1>6, <1>7, <1>8, <1>9

(* A handler of descriptor f, of client c, is done.                        *)
LEMMA AfterHandler ==
    ASSUME IInv, pc \in {"accept", "batch"}, pc' = pc,
           NEW f \in Fds, NEW c \in Clients, \A g \in Fds : g # f => fdOwner[g] # c,
           NEW u, NEW alive \in BOOLEAN, NEW holds, NEW op,
           Leaves(f, c, u, alive, holds, op), Settled(c, u, alive, holds),
           NEW todo, Prepares(f, todo), NEW k, Takes(f, k), Still(f),
           TableInv', ThreadOK', OneDescriptorEach'
    PROVE  IInv'
<1>1. /\ TypeOK /\ QueuesOK /\ TablesInv /\ HandshakeInv /\ MovesInv /\ BytesInv
      /\ fdOwner \in [Fds -> Clients \cup {NoClient}]
  BY TypeParts, Types DEF IInv, Alive, Running
<1>2. /\ TablesInv' /\ HandshakeInv' /\ Apart(f)
      /\ \A g \in Fds : (g # f /\ fdOwner[g] # NoClient) =>
                           sock'[fdOwner[g]] = sock[fdOwner[g]]
      /\ m_connections'[f].op \in IO \cup {"poll_out"} => BufferOf(f)' # NoBuffer
      /\ (fdOwner'[f] # NoClient /\ BufferOf(f)' # NoBuffer) =>
           \/ sock'[fdOwner'[f]].peer = "rst"
           \/ Held(BufferOf(f))' = sock'[fdOwner'[f]].in - sock'[fdOwner'[f]].out
  BY <1>1, TablesAfter
<1>3. MovesInv' /\ QueuesOK'
  BY <1>1, <1>2, MovesAfter
<1>4. BytesInv'
  BY <1>1, <1>2, BytesAfter
<1>5. EndInv'
  BY DEF EndInv
<1> QED BY <1>2, <1>3, <1>4, <1>5, TypeParts DEF IInv, TableInv

(* Its operations are what its connection waits for.                       *)
LEMMA DonePrepares ==
    ASSUME TypeOK, NEW f \in Fds, NEW c \in Clients, NEW y \in ConnType, Fits(y), OneMove(y),
           y.fd = f, sq' = sq \o y.todo,
           NEW s, Leaves(f, c, s, ~y.dead, Holds(y), y.op)
    PROVE  Prepares(f, y.todo)
<1>1. PICK t : Left(f, c, t, ~y.dead, Holds(y), y.op)
  BY DEF Leaves
<1>2. /\ fdOwner \in [Fds -> Clients \cup {NoClient}] /\ NoClient \notin Clients
      /\ y.todo \in Seq(Operation)
  BY Types, HoldsType, SocketAssumption
<1>3. ASSUME ~y.dead
      PROVE  /\ fdOwner'[f] # NoClient /\ BufferOf(f)' # NoBuffer
             /\ Held(BufferOf(f))' = Holds(y) /\ m_connections'[f].op = y.op
  BY <1>1, <1>2, <1>3 DEF Left
<1>4. ASSUME NEW i \in DOMAIN y.todo, y.todo[i].kind \in IO
      PROVE  /\ WaitsFor(f, y.todo[i].kind, y.todo[i].size)'
             /\ \A j \in DOMAIN y.todo : y.todo[j].kind \in IO => i = j
  BY <1>3, <1>4 DEF OneMove, WaitsFor
<1> QED BY <1>2, <1>4 DEF Prepares, Fits

(* The descriptors, once a completion of one was handled, ...              *)
LEMMA ServedDescriptors ==
    ASSUME TypeOK, OneDescriptorEach, NEW f \in Fds, NEW c \in Clients, c = fdOwner[f],
           backlog' = backlog, NEW u, NEW alive \in BOOLEAN, NEW holds, NEW op,
           Leaves(f, c, u, alive, holds, op), Settled(c, u, alive, holds)
    PROVE  OneDescriptorEach'
<1>1. PICK s : /\ s.phase = IF alive THEN "open" ELSE "closed"
               /\ Left(f, c, s, alive, holds, op)
  BY DEF Leaves, Settled
<1>2. /\ sock'[c] = s /\ \A d \in Clients : d # c => sock'[d] = sock[d]
      /\ fdOwner' = [fdOwner EXCEPT ![f] = IF alive THEN c ELSE NoClient]
  BY <1>1 DEF Left
<1>3. /\ backlog \in Seq(Clients) /\ fdOwner \in [Fds -> Clients \cup {NoClient}]
      /\ NoClient \notin Clients /\ sock[c].phase = "open"
  BY Types, SocketAssumption DEF OneDescriptorEach
<1>4. CASE alive
  <2>1. fdOwner' = fdOwner
    BY <1>2, <1>3, <1>4
  <2>2. \A d \in Clients : /\ sock'[d].phase = sock[d].phase
                           /\ sock[d].phase # "open" =>
                                sock'[d].in = sock[d].in /\ sock'[d].out = sock[d].out
    BY <1>1, <1>2, <1>3, <1>4
  <2> QED BY <1>3, <2>1, <2>2, DescriptorsKept
<1>5. CASE ~alive
  <2>1. fdOwner' = [fdOwner EXCEPT ![f] = NoClient] /\ sock'[c].phase = "closed"
    BY <1>1, <1>2, <1>5
  <2> QED BY <1>2, <1>3, <2>1, ErasedDescriptors
<1> QED BY <1>4, <1>5

(* ... and once a connection was accepted.                                 *)
LEMMA AcceptedOwner ==
    ASSUME TypeOK, OneDescriptorEach, NEW f \in Fds, NEW c \in Clients, f \in FreeFds,
           backlog # <<>>, backlog' = Tail(backlog), c = Head(backlog),
           NEW u, NEW alive \in BOOLEAN, NEW holds, NEW op,
           Leaves(f, c, u, alive, holds, op), Settled(c, u, alive, holds)
    PROVE  OneDescriptorEach' /\ \A g \in Fds : fdOwner[g] # c
<1>1. /\ fdOwner \in [Fds -> Clients \cup {NoClient}] /\ NoClient \notin Clients
      /\ backlog \in Seq(Clients) /\ fdOwner[f] = NoClient
  BY Types, SocketAssumption DEF FreeFds
<1>2. PICK s : /\ s.phase = IF alive THEN "open" ELSE "closed"
               /\ Left(f, c, s, alive, holds, op)
  BY DEF Leaves, Settled
<1>3. /\ sock'[c] = s /\ \A d \in Clients : d # c => sock'[d] = sock[d]
      /\ fdOwner' = [fdOwner EXCEPT ![f] = IF alive THEN c ELSE NoClient]
  BY <1>2 DEF Left
<1>4. PICK phase \in {"open", "closed"} : phase = s.phase
  BY <1>2
<1>5. fdOwner' = IF phase = "open" THEN [fdOwner EXCEPT ![f] = c] ELSE fdOwner
  BY <1>1, <1>2, <1>3, <1>4
<1>6. AcceptsAs(c, f, phase)
  BY <1>3, <1>4, <1>5 DEF AcceptsAs
<1> QED BY <1>1, <1>6, AcceptedDescriptors
-----------------------------------------------------------------------------
(* What a handler has moved is in its buffer.                              *)
Balanced(x) == x.s.peer = "rst" \/ Holds(x) = x.s.in - x.s.out

LEMMA BytesSettled ==
    ASSUME NEW x \in ConnType, NEW y, Outcome(x, y), Balanced(x)
    PROVE  Balanced(y)
<1>1. /\ y \in ConnType /\ y.s.peer = x.s.peer
      /\ \/ x.s.peer = "rst"
         \/ Holds(y) + x.s.in + y.s.out = Holds(x) + y.s.in + x.s.out
  BY DEF Outcome
<1>2. CASE x.s.peer = "rst"
  BY <1>1, <1>2 DEF Balanced
<1>3. CASE x.s.peer # "rst"
  <2>2. PICK a \in Nat, b \in Nat, h \in Nat : a = x.s.in /\ b = x.s.out /\ h = Holds(x)
    BY HoldsType
  <2>3. PICK i \in Nat, o \in Nat, k \in Nat : i = y.s.in /\ o = y.s.out /\ k = Holds(y)
    BY <1>1, HoldsType
  <2>4. k + a + o = h + i + b /\ h = a - b
    BY <1>1, <1>3, <2>2, <2>3 DEF Balanced
  <2>5. k = i - o
    BY <2>2, <2>3, <2>4
  <2> QED BY <2>3, <2>5 DEF Balanced
<1> QED BY <1>2, <1>3

LEMMA ConnIsFresh ==
    ASSUME TypeOK, NEW f \in Fds, NEW c \in Clients, NEW s \in Socket, NEW r \in CounterPair,
           Count(r.head, r.tail) <= BufferSize, NEW x, x = Conn(f, c, s, r)
    PROVE  Fresh(x) /\ x.s = s /\ x.fd = f /\ Holds(x) = Count(r.head, r.tail)
<1>1. TableOK /\ QueuesOK
  BY TypeParts
<1>0. PICK i \in 0 .. MaxBytes, state \in States \ {"die"} :
         i = inside[c] /\ state = m_connections[f].state
  BY <1>1 DEF TableOK
<1>2. PICK k : k = (c \in Ktls)
  OBVIOUS
<1>10. k \in BOOLEAN
  BY <1>2
<1>3. PICK op \in Kinds \cup {"none", "handshake_poll"} : op = m_connections[f].op
  BY <1>1 DEF TableOK
<1>4. x = [s |-> s, inside |-> i, ktls |-> k, r |-> r, fd |-> f, state |-> state,
           op |-> op, todo |-> <<>>, dead |-> FALSE]
  BY <1>0, <1>2, <1>3 DEF Conn
<1>5. PICK t \in Seq(Operation) : t = <<>> /\ Len(t) = 0 /\ DOMAIN t = {}
  <2>1. PICK t \in Seq(Operation) : t = <<>> /\ Len(t) = 0
    BY EmptySeq
  <2>2. DOMAIN t = 1 .. 0
    BY <2>1, LenProperties
  <2>3. 1 .. 0 = {}
    OBVIOUS
  <2>4. DOMAIN t = {}
    BY <2>2, <2>3
  <2> QED BY <2>1, <2>4
<1>6. /\ x \in ConnType /\ x.s = s /\ x.r = r /\ x.fd = f /\ x.todo = t /\ x.dead = FALSE
  <2>1. x = [s |-> s, inside |-> i, ktls |-> k, r |-> r, fd |-> f, state |-> state,
             op |-> op, todo |-> t, dead |-> FALSE]
    BY <1>4, <1>5
  <2> QED BY ONLY <1>10, <2>1, s \in Socket, i \in 0 .. MaxBytes, r \in CounterPair,
           f \in Fds, state \in States \ {"die"}, op \in Kinds \cup {"none", "handshake_poll"},
           t \in Seq(Operation) DEF ConnType
<1>7. Holds(x) = Count(r.head, r.tail)
  BY <1>6 DEF Holds
<1>8. Len(sq) \in Nat /\ Len(sq) + Len(t) <= RingEntries
  <2>1. Len(sq) \in Nat /\ Len(sq) <= RingEntries
    BY <1>1, QueueTypes DEF QueuesOK
  <2> QED BY <1>5, <2>1
<1>9. Fits(x) /\ OnlyPolls(x)
  BY <1>5, <1>6, <1>8 DEF Fits, OnlyPolls
<1> QED BY <1>6, <1>7, <1>8, <1>9 DEF Fresh

LEMMA FreshOp ==
    ASSUME NEW x, Fresh(x), NEW op \in Kinds \cup {"none", "handshake_poll"},
           NEW y, y = [x EXCEPT !.op = op]
    PROVE  /\ Fresh(y) /\ y.s = x.s /\ y.fd = x.fd /\ y.r = x.r /\ Holds(y) = Holds(x)
           /\ y.op = op
<1>1. x \in ConnType /\ Holds(x) <= BufferSize /\ Fits(x) /\ OnlyPolls(x) /\ ~x.dead
      /\ Len(sq) \in Nat
  BY DEF Fresh
<1>2. /\ y \in ConnType /\ y.s = x.s /\ y.r = x.r /\ y.fd = x.fd /\ y.todo = x.todo
      /\ y.dead = x.dead /\ y.op = op
  BY <1>1 DEF ConnType
<1>3. Holds(y) = Holds(x)
  BY <1>2 DEF Holds
<1>4. Fits(y) /\ OnlyPolls(y)
  BY <1>1, <1>2 DEF Fits, OnlyPolls
<1> QED BY <1>1, <1>2, <1>3, <1>4 DEF Fresh

(* The connection in the hands of a handler of its completion.             *)
LEMMA ConnOfIsFresh ==
    ASSUME IInv, NEW f \in Fds, NEW c \in Clients, c = fdOwner[f], BufferOf(f) # NoBuffer
    PROVE  /\ Fresh(ConnOf(f)) /\ ConnOf(f).s = sock[c] /\ ConnOf(f).fd = f
           /\ Holds(ConnOf(f)) = Held(BufferOf(f))
<1>1. TypeOK /\ TableOK /\ PoolContents(m_pl, ring)
  BY TypeParts DEF IInv
<1>2. PICK b : b = BufferOf(f)
  OBVIOUS
<1>3. b \in 1 .. Len(ring) /\ ring[b] \in CounterPair
  <2>1. b \in 0 .. Len(ring) /\ Len(ring) \in Nat
    BY <1>1, <1>2, Types
  <2>2. b \in 1 .. Len(ring)
    BY <1>2, <2>1 DEF NoBuffer
  <2> QED BY <1>1, <1>2, <2>2, Types
<1>4. PICK x : x = ConnOf(f)
  OBVIOUS
<1>5. PICK s \in Socket, r \in CounterPair : s = sock[c] /\ r = ring[b]
  BY <1>1, <1>3 DEF TableOK
<1>6. x = Conn(f, c, s, r)
  BY <1>2, <1>4, <1>5 DEF ConnOf
<1>7. Count(r.head, r.tail) <= BufferSize
  BY <1>1, <1>3, <1>5 DEF PoolContents
<1>8. Fresh(x) /\ x.s = s /\ x.fd = f /\ Holds(x) = Count(r.head, r.tail)
  BY <1>1, <1>6, <1>7, ConnIsFresh
<1> QED BY <1>2, <1>4, <1>5, <1>8 DEF Held

-----------------------------------------------------------------------------
LEMMA HandlingTakes ==
    ASSUME TypeOK, NEW f \in Fds, Handling(f)
    PROVE  /\ Takes(f, 1) /\ cq[1] = Head(cq) /\ cq[1].fd = f /\ 1 \in DOMAIN cq
           /\ cq[1].res \in Int /\ cq[1].kind \in Kinds
           /\ pc = "batch" /\ UNCHANGED <<flying, backlog, held, m_running>>
<1>1. QueuesOK /\ cq # <<>> /\ f = Head(cq).fd /\ cq' = Tail(cq) /\ pc = "batch"
      /\ UNCHANGED <<flying, backlog, held, m_running>>
  BY TypeParts DEF Handling
<1>2. cq \in Seq(Completion) /\ cq # <<>>
  BY <1>1 DEF QueuesOK
<1>3. /\ Head(cq) = cq[1] /\ Tail(cq) \in Seq(Completion) /\ Len(Tail(cq)) = Len(cq) - 1
      /\ \A i \in 1 .. Len(Tail(cq)) : Tail(cq)[i] = cq[i + 1]
  BY <1>2, HeadTailProperties
<1>4. PICK n \in Nat : n = Len(cq) /\ DOMAIN cq = 1 .. n /\ n # 0
  BY <1>2, LenProperties, EmptySeq
<1>5. DOMAIN Tail(cq) = 1 .. Len(Tail(cq)) /\ Len(Tail(cq)) \in Nat
  BY <1>3, LenProperties
<1>6. Len(cq) = Len(cq') + 1 /\ \A i \in DOMAIN cq' : cq'[i] = cq[i + 1]
  BY <1>1, <1>3, <1>4, <1>5
<1>7. 1 \in DOMAIN cq
  BY <1>4
<1>8. Takes(f, 1)
  BY <1>1, <1>3, <1>6 DEF Takes
<1> QED BY <1>1, <1>3, <1>7, <1>8, QueueTypes

(* Nothing is under way for a connection that waits for nothing, ...       *)
LEMMA StillIdle ==
    ASSUME QueuesOK, MovesInv, NEW f \in Fds, NEW k, Takes(f, k), flying' = flying,
           \A kind \in IO : \A n : ~WaitsFor(f, kind, n),
           (pc = "batch" /\ fdOwner[f] = NoClient) => fdOwner'[f] = NoClient
    PROVE  Still(f)
<1>1. \A o \in DOMAIN flying : o.kind \in IO => o.fd # f
  BY DEF MovesInv, FlyingInv
<1>2. ASSUME NEW i \in DOMAIN cq', Moved(cq'[i]), cq'[i].fd = f PROVE FALSE
  <2>1. i + k \in DOMAIN cq /\ cq'[i] = cq[i + k]
    BY AfterTakes
  <2>2. PICK e : e = cq'[i] /\ e.kind \in IO
    BY <1>2 DEF Moved
  <2>3. WaitsFor(f, e.kind, e.res)
    BY <1>2, <2>1, <2>2 DEF MovesInv, MovedInv
  <2> QED BY <2>2, <2>3
<1>3. ASSUME NEW i \in DOMAIN sq, sq[i].kind \in IO, sq[i].fd = f
      PROVE  fdOwner'[f] = NoClient /\ pc = "batch"
  BY <1>3 DEF MovesInv, PreparedInv
<1> QED BY <1>1, <1>2, <1>3 DEF Still

(* or whose operation has failed and which is removed, ...                 *)
LEMMA StillFailed ==
    ASSUME TypeOK, MovesInv, NEW f \in Fds, Handling(f), cq[1].res < 0,
           fdOwner'[f] = NoClient
    PROVE  Still(f)
<1>1. /\ QueuesOK /\ Takes(f, 1) /\ cq[1].fd = f /\ 1 \in DOMAIN cq /\ cq[1].res \in Int
      /\ pc = "batch" /\ flying' = flying
  BY TypeParts, HandlingTakes
<1>2. ~(cq[1].res >= 0)
  BY <1>1
<1>3. \A o \in DOMAIN flying : o.kind \in IO => o.fd # f
  BY <1>1, <1>2 DEF MovesInv, FlyingInv
<1>4. ASSUME NEW i \in DOMAIN cq', Moved(cq'[i]), cq'[i].fd = f PROVE FALSE
  <2>1. PICK j \in DOMAIN cq : cq'[i] = cq[j]
    BY <1>1, AfterTakes
  <2> QED BY <1>1, <1>2, <1>4, <2>1 DEF MovesInv, MovedInv
<1> QED BY <1>1, <1>3, <1>4 DEF Still

(* or whose bytes have moved, now that it is told.                         *)
LEMMA StillMoved ==
    ASSUME IInv, NEW f \in Fds, Handling(f), Moved(cq[1])
    PROVE  /\ Still(f) /\ fdOwner[f] \in Clients /\ BufferOf(f) # NoBuffer
           /\ m_connections[f].op = cq[1].kind /\ f \notin m_pending_handshakes
           /\ cq[1].res \in Nat /\ cq[1].res <= Room(cq[1].kind, Held(BufferOf(f)))
           /\ \/ sock[fdOwner[f]].peer = "rst"
              \/ Held(BufferOf(f)) + Change(cq[1]) = sock[fdOwner[f]].in - sock[fdOwner[f]].out
<1>1. /\ TypeOK /\ QueuesOK /\ Takes(f, 1) /\ cq[1].fd = f /\ 1 \in DOMAIN cq
      /\ pc = "batch" /\ flying' = flying /\ cq[1].res \in Int /\ MovesInv /\ TablesInv /\ BytesInv
      /\ fdOwner \in [Fds -> Clients \cup {NoClient}]
  BY TypeParts, HandlingTakes, Types DEF IInv, Alive, Running
<1>2. /\ WaitsFor(f, cq[1].kind, cq[1].res)
      /\ \A j \in DOMAIN sq : sq[j].fd = f => sq[j].kind \notin IO
      /\ \A j \in DOMAIN cq : cq[j].fd = f => (Moved(cq[j]) => 1 = j)
  BY <1>1 DEF MovesInv, MovedInv
<1>3. \A o \in DOMAIN flying : o.kind \in IO => o.fd # f
  BY <1>1 DEF MovesInv, FlyingInv
<1>4. ASSUME NEW i \in DOMAIN cq', Moved(cq'[i]), cq'[i].fd = f PROVE FALSE
  <2>1. i \in Nat /\ i + 1 \in DOMAIN cq /\ cq'[i] = cq[i + 1] /\ cq' \in Seq(Completion)
    BY <1>1, AfterTakes DEF Takes
  <2>2. 1 = i + 1
    BY <1>2, <1>4, <2>1
  <2>3. i \in 1 .. Len(cq')
    BY <2>1, LenProperties
  <2> QED BY <2>1, <2>2, <2>3
<1>5. Still(f)
  BY <1>1, <1>2, <1>3, <1>4 DEF Still
<1>6. fdOwner[f] \in Clients /\ BufferOf(f) # NoBuffer /\ fdOwner[f] # NoClient
  BY <1>1, <1>2 DEF WaitsFor
<1>7. f \notin m_pending_handshakes
  BY <1>1, <1>6 DEF TablesInv
<1>8. cq[1].res \in Nat
  BY <1>1 DEF Moved
<1>9. \/ sock[fdOwner[f]].peer = "rst"
      \/ Held(BufferOf(f)) + Change(cq[1]) = sock[fdOwner[f]].in - sock[fdOwner[f]].out
  <2>1. PICK at : at = {i \in DOMAIN cq : cq[i].fd = f /\ Moved(cq[i])}
    OBVIOUS
  <2>2. 1 \in at
    BY <1>1, <2>1
  <2> QED BY <1>1, <1>6, <2>1, <2>2 DEF BytesInv
<1> QED BY <1>2, <1>5, <1>6, <1>7, <1>8, <1>9 DEF WaitsFor

(* The completion of a connection is handled: it was z, and is y then.     *)
LEMMA HandledStep ==
    ASSUME IInv, NEW f \in Fds, Handling(f), NEW c \in Clients, c = fdOwner[f],
           f \notin m_pending_handshakes, UNCHANGED <<hs, pc>>, Still(f),
           NEW z, Fresh(z), z.fd = f, z.s = sock[c], Balanced(z),
           NEW y, Outcome(z, y), Done(c, BufferOf(f), m_pl, ring, y)
    PROVE  IInv'
<1>1. /\ TypeOK /\ TableOK /\ ThreadOK /\ TablesInv /\ PoolInv /\ PoolContents(m_pl, ring)
      /\ OneDescriptorEach /\ pc = "batch" /\ Takes(f, 1)
      /\ UNCHANGED <<flying, backlog, held, m_running>>
      /\ fdOwner \in [Fds -> Clients \cup {NoClient}] /\ NoClient \notin Clients
  BY TypeParts, Types, HandlingTakes, SocketAssumption DEF IInv, Alive, Running
<1>2. hs[c] = "done" /\ BufferOf(f) # NoBuffer /\ c # NoClient
  BY <1>1 DEF TablesInv
<1>3. \A g \in Fds : g # f => fdOwner[g] # c
  BY <1>1 DEF OneDescriptorEach
<1>4. sock[c].phase = "open"
  BY <1>1 DEF OneDescriptorEach
<1>5. /\ y \in ConnType /\ Holds(y) <= BufferSize /\ Fits(y) /\ OneMove(y) /\ y.fd = f
      /\ y.s.phase = "open" /\ Balanced(y)
  BY <1>4, BytesSettled DEF Fresh, Outcome
<1>6. PICK b : b = BufferOf(f)
  OBVIOUS
<1>7. Ready(f, b, m_pl, ring)
  BY <1>1, <1>6, ReadyOfOwn
<1>8. TableInv' /\ Leaves(f, c, y.s, ~y.dead, Holds(y), y.op)
  <2>1. Done(c, b, m_pl, ring, y) /\ b # NoBuffer
    BY <1>2, <1>6
  <2> QED BY <1>1, <1>5, <1>7, <2>1, DoneLeaves
<1>9. Settled(c, y.s, ~y.dead, Holds(y))
  BY <1>2, <1>5 DEF Settled, Balanced
<1>10. Prepares(f, y.todo)
  <2>1. sq' = sq \o y.todo
    BY DEF Done
  <2> QED BY <1>1, <1>5, <1>8, <2>1, DonePrepares
<1>11. ThreadOK'
  BY <1>1 DEF ThreadOK
<1>12. PICK alive, s, h, op, t : /\ alive = (~y.dead) /\ s = y.s /\ h = Holds(y) /\ op = y.op
                                 /\ t = y.todo
  OBVIOUS
<1>13. /\ Leaves(f, c, s, alive, h, op) /\ Settled(c, s, alive, h) /\ alive \in BOOLEAN
       /\ Prepares(f, t)
  BY <1>8, <1>9, <1>10, <1>12
<1>14. OneDescriptorEach'
  BY <1>1, <1>13, ServedDescriptors
<1> QED BY <1>1, <1>3, <1>8, <1>11, <1>13, <1>14, AfterHandler
-----------------------------------------------------------------------------
(* Steps that touch neither the tables nor who is established.             *)
LEMMA QuietStep ==
    ASSUME IInv, UNCHANGED <<fdOwner, table>>, TypeOK', OneDescriptorEach', HandshakeInv', EndInv',
           BytesInv', Alive' => MovesInv',
           \A c \in Clients : hs'[c] = "done" <=> hs[c] = "done",
           Alive' => Alive, pc' # "destroyed" => pc # "destroyed"
    PROVE  IInv'
<1>1. TypeOK /\ fdOwner \in [Fds -> Clients \cup {NoClient}]
  BY Types DEF IInv
<1>2. /\ fdOwner' = fdOwner /\ m_connections' = m_connections /\ ssl' = ssl
      /\ m_pending_handshakes' = m_pending_handshakes /\ m_pl' = m_pl /\ ring' = ring
  BY DEF table
<1>3. \A f \in Fds : fdOwner[f] # NoClient =>
            (hs'[fdOwner[f]] = "done" <=> hs[fdOwner[f]] = "done")
  BY <1>1
<1>4. pc' # "destroyed" => PoolInv'
  BY <1>2 DEF IInv, PoolInv, BufferTable, BufferOf
<1>5. Alive' => TablesInv'
  <2>1. SUFFICES ASSUME TablesInv PROVE TablesInv'
    BY DEF IInv
  <2> QED BY <1>2, <1>3, <2>1 DEF TablesInv, BufferOf
<1>6. PoolContents(m_pl, ring)'
  BY <1>2 DEF IInv, PoolContents
<1> QED BY <1>4, <1>5, <1>6 DEF IInv

(* Nothing is prepared, submitted or completed.                            *)
LEMMA MovesSame ==
    ASSUME QueuesOK, MovesInv, UNCHANGED <<rings, fdOwner, m_connections, ring>>,
           pc' = pc \/ sq = <<>> \/ pc' = "batch"
    PROVE  MovesInv'
<1>1. /\ sq' = sq /\ flying' = flying /\ cq' = cq /\ fdOwner' = fdOwner
      /\ m_connections' = m_connections /\ ring' = ring
      /\ PreparedInv /\ FlyingInv /\ MovedInv /\ WaitersInv
      /\ pc \in {"start", "tick"} => sq = <<>>
  BY DEF MovesInv, rings
<1>2. /\ \A f : BufferOf(f)' = BufferOf(f) /\ Held(BufferOf(f))' = Held(BufferOf(f))
      /\ \A f, kind, n : WaitsFor(f, kind, n)' <=> WaitsFor(f, kind, n)
  BY <1>1 DEF BufferOf, Held, WaitsFor
<1>3. WaitersInv'
  BY <1>1, <1>2 DEF WaitersInv
<1>4. FlyingInv'
  BY <1>1, <1>2 DEF FlyingInv
<1>5. MovedInv'
  <2>1. ASSUME NEW i \in DOMAIN cq, Moved(cq[i])
        PROVE  WaitsFor(cq[i].fd, cq[i].kind, cq[i].res)'
    BY <1>1, <1>2, <2>1 DEF MovedInv
  <2> QED BY <1>1, <2>1 DEF MovedInv
<1>6. PreparedInv'
  <2>1. ASSUME NEW i \in DOMAIN sq, sq[i].kind \in IO
        PROVE  \/ pc' = "batch" /\ fdOwner[sq[i].fd] = NoClient
               \/ WaitsFor(sq[i].fd, sq[i].kind, sq[i].size)'
    <3>1. sq # <<>>
      <4>1. i \in 1 .. Len(sq) /\ Len(sq) \in Nat /\ sq \in Seq(Operation)
        BY <2>1, QueueTypes DEF QueuesOK
      <4> QED BY <4>1, EmptySeq
    <3>2. \/ pc = "batch" /\ fdOwner[sq[i].fd] = NoClient
          \/ WaitsFor(sq[i].fd, sq[i].kind, sq[i].size)
      BY <1>1, <2>1 DEF PreparedInv
    <3> QED BY <1>1, <1>2, <3>1, <3>2
  <2> QED BY <1>1, <2>1 DEF PreparedInv
<1>7. pc' \in {"start", "tick"} => sq' = <<>>
  BY <1>1
<1> QED BY <1>3, <1>4, <1>5, <1>6, <1>7 DEF MovesInv

(* No byte moves; whom a client has reset stays so.                        *)
StaysReset == \A c \in Clients : sock[c].peer = "rst" => sock'[c].peer = "rst"

LEMMA BytesSame ==
    ASSUME TypeOK, BytesInv, UNCHANGED <<cq, fdOwner, m_connections, ring>>, SameBytes, StaysReset
    PROVE  BytesInv'
<1> SUFFICES ASSUME NEW f \in Fds, fdOwner[f] # NoClient, BufferOf(f) # NoBuffer
             PROVE  LET s  == sock'[fdOwner[f]]
                        at == {i \in DOMAIN cq : cq[i].fd = f /\ Moved(cq[i])}
                    IN  /\ \A i, j \in at : i = j
                        /\ \/ s.peer = "rst"
                           \/ /\ at = {} => Held(BufferOf(f)) = s.in - s.out
                              /\ \A i \in at : Held(BufferOf(f)) + Change(cq[i]) = s.in - s.out
  BY DEF BytesInv, BufferOf, Held
<1>1. PICK c, at : c = fdOwner[f] /\ at = {i \in DOMAIN cq : cq[i].fd = f /\ Moved(cq[i])}
  OBVIOUS
<1>2. c \in Clients
  BY <1>1, Types
<1>3. /\ sock'[c].in = sock[c].in /\ sock'[c].out = sock[c].out
      /\ sock[c].peer = "rst" => sock'[c].peer = "rst"
  BY <1>2 DEF SameBytes, StaysReset
<1>4. LET s == sock[c]
      IN  /\ \A i, j \in at : i = j
          /\ \/ s.peer = "rst"
             \/ /\ at = {} => Held(BufferOf(f)) = s.in - s.out
                /\ \A i \in at : Held(BufferOf(f)) + Change(cq[i]) = s.in - s.out
  BY <1>1 DEF BytesInv
<1> QED BY <1>1, <1>3, <1>4

LEMMA ResetStays ==
    ASSUME sock \in [Clients -> Socket], NEW c \in Clients,
           Connects(c) \/ Sends(c) \/ Reads(c) \/ Closes(c) \/ Resets(c)
    PROVE  StaysReset
<1> SUFFICES ASSUME NEW d \in Clients, sock[d].peer = "rst" PROVE sock'[d].peer = "rst"
  BY DEF StaysReset
<1>1. sock[c] \in Socket /\ sock[d] \in Socket
  OBVIOUS
<1>2. CASE Connects(c)
  <2>1. sock' = [sock EXCEPT ![c].phase = "queued"]
    BY <1>2 DEF Connects
  <2> QED BY <2>1, PhaseOnly
<1>3. ASSUME NEW n, sock' = [sock EXCEPT ![c].rx = n] \/ sock' = [sock EXCEPT ![c].tx = n]
      PROVE  sock'[d].peer = "rst"
  BY <1>1, <1>3 DEF Socket
<1>4. CASE Sends(c) \/ Reads(c)
  BY <1>3, <1>4 DEF Sends, Reads
<1>5. CASE Closes(c)
  <2>1. c # d /\ sock' = [sock EXCEPT ![c].peer = "fin"]
    BY <1>5 DEF Closes, Connected
  <2>2. sock'[d] = sock[d]
    BY <1>1, <2>1
  <2> QED BY <2>2
<1>6. CASE Resets(c)
  <2>1. sock' = [sock EXCEPT ![c].peer = "rst", ![c].tx = 0]
    BY <1>6 DEF Resets, AnswersReset, ResetOf
  <2> QED BY <1>1, <2>1 DEF Socket
<1> QED BY <1>2, <1>4, <1>5, <1>6

LEMMA SameClients ==
    ASSUME TypeOK, OneDescriptorEach, UNCHANGED <<sock, fdOwner, backlog>>
    PROVE  OneDescriptorEach' /\ SameBytes /\ StaysReset
<1>1. backlog \in Seq(Clients) /\ fdOwner \in [Fds -> Clients \cup {NoClient}]
  BY Types
<1> QED BY <1>1, DescriptorsKept DEF SameBytes, StaysReset

LEMMA StartSteps ==
    ASSUME IInv, SetUp \/ SetUpFails \/ Tick \/ WaitCqe \/ Stop \/ Rests \/ UNCHANGED vars
    PROVE  IInv'
<1>1. UNCHANGED <<sockets, rings, table>> /\ TableOK /\ QueuesOK /\ ThreadOK /\ TypeOK
  BY TypeParts DEF SetUp, SetUpFails, Tick, WaitCqe, Stop, Rests, vars, IInv
<1>2. /\ held' \subseteq {"ctx", "listen", "epfd"} /\ m_running' \in BOOLEAN
      /\ pc' \in {pc, "tick", "accept", "batch", "threw"}
      /\ pc' # pc => (pc \in {"start", "tick"} \/ pc' = "batch")
      /\ (pc' # pc /\ pc' # "threw") => Alive
      /\ pc' = "threw" => pc \in {"start", "threw"}
      /\ pc' = pc => held' = held
  <2>1. CASE SetUp \/ SetUpFails
    BY <1>1, <2>1 DEF SetUp, SetUpFails, ThreadOK, Alive
  <2>2. CASE Tick \/ WaitCqe
    BY <1>1, <2>2 DEF Tick, WaitCqe, ThreadOK, Alive, Running
  <2>3. CASE Stop \/ Rests \/ UNCHANGED vars
    BY <1>1, <2>3 DEF Stop, Rests, vars, ThreadOK
  <2> QED BY <2>1, <2>2, <2>3
<1>3. TypeOK'
  <2>1. TableOK'
    BY <1>1 DEF TableOK, sockets, table, tls
  <2>2. QueuesOK'
    BY <1>1 DEF QueuesOK, rings
  <2>3. ThreadOK'
    BY <1>1, <1>2 DEF ThreadOK, sockets, tls
  <2> QED BY <2>1, <2>2, <2>3, TypeParts
<1>4. OneDescriptorEach' /\ SameBytes /\ StaysReset
  BY <1>1, SameClients DEF IInv, sockets
<1>5. HandshakeInv'
  BY <1>1 DEF IInv, HandshakeInv, sockets, tls
<1>6. EndInv'
  BY <1>1, <1>2 DEF IInv, EndInv, table, BufferOf
<1>7. (Alive' => Alive) /\ (pc' # "destroyed" => pc # "destroyed")
  BY <1>2 DEF Alive, Running
<1>8. BytesInv'
  BY <1>1, <1>4, BytesSame DEF IInv, sockets, table, rings
<1>9. Alive' => MovesInv'
  <2> SUFFICES ASSUME Alive PROVE MovesInv'
    BY <1>7
  <2>1. MovesInv /\ (pc \in {"start", "tick"} => sq = <<>>)
    BY DEF IInv, MovesInv
  <2> QED BY <1>1, <1>2, <2>1, MovesSame DEF sockets, table
<1>10. \A c \in Clients : hs'[c] = "done" <=> hs[c] = "done"
  BY <1>1 DEF sockets, tls
<1> QED BY <1>1, <1>3, <1>4, <1>5, <1>6, <1>7, <1>8, <1>9, <1>10, QuietStep DEF sockets

(* A completion of nothing that anybody waits for.                         *)
LEMMA SkipsMoves ==
    ASSUME QueuesOK, MovesInv, NEW f \in Fds, Takes(f, 1), pc' = pc,
           pc = "batch", UNCHANGED <<sq, flying, fdOwner, m_connections, ring>>
    PROVE  MovesInv' /\ QueuesOK'
<1>1. /\ sq' = sq /\ flying' = flying /\ fdOwner' = fdOwner
      /\ m_connections' = m_connections /\ ring' = ring
      /\ PreparedInv /\ FlyingInv /\ MovedInv /\ WaitersInv
  BY DEF MovesInv
<1>2. /\ \A g : BufferOf(g)' = BufferOf(g) /\ Held(BufferOf(g))' = Held(BufferOf(g))
      /\ \A g, kind, n : WaitsFor(g, kind, n)' <=> WaitsFor(g, kind, n)
  BY <1>1 DEF BufferOf, Held, WaitsFor
<1>3. \A i \in DOMAIN cq' : i \in Nat /\ i + 1 \in DOMAIN cq /\ cq'[i] = cq[i + 1]
  BY AfterTakes
<1>4. WaitersInv'
  BY <1>1, <1>2 DEF WaitersInv
<1>5. FlyingInv'
  BY <1>1, <1>2, <1>3 DEF FlyingInv
<1>6. PreparedInv'
  BY <1>1, <1>2 DEF PreparedInv
<1>7. MovedInv'
  <2>1. ASSUME NEW i \in DOMAIN cq', NEW e, e = cq'[i], Moved(e)
        PROVE  /\ WaitsFor(e.fd, e.kind, e.res)'
               /\ \A j \in DOMAIN sq : sq[j].fd = e.fd => sq[j].kind \notin IO
               /\ \A j \in DOMAIN cq' : cq'[j].fd = e.fd =>
                        cq'[j].res >= 0 /\ (Moved(cq'[j]) => i = j)
    <3>1. i \in Nat /\ i + 1 \in DOMAIN cq /\ e = cq[i + 1]
      BY <1>3, <2>1
    <3>2. /\ WaitsFor(e.fd, e.kind, e.res)
          /\ \A j \in DOMAIN sq : sq[j].fd = e.fd => sq[j].kind \notin IO
          /\ \A j \in DOMAIN cq : cq[j].fd = e.fd =>
                cq[j].res >= 0 /\ (Moved(cq[j]) => i + 1 = j)
      BY <1>1, <2>1, <3>1 DEF MovedInv
    <3>3. ASSUME NEW j \in DOMAIN cq', cq'[j].fd = e.fd
          PROVE  cq'[j].res >= 0 /\ (Moved(cq'[j]) => i = j)
      <4>1. j \in Nat /\ j + 1 \in DOMAIN cq /\ cq'[j] = cq[j + 1]
        BY <1>3
      <4>2. cq'[j].res >= 0 /\ (Moved(cq'[j]) => i + 1 = j + 1)
        BY <3>2, <3>3, <4>1
      <4>3. i + 1 = j + 1 => i = j
        BY <3>1, <4>1
      <4> QED BY <4>2, <4>3
    <3> QED BY <1>2, <3>2, <3>3
  <2> QED BY <1>1, <2>1 DEF MovedInv
<1>8. QueuesOK'
  BY <1>1 DEF QueuesOK, Takes
<1> QED BY <1>4, <1>5, <1>6, <1>7, <1>8 DEF MovesInv

LEMMA SkipsBytes ==
    ASSUME QueuesOK, BytesInv, NEW f \in Fds, Takes(f, 1), 1 \in DOMAIN cq, ~Moved(cq[1]),
           UNCHANGED <<sock, fdOwner, ring>>, \A g \in Fds : BufferOf(g)' = BufferOf(g)
    PROVE  BytesInv'
<1> SUFFICES ASSUME NEW g \in Fds, fdOwner[g] # NoClient, BufferOf(g) # NoBuffer
             PROVE  LET s  == sock[fdOwner[g]]
                        at == {i \in DOMAIN cq' : cq'[i].fd = g /\ Moved(cq'[i])}
                    IN  /\ \A i, j \in at : i = j
                        /\ \/ s.peer = "rst"
                           \/ /\ at = {} => Held(BufferOf(g)) = s.in - s.out
                              /\ \A i \in at : Held(BufferOf(g)) + Change(cq'[i]) = s.in - s.out
  BY DEF BytesInv, Held
<1>1. PICK s, at, was : /\ s = sock[fdOwner[g]]
                        /\ at = {i \in DOMAIN cq' : cq'[i].fd = g /\ Moved(cq'[i])}
                        /\ was = {i \in DOMAIN cq : cq[i].fd = g /\ Moved(cq[i])}
  OBVIOUS
<1>2. \A i \in DOMAIN cq' : i \in Nat /\ i + 1 \in DOMAIN cq /\ cq'[i] = cq[i + 1]
  BY AfterTakes
<1>3. /\ \A i, j \in was : i = j
      /\ \/ s.peer = "rst"
         \/ /\ was = {} => Held(BufferOf(g)) = s.in - s.out
            /\ \A i \in was : Held(BufferOf(g)) + Change(cq[i]) = s.in - s.out
  BY <1>1 DEF BytesInv
<1>4. \A i \in at : i \in Nat /\ i + 1 \in was /\ cq'[i] = cq[i + 1]
  BY <1>1, <1>2
<1>5. ASSUME NEW i \in was PROVE i - 1 \in at
  <2>1. PICK n \in Nat : n = Len(cq') /\ DOMAIN cq' = 1 .. n /\ DOMAIN cq = 1 .. n + 1
    <3>1. cq' \in Seq(Completion) /\ Len(cq) = Len(cq') + 1
      BY DEF Takes
    <3> QED BY <3>1, LenProperties, QueueTypes
  <2>2. i \in 1 .. n + 1 /\ cq[i].fd = g /\ Moved(cq[i])
    BY <1>1, <2>1
  <2>3. i # 1
    BY <2>2
  <2>4. i - 1 \in 1 .. n /\ (i - 1) + 1 = i
    BY <2>1, <2>2, <2>3
  <2>5. cq'[i - 1] = cq[i]
    BY <1>2, <2>1, <2>4
  <2> QED BY <1>1, <2>1, <2>2, <2>4, <2>5
<1>6. \A i, j \in at : i = j
  <2>1. \A i, j \in at : i + 1 = j + 1 /\ i \in Nat /\ j \in Nat
    BY <1>3, <1>4
  <2> QED BY <2>1
<1>7. at = {} => was = {}
  BY <1>5
<1> QED BY <1>1, <1>3, <1>4, <1>6, <1>7
-----------------------------------------------------------------------------
(* Nothing that has moved is ignored: its connection waits for it.         *)
LEMMA MovedIsExpected ==
    ASSUME IInv, NEW f \in Fds, NEW kind, OfConnection(f, kind), ~Expected(f, kind)
    PROVE  ~Moved(cq[1])
<1>1. TypeOK /\ Handling(f) /\ Head(cq).kind = kind
  BY DEF OfConnection, IInv
<1>2. cq[1] = Head(cq)
  BY <1>1, HandlingTakes
<1> SUFFICES ASSUME Moved(cq[1]) PROVE FALSE
  OBVIOUS
<1>3. m_connections[f].op = kind
  BY <1>1, <1>2, StillMoved
<1> QED BY <1>2, <1>3 DEF Expected, Moved

LEMMA IgnoredStep ==
    ASSUME IInv, NEW f \in Fds, Handling(f), ~Moved(cq[1]), Ignored, hs' = hs,
           pc' = pc \/ pc' = "crashed"
    PROVE  IInv'
<1>1. /\ TypeOK /\ TableOK /\ QueuesOK /\ ThreadOK /\ OneDescriptorEach /\ HandshakeInv
      /\ MovesInv /\ BytesInv /\ pc = "batch" /\ Takes(f, 1) /\ 1 \in DOMAIN cq
      /\ UNCHANGED <<flying, backlog, held, m_running>>
  BY TypeParts, HandlingTakes DEF IInv, Alive, Running
<1>2. UNCHANGED <<sock, fdOwner, inside, sq, table, hs, m_connections, ring>>
  BY DEF Ignored, table
<1>3. QueuesOK'
  BY <1>1, <1>2 DEF QueuesOK, Takes
<1>4. pc' = pc => MovesInv'
  BY <1>1, <1>2, SkipsMoves
<1>5. BytesInv'
  BY <1>1, <1>2, SkipsBytes DEF BufferOf
<1>6. OneDescriptorEach'
  BY <1>1, <1>2, SameClients
<1>7. TypeOK'
  <2>1. TableOK'
    BY <1>1, <1>2 DEF TableOK, table
  <2>2. ThreadOK'
    BY <1>1, <1>2 DEF ThreadOK
  <2> QED BY <1>3, <2>1, <2>2, TypeParts
<1>8. HandshakeInv'
  BY <1>1, <1>2 DEF HandshakeInv
<1>9. EndInv'
  BY <1>1 DEF EndInv
<1>10. (Alive' => Alive /\ pc' = pc) /\ pc # "destroyed"
  BY <1>1 DEF Alive, Running
<1>11. UNCHANGED <<fdOwner, table>>
  BY <1>2
<1>12. \A c \in Clients : hs'[c] = "done" <=> hs[c] = "done"
  OBVIOUS
<1> QED BY <1>4, <1>5, <1>6, <1>7, <1>8, <1>9, <1>10, <1>11, <1>12, QuietStep

LEMMA CrashStep ==
    ASSUME IInv, Crash
    PROVE  IInv'
<1>1. PICK f \in Fds : OfConnection(f, "poll_in")
  BY DEF Crash
<1>2. /\ Handling(f) /\ Head(cq).kind = "poll_in" /\ TypeOK /\ pc' = "crashed"
      /\ Ignored /\ hs' = hs
  BY <1>1 DEF Crash, OfConnection, IInv, tls, Ignored
<1>3. ~Moved(cq[1])
  BY <1>2, HandlingTakes DEF Moved, IO
<1> QED BY <1>2, <1>3, IgnoredStep

(* The ring has moved bytes: the handler accounts for them.                *)
LEMMA MovedStep ==
    ASSUME IInv, NEW f \in Fds, Handling(f), Moved(cq[1]), UNCHANGED <<hs, pc>>,
           NEW c \in Clients, c = fdOwner[f],
           NEW y, Completed(ConnOf(f), Held(BufferOf(f)) + Change(cq[1]), y),
           Done(c, BufferOf(f), m_pl, ring, y)
    PROVE  IInv'
<1>1. PICK x, h, n : x = ConnOf(f) /\ h = Held(BufferOf(f)) /\ n = Change(cq[1])
  OBVIOUS
<1>2. /\ Still(f) /\ BufferOf(f) # NoBuffer /\ f \notin m_pending_handshakes
      /\ sock[c].peer = "rst" \/ h + n = sock[c].in - sock[c].out
  BY <1>1, StillMoved
<1>3. x.s = sock[c] /\ x.fd = f
  BY <1>1, <1>2, ConnOfIsFresh
<1>4. PICK z : Fresh(z) /\ z.s = x.s /\ z.fd = x.fd /\ Holds(z) = h + n /\ Outcome(z, y)
  BY <1>1 DEF Completed
<1>5. Balanced(z)
  BY <1>2, <1>3, <1>4 DEF Balanced
<1> QED BY <1>2, <1>3, <1>4, <1>5, HandledStep

LEMMA RecvStep ==
    ASSUME IInv, RecvCompleted
    PROVE  IInv'
<1>0. UNCHANGED <<hs, pc>>
  BY DEF RecvCompleted
<1>1. PICK f \in Fds :
        /\ OfConnection(f, "recv")
        /\ IF Expected(f, "recv") THEN Handle(f, Received(ConnOf(f), Head(cq).res)) ELSE Ignored
  BY DEF RecvCompleted
<1>2. Handling(f) /\ Head(cq).kind = "recv" /\ TypeOK /\ cq[1] = Head(cq)
  BY <1>1, HandlingTakes DEF OfConnection, IInv
<1>3. CASE ~Expected(f, "recv")
  BY <1>0, <1>1, <1>2, <1>3, MovedIsExpected, IgnoredStep
<1>4. CASE Expected(f, "recv")
  <2>1. Moved(cq[1])
    BY <1>2, <1>4 DEF Expected, Moved, IO
  <2>2. PICK n, h : n = cq[1].res /\ h = Held(BufferOf(f))
    OBVIOUS
  <2>3. /\ fdOwner[f] \in Clients /\ BufferOf(f) # NoBuffer
        /\ n \in Nat /\ n <= Room("recv", h) /\ Change(cq[1]) = n
    BY <1>2, <2>1, <2>2, StillMoved DEF Change
  <2>4. PICK c \in Clients : c = fdOwner[f]
    BY <2>3
  <2>5. PICK y \in Received(ConnOf(f), n) : Done(c, BufferOf(f), m_pl, ring, y)
    BY <1>1, <1>2, <1>4, <2>2, <2>4 DEF Handle
  <2>6. Fresh(ConnOf(f)) /\ Holds(ConnOf(f)) = h
    BY <2>2, <2>3, <2>4, ConnOfIsFresh
  <2>7. PICK x : x = ConnOf(f)
    OBVIOUS
  <2>8. Completed(x, h + n, y)
    <3>1. Fresh(x) /\ n <= Room("recv", Holds(x)) /\ y \in Received(x, n) /\ Holds(x) = h
      BY <2>3, <2>5, <2>6, <2>7
    <3> QED BY <2>3, <3>1, RecvOutcome
  <2> QED BY <1>0, <1>2, <2>1, <2>2, <2>3, <2>4, <2>5, <2>7, <2>8, MovedStep
<1> QED BY <1>3, <1>4

LEMMA SendStep ==
    ASSUME IInv, SendCompleted
    PROVE  IInv'
<1>0. UNCHANGED <<hs, pc>>
  BY DEF SendCompleted
<1>1. PICK f \in Fds :
        /\ OfConnection(f, "send")
        /\ IF Expected(f, "send") THEN Handle(f, SentSome(ConnOf(f), Head(cq).res)) ELSE Ignored
  BY DEF SendCompleted
<1>2. Handling(f) /\ Head(cq).kind = "send" /\ TypeOK /\ cq[1] = Head(cq)
  BY <1>1, HandlingTakes DEF OfConnection, IInv
<1>3. CASE ~Expected(f, "send")
  BY <1>0, <1>1, <1>2, <1>3, MovedIsExpected, IgnoredStep
<1>4. CASE Expected(f, "send")
  <2>1. Moved(cq[1])
    BY <1>2, <1>4 DEF Expected, Moved, IO
  <2>2. PICK n, h : n = cq[1].res /\ h = Held(BufferOf(f))
    OBVIOUS
  <2>3. /\ fdOwner[f] \in Clients /\ BufferOf(f) # NoBuffer
        /\ n \in Nat /\ n <= Room("send", h) /\ Change(cq[1]) = -n
    BY <1>2, <2>1, <2>2, StillMoved DEF Change
  <2>4. PICK c \in Clients : c = fdOwner[f]
    BY <2>3
  <2>5. PICK y \in SentSome(ConnOf(f), n) : Done(c, BufferOf(f), m_pl, ring, y)
    BY <1>1, <1>2, <1>4, <2>2, <2>4 DEF Handle
  <2>6. /\ Fresh(ConnOf(f)) /\ Holds(ConnOf(f)) = h
    BY <2>2, <2>3, <2>4, ConnOfIsFresh
  <2>7. PICK x : x = ConnOf(f)
    OBVIOUS
  <2>8. Completed(x, h - n, y)
    <3>1. Fresh(x) /\ n <= Room("send", Holds(x)) /\ y \in SentSome(x, n) /\ Holds(x) = h
      BY <2>3, <2>5, <2>6, <2>7
    <3> QED BY <2>3, <3>1, SendOutcome
  <2>9. h - n = h + Change(cq[1])
    <3>1. h \in Nat
      BY <2>6, HoldsType DEF Fresh
    <3> QED BY <2>3, <3>1
  <2> QED BY <1>0, <1>2, <2>1, <2>2, <2>4, <2>5, <2>7, <2>8, <2>9, MovedStep
<1> QED BY <1>3, <1>4

(* The ring has moved nothing: the connection is as it was left.           *)
LEMMA PolledStep ==
    ASSUME IInv, NEW f \in Fds, NEW kind, kind \notin IO, OfConnection(f, kind), Expected(f, kind),
           BufferOf(f) # NoBuffer, UNCHANGED <<hs, pc>>,
           NEW y, Outcome(ConnOf(f), y), Done(fdOwner[f], BufferOf(f), m_pl, ring, y)
    PROVE  IInv'
<1>1. /\ Handling(f) /\ f \notin m_pending_handshakes /\ m_connections[f].op = kind
      /\ TypeOK /\ QueuesOK /\ TablesInv /\ MovesInv /\ BytesInv
      /\ pc = "batch" /\ Takes(f, 1) /\ flying' = flying
      /\ fdOwner \in [Fds -> Clients \cup {NoClient}]
  BY TypeParts, HandlingTakes, Types DEF OfConnection, Expected, IInv, Alive, Running
<1>2. fdOwner[f] # NoClient
  BY <1>1 DEF TablesInv
<1>3. PICK c \in Clients : c = fdOwner[f]
  BY <1>1, <1>2
<1>4. \A k \in IO : \A n : ~WaitsFor(f, k, n)
  BY <1>1 DEF WaitsFor
<1>5. Still(f)
  BY <1>1, <1>2, <1>4, StillIdle
<1>6. PICK x : x = ConnOf(f)
  OBVIOUS
<1>7. Fresh(x) /\ x.s = sock[c] /\ x.fd = f /\ Holds(x) = Held(BufferOf(f))
  BY <1>3, <1>6, ConnOfIsFresh
<1>8. Balanced(x)
  <2>1. PICK at : at = {i \in DOMAIN cq : cq[i].fd = f /\ Moved(cq[i])}
    OBVIOUS
  <2>2. ASSUME NEW i \in at PROVE FALSE
    <3>1. i \in DOMAIN cq /\ cq[i].fd = f /\ Moved(cq[i])
      BY <2>1
    <3>2. WaitsFor(f, cq[i].kind, cq[i].res) /\ cq[i].kind \in IO
      BY <1>1, <3>1 DEF MovesInv, MovedInv, Moved
    <3> QED BY <1>4, <3>2
  <2>3. at = {}
    BY <2>2
  <2> QED BY <1>1, <1>2, <1>3, <1>7, <2>1, <2>3 DEF BytesInv, Balanced
<1> QED BY <1>1, <1>3, <1>5, <1>6, <1>7, <1>8, HandledStep

LEMMA PollSteps ==
    ASSUME IInv, PollInCompleted \/ PollOutCompleted
    PROVE  IInv'
<1>0. UNCHANGED <<hs, pc>> /\ TypeOK
  BY DEF PollInCompleted, PollOutCompleted, IInv
<1>1. ASSUME NEW f \in Fds, NEW kind \in {"poll_in", "poll_out"}, OfConnection(f, kind), Ignored
      PROVE  IInv'
  <2>1. Handling(f) /\ Head(cq).kind = kind /\ cq[1] = Head(cq)
    BY <1>0, <1>1, HandlingTakes DEF OfConnection
  <2>2. ~Moved(cq[1])
    BY <2>1 DEF Moved, IO
  <2> QED BY <1>0, <1>1, <2>1, <2>2, IgnoredStep
<1>2. CASE PollInCompleted
  <2>1. PICK f \in Fds :
          /\ OfConnection(f, "poll_in")
          /\ IF Expected(f, "poll_in") /\ BufferOf(f) # NoBuffer
             THEN Handle(f, HandleRead(ConnOf(f)))
             ELSE Ignored
    BY <1>2 DEF PollInCompleted
  <2>2. CASE ~(Expected(f, "poll_in") /\ BufferOf(f) # NoBuffer)
    BY <1>1, <2>1, <2>2
  <2>3. CASE Expected(f, "poll_in") /\ BufferOf(f) # NoBuffer
    <3>1. PICK y \in HandleRead(ConnOf(f)) : Done(fdOwner[f], BufferOf(f), m_pl, ring, y)
      BY <2>1, <2>3 DEF Handle
    <3>2. fdOwner[f] \in Clients
      BY <1>0, <2>1, <2>3, Types, HandlingTakes DEF OfConnection, IInv, Alive, Running, TablesInv
    <3>3. Outcome(ConnOf(f), y)
      BY <2>3, <3>1, <3>2, ConnOfIsFresh, ReadOutcome
    <3>4. "poll_in" \notin IO
      BY DEF IO
    <3> QED BY <1>0, <2>1, <2>3, <3>1, <3>3, <3>4, PolledStep
  <2> QED BY <2>2, <2>3
<1>3. CASE PollOutCompleted
  <2>1. PICK f \in Fds :
          /\ OfConnection(f, "poll_out")
          /\ IF Expected(f, "poll_out") THEN Handle(f, HandleWrite(ConnOf(f))) ELSE Ignored
    BY <1>3 DEF PollOutCompleted
  <2>2. CASE ~Expected(f, "poll_out")
    BY <1>1, <2>1, <2>2
  <2>3. CASE Expected(f, "poll_out")
    <3>0. Handling(f) /\ m_connections[f].op = "poll_out"
      BY <2>1, <2>3 DEF OfConnection, Expected
    <3>1. PICK y \in HandleWrite(ConnOf(f)) : Done(fdOwner[f], BufferOf(f), m_pl, ring, y)
      BY <2>1, <2>3 DEF Handle
    <3>2. BufferOf(f) # NoBuffer /\ fdOwner[f] \in Clients
      <4>1. TablesInv /\ WaitersInv
        BY <1>0, <3>0, HandlingTakes DEF IInv, MovesInv, Alive, Running
      <4>2. BufferOf(f) # NoBuffer
        BY <3>0, <4>1 DEF WaitersInv
      <4> QED BY <1>0, <4>1, <4>2, Types DEF TablesInv
    <3>3. Outcome(ConnOf(f), y)
      BY <3>1, <3>2, ConnOfIsFresh, WriteOutcome
    <3>4. "poll_out" \notin IO
      BY DEF IO
    <3> QED BY <1>0, <2>1, <2>3, <3>1, <3>2, <3>3, <3>4, PolledStep
  <2> QED BY <2>2, <2>3
<1> QED BY <1>2, <1>3
-----------------------------------------------------------------------------
(* A descriptor without a buffer, or of an owner whose handshake is not    *)
(* done: it is given, or taken, or waits for something else.               *)
Unowned(f, owner, op) ==
    /\ BufferOf(f) = NoBuffer /\ UNCHANGED <<inside, m_pl, ring>>
    /\ m_connections' = [m_connections EXCEPT ![f].op = op]
    /\ op \in {"none", "handshake_poll", "poll_in", m_connections[f].op}
    /\ fdOwner' = [fdOwner EXCEPT ![f] = owner]
    /\ owner # NoClient => hs'[owner] # "done"
    /\ ssl' = IF owner = NoClient THEN ssl \ {f} ELSE ssl \cup {f}
    /\ m_pending_handshakes' = IF owner = NoClient THEN m_pending_handshakes \ {f}
                               ELSE m_pending_handshakes \cup {f}
    /\ sock' \in [Clients -> Socket]
    /\ \A g \in Fds : (g # f /\ fdOwner[g] # NoClient) =>
            sock'[fdOwner[g]] = sock[fdOwner[g]] /\ hs'[fdOwner[g]] = hs[fdOwner[g]]

LEMMA UnownedStep ==
    ASSUME IInv, pc \in {"accept", "batch"}, pc' = pc, NEW f \in Fds,
           NEW owner \in Clients \cup {NoClient}, NEW op, Unowned(f, owner, op),
           (pc = "batch" /\ fdOwner[f] = NoClient) => owner = NoClient,
           NEW todo, Prepares(f, todo), NEW k, Takes(f, k), flying' = flying,
           HandshakeInv', OneDescriptorEach', ThreadOK'
    PROVE  IInv'
<1>1. /\ TypeOK /\ TableOK /\ QueuesOK /\ TablesInv /\ MovesInv /\ BytesInv /\ PoolInv
      /\ PoolContents(m_pl, ring) /\ fdOwner \in [Fds -> Clients \cup {NoClient}]
  BY TypeParts, Types DEF IInv, Alive, Running
<1>2. /\ BufferOf(f) = NoBuffer /\ inside' = inside /\ m_pl' = m_pl /\ ring' = ring
      /\ m_connections' = [m_connections EXCEPT ![f].op = op]
      /\ op \in {"none", "handshake_poll", "poll_in", m_connections[f].op}
      /\ fdOwner' = [fdOwner EXCEPT ![f] = owner]
      /\ owner # NoClient => hs'[owner] # "done"
      /\ ssl' = IF owner = NoClient THEN ssl \ {f} ELSE ssl \cup {f}
      /\ m_pending_handshakes' = IF owner = NoClient THEN m_pending_handshakes \ {f}
                                 ELSE m_pending_handshakes \cup {f}
      /\ sock' \in [Clients -> Socket]
      /\ \A g \in Fds : (g # f /\ fdOwner[g] # NoClient) =>
              sock'[fdOwner[g]] = sock[fdOwner[g]] /\ hs'[fdOwner[g]] = hs[fdOwner[g]]
  BY DEF Unowned
<1>3. /\ fdOwner'[f] = owner /\ \A g \in Fds : g # f => fdOwner'[g] = fdOwner[g]
      /\ fdOwner' \in [Fds -> Clients \cup {NoClient}]
  BY <1>1, <1>2
<1>4. op \in Kinds \cup {"none", "handshake_poll"}
  BY <1>1, <1>2 DEF TableOK, Kinds
<1>5. /\ \A g \in Fds : g # f => m_connections'[g] = m_connections[g]
      /\ m_connections'[f].buffer = NoBuffer /\ m_connections'[f].op = op
      /\ m_connections' \in [Fds -> [state  : States \ {"die"},
                                     buffer : 1 .. Len(ring) \cup {NoBuffer},
                                     op     : Kinds \cup {"none", "handshake_poll"}]]
  <2>1. PICK m : m = [m_connections[f] EXCEPT !.op = op]
    OBVIOUS
  <2>2. m_connections[f] \in [state : States \ {"die"}, buffer : 1 .. Len(ring) \cup {NoBuffer},
                              op : Kinds \cup {"none", "handshake_poll"}]
    BY <1>1 DEF TableOK
  <2>3. /\ m \in [state : States \ {"die"}, buffer : 1 .. Len(ring) \cup {NoBuffer},
                  op : Kinds \cup {"none", "handshake_poll"}]
        /\ m.buffer = m_connections[f].buffer /\ m.op = op
    BY ONLY <1>4, <2>1, <2>2
  <2>4. m_connections' = [m_connections EXCEPT ![f] = m]
    BY <1>2, <2>1
  <2>5. m.buffer = NoBuffer
    BY <1>2, <2>3 DEF BufferOf
  <2>6. m_connections \in [Fds -> [state  : States \ {"die"},
                                  buffer : 1 .. Len(ring) \cup {NoBuffer},
                                  op     : Kinds \cup {"none", "handshake_poll"}]]
    BY <1>1 DEF TableOK
  <2> QED BY <2>3, <2>4, <2>5, <2>6
<1>6. \A g \in Fds : BufferOf(g)' = BufferOf(g)
  BY <1>2, <1>5 DEF BufferOf
<1>7. Apart(f)
  BY <1>2, <1>3, <1>5, <1>6 DEF Apart, Held
<1>8. \A kind \in IO : \A n : ~WaitsFor(f, kind, n)
  BY <1>2 DEF WaitsFor
<1>9. Still(f)
  BY <1>1, <1>3, <1>8, StillIdle
<1>10. m_connections'[f].op \notin IO \cup {"poll_out"}
  BY <1>1, <1>2, <1>5 DEF MovesInv, WaitersInv, IO
<1>11. MovesInv' /\ QueuesOK'
  BY <1>1, <1>7, <1>9, <1>10, MovesAfter
<1>12. BytesInv'
  <2>1. BufferOf(f)' = NoBuffer
    BY <1>2, <1>6
  <2> QED BY <1>1, <1>2, <1>7, <1>9, <2>1, BytesAfter
<1>13. TablesInv'
  <2>1. ASSUME NEW g \in Fds
        PROVE  /\ g \in ssl' <=> fdOwner'[g] # NoClient
               /\ g \in m_pending_handshakes' <=>
                      (fdOwner'[g] # NoClient /\ hs'[fdOwner'[g]] # "done")
               /\ BufferOf(g) # NoBuffer <=> (fdOwner'[g] # NoClient /\ hs'[fdOwner'[g]] = "done")
    <3>1. CASE g = f
      BY <1>2, <1>3, <3>1
    <3>2. CASE g # f
      BY <1>1, <1>2, <1>3, <3>2 DEF TablesInv
    <3> QED BY <3>1, <3>2
  <2> QED BY <1>6, <2>1 DEF TablesInv
<1>14. PoolInv' /\ PoolContents(m_pl, ring)'
  <2>1. BufferTable' = BufferTable
    BY <1>6 DEF BufferTable
  <2> QED BY <1>1, <1>2, <2>1 DEF PoolInv, PoolContents
<1>15. TableOK'
  BY <1>1, <1>2, <1>3, <1>5 DEF TableOK
<1>16. EndInv'
  BY DEF EndInv
<1> QED BY <1>11, <1>12, <1>13, <1>14, <1>15, <1>16, TypeParts DEF IInv

LEMMA PollsPrepare ==
    ASSUME NEW f \in Fds, NEW x \in ConnType, Fits(x), OnlyPolls(x), x.fd = f, sq' = sq \o x.todo
    PROVE  Prepares(f, x.todo)
    BY HoldsType DEF Fits, OnlyPolls, Prepares

LEMMA NothingPrepares ==
    ASSUME QueuesOK, NEW f, sq' = sq
    PROVE  \E todo : Prepares(f, todo)
<1>1. PICK t \in Seq(Operation) : t = <<>> /\ Len(t) = 0
  BY EmptySeq
<1>2. DOMAIN t = 1 .. 0
  BY <1>1, LenProperties
<1>3. 1 .. 0 = {}
  OBVIOUS
<1>4. DOMAIN t = {}
  BY <1>2, <1>3
<1>5. sq \in Seq(Operation) /\ Len(sq) \in Nat /\ Len(sq) <= RingEntries
  BY QueueTypes DEF QueuesOK
<1>6. sq \o <<>> = sq
  BY <1>5, ConcatEmptySeq
<1>7. sq' = sq \o t
  BY <1>1, <1>6
<1>8. Len(sq) + Len(t) <= RingEntries
  BY <1>1, <1>5
<1>9. Prepares(f, t)
  BY <1>1, <1>4, <1>7, <1>8 DEF Prepares
<1> QED BY <1>9

(* No completion is taken while connections are accepted.                  *)
LEMMA NothingTaken ==
    ASSUME QueuesOK, NEW f, cq' = cq
    PROVE  Takes(f, 0)
<1>1. cq \in Seq(Completion) /\ Len(cq) \in Nat /\ DOMAIN cq = 1 .. Len(cq)
  BY QueueTypes DEF QueuesOK
<1>2. \A i \in DOMAIN cq : i + 0 = i
  BY <1>1
<1>3. Len(cq) = Len(cq) + 0
  BY <1>1
<1> QED BY <1>1, <1>2, <1>3 DEF Takes

(* An operation has failed: what has the descriptor is removed.            *)
LEMMA ErrorStep ==
    ASSUME IInv, ErrorCompleted
    PROVE  IInv'
<1>1. PICK f \in Fds :
        /\ Handling(f) /\ Failed(Head(cq))
        /\ RemoveConnection(f, sock[fdOwner[f]], BufferOf(f), m_pl, ring)
        /\ CloseOf(f, sock[fdOwner[f]])
  BY DEF ErrorCompleted
<1>2. hs' = hs /\ inside' = inside /\ sq' = sq /\ pc' = pc
  BY DEF ErrorCompleted, tls
<1>3. /\ TypeOK /\ TableOK /\ QueuesOK /\ ThreadOK /\ OneDescriptorEach /\ HandshakeInv
      /\ TablesInv /\ MovesInv /\ PoolInv /\ PoolContents(m_pl, ring)
      /\ pc = "batch" /\ Takes(f, 1) /\ cq[1].res < 0
      /\ UNCHANGED <<flying, backlog, held, m_running>>
      /\ fdOwner \in [Fds -> Clients \cup {NoClient}] /\ NoClient \notin Clients
      /\ sock \in [Clients -> Socket] /\ backlog \in Seq(Clients)
  BY <1>1, TypeParts, Types, HandlingTakes, SocketAssumption DEF IInv, Alive, Running, Failed
<1>4. ThreadOK'
  BY <1>2, <1>3 DEF ThreadOK
<1>5. PICK todo : Prepares(f, todo)
  BY <1>2, <1>3, NothingPrepares
<1>6. CASE fdOwner[f] = NoClient
  <2>1. UNCHANGED <<sock, fdOwner>> /\ BufferOf(f) = NoBuffer
    BY <1>1, <1>3, <1>6 DEF CloseOf, TablesInv
  <2>2. /\ ssl' = ssl \ {f} /\ m_pending_handshakes' = m_pending_handshakes \ {f}
        /\ m_pl' = m_pl /\ ring' = ring
        /\ m_connections' = [m_connections EXCEPT ![f] = Forgotten(f)]
    BY <1>1, <2>1 DEF RemoveConnection
  <2>3. Forgotten(f) = [m_connections[f] EXCEPT !.op = "none"]
    <3>1. m_connections[f].buffer = NoBuffer /\ m_connections[f] \in
                [state : States \ {"die"}, buffer : 1 .. Len(ring) \cup {NoBuffer},
                 op : Kinds \cup {"none", "handshake_poll"}]
      BY <1>3, <2>1 DEF BufferOf, TableOK
    <3> QED BY <3>1 DEF Forgotten
  <2>4. m_connections' = [m_connections EXCEPT ![f].op = "none"]
    BY <2>2, <2>3
  <2>5. fdOwner' = [fdOwner EXCEPT ![f] = NoClient]
    BY <1>3, <1>6, <2>1
  <2>6. PICK owner, op : owner = NoClient /\ op = "none"
    OBVIOUS
  <2>7. Unowned(f, owner, op)
    BY <1>2, <1>3, <2>1, <2>2, <2>4, <2>5, <2>6 DEF Unowned
  <2>8. HandshakeInv' /\ OneDescriptorEach'
    BY <1>2, <1>3, <2>1, SameClients DEF HandshakeInv
  <2> QED BY <1>2, <1>3, <1>4, <1>5, <2>6, <2>7, <2>8, UnownedStep
<1>7. CASE fdOwner[f] # NoClient
  <2>1. PICK c \in Clients : c = fdOwner[f]
    BY <1>3, <1>7
  <2>2. PICK s, b : s = sock[c] /\ b = BufferOf(f) /\ s \in Socket
    BY <1>3
  <2>3. Removes(f, c, s, b, m_pl, ring)
    BY <1>1, <1>7, <2>1, <2>2 DEF Removes, CloseOf
  <2>4. Ready(f, b, m_pl, ring)
    BY <1>3, <2>2, ReadyOfOwn
  <2>5. inside' \in [Clients -> 0 .. MaxBytes]
    BY <1>2, <1>3 DEF TableOK
  <2>6. PICK alive, h, op : alive = FALSE /\ h = 0 /\ op = "none"
    OBVIOUS
  <2>13. alive \in BOOLEAN
    BY <2>6
  <2>7. TableInv' /\ Leaves(f, c, s, alive, h, op)
    <3>1. TableInv' /\ Leaves(f, c, s, FALSE, h, op)
      BY ONLY <1>3, <2>2, <2>3, <2>4, <2>5, RemoveLeaves
    <3> QED BY <2>6, <3>1
  <2>8. Settled(c, s, alive, h)
    BY <1>2, <1>3, <1>7, <2>1, <2>2, <2>6 DEF Settled, HandshakeInv, OneDescriptorEach
  <2>9. \A g \in Fds : g # f => fdOwner[g] # c
    BY <1>3, <1>7, <2>1 DEF OneDescriptorEach
  <2>10. fdOwner'[f] = NoClient
    BY <1>3, <2>3 DEF Removes
  <2>11. Still(f)
    BY <1>1, <1>3, <2>10, StillFailed
  <2>12. OneDescriptorEach'
    BY <1>3, <2>1, <2>7, <2>8, <2>13, ServedDescriptors
  <2>14. Takes(f, 1) /\ pc \in {"accept", "batch"} /\ pc' = pc
    BY <1>2, <1>3
  <2> QED BY ONLY IInv, <1>4, <1>5, <2>7, <2>8, <2>9, <2>11, <2>12, <2>13, <2>14, AfterHandler
<1> QED BY <1>6, <1>7
-----------------------------------------------------------------------------
(* What a call of SSL_do_handshake may do to the handshake.                *)
LEMMA HandshakeResults ==
    ASSUME TypeOK, NEW c \in Clients, NEW o \in Handshakes(c)
    PROVE  /\ o.hs \in Phase
           /\ o.ret = "ok" => o.hs = "done"
           /\ o.ret = "want" => (o.hs = "done" <=> hs[c] = "done")
           /\ o.ret \notin {"ok", "want"} => o.hs = hs[c]
<1>1. hs[c] \in Phase
  BY DEF TypeOK, TlsTypeOK
<1>2. \/ o = [ret |-> "error", hs |-> hs[c]]
      \/ hs[c] = "ready" /\ o = [ret |-> "ok", hs |-> "done"]
      \/ hs[c] = "hello" /\ (o = [ret |-> "want", hs |-> "replied"] \/ o = [ret |-> "ok", hs |-> "done"])
      \/ o = [ret |-> "want", hs |-> hs[c]]
  BY DEF Handshakes
<1> QED BY <1>1, <1>2 DEF Phase

(* A handshake with client c goes on, at descriptor f: an accept, or the   *)
(* completion of its poll.                                                 *)
Shakes(f, c, k) ==
    /\ pc \in {"accept", "batch"} /\ pc' = pc /\ Takes(f, k)
    /\ UNCHANGED <<flying, held, m_running>>
    /\ BufferOf(f) = NoBuffer /\ \A g \in Fds : g # f => fdOwner[g] # c
    /\ hs[c] # "done" /\ sock[c].in = 0 /\ sock[c].out = 0
    /\ pc = "batch" => fdOwner[f] # NoClient
    /\ \/ c = fdOwner[f] /\ backlog' = backlog /\ sock[c].phase = "open"
       \/ /\ f \in FreeFds /\ backlog # <<>> /\ backlog' = Tail(backlog) /\ c = Head(backlog)
          /\ sock[c].phase = "queued"

LEMMA AcceptShakes ==
    ASSUME IInv, NEW f \in Fds, NEW c \in Clients, Accept(f, c)
    PROVE  Shakes(f, c, 0)
<1>1. /\ pc = "accept" /\ backlog # <<>> /\ backlog' = Tail(backlog) /\ c = Head(backlog)
      /\ UNCHANGED <<flying, cq, held, m_running, pc>> /\ f \in FreeFds /\ fdOwner[f] = NoClient
  BY DEF Accept, Lowest, FreeFds
<1>2. /\ TypeOK /\ QueuesOK /\ OneDescriptorEach /\ TablesInv /\ HandshakeInv
      /\ backlog \in Seq(Clients) /\ NoClient \notin Clients
  BY <1>1, TypeParts, Types, SocketAssumption DEF IInv, Alive, Running
<1>3. BufferOf(f) = NoBuffer
  BY <1>1, <1>2 DEF TablesInv
<1>4. c = backlog[1] /\ 1 \in 1 .. Len(backlog)
  <2>1. c = backlog[1] /\ Len(backlog) \in Nat /\ Len(backlog) # 0
    BY <1>1, <1>2, HeadTailProperties, LenProperties, EmptySeq
  <2> QED BY <2>1
<1>5. sock[c].phase = "queued"
  BY <1>2, <1>4 DEF OneDescriptorEach
<1>6. hs[c] # "done" /\ sock[c].in = 0 /\ sock[c].out = 0
  BY <1>2, <1>5 DEF HandshakeInv, OneDescriptorEach
<1>7. \A g \in Fds : fdOwner[g] # c
  BY <1>2, <1>5 DEF OneDescriptorEach
<1>8. Takes(f, 0)
  BY <1>1, <1>2, NothingTaken
<1> QED BY <1>1, <1>3, <1>5, <1>6, <1>7, <1>8 DEF Shakes

LEMMA PendingShakes ==
    ASSUME IInv, NEW f \in Fds, Handling(f), f \in m_pending_handshakes, pc' = pc
    PROVE  fdOwner[f] \in Clients /\ Shakes(f, fdOwner[f], 1)
<1>1. /\ TypeOK /\ OneDescriptorEach /\ TablesInv /\ HandshakeInv
      /\ pc = "batch" /\ Takes(f, 1) /\ UNCHANGED <<flying, backlog, held, m_running>>
      /\ fdOwner \in [Fds -> Clients \cup {NoClient}]
  BY HandlingTakes, Types DEF IInv, Alive, Running
<1>2. fdOwner[f] # NoClient /\ hs[fdOwner[f]] # "done" /\ BufferOf(f) = NoBuffer
  BY <1>1 DEF TablesInv
<1>3. PICK c \in Clients : c = fdOwner[f]
  BY <1>1, <1>2
<1>4. \A g \in Fds : g # f => fdOwner[g] # c
  BY <1>1, <1>2, <1>3 DEF OneDescriptorEach
<1>5. sock[c].phase = "open"
  BY <1>1, <1>2, <1>3 DEF OneDescriptorEach
<1>6. sock[c].in = 0 /\ sock[c].out = 0
  BY <1>1, <1>2, <1>3 DEF HandshakeInv
<1> QED BY <1>1, <1>2, <1>3, <1>4, <1>5, <1>6 DEF Shakes

LEMMA ShakesThread ==
    ASSUME TypeOK, NEW f, NEW c \in Clients, NEW k, Shakes(f, c, k), hs' \in [Clients -> Phase]
    PROVE  ThreadOK'
<1>1. ThreadOK /\ backlog \in Seq(Clients) /\ UNCHANGED <<held, m_running, pc>>
  BY TypeParts, Types DEF Shakes
<1>2. backlog' \in Seq(Clients)
  <2>1. CASE backlog' = backlog
    BY <1>1, <2>1
  <2>2. CASE backlog' # backlog
    BY <1>1, <2>2, HeadTailProperties DEF Shakes
  <2> QED BY <2>1, <2>2
<1> QED BY <1>1, <1>2 DEF ThreadOK

(* The handshake is done: the connection is registered, and greeted.       *)
LEMMA EstablishedLeaves ==
    ASSUME TypeOK, PoolInv, PoolContents(m_pl, ring), NEW f \in Fds, NEW c \in Clients,
           BufferOf(f) = NoBuffer, Established(f, c), sock[c].in = 0, sock[c].out = 0,
           hs' = [hs EXCEPT ![c] = "done"]
    PROVE  /\ TableInv'
           /\ \E s, h, op, todo : \E alive \in BOOLEAN :
                /\ Leaves(f, c, s, alive, h, op) /\ Settled(c, s, alive, h)
                /\ Prepares(f, todo)
<1>1. TableOK /\ hs \in [Clients -> Phase]
  BY TypeParts DEF ThreadOK
<1>2. PICK pool, buffers, b : pool = PoolWithout /\ buffers = RingWithNew /\ b = Allocated
  OBVIOUS
<1>3. Ready(f, b, pool, buffers) /\ buffers[b] = EmptyRing
  BY <1>2, ReadyOfNew
<1>4. PICK s : s = [sock[c] EXCEPT !.phase = "open"]
  OBVIOUS
<1>5. s \in Socket /\ s.phase = "open" /\ s.in = 0 /\ s.out = 0
  <2>1. sock[c] \in Socket
    BY <1>1 DEF TableOK
  <2> QED BY <1>4, <2>1 DEF Socket
<1>6. PICK w : w = Conn(f, c, s, EmptyRing)
  OBVIOUS
<1>7. Fresh(w) /\ w.s = s /\ w.fd = f /\ Holds(w) = 0
  <2>1. PICK r \in CounterPair : r = EmptyRing /\ Count(r.head, r.tail) = 0
    BY EmptyHoldsNothing
  <2>2. Count(r.head, r.tail) <= BufferSize
    BY <2>1, CounterFacts
  <2>3. w = Conn(f, c, s, r)
    BY <1>6, <2>1
  <2>4. Fresh(w) /\ w.s = s /\ w.fd = f /\ Holds(w) = Count(r.head, r.tail)
    BY <1>5, <2>2, <2>3, ConnIsFresh
  <2> QED BY <2>1, <2>4
<1>8. PICK x : x = [w EXCEPT !.op = "none"]
  OBVIOUS
<1>9. Fresh(x) /\ x.s = s /\ x.fd = f /\ Holds(x) = 0
  <2>1. PICK op \in Kinds \cup {"none", "handshake_poll"} : op = "none"
    OBVIOUS
  <2>2. x = [w EXCEPT !.op = op]
    BY <1>8, <2>1
  <2>3. Fresh(x) /\ x.s = w.s /\ x.fd = w.fd /\ Holds(x) = Holds(w)
    BY <1>7, <2>2, FreshOp
  <2> QED BY <1>7, <2>3
<1>10. PICK y \in Greet(x) : Done(c, b, pool, buffers, y)
  BY <1>2, <1>3, <1>4, <1>6, <1>8 DEF Established
<1>11. Outcome(x, y)
  BY <1>9, GreetOutcome
<1>12. x \in ConnType /\ Balanced(x)
  BY <1>5, <1>9 DEF Fresh, Balanced
<1>13. /\ y \in ConnType /\ Holds(y) <= BufferSize /\ y.s.phase = "open" /\ y.fd = f
       /\ Fits(y) /\ OneMove(y) /\ Balanced(y)
  BY <1>5, <1>9, <1>11, <1>12, BytesSettled DEF Outcome
<1>14. b # NoBuffer
  <2>1. Allocated # 0
    BY ContentsAllocated, Types, SMT
  <2> QED BY <1>2, <2>1 DEF NoBuffer
<1>15. TableInv' /\ Leaves(f, c, y.s, ~y.dead, Holds(y), y.op)
  BY <1>3, <1>10, <1>13, <1>14, DoneLeaves
<1>16. Settled(c, y.s, ~y.dead, Holds(y))
  BY <1>1, <1>13 DEF Settled, Balanced
<1>17. Prepares(f, y.todo)
  <2>1. sq' = sq \o y.todo
    BY <1>10 DEF Done
  <2> QED BY <1>13, <1>15, <2>1, DonePrepares
<1>18. PICK alive, u, h, op, todo : /\ alive = (~y.dead) /\ u = y.s /\ h = Holds(y)
                                    /\ op = y.op /\ todo = y.todo
  OBVIOUS
<1>19. /\ alive \in BOOLEAN /\ Leaves(f, c, u, alive, h, op) /\ Settled(c, u, alive, h)
       /\ Prepares(f, todo)
  BY <1>15, <1>16, <1>17, <1>18
<1> QED BY <1>15, <1>19

LEMMA EstablishedStep ==
    ASSUME IInv, NEW f \in Fds, NEW c \in Clients, NEW k, Shakes(f, c, k), Established(f, c),
           NEW o \in Handshakes(c), o.ret = "ok", hs' = [hs EXCEPT ![c] = o.hs]
    PROVE  IInv'
<1>1. /\ pc \in {"accept", "batch"} /\ pc' = pc /\ Takes(f, k) /\ flying' = flying
      /\ BufferOf(f) = NoBuffer /\ \A g \in Fds : g # f => fdOwner[g] # c
      /\ sock[c].in = 0 /\ sock[c].out = 0 /\ (pc = "batch" => fdOwner[f] # NoClient)
      /\ \/ c = fdOwner[f] /\ backlog' = backlog
         \/ f \in FreeFds /\ backlog # <<>> /\ backlog' = Tail(backlog) /\ c = Head(backlog)
  BY DEF Shakes
<1>2. /\ TypeOK /\ QueuesOK /\ ThreadOK /\ OneDescriptorEach /\ MovesInv /\ PoolInv
      /\ PoolContents(m_pl, ring)
  BY <1>1, TypeParts DEF IInv, Alive, Running
<1>3. hs' = [hs EXCEPT ![c] = "done"]
  BY <1>2, HandshakeResults
<1>4. /\ TableInv'
      /\ \E s, h, op, todo : \E alive \in BOOLEAN :
            /\ Leaves(f, c, s, alive, h, op) /\ Settled(c, s, alive, h)
            /\ Prepares(f, todo)
  BY <1>1, <1>2, <1>3, EstablishedLeaves
<1>5. PICK s, h, op, todo : \E alive \in BOOLEAN :
            /\ Leaves(f, c, s, alive, h, op) /\ Settled(c, s, alive, h)
            /\ Prepares(f, todo)
  BY <1>4
<1>6. PICK alive \in BOOLEAN :
            /\ Leaves(f, c, s, alive, h, op) /\ Settled(c, s, alive, h)
            /\ Prepares(f, todo)
  BY <1>5
<1>7. \A kind \in IO : \A n : ~WaitsFor(f, kind, n)
  BY <1>1 DEF WaitsFor
<1>8. Still(f)
  BY <1>1, <1>2, <1>7, StillIdle
<1>9. hs' \in [Clients -> Phase]
  BY <1>2, <1>3 DEF ThreadOK, Phase
<1>10. ThreadOK'
  BY <1>2, <1>9, ShakesThread
<1>11. OneDescriptorEach'
  <2>1. CASE c = fdOwner[f] /\ backlog' = backlog
    BY <1>2, <1>6, <2>1, ServedDescriptors
  <2>2. CASE f \in FreeFds /\ backlog # <<>> /\ backlog' = Tail(backlog) /\ c = Head(backlog)
    BY <1>2, <1>6, <2>2, AcceptedOwner
  <2> QED BY <1>1, <2>1, <2>2
<1> QED BY <1>1, <1>4, <1>6, <1>8, <1>10, <1>11, AfterHandler

(* The handshake goes on: its descriptor waits for more.                   *)
LEMMA WaitsStep ==
    ASSUME IInv, NEW f \in Fds, NEW c \in Clients, NEW k, Shakes(f, c, k), Waits(f, c),
           NEW o \in Handshakes(c), o.ret = "want", hs' = [hs EXCEPT ![c] = o.hs]
    PROVE  IInv'
<1>1. /\ pc \in {"accept", "batch"} /\ pc' = pc /\ Takes(f, k) /\ flying' = flying
      /\ BufferOf(f) = NoBuffer /\ (\A g \in Fds : g # f => fdOwner[g] # c)
      /\ hs[c] # "done" /\ sock[c].in = 0 /\ sock[c].out = 0
      /\ (pc = "batch" => fdOwner[f] # NoClient)
      /\ \/ c = fdOwner[f] /\ backlog' = backlog /\ sock[c].phase = "open"
         \/ f \in FreeFds /\ backlog # <<>> /\ backlog' = Tail(backlog) /\ c = Head(backlog)
  BY DEF Shakes
<1>2. /\ TypeOK /\ TableOK /\ QueuesOK /\ ThreadOK /\ OneDescriptorEach /\ HandshakeInv
      /\ sock \in [Clients -> Socket] /\ backlog \in Seq(Clients)
      /\ fdOwner \in [Fds -> Clients \cup {NoClient}] /\ NoClient \notin Clients
  BY TypeParts, Types, SocketAssumption DEF IInv
<1>3. PICK w, r : w = Conn(f, c, sock[c], r) /\ r = EmptyRing
  OBVIOUS
<1>4. Fresh(w) /\ w.fd = f
  <2>1. r \in CounterPair /\ Count(r.head, r.tail) <= BufferSize
    BY <1>3, EmptyHoldsNothing, CounterFacts
  <2>2. PICK s \in Socket : s = sock[c]
    BY <1>2
  <2>3. w = Conn(f, c, s, r)
    BY <1>3, <2>2
  <2> QED BY <1>2, <2>1, <2>3, ConnIsFresh
<1>5. PICK z : z = [w EXCEPT !.op = "handshake_poll"]
  OBVIOUS
<1>6. Fresh(z) /\ z.fd = f /\ z.op = "handshake_poll"
  <2>1. PICK op \in Kinds \cup {"none", "handshake_poll"} : op = "handshake_poll"
    OBVIOUS
  <2>2. z = [w EXCEPT !.op = op]
    BY <1>5, <2>1
  <2>3. Fresh(z) /\ z.fd = w.fd /\ z.op = op
    BY <1>4, <2>2, FreshOp
  <2> QED BY <1>4, <2>1, <2>3
<1>7. PICK x : x = Poll(z, "poll_in")
  OBVIOUS
<1>8. Asked(z, x) /\ OnlyPolls(x)
  <2>1. PICK kind \in {"poll_in", "poll_out"} : kind = "poll_in"
    OBVIOUS
  <2>2. x = Poll(z, kind)
    BY <1>7, <2>1
  <2> QED BY <1>6, <2>2, PollAsked
<1>9. x \in ConnType /\ Fits(x) /\ x.fd = f
  BY <1>6, <1>8 DEF Asked, Same
<1>10. x.op \in {"handshake_poll", "poll_in"}
  <2>1. CASE ~CanSubmit(z)
    BY <1>6, <1>7, <2>1 DEF Poll
  <2>2. CASE CanSubmit(z)
    <3>1. PICK t : t = Append(z.todo, [kind |-> "poll_in", fd |-> z.fd, size |-> 0])
      OBVIOUS
    <3>2. x = [z EXCEPT !.op = "poll_in", !.todo = t]
      BY <1>7, <2>2, <3>1 DEF Poll
    <3>3. z \in ConnType
      BY <1>6 DEF Fresh
    <3> QED BY <3>2, <3>3 DEF ConnType
  <2> QED BY <2>1, <2>2
<1>11. /\ sq' = sq \o x.todo
       /\ m_connections' = [m_connections EXCEPT ![f].op = x.op]
       /\ ssl' = ssl \cup {f} /\ m_pending_handshakes' = m_pending_handshakes \cup {f}
       /\ sock' = [sock EXCEPT ![c].phase = "open"] /\ fdOwner' = [fdOwner EXCEPT ![f] = c]
       /\ UNCHANGED <<inside, m_pl, ring>>
  BY <1>3, <1>5, <1>7 DEF Waits, HandshakePoll
<1>12. PICK todo : Prepares(f, todo)
  BY <1>9, <1>8, <1>11, PollsPrepare
<1>13. /\ hs' \in [Clients -> Phase] /\ hs'[c] # "done"
       /\ \A d \in Clients : d # c => hs'[d] = hs[d]
  <2>1. o.hs \in Phase /\ o.hs # "done"
    BY <1>1, <1>2, HandshakeResults
  <2> QED BY <1>2, <2>1 DEF ThreadOK
<1>14. /\ sock' \in [Clients -> Socket] /\ sock'[c].phase = "open"
       /\ \A d \in Clients : d # c => sock'[d] = sock[d]
       /\ \A d \in Clients : sock'[d].in = sock[d].in /\ sock'[d].out = sock[d].out
  <2>1. PICK t : t = sock'
    OBVIOUS
  <2>2. t = [sock EXCEPT ![c].phase = "open"]
    BY <1>11, <2>1
  <2>3. t \in [Clients -> Socket]
    BY <1>2, <2>2, PhaseType
  <2>4. \A d \in Clients : t[d].in = sock[d].in /\ t[d].out = sock[d].out
    BY <1>2, <2>2, PhaseOnly
  <2>5. t[c].phase = "open" /\ \A d \in Clients : d # c => t[d] = sock[d]
    BY <1>2, <2>2 DEF Socket
  <2> QED BY <2>1, <2>3, <2>4, <2>5
<1>15. PICK op, owner : op = x.op /\ owner = c
  OBVIOUS
<1>16. Unowned(f, owner, op)
  <2>1. \A g \in Fds : (g # f /\ fdOwner[g] # NoClient) =>
            sock'[fdOwner[g]] = sock[fdOwner[g]] /\ hs'[fdOwner[g]] = hs[fdOwner[g]]
    BY <1>1, <1>2, <1>13, <1>14
  <2>2. owner # NoClient
    BY <1>2, <1>15
  <2> QED BY <1>1, <1>10, <1>11, <1>13, <1>14, <1>15, <2>1, <2>2 DEF Unowned
<1>17. HandshakeInv'
  BY <1>1, <1>2, <1>13, <1>14 DEF HandshakeInv
<1>18. OneDescriptorEach'
  <2>1. CASE c = fdOwner[f] /\ backlog' = backlog /\ sock[c].phase = "open"
    <3>1. fdOwner' = fdOwner
      BY <1>2, <1>11, <2>1
    <3>2. \A d \in Clients : sock'[d].phase = sock[d].phase
      BY <1>14, <2>1
    <3> QED BY <1>2, <1>14, <2>1, <3>1, <3>2, DescriptorsKept
  <2>2. CASE f \in FreeFds /\ backlog # <<>> /\ backlog' = Tail(backlog) /\ c = Head(backlog)
    <3>1. PICK phase \in {"open", "closed"} : phase = "open"
      OBVIOUS
    <3>2. AcceptsAs(c, f, phase)
      BY <1>11, <1>14, <2>2, <3>1 DEF AcceptsAs
    <3> QED BY <1>2, <2>2, <3>2, AcceptedDescriptors
  <2> QED BY <1>1, <2>1, <2>2
<1>19. ThreadOK'
  BY <1>2, <1>13, ShakesThread
<1>20. owner \in Clients \cup {NoClient} /\ ((pc = "batch" /\ fdOwner[f] = NoClient) => owner = NoClient)
  BY <1>1, <1>15
<1> QED BY <1>1, <1>12, <1>16, <1>17, <1>18, <1>19, <1>20, UnownedStep

(* The handshake fails, after its connection was accepted.                 *)
LEMMA HandshakeFailsStep ==
    ASSUME IInv, NEW f \in Fds, NEW c \in Clients, Shakes(f, c, 1), c = fdOwner[f],
           NEW o \in Handshakes(c), o.ret \notin {"ok", "want"}, hs' = [hs EXCEPT ![c] = o.hs],
           ssl' = ssl \ {f}, m_pending_handshakes' = m_pending_handshakes \ {f},
           CloseOf(f, sock[c]), UNCHANGED <<inside, sq, m_connections, m_pl, ring>>
    PROVE  IInv'
<1>1. /\ pc \in {"accept", "batch"} /\ pc' = pc /\ Takes(f, 1) /\ flying' = flying
      /\ BufferOf(f) = NoBuffer /\ (\A g \in Fds : g # f => fdOwner[g] # c)
      /\ hs[c] # "done" /\ sock[c].in = 0 /\ sock[c].out = 0
      /\ \/ backlog' = backlog
         \/ f \in FreeFds
  BY DEF Shakes
<1>2. /\ TypeOK /\ TableOK /\ QueuesOK /\ ThreadOK /\ OneDescriptorEach /\ HandshakeInv
      /\ sock \in [Clients -> Socket] /\ backlog \in Seq(Clients)
      /\ fdOwner \in [Fds -> Clients \cup {NoClient}] /\ NoClient \notin Clients
  BY TypeParts, Types, SocketAssumption DEF IInv
<1>3. c # NoClient /\ backlog' = backlog
  BY <1>1, <1>2 DEF FreeFds
<1>4. hs' = hs
  <2>1. o.hs = hs[c] /\ hs \in [Clients -> Phase]
    BY <1>2, HandshakeResults DEF ThreadOK
  <2> QED BY <2>1
<1>5. /\ sock' = [sock EXCEPT ![c] = [sock[c] EXCEPT !.phase = "closed"]]
      /\ fdOwner' = [fdOwner EXCEPT ![f] = NoClient]
  BY <1>3 DEF CloseOf
<1>6. /\ sock' \in [Clients -> Socket] /\ sock'[c].phase = "closed"
      /\ \A d \in Clients : d # c => sock'[d] = sock[d]
      /\ sock'[c].in = 0 /\ sock'[c].out = 0
  <2>1. PICK t, s : t = [s EXCEPT !.phase = "closed"] /\ s = sock[c]
    OBVIOUS
  <2>2. s \in Socket
    BY <1>2, <2>1
  <2>3. t \in Socket /\ t.phase = "closed" /\ t.in = s.in /\ t.out = s.out
    BY <2>1, <2>2 DEF Socket
  <2>4. sock' = [sock EXCEPT ![c] = t]
    BY <1>5, <2>1
  <2> QED BY <1>1, <1>2, <2>1, <2>3, <2>4
<1>7. OneDescriptorEach'
  BY <1>2, <1>3, <1>5, <1>6, ErasedDescriptors
<1>8. HandshakeInv'
  BY <1>1, <1>2, <1>4, <1>6 DEF HandshakeInv
<1>9. ThreadOK'
  BY <1>2, <1>4, ShakesThread DEF ThreadOK
<1>10. PICK todo : Prepares(f, todo)
  BY <1>2, NothingPrepares
<1>11. PICK op, owner : op = m_connections[f].op /\ owner = NoClient
  OBVIOUS
<1>12. m_connections' = [m_connections EXCEPT ![f].op = op]
  <2>1. m_connections[f] = [m_connections[f] EXCEPT !.op = op]
    BY <1>2, <1>11 DEF TableOK
  <2> QED BY <1>2, <2>1 DEF TableOK
<1>13. Unowned(f, owner, op)
  <2>1. \A g \in Fds : (g # f /\ fdOwner[g] # NoClient) =>
            sock'[fdOwner[g]] = sock[fdOwner[g]] /\ hs'[fdOwner[g]] = hs[fdOwner[g]]
    BY <1>1, <1>2, <1>4, <1>6
  <2> QED BY <1>1, <1>5, <1>6, <1>11, <1>12, <2>1 DEF Unowned
<1> QED BY <1>1, <1>7, <1>8, <1>9, <1>10, <1>11, <1>13, UnownedStep

LEMMA PendingStep ==
    ASSUME IInv, PendingCompleted
    PROVE  IInv'
<1>1. PICK f \in Fds :
        /\ Handling(f) /\ f \in m_pending_handshakes
        /\ \E o \in Handshakes(fdOwner[f]) :
            /\ hs' = [hs EXCEPT ![fdOwner[f]] = o.hs]
            /\ CASE o.ret = "ok"   -> Established(f, fdOwner[f])
                 [] o.ret = "want" -> Waits(f, fdOwner[f])
                 [] OTHER -> /\ ssl' = ssl \ {f}
                             /\ m_pending_handshakes' = m_pending_handshakes \ {f}
                             /\ CloseOf(f, sock[fdOwner[f]])
                             /\ UNCHANGED <<inside, sq, m_connections, m_pl, ring>>
  BY DEF PendingCompleted
<1>2. pc' = pc
  BY DEF PendingCompleted
<1>3. PICK c \in Clients : c = fdOwner[f]
  BY <1>1, <1>2, PendingShakes
<1>4. Shakes(f, c, 1)
  BY <1>1, <1>2, <1>3, PendingShakes
<1>5. PICK o \in Handshakes(c) :
        /\ hs' = [hs EXCEPT ![c] = o.hs]
        /\ CASE o.ret = "ok"   -> Established(f, c)
             [] o.ret = "want" -> Waits(f, c)
             [] OTHER -> /\ ssl' = ssl \ {f}
                         /\ m_pending_handshakes' = m_pending_handshakes \ {f}
                         /\ CloseOf(f, sock[c])
                         /\ UNCHANGED <<inside, sq, m_connections, m_pl, ring>>
  BY <1>1, <1>3
<1>6. CASE o.ret = "ok"
  <2>1. Established(f, c)
    BY <1>5, <1>6
  <2> QED BY <1>4, <1>5, <1>6, <2>1, EstablishedStep
<1>7. CASE o.ret = "want"
  <2>1. Waits(f, c)
    BY <1>5, <1>7
  <2> QED BY <1>4, <1>5, <1>7, <2>1, WaitsStep
<1>8. CASE o.ret \notin {"ok", "want"}
  <2>1. /\ ssl' = ssl \ {f} /\ m_pending_handshakes' = m_pending_handshakes \ {f}
        /\ CloseOf(f, sock[c]) /\ UNCHANGED <<inside, sq, m_connections, m_pl, ring>>
    BY <1>5, <1>8
  <2> QED BY <1>3, <1>4, <1>5, <1>8, <2>1, HandshakeFailsStep
<1> QED BY <1>6, <1>7, <1>8

LEMMA AcceptSteps ==
    ASSUME IInv, AcceptEstablished \/ AcceptPending
    PROVE  IInv'
<1>1. CASE AcceptEstablished
  <2>1. PICK f \in Fds, c \in Clients :
          /\ Accept(f, c) /\ Established(f, c)
          /\ \E o \in Handshakes(c) : o.ret = "ok" /\ hs' = [hs EXCEPT ![c] = o.hs]
    BY <1>1 DEF AcceptEstablished
  <2>2. Shakes(f, c, 0)
    BY <2>1, AcceptShakes
  <2> QED BY <2>1, <2>2, EstablishedStep
<1>2. CASE AcceptPending
  <2>1. PICK f \in Fds, c \in Clients :
          /\ Accept(f, c) /\ Waits(f, c)
          /\ \E o \in Handshakes(c) : o.ret = "want" /\ hs' = [hs EXCEPT ![c] = o.hs]
    BY <1>2 DEF AcceptPending
  <2>2. Shakes(f, c, 0)
    BY <2>1, AcceptShakes
  <2> QED BY <2>1, <2>2, WaitsStep
<1> QED BY <1>1, <1>2

(* The connection is closed at once.                                       *)
LEMMA AcceptFailsStep ==
    ASSUME IInv, AcceptFails
    PROVE  IInv'
<1>1. PICK f \in Fds, c \in Clients :
        Accept(f, c) /\ sock' = [sock EXCEPT ![c].phase = "closed"]
  BY DEF AcceptFails
<1>2. UNCHANGED <<fdOwner, tls, sq, table, flying, cq, held, m_running, pc>>
  BY <1>1 DEF AcceptFails, Accept
<1>3. /\ pc = "accept" /\ f \in FreeFds /\ backlog # <<>> /\ c = Head(backlog)
      /\ backlog' = Tail(backlog)
  BY <1>1 DEF Accept, Lowest
<1>4. /\ TypeOK /\ TableOK /\ QueuesOK /\ ThreadOK /\ OneDescriptorEach /\ HandshakeInv
      /\ MovesInv /\ BytesInv
      /\ sock \in [Clients -> Socket] /\ backlog \in Seq(Clients)
      /\ fdOwner \in [Fds -> Clients \cup {NoClient}]
  BY <1>3, TypeParts, Types DEF IInv, Alive, Running
<1>5. PICK t : t = sock'
  OBVIOUS
<1>6. t = [sock EXCEPT ![c].phase = "closed"]
  BY <1>1, <1>5
<1>7. t \in [Clients -> Socket]
  BY <1>4, <1>6, PhaseType
<1>8. \A d \in Clients : t[d].peer = sock[d].peer /\ t[d].in = sock[d].in /\ t[d].out = sock[d].out
  BY <1>4, <1>6, PhaseOnly
<1>9. SameBytes /\ StaysReset
  BY <1>5, <1>8 DEF SameBytes, StaysReset
<1>10. /\ OneDescriptorEach'
       /\ \A d \in Clients : sock'[d].phase = IF d = c THEN "closed" ELSE sock[d].phase
  <2>1. PICK phase \in {"open", "closed"} : phase = "closed"
    OBVIOUS
  <2>2. fdOwner' = IF phase = "open" THEN [fdOwner EXCEPT ![f] = Head(backlog)] ELSE fdOwner
    BY <1>2, <2>1
  <2>3. sock' = [sock EXCEPT ![Head(backlog)].phase = phase]
    BY <1>1, <1>3, <2>1
  <2>4. /\ OneDescriptorEach'
        /\ \A d \in Clients : sock'[d].phase = IF d = Head(backlog) THEN phase
                                               ELSE sock[d].phase
    BY <1>3, <1>4, <2>2, <2>3, AcceptDescriptors
  <2> QED BY <1>3, <2>1, <2>4
<1>11. backlog' \in Seq(Clients)
  BY <1>3, <1>4, HeadTailProperties
<1>12. TypeOK'
  <2>1. TableOK'
    BY <1>2, <1>4, <1>5, <1>7 DEF TableOK, table, tls
  <2>2. QueuesOK'
    BY <1>2, <1>4 DEF QueuesOK
  <2>3. ThreadOK'
    BY <1>2, <1>4, <1>11 DEF ThreadOK, tls
  <2> QED BY <2>1, <2>2, <2>3, TypeParts
<1>13. HandshakeInv'
  BY <1>2, <1>4, <1>9, <1>10 DEF HandshakeInv, tls, SameBytes
<1>14. UNCHANGED <<rings, fdOwner, m_connections, ring>>
  BY <1>2 DEF rings, table
<1>15. MovesInv'
  BY <1>2, <1>4, <1>14, MovesSame
<1>16. BytesInv'
  BY <1>2, <1>4, <1>9, <1>14, BytesSame
<1>17. EndInv'
  BY <1>2, <1>3 DEF EndInv
<1>18. (Alive' => Alive) /\ pc # "destroyed"
  BY <1>3 DEF Alive, Running
<1>19. \A d \in Clients : hs'[d] = "done" <=> hs[d] = "done"
  BY <1>2 DEF tls
<1> QED BY <1>2, <1>10, <1>12, <1>13, <1>15, <1>16, <1>17, <1>18, <1>19, QuietStep
-----------------------------------------------------------------------------
(* What a client does shows on its socket, and on its handshake until that *)
(* is done.                                                                *)
LEMMA PeerSteps ==
    ASSUME IInv, NEW c \in Clients, PeerActs(c)
    PROVE  IInv'
<1>1. /\ UNCHANGED <<fdOwner, rings, table, held, m_running, pc>> /\ Running
      /\ \/ Connects(c) /\ UNCHANGED tls
         \/ (Reads(c) \/ Closes(c) \/ Resets(c)) /\ UNCHANGED backlog /\ UNCHANGED tls
         \/ (Speaks(c) \/ SendsRecord(c)) /\ UNCHANGED backlog
  <2>1. CASE PeerReads(c)
    BY <2>1 DEF PeerReads, KernelStep
  <2>2. CASE ~PeerReads(c)
    BY <2>2 DEF PeerActs, KernelStep
  <2> QED BY <2>1, <2>2
<1>2. /\ TypeOK /\ TableOK /\ QueuesOK /\ ThreadOK /\ OneDescriptorEach /\ HandshakeInv
      /\ MovesInv /\ BytesInv
      /\ sock \in [Clients -> Socket] /\ backlog \in Seq(Clients)
      /\ fdOwner \in [Fds -> Clients \cup {NoClient}]
  BY <1>1, TypeParts, Types DEF IInv, Alive
<1>3. /\ inside' = inside /\ hs' \in [Clients -> Phase]
      /\ \A d \in Clients : hs'[d] = "done" <=> hs[d] = "done"
  <2>1. CASE UNCHANGED tls
    BY <1>2, <2>1 DEF tls, ThreadOK
  <2>2. CASE Speaks(c)
    <3>1. PICK h : /\ hs[c] \in {"none", "replied"} /\ hs' = [hs EXCEPT ![c] = h]
                   /\ h \in {"hello", "ready", "bad"}
      BY <2>2 DEF Speaks
    <3>2. hs \in [Clients -> Phase]
      BY <1>2 DEF ThreadOK
    <3>3. h \in Phase /\ h # "done" /\ hs[c] # "done"
      BY <3>1 DEF Phase
    <3>4. hs' \in [Clients -> Phase] /\ \A d \in Clients : hs'[d] = IF d = c THEN h ELSE hs[d]
      BY <3>1, <3>2, <3>3
    <3>5. inside' = inside
      BY <2>2 DEF Speaks
    <3> QED BY <3>3, <3>4, <3>5
  <2>3. CASE SendsRecord(c)
    BY <2>1, <2>3 DEF SendsRecord
  <2> QED BY <1>1, <2>1, <2>2, <2>3
<1>4. /\ OneDescriptorEach' /\ SameBytes /\ StaysReset
      /\ sock' \in [Clients -> Socket] /\ backlog' \in Seq(Clients)
      /\ \A d \in Clients : sock[d].phase \in {"open", "closed"} =>
                              sock'[d].phase \in {"open", "closed"}
  <2>1. CASE Speaks(c) /\ UNCHANGED backlog
    <3>1. UNCHANGED <<sock, fdOwner, backlog>>
      BY <1>1, <2>1 DEF Speaks
    <3> QED BY <1>2, <3>1, SameClients
  <2>2. CASE ~(Speaks(c) /\ UNCHANGED backlog)
    <3>1. \/ Connects(c)
          \/ (Sends(c) \/ Reads(c) \/ Closes(c) \/ Resets(c)) /\ UNCHANGED backlog
      BY <1>1, <2>2 DEF SendsRecord
    <3>2. fdOwner' = fdOwner
      BY <1>1
    <3>3. OneDescriptorEach' /\ SameBytes
      BY <1>2, <3>1, <3>2, ClientDescriptors
    <3>4. sock' \in [Clients -> Socket] /\ backlog' \in Seq(Clients)
      BY <1>2, <3>1, ClientTypes
    <3>5. \A d \in Clients : sock'[d].phase = IF Connects(c) /\ d = c THEN "queued"
                                              ELSE sock[d].phase
      BY <1>2, <3>1, ClientBytes
    <3>6. Connects(c) => sock[c].phase = "new"
      BY DEF Connects
    <3>7. StaysReset
      BY <1>2, <3>1, ResetStays
    <3> QED BY <3>3, <3>4, <3>5, <3>6, <3>7
  <2> QED BY <2>1, <2>2
<1>5. TypeOK'
  <2>1. TableOK'
    BY <1>1, <1>2, <1>3, <1>4 DEF TableOK, table
  <2>2. QueuesOK'
    BY <1>1, <1>2 DEF QueuesOK, rings
  <2>3. ThreadOK'
    BY <1>1, <1>2, <1>3, <1>4 DEF ThreadOK
  <2> QED BY <2>1, <2>2, <2>3, TypeParts
<1>6. UNCHANGED <<rings, fdOwner, m_connections, ring>> /\ cq' = cq
  BY <1>1 DEF table, rings
<1>7. MovesInv'
  BY <1>1, <1>2, <1>6, MovesSame
<1>8. BytesInv'
  BY <1>2, <1>4, <1>6, BytesSame
<1>9. HandshakeInv'
  BY <1>2, <1>3, <1>4 DEF HandshakeInv, SameBytes
<1>10. EndInv' /\ (Alive' => Alive) /\ pc # "destroyed"
  BY <1>1 DEF EndInv, Alive, Running
<1> QED BY <1>1, <1>3, <1>4, <1>5, <1>7, <1>8, <1>9, <1>10, QuietStep

(* run() returns, and the loop is destroyed.                               *)
LEMMA EndSteps ==
    ASSUME IInv, Leave \/ WaitFails \/ Destroy
    PROVE  IInv'
<1>1. /\ UNCHANGED <<sock, backlog, fdOwner, tls, sq, flying, cq, m_running>>
      /\ TypeOK /\ TableOK /\ QueuesOK /\ ThreadOK /\ OneDescriptorEach /\ HandshakeInv
      /\ PoolTypeOK /\ PoolContents(m_pl, ring)
  BY TypeParts, Types DEF Leave, WaitFails, LeaveLoop, Destroy, sockets, rings, IInv
<1>2. OneDescriptorEach'
  BY <1>1, SameClients
<1>3. HandshakeInv' /\ QueuesOK'
  BY <1>1 DEF HandshakeInv, QueuesOK, tls
<1>4. ASSUME LeaveLoop, PoolInv PROVE IInv'
  <2>1. /\ pc' = "stopped" /\ held' = {"ctx"} /\ ssl' = {} /\ m_pending_handshakes' = {}
        /\ m_connections' = [f \in Fds |-> [m_connections[f] EXCEPT !.buffer = NoBuffer]]
        /\ ring' = [b \in Buffers |-> IF b \in Owned THEN EmptyRing ELSE ring[b]]
    BY <1>4 DEF LeaveLoop
  <2>2. PICK s \in Bijection(1 .. Cardinality(Buffered), Buffered) :
          m_pl' = m_pl \o [i \in DOMAIN s |-> BufferOf(s[i])]
    BY <1>4 DEF LeaveLoop, InOrder
  <2>3. \A f \in Fds : /\ m_connections'[f].buffer = NoBuffer
                       /\ m_connections'[f] \in [state  : States \ {"die"},
                                                 buffer : 1 .. Len(ring) \cup {NoBuffer},
                                                 op     : Kinds \cup {"none", "handshake_poll"}]
    BY <1>1, <2>1 DEF TableOK
  <2>4. PICK B, T, t, q, r : /\ B = Buffered /\ T = BufferTable /\ t = BufferTable'
                             /\ q = [i \in DOMAIN s |-> T[s[i]]] /\ r = ring'
    OBVIOUS
  <2>5. /\ B = {f \in Fds : T[f] # 0} /\ s \in Bijection(1 .. Cardinality(B), B)
        /\ \A f \in Fds : T[f] = BufferOf(f)
    BY <2>2, <2>4 DEF BufferTable, Buffered, NoBuffer
  <2>6. r = [b \in Buffers |-> IF \E f \in B : b = T[f] THEN EmptyRing ELSE ring[b]]
    BY <2>1, <2>4, <2>5 DEF Owned
  <2>7. \A f \in Fds : t[f] = 0
    BY <2>3, <2>4 DEF BufferTable, BufferOf, NoBuffer
  <2>8. PICK p : p = m_pl \o q
    OBVIOUS
  <2>9. m_pl' = p
    <3>1. \A i \in DOMAIN s : s[i] \in Fds
      BY <2>5, Fun_BijectionProperties DEF Bijection, Injection
    <3>2. q = [i \in DOMAIN s |-> BufferOf(s[i])]
      BY <2>4, <2>5, <3>1
    <3> QED BY <2>2, <2>8, <3>2
  <2>10. Conserved(m_pl, Len(m_pl), Len(ring), Fds, T)
    BY <1>4, <2>4 DEF PoolInv
  <2>11. /\ r \in Seq(CounterPair) /\ Len(r) = Len(ring) /\ p \in Seq(1 .. Len(ring))
         /\ Conserved(p, Len(p), Len(r), Fds, t)
         /\ PoolContents(m_pl, ring) => PoolContents(p, r)
    <3>1. q = [i \in DOMAIN s |-> T[s[i]]]
      BY <2>4
    <3>2. RedeemsAll(Fds, T, s, p, r, t)
      BY <2>5, <2>6, <2>7, <2>8, <3>1 DEF RedeemsAll, WithBuffer
    <3> QED BY <1>1, <2>10, <3>2, SocketAssumption, AllRedeemed
  <2>12. PoolInv' /\ PoolContents(m_pl, ring)'
    BY <1>1, <2>4, <2>9, <2>11 DEF PoolInv
  <2>13. TypeOK'
    <3>1. m_connections' \in [Fds -> [state  : States \ {"die"},
                                      buffer : 1 .. Len(ring') \cup {NoBuffer},
                                      op     : Kinds \cup {"none", "handshake_poll"}]]
      BY <2>1, <2>3, <2>4, <2>11
    <3>2. TableOK'
      BY <1>1, <2>1, <2>4, <2>9, <2>11, <3>1 DEF TableOK, tls
    <3>3. ThreadOK'
      BY <1>1, <2>1 DEF ThreadOK, tls
    <3> QED BY <1>3, <3>2, <3>3, TypeParts
  <2>14. \A f \in Fds : BufferOf(f)' = NoBuffer
    BY <2>3 DEF BufferOf
  <2>15. BytesInv' /\ EndInv' /\ ~Alive'
    BY <2>1, <2>14 DEF BytesInv, EndInv, Alive, Running
  <2> QED BY <1>2, <1>3, <2>12, <2>13, <2>15 DEF IInv
<1>5. CASE Destroy
  <2>1. /\ pc \in {"stopped", "threw"} /\ pc' = "destroyed"
        /\ held' = held \ {"ctx"} /\ m_pl' = <<>>
        /\ UNCHANGED <<m_connections, ssl, m_pending_handshakes, ring>>
    BY <1>5 DEF Destroy
  <2>2. TypeOK'
    <3>1. TableOK'
      BY <1>1, <2>1 DEF TableOK, tls
    <3>2. ThreadOK'
      BY <1>1, <2>1 DEF ThreadOK, tls
    <3> QED BY <1>3, <3>1, <3>2, TypeParts
  <2>3. PoolContents(m_pl, ring)'
    BY <1>1, <2>1 DEF PoolContents
  <2>4. \A f \in Fds : BufferOf(f)' = NoBuffer
    BY <2>1 DEF IInv, EndInv, BufferOf
  <2>5. BytesInv'
    BY <2>4 DEF BytesInv
  <2>6. EndInv' /\ ~Alive'
    BY <1>1, <2>1, <2>4 DEF IInv, EndInv, Alive, Running, ThreadOK
  <2> QED BY <1>2, <1>3, <2>1, <2>2, <2>3, <2>5, <2>6 DEF IInv
<1>6. CASE Leave \/ WaitFails
  <2>1. LeaveLoop /\ PoolInv
    BY <1>6 DEF IInv, Leave, WaitFails
  <2> QED BY <1>4, <2>1
<1> QED BY <1>5, <1>6
-----------------------------------------------------------------------------
(* Submission: what enters the kernel, and what fails at once.             *)
Live == {i \in DOMAIN sq : fdOwner[sq[i].fd] # NoClient}
Entering(i) == [kind |-> sq[i].kind, fd |-> sq[i].fd, size |-> sq[i].size,
                of |-> fdOwner[sq[i].fd]]
Entered == [o \in {Entering(i) : i \in Live} |-> Cardinality({i \in Live : Entering(i) = o})]

LEMMA EnteredBag ==
    ASSUME QueuesOK, fdOwner \in [Fds -> Clients \cup {NoClient}]
    PROVE  /\ DOMAIN Entered = {Entering(i) : i \in Live}
           /\ \A i \in Live : Entering(i) \in Flying
           /\ \A o \in DOMAIN Entered :
                /\ Entered[o] \in Nat \ {0}
                /\ (\A i, j \in Live : Entering(i) = o /\ Entering(j) = o => i = j)
                        => Entered[o] = 1
<1>1. DOMAIN Entered = {Entering(i) : i \in Live}
  BY DEF Entered
<1>2. ASSUME NEW i \in Live PROVE Entering(i) \in Flying
  <2>1. i \in DOMAIN sq /\ fdOwner[sq[i].fd] # NoClient
    BY DEF Live
  <2>2. PICK k \in Kinds, f \in Fds, n \in Nat : k = sq[i].kind /\ f = sq[i].fd /\ n = sq[i].size
    BY <2>1, QueueTypes DEF Operation
  <2>3. PICK c \in Clients : c = fdOwner[f]
    BY <2>1, <2>2
  <2>4. Entering(i) = [kind |-> k, fd |-> f, size |-> n, of |-> c]
    BY <2>2, <2>3 DEF Entering
  <2> QED BY ONLY <2>4, k \in Kinds, f \in Fds, n \in Nat, c \in Clients DEF Flying
<1>3. ASSUME NEW o \in DOMAIN Entered
      PROVE  /\ Entered[o] \in Nat \ {0}
             /\ (\A i, j \in Live : Entering(i) = o /\ Entering(j) = o => i = j)
                    => Entered[o] = 1
  <2>1. PICK S : S = {i \in Live : Entering(i) = o}
    OBVIOUS
  <2>2. PICK n \in Nat : n = Len(sq) /\ DOMAIN sq = 1 .. n
    BY QueueTypes
  <2>3. S \subseteq 1 .. n
    BY <2>1, <2>2 DEF Live
  <2>4. IsFiniteSet(S) /\ Cardinality(S) \in Nat
    <3>1. IsFiniteSet(1 .. n)
      BY FS_Interval
    <3> QED BY <2>3, <3>1, FS_Subset, FS_CardinalityType
  <2>5. PICK i \in S : TRUE
    BY <1>1, <1>3, <2>1
  <2>6. Cardinality(S) # 0
    BY <2>4, <2>5, FS_EmptySet
  <2>7. Entered[o] = Cardinality(S)
    BY <1>3, <2>1 DEF Entered
  <2>8. (\A k, j \in Live : Entering(k) = o /\ Entering(j) = o => k = j) => S = {i}
    BY <2>1, <2>5
  <2>9. Cardinality({i}) = 1
    BY FS_Singleton
  <2> QED BY <2>4, <2>6, <2>7, <2>8, <2>9
<1> QED BY <1>1, <1>2, <1>3

(* Operation i becomes o in the kernel.                                    *)
Enters(i, o) ==
    /\ o.kind = sq[i].kind /\ o.fd = sq[i].fd /\ o.size = sq[i].size /\ o.of = fdOwner[o.fd]
    /\ fdOwner[o.fd] # NoClient

LEMMA Submitted ==
    ASSUME QueuesOK, fdOwner \in [Fds -> Clients \cup {NoClient}], cq = <<>>, Submit
    PROVE  /\ QueuesOK' /\ sq' = <<>> /\ DOMAIN sq' = {}
           /\ \A i \in DOMAIN cq' : cq'[i].res = -1 /\ fdOwner[cq'[i].fd] = NoClient
           /\ \A o \in DOMAIN flying' :
                \/ /\ o \in DOMAIN flying
                   /\ (\A i \in DOMAIN sq : ~Enters(i, o)) => flying'[o] = flying[o]
                \/ /\ o \notin DOMAIN flying
                   /\ \E i \in DOMAIN sq : Enters(i, o)
                   /\ (\A i, j \in DOMAIN sq : Enters(i, o) /\ Enters(j, o) => i = j)
                            => flying'[o] = 1
<1>1. flying' = flying (+) Entered
  BY DEF Submit, Entered, Entering, Live
<1>2. PICK B, D : B = Entered /\ D = DOMAIN B
  OBVIOUS
<1>3. /\ D = {Entering(i) : i \in Live} /\ D \subseteq Flying
      /\ \A o \in D : /\ B[o] \in Nat \ {0}
                      /\ (\A i, j \in Live : Entering(i) = o /\ Entering(j) = o => i = j)
                             => B[o] = 1
  BY <1>2, EnteredBag
<1>4. PICK F : F = flying
  OBVIOUS
<1>5. /\ F \in [DOMAIN F -> {n \in Nat : n > 0}] /\ DOMAIN F \subseteq Flying
  BY <1>4 DEF QueuesOK, IsABag
<1>6. PICK G : G = flying'
  OBVIOUS
<1>7. /\ DOMAIN G = DOMAIN F \cup D
      /\ \A o \in DOMAIN F \cup D : G[o] = (IF o \in DOMAIN F THEN F[o] ELSE 0)
                                         + (IF o \in D THEN B[o] ELSE 0)
      /\ G = [o \in DOMAIN F \cup D |-> (IF o \in DOMAIN F THEN F[o] ELSE 0)
                                         + (IF o \in D THEN B[o] ELSE 0)]
  BY <1>1, <1>2, <1>4, <1>6 DEF (+)
<1>8. \A o \in DOMAIN G : /\ G[o] \in Nat /\ G[o] > 0
                          /\ (o \in DOMAIN F /\ o \notin D) => G[o] = F[o]
                          /\ o \notin DOMAIN F => o \in D /\ G[o] = B[o]
  <2> SUFFICES ASSUME NEW o \in DOMAIN G
               PROVE  /\ G[o] \in Nat /\ G[o] > 0
                      /\ (o \in DOMAIN F /\ o \notin D) => G[o] = F[o]
                      /\ o \notin DOMAIN F => o \in D /\ G[o] = B[o]
    OBVIOUS
  <2>1. PICK g, a, b : g = G[o] /\ a = F[o] /\ b = B[o]
    OBVIOUS
  <2>2. g = (IF o \in DOMAIN F THEN a ELSE 0) + (IF o \in D THEN b ELSE 0)
    BY <1>7, <2>1
  <2>3. o \in DOMAIN F => a \in Nat /\ a > 0
    BY <1>5, <2>1
  <2>4. o \in D => b \in Nat /\ b # 0
    BY <1>3, <2>1
  <2>5. o \in DOMAIN F \/ o \in D
    BY <1>7
  <2>6. /\ g \in Nat /\ g > 0
        /\ (o \in DOMAIN F /\ o \notin D) => g = a
        /\ o \notin DOMAIN F => o \in D /\ g = b
    BY ONLY <2>2, <2>3, <2>4, <2>5
  <2> QED BY <2>1, <2>6
<1>9. IsABag(G) /\ DOMAIN G \subseteq Flying
  <2>1. G \in [DOMAIN G -> {n \in Nat : n > 0}]
    BY <1>7, <1>8
  <2> QED BY <1>3, <1>5, <1>7, <2>1 DEF IsABag
<1>10. \A i \in Live : \A o : Entering(i) = o => Enters(i, o)
  BY DEF Entering, Enters, Live
<1>11. \A i \in Live : i \in DOMAIN sq
  BY DEF Live
<1>12. ASSUME NEW o \in DOMAIN G
       PROVE  \/ /\ o \in DOMAIN F
                 /\ (\A i \in DOMAIN sq : ~Enters(i, o)) => G[o] = F[o]
              \/ /\ o \notin DOMAIN F
                 /\ \E i \in DOMAIN sq : Enters(i, o)
                 /\ (\A i, j \in DOMAIN sq : Enters(i, o) /\ Enters(j, o) => i = j) => G[o] = 1
  <2>1. CASE o \in DOMAIN F
    <3>1. o \in D => \E i \in DOMAIN sq : Enters(i, o)
      BY <1>3, <1>10, <1>11
    <3> QED BY <1>8, <2>1, <3>1
  <2>2. CASE o \notin DOMAIN F
    <3>1. o \in D /\ G[o] = B[o]
      BY <1>8, <2>2
    <3>2. \E i \in DOMAIN sq : Enters(i, o)
      BY <1>3, <1>10, <1>11, <3>1
    <3>3. (\A i, j \in DOMAIN sq : Enters(i, o) /\ Enters(j, o) => i = j)
            => \A i, j \in Live : Entering(i) = o /\ Entering(j) = o => i = j
      BY <1>10, <1>11
    <3> QED BY <1>3, <2>2, <3>1, <3>2, <3>3
  <2> QED BY <2>1, <2>2
<1>13. sq' = <<>> /\ DOMAIN sq' = {}
  <2>1. sq' = <<>>
    BY DEF Submit
  <2>2. PICK t \in Seq(Operation) : t = <<>> /\ Len(t) = 0
    BY EmptySeq
  <2>3. DOMAIN t = 1 .. 0
    BY <2>2, LenProperties
  <2>4. 1 .. 0 = {}
    OBVIOUS
  <2> QED BY <2>1, <2>2, <2>3, <2>4
<1>14. PICK S, n, dead : /\ S = DOMAIN sq \ Live /\ n = Cardinality(S)
                         /\ dead \in Bijection(1 .. n, S)
                         /\ cq' = cq \o [i \in DOMAIN dead |->
                                [kind |-> sq[dead[i]].kind, fd |-> sq[dead[i]].fd, res |-> -1]]
  BY DEF Submit, InOrder, Live
<1>15. PICK q : q = [i \in DOMAIN dead |->
                        [kind |-> sq[dead[i]].kind, fd |-> sq[dead[i]].fd, res |-> -1]]
  OBVIOUS
<1>16. n \in Nat
  <2>1. PICK k \in Nat : DOMAIN sq = 1 .. k
    BY QueueTypes
  <2>2. IsFiniteSet(1 .. k) /\ S \subseteq 1 .. k
    BY <1>14, <2>1, FS_Interval
  <2> QED BY <1>14, <2>2, FS_Subset, FS_CardinalityType
<1>17. DOMAIN dead = 1 .. n /\ \A i \in 1 .. n : dead[i] \in S
  <2>1. dead \in [1 .. n -> S]
    BY <1>14 DEF Bijection, Injection
  <2> QED BY <2>1
<1>18. ASSUME NEW i \in 1 .. n
       PROVE  q[i] \in Completion /\ q[i].res = -1 /\ fdOwner[q[i].fd] = NoClient
  <2>1. PICK m : m = -1
    OBVIOUS
  <2>2. dead[i] \in DOMAIN sq /\ dead[i] \notin Live
    BY <1>14, <1>17
  <2>3. PICK k \in Kinds, f \in Fds : k = sq[dead[i]].kind /\ f = sq[dead[i]].fd
    BY <2>2, QueueTypes DEF Operation
  <2>4. fdOwner[f] = NoClient
    BY <2>2, <2>3 DEF Live
  <2>5. q[i] = [kind |-> k, fd |-> f, res |-> m]
    BY <1>15, <1>17, <2>1, <2>3
  <2>6. m \in Int
    BY <2>1
  <2>7. q[i] \in Completion /\ q[i].res = m /\ q[i].fd = f
    BY ONLY <2>5, <2>6, k \in Kinds, f \in Fds DEF Completion
  <2> QED BY <2>1, <2>4, <2>7
<1>19. q \in Seq(Completion) /\ DOMAIN q = 1 .. n
  <2>1. DOMAIN q = 1 .. n /\ q = [i \in 1 .. n |-> q[i]]
    BY <1>15, <1>17
  <2>2. q \in [1 .. n -> Completion]
    BY <1>18, <2>1
  <2> QED BY <1>16, <2>1, <2>2, SeqDef
<1>20. cq' = q
  <2>1. cq' = <<>> \o q
    BY <1>14, <1>15
  <2> QED BY <1>19, <2>1, ConcatEmptySeq
<1>21. QueuesOK'
  <2>1. Len(sq') <= RingEntries /\ sq' \in Seq(Operation)
    BY <1>13, LoopAssumption, EmptySeq
  <2> QED BY <1>6, <1>9, <1>19, <1>20, <2>1 DEF QueuesOK
<1> QED BY <1>4, <1>6, <1>12, <1>13, <1>18, <1>19, <1>20, <1>21

LEMMA SubmittedMoves ==
    ASSUME QueuesOK, MovesInv, fdOwner \in [Fds -> Clients \cup {NoClient}], cq = <<>>, Submit,
           UNCHANGED <<fdOwner, m_connections, ring>>
    PROVE  MovesInv'
<1>1. /\ fdOwner' = fdOwner /\ m_connections' = m_connections /\ ring' = ring
      /\ PreparedInv /\ FlyingInv /\ WaitersInv
  BY DEF MovesInv
<1>2. /\ \A f : BufferOf(f)' = BufferOf(f) /\ Held(BufferOf(f))' = Held(BufferOf(f))
      /\ \A f, kind, n : WaitsFor(f, kind, n)' <=> WaitsFor(f, kind, n)
  BY <1>1 DEF BufferOf, Held, WaitsFor
<1>3. PICK G : G = flying'
  OBVIOUS
<1>4. /\ sq' = <<>> /\ DOMAIN sq' = {}
      /\ \A i \in DOMAIN cq' : cq'[i].res = -1 /\ fdOwner[cq'[i].fd] = NoClient
      /\ \A o \in DOMAIN G :
            \/ /\ o \in DOMAIN flying
               /\ (\A i \in DOMAIN sq : ~Enters(i, o)) => G[o] = flying[o]
            \/ /\ o \notin DOMAIN flying
               /\ \E i \in DOMAIN sq : Enters(i, o)
               /\ (\A i, j \in DOMAIN sq : Enters(i, o) /\ Enters(j, o) => i = j) => G[o] = 1
  BY <1>3, Submitted
<1>5. \A i \in DOMAIN cq' : ~Moved(cq'[i])
  <2>1. ~(-1 > 0)
    OBVIOUS
  <2> QED BY <1>4, <2>1 DEF Moved
<1>6. ASSUME NEW o \in DOMAIN G, o.kind \in IO
      PROVE  /\ G[o] = 1 /\ fdOwner[o.fd] = o.of /\ WaitsFor(o.fd, o.kind, o.size)
             /\ \A p \in DOMAIN G : (p.kind \in IO /\ p.fd = o.fd) => p = o
  <2>1. CASE o \in DOMAIN flying
    <3>1. /\ flying[o] = 1 /\ fdOwner[o.fd] = o.of /\ WaitsFor(o.fd, o.kind, o.size)
          /\ \A p \in DOMAIN flying : (p.kind \in IO /\ p.fd = o.fd) => p = o
          /\ \A i \in DOMAIN sq : sq[i].fd = o.fd => sq[i].kind \notin IO
      BY <1>1, <1>6, <2>1 DEF FlyingInv
    <3>2. \A p : (p.kind \in IO /\ p.fd = o.fd) => \A i \in DOMAIN sq : ~Enters(i, p)
      BY <3>1 DEF Enters
    <3>3. G[o] = flying[o]
      BY <1>4, <1>6, <2>1, <3>2
    <3> QED BY <1>4, <3>1, <3>2, <3>3
  <2>2. CASE o \notin DOMAIN flying
    <3>1. PICK i \in DOMAIN sq : Enters(i, o)
      BY <1>4, <2>2
    <3>2. /\ sq[i].kind = o.kind /\ sq[i].fd = o.fd /\ sq[i].size = o.size
          /\ fdOwner[o.fd] = o.of /\ fdOwner[o.fd] # NoClient
      BY <3>1 DEF Enters
    <3>3. /\ WaitsFor(o.fd, o.kind, o.size)
          /\ \A j \in DOMAIN sq : (sq[j].kind \in IO /\ sq[j].fd = o.fd) => i = j
      BY <1>1, <1>6, <3>2 DEF PreparedInv
    <3>4. \A j \in DOMAIN sq : \A p : (Enters(j, p) /\ p.kind \in IO /\ p.fd = o.fd) => i = j
      BY <3>3 DEF Enters
    <3>5. G[o] = 1
      BY <1>4, <1>6, <2>2, <3>4
    <3>6. ASSUME NEW p \in DOMAIN G, p.kind \in IO, p.fd = o.fd PROVE p = o
      <4>1. p \notin DOMAIN flying
        BY <1>1, <1>6, <3>2, <3>6 DEF FlyingInv
      <4>2. PICK j \in DOMAIN sq : Enters(j, p)
        BY <1>4, <4>1
      <4>3. j = i
        BY <3>4, <3>6, <4>2
      <4>4. o \in Flying /\ p \in Flying
        BY <1>3, Submitted DEF QueuesOK
      <4>5. p.kind = o.kind /\ p.size = o.size /\ p.of = o.of
        BY <3>2, <3>6, <4>2, <4>3 DEF Enters
      <4> QED BY ONLY <3>6, <4>4, <4>5 DEF Flying
    <3> QED BY <3>2, <3>3, <3>5, <3>6
  <2> QED BY <2>1, <2>2
<1>7. FlyingInv'
  <2>1. ASSUME NEW o \in DOMAIN G, o.kind \in IO, NEW i \in DOMAIN cq' PROVE cq'[i].fd # o.fd
    <3>1. fdOwner[o.fd] # NoClient
      BY <1>6, <2>1 DEF WaitsFor
    <3> QED BY <1>4, <2>1, <3>1
  <2> QED BY <1>1, <1>2, <1>3, <1>4, <1>6, <2>1 DEF FlyingInv
<1>8. PreparedInv' /\ MovedInv' /\ WaitersInv'
  BY <1>1, <1>2, <1>4, <1>5 DEF PreparedInv, MovedInv, WaitersInv
<1> QED BY <1>4, <1>7, <1>8 DEF MovesInv

LEMMA SubmitStep ==
    ASSUME IInv, EndOfBatch
    PROVE  IInv'
<1>1. /\ cq = <<>> /\ Submit /\ pc = "batch" /\ pc' = "tick"
      /\ UNCHANGED <<sock, backlog, fdOwner, tls, hs, table, m_connections, ring, held, m_running>>
      /\ TypeOK /\ TableOK /\ QueuesOK /\ ThreadOK /\ OneDescriptorEach /\ HandshakeInv
      /\ MovesInv /\ BytesInv /\ fdOwner \in [Fds -> Clients \cup {NoClient}]
  BY TypeParts, Types DEF EndOfBatch, sockets, table, tls, IInv, Alive, Running
<1>2. /\ QueuesOK'
      /\ \A i \in DOMAIN cq' : cq'[i].res = -1
  BY <1>1, Submitted
<1>3. TypeOK'
  <2>1. TableOK'
    BY <1>1 DEF TableOK, table, tls
  <2>2. ThreadOK'
    BY <1>1 DEF ThreadOK, tls
  <2> QED BY <1>2, <2>1, <2>2, TypeParts
<1>4. OneDescriptorEach' /\ HandshakeInv'
  BY <1>1, SameClients DEF HandshakeInv
<1>5. MovesInv'
  BY <1>1, SubmittedMoves
<1>6. BytesInv'
  <2> SUFFICES ASSUME NEW f \in Fds, fdOwner[f] # NoClient, BufferOf(f) # NoBuffer
               PROVE  LET s  == sock[fdOwner[f]]
                          at == {i \in DOMAIN cq' : cq'[i].fd = f /\ Moved(cq'[i])}
                      IN  /\ \A i, j \in at : i = j
                          /\ \/ s.peer = "rst"
                             \/ /\ at = {} => Held(BufferOf(f)) = s.in - s.out
                                /\ \A i \in at : Held(BufferOf(f)) + Change(cq'[i]) = s.in - s.out
    BY <1>1 DEF BytesInv, BufferOf, Held
  <2>1. PICK at : at = {i \in DOMAIN cq' : cq'[i].fd = f /\ Moved(cq'[i])}
    OBVIOUS
  <2>2. at = {}
    <3>1. ~(-1 > 0)
      OBVIOUS
    <3> QED BY <1>2, <2>1, <3>1 DEF Moved
  <2>3. {i \in DOMAIN cq : cq[i].fd = f /\ Moved(cq[i])} = {}
    <3>1. PICK t \in Seq(Completion) : t = <<>> /\ Len(t) = 0
      BY EmptySeq
    <3>2. DOMAIN t = 1 .. 0 /\ 1 .. 0 = {}
      BY <3>1, LenProperties
    <3> QED BY <1>1, <3>1, <3>2
  <2>4. \/ sock[fdOwner[f]].peer = "rst"
        \/ Held(BufferOf(f)) = sock[fdOwner[f]].in - sock[fdOwner[f]].out
    BY <1>1, <2>3 DEF BytesInv
  <2> QED BY <2>1, <2>2, <2>4
<1>7. EndInv' /\ (Alive' => Alive) /\ pc # "destroyed"
  BY <1>1 DEF EndInv, Alive, Running
<1> QED BY <1>1, <1>3, <1>4, <1>5, <1>6, <1>7, QuietStep
-----------------------------------------------------------------------------
(* An operation of the kernel's, o, completes; e is appended.              *)
Completes(o, e) ==
    /\ DOMAIN flying' \subseteq DOMAIN flying
    /\ \A p \in DOMAIN flying' : p # o => flying'[p] = flying[p]
    /\ flying[o] = 1 => o \notin DOMAIN flying'
    /\ sq' = sq
    /\ \A i \in DOMAIN cq : i \in DOMAIN cq' /\ i # Len(cq) + 1 /\ cq'[i] = cq[i]
    /\ \A i \in DOMAIN cq' : i \in DOMAIN cq \/ i = Len(cq) + 1
    /\ Len(cq) + 1 \in DOMAIN cq' /\ cq'[Len(cq) + 1] = e

LEMMA CompleteAppends ==
    ASSUME QueuesOK, NEW o \in DOMAIN flying, NEW res \in Int, Complete(o, res)
    PROVE  /\ QueuesOK'
           /\ \E e \in Completion : /\ e.kind = o.kind /\ e.fd = o.fd /\ e.res = res
                                    /\ Completes(o, e)
<1>1. PICK e \in Completion : /\ e = [kind |-> o.kind, fd |-> o.fd, res |-> res]
                              /\ e.kind = o.kind /\ e.fd = o.fd /\ e.res = res
  <2>1. PICK k \in Kinds, f \in Fds : k = o.kind /\ f = o.fd
    BY QueueTypes
  <2>2. PICK e : e = [kind |-> k, fd |-> f, res |-> res]
    OBVIOUS
  <2>3. e \in Completion /\ e.kind = k /\ e.fd = f /\ e.res = res
    BY ONLY <2>2, k \in Kinds, f \in Fds, res \in Int DEF Completion
  <2> QED BY <2>1, <2>2, <2>3
<1>2. PICK F, G, U : F = flying /\ G = flying' /\ U = SetToBag({o})
  OBVIOUS
<1>3. o \in DOMAIN F /\ F \in [DOMAIN F -> {n \in Nat : n > 0}] /\ DOMAIN F \subseteq Flying
  BY <1>2 DEF QueuesOK, IsABag
<1>4. DOMAIN U = {o} /\ U[o] = 1
  BY <1>2 DEF SetToBag
<1>5. G = F (-) U
  BY <1>2 DEF Complete
<1>6. PICK H : H = [p \in DOMAIN F |-> IF p \in DOMAIN U THEN F[p] - U[p] ELSE F[p]]
  OBVIOUS
<1>7. G = [p \in {p \in DOMAIN H : H[p] > 0} |-> H[p]]
  BY <1>5, <1>6 DEF (-)
<1>8. /\ DOMAIN H = DOMAIN F /\ \A p \in DOMAIN F : p # o => H[p] = F[p]
      /\ H[o] = F[o] - 1
  BY <1>3, <1>4, <1>6
<1>9. /\ DOMAIN G \subseteq DOMAIN F
      /\ \A p \in DOMAIN G : p # o => G[p] = F[p]
      /\ F[o] = 1 => o \notin DOMAIN G
      /\ \A p \in DOMAIN G : G[p] \in Nat /\ G[p] > 0
  <2>1. DOMAIN G = {p \in DOMAIN F : H[p] > 0} /\ \A p \in DOMAIN G : G[p] = H[p]
    BY <1>7, <1>8
  <2>2. \A p \in DOMAIN F : F[p] \in Nat
    BY <1>3
  <2>3. \A p \in DOMAIN F : H[p] \in Int
    BY <1>3, <1>8, <2>2
  <2>4. F[o] = 1 => ~(H[o] > 0)
    BY <1>8
  <2> QED BY <1>8, <2>1, <2>3, <2>4
<1>10. IsABag(G) /\ DOMAIN G \subseteq Flying
  <2>1. G = [p \in DOMAIN G |-> G[p]]
    BY <1>7
  <2>2. G \in [DOMAIN G -> {n \in Nat : n > 0}]
    BY <1>9, <2>1
  <2> QED BY <1>3, <1>9, <2>2 DEF IsABag
<1>11. PICK q, n : q = cq' /\ n = Len(cq)
  OBVIOUS
<1>12. /\ q \in Seq(Completion) /\ Len(q) = n + 1 /\ q[n + 1] = e
       /\ \A i \in 1 .. n : q[i] = cq[i]
  <2>1. q = Append(cq, e) /\ cq \in Seq(Completion)
    BY <1>1, <1>11 DEF Complete, QueuesOK
  <2> QED BY <1>11, <2>1, AppendProperties
<1>13. DOMAIN q = 1 .. n + 1 /\ DOMAIN cq = 1 .. n /\ n \in Nat
  BY <1>11, <1>12, LenProperties, QueueTypes
<1>14. /\ \A i \in 1 .. n : i \in 1 .. n + 1 /\ i # n + 1
       /\ \A i \in 1 .. n + 1 : i \in 1 .. n \/ i = n + 1
       /\ n + 1 \in 1 .. n + 1
  BY ONLY <1>13
<1>15. sq' = sq
  BY DEF Complete
<1>16. QueuesOK'
  BY <1>2, <1>10, <1>11, <1>12, <1>15 DEF QueuesOK
<1>17. Completes(o, e)
  BY <1>2, <1>9, <1>11, <1>12, <1>13, <1>14, <1>15 DEF Completes
<1> QED BY <1>1, <1>16, <1>17

(* What a completion may say: of a receive or send, that no more moved     *)
(* than was asked for, or an error; of a poll, that there was no error.    *)
Says(o, res) == res \in Int /\ IF o.kind \in IO THEN res <= o.size ELSE res >= 0

LEMMA CompletedMoves ==
    ASSUME TypeOK, QueuesOK, MovesInv, NEW o \in DOMAIN flying, NEW e \in Completion,
           e.kind = o.kind, e.fd = o.fd, Completes(o, e), Says(o, e.res),
           UNCHANGED <<fdOwner, m_connections, ring, pc>>
    PROVE  MovesInv'
<1>1. /\ fdOwner' = fdOwner /\ m_connections' = m_connections /\ ring' = ring /\ sq' = sq
      /\ PreparedInv /\ FlyingInv /\ MovedInv /\ WaitersInv
      /\ pc \in {"start", "tick"} => sq = <<>>
  BY DEF MovesInv, Completes
<1>2. /\ \A f : BufferOf(f)' = BufferOf(f) /\ Held(BufferOf(f))' = Held(BufferOf(f))
      /\ \A f, kind, n : WaitsFor(f, kind, n)' <=> WaitsFor(f, kind, n)
  BY <1>1 DEF BufferOf, Held, WaitsFor
<1>3. PICK G, q, new : G = flying' /\ q = cq' /\ new = Len(cq) + 1
  OBVIOUS
<1>4. /\ DOMAIN G \subseteq DOMAIN flying
      /\ \A p \in DOMAIN G : p # o => G[p] = flying[p]
      /\ flying[o] = 1 => o \notin DOMAIN G
      /\ \A i \in DOMAIN cq : i \in DOMAIN q /\ i # new /\ q[i] = cq[i]
      /\ \A i \in DOMAIN q : i \in DOMAIN cq \/ i = new
      /\ new \in DOMAIN q /\ q[new] = e
  BY <1>3 DEF Completes
<1>5. o.kind \notin IO => e.res >= 0 /\ ~Moved(e)
  BY DEF Says, Moved
<1>6. o.kind \in IO =>
        /\ flying[o] = 1 /\ WaitsFor(o.fd, o.kind, o.size)
        /\ \A p \in DOMAIN flying : (p.kind \in IO /\ p.fd = o.fd) => p = o
        /\ \A i \in DOMAIN sq : sq[i].fd = o.fd => sq[i].kind \notin IO
        /\ \A i \in DOMAIN cq : cq[i].fd = o.fd => cq[i].res >= 0 /\ ~Moved(cq[i])
  BY <1>1 DEF FlyingInv
<1>7. ASSUME NEW p \in DOMAIN G, p.kind \in IO
      PROVE  /\ G[p] = 1 /\ fdOwner[p.fd] = p.of /\ WaitsFor(p.fd, p.kind, p.size)
             /\ \A r \in DOMAIN G : (r.kind \in IO /\ r.fd = p.fd) => r = p
             /\ \A i \in DOMAIN sq : sq[i].fd = p.fd => sq[i].kind \notin IO
             /\ \A i \in DOMAIN q : q[i].fd = p.fd => q[i].res >= 0 /\ ~Moved(q[i])
  <2>1. /\ flying[p] = 1 /\ fdOwner[p.fd] = p.of /\ WaitsFor(p.fd, p.kind, p.size)
        /\ \A r \in DOMAIN flying : (r.kind \in IO /\ r.fd = p.fd) => r = p
        /\ \A i \in DOMAIN sq : sq[i].fd = p.fd => sq[i].kind \notin IO
        /\ \A i \in DOMAIN cq : cq[i].fd = p.fd => cq[i].res >= 0 /\ ~Moved(cq[i])
    BY <1>1, <1>4, <1>7 DEF FlyingInv
  <2>2. p # o
    BY <1>4, <1>7, <2>1
  <2>3. G[p] = 1
    BY <1>4, <2>1, <2>2
  <2>4. e.fd = p.fd => e.res >= 0 /\ ~Moved(e)
    BY <1>5, <2>1, <2>2
  <2> QED BY <1>4, <2>1, <2>3, <2>4
<1>8. FlyingInv'
  BY <1>1, <1>2, <1>3, <1>7 DEF FlyingInv
<1>9. ASSUME NEW i \in DOMAIN q, NEW d, d = q[i], Moved(d)
      PROVE  /\ WaitsFor(d.fd, d.kind, d.res)
             /\ \A j \in DOMAIN sq : sq[j].fd = d.fd => sq[j].kind \notin IO
             /\ \A j \in DOMAIN q : q[j].fd = d.fd => q[j].res >= 0 /\ (Moved(q[j]) => i = j)
  <2>1. CASE i \in DOMAIN cq
    <3>1. /\ WaitsFor(d.fd, d.kind, d.res) /\ d = cq[i]
          /\ \A j \in DOMAIN sq : sq[j].fd = d.fd => sq[j].kind \notin IO
          /\ \A j \in DOMAIN cq : cq[j].fd = d.fd => cq[j].res >= 0 /\ (Moved(cq[j]) => i = j)
      BY <1>1, <1>4, <1>9, <2>1 DEF MovedInv
    <3>2. e.fd = d.fd => e.res >= 0 /\ ~Moved(e)
      BY <1>5, <1>6, <1>9, <2>1, <3>1
    <3> QED BY <1>4, <3>1, <3>2
  <2>2. CASE i = new
    <3>1. d = e /\ o.kind \in IO
      BY <1>4, <1>5, <1>9, <2>2
    <3>2. WaitsFor(d.fd, d.kind, d.res)
      <4>1. PICK m, n, r, h : m = d.res /\ n = o.size /\ r = Room(o.kind, Held(BufferOf(o.fd)))
                              /\ h = Held(BufferOf(o.fd))
        OBVIOUS
      <4>2. m <= n /\ m \in Int /\ n \in Nat /\ n <= r
        BY <1>6, <3>1, <4>1, QueueTypes DEF Says, WaitsFor
      <4>3. r \in Int
        <5>1. o.fd \in Fds /\ BufferOf(o.fd) # NoBuffer
          BY <1>6, <3>1, QueueTypes DEF WaitsFor
        <5>2. BufferOf(o.fd) \in 1 .. Len(ring)
          BY <5>1, Types DEF NoBuffer
        <5>3. ring[BufferOf(o.fd)] \in CounterPair
          BY <5>2, Types
        <5>4. h \in Int
          BY <4>1, <5>3, CountCases, CounterFacts, SMT DEF Held, CounterPair, Counter
        <5>5. BufferSize \in Int
          BY CounterFacts
        <5> QED BY <4>1, <5>4, <5>5 DEF Room
      <4>4. m <= r
        BY ONLY <4>2, <4>3
      <4> QED BY <1>6, <3>1, <4>1, <4>4 DEF WaitsFor
    <3>3. d.fd = o.fd /\ d.res >= 0
      <4>1. d.res \in Int /\ d.res > 0
        BY <1>9, <3>1 DEF Moved, Completion
      <4> QED BY <3>1, <4>1
    <3>4. ASSUME NEW j \in DOMAIN q, q[j].fd = d.fd
          PROVE  q[j].res >= 0 /\ (Moved(q[j]) => i = j)
      <4>1. CASE j = new
        BY <1>4, <2>2, <3>1, <3>3, <4>1
      <4>2. CASE j \in DOMAIN cq
        BY <1>4, <1>6, <3>1, <3>3, <3>4, <4>2
      <4> QED BY <1>4, <4>1, <4>2
    <3> QED BY <1>6, <3>1, <3>2, <3>3, <3>4
  <2> QED BY <1>4, <2>1, <2>2
<1>10. MovedInv'
  <2>1. \A i \in DOMAIN q : Moved(q[i]) =>
            /\ WaitsFor(q[i].fd, q[i].kind, q[i].res)
            /\ \A j \in DOMAIN sq : sq[j].fd = q[i].fd => sq[j].kind \notin IO
            /\ \A j \in DOMAIN q : q[j].fd = q[i].fd =>
                    q[j].res >= 0 /\ (Moved(q[j]) => i = j)
    BY <1>9
  <2>2. \A i \in DOMAIN q : WaitsFor(q[i].fd, q[i].kind, q[i].res)
                                => WaitsFor(cq[i].fd, cq[i].kind, cq[i].res)'
    BY <1>2, <1>3
  <2> QED BY <1>1, <1>3, <2>1, <2>2 DEF MovedInv
<1>11. PreparedInv' /\ WaitersInv'
  BY <1>1, <1>2 DEF PreparedInv, WaitersInv
<1>12. pc' \in {"start", "tick"} => sq' = <<>>
  BY <1>1
<1> QED BY <1>8, <1>10, <1>11, <1>12 DEF MovesInv

(* It moved bytes for the connection that waits, and no other.             *)
MovesBytes(o, e) ==
    /\ \A d \in Clients : /\ sock'[d].phase = sock[d].phase /\ sock'[d].peer = sock[d].peer
                          /\ (d # o.of \/ ~Moved(e)) => sock'[d] = sock[d]
    /\ Moved(e) => sock'[o.of].in - sock'[o.of].out = (sock[o.of].in - sock[o.of].out) + Change(e)

LEMMA CompletedBytes ==
    ASSUME OneDescriptorEach, FlyingInv, BytesInv,
           fdOwner \in [Fds -> Clients \cup {NoClient}],
           NEW o \in DOMAIN flying, NEW e, e.kind = o.kind, e.fd = o.fd, o.fd \in Fds,
           Completes(o, e), MovesBytes(o, e), UNCHANGED <<fdOwner, m_connections, ring>>
    PROVE  BytesInv'
<1> SUFFICES ASSUME NEW f \in Fds, fdOwner[f] # NoClient, BufferOf(f) # NoBuffer
             PROVE  LET s  == sock'[fdOwner[f]]
                        at == {i \in DOMAIN cq' : cq'[i].fd = f /\ Moved(cq'[i])}
                    IN  /\ \A i, j \in at : i = j
                        /\ \/ s.peer = "rst"
                           \/ /\ at = {} => Held(BufferOf(f)) = s.in - s.out
                              /\ \A i \in at : Held(BufferOf(f)) + Change(cq'[i]) = s.in - s.out
  BY DEF BytesInv, BufferOf, Held
<1>1. PICK c, q, new, at, later :
        /\ c = fdOwner[f] /\ q = cq' /\ new = Len(cq) + 1
        /\ at = {i \in DOMAIN cq : cq[i].fd = f /\ Moved(cq[i])}
        /\ later = {i \in DOMAIN q : q[i].fd = f /\ Moved(q[i])}
  OBVIOUS
<1>2. PICK s, t, h : s = sock[c] /\ t = sock'[c] /\ h = Held(BufferOf(f))
  OBVIOUS
<1>3. /\ \A i, j \in at : i = j
      /\ \/ s.peer = "rst"
         \/ /\ at = {} => h = s.in - s.out
            /\ \A i \in at : h + Change(cq[i]) = s.in - s.out
  BY <1>1, <1>2 DEF BytesInv
<1>4. /\ \A i \in DOMAIN cq : i \in DOMAIN q /\ i # new /\ q[i] = cq[i]
      /\ \A i \in DOMAIN q : i \in DOMAIN cq \/ i = new
      /\ new \in DOMAIN q /\ q[new] = e
  BY <1>1 DEF Completes
<1>5. c \in Clients
  BY <1>1
<1>6. t.peer = s.peer
  BY <1>2, <1>5 DEF MovesBytes
<1>7. CASE f = o.fd /\ Moved(e)
  <2>1. /\ c = o.of /\ \A i \in DOMAIN cq : cq[i].fd = f => ~Moved(cq[i])
    BY <1>1, <1>7 DEF FlyingInv, Moved
  <2>2. at = {} /\ later = {new}
    BY <1>1, <1>4, <1>7, <2>1
  <2>3. t.in - t.out = (s.in - s.out) + Change(e)
    BY <1>2, <1>7, <2>1 DEF MovesBytes
  <2>4. s.peer = "rst" \/ h + Change(q[new]) = t.in - t.out
    BY <1>3, <1>4, <2>2, <2>3
  <2>5. /\ \A i, j \in later : i = j
        /\ \/ t.peer = "rst"
           \/ /\ later = {} => h = t.in - t.out
              /\ \A i \in later : h + Change(q[i]) = t.in - t.out
    BY <1>6, <2>2, <2>4
  <2> QED BY <1>1, <1>2, <2>5
<1>8. CASE ~(f = o.fd /\ Moved(e))
  <2>1. t = s
    <3>1. CASE Moved(e)
      <4>1. fdOwner[o.fd] = o.of /\ f # o.fd
        BY <1>8, <3>1 DEF FlyingInv, Moved
      <4>2. c # o.of
        BY <1>1, <4>1 DEF OneDescriptorEach
      <4> QED BY <1>2, <1>5, <4>2 DEF MovesBytes
    <3>2. CASE ~Moved(e)
      BY <1>2, <1>5, <3>2 DEF MovesBytes
    <3> QED BY <3>1, <3>2
  <2>2. ~(e.fd = f /\ Moved(e))
    BY <1>8
  <2>3. later = at /\ \A i \in at : q[i] = cq[i]
    BY <1>1, <1>4, <2>2
  <2>4. /\ \A i, j \in later : i = j
        /\ \/ t.peer = "rst"
           \/ /\ later = {} => h = t.in - t.out
              /\ \A i \in later : h + Change(q[i]) = t.in - t.out
    BY <1>3, <2>1, <2>3
  <2> QED BY <1>1, <1>2, <2>4
<1> QED BY <1>7, <1>8

LEMMA CompletedStep ==
    ASSUME IInv, Running, UNCHANGED <<table, held, m_running, pc>>,
           NEW o \in DOMAIN flying, NEW res, Says(o, res), Complete(o, res),
           sock' \in [Clients -> Socket],
           \A e : (e.kind = o.kind /\ e.res = res) => MovesBytes(o, e)
    PROVE  IInv'
<1>1. /\ UNCHANGED <<sq, backlog, fdOwner, tls, hs, inside, m_connections, ring>>
      /\ TypeOK /\ TableOK /\ QueuesOK /\ ThreadOK /\ OneDescriptorEach /\ HandshakeInv
      /\ TablesInv /\ MovesInv /\ FlyingInv /\ BytesInv
      /\ fdOwner \in [Fds -> Clients \cup {NoClient}] /\ backlog \in Seq(Clients)
      /\ o.fd \in Fds /\ o.kind \in Kinds /\ o.of \in Clients
  BY TypeParts, Types, QueueTypes DEF Complete, IInv, Alive, MovesInv, table, tls
<1>2. PICK e \in Completion : /\ e.kind = o.kind /\ e.fd = o.fd /\ e.res = res
                              /\ Completes(o, e)
  BY <1>1, CompleteAppends DEF Says
<1>3. QueuesOK'
  BY <1>1, CompleteAppends DEF Says
<1>4. MovesBytes(o, e)
  BY <1>2
<1>5. MovesInv'
  BY <1>1, <1>2, CompletedMoves
<1>6. BytesInv'
  BY <1>1, <1>2, <1>4, CompletedBytes
<1>7. \A d \in Clients : /\ sock'[d].phase = sock[d].phase
                         /\ (sock[d].phase # "open" \/ hs[d] # "done") => sock'[d] = sock[d]
  <2>1. Moved(e) => hs[o.of] = "done" /\ sock[o.of].phase = "open"
    <3> SUFFICES ASSUME Moved(e) PROVE hs[o.of] = "done" /\ sock[o.of].phase = "open"
      OBVIOUS
    <3>1. o.kind \in IO
      BY <1>2 DEF Moved
    <3>2. fdOwner[o.fd] = o.of /\ fdOwner[o.fd] # NoClient /\ BufferOf(o.fd) # NoBuffer
      BY <1>1, <3>1 DEF FlyingInv, WaitsFor
    <3>3. hs[o.of] = "done"
      BY <1>1, <3>2 DEF TablesInv
    <3> QED BY <1>1, <3>2, <3>3 DEF OneDescriptorEach
  <2> QED BY <1>4, <2>1 DEF MovesBytes
<1>8. OneDescriptorEach'
  BY <1>1, <1>7, DescriptorsKept
<1>9. HandshakeInv'
  BY <1>1, <1>7 DEF HandshakeInv
<1>10. TypeOK'
  <2>1. TableOK'
    BY <1>1 DEF TableOK, table
  <2>2. ThreadOK'
    BY <1>1 DEF ThreadOK
  <2> QED BY <1>3, <2>1, <2>2, TypeParts
<1>11. EndInv' /\ (Alive' => Alive) /\ pc # "destroyed"
  BY DEF EndInv, Alive, Running
<1> QED BY <1>1, <1>5, <1>6, <1>8, <1>9, <1>10, <1>11, QuietStep

LEMMA SmallerOf ==
    ASSUME NEW a \in Nat, NEW b \in Nat
    PROVE  Smaller(a, b) \in Nat /\ Smaller(a, b) <= a /\ Smaller(a, b) <= b
    BY DEF Smaller

(* The kernel completes an operation.                                      *)
LEMMA KernelMoveStep ==
    ASSUME IInv, NEW f \in Fds, KernelStep(KernelMove(f))
    PROVE  IInv'
<1>1. PICK o \in DOMAIN flying : CompletePoll(o) \/ CompleteRecv(o) \/ CompleteSend(o)
  BY DEF KernelStep, KernelMove
<1>2. Running /\ UNCHANGED <<table, held, m_running, pc>>
  BY DEF KernelStep
<1>3. /\ sock \in [Clients -> Socket] /\ o.kind \in Kinds /\ o.size \in Nat /\ o.of \in Clients
  BY TypeParts, Types, QueueTypes DEF IInv
<1>4. PICK c, s : c = o.of /\ s = sock[c]
  OBVIOUS
<1>5. /\ c \in Clients /\ s \in Socket /\ s.rx \in Nat /\ s.in \in Nat /\ s.out \in Nat
      /\ SendRoom - s.tx \in Nat
  <2>1. s \in Socket
    BY <1>3, <1>4
  <2>2. s.rx \in 0 .. MaxBytes /\ s.tx \in 0 .. SendRoom /\ s.in \in Nat /\ s.out \in Nat
        /\ MaxBytes \in Nat /\ SendRoom \in Nat
    BY <2>1, SocketCounts
  <2>3. s.rx \in Nat /\ SendRoom - s.tx \in Nat
    BY <2>2
  <2> QED BY <1>3, <1>4, <2>1, <2>2, <2>3
<1>6. ASSUME NEW res, Says(o, res), Complete(o, res), sock' = sock, o.kind \notin IO \/ ~(res > 0)
      PROVE  IInv'
  <2>1. \A e : (e.kind = o.kind /\ e.res = res) => MovesBytes(o, e)
    BY <1>6 DEF MovesBytes, Moved
  <2> QED BY <1>2, <1>3, <1>6, <2>1, CompletedStep
<1>7. CASE CompletePoll(o)
  <2>1. o.kind \in {"poll_in", "poll_out"} /\ Complete(o, 1) /\ sock' = sock
    BY <1>7 DEF CompletePoll
  <2>2. Says(o, 1) /\ o.kind \notin IO
    BY <2>1 DEF Says, IO
  <2>3. PICK res : res = 1
    OBVIOUS
  <2> QED BY <1>6, <2>1, <2>2, <2>3
<1>8. ASSUME NEW n \in {0, -1}, o.kind \in IO, Complete(o, n), sock' = sock
      PROVE  IInv'
  <2>1. n \in Int /\ n <= o.size /\ ~(n > 0)
    BY <1>3
  <2> QED BY <1>6, <1>8, <2>1 DEF Says
<1>9. CASE CompleteRecv(o)
  <2>1. PICK n : n = Smaller(o.size, s.rx)
    OBVIOUS
  <2>2. n \in Nat /\ n <= o.size /\ n <= s.rx
    BY <1>3, <1>5, <2>1, SmallerOf
  <2>3. CASE n > 0
    <3>1. /\ o.kind = "recv" /\ Complete(o, n)
          /\ sock' = [sock EXCEPT ![c].rx = @ - n, ![c].in = @ + n]
      BY <1>4, <1>9, <2>1, <2>3 DEF CompleteRecv
    <3>2. sock' \in [Clients -> Socket]
      BY <1>3, <1>4, <1>5, <2>2, <3>1, ReceivedType
    <3>3. /\ sock'[c].in = s.in + n /\ sock'[c].out = s.out
          /\ \A d \in Clients : /\ sock'[d].phase = sock[d].phase /\ sock'[d].peer = sock[d].peer
                                /\ d # c => sock'[d] = sock[d]
      BY <1>3, <1>4, <1>5, <3>1, ReceivedBytes
    <3>4. Says(o, n) /\ o.kind \in IO
      BY <2>2, <3>1 DEF Says, IO
    <3>5. sock'[c].in - sock'[c].out = (s.in - s.out) + n
      BY <1>5, <2>2, <3>3
    <3>6. \A e : (e.kind = o.kind /\ e.res = n) => MovesBytes(o, e)
      BY <1>4, <2>3, <3>1, <3>3, <3>4, <3>5 DEF MovesBytes, Moved, Change
    <3> QED BY <1>2, <3>1, <3>2, <3>4, <3>6, CompletedStep
  <2>4. CASE ~(n > 0)
    <3>1. o.kind = "recv" /\ (Complete(o, 0) \/ Complete(o, -1)) /\ sock' = sock
      BY <1>4, <1>9, <2>1, <2>4 DEF CompleteRecv
    <3>2. PICK k \in {0, -1} : Complete(o, k)
      BY <3>1
    <3> QED BY <1>8, <3>1, <3>2 DEF IO
  <2> QED BY <2>3, <2>4
<1>10. CASE CompleteSend(o)
  <2>1. PICK n : n = Smaller(o.size, SendRoom - s.tx)
    OBVIOUS
  <2>2. n \in Nat /\ n <= o.size /\ n <= SendRoom - s.tx
    BY <1>3, <1>5, <2>1, SmallerOf
  <2>3. CASE SendBroken(c)
    <3>1. o.kind = "send" /\ Complete(o, -1) /\ sock' = sock
      BY <1>4, <1>10, <2>3 DEF CompleteSend
    <3>2. PICK k \in {0, -1} : Complete(o, k)
      BY <3>1
    <3> QED BY <1>8, <3>1, <3>2 DEF IO
  <2>4. CASE ~SendBroken(c)
    <3>1. /\ o.kind = "send" /\ Complete(o, n)
          /\ sock' = [sock EXCEPT ![c].tx = @ + n, ![c].out = @ + n]
      BY <1>4, <1>10, <2>1, <2>4 DEF CompleteSend
    <3>2. sock' \in [Clients -> Socket]
      BY <1>3, <1>4, <1>5, <2>2, <3>1, SentType
    <3>3. /\ sock'[c].in = s.in /\ sock'[c].out = s.out + n
          /\ \A d \in Clients : /\ sock'[d].phase = sock[d].phase /\ sock'[d].peer = sock[d].peer
                                /\ d # c => sock'[d] = sock[d]
      BY <1>3, <1>4, <1>5, <3>1, SentBytes
    <3>4. Says(o, n) /\ o.kind \in IO /\ o.kind # "recv"
      BY <2>2, <3>1 DEF Says, IO
    <3>5. sock'[c].in - sock'[c].out = (s.in - s.out) + (-n)
      BY <1>5, <2>2, <3>3
    <3>6. \A e : (e.kind = o.kind /\ e.res = n) => MovesBytes(o, e)
      <4>1. SUFFICES ASSUME NEW e, e.kind = o.kind, e.res = n PROVE MovesBytes(o, e)
        OBVIOUS
      <4>2. Change(e) = -n
        BY <3>4, <4>1 DEF Change
      <4>3. CASE n > 0
        <5>1. Moved(e)
          BY <3>4, <4>1, <4>3 DEF Moved
        <5> QED BY <1>4, <3>3, <3>5, <4>2, <5>1 DEF MovesBytes
      <4>4. CASE ~(n > 0)
        <5>1. n = 0
          BY <2>2, <4>4
        <5>2. ~Moved(e)
          BY <4>1, <4>4 DEF Moved
        <5>3. PICK r : r = [s EXCEPT !.tx = @ + n, !.out = @ + n]
          OBVIOUS
        <5>4. r = s
          <6>1. s.tx + n = s.tx /\ s.out + n = s.out
            BY <1>5, <5>1, SocketCounts
          <6> QED BY <1>5, <5>3, <6>1 DEF Socket
        <5>5. sock'[c] = r
          BY <1>3, <1>4, <1>5, <3>1, <5>3
        <5> QED BY <1>4, <3>3, <5>2, <5>4, <5>5 DEF MovesBytes
      <4> QED BY <4>3, <4>4
    <3> QED BY <1>2, <3>1, <3>2, <3>4, <3>6, CompletedStep
  <2> QED BY <2>3, <2>4
<1> QED BY <1>1, <1>7, <1>9, <1>10
-----------------------------------------------------------------------------
(* The account: how Unhandled adds up completions, of which a connection   *)
(* has one at most.                                                        *)
Summing(q, S, g) ==
    [s \in SUBSET S |-> IF s = {} THEN 0
                        ELSE q[CHOOSE x \in s : TRUE].res + g[s \ {CHOOSE x \in s : TRUE}]]
Sums(q, S) == CHOOSE g : g = Summing(q, S, g)

Ended(f, kind) == {i \in DOMAIN cq : cq[i].fd = f /\ cq[i].kind = kind /\ cq[i].res > 0}

LEMMA UnhandledSums ==
    ASSUME NEW f, NEW kind
    PROVE  Unhandled(f, kind) = Sums(cq, Ended(f, kind))[Ended(f, kind)]
    BY DEF Unhandled, Ended, FoldSet, MapThenFoldSet, Sums, Summing

LEMMA SumNone ==
    ASSUME NEW q
    PROVE  Sums(q, {})[{}] = 0
<1>1. PICK g : g = [s \in SUBSET {} |-> 0]
  OBVIOUS
<1>2. \A s \in SUBSET {} : s = {}
  OBVIOUS
<1>3. g = Summing(q, {}, g)
  BY ONLY <1>1, <1>2 DEF Summing
<1>4. PICK c : c = Sums(q, {})
  OBVIOUS
<1>5. c = Summing(q, {}, c)
  <2> HIDE DEF Summing
  <2> QED BY <1>3, <1>4 DEF Sums
<1>6. c[{}] = 0
  BY ONLY <1>5 DEF Summing
<1> QED BY <1>4, <1>6

LEMMA SumOne ==
    ASSUME NEW q, NEW i
    PROVE  Sums(q, {i})[{i}] = q[i].res + 0
<1>1. PICK r : r = q[i].res + 0
  OBVIOUS
<1>2. PICK g : g = [s \in SUBSET {i} |-> IF s = {} THEN 0 ELSE r]
  OBVIOUS
<1>3. /\ \A s \in SUBSET {i} : s = {} \/ s = {i}
      /\ (CHOOSE x \in {i} : TRUE) = i /\ {i} \ {i} = {}
      /\ {} \in SUBSET {i} /\ {i} \in SUBSET {i} /\ {i} # {}
  OBVIOUS
<1>4. g[{}] = 0
  BY ONLY <1>2, <1>3
<1>5. g = Summing(q, {i}, g)
  <2>1. \A s \in SUBSET {i} : (IF s = {} THEN 0 ELSE r)
            = IF s = {} THEN 0
              ELSE q[CHOOSE x \in s : TRUE].res + g[s \ {CHOOSE x \in s : TRUE}]
    <3> SUFFICES ASSUME NEW s \in SUBSET {i}, s # {}
                 PROVE  r = q[CHOOSE x \in s : TRUE].res + g[s \ {CHOOSE x \in s : TRUE}]
      OBVIOUS
    <3>1. s = {i}
      BY <1>3
    <3>2. (CHOOSE x \in s : TRUE) = i
      BY ONLY <1>3, <3>1
    <3>3. s \ {i} = {}
      BY ONLY <1>3, <3>1
    <3> QED BY ONLY <1>1, <1>4, <3>2, <3>3
  <2> QED BY ONLY <1>2, <2>1 DEF Summing
<1>6. PICK c : c = Sums(q, {i})
  OBVIOUS
<1>7. c = Summing(q, {i}, c)
  <2> HIDE DEF Summing
  <2> QED BY <1>5, <1>6 DEF Sums
<1>8. c[{}] = 0
  BY ONLY <1>3, <1>7 DEF Summing
<1>9. c[{i}] = q[CHOOSE x \in {i} : TRUE].res + c[{i} \ {CHOOSE x \in {i} : TRUE}]
  BY ONLY <1>3, <1>7 DEF Summing
<1>10. c[{i}] = q[i].res + 0
  BY ONLY <1>3, <1>8, <1>9
<1> QED BY <1>6, <1>10

LEMMA AccountAdds ==
    ASSUME TypeOK, BytesInv
    PROVE  ByteAccount
<1> SUFFICES ASSUME NEW f \in Fds, fdOwner[f] # NoClient, BufferOf(f) # NoBuffer
             PROVE  LET s == sock[fdOwner[f]]
                    IN  Held(BufferOf(f)) + Unhandled(f, "recv") - Unhandled(f, "send")
                            = s.in - s.out
                        \/ s.peer = "rst"
  BY DEF ByteAccount
<1>1. PICK s, at, h : /\ s = sock[fdOwner[f]] /\ h = Held(BufferOf(f))
                      /\ at = {i \in DOMAIN cq : cq[i].fd = f /\ Moved(cq[i])}
  OBVIOUS
<1>2. /\ \A i, j \in at : i = j
      /\ \/ s.peer = "rst"
         \/ /\ at = {} => h = s.in - s.out
            /\ \A i \in at : h + Change(cq[i]) = s.in - s.out
  BY <1>1 DEF BytesInv
<1>3. h \in Nat
  <2>1. BufferOf(f) \in 1 .. Len(ring)
    BY Types DEF NoBuffer
  <2>2. ring[BufferOf(f)] \in CounterPair
    BY <2>1, Types
  <2>3. PICK head \in Counter, tail \in Counter : h = Count(head, tail)
    BY <1>1, <2>2 DEF Held, CounterPair
  <2>4. h \in Counter /\ Counter \subseteq Nat
    BY <2>3, CountCases, CounterFacts, SMT DEF Counter
  <2> QED BY <2>4
<1>4. PICK R, S, m, n : /\ R = Ended(f, "recv") /\ S = Ended(f, "send")
                        /\ m = Unhandled(f, "recv") /\ n = Unhandled(f, "send")
  OBVIOUS
<1>5. m = Sums(cq, R)[R] /\ n = Sums(cq, S)[S]
  BY <1>4, UnhandledSums
<1>6. /\ \A i : i \in at <=> i \in R \/ i \in S
      /\ \A i \in R : cq[i].kind = "recv"
      /\ \A i \in S : cq[i].kind = "send"
  BY <1>1, <1>4 DEF Ended, Moved, IO
<1>7. \A i \in at : cq[i].res \in Int
  BY <1>1, QueueTypes, TypeParts
<1>8. CASE at = {}
  <2>1. R = {} /\ S = {}
    BY <1>6, <1>8
  <2>2. m = 0 /\ n = 0
    BY <1>5, <2>1, SumNone
  <2>3. h + m - n = h
    BY ONLY <1>3, <2>2
  <2> QED BY <1>1, <1>2, <1>4, <1>8, <2>3
<1>9. ASSUME NEW i \in at PROVE h + m - n = h + Change(cq[i])
  <2>1. PICK r \in Int : r = cq[i].res
    BY <1>7
  <2>2. CASE i \in R
    <3>1. R = {i} /\ S = {}
      BY <1>2, <1>6, <2>2
    <3>2. n = 0
      BY <1>5, <3>1, SumNone
    <3>3. m = r + 0
      BY <1>5, <2>1, <3>1, SumOne
    <3>4. Change(cq[i]) = r
      BY <1>6, <2>1, <2>2 DEF Change
    <3>5. h + m - n = h + r
      BY ONLY <1>3, <2>1, <3>2, <3>3
    <3> QED BY <3>4, <3>5
  <2>3. CASE i \in S
    <3>1. S = {i} /\ R = {}
      BY <1>2, <1>6, <2>3
    <3>2. m = 0
      BY <1>5, <3>1, SumNone
    <3>3. n = r + 0
      BY <1>5, <2>1, <3>1, SumOne
    <3>4. Change(cq[i]) = -r
      BY <1>6, <2>1, <2>3 DEF Change
    <3>5. h + m - n = h + (-r)
      BY ONLY <1>3, r \in Int, <3>2, <3>3
    <3> QED BY <3>4, <3>5
  <2> QED BY <1>6, <2>2, <2>3
<1>10. CASE at # {}
  <2>1. PICK i \in at : TRUE
    BY <1>10
  <2>2. s.peer = "rst" \/ h + Change(cq[i]) = s.in - s.out
    BY <1>2, <2>1
  <2> QED BY <1>1, <1>4, <1>9, <2>1, <2>2
<1> QED BY <1>8, <1>10
-----------------------------------------------------------------------------
LEMMA InitialStates ==
    ASSUME Init
    PROVE  IInv
<1>1. /\ SocketsInit /\ PoolInit /\ hs = [c \in Clients |-> "none"]
      /\ inside = [c \in Clients |-> 0]
      /\ sq = <<>> /\ flying = EmptyBag /\ cq = <<>>
      /\ held = {} /\ m_running = TRUE
      /\ m_connections = [f \in Fds |-> [state |-> "idle", buffer |-> NoBuffer, op |-> "none"]]
      /\ ssl = {} /\ m_pending_handshakes = {}
      /\ pc = "start"
  BY DEF Init, TlsInit
<1>2. OneDescriptorEach /\ PoolContents(m_pl, ring)
  BY <1>1, DescriptorsInit, ContentsInit
<1>3. /\ ring \in Seq(CounterPair) /\ m_pl \in Seq(1 .. Len(ring))
      /\ Len(ring) = Prepool /\ Len(m_pl) = Prepool /\ Prepool \in Nat
      /\ \A i \in 1 .. Prepool : m_pl[i] = i
  <2>1. EmptyRing \in CounterPair /\ Prepool \in Nat
    BY EmptyHoldsNothing, PoolAssumption
  <2> QED BY <1>1, <2>1 DEF PoolInit
<1>4. \A f \in Fds : BufferOf(f) = NoBuffer /\ BufferTable[f] = 0
  BY <1>1 DEF BufferOf, BufferTable, NoBuffer
<1>5. PoolInv
  BY <1>3, <1>4 DEF PoolInv, Conserved
<1>6. DOMAIN flying = {} /\ IsABag(flying)
  BY <1>1 DEF EmptyBag, SetToBag, IsABag
<1>7. Len(sq) = 0 /\ sq \in Seq(Operation) /\ cq \in Seq(Completion)
  BY <1>1, EmptySeq
<1>8. DOMAIN sq = {} /\ DOMAIN cq = {}
  <2>1. PICK t \in Seq(Operation) : t = <<>> /\ Len(t) = 0
    BY EmptySeq
  <2>2. DOMAIN t = 1 .. 0 /\ 1 .. 0 = {}
    BY <2>1, LenProperties
  <2> QED BY <1>1, <2>1, <2>2
<1>9. TypeOK
  <2>1. sock \in [Clients -> Socket] /\ backlog \in Seq(Clients)
    BY <1>1, SocketAssumption DEF SocketsInit, Socket
  <2>2. fdOwner \in [Fds -> Clients \cup {NoClient}] /\ 0 \in 0 .. MaxBytes
    BY <1>1, SocketAssumption DEF SocketsInit
  <2>3. TableOK
    BY <1>1, <1>3, <2>1, <2>2 DEF TableOK, States
  <2>4. ThreadOK
    BY <1>1, <2>1 DEF ThreadOK, Phase
  <2>5. QueuesOK
    BY <1>6, <1>7, LoopAssumption DEF QueuesOK
  <2> QED BY <2>3, <2>4, <2>5, TypeParts
<1>10. TablesInv
  BY <1>1, <1>4 DEF TablesInv, SocketsInit
<1>11. MovesInv
  <2>1. WaitersInv
    BY <1>1 DEF WaitersInv, IO
  <2> QED BY <1>1, <1>6, <1>8, <2>1 DEF MovesInv, PreparedInv, FlyingInv, MovedInv
<1>12. HandshakeInv /\ BytesInv /\ EndInv
  BY <1>1, <1>4 DEF HandshakeInv, BytesInv, EndInv, SocketsInit
<1> QED BY <1>2, <1>5, <1>9, <1>10, <1>11, <1>12 DEF IInv

LEMMA Inductive ==
    ASSUME IInv, [Next]_vars
    PROVE  IInv'
<1>1. CASE LoopStep
  BY <1>1, StartSteps, EndSteps, AcceptFailsStep, AcceptSteps, SubmitStep, ErrorStep, PendingStep,
     RecvStep, SendStep, PollSteps, CrashStep DEF LoopStep
<1>2. CASE SetUpFails \/ WaitFails \/ Stop \/ Rests \/ UNCHANGED vars
  BY <1>2, StartSteps, EndSteps
<1>3. CASE \E c \in Clients : PeerActs(c)
  BY <1>3, PeerSteps
<1>4. CASE \E f \in Fds : KernelStep(KernelMove(f))
  BY <1>4, KernelMoveStep
<1> QED BY <1>1, <1>2, <1>3, <1>4 DEF Next

LEMMA Invariance == Spec => []IInv
<1>1. Init => IInv
  BY InitialStates
<1>2. IInv /\ [Next]_vars => IInv'
  BY Inductive
<1> QED BY <1>1, <1>2, PTL DEF Spec
-----------------------------------------------------------------------------
(* The variables keep their types: the ring is never given more operations *)
(* than it has entries for.                                                *)
THEOREM TypeCorrect == Spec => []TypeOK
<1>1. IInv => TypeOK
  BY DEF IInv
<1> QED BY <1>1, Invariance, PTL

(* Whichever way a handshake goes, at accept or when a poll completes, and *)
(* whichever completion comes late, the SSL objects, the pending           *)
(* handshakes and the buffers are those of the open descriptors that       *)
(* should have one.                                                        *)
THEOREM ObjectsAgree == Spec => []TlsObjects
<1>1. IInv => TlsObjects
  <2> SUFFICES ASSUME IInv, Running, NEW f \in Fds
               PROVE  LET open == fdOwner[f] # NoClient
                          established == open /\ hs[fdOwner[f]] = "done"
                      IN  /\ f \in ssl <=> open
                          /\ f \in m_pending_handshakes <=> (open /\ ~established)
                          /\ BufferOf(f) # NoBuffer <=> established
    BY DEF TlsObjects
  <2>1. TablesInv
    BY DEF IInv, Alive, Running
  <2> QED BY <2>1 DEF TablesInv
<1> QED BY <1>1, Invariance, PTL

(* What Conserved says of the pool and the connections.                    *)
LEMMA ConservedMeans ==
    ASSUME TypeOK, PoolInv
    PROVE  /\ \A f, g \in Fds : (f # g /\ BufferOf(f) # NoBuffer) => BufferOf(f) # BufferOf(g)
           /\ \A i, j \in DOMAIN m_pl : i # j => m_pl[i] # m_pl[j]
           /\ Owned \cap Pooled = {} /\ Owned \cup Pooled = Buffers
<1>1. PICK k, n : k = Len(m_pl) /\ n = Len(ring)
  OBVIOUS
<1>2. /\ Conserved(m_pl, k, n, Fds, BufferTable)
      /\ Buffers = 1 .. n /\ DOMAIN m_pl = 1 .. k
      /\ \A f \in Fds : BufferTable[f] = BufferOf(f)
  BY <1>1, Types, LenProperties DEF PoolInv, BufferTable
<1>3. /\ \A f, g \in Fds : (f # g /\ BufferOf(f) # NoBuffer) => BufferOf(f) # BufferOf(g)
      /\ \A i, j \in DOMAIN m_pl : i # j => m_pl[i] # m_pl[j]
  BY <1>2 DEF Conserved, NoBuffer
<1>4. Owned \cap Pooled = {}
  BY <1>2 DEF Conserved, Owned, Buffered, Pooled, NoBuffer
<1>5. Owned \cup Pooled = Buffers
  <2>1. \A b \in 1 .. n : b # 0
    BY <1>2 DEF Conserved
  <2>2. \A b \in 0 .. n : b = 0 \/ b \in 1 .. n
    BY <1>2 DEF Conserved
  <2>3. Owned \cup Pooled \subseteq Buffers
    BY <1>2, <2>2 DEF Conserved, Owned, Buffered, Pooled, NoBuffer
  <2>4. Buffers \subseteq Owned \cup Pooled
    <3>1. ASSUME NEW b \in 1 .. n, NEW f \in Fds, BufferTable[f] = b PROVE b \in Owned
      BY <1>2, <2>1, <3>1 DEF Owned, Buffered, NoBuffer
    <3>2. ASSUME NEW b \in 1 .. n, NEW i \in 1 .. k, m_pl[i] = b PROVE b \in Pooled
      BY <1>2, <3>2 DEF Pooled
    <3>3. \A b \in 1 .. n : \/ \E f \in Fds : BufferTable[f] = b
                           \/ \E i \in 1 .. k : m_pl[i] = b
      BY <1>2 DEF Conserved
    <3> QED BY <1>2, <3>1, <3>2, <3>3
  <2> QED BY <2>3, <2>4
<1> QED BY <1>3, <1>4, <1>5

(* The pool neither loses a buffer nor gives one to two connections,       *)
(* though an error removes whatever has the descriptor; and it has them    *)
(* all when run() has ended, whatever is in the kernel.                    *)
THEOREM BuffersConserved == Spec => []BufferConservation
<1>1. IInv => BufferConservation
  BY ConservedMeans DEF IInv, BufferConservation
<1> QED BY <1>1, Invariance, PTL

(* Each buffer holds what was received on its connection and not sent      *)
(* back, but for a completion that is not handled yet: so what moved on a  *)
(* connection that is gone is never counted for the next one there.        *)
THEOREM BytesAccounted == Spec => []ByteAccount
<1>1. IInv => ByteAccount
  BY AccountAdds DEF IInv
<1> QED BY <1>1, Invariance, PTL

(* run() returns, throws, or is interrupted: the destructor leaves no SSL  *)
(* object, no context and no buffer out of the pool.                       *)
THEOREM NothingLeft == Spec => []NothingOutlives
<1>1. IInv => NothingOutlives
  <2> SUFFICES ASSUME IInv PROVE NothingOutlives
    OBVIOUS
  <2>1. pc = "destroyed" => ssl = {} /\ Owned = {} /\ held \subseteq {"listen", "epfd"}
    BY DEF IInv, EndInv, Owned, Buffered
  <2>2. pc = "stopped" => held = {"ctx"} /\ Owned \cup Pooled = Buffers
    BY ConservedMeans DEF IInv, EndInv
  <2> QED BY <2>1, <2>2 DEF NothingOutlives
<1> QED BY <1>1, Invariance, PTL

(* All of them at once.                                                    *)
THEOREM ConsistentAlways == Spec => []Consistent
<1> QED BY TypeCorrect, ObjectsAgree, BuffersConserved, BytesAccounted, NothingLeft, PTL
        DEF Consistent
=============================================================================
