-------------------------- MODULE UringTcpLoopProofs ------------------------
(***************************************************************************)
(* The safety invariants of the io_uring loop, for any number of clients,  *)
(* descriptors and buffers, any buffer size, any length of the submission  *)
(* queue, any faults, and callbacks that answer anything.                  *)
(*                                                                         *)
(* A completion names its connection by a tag only, so what a handler does *)
(* with one is right because the connection has no other operation that is *)
(* not over: of the listening socket and each connection that waits there  *)
(* is one entry, in one of the three queues.                               *)
(*                                                                         *)
(* Then the byte account, and that the loop keeps the connection contract. *)
(***************************************************************************)
EXTENDS UringTcpLoop, SharedLemmas, FunctionTheorems

(* The tag of the accept, twice its descriptor, is not the one of a        *)
(* receive.                                                                *)
TagsDiffer == \A f \in Fds : ListenFd # 2 * f

BufferTable == [f \in Table |-> BufferOf(f)]

(* Each buffer is in one place, those of the table with open connections.  *)
PoolInv ==
    /\ Conserved(m_pl, Len(m_pl), Len(ring), Table, BufferTable)
    /\ \A f \in Table : BufferOf(f) # NoBuffer => f \in Fds /\ fdOwner[f] # NoClient

(* The descriptor a completion is about.                                   *)
HolderOf(e) == IF e.ud = TagAccept THEN ListenFd ELSE FdOfTag(e.ud)

(* Each descriptor of "act", and no other, has one entry in one of a       *)
(* submission queue, the kernel and a completion queue.                    *)
OneEach(q, fly, c, act) ==
    /\ \A i, j \in 1 .. Len(q) : q[i].fd = q[j].fd => i = j
    /\ \A o, p \in fly : o.fd = p.fd => o = p
    /\ \A i, j \in 1 .. Len(c) : HolderOf(c[i]) = HolderOf(c[j]) => i = j
    /\ \A i \in 1 .. Len(q) : q[i].fd \in act
    /\ \A o \in fly : o.fd \in act
    /\ \A i \in 1 .. Len(c) : HolderOf(c[i]) \in act
    /\ \A i \in 1 .. Len(q) : \A o \in fly : q[i].fd # o.fd
    /\ \A i \in 1 .. Len(q) : \A j \in 1 .. Len(c) : q[i].fd # HolderOf(c[j])
    /\ \A o \in fly : \A j \in 1 .. Len(c) : o.fd # HolderOf(c[j])
    /\ \A f \in act : \/ \E i \in 1 .. Len(q) : q[i].fd = f
                      \/ \E o \in fly : o.fd = f
                      \/ \E i \in 1 .. Len(c) : HolderOf(c[i]) = f

(* Who waits for something.                                                *)
Active == {ListenFd} \cup {f \in Fds : m_connections[f].op # "none"}

(* An operation is the one its connection waits for.                       *)
OpCurrent(o, conns, rg) ==
    \/ o = Accept
    \/ /\ o.fd \in Fds /\ o.kind \in {"recv", "send"}
       /\ conns[o.fd].op = o.kind
       /\ o.buffer = conns[o.fd].buffer /\ o.buffer # NoBuffer
       /\ o.size = Region(o.kind, rg[o.buffer])

(* So is a completion; the connection of an accept is open and not in the  *)
(* table.                                                                  *)
IsAnswer(e, f, conns, rg) ==
    /\ conns[f].buffer # NoBuffer
    /\ \/ conns[f].op = "recv" /\ e.ud = TagRecv(f)
       \/ conns[f].op = "send" /\ e.ud = TagSend(f)
    /\ e.res <= Region(conns[f].op, rg[conns[f].buffer])

CompletionCurrent(e, conns, rg, owner) ==
    \/ /\ e.ud = TagAccept
       /\ \/ e.res = -1
          \/ e.res \in Fds /\ owner[e.res] # NoClient /\ conns[e.res].buffer = NoBuffer
    \/ \E f \in Fds : IsAnswer(e, f, conns, rg)

QueuesInv ==
    /\ OneEach(sq, flying, cq, Active)
    /\ \A i \in 1 .. Len(sq) : OpCurrent(sq[i], m_connections, ring)
    /\ \A o \in flying : OpCurrent(o, m_connections, ring)
    /\ \A i \in 1 .. Len(cq) : CompletionCurrent(cq[i], m_connections, ring, fdOwner)
    /\ \A f \in Table : m_connections[f].op # "none" => BufferOf(f) # NoBuffer

IInv == TypeOK /\ PoolInv /\ (pc # "stopped" => QueuesInv)
-----------------------------------------------------------------------------
(* The entry of one descriptor on its way from queue to queue.             *)
LEMMA EachPrepared ==
    ASSUME NEW S, NEW q \in Seq(S), NEW o \in S, NEW fly, NEW c, NEW act,
           OneEach(q, fly, c, act), o.fd \notin act,
           NEW p, p = Append(q, o)
    PROVE  OneEach(p, fly, c, act \cup {o.fd})
<1>1. PICK n \in Nat : n = Len(q)
  BY LenProperties
<1>2. Len(p) = n + 1 /\ p[n + 1] = o /\ \A i \in 1 .. n : p[i] = q[i]
  BY <1>1, AppendProperties
<1>3. /\ \A i \in 1 .. n + 1 : i \in 1 .. n \/ i = n + 1
      /\ n + 1 \in 1 .. n + 1 /\ \A i \in 1 .. n : i \in 1 .. n + 1
  BY <1>1
<1>4. \A i, j \in 1 .. n + 1 : p[i].fd = p[j].fd => i = j
  BY <1>1, <1>2, <1>3 DEF OneEach
<1>5. \A i \in 1 .. n + 1 : /\ p[i].fd \in act \cup {o.fd}
                            /\ \A a \in fly : p[i].fd # a.fd
                            /\ \A j \in 1 .. Len(c) : p[i].fd # HolderOf(c[j])
  BY <1>1, <1>2, <1>3 DEF OneEach
<1>6. \A f \in act \cup {o.fd} : \/ \E i \in 1 .. n + 1 : p[i].fd = f
                                 \/ \E a \in fly : a.fd = f
                                 \/ \E i \in 1 .. Len(c) : HolderOf(c[i]) = f
  <2> SUFFICES ASSUME NEW f \in act
               PROVE  \/ \E i \in 1 .. n + 1 : p[i].fd = f
                      \/ \E a \in fly : a.fd = f
                      \/ \E i \in 1 .. Len(c) : HolderOf(c[i]) = f
    BY <1>2, <1>3
  <2> QED BY <1>1, <1>2, <1>3 DEF OneEach
<1> QED BY <1>2, <1>4, <1>5, <1>6 DEF OneEach

LEMMA EachSubmitted ==
    ASSUME NEW q, NEW fly, NEW c, NEW act, OneEach(q, fly, c, act),
           NEW all, all = fly \cup {q[i] : i \in 1 .. Len(q)}
    PROVE  OneEach(<<>>, all, c, act)
<1>1. Len(<<>>) = 0 /\ \A i \in 1 .. 0 : FALSE
  BY EmptySeq
<1>2. \A o \in all : o \in fly \/ \E i \in 1 .. Len(q) : o = q[i]
  OBVIOUS
<1>3. \A o, p \in all : o.fd = p.fd => o = p
  BY <1>2 DEF OneEach
<1>4. \A o \in all : o.fd \in act /\ \A j \in 1 .. Len(c) : o.fd # HolderOf(c[j])
  BY <1>2 DEF OneEach
<1>5. \A f \in act : \/ \E o \in all : o.fd = f
                     \/ \E i \in 1 .. Len(c) : HolderOf(c[i]) = f
  <2> SUFFICES ASSUME NEW f \in act, ~ \E i \in 1 .. Len(c) : HolderOf(c[i]) = f
               PROVE  \E o \in all : o.fd = f
    OBVIOUS
  <2>1. CASE \E i \in 1 .. Len(q) : q[i].fd = f
    BY <2>1
  <2>2. CASE \E o \in fly : o.fd = f
    BY <2>2
  <2> QED BY <2>1, <2>2 DEF OneEach
<1>6. \A i, j \in 1 .. Len(c) : HolderOf(c[i]) = HolderOf(c[j]) => i = j
  BY DEF OneEach
<1>7. \A i \in 1 .. Len(c) : HolderOf(c[i]) \in act
  BY DEF OneEach
<1> QED BY <1>1, <1>3, <1>4, <1>5, <1>6, <1>7 DEF OneEach

LEMMA EachCompleted ==
    ASSUME NEW q, NEW fly, NEW S, NEW c \in Seq(S), NEW act, OneEach(q, fly, c, act),
           NEW o \in fly, NEW e \in S, HolderOf(e) = o.fd,
           NEW rest, rest = fly \ {o}, NEW d, d = Append(c, e)
    PROVE  OneEach(q, rest, d, act)
<1>1. PICK n \in Nat : n = Len(c)
  BY LenProperties
<1>2. Len(d) = n + 1 /\ d[n + 1] = e /\ \A i \in 1 .. n : d[i] = c[i]
  BY <1>1, AppendProperties
<1>3. /\ \A i \in 1 .. n + 1 : i \in 1 .. n \/ i = n + 1
      /\ n + 1 \in 1 .. n + 1 /\ \A i \in 1 .. n : i \in 1 .. n + 1
  BY <1>1
<1>4. \A i, j \in 1 .. n + 1 : HolderOf(d[i]) = HolderOf(d[j]) => i = j
  BY <1>1, <1>2, <1>3 DEF OneEach
<1>5. \A i \in 1 .. n + 1 : /\ HolderOf(d[i]) \in act
                            /\ \A j \in 1 .. Len(q) : q[j].fd # HolderOf(d[i])
  BY <1>1, <1>2, <1>3 DEF OneEach
<1>6. \A a \in rest : a.fd # o.fd /\ \A i \in 1 .. n : a.fd # HolderOf(c[i])
  BY <1>1 DEF OneEach
<1>7. \A a \in rest : \A i \in 1 .. n + 1 : a.fd # HolderOf(d[i])
  BY <1>2, <1>3, <1>6
<1>8. \A f \in act : \/ \E i \in 1 .. Len(q) : q[i].fd = f
                     \/ \E a \in rest : a.fd = f
                     \/ \E i \in 1 .. n + 1 : HolderOf(d[i]) = f
  <2> SUFFICES ASSUME NEW f \in act, f # o.fd,
                      ~ \E i \in 1 .. Len(q) : q[i].fd = f
               PROVE  (\E a \in rest : a.fd = f) \/ \E i \in 1 .. n + 1 : HolderOf(d[i]) = f
    BY <1>2, <1>3
  <2>1. (\E a \in fly : a.fd = f) \/ \E i \in 1 .. n : HolderOf(c[i]) = f
    BY <1>1 DEF OneEach
  <2>2. CASE \E a \in fly : a.fd = f
    BY <2>2
  <2>3. CASE \E i \in 1 .. n : HolderOf(c[i]) = f
    BY <2>3, <1>2, <1>3
  <2> QED BY <2>1, <2>2, <2>3
<1>9. /\ \A i, j \in 1 .. Len(q) : q[i].fd = q[j].fd => i = j
      /\ \A a, b \in rest : a.fd = b.fd => a = b
      /\ \A i \in 1 .. Len(q) : q[i].fd \in act
      /\ \A a \in rest : a.fd \in act
      /\ \A i \in 1 .. Len(q) : \A a \in rest : q[i].fd # a.fd
  BY DEF OneEach
<1> QED BY <1>2, <1>4, <1>5, <1>7, <1>8, <1>9 DEF OneEach

LEMMA EachHandled ==
    ASSUME NEW q, NEW fly, NEW S, NEW c \in Seq(S), c # <<>>, NEW act,
           OneEach(q, fly, c, act), NEW d, d = Tail(c), NEW h, h = HolderOf(Head(c))
    PROVE  /\ h \in act
           /\ OneEach(q, fly, d, act \ {h})
           /\ \A i \in 1 .. Len(d) : \E j \in 1 .. Len(c) : d[i] = c[j]
<1>1. PICK n \in Nat : n + 1 = Len(c) /\ Len(d) = n
  <2>1. PICK l, m : l \in Nat /\ l = Len(c) /\ m = Len(d) /\ m = l - 1
    BY LenProperties, HeadTailProperties
  <2>2. l # 0
    BY <2>1, EmptySeq
  <2>3. m \in Nat /\ m + 1 = l
    BY <2>1, <2>2
  <2> QED BY <2>1, <2>3
<1>2. Head(c) = c[1] /\ \A i \in 1 .. n : d[i] = c[i + 1]
  BY <1>1, HeadTailProperties
<1>3. /\ 1 \in 1 .. n + 1 /\ \A i \in 1 .. n : i + 1 \in 1 .. n + 1 /\ i + 1 # 1
      /\ \A i \in 1 .. n + 1 : i = 1 \/ (i - 1 \in 1 .. n /\ (i - 1) + 1 = i)
      /\ \A i, j \in 1 .. n : i + 1 = j + 1 => i = j
  BY <1>1
<1>4. h \in act /\ h = HolderOf(c[1])
  BY <1>1, <1>2, <1>3 DEF OneEach
<1>5. \A i \in 1 .. n : /\ HolderOf(d[i]) \in act /\ HolderOf(d[i]) # h
                        /\ \A j \in 1 .. Len(q) : q[j].fd # HolderOf(d[i])
                        /\ \A o \in fly : o.fd # HolderOf(d[i])
  BY <1>1, <1>2, <1>3, <1>4 DEF OneEach
<1>6. \A i, j \in 1 .. n : HolderOf(d[i]) = HolderOf(d[j]) => i = j
  BY <1>1, <1>2, <1>3 DEF OneEach
<1>7. /\ \A i \in 1 .. Len(q) : q[i].fd \in act \ {h}
      /\ \A o \in fly : o.fd \in act \ {h}
  BY <1>1, <1>3, <1>4 DEF OneEach
<1>8. \A f \in act \ {h} : \/ \E i \in 1 .. Len(q) : q[i].fd = f
                           \/ \E o \in fly : o.fd = f
                           \/ \E i \in 1 .. n : HolderOf(d[i]) = f
  <2> SUFFICES ASSUME NEW f \in act \ {h}, NEW j \in 1 .. n + 1, HolderOf(c[j]) = f
               PROVE  \E i \in 1 .. n : HolderOf(d[i]) = f
    BY <1>1 DEF OneEach
  <2>1. j # 1
    BY <1>4
  <2>2. PICK i \in 1 .. n : i + 1 = j
    BY <1>3, <2>1
  <2>3. d[i] = c[j]
    BY <1>2, <2>2
  <2> QED BY <2>3
<1>9. /\ \A i, j \in 1 .. Len(q) : q[i].fd = q[j].fd => i = j
      /\ \A a, b \in fly : a.fd = b.fd => a = b
      /\ \A i \in 1 .. Len(q) : \A a \in fly : q[i].fd # a.fd
  BY DEF OneEach
<1>10. OneEach(q, fly, d, act \ {h})
  BY <1>1, <1>5, <1>6, <1>7, <1>8, <1>9 DEF OneEach
<1> QED BY <1>1, <1>2, <1>3, <1>4, <1>10
-----------------------------------------------------------------------------
LEMMA Tags ==
    ASSUME TagsDiffer, NEW f \in Fds
    PROVE  /\ f \in Nat /\ f # ListenFd /\ f \in Table
           /\ TagAccept \in Nat /\ TagRecv(f) \in Nat /\ TagSend(f) \in Nat
           /\ TagRecv(f) # TagAccept /\ TagSend(f) # TagAccept
           /\ FdOfTag(TagRecv(f)) = f /\ FdOfTag(TagSend(f)) = f
           /\ IsRecv(TagRecv(f)) /\ ~IsSend(TagRecv(f))
           /\ IsSend(TagSend(f)) /\ ~IsRecv(TagSend(f))
<1>1. f \in Nat /\ ListenFd \in Nat /\ f # ListenFd /\ ListenFd # 2 * f /\ f \in Table
  BY SocketAssumption, RingEntriesAssumption, LoopAssumption DEF TagsDiffer
<1>2. TagAccept = ListenFd + ListenFd /\ TagRecv(f) = 4 * f /\ TagSend(f) = 4 * f + 1
  BY <1>1, SMT DEF TagAccept, TagRecv, TagSend
<1>3. 4 * f # ListenFd + ListenFd /\ 4 * f + 1 # ListenFd + ListenFd
  BY <1>1, SMT
<1>4. (4 * f) \div 4 = f /\ (4 * f + 1) \div 4 = f
  BY <1>1, SMT
<1>5. (4 * f) % 4 = 0 /\ (4 * f + 1) % 4 = 1
  BY <1>1, SMT
<1>6. 4 * f \in Nat /\ 4 * f + 1 \in Nat /\ ListenFd + ListenFd \in Nat
  BY <1>1, SMT
<1>7. /\ FdOfTag(TagRecv(f)) = f /\ FdOfTag(TagSend(f)) = f
      /\ IsRecv(TagRecv(f)) /\ ~IsSend(TagRecv(f))
      /\ IsSend(TagSend(f)) /\ ~IsRecv(TagSend(f))
  BY <1>2, <1>4, <1>5 DEF FdOfTag, IsRecv, IsSend
<1> QED BY <1>1, <1>2, <1>3, <1>6, <1>7

(* What is there to work on is a number of bytes in the ring.              *)
LEMMA RegionType ==
    ASSUME NEW kind \in {"recv", "send"}, NEW r \in CounterPair
    PROVE  Region(kind, r) \in 0 .. BufferSize
<1>1. r.head \in Counter /\ r.tail \in Counter
  BY DEF CounterPair
<1>2. SlotOf(r.head) \in Slot /\ SlotOf(r.tail) \in Slot
  <2>1. 0 \in 0 .. BufferSize
    BY CounterFacts
  <2> QED BY <1>1, <2>1, ChunkBounds
<1>3. PICK h \in Slot, t \in Slot : h = SlotOf(r.head) /\ t = SlotOf(r.tail)
  BY <1>2
<1>4. FreeRegion(r.head, r.tail) \in 0 .. BufferSize
  BY <1>3, CounterFacts, SMT DEF FreeRegion, Slot
<1>5. UsedRegion(r.head, r.tail) \in 0 .. BufferSize
  BY <1>3, CounterFacts, SMT DEF UsedRegion, Slot
<1> QED BY <1>4, <1>5 DEF Region

(* TypeOK, in the form the proofs use it.                                  *)
ConnectionType(n) == [state : States \ {"die"}, buffer : (1 .. n) \cup {NoBuffer},
                      op : {"none", "recv", "send"}]
Completion == [ud : Nat, res : Int]

LEMMA Types ==
    ASSUME TypeOK
    PROVE  /\ sock \in [Clients -> Socket] /\ backlog \in Seq(Clients)
           /\ fdOwner \in [Fds -> Clients \cup {NoClient}]
           /\ sq \in Seq(Op) /\ Len(sq) \in Nat /\ Len(sq) <= RingEntries
           /\ RingEntries \in Nat
           /\ flying \subseteq Op
           /\ cq \in Seq(Completion) /\ Len(cq) \in Nat
           /\ PoolTypeOK /\ m_running \in BOOLEAN
           /\ m_connections \in [Table -> ConnectionType(Len(ring))]
           /\ ring \in Seq(CounterPair) /\ Len(ring) \in Nat /\ Buffers = 1 .. Len(ring)
           /\ m_pl \in Seq(1 .. Len(ring)) /\ Len(m_pl) \in Nat
           /\ pc \in {"wait", "batch", "stopped", "crashed"}
<1>1. /\ ring \in Seq(CounterPair) /\ m_pl \in Seq(1 .. Len(ring))
      /\ sq \in Seq(Op) /\ cq \in Seq(Completion)
  BY DEF TypeOK, PoolTypeOK, CounterPair, RingTypeOK, Completion, Buffers
<1>2. Len(ring) \in Nat /\ Len(m_pl) \in Nat /\ Len(sq) \in Nat /\ Len(cq) \in Nat
  BY <1>1, LenProperties
<1> QED BY <1>1, <1>2, RingEntriesAssumption
        DEF TypeOK, RingTypeOK, SocketsTypeOK, Buffers, ConnectionType

(* TypeOK from its parts.                                                  *)
LEMMA TypesFrom ==
    ASSUME sock' \in [Clients -> Socket], backlog' \in Seq(Clients),
           fdOwner' \in [Fds -> Clients \cup {NoClient}],
           sq' \in Seq(Op), Len(sq') <= RingEntries, flying' \subseteq Op,
           cq' \in Seq(Completion), m_running' \in BOOLEAN,
           ring' \in Seq(CounterPair), m_pl' \in Seq(1 .. Len(ring')),
           m_connections' \in [Table -> ConnectionType(Len(ring'))],
           pc' \in {"wait", "batch", "stopped", "crashed"}
    PROVE  TypeOK'
    BY DEF TypeOK, RingTypeOK, SocketsTypeOK, PoolTypeOK, Buffers, ConnectionType,
           CounterPair, Completion

(* A connection in the table.                                              *)
LEMMA Entry ==
    ASSUME IInv, NEW f \in Table, BufferOf(f) # NoBuffer
    PROVE  /\ f \in Fds /\ fdOwner[f] \in Clients /\ NoClient \notin Clients
           /\ BufferOf(f) \in 1 .. Len(ring) /\ ring[BufferOf(f)] \in CounterPair
           /\ \A g \in Table : g # f => BufferOf(g) # BufferOf(f)
<1>1. /\ m_connections \in [Table -> ConnectionType(Len(ring))]
      /\ ring \in Seq(CounterPair) /\ fdOwner \in [Fds -> Clients \cup {NoClient}]
  BY Types DEF IInv
<1>2. f \in Fds /\ fdOwner[f] \in Clients /\ NoClient \notin Clients
  BY <1>1, SocketAssumption DEF IInv, PoolInv
<1>3. BufferOf(f) \in 1 .. Len(ring)
  BY <1>1 DEF BufferOf, ConnectionType
<1>4. ring[BufferOf(f)] \in CounterPair
  BY <1>1, <1>3, ElementOfSeq
<1>5. \A g \in Table : g # f => BufferOf(g) # BufferOf(f)
  <2>1. \A g \in Table : BufferTable[g] = BufferOf(g)
    BY DEF BufferTable
  <2> QED BY <2>1 DEF IInv, PoolInv, Conserved, NoBuffer
<1> QED BY <1>2, <1>3, <1>4, <1>5
-----------------------------------------------------------------------------
(* Facts about the table and the pool survive a step that changes neither. *)
LEMMA PoolUnchanged ==
    ASSUME PoolInv, UNCHANGED table,
           \A f \in Fds : fdOwner[f] # NoClient => fdOwner'[f] # NoClient
    PROVE  PoolInv'
    BY DEF PoolInv, BufferTable, BufferOf, table

LEMMA QueuesUnchanged ==
    ASSUME QueuesInv, UNCHANGED <<rings, table>>,
           \A f \in Fds : fdOwner[f] # NoClient => fdOwner'[f] # NoClient
    PROVE  QueuesInv'
<1>1. /\ sq' = sq /\ flying' = flying /\ cq' = cq
      /\ m_connections' = m_connections /\ ring' = ring /\ Active' = Active
  BY DEF rings, table, Active
<1>2. \A i \in 1 .. Len(cq) : CompletionCurrent(cq[i], m_connections, ring, fdOwner')
  BY DEF QueuesInv, CompletionCurrent
<1>3. OneEach(sq', flying', cq', Active')
  BY <1>1 DEF QueuesInv
<1> QED BY <1>1, <1>2, <1>3 DEF QueuesInv, BufferOf

(* Steps that touch neither the table nor the queues.                      *)
LEMMA QuietSteps ==
    ASSUME IInv, Stop \/ WaitCqe \/ AcceptCrashes \/ Halted \/ PeerActs \/ UNCHANGED vars
    PROVE  IInv'
<1>1. UNCHANGED <<rings, table, fdOwner>> /\ (pc' # "stopped" => pc # "stopped")
  <2>1. CASE Stop
    BY <2>1 DEF Stop, sockets
  <2>2. CASE WaitCqe
    BY <2>2 DEF WaitCqe, sockets
  <2>3. CASE AcceptCrashes
    BY <2>3 DEF AcceptCrashes, sockets
  <2>4. CASE Halted \/ UNCHANGED vars
    BY <2>4 DEF Halted, vars, sockets
  <2>5. CASE PeerActs
    BY <2>5 DEF PeerActs, KernelStep, PeerStep
  <2> QED BY <2>1, <2>2, <2>3, <2>4, <2>5
<1>2. sock' \in [Clients -> Socket] /\ backlog' \in Seq(Clients)
  <2>1. CASE UNCHANGED <<sock, backlog>>
    BY <2>1, Types DEF IInv
  <2>2. CASE PeerActs
    <3>1. PICK c \in Clients : PeerStep(c)
      BY <2>2 DEF PeerActs, KernelStep
    <3>2. \/ Connects(c)
          \/ (Sends(c) \/ Reads(c) \/ Closes(c) \/ Resets(c)) /\ UNCHANGED backlog
      BY <3>1 DEF PeerStep
    <3> QED BY <3>2, Types, ClientTypes DEF IInv
  <2> QED BY <2>1, <2>2 DEF Stop, WaitCqe, AcceptCrashes, Halted, vars, sockets
<1>3. m_running' \in BOOLEAN /\ pc' \in {"wait", "batch", "stopped", "crashed"}
  <2>1. m_running \in BOOLEAN /\ pc \in {"wait", "batch", "stopped", "crashed"}
    BY Types DEF IInv
  <2>2. CASE Stop \/ WaitCqe \/ AcceptCrashes
    BY <2>1, <2>2 DEF Stop, WaitCqe, AcceptCrashes
  <2>3. CASE Halted \/ PeerActs \/ UNCHANGED vars
    BY <2>1, <2>3 DEF Halted, PeerActs, KernelStep, vars
  <2> QED BY <2>2, <2>3
<1>4. TypeOK'
  BY <1>1, <1>2, <1>3, Types, TypesFrom DEF IInv, rings, table
<1>5. PoolInv'
  BY <1>1, PoolUnchanged DEF IInv
<1>6. pc' # "stopped" => QueuesInv'
  BY <1>1, QueuesUnchanged DEF IInv
<1> QED BY <1>4, <1>5, <1>6 DEF IInv

(* What has been prepared is submitted.                                    *)
LEMMA SubmitStep ==
    ASSUME IInv, EndOfBatch
    PROVE  IInv'
<1>1. /\ pc = "batch" /\ pc' = "wait" /\ sq' = <<>>
      /\ flying' = flying \cup {sq[i] : i \in DOMAIN sq}
      /\ UNCHANGED <<sock, backlog, fdOwner, cq, m_connections, m_pl, ring, m_running>>
  BY DEF EndOfBatch, Submit, sockets, table
<1>2. /\ DOMAIN sq = 1 .. Len(sq) /\ \A i \in 1 .. Len(sq) : sq[i] \in Op
      /\ sq' \in Seq(Op) /\ Len(sq') = 0 /\ 0 <= RingEntries
  BY <1>1, Types, LenProperties, ElementOfSeq, EmptySeq DEF IInv
<1>3. flying' \subseteq Op
  BY <1>1, <1>2, Types DEF IInv
<1>4. TypeOK'
  BY <1>1, <1>2, <1>3, Types, TypesFrom DEF IInv
<1>5. PoolInv'
  BY <1>1, PoolUnchanged DEF IInv, table
<1>6. OneEach(sq', flying', cq', Active')
  <2>1. OneEach(sq, flying, cq, Active) /\ Active' = Active
    BY <1>1 DEF IInv, QueuesInv, Active
  <2> QED BY <1>1, <1>2, <2>1, EachSubmitted
<1>7. /\ \A i \in 1 .. Len(sq') : FALSE
      /\ \A o \in flying' : OpCurrent(o, m_connections, ring)
  BY <1>1, <1>2 DEF IInv, QueuesInv
<1>8. QueuesInv'
  BY <1>1, <1>6, <1>7 DEF IInv, QueuesInv, BufferOf
<1> QED BY <1>4, <1>5, <1>8 DEF IInv
-----------------------------------------------------------------------------
(* The tag of an operation names its descriptor.                           *)
LEMMA TagNames ==
    ASSUME TagsDiffer, NEW o, OpCurrent(o, m_connections, ring)
    PROVE  /\ o = Accept => /\ TagOf(o) = TagAccept /\ o.fd = ListenFd
                            /\ o.kind = "accept"
           /\ o # Accept => /\ o.fd \in Fds /\ o.kind \in {"recv", "send"}
                            /\ TagOf(o) # TagAccept /\ FdOfTag(TagOf(o)) = o.fd
                            /\ o.kind = "recv" => TagOf(o) = TagRecv(o.fd)
                            /\ o.kind = "send" => TagOf(o) = TagSend(o.fd)
<1>1. CASE o = Accept
  <2>1. o.kind = "accept" /\ o.fd = ListenFd
    BY <1>1 DEF Accept
  <2> QED BY <1>1, <2>1 DEF TagOf
<1>2. CASE o # Accept
  <2>1. o.fd \in Fds /\ o.kind \in {"recv", "send"}
    BY <1>2 DEF OpCurrent
  <2>2. CASE o.kind = "recv"
    BY <1>2, <2>1, <2>2, Tags DEF TagOf
  <2>3. CASE o.kind = "send"
    BY <1>2, <2>1, <2>3, Tags DEF TagOf
  <2> QED BY <1>2, <2>1, <2>2, <2>3
<1> QED BY <1>1, <1>2

(* An operation completes, and its completion is current.                  *)
LEMMA CompleteKeeps ==
    ASSUME TagsDiffer, IInv, QueuesInv, NEW o, NEW n \in Int, Complete(o, n),
           \A f \in Fds : fdOwner[f] # NoClient => fdOwner'[f] # NoClient,
           UNCHANGED <<table, m_running, pc>>,
           CompletionCurrent([ud |-> TagOf(o), res |-> n], m_connections, ring, fdOwner'),
           sock' \in [Clients -> Socket], backlog' \in Seq(Clients),
           fdOwner' \in [Fds -> Clients \cup {NoClient}]
    PROVE  IInv'
<1> DEFINE e == [ud |-> TagOf(o), res |-> n]
<1>1. /\ o \in flying /\ flying' = flying \ {o} /\ cq' = Append(cq, e) /\ sq' = sq
      /\ UNCHANGED <<m_connections, m_pl, ring>>
  BY DEF Complete, table
<1>2. OpCurrent(o, m_connections, ring)
  BY <1>1 DEF QueuesInv
<1>3. HolderOf(e) = o.fd
  BY <1>2, TagNames DEF HolderOf
<1>4. e \in Completion
  <2>1. TagOf(o) \in Nat
    <3>1. CASE o = Accept
      <4>1. TagAccept \in Nat
        BY RingEntriesAssumption, SMT DEF TagAccept
      <4> QED BY <1>2, <3>1, <4>1, TagNames
    <3>2. CASE o # Accept
      BY <1>2, <3>2, TagNames, Tags
    <3> QED BY <3>1, <3>2
  <2> QED BY <2>1 DEF Completion
<1>5. CompletionCurrent(e, m_connections, ring, fdOwner')
  OBVIOUS
<1> HIDE DEF e
<1>6. /\ cq' \in Seq(Completion) /\ Len(cq') = Len(cq) + 1 /\ cq'[Len(cq) + 1] = e
      /\ Len(cq) \in Nat /\ \A i \in 1 .. Len(cq) : cq'[i] = cq[i]
  BY <1>1, <1>4, Types, AppendProperties DEF IInv
<1>7. TypeOK'
  BY <1>1, <1>6, Types, TypesFrom DEF IInv
<1>8. PoolInv'
  BY PoolUnchanged DEF IInv
<1>9. OneEach(sq', flying', cq', Active')
  <2>1. OneEach(sq, flying, cq, Active) /\ Active' = Active
    BY <1>1 DEF QueuesInv, Active
  <2>2. cq \in Seq(Completion)
    BY Types DEF IInv
  <2> QED BY <1>1, <1>3, <1>4, <2>1, <2>2, EachCompleted
<1>10. \A i \in 1 .. Len(cq') : CompletionCurrent(cq'[i], m_connections, ring, fdOwner')
  <2>1. \A i \in 1 .. Len(cq) : CompletionCurrent(cq[i], m_connections, ring, fdOwner')
    BY DEF QueuesInv, CompletionCurrent
  <2>2. \A i \in 1 .. Len(cq') : i \in 1 .. Len(cq) \/ i = Len(cq) + 1
    BY <1>6
  <2> QED BY <1>5, <1>6, <2>1, <2>2
<1>11. QueuesInv'
  BY <1>1, <1>9, <1>10 DEF QueuesInv, BufferOf
<1> QED BY <1>7, <1>8, <1>11 DEF IInv

LEMMA KernelAccepts ==
    ASSUME TagsDiffer, IInv, KernelStep(KernelAccept)
    PROVE  IInv'
<1>1. QueuesInv /\ UNCHANGED <<table, m_running, pc>>
  BY DEF IInv, KernelStep, Running
<1>2. Accept \in flying => TagOf(Accept) = TagAccept
  BY <1>1, TagNames DEF QueuesInv
<1>3. CASE CompleteAccept
  <2>1. PICK f \in Fds : /\ f \in FreeFds /\ Complete(Accept, f)
                         /\ fdOwner' = [fdOwner EXCEPT ![f] = Head(backlog)]
    BY <1>3 DEF CompleteAccept, Lowest
  <2>2. /\ backlog # <<>> /\ backlog' = Tail(backlog)
        /\ sock' = [sock EXCEPT ![Head(backlog)].phase = "open"]
    BY <1>3 DEF CompleteAccept
  <2>3. Head(backlog) \in Clients /\ backlog' \in Seq(Clients)
    BY <2>2, Types, HeadTailProperties DEF IInv
  <2>4. sock' \in [Clients -> Socket]
    BY <2>2, <2>3, Types, PhaseType DEF IInv
  <2>5. /\ fdOwner' \in [Fds -> Clients \cup {NoClient}]
        /\ fdOwner'[f] # NoClient /\ fdOwner[f] = NoClient
        /\ \A g \in Fds : fdOwner[g] # NoClient => fdOwner'[g] # NoClient
    BY <2>1, <2>3, Types, SocketAssumption DEF IInv, FreeFds
  <2>6. m_connections[f].buffer = NoBuffer
    <3>1. f \in Table
      BY LoopAssumption
    <3> QED BY <2>5, <3>1 DEF IInv, PoolInv, BufferOf
  <2>7. f \in Int
    BY SocketAssumption
  <2>8. CompletionCurrent([ud |-> TagOf(Accept), res |-> f], m_connections, ring, fdOwner')
    <3>1. TagOf(Accept) = TagAccept
      BY <1>2, <2>1 DEF Complete
    <3> QED BY <2>5, <2>6, <3>1 DEF CompletionCurrent
  <2> QED BY <1>1, <2>1, <2>3, <2>4, <2>5, <2>7, <2>8, CompleteKeeps
<1>4. CASE CompleteAcceptFails
  <2>1. Complete(Accept, -1) /\ UNCHANGED <<sock, backlog, fdOwner>>
    BY <1>4 DEF CompleteAcceptFails
  <2>2. CompletionCurrent([ud |-> TagOf(Accept), res |-> -1], m_connections, ring, fdOwner')
    <3>1. TagOf(Accept) = TagAccept
      BY <1>2, <2>1 DEF Complete
    <3> QED BY <3>1 DEF CompletionCurrent
  <2>3. -1 \in Int
    OBVIOUS
  <2>4. /\ sock' \in [Clients -> Socket] /\ backlog' \in Seq(Clients)
        /\ fdOwner' \in [Fds -> Clients \cup {NoClient}]
        /\ \A g \in Fds : fdOwner[g] # NoClient => fdOwner'[g] # NoClient
    BY <2>1, Types DEF IInv
  <2> QED BY <1>1, <2>1, <2>2, <2>3, <2>4, CompleteKeeps
<1> QED BY <1>3, <1>4 DEF KernelStep, KernelAccept

(* No more bytes than the operation was given.                             *)
LEMMA KernelMoves ==
    ASSUME TagsDiffer, IInv, NEW f \in Fds, KernelStep(KernelMove(f))
    PROVE  IInv'
<1>1. QueuesInv /\ UNCHANGED <<table, m_running, pc>>
  BY DEF IInv, KernelStep, Running
<1>2. PICK o \in flying : o.fd = f /\ (CompleteRecv(o) \/ CompleteSend(o))
  BY DEF KernelStep, KernelMove
<1>3. o.kind \in {"recv", "send"} /\ o # Accept /\ UNCHANGED <<backlog, fdOwner>>
  BY <1>2 DEF CompleteRecv, CompleteSend, Accept
<1>4. /\ m_connections[f].op = o.kind /\ m_connections[f].buffer # NoBuffer
      /\ o.size = Region(o.kind, ring[m_connections[f].buffer])
      /\ OpCurrent(o, m_connections, ring)
  BY <1>1, <1>2, <1>3 DEF QueuesInv, OpCurrent
<1>5. f \in Table /\ f \in Fds
  BY LoopAssumption
<1>6. fdOwner[f] \in Clients /\ ring[m_connections[f].buffer] \in CounterPair
  BY <1>4, <1>5, Entry DEF BufferOf
<1>7. o.size \in Nat
  BY <1>3, <1>4, <1>6, RegionType
<1>8. sock \in [Clients -> Socket] /\ sock[fdOwner[f]] \in Socket
  BY <1>6, Types DEF IInv
<1>9. \E n \in Int : /\ Complete(o, n) /\ n <= o.size
                     /\ sock' \in [Clients -> Socket]
  <2>1. CASE CompleteRecv(o) /\ sock[fdOwner[f]].rx > 0
    <3>1. PICK n \in Nat : /\ n = (IF o.size < sock[fdOwner[f]].rx THEN o.size
                                   ELSE sock[fdOwner[f]].rx)
                           /\ n <= o.size /\ n <= sock[fdOwner[f]].rx
      BY <1>7, <1>8, SocketCounts
    <3>2. /\ Complete(o, n)
          /\ sock' = [sock EXCEPT ![fdOwner[f]].rx = @ - n, ![fdOwner[f]].in = @ + n]
      BY <1>2, <2>1, <3>1 DEF CompleteRecv
    <3>3. sock' \in [Clients -> Socket]
      BY <1>6, <1>8, <3>1, <3>2, ReceivedType
    <3> QED BY <3>1, <3>2, <3>3
  <2>2. CASE CompleteRecv(o) /\ ~(sock[fdOwner[f]].rx > 0)
    <3>1. (Complete(o, 0) \/ Complete(o, -1)) /\ UNCHANGED sock
      BY <1>2, <2>2 DEF CompleteRecv
    <3>2. 0 <= o.size /\ -1 <= o.size /\ 0 \in Int /\ -1 \in Int
      BY <1>7
    <3> QED BY <1>8, <3>1, <3>2
  <2>3. CASE CompleteSend(o) /\ ~SendBroken(fdOwner[f])
    <3>1. sock[fdOwner[f]].tx \in 0 .. SendRoom /\ SendRoom \in Nat
      BY <1>8, SocketCounts
    <3>2. PICK n \in Nat : /\ n = (IF o.size < SendRoom - sock[fdOwner[f]].tx THEN o.size
                                   ELSE SendRoom - sock[fdOwner[f]].tx)
                           /\ n <= o.size /\ n <= SendRoom - sock[fdOwner[f]].tx
      BY <1>7, <3>1
    <3>3. /\ Complete(o, n)
          /\ sock' = [sock EXCEPT ![fdOwner[f]].tx = @ + n, ![fdOwner[f]].out = @ + n]
      BY <1>2, <2>3, <3>2 DEF CompleteSend
    <3>4. sock' \in [Clients -> Socket]
      BY <1>6, <1>8, <3>2, <3>3, SentType
    <3> QED BY <3>2, <3>3, <3>4
  <2>4. CASE CompleteSend(o) /\ SendBroken(fdOwner[f])
    <3>1. Complete(o, -1) /\ UNCHANGED sock
      BY <1>2, <2>4 DEF CompleteSend
    <3>2. -1 <= o.size /\ -1 \in Int
      BY <1>7
    <3> QED BY <1>8, <3>1, <3>2
  <2> QED BY <1>2, <2>1, <2>2, <2>3, <2>4
<1>10. PICK n \in Int : Complete(o, n) /\ n <= o.size /\ sock' \in [Clients -> Socket]
  BY <1>9
<1>11. CompletionCurrent([ud |-> TagOf(o), res |-> n], m_connections, ring, fdOwner')
  <2>1. \/ o.kind = "recv" /\ TagOf(o) = TagRecv(f)
        \/ o.kind = "send" /\ TagOf(o) = TagSend(f)
    BY <1>2, <1>3, <1>4, TagNames
  <2>2. IsAnswer([ud |-> TagOf(o), res |-> n], f, m_connections, ring)
    BY <1>4, <1>10, <2>1 DEF IsAnswer
  <2> QED BY <2>2 DEF CompletionCurrent
<1>12. /\ backlog' \in Seq(Clients) /\ fdOwner' \in [Fds -> Clients \cup {NoClient}]
       /\ \A g \in Fds : fdOwner[g] # NoClient => fdOwner'[g] # NoClient
  BY <1>3, Types DEF IInv
<1> QED BY <1>1, <1>10, <1>11, <1>12, CompleteKeeps
-----------------------------------------------------------------------------
(* The completion that is handled is current, and so are the others.       *)
LEMMA HeadHandled ==
    ASSUME IInv, NEW e, e = Head(cq), Handling(e)
    PROVE  /\ QueuesInv /\ pc = "batch" /\ e \in Completion /\ Head(cq) = e
           /\ cq' \in Seq(Completion)
           /\ flying' = flying /\ backlog' = backlog /\ m_running' = m_running
           /\ HolderOf(e) \in Active
           /\ OneEach(sq, flying, cq', Active \ {HolderOf(e)})
           /\ CompletionCurrent(e, m_connections, ring, fdOwner)
           /\ \A i \in 1 .. Len(cq') : CompletionCurrent(cq'[i], m_connections, ring, fdOwner)
<1>1. /\ pc = "batch" /\ cq # <<>> /\ cq' = Tail(cq)
      /\ flying' = flying /\ backlog' = backlog /\ m_running' = m_running
  BY DEF Handling
<1>2. QueuesInv /\ cq \in Seq(Completion)
  BY <1>1, Types DEF IInv
<1>3. e \in Completion /\ cq' \in Seq(Completion)
  BY <1>1, <1>2, HeadTailProperties
<1>4. OneEach(sq, flying, cq, Active)
  BY <1>2 DEF QueuesInv
<1>5. /\ HolderOf(e) \in Active
      /\ OneEach(sq, flying, cq', Active \ {HolderOf(e)})
      /\ \A i \in 1 .. Len(cq') : \E j \in 1 .. Len(cq) : cq'[i] = cq[j]
  <2>1. PICK h, d : h = HolderOf(Head(cq)) /\ d = Tail(cq)
    OBVIOUS
  <2>2. cq \in Seq(Completion) /\ cq # <<>>
    BY <1>1, <1>2
  <2>3. h \in Active
    BY <1>4, <2>1, <2>2, EachHandled
  <2>4. OneEach(sq, flying, d, Active \ {h})
    BY <1>4, <2>1, <2>2, EachHandled
  <2>5. \A i \in 1 .. Len(d) : \E j \in 1 .. Len(cq) : d[i] = cq[j]
    BY <1>4, <2>1, <2>2, EachHandled
  <2> QED BY <1>1, <2>1, <2>3, <2>4, <2>5
<1>6. \A i \in 1 .. Len(cq') : CompletionCurrent(cq'[i], m_connections, ring, fdOwner)
  BY <1>2, <1>5 DEF QueuesInv
<1>7. CompletionCurrent(e, m_connections, ring, fdOwner)
  <2>1. Len(cq) \in Nat /\ Len(cq) # 0
    BY <1>1, <1>2, LenProperties, EmptySeq
  <2>2. 1 \in 1 .. Len(cq)
    BY <2>1
  <2> QED BY <1>2, <2>2 DEF QueuesInv
<1> QED BY <1>1, <1>2, <1>3, <1>5, <1>6, <1>7

(* A completion of a connection is the one the connection waits for.       *)
LEMMA HeadOfConnection ==
    ASSUME TagsDiffer, IInv, NEW e, e = Head(cq), Handling(e), e.ud # TagAccept,
           NEW f, f = FdOfTag(e.ud)
    PROVE  /\ f \in Fds /\ f \in Table /\ HolderOf(e) = f
           /\ IsAnswer(e, f, m_connections, ring)
           /\ IsRecv(e.ud) => m_connections[f].op = "recv"
           /\ IsSend(e.ud) => m_connections[f].op = "send"
           /\ BufferOf(f) # NoBuffer
<1>1. CompletionCurrent(e, m_connections, ring, fdOwner)
  BY HeadHandled
<1>2. PICK g \in Fds : IsAnswer(e, g, m_connections, ring)
  BY <1>1 DEF CompletionCurrent
<1>3. \/ m_connections[g].op = "recv" /\ e.ud = TagRecv(g)
      \/ m_connections[g].op = "send" /\ e.ud = TagSend(g)
  BY <1>2 DEF IsAnswer
<1>4. g = f /\ f \in Table
  BY <1>3, Tags
<1>5. /\ IsRecv(e.ud) => m_connections[f].op = "recv"
      /\ IsSend(e.ud) => m_connections[f].op = "send"
  BY <1>3, <1>4, Tags
<1> QED BY <1>2, <1>4, <1>5 DEF HolderOf, IsAnswer, BufferOf

(* What is left when one descriptor is handled stays current, as long as   *)
(* only its entry changes.                                                 *)
LEMMA OthersCurrent ==
    ASSUME TagsDiffer, QueuesInv, NEW f \in Fds, NEW act, f \notin act, NEW c,
           OneEach(sq, flying, c, act),
           \A i \in 1 .. Len(c) : CompletionCurrent(c[i], m_connections, ring, fdOwner),
           \A i \in 1 .. Len(c) : c[i].ud = TagAccept => c[i].res # f,
           \A g \in Fds : g # f =>
                /\ m_connections'[g] = m_connections[g]
                /\ fdOwner[g] # NoClient => fdOwner'[g] # NoClient
                /\ m_connections[g].buffer # NoBuffer =>
                    ring'[m_connections[g].buffer] = ring[m_connections[g].buffer]
    PROVE  /\ \A i \in 1 .. Len(sq) : OpCurrent(sq[i], m_connections', ring')
           /\ \A o \in flying : OpCurrent(o, m_connections', ring')
           /\ \A i \in 1 .. Len(c) : CompletionCurrent(c[i], m_connections', ring', fdOwner')
<1>1. \A i \in 1 .. Len(sq) : sq[i].fd # f
  BY DEF OneEach
<1>2. \A o \in flying : o.fd # f
  BY DEF OneEach
<1>3. \A i \in 1 .. Len(sq) : OpCurrent(sq[i], m_connections', ring')
  BY <1>1 DEF QueuesInv, OpCurrent
<1>4. \A o \in flying : OpCurrent(o, m_connections', ring')
  BY <1>2 DEF QueuesInv, OpCurrent
<1>5. \A i \in 1 .. Len(c) : CompletionCurrent(c[i], m_connections', ring', fdOwner')
  <2> SUFFICES ASSUME NEW i \in 1 .. Len(c)
               PROVE  CompletionCurrent(c[i], m_connections', ring', fdOwner')
    OBVIOUS
  <2>1. CASE c[i].ud = TagAccept /\ c[i].res = -1
    BY <2>1 DEF CompletionCurrent
  <2>2. CASE /\ c[i].ud = TagAccept /\ c[i].res \in Fds
             /\ fdOwner[c[i].res] # NoClient /\ m_connections[c[i].res].buffer = NoBuffer
    BY <2>2 DEF CompletionCurrent
  <2>3. ASSUME NEW g \in Fds, IsAnswer(c[i], g, m_connections, ring)
        PROVE  CompletionCurrent(c[i], m_connections', ring', fdOwner')
    <3>1. c[i].ud = TagRecv(g) \/ c[i].ud = TagSend(g)
      BY <2>3 DEF IsAnswer
    <3>2. HolderOf(c[i]) = g
      BY <3>1, Tags DEF HolderOf
    <3>3. g # f
      BY <3>2 DEF OneEach
    <3>4. IsAnswer(c[i], g, m_connections', ring')
      BY <2>3, <3>3 DEF IsAnswer
    <3> QED BY <3>4 DEF CompletionCurrent
  <2> QED BY <2>1, <2>2, <2>3 DEF CompletionCurrent
<1> QED BY <1>3, <1>4, <1>5

(* submit_recv and submit_send prepare one operation, or none.             *)
LEMMA Prepares ==
    ASSUME NEW f \in Fds, NEW kind \in {"none", "recv", "send"},
           NEW b \in Nat, NEW r \in CounterPair
    PROVE  \/ SqAfter(kind, f, b, r) = sq /\ OpAfter(kind, r) = "none"
           \/ \E o \in Op :
                /\ SqAfter(kind, f, b, r) = Append(sq, o) /\ Len(sq) < RingEntries
                /\ OpAfter(kind, r) = kind /\ kind \in {"recv", "send"}
                /\ o.kind = kind /\ o.fd = f /\ o.buffer = b /\ o.size = Region(kind, r)
<1>1. CASE ~CanSubmit(kind, r)
  BY <1>1 DEF SqAfter, OpAfter
<1>2. CASE CanSubmit(kind, r)
  <2>1. /\ kind \in {"recv", "send"} /\ Len(sq) < RingEntries /\ OpAfter(kind, r) = kind
        /\ SqAfter(kind, f, b, r)
            = Append(sq, [kind |-> kind, fd |-> f, buffer |-> b, size |-> Region(kind, r)])
    BY <1>2 DEF CanSubmit, SqAfter, OpAfter
  <2>2. Region(kind, r) \in Nat
    BY <2>1, RegionType
  <2>3. PICK o : o = [kind |-> kind, fd |-> f, buffer |-> b, size |-> Region(kind, r)]
    OBVIOUS
  <2>4. /\ o \in Op /\ o.kind = kind /\ o.fd = f /\ o.buffer = b
        /\ o.size = Region(kind, r)
    BY <2>1, <2>2, <2>3 DEF Op
  <2> QED BY <2>1, <2>3, <2>4
<1> QED BY <1>1, <1>2

(* The submission queue with another operation of the table.               *)
LEMMA QueueGrows ==
    ASSUME TypeOK, NEW o \in Op, NEW q, q = Append(sq, o), Len(sq) < RingEntries,
           OpCurrent(o, m_connections', ring'),
           \A i \in 1 .. Len(sq) : OpCurrent(sq[i], m_connections', ring')
    PROVE  /\ q \in Seq(Op) /\ Len(q) <= RingEntries
           /\ \A i \in 1 .. Len(q) : OpCurrent(q[i], m_connections', ring')
<1>1. sq \in Seq(Op) /\ Len(sq) \in Nat /\ RingEntries \in Nat
  BY Types
<1>2. /\ q \in Seq(Op) /\ Len(q) = Len(sq) + 1 /\ q[Len(sq) + 1] = o
      /\ \A i \in 1 .. Len(sq) : q[i] = sq[i]
  BY <1>1, AppendProperties
<1>3. /\ \A i \in 1 .. Len(q) : i \in 1 .. Len(sq) \/ i = Len(sq) + 1
      /\ Len(q) <= RingEntries
  BY <1>1, <1>2
<1> QED BY <1>2, <1>3
-----------------------------------------------------------------------------
(* A connection in the table is not one that waits to be accepted.         *)
LEMMA NotAccepted ==
    ASSUME TagsDiffer, NEW f \in Fds, BufferOf(f) # NoBuffer, NEW c,
           \A i \in 1 .. Len(c) : CompletionCurrent(c[i], m_connections, ring, fdOwner)
    PROVE  \A i \in 1 .. Len(c) : c[i].ud = TagAccept => c[i].res # f
<1> SUFFICES ASSUME NEW i \in 1 .. Len(c), c[i].ud = TagAccept, c[i].res = f
             PROVE  FALSE
  OBVIOUS
<1>1. c[i].res = -1 \/ m_connections[c[i].res].buffer = NoBuffer
  BY Tags DEF CompletionCurrent, IsAnswer
<1>2. f # -1
  BY SocketAssumption
<1> QED BY <1>1, <1>2 DEF BufferOf

(* A connection ends: its operation is handled, its buffer redeemed.       *)
LEMMA RemoveStep ==
    ASSUME TagsDiffer, IInv, NEW e, e = Head(cq), Handling(e), e.ud # TagAccept,
           NEW f, f = FdOfTag(e.ud), RemoveConnection(f), UNCHANGED <<sq, pc>>
    PROVE  IInv'
<1>1. /\ QueuesInv /\ pc = "batch" /\ cq' \in Seq(Completion)
      /\ flying' = flying /\ backlog' = backlog /\ m_running' = m_running
      /\ OneEach(sq, flying, cq', Active \ {HolderOf(e)})
      /\ \A i \in 1 .. Len(cq') : CompletionCurrent(cq'[i], m_connections, ring, fdOwner)
  BY HeadHandled
<1>2. f \in Fds /\ f \in Table /\ HolderOf(e) = f /\ BufferOf(f) # NoBuffer
  BY HeadOfConnection
<1>3. PICK b \in 1 .. Len(ring) : b = BufferOf(f)
  BY <1>2, Entry
<1>4. fdOwner[f] \in Clients /\ fdOwner[f] # NoClient
  BY <1>2, Entry
<1>5. /\ m_pl' = Append(m_pl, b) /\ ring' = [ring EXCEPT ![b] = EmptyRing]
      /\ m_connections' = [m_connections EXCEPT ![f].buffer = NoBuffer, ![f].op = "none"]
      /\ Close(f)
  BY <1>2, <1>3 DEF RemoveConnection, Redeem, AfterReset
<1>6. /\ sock' = [sock EXCEPT ![fdOwner[f]].phase = "closed"]
      /\ fdOwner' = [fdOwner EXCEPT ![f] = NoClient]
  BY <1>2, <1>4, <1>5 DEF Close, FreeFds
<1>7. sock' \in [Clients -> Socket] /\ fdOwner' \in [Fds -> Clients \cup {NoClient}]
  BY <1>4, <1>6, Types, PhaseType DEF IInv
<1>8. /\ ring' \in Seq(CounterPair) /\ Len(ring') = Len(ring)
      /\ \A d \in 1 .. Len(ring) : d # b => ring'[d] = ring[d]
  <2>1. PICK s : s = ring'
    OBVIOUS
  <2>2. ring \in Seq(CounterPair) /\ s = [ring EXCEPT ![b] = EmptyRing]
    BY <1>5, <2>1, Types DEF IInv
  <2>3. /\ s \in Seq(CounterPair) /\ Len(s) = Len(ring)
        /\ \A d \in 1 .. Len(ring) : d # b => s[d] = ring[d]
    BY <2>2, RingEmptied
  <2> QED BY <2>1, <2>3
<1>9. /\ m_pl' \in Seq(1 .. Len(ring)) /\ Len(m_pl') = Len(m_pl) + 1
      /\ \A i \in 1 .. Len(m_pl) : m_pl'[i] = m_pl[i]
      /\ m_pl'[Len(m_pl) + 1] = b
  <2>1. PICK S, p : S = 1 .. Len(ring) /\ p = m_pl'
    OBVIOUS
  <2>2. m_pl \in Seq(S) /\ b \in S
    BY <2>1, Types DEF IInv
  <2>3. p = Append(m_pl, b)
    BY <1>5, <2>1
  <2>4. /\ p \in Seq(S) /\ Len(p) = Len(m_pl) + 1 /\ p[Len(m_pl) + 1] = b
        /\ \A i \in 1 .. Len(m_pl) : p[i] = m_pl[i]
    BY <2>2, <2>3, AppendProperties
  <2> QED BY <2>1, <2>4
<1>10. /\ m_connections' \in [Table -> ConnectionType(Len(ring))]
       /\ m_connections'[f].buffer = NoBuffer /\ m_connections'[f].op = "none"
       /\ \A g \in Table : g # f => m_connections'[g] = m_connections[g]
  <2>1. PICK r : r = [m_connections[f] EXCEPT !.buffer = NoBuffer, !.op = "none"]
    OBVIOUS
  <2>2. m_connections' = [m_connections EXCEPT ![f] = r]
    BY <1>5, <2>1
  <2>3. m_connections \in [Table -> ConnectionType(Len(ring))]
    BY Types DEF IInv
  <2>4. r \in ConnectionType(Len(ring)) /\ r.buffer = NoBuffer /\ r.op = "none"
    BY <1>2, <2>1, <2>3 DEF ConnectionType
  <2> QED BY <1>2, <2>2, <2>3, <2>4
<1>11. TypeOK'
  BY <1>1, <1>7, <1>8, <1>9, <1>10, Types, TypesFrom DEF IInv
<1>12. PoolInv'
  <2>1. /\ BufferTable[f] = b /\ b # 0 /\ BufferTable'[f] = 0
        /\ \A g \in Table : g # f => BufferTable'[g] = BufferTable[g]
    BY <1>2, <1>3, <1>10, Types DEF IInv, BufferTable, BufferOf, NoBuffer
  <2>2. Conserved(m_pl, Len(m_pl), Len(ring), Table, BufferTable)
    BY DEF IInv, PoolInv
  <2>3. Conserved(m_pl', Len(m_pl) + 1, Len(ring), Table, BufferTable')
    <3>1. PICK k, n, t, u : k = Len(m_pl) /\ n = Len(ring)
                            /\ t = BufferTable /\ u = BufferTable'
      OBVIOUS
    <3>2. /\ t[f] # 0 /\ m_pl'[k + 1] = t[f] /\ u[f] = 0
          /\ f \in Table /\ \A i \in 1 .. k : m_pl'[i] = m_pl[i]
          /\ \A g \in Table : g # f => u[g] = t[g]
      BY <1>2, <1>9, <2>1, <3>1
    <3>3. Conserved(m_pl, k, n, Table, t)
      BY <2>2, <3>1
    <3>4. Conserved(m_pl', k + 1, n, Table, u)
      BY <3>2, <3>3, ConservedPush
    <3> QED BY <3>1, <3>4
  <2>4. \A g \in Table : BufferOf(g)' # NoBuffer => g \in Fds /\ fdOwner'[g] # NoClient
    <3>1. \A g \in Table : BufferOf(g) # NoBuffer => g \in Fds /\ fdOwner[g] # NoClient
      BY DEF IInv, PoolInv
    <3>2. \A g \in Fds : g # f => fdOwner'[g] = fdOwner[g]
      BY <1>6, Types DEF IInv
    <3> QED BY <1>10, <3>1, <3>2 DEF BufferOf
  <2> QED BY <1>8, <1>9, <2>3, <2>4 DEF PoolInv
<1>13. Active' = Active \ {f}
  <2>1. f # ListenFd /\ \A g \in Fds : g \in Table
    BY <1>2, RingEntriesAssumption, LoopAssumption
  <2> QED BY <1>10, <2>1 DEF Active
<1>14. OneEach(sq', flying', cq', Active')
  BY <1>1, <1>2, <1>13
<1>15. \A i \in 1 .. Len(cq') : cq'[i].ud = TagAccept => cq'[i].res # f
  BY <1>1, <1>2, NotAccepted
<1>16. /\ \A i \in 1 .. Len(sq) : OpCurrent(sq[i], m_connections', ring')
       /\ \A o \in flying : OpCurrent(o, m_connections', ring')
       /\ \A i \in 1 .. Len(cq') : CompletionCurrent(cq'[i], m_connections', ring', fdOwner')
  <2>1. \A g \in Fds : g # f =>
            /\ m_connections'[g] = m_connections[g]
            /\ fdOwner[g] # NoClient => fdOwner'[g] # NoClient
            /\ m_connections[g].buffer # NoBuffer =>
                ring'[m_connections[g].buffer] = ring[m_connections[g].buffer]
    <3> SUFFICES ASSUME NEW g \in Fds, g # f
                 PROVE  /\ m_connections'[g] = m_connections[g]
                        /\ fdOwner[g] # NoClient => fdOwner'[g] # NoClient
                        /\ m_connections[g].buffer # NoBuffer =>
                            ring'[m_connections[g].buffer] = ring[m_connections[g].buffer]
      OBVIOUS
    <3>1. g \in Table
      BY LoopAssumption
    <3>2. fdOwner'[g] = fdOwner[g]
      BY <1>6, Types DEF IInv
    <3>3. BufferOf(g) # NoBuffer => BufferOf(g) \in 1 .. Len(ring) /\ BufferOf(g) # b
      BY <1>2, <1>3, <3>1, Entry
    <3> QED BY <1>8, <1>10, <3>1, <3>2, <3>3 DEF BufferOf
  <2>2. f \notin Active \ {HolderOf(e)}
    BY <1>2
  <2> QED BY <1>1, <1>2, <1>15, <2>1, <2>2, OthersCurrent
<1>17. \A g \in Table : m_connections'[g].op # "none" => BufferOf(g)' # NoBuffer
  BY <1>1, <1>10 DEF QueuesInv, BufferOf
<1>18. QueuesInv'
  BY <1>1, <1>14, <1>16, <1>17 DEF QueuesInv
<1> QED BY <1>11, <1>12, <1>18 DEF IInv

(* A connection goes on, and may wait for another operation.               *)
LEMMA GoOnStep ==
    ASSUME TagsDiffer, IInv, NEW e, e = Head(cq), Handling(e), e.ud # TagAccept,
           NEW f, f = FdOfTag(e.ud), NEW state \in States \ {"die"},
           NEW r \in CounterPair, GoOn(f, state, r), UNCHANGED pc
    PROVE  IInv'
<1>1. /\ QueuesInv /\ pc = "batch" /\ cq' \in Seq(Completion)
      /\ flying' = flying /\ backlog' = backlog /\ m_running' = m_running
      /\ OneEach(sq, flying, cq', Active \ {HolderOf(e)})
      /\ \A i \in 1 .. Len(cq') : CompletionCurrent(cq'[i], m_connections, ring, fdOwner)
  BY HeadHandled
<1>2. f \in Fds /\ f \in Table /\ HolderOf(e) = f /\ BufferOf(f) # NoBuffer
  BY HeadOfConnection
<1>3. PICK b \in 1 .. Len(ring) : b = BufferOf(f) /\ b \in Nat /\ b # NoBuffer
  <2>1. BufferOf(f) \in 1 .. Len(ring) /\ Len(ring) \in Nat
    BY <1>2, Entry, Types DEF IInv
  <2> QED BY <1>2, <2>1
<1>4. PICK kind \in {"none", "recv", "send"} : kind = Wanted(state)
  BY DEF Wanted
<1>5. PICK s, op :
          /\ s \in States \ {"die"}
          /\ op = OpAfter(kind, r)
          /\ s = (IF state = "idle" THEN m_connections[f].state ELSE state)
  <2>1. m_connections[f].state \in States \ {"die"}
    BY <1>2, Types DEF IInv, ConnectionType
  <2> QED BY <2>1
<1>6. /\ m_connections' = [m_connections EXCEPT ![f].state = s, ![f].op = op]
      /\ ring' = [ring EXCEPT ![b] = r]
      /\ sq' = SqAfter(kind, f, b, r)
      /\ UNCHANGED <<m_pl, sock, fdOwner>>
  BY <1>3, <1>4, <1>5 DEF GoOn
<1>7. /\ ring' \in Seq(CounterPair) /\ Len(ring') = Len(ring) /\ ring'[b] = r
      /\ \A d \in 1 .. Len(ring) : d # b => ring'[d] = ring[d]
  BY <1>6, Types, OneRing DEF IInv
<1>8. op \in {"none", "recv", "send"}
  BY <1>5 DEF OpAfter
<1>9. /\ m_connections' \in [Table -> ConnectionType(Len(ring))]
      /\ m_connections'[f].buffer = b /\ m_connections'[f].op = op
      /\ \A g \in Table : g # f => m_connections'[g] = m_connections[g]
  <2>1. PICK v : v = [m_connections[f] EXCEPT !.state = s, !.op = op]
    OBVIOUS
  <2>2. m_connections' = [m_connections EXCEPT ![f] = v]
    BY <1>6, <2>1
  <2>3. m_connections \in [Table -> ConnectionType(Len(ring))]
    BY Types DEF IInv
  <2>4. s \in States \ {"die"}
    BY <1>5
  <2>5. v \in ConnectionType(Len(ring)) /\ v.buffer = b /\ v.op = op
    BY <1>2, <1>3, <1>8, <2>1, <2>3, <2>4 DEF ConnectionType, BufferOf
  <2> QED BY <1>2, <2>2, <2>3, <2>5
<1>10. PoolInv'
  <2>1. \A g \in Table : BufferOf(g)' = BufferOf(g)
    BY <1>3, <1>9 DEF BufferOf
  <2>2. BufferTable' = BufferTable
    BY <2>1 DEF BufferTable
  <2> QED BY <1>6, <1>7, <2>1, <2>2 DEF IInv, PoolInv
<1>11. /\ \A i \in 1 .. Len(sq) : OpCurrent(sq[i], m_connections', ring')
       /\ \A o \in flying : OpCurrent(o, m_connections', ring')
       /\ \A i \in 1 .. Len(cq') : CompletionCurrent(cq'[i], m_connections', ring', fdOwner')
  <2>1. \A g \in Fds : g # f =>
            /\ m_connections'[g] = m_connections[g]
            /\ fdOwner[g] # NoClient => fdOwner'[g] # NoClient
            /\ m_connections[g].buffer # NoBuffer =>
                ring'[m_connections[g].buffer] = ring[m_connections[g].buffer]
    <3> SUFFICES ASSUME NEW g \in Fds, g # f
                 PROVE  /\ m_connections'[g] = m_connections[g]
                        /\ m_connections[g].buffer # NoBuffer =>
                            ring'[m_connections[g].buffer] = ring[m_connections[g].buffer]
      BY <1>6
    <3>1. g \in Table
      BY LoopAssumption
    <3>2. BufferOf(g) # NoBuffer => BufferOf(g) \in 1 .. Len(ring) /\ BufferOf(g) # b
      BY <1>2, <1>3, <3>1, Entry
    <3> QED BY <1>7, <1>9, <3>1, <3>2 DEF BufferOf
  <2>2. \A i \in 1 .. Len(cq') : cq'[i].ud = TagAccept => cq'[i].res # f
    BY <1>1, <1>2, NotAccepted
  <2>3. f \notin Active \ {HolderOf(e)}
    BY <1>2
  <2> QED BY <1>1, <1>2, <2>1, <2>2, <2>3, OthersCurrent
<1>12. PICK act : act = Active \ {f}
  OBVIOUS
<1>13. /\ sq' \in Seq(Op) /\ Len(sq') <= RingEntries
       /\ OneEach(sq', flying, cq', IF op = "none" THEN act ELSE act \cup {f})
       /\ \A i \in 1 .. Len(sq') : OpCurrent(sq'[i], m_connections', ring')
  <2>1. OneEach(sq, flying, cq', act) /\ f \notin act /\ TypeOK
    BY <1>1, <1>2, <1>12 DEF IInv
  <2>2. CASE sq' = sq /\ op = "none"
    BY <1>11, <2>1, <2>2, Types
  <2>3. ASSUME NEW o \in Op, sq' = Append(sq, o), Len(sq) < RingEntries,
               op = kind, kind \in {"recv", "send"}, o.kind = kind, o.fd = f,
               o.buffer = b, o.size = Region(kind, r)
        PROVE  /\ sq' \in Seq(Op) /\ Len(sq') <= RingEntries
               /\ OneEach(sq', flying, cq', act \cup {f}) /\ op # "none"
               /\ \A i \in 1 .. Len(sq') : OpCurrent(sq'[i], m_connections', ring')
    <3>1. OpCurrent(o, m_connections', ring')
      BY <1>2, <1>3, <1>7, <1>9, <2>3 DEF OpCurrent
    <3>2. /\ sq' \in Seq(Op) /\ Len(sq') <= RingEntries
          /\ \A i \in 1 .. Len(sq') : OpCurrent(sq'[i], m_connections', ring')
      BY <1>11, <2>1, <2>3, <3>1, QueueGrows
    <3>3. OneEach(sq', flying, cq', act \cup {f})
      <4>1. sq \in Seq(Op) /\ o.fd \notin act
        BY <2>1, <2>3, Types
      <4>2. OneEach(sq', flying, cq', act \cup {o.fd})
        BY <2>1, <2>3, <4>1, EachPrepared
      <4> QED BY <2>3, <4>2
    <3> QED BY <2>3, <3>2, <3>3
  <2>4. \/ SqAfter(kind, f, b, r) = sq /\ OpAfter(kind, r) = "none"
        \/ \E o \in Op :
             /\ SqAfter(kind, f, b, r) = Append(sq, o) /\ Len(sq) < RingEntries
             /\ OpAfter(kind, r) = kind /\ kind \in {"recv", "send"}
             /\ o.kind = kind /\ o.fd = f /\ o.buffer = b /\ o.size = Region(kind, r)
    BY <1>2, <1>3, Prepares
  <2> QED BY <1>5, <1>6, <2>2, <2>3, <2>4
<1>14. Active' = IF op = "none" THEN act ELSE act \cup {f}
  <2>1. f # ListenFd /\ \A g \in Fds : g \in Table
    BY <1>2, RingEntriesAssumption, LoopAssumption
  <2> QED BY <1>2, <1>9, <1>12, <2>1 DEF Active
<1>15. TypeOK'
  BY <1>1, <1>6, <1>7, <1>9, <1>13, Types, TypesFrom DEF IInv
<1>16. \A g \in Table : m_connections'[g].op # "none" => BufferOf(g)' # NoBuffer
  BY <1>1, <1>3, <1>9 DEF QueuesInv, BufferOf
<1>17. OneEach(sq', flying', cq', Active')
  BY <1>1, <1>13, <1>14
<1>18. QueuesInv'
  BY <1>1, <1>11, <1>13, <1>16, <1>17 DEF QueuesInv
<1> QED BY <1>10, <1>15, <1>18 DEF IInv

(* A completion that moves a counter: the counter stays one.               *)
LEMMA CounterMoves ==
    ASSUME NEW c \in Counter, NEW n \in Int, 0 < n, n <= BufferSize
    PROVE  Advance(c, n) \in Counter
<1>1. n \in 0 .. CounterModulus
  BY CounterFacts, SMT
<1> QED BY <1>1, AdvanceCases

(* Completions of connections.                                             *)
LEMMA ConnectionSteps ==
    ASSUME TagsDiffer, IInv, ConnectionEnds \/ RecvCompleted \/ SendCompleted
    PROVE  IInv'
<1>1. PICK e, f : e = Head(cq) /\ f = FdOfTag(e.ud)
  OBVIOUS
<1>2. Handling(e) /\ e.ud # TagAccept /\ UNCHANGED pc
  BY <1>1 DEF ConnectionEnds, RecvCompleted, SendCompleted, Completed, OfConnection
<1>3. /\ f \in Fds /\ f \in Table /\ IsAnswer(e, f, m_connections, ring)
      /\ IsRecv(e.ud) => m_connections[f].op = "recv"
      /\ IsSend(e.ud) => m_connections[f].op = "send"
      /\ BufferOf(f) # NoBuffer
  BY <1>1, <1>2, HeadOfConnection
<1>4. PICK b : b = BufferOf(f) /\ ring[b] \in CounterPair
  BY <1>3, Entry
<1>5. e \in Completion
  BY <1>1, <1>2, HeadHandled
<1>6. CASE ConnectionEnds
  <2>1. RemoveConnection(f) /\ UNCHANGED <<sq, pc>>
    BY <1>1, <1>6 DEF ConnectionEnds
  <2> QED BY <1>1, <1>2, <2>1, RemoveStep
<1>7. ~Ended(e) => /\ e.res \in Int /\ 0 < e.res
                   /\ e.res <= Region(m_connections[f].op, ring[b])
  BY <1>3, <1>4, <1>5 DEF Ended, Completion, IsAnswer, BufferOf
<1>8. ASSUME NEW state \in States, NEW r \in CounterPair, Answer(f, state, r)
      PROVE  IInv'
  <2>1. CASE state = "die"
    BY <1>1, <1>2, <1>8, <2>1, RemoveStep DEF Answer
  <2>2. CASE state # "die"
    BY <1>1, <1>2, <1>8, <2>2, GoOnStep DEF Answer
  <2> QED BY <2>1, <2>2
<1>9. CASE RecvCompleted
  <2>1. ~Ended(e) /\ IsRecv(e.ud)
    BY <1>1, <1>9 DEF RecvCompleted, Completed
  <2>2. PICK r : r = [ring[b] EXCEPT !.tail = Advance(@, e.res)]
    OBVIOUS
  <2>3. PICK state \in OnRead : Answer(f, state, r)
    BY <1>1, <1>3, <1>4, <1>9, <2>1, <2>2 DEF RecvCompleted, Completed
  <2>4. e.res <= BufferSize
    <3>1. Region("recv", ring[b]) \in 0 .. BufferSize
      BY <1>4, RegionType
    <3> QED BY <1>3, <1>7, <2>1, <3>1, CounterFacts
  <2>5. r \in CounterPair
    <3>1. ring[b].tail \in Counter
      BY <1>4 DEF CounterPair
    <3>2. PICK t \in Counter : t = Advance(ring[b].tail, e.res)
      BY <1>7, <2>1, <2>4, <3>1, CounterMoves
    <3>3. r = [ring[b] EXCEPT !.tail = t]
      BY <2>2, <3>2
    <3> QED BY <1>4, <3>3 DEF CounterPair
  <2>6. state \in States
    BY LoopAssumption
  <2> QED BY <1>8, <2>3, <2>5, <2>6
<1>10. CASE SendCompleted
  <2>1. ~Ended(e) /\ IsSend(e.ud)
    BY <1>1, <1>10 DEF SendCompleted, Completed
  <2>2. PICK r : r = [ring[b] EXCEPT !.head = Advance(@, e.res)]
    OBVIOUS
  <2>3. (\E state \in OnWrite : Answer(f, state, r)) \/ GoOn(f, "write", r)
    BY <1>1, <1>3, <1>4, <1>10, <2>1, <2>2 DEF SendCompleted, Completed
  <2>4. e.res <= BufferSize
    <3>1. Region("send", ring[b]) \in 0 .. BufferSize
      BY <1>4, RegionType
    <3> QED BY <1>3, <1>7, <2>1, <3>1, CounterFacts
  <2>5. r \in CounterPair
    <3>1. ring[b].head \in Counter
      BY <1>4 DEF CounterPair
    <3>2. PICK h \in Counter : h = Advance(ring[b].head, e.res)
      BY <1>7, <2>1, <2>4, <3>1, CounterMoves
    <3>3. r = [ring[b] EXCEPT !.head = h]
      BY <2>2, <3>2
    <3> QED BY <1>4, <3>3 DEF CounterPair
  <2>6. CASE \E state \in OnWrite : Answer(f, state, r)
    BY <1>8, <2>5, <2>6, LoopAssumption
  <2>7. CASE GoOn(f, "write", r)
    <3>1. "write" \in States \ {"die"}
      BY DEF States
    <3> QED BY <1>1, <1>2, <2>5, <2>7, <3>1, GoOnStep
  <2> QED BY <2>3, <2>6, <2>7
<1> QED BY <1>6, <1>9, <1>10
-----------------------------------------------------------------------------
(* An accept that is handled was the only one, and what it accepted waits  *)
(* for nothing.                                                            *)
LEMMA AcceptHandled ==
    ASSUME TagsDiffer, IInv, NEW e, e = Head(cq), Accepted(e)
    PROVE  /\ QueuesInv /\ pc = "batch" /\ cq' \in Seq(Completion)
           /\ flying' = flying /\ backlog' = backlog /\ m_running' = m_running
           /\ OneEach(sq, flying, cq', Active \ {ListenFd}) /\ ListenFd \in Active
           /\ \A i \in 1 .. Len(cq') : cq'[i].ud # TagAccept
           /\ \A i \in 1 .. Len(cq') : CompletionCurrent(cq'[i], m_connections, ring, fdOwner)
           /\ \/ e.res = -1
              \/ /\ e.res \in Fds /\ e.res \in Table /\ fdOwner[e.res] # NoClient
                 /\ BufferOf(e.res) = NoBuffer /\ m_connections[e.res].op = "none"
                 /\ e.res \notin Active
<1>1. Handling(e) /\ e.ud = TagAccept
  BY DEF Accepted
<1>2. /\ QueuesInv /\ pc = "batch" /\ cq' \in Seq(Completion)
      /\ flying' = flying /\ backlog' = backlog /\ m_running' = m_running
      /\ OneEach(sq, flying, cq', Active \ {HolderOf(e)})
      /\ CompletionCurrent(e, m_connections, ring, fdOwner)
      /\ \A i \in 1 .. Len(cq') : CompletionCurrent(cq'[i], m_connections, ring, fdOwner)
  BY <1>1, HeadHandled
<1>3. HolderOf(e) = ListenFd
  BY <1>1 DEF HolderOf
<1>4. \A i \in 1 .. Len(cq') : cq'[i].ud # TagAccept
  <2>1. \A i \in 1 .. Len(cq') : HolderOf(cq'[i]) \in Active \ {ListenFd}
    BY <1>2, <1>3 DEF OneEach
  <2> QED BY <2>1 DEF HolderOf
<1>5. \/ e.res = -1
      \/ /\ e.res \in Fds /\ fdOwner[e.res] # NoClient
         /\ m_connections[e.res].buffer = NoBuffer
  BY <1>1, <1>2, Tags DEF CompletionCurrent, IsAnswer
<1>6. ASSUME NEW f \in Fds, m_connections[f].buffer = NoBuffer
      PROVE  /\ f \in Table /\ BufferOf(f) = NoBuffer /\ m_connections[f].op = "none"
             /\ f \notin Active
  <2>1. f \in Table /\ f # ListenFd
    BY LoopAssumption, RingEntriesAssumption
  <2>2. m_connections[f].op = "none"
    BY <1>2, <1>6, <2>1 DEF QueuesInv, BufferOf
  <2> QED BY <1>6, <2>1, <2>2 DEF Active, BufferOf
<1> QED BY <1>2, <1>3, <1>4, <1>5, <1>6 DEF Active

LEMMA AcceptOp ==
    /\ Accept \in Op /\ Accept.fd = ListenFd /\ Accept.kind = "accept"
    /\ ListenFd \in Nat /\ ListenFd \notin Fds
    BY RingEntriesAssumption DEF Accept, Op

(* The next accept is prepared, when all else is in order.                 *)
LEMMA Rearmed ==
    ASSUME TypeOK, NEW q \in Seq(Op), Len(q) < RingEntries, NEW c, NEW act,
           OneEach(q, flying, c, act \ {ListenFd}), ListenFd \in act,
           \A i \in 1 .. Len(q) : OpCurrent(q[i], m_connections', ring'),
           NEW p, p = Append(q, Accept)
    PROVE  /\ p \in Seq(Op) /\ Len(p) <= RingEntries /\ OneEach(p, flying, c, act)
           /\ \A i \in 1 .. Len(p) : OpCurrent(p[i], m_connections', ring')
<1>1. /\ p \in Seq(Op) /\ Len(p) = Len(q) + 1 /\ p[Len(q) + 1] = Accept
      /\ \A i \in 1 .. Len(q) : p[i] = q[i]
  BY AcceptOp, AppendProperties
<1>2. Len(q) \in Nat /\ RingEntries \in Nat
  BY LenProperties, RingEntriesAssumption
<1>3. /\ Len(p) <= RingEntries
      /\ \A i \in 1 .. Len(p) : i \in 1 .. Len(q) \/ i = Len(q) + 1
  BY <1>1, <1>2
<1>4. \A i \in 1 .. Len(p) : OpCurrent(p[i], m_connections', ring')
  BY <1>1, <1>3 DEF OpCurrent
<1>5. PICK o, rest : /\ o \in Op /\ o = Accept /\ o.fd = ListenFd
                     /\ rest = act \ {ListenFd} /\ o.fd \notin rest
                     /\ act = rest \cup {o.fd}
  BY AcceptOp
<1>6. OneEach(p, flying, c, rest \cup {o.fd})
  <2>1. OneEach(q, flying, c, rest) /\ p = Append(q, o) /\ o.fd \notin rest /\ o \in Op
    BY <1>5
  <2> QED BY <2>1, EachPrepared
<1> QED BY <1>1, <1>3, <1>4, <1>5, <1>6

LEMMA AcceptFailsStep ==
    ASSUME TagsDiffer, IInv, AcceptFails
    PROVE  IInv'
<1>1. PICK e : e = Head(cq)
  OBVIOUS
<1>2. /\ Accepted(e) /\ Len(sq) < RingEntries /\ sq' = Append(sq, Accept)
      /\ UNCHANGED <<pc, sock, fdOwner, m_connections, m_pl, ring>>
  BY <1>1 DEF AcceptFails, table
<1>3. /\ QueuesInv /\ pc = "batch" /\ cq' \in Seq(Completion)
      /\ flying' = flying /\ backlog' = backlog /\ m_running' = m_running
      /\ OneEach(sq, flying, cq', Active \ {ListenFd}) /\ ListenFd \in Active
      /\ \A i \in 1 .. Len(cq') : CompletionCurrent(cq'[i], m_connections, ring, fdOwner)
  BY <1>1, <1>2, AcceptHandled
<1>4. \A i \in 1 .. Len(sq) : OpCurrent(sq[i], m_connections', ring')
  BY <1>2, <1>3 DEF QueuesInv
<1>5. TypeOK /\ sq \in Seq(Op)
  BY Types DEF IInv
<1>6. /\ sq' \in Seq(Op) /\ Len(sq') <= RingEntries /\ OneEach(sq', flying, cq', Active)
      /\ \A i \in 1 .. Len(sq') : OpCurrent(sq'[i], m_connections', ring')
  BY <1>2, <1>3, <1>4, <1>5, Rearmed
<1>7. TypeOK'
  BY <1>2, <1>3, <1>6, Types, TypesFrom DEF IInv
<1>8. PoolInv'
  BY <1>2, PoolUnchanged DEF IInv, table
<1>9. Active' = Active
  BY <1>2 DEF Active
<1>10. OneEach(sq', flying', cq', Active')
  BY <1>3, <1>6, <1>9
<1>11. QueuesInv'
  BY <1>2, <1>3, <1>6, <1>10 DEF QueuesInv, BufferOf
<1> QED BY <1>7, <1>8, <1>11 DEF IInv

(* The connection is removed at once: the table stays what it was.         *)
LEMMA AcceptRefusedStep ==
    ASSUME TagsDiffer, IInv, AcceptRefused
    PROVE  IInv'
<1>1. PICK e, f : e = Head(cq) /\ f = e.res
  OBVIOUS
<1>2. /\ Accepted(e) /\ e.res >= 0 /\ Len(sq) < RingEntries
      /\ sq' = Append(sq, Accept) /\ pc' = pc /\ Close(f)
      /\ m_connections' = [m_connections EXCEPT ![f].buffer = NoBuffer, ![f].op = "none"]
      /\ m_pl' = Append(PoolWithout, Allocated)
      /\ ring' = [RingWithNew EXCEPT ![Allocated] = EmptyRing]
  BY <1>1 DEF AcceptRefused
<1>3. /\ QueuesInv /\ pc = "batch" /\ cq' \in Seq(Completion)
      /\ flying' = flying /\ backlog' = backlog /\ m_running' = m_running
      /\ OneEach(sq, flying, cq', Active \ {ListenFd}) /\ ListenFd \in Active
      /\ \A i \in 1 .. Len(cq') : cq'[i].ud # TagAccept
      /\ \A i \in 1 .. Len(cq') : CompletionCurrent(cq'[i], m_connections, ring, fdOwner)
  BY <1>1, <1>2, AcceptHandled
<1>4. /\ f \in Fds /\ f \in Table /\ fdOwner[f] # NoClient
      /\ BufferOf(f) = NoBuffer /\ m_connections[f].op = "none" /\ f \notin Active
  <2>1. e.res # -1
    BY <1>2
  <2> QED BY <1>1, <1>2, <2>1, AcceptHandled
<1>5. fdOwner[f] \in Clients
  BY <1>4, Types DEF IInv
<1>6. m_connections' = m_connections
  <2>1. m_connections \in [Table -> ConnectionType(Len(ring))]
    BY Types DEF IInv
  <2>2. PICK r : r = [m_connections[f] EXCEPT !.buffer = NoBuffer, !.op = "none"]
    OBVIOUS
  <2>3. m_connections[f] \in ConnectionType(Len(ring))
    BY <1>4, <2>1
  <2>4. r = m_connections[f]
    BY <1>4, <2>2, <2>3 DEF ConnectionType, BufferOf
  <2>5. m_connections' = [m_connections EXCEPT ![f] = r]
    BY <1>2, <2>2
  <2> QED BY <1>4, <2>1, <2>4, <2>5
<1>7. /\ Len(ring') \in Nat /\ Len(ring) <= Len(ring') /\ ring' \in Seq(CounterPair)
      /\ \A g \in Table : BufferOf(g) # NoBuffer => ring'[BufferOf(g)] = ring[BufferOf(g)]
      /\ m_pl' \in Seq(1 .. Len(ring'))
      /\ Conserved(m_pl', Len(m_pl'), Len(ring'), Table, BufferTable)
  <2>1. PICK t : t = BufferTable
    OBVIOUS
  <2>2. PoolTypeOK /\ Conserved(m_pl, Len(m_pl), Len(ring), Table, t)
    BY <2>1, Types DEF IInv, PoolInv
  <2>3. /\ m_pl' = Append(PoolWithout, Allocated)
        /\ ring' = [RingWithNew EXCEPT ![Allocated] = EmptyRing]
    BY <1>2
  <2>4. /\ Len(ring') \in Nat /\ Len(ring) <= Len(ring') /\ ring' \in Seq(CounterPair)
        /\ \A g \in Table : t[g] # 0 => ring'[t[g]] = ring[t[g]]
        /\ m_pl' \in Seq(1 .. Len(ring'))
        /\ Conserved(m_pl', Len(m_pl'), Len(ring'), Table, t)
    BY <2>2, <2>3, RefusedBuffer
  <2>5. \A g \in Table : t[g] = BufferOf(g)
    BY <2>1 DEF BufferTable
  <2> QED BY <2>1, <2>4, <2>5 DEF NoBuffer
<1>8. m_connections' \in [Table -> ConnectionType(Len(ring'))]
  <2>1. Len(ring) \in Nat /\ 1 .. Len(ring) \subseteq 1 .. Len(ring')
    BY <1>7, Types DEF IInv
  <2>2. m_connections \in [Table -> ConnectionType(Len(ring))]
    BY Types DEF IInv
  <2> QED BY <1>6, <2>1, <2>2 DEF ConnectionType
<1>9. /\ sock' = [sock EXCEPT ![fdOwner[f]].phase = "closed"]
      /\ fdOwner' = [fdOwner EXCEPT ![f] = NoClient]
  BY <1>2, <1>4 DEF Close, FreeFds
<1>10. /\ sock' \in [Clients -> Socket] /\ fdOwner' \in [Fds -> Clients \cup {NoClient}]
       /\ \A g \in Fds : g # f => fdOwner'[g] = fdOwner[g]
  BY <1>4, <1>5, <1>9, Types, PhaseType DEF IInv
<1>11. PoolInv'
  <2>1. \A g \in Table : BufferOf(g)' = BufferOf(g)
    BY <1>6 DEF BufferOf
  <2>2. BufferTable' = BufferTable
    BY <2>1 DEF BufferTable
  <2>3. \A g \in Table : BufferOf(g) # NoBuffer => g # f /\ g \in Fds /\ fdOwner[g] # NoClient
    BY <1>4 DEF IInv, PoolInv
  <2> QED BY <1>7, <1>10, <2>1, <2>2, <2>3 DEF PoolInv
<1>12. /\ \A i \in 1 .. Len(sq) : OpCurrent(sq[i], m_connections', ring')
       /\ \A o \in flying : OpCurrent(o, m_connections', ring')
       /\ \A i \in 1 .. Len(cq') : CompletionCurrent(cq'[i], m_connections', ring', fdOwner')
  <2>1. \A g \in Fds : g # f =>
            /\ m_connections'[g] = m_connections[g]
            /\ fdOwner[g] # NoClient => fdOwner'[g] # NoClient
            /\ m_connections[g].buffer # NoBuffer =>
                ring'[m_connections[g].buffer] = ring[m_connections[g].buffer]
    BY <1>6, <1>7, <1>10, LoopAssumption DEF BufferOf
  <2>2. f \notin Active \ {ListenFd}
    BY <1>4
  <2>3. \A i \in 1 .. Len(cq') : cq'[i].ud = TagAccept => cq'[i].res # f
    BY <1>3
  <2> QED BY <1>3, <1>4, <2>1, <2>2, <2>3, OthersCurrent
<1>13. /\ sq' \in Seq(Op) /\ Len(sq') <= RingEntries /\ OneEach(sq', flying, cq', Active)
       /\ \A i \in 1 .. Len(sq') : OpCurrent(sq'[i], m_connections', ring')
  <2>1. TypeOK /\ sq \in Seq(Op)
    BY Types DEF IInv
  <2> QED BY <1>2, <1>3, <1>12, <2>1, Rearmed
<1>14. TypeOK'
  BY <1>2, <1>3, <1>7, <1>8, <1>10, <1>13, Types, TypesFrom DEF IInv
<1>15. Active' = Active
  BY <1>6 DEF Active
<1>16. OneEach(sq', flying', cq', Active')
  BY <1>3, <1>13, <1>15
<1>17. \A g \in Table : m_connections'[g].op # "none" => BufferOf(g)' # NoBuffer
  BY <1>3, <1>6 DEF QueuesInv, BufferOf
<1>18. QueuesInv'
  BY <1>3, <1>12, <1>13, <1>16, <1>17 DEF QueuesInv
<1> QED BY <1>11, <1>14, <1>18 DEF IInv

(* The connection is given a buffer, and may wait for an operation.        *)
LEMMA AcceptOneStep ==
    ASSUME TagsDiffer, IInv, AcceptOne
    PROVE  IInv'
<1>1. PICK e, f, b, r : e = Head(cq) /\ f = e.res /\ b = Allocated /\ r = RingWithNew[b]
  OBVIOUS
<1>2. PICK state \in OnConnect \ {"die"} :
        /\ Len(SqAfter(Wanted(state), f, b, r)) < RingEntries
        /\ m_connections' = [m_connections EXCEPT
                ![f] = [state |-> state, buffer |-> b, op |-> OpAfter(Wanted(state), r)]]
        /\ sq' = Append(SqAfter(Wanted(state), f, b, r), Accept)
  BY <1>1 DEF AcceptOne
<1>3. PICK kind, op, q :
        /\ kind \in {"none", "recv", "send"}
        /\ kind = Wanted(state) /\ op = OpAfter(kind, r) /\ q = SqAfter(kind, f, b, r)
  BY DEF Wanted
<1>4. /\ Len(q) < RingEntries /\ sq' = Append(q, Accept)
      /\ m_connections' = [m_connections EXCEPT
            ![f] = [state |-> state, buffer |-> b, op |-> op]]
      /\ op \in {"none", "recv", "send"} /\ state \in States \ {"die"}
  BY <1>2, <1>3, LoopAssumption DEF OpAfter
<1>5. /\ Accepted(e) /\ e.res >= 0 /\ m_pl' = PoolWithout /\ ring' = RingWithNew
      /\ pc' = pc /\ sock' = sock /\ fdOwner' = fdOwner
  BY <1>1 DEF AcceptOne
<1>6. /\ QueuesInv /\ pc = "batch" /\ cq' \in Seq(Completion)
      /\ flying' = flying /\ backlog' = backlog /\ m_running' = m_running
      /\ OneEach(sq, flying, cq', Active \ {ListenFd}) /\ ListenFd \in Active
      /\ \A i \in 1 .. Len(cq') : cq'[i].ud # TagAccept
      /\ \A i \in 1 .. Len(cq') : CompletionCurrent(cq'[i], m_connections, ring, fdOwner)
  BY <1>1, <1>5, AcceptHandled
<1>7. /\ f \in Fds /\ f \in Table /\ fdOwner[f] # NoClient
      /\ BufferOf(f) = NoBuffer /\ m_connections[f].op = "none" /\ f \notin Active
  <2>1. e.res # -1
    BY <1>5
  <2> QED BY <1>1, <1>5, <2>1, AcceptHandled
<1>8. /\ m_connections'[f].buffer = b /\ m_connections'[f].op = op
      /\ \A g \in Table : g # f => m_connections'[g] = m_connections[g]
  BY <1>4, <1>7, Types DEF IInv
<1>9. /\ BufferTable[f] = 0 /\ BufferTable'[f] = b
      /\ \A g \in Table : g # f => BufferTable'[g] = BufferTable[g]
  BY <1>7, <1>8 DEF BufferTable, BufferOf, NoBuffer
<1>10. /\ Len(ring') \in Nat /\ Len(ring) <= Len(ring') /\ ring' \in Seq(CounterPair)
       /\ b \in 1 .. Len(ring')
       /\ \A d \in 1 .. Len(ring) : ring'[d] = ring[d]
       /\ m_pl' \in Seq(1 .. Len(ring'))
       /\ Conserved(m_pl', Len(m_pl'), Len(ring'), Table, BufferTable')
  <2>1. PICK u, t : u = BufferTable /\ t = BufferTable'
    OBVIOUS
  <2>2. /\ PoolTypeOK /\ Conserved(m_pl, Len(m_pl), Len(ring), Table, u) /\ u[f] = 0
        /\ t[f] = Allocated /\ \A g \in Table : g # f => t[g] = u[g]
    BY <1>1, <1>9, <2>1, Types DEF IInv, PoolInv
  <2> QED BY <1>1, <1>5, <1>7, <2>1, <2>2, PushedBuffer
<1>11. b \in Nat /\ b # NoBuffer /\ r \in CounterPair /\ ring'[b] = r
  <2>1. b \in Nat /\ b # NoBuffer
    BY <1>10 DEF NoBuffer
  <2>2. ring'[b] = r
    BY <1>1, <1>5
  <2> QED BY <1>10, <2>1, <2>2, ElementOfSeq
<1>12. m_connections' \in [Table -> ConnectionType(Len(ring'))]
  <2>1. Len(ring) \in Nat /\ 1 .. Len(ring) \subseteq 1 .. Len(ring')
    BY <1>10, Types DEF IInv
  <2>2. m_connections \in [Table -> ConnectionType(Len(ring'))]
    BY <2>1, Types DEF IInv, ConnectionType
  <2>3. [state |-> state, buffer |-> b, op |-> op] \in ConnectionType(Len(ring'))
    BY <1>4, <1>10 DEF ConnectionType
  <2> QED BY <1>4, <2>2, <2>3
<1>13. PoolInv'
  <2>1. \A g \in Table : g # f => BufferOf(g)' = BufferOf(g)
    BY <1>8 DEF BufferOf
  <2> QED BY <1>5, <1>7, <1>10, <2>1 DEF IInv, PoolInv
<1>14. /\ \A i \in 1 .. Len(sq) : OpCurrent(sq[i], m_connections', ring')
       /\ \A o \in flying : OpCurrent(o, m_connections', ring')
       /\ \A i \in 1 .. Len(cq') : CompletionCurrent(cq'[i], m_connections', ring', fdOwner')
  <2>1. \A g \in Fds : g # f =>
            /\ m_connections'[g] = m_connections[g]
            /\ fdOwner[g] # NoClient => fdOwner'[g] # NoClient
            /\ m_connections[g].buffer # NoBuffer =>
                ring'[m_connections[g].buffer] = ring[m_connections[g].buffer]
    <3>1. \A g \in Table : BufferOf(g) # NoBuffer => BufferOf(g) \in 1 .. Len(ring)
      BY Entry
    <3> QED BY <1>5, <1>8, <1>10, <3>1, LoopAssumption DEF BufferOf
  <2>2. f \notin Active \ {ListenFd}
    BY <1>7
  <2>3. \A i \in 1 .. Len(cq') : cq'[i].ud = TagAccept => cq'[i].res # f
    BY <1>6
  <2> QED BY <1>6, <1>7, <2>1, <2>2, <2>3, OthersCurrent
<1>15. PICK act : /\ act = Active' /\ ListenFd \in act
                  /\ act \ {ListenFd} = IF op = "none" THEN Active \ {ListenFd}
                                        ELSE (Active \ {ListenFd}) \cup {f}
  <2>1. f # ListenFd /\ \A g \in Fds : g \in Table
    BY <1>7, RingEntriesAssumption, LoopAssumption
  <2>2. CASE op = "none"
    <3>1. Active' = Active
      BY <1>7, <1>8, <2>1, <2>2 DEF Active
    <3> QED BY <1>6, <2>2, <3>1
  <2>3. CASE op # "none"
    <3>1. Active' = Active \cup {f}
      BY <1>7, <1>8, <2>1, <2>3 DEF Active
    <3> QED BY <1>6, <2>1, <2>3, <3>1
  <2> QED BY <2>2, <2>3
<1>16. /\ q \in Seq(Op) /\ OneEach(q, flying, cq', act \ {ListenFd})
       /\ \A i \in 1 .. Len(q) : OpCurrent(q[i], m_connections', ring')
  <2>1. TypeOK /\ sq \in Seq(Op)
    BY Types DEF IInv
  <2>2. CASE q = sq /\ op = "none"
    BY <1>6, <1>14, <1>15, <2>1, <2>2
  <2>3. ASSUME NEW o \in Op, q = Append(sq, o), Len(sq) < RingEntries,
               op = kind, kind \in {"recv", "send"}, o.kind = kind, o.fd = f,
               o.buffer = b, o.size = Region(kind, r)
        PROVE  /\ q \in Seq(Op) /\ OneEach(q, flying, cq', act \ {ListenFd})
               /\ \A i \in 1 .. Len(q) : OpCurrent(q[i], m_connections', ring')
    <3>1. OpCurrent(o, m_connections', ring')
      BY <1>7, <1>8, <1>11, <2>3 DEF OpCurrent
    <3>2. /\ q \in Seq(Op)
          /\ \A i \in 1 .. Len(q) : OpCurrent(q[i], m_connections', ring')
      BY <1>14, <2>1, <2>3, <3>1, QueueGrows
    <3>3. PICK rest : rest = Active \ {ListenFd} /\ o.fd \notin rest
      BY <1>7, <2>3
    <3>4. OneEach(sq, flying, cq', rest)
      BY <1>6, <3>3
    <3>5. OneEach(q, flying, cq', rest \cup {o.fd})
      BY <2>1, <2>3, <3>3, <3>4, EachPrepared
    <3>6. act \ {ListenFd} = rest \cup {o.fd}
      BY <1>15, <2>3, <3>3
    <3> QED BY <3>2, <3>5, <3>6
  <2>4. \/ SqAfter(kind, f, b, r) = sq /\ OpAfter(kind, r) = "none"
        \/ \E o \in Op :
             /\ SqAfter(kind, f, b, r) = Append(sq, o) /\ Len(sq) < RingEntries
             /\ OpAfter(kind, r) = kind /\ kind \in {"recv", "send"}
             /\ o.kind = kind /\ o.fd = f /\ o.buffer = b /\ o.size = Region(kind, r)
    <3>1. kind \in {"none", "recv", "send"}
      BY <1>3
    <3> QED BY <1>7, <1>11, <3>1, Prepares
  <2> QED BY <1>3, <2>2, <2>3, <2>4
<1>17. /\ sq' \in Seq(Op) /\ Len(sq') <= RingEntries /\ OneEach(sq', flying, cq', act)
       /\ \A i \in 1 .. Len(sq') : OpCurrent(sq'[i], m_connections', ring')
  <2>1. TypeOK
    BY DEF IInv
  <2> QED BY <1>4, <1>15, <1>16, <2>1, Rearmed
<1>18. TypeOK'
  BY <1>5, <1>6, <1>10, <1>12, <1>17, Types, TypesFrom DEF IInv
<1>19. OneEach(sq', flying', cq', Active')
  BY <1>6, <1>15, <1>17
<1>20. \A g \in Table : m_connections'[g].op # "none" => BufferOf(g)' # NoBuffer
  BY <1>6, <1>8, <1>11 DEF QueuesInv, BufferOf
<1>21. QueuesInv'
  BY <1>6, <1>14, <1>17, <1>19, <1>20 DEF QueuesInv
<1> QED BY <1>13, <1>18, <1>21 DEF IInv
-----------------------------------------------------------------------------
(* The order in which the buffers go back when run() ends.                 *)
LEMMA OrderOfBuffers ==
    ASSUME IInv, NEW o \in Bijection(1 .. Cardinality(Buffered), Buffered)
    PROVE  /\ Cardinality(Buffered) \in Nat
           /\ o \in [1 .. Cardinality(Buffered) -> Buffered]
           /\ \A i, j \in 1 .. Cardinality(Buffered) : o[i] = o[j] => i = j
           /\ \A f \in Buffered : \E i \in 1 .. Cardinality(Buffered) : o[i] = f
<1>1. Buffered \in SUBSET Fds
  BY DEF IInv, PoolInv, Buffered
<1>2. IsFiniteSet(Buffered)
  BY <1>1, SocketAssumption, FS_Subset
<1>3. Cardinality(Buffered) \in Nat
  BY <1>2, FS_CardinalityType
<1>4. PICK S, T : S = 1 .. Cardinality(Buffered) /\ T = Buffered
  OBVIOUS
<1>5. o \in Bijection(S, T)
  BY <1>4
<1>6. /\ o \in [S -> T] /\ \A i, j \in S : o[i] = o[j] => i = j
      /\ \A f \in T : \E i \in S : o[i] = f
  BY <1>5, Fun_BijectionProperties
<1> QED BY <1>3, <1>4, <1>6

(* run() ends: all buffers are in the pool.                                *)
LEMMA CleanupStep ==
    ASSUME IInv, LeaveLoop \/ WaitFails
    PROVE  IInv'
<1>1. PICK o \in Bijection(1 .. Cardinality(Buffered), Buffered) :
          m_pl' = m_pl \o [i \in DOMAIN o |-> BufferOf(o[i])]
  BY DEF LeaveLoop, WaitFails, Cleanup
<1>2. /\ ring' = [b \in Buffers |-> IF b \in Owned THEN EmptyRing ELSE ring[b]]
      /\ m_connections' = [f \in Table |-> [m_connections[f] EXCEPT !.buffer = NoBuffer]]
      /\ pc' = "stopped"
      /\ UNCHANGED <<sock, backlog, fdOwner, sq, flying, cq, m_running>>
  BY DEF LeaveLoop, WaitFails, Cleanup, sockets, rings
<1>3. PICK m : /\ m \in Nat /\ o \in [1 .. m -> Buffered]
               /\ \A i, j \in 1 .. m : o[i] = o[j] => i = j
               /\ \A f \in Buffered : \E i \in 1 .. m : o[i] = f
  BY <1>1, OrderOfBuffers
<1>4. /\ m_connections \in [Table -> ConnectionType(Len(ring))]
      /\ ring \in Seq(CounterPair) /\ m_pl \in Seq(1 .. Len(ring))
      /\ Buffers = 1 .. Len(ring)
  BY Types DEF IInv
<1>5. PICK k \in Nat, n \in Nat : k = Len(m_pl) /\ n = Len(ring)
  BY Types DEF IInv
<1>6. PICK s : s = [i \in 1 .. m |-> BufferOf(o[i])]
  OBVIOUS
<1>7. /\ s \in Seq(1 .. n) /\ Len(s) = m
      /\ \A i \in 1 .. m : o[i] \in Table /\ s[i] = BufferOf(o[i]) /\ s[i] # NoBuffer
      /\ \A i, j \in 1 .. m : i # j => s[i] # s[j]
  <2>1. \A i \in 1 .. m : o[i] \in Table /\ BufferOf(o[i]) # NoBuffer
    BY <1>3 DEF Buffered
  <2>2. \A i \in 1 .. m : BufferOf(o[i]) \in 1 .. n
    BY <1>5, <2>1, Entry
  <2>3. s \in [1 .. m -> 1 .. n]
    BY <1>6, <2>2
  <2>4. \A i, j \in 1 .. m : i # j => BufferOf(o[i]) # BufferOf(o[j])
    BY <1>3, <2>1, Entry
  <2> QED BY <1>3, <1>6, <2>1, <2>3, <2>4
<1>8. /\ m_pl' \in Seq(1 .. n) /\ Len(m_pl') = k + m
      /\ \A i \in 1 .. k : m_pl'[i] = m_pl[i]
      /\ \A j \in 1 .. m : m_pl'[k + j] = s[j]
  <2>1. PICK p : p = m_pl \o s
    OBVIOUS
  <2>2. /\ p \in Seq(1 .. n) /\ Len(p) = k + m
        /\ \A i \in 1 .. k + m : p[i] = IF i <= k THEN m_pl[i] ELSE s[i - k]
    <3>1. PICK S : S = 1 .. n
      OBVIOUS
    <3>2. m_pl \in Seq(1 .. n)
      BY <1>4, <1>5
    <3>3. m_pl \in Seq(S) /\ s \in Seq(S)
      BY <1>7, <3>1, <3>2
    <3>4. PICK c, d : c = Len(m_pl) /\ d = Len(s)
      OBVIOUS
    <3>5. /\ m_pl \o s \in Seq(S) /\ Len(m_pl \o s) = Len(m_pl) + Len(s)
          /\ \A i \in 1 .. Len(m_pl) + Len(s) :
                (m_pl \o s)[i] = IF i <= Len(m_pl) THEN m_pl[i] ELSE s[i - Len(m_pl)]
      BY <3>3, ConcatProperties
    <3>6. /\ p \in Seq(S) /\ Len(p) = c + d
          /\ \A i \in 1 .. c + d : p[i] = IF i <= c THEN m_pl[i] ELSE s[i - c]
      BY <2>1, <3>4, <3>5
    <3>7. c = k /\ d = m
      BY <1>5, <1>7, <3>4
    <3> QED BY <3>1, <3>6, <3>7
  <2>3. /\ \A i \in 1 .. k : i \in 1 .. k + m /\ i <= k
        /\ \A j \in 1 .. m : k + j \in 1 .. k + m /\ ~(k + j <= k) /\ (k + j) - k = j
    BY <1>3, <1>5
  <2>4. m_pl' = p
    <3>1. DOMAIN o = 1 .. m
      BY <1>3
    <3>2. [i \in DOMAIN o |-> BufferOf(o[i])] = s
      BY <1>6, <3>1
    <3> QED BY <1>1, <2>1, <3>2
  <2> QED BY <2>2, <2>3, <2>4
<1>9. ring' \in Seq(CounterPair) /\ Len(ring') = n
  <2>1. EmptyRing \in CounterPair
    <3>1. 0 \in Counter
      BY CounterFacts, SMT DEF Counter
    <3> QED BY <3>1 DEF EmptyRing, CounterPair
  <2>2. \A b \in 1 .. n : ring[b] \in CounterPair
    BY <1>4, <1>5, ElementOfSeq
  <2>3. ring' \in [1 .. n -> CounterPair]
    BY <1>2, <1>4, <1>5, <2>1, <2>2
  <2> QED BY <1>5, <2>3
<1>10. /\ m_connections' \in [Table -> ConnectionType(n)]
      /\ \A f \in Table : m_connections'[f].buffer = NoBuffer
  BY <1>2, <1>4, <1>5 DEF ConnectionType
<1>11. TypeOK'
  BY <1>2, <1>5, <1>8, <1>9, <1>10, Types, TypesFrom DEF IInv
<1>12. Conserved(m_pl', k + m, n, Table, BufferTable')
  <2>1. PICK p, u, t : p = m_pl' /\ u = BufferTable /\ t = BufferTable'
    OBVIOUS
  <2>2. Conserved(m_pl, k, n, Table, u)
    BY <1>5, <2>1 DEF IInv, PoolInv
  <2>3. \A f \in Table : t[f] = 0 /\ u[f] = BufferOf(f)
    BY <1>10, <2>1 DEF BufferTable, BufferOf, NoBuffer
  <2>4. \A j \in 1 .. m : s[j] # 0 /\ \E f \in Table : s[j] = u[f]
    BY <1>7, <2>3 DEF NoBuffer
  <2>5. \A f \in Table : u[f] # 0 => \E j \in 1 .. m : s[j] = u[f]
    <3>1. \A f \in Table : u[f] # 0 => f \in Buffered
      BY <2>3 DEF Buffered, NoBuffer
    <3> QED BY <1>3, <1>7, <2>3, <3>1
  <2>6. (\A i \in 1 .. k : p[i] = m_pl[i]) /\ \A j \in 1 .. m : p[k + j] = s[j]
    BY <1>8, <2>1
  <2>7. m \in Nat /\ \A i, j \in 1 .. m : i # j => s[i] # s[j]
    BY <1>3, <1>7
  <2>8. Conserved(p, k + m, n, Table, t)
    <3>1. AllReturn(m_pl, k, Table, u, m, s, p, t)
      BY <2>3, <2>4, <2>5, <2>6, <2>7 DEF AllReturn
    <3> QED BY <2>2, <3>1, ConservedAll
  <2> QED BY <2>1, <2>8
<1>13. PoolInv'
  BY <1>8, <1>9, <1>10, <1>12 DEF PoolInv, BufferOf
<1> QED BY <1>2, <1>11, <1>13 DEF IInv

LEMMA InitialStates ==
    ASSUME Init
    PROVE  IInv
<1>1. /\ m_connections = [f \in Table |->
                            [state |-> "idle", buffer |-> NoBuffer, op |-> "none"]]
      /\ fdOwner = [f \in Fds |-> NoClient] /\ backlog = <<>> /\ m_running = TRUE
      /\ sock = [c \in Clients |-> [phase |-> "new", peer |-> "up",
                                   rx |-> 0, tx |-> 0, in |-> 0, out |-> 0]]
      /\ sq = <<>> /\ flying = {Accept} /\ cq = <<>> /\ pc = "wait"
  BY DEF Init, RingInit, SocketsInit
<1>2. /\ ring = [i \in 1 .. Prepool |-> EmptyRing] /\ m_pl = [i \in 1 .. Prepool |-> i]
      /\ Prepool \in Nat
  BY PoolAssumption DEF Init, PoolInit
<1>3. EmptyRing \in CounterPair
  <2>1. 0 \in Counter
    BY CounterFacts, SMT DEF Counter
  <2> QED BY <2>1 DEF EmptyRing, CounterPair
<1>4. /\ ring \in Seq(CounterPair) /\ Len(ring) = Prepool
      /\ m_pl \in Seq(1 .. Prepool) /\ Len(m_pl) = Prepool
      /\ Buffers = 1 .. Prepool
  BY <1>2, <1>3 DEF Buffers
<1>5. TypeOK
  <2>1. SocketsTypeOK
    <3>1. 0 \in 0 .. MaxBytes /\ 0 \in 0 .. SendRoom /\ 0 \in Nat
      BY SocketAssumption
    <3> QED BY <1>1, <3>1, EmptySeq DEF SocketsTypeOK, Socket
  <2>2. RingTypeOK
    <3>1. /\ <<>> \in Seq(Op) /\ Len(<<>>) = 0 /\ 0 <= RingEntries
          /\ <<>> \in Seq([ud : Nat, res : Int])
      BY RingEntriesAssumption, EmptySeq
    <3> QED BY <1>1, <2>1, <3>1, AcceptOp DEF RingTypeOK
  <2>3. m_connections \in [Table -> [state : States \ {"die"},
                                     buffer : Buffers \cup {NoBuffer},
                                     op : {"none", "recv", "send"}]]
    BY <1>1 DEF States
  <2>4. PoolTypeOK
    BY <1>4 DEF PoolTypeOK, CounterPair
  <2> QED BY <1>1, <2>2, <2>3, <2>4 DEF TypeOK
<1>6. PoolInv
  <2>1. \A f \in Table : BufferTable[f] = 0
    BY <1>1 DEF BufferTable, BufferOf, NoBuffer
  <2>2. 0 \in 0 .. Prepool /\ \A i \in 1 .. Prepool : i # 0
    BY <1>2
  <2>3. Conserved(m_pl, Prepool, Prepool, Table, BufferTable)
    BY <1>2, <2>1, <2>2 DEF Conserved
  <2> QED BY <1>1, <1>4, <2>3 DEF PoolInv, BufferOf
<1>7. QueuesInv
  <2>1. /\ Len(<<>>) = 0 /\ \A i \in 1 .. 0 : FALSE
    BY EmptySeq
  <2>2. Active = {ListenFd}
    BY <1>1, LoopAssumption DEF Active
  <2>3. OneEach(sq, flying, cq, Active)
    BY <1>1, <2>1, <2>2, AcceptOp DEF OneEach
  <2>4. \A f \in Table : m_connections[f].op = "none"
    BY <1>1
  <2> QED BY <1>1, <2>1, <2>3, <2>4 DEF QueuesInv, OpCurrent
<1> QED BY <1>5, <1>6, <1>7 DEF IInv

(* Every step of the loop, the kernel, a client and stop() keeps it.       *)
LEMMA Inductive ==
    ASSUME TagsDiffer, IInv, [Next]_vars
    PROVE  IInv'
<1>1. CASE LoopStep
  <2>1. CASE WaitCqe \/ AcceptCrashes
    BY <2>1, QuietSteps
  <2>2. CASE LeaveLoop
    BY <2>2, CleanupStep
  <2>3. CASE EndOfBatch
    BY <2>3, SubmitStep
  <2>4. CASE AcceptFails \/ AcceptRefused \/ AcceptOne
    BY <2>4, AcceptFailsStep, AcceptRefusedStep, AcceptOneStep
  <2>5. CASE ConnectionEnds \/ RecvCompleted \/ SendCompleted
    BY <2>5, ConnectionSteps
  <2> QED BY <1>1, <2>1, <2>2, <2>3, <2>4, <2>5 DEF LoopStep
<1>2. CASE WaitFails
  BY <1>2, CleanupStep
<1>3. CASE Stop \/ Halted \/ PeerActs \/ UNCHANGED vars
  BY <1>3, QuietSteps
<1>4. CASE Completes
  BY <1>4, KernelAccepts, KernelMoves DEF Completes
<1> QED BY <1>1, <1>2, <1>3, <1>4 DEF Next
-----------------------------------------------------------------------------
(* The inductive invariant, when the accept has a tag of its own.          *)
THEOREM Invariance ==
    ASSUME TagsDiffer
    PROVE  Spec => []IInv
<1>1. Init => IInv
  BY InitialStates
<1>2. IInv /\ [Next]_vars => IInv'
  BY Inductive
<1> QED BY <1>1, <1>2, PTL DEF Spec

(* The variables keep their types; the submission queue never holds more   *)
(* than it has room for.                                                   *)
THEOREM TypeCorrect ==
    ASSUME TagsDiffer
    PROVE  Spec => []TypeOK
<1>1. IInv => TypeOK
  BY DEF IInv
<1> QED BY <1>1, Invariance, PTL

(* The pool neither loses a buffer nor gives one to two connections, and   *)
(* has them all when run() ends, whatever completes and fails before.      *)
THEOREM BuffersConserved ==
    ASSUME TagsDiffer
    PROVE  Spec => []BufferConservation
<1>1. IInv => BufferConservation
  <2> SUFFICES ASSUME IInv PROVE BufferConservation
    OBVIOUS
  <2>1. PICK k, n : k = Len(m_pl) /\ n = Len(ring)
    OBVIOUS
  <2>2. /\ Conserved(m_pl, k, n, Table, BufferTable)
        /\ Buffers = 1 .. n /\ DOMAIN m_pl = 1 .. k
        /\ \A f \in Table : BufferTable[f] = BufferOf(f)
    BY <2>1, Types, LenProperties DEF IInv, PoolInv, BufferTable
  <2>3. \A f \in Table : BufferOf(f) # NoBuffer => f \in Fds \ FreeFds
    BY DEF IInv, PoolInv, FreeFds
  <2>4. /\ \A f, g \in Table :
              (f # g /\ BufferOf(f) # NoBuffer) => BufferOf(f) # BufferOf(g)
        /\ \A i, j \in DOMAIN m_pl : i # j => m_pl[i] # m_pl[j]
    BY <2>2 DEF Conserved, NoBuffer
  <2>5. Owned \cap Pooled = {}
    BY <2>2 DEF Conserved, Owned, Buffered, Pooled, NoBuffer
  <2>6. Owned \cup Pooled = Buffers
    <3>1. \A b \in 1 .. n : b # 0
      BY <2>2 DEF Conserved
    <3>2. \A b \in 0 .. n : b = 0 \/ b \in 1 .. n
      BY <2>2 DEF Conserved
    <3>3. Owned \cup Pooled \subseteq Buffers
      BY <2>2, <3>2 DEF Conserved, Owned, Buffered, Pooled, NoBuffer
    <3>4. Buffers \subseteq Owned \cup Pooled
      <4>1. ASSUME NEW b \in 1 .. n, NEW f \in Table, BufferTable[f] = b PROVE b \in Owned
        BY <2>2, <3>1, <4>1 DEF Owned, Buffered, NoBuffer
      <4>2. ASSUME NEW b \in 1 .. n, NEW i \in 1 .. k, m_pl[i] = b PROVE b \in Pooled
        BY <2>2, <4>2 DEF Pooled
      <4>3. \A b \in 1 .. n : \/ \E f \in Table : BufferTable[f] = b
                             \/ \E i \in 1 .. k : m_pl[i] = b
        BY <2>2 DEF Conserved
      <4> QED BY <2>2, <4>1, <4>2, <4>3
    <3> QED BY <3>3, <3>4
  <2> QED BY <2>3, <2>4, <2>5, <2>6 DEF BufferConservation
<1> QED BY <1>1, Invariance, PTL
-----------------------------------------------------------------------------
LEMMA AtMostOne ==
    ASSUME NEW S, \A a, b \in S : a = b
    PROVE  (S = {} /\ Cardinality(S) = 0) \/ (S # {} /\ Cardinality(S) = 1)
<1>1. CASE S = {}
  BY <1>1, FS_EmptySet
<1>2. ASSUME NEW x \in S PROVE Cardinality(S) = 1
  <2>1. S = {x}
    OBVIOUS
  <2> QED BY <2>1, FS_Singleton
<1> QED BY <1>1, <1>2

(* Of who waits, and of nobody else, there is one entry.                   *)
LEMMA Entries ==
    ASSUME NEW q, NEW fly, NEW c, NEW act, OneEach(q, fly, c, act), NEW f
    PROVE  Cardinality({i \in 1 .. Len(q) : q[i].fd = f})
           + Cardinality({o \in fly : o.fd = f})
           + Cardinality({i \in 1 .. Len(c) : HolderOf(c[i]) = f})
             = IF f \in act THEN 1 ELSE 0
<1>1. PICK P, F, C : /\ P = {i \in 1 .. Len(q) : q[i].fd = f}
                     /\ F = {o \in fly : o.fd = f}
                     /\ C = {i \in 1 .. Len(c) : HolderOf(c[i]) = f}
  OBVIOUS
<1>2. (P = {} /\ Cardinality(P) = 0) \/ (P # {} /\ Cardinality(P) = 1)
  <2>1. \A a, b \in P : a = b
    BY <1>1 DEF OneEach
  <2> QED BY <2>1, AtMostOne
<1>3. (F = {} /\ Cardinality(F) = 0) \/ (F # {} /\ Cardinality(F) = 1)
  <2>1. \A a, b \in F : a = b
    BY <1>1 DEF OneEach
  <2> QED BY <2>1, AtMostOne
<1>4. (C = {} /\ Cardinality(C) = 0) \/ (C # {} /\ Cardinality(C) = 1)
  <2>1. \A a, b \in C : a = b
    BY <1>1 DEF OneEach
  <2> QED BY <2>1, AtMostOne
<1>5. (P = {} \/ F = {}) /\ (P = {} \/ C = {}) /\ (F = {} \/ C = {})
  BY <1>1 DEF OneEach
<1>6. f \notin act => P = {} /\ F = {} /\ C = {}
  BY <1>1 DEF OneEach
<1>7. f \in act => P # {} \/ F # {} \/ C # {}
  BY <1>1 DEF OneEach
<1> QED BY <1>1, <1>2, <1>3, <1>4, <1>5, <1>6, <1>7

(* A completion is about the listening socket when its tag says so.        *)
LEMMA Holders ==
    ASSUME TagsDiffer, IInv, QueuesInv, NEW i \in 1 .. Len(cq)
    PROVE  /\ cq[i].ud = TagAccept <=> HolderOf(cq[i]) = ListenFd
           /\ \A f \in Fds : /\ cq[i].ud # TagAccept /\ FdOfTag(cq[i].ud) = f
                                <=> HolderOf(cq[i]) = f
                             /\ HolderOf(cq[i]) = f =>
                                    IsAnswer(cq[i], f, m_connections, ring)
<1>1. \/ cq[i].ud = TagAccept
      \/ \E g \in Fds : IsAnswer(cq[i], g, m_connections, ring)
  BY DEF QueuesInv, CompletionCurrent
<1>2. CASE cq[i].ud = TagAccept
  BY <1>2, Tags DEF HolderOf
<1>3. ASSUME NEW g \in Fds, IsAnswer(cq[i], g, m_connections, ring)
      PROVE  /\ cq[i].ud # TagAccept /\ HolderOf(cq[i]) = g
             /\ g # ListenFd /\ FdOfTag(cq[i].ud) = g
  BY <1>3, Tags DEF HolderOf, IsAnswer
<1> QED BY <1>1, <1>2, <1>3

(* A connection waits for one operation, which works on what its buffer    *)
(* gives out now: the stale checks of the handlers never catch anything.   *)
THEOREM OperationsStayCurrent ==
    ASSUME TagsDiffer
    PROVE  Spec => []OpsAreCurrent
<1>1. IInv => OpsAreCurrent
  <2> SUFFICES ASSUME IInv, Running PROVE OpsAreCurrent
    BY DEF OpsAreCurrent
  <2>1. QueuesInv
    BY DEF IInv, Running
  <2>2. /\ DOMAIN sq = 1 .. Len(sq) /\ DOMAIN cq = 1 .. Len(cq)
        /\ sq \in Seq(Op) /\ cq \in Seq(Completion)
    BY Types, LenProperties DEF IInv
  <2>3. ASSUME NEW f \in Fds
        PROVE  Outstanding(f) = IF m_connections[f].op = "none" THEN 0 ELSE 1
    <3>1. Unhandled(f) = {i \in 1 .. Len(cq) : HolderOf(cq[i]) = f}
      BY <2>1, <2>2, Holders DEF Unhandled
    <3>2. f \in Active <=> m_connections[f].op # "none"
      BY RingEntriesAssumption DEF Active
    <3>3. OneEach(sq, flying, cq, Active)
      BY <2>1 DEF QueuesInv
    <3>4. Cardinality({i \in 1 .. Len(sq) : sq[i].fd = f})
          + Cardinality({o \in flying : o.fd = f})
          + Cardinality({i \in 1 .. Len(cq) : HolderOf(cq[i]) = f})
            = IF f \in Active THEN 1 ELSE 0
      BY <3>3, Entries
    <3> QED BY <2>2, <3>1, <3>2, <3>4 DEF Outstanding
  <2>4. ASSUME NEW o \in Prepared \cup flying, o.kind # "accept"
        PROVE  /\ m_connections[o.fd].op = o.kind
               /\ o.buffer = BufferOf(o.fd) /\ o.buffer # NoBuffer
               /\ o.size = Region(o.kind, ring[o.buffer])
    <3>1. OpCurrent(o, m_connections, ring)
      BY <2>1, <2>2 DEF QueuesInv, Prepared
    <3> QED BY <2>4, <3>1, AcceptOp DEF OpCurrent, BufferOf
  <2>5. ASSUME NEW f \in Fds, NEW i \in Unhandled(f)
        PROVE  /\ cq[i].ud \in {TagRecv(f), TagSend(f)}
               /\ m_connections[f].op = (IF IsRecv(cq[i].ud) THEN "recv" ELSE "send")
               /\ BufferOf(f) # NoBuffer
               /\ cq[i].res <= Region(m_connections[f].op, ring[BufferOf(f)])
    <3>1. i \in 1 .. Len(cq) /\ cq[i].ud # TagAccept /\ FdOfTag(cq[i].ud) = f
      BY <2>2 DEF Unhandled
    <3>2. IsAnswer(cq[i], f, m_connections, ring)
      BY <2>1, <3>1, Holders
    <3> QED BY <3>2, Tags DEF IsAnswer, BufferOf
  <2> QED BY <2>3, <2>4, <2>5 DEF OpsAreCurrent
<1> QED BY <1>1, Invariance, PTL

(* Whatever accept returns and the callbacks answer, the server has one    *)
(* accept on its way.                                                      *)
THEOREM AcceptStaysArmed ==
    ASSUME TagsDiffer
    PROVE  Spec => []AcceptArmed
<1>1. IInv => AcceptArmed
  <2> SUFFICES ASSUME IInv, Running PROVE AcceptArmed
    BY DEF AcceptArmed
  <2>1. QueuesInv
    BY DEF IInv, Running
  <2>2. DOMAIN sq = 1 .. Len(sq) /\ DOMAIN cq = 1 .. Len(cq)
    BY Types, LenProperties DEF IInv
  <2>3. \A i \in 1 .. Len(sq) : sq[i] = Accept <=> sq[i].fd = ListenFd
    BY <2>1, AcceptOp DEF QueuesInv, OpCurrent
  <2>4. \A o \in flying : o = Accept <=> o.fd = ListenFd
    BY <2>1, AcceptOp DEF QueuesInv, OpCurrent
  <2>5. /\ {i \in DOMAIN sq : sq[i] = Accept} = {i \in 1 .. Len(sq) : sq[i].fd = ListenFd}
        /\ {op \in flying : op = Accept} = {o \in flying : o.fd = ListenFd}
        /\ {i \in DOMAIN cq : cq[i].ud = TagAccept}
            = {i \in 1 .. Len(cq) : HolderOf(cq[i]) = ListenFd}
    BY <2>1, <2>2, <2>3, <2>4, Holders
  <2>6. OneEach(sq, flying, cq, Active) /\ ListenFd \in Active
    BY <2>1 DEF QueuesInv, Active
  <2>7. Cardinality({i \in 1 .. Len(sq) : sq[i].fd = ListenFd})
        + Cardinality({o \in flying : o.fd = ListenFd})
        + Cardinality({i \in 1 .. Len(cq) : HolderOf(cq[i]) = ListenFd})
          = IF ListenFd \in Active THEN 1 ELSE 0
    BY <2>6, Entries
  <2> QED BY <2>5, <2>6, <2>7 DEF AcceptArmed
<1> QED BY <1>1, Invariance, PTL
-----------------------------------------------------------------------------
(* What a completion has moved and its connection's buffer does not show.  *)
Bytes(e) == IF e.res <= 0 THEN 0 ELSE IF IsRecv(e.ud) THEN e.res ELSE -e.res

(* Of the bytes received on the connection of f, those not sent back.      *)
Balance(f) == sock[fdOwner[f]].in - sock[fdOwner[f]].out

(* No completion of c is about the descriptor f.                           *)
NoneOf(f, c) == \A i \in 1 .. Len(c) : HolderOf(c[i]) # f

(* They are in its buffer, which holds "held", but for one completion of c.*)
Accounted(f, total, held, c) ==
    /\ NoneOf(f, c) => held = total
    /\ \A i \in 1 .. Len(c) : HolderOf(c[i]) = f => held + Bytes(c[i]) = total

(* A connection receives in state read and sends in state write.           *)
OpOfState(v) == (v.op = "recv" => v.state = "read") /\ (v.op = "send" => v.state = "write")

Accounts ==
    /\ PoolContents(m_pl, ring)
    /\ \A f \in Fds : BufferOf(f) # NoBuffer =>
                        Accounted(f, Balance(f), Held(BufferOf(f)), cq)
    /\ \A f \in Fds : (fdOwner[f] # NoClient /\ BufferOf(f) = NoBuffer) =>
                        sock[fdOwner[f]].in = 0 /\ sock[fdOwner[f]].out = 0
    /\ \A f \in Table : OpOfState(m_connections[f])

BInv ==
    /\ OneDescriptorEach
    /\ IF pc = "stopped" THEN \A f \in Table : BufferOf(f) = NoBuffer ELSE Accounts
-----------------------------------------------------------------------------
(* What happens to the completions of others does not matter.              *)
LEMMA AccountedAppend ==
    ASSUME NEW S, NEW c \in Seq(S), NEW e \in S, NEW d, d = Append(c, e),
           NEW f, HolderOf(e) # f, NEW t, NEW h, Accounted(f, t, h, c)
    PROVE  Accounted(f, t, h, d)
<1>1. PICK n \in Nat : n = Len(c)
  BY LenProperties
<1>2. Len(d) = n + 1 /\ d[n + 1] = e /\ \A i \in 1 .. n : d[i] = c[i]
  BY <1>1, AppendProperties
<1>3. /\ \A i \in 1 .. n + 1 : i \in 1 .. n \/ i = n + 1
      /\ \A i \in 1 .. n : i \in 1 .. n + 1
  BY <1>1
<1> QED BY <1>1, <1>2, <1>3 DEF Accounted, NoneOf

LEMMA AccountedTail ==
    ASSUME NEW S, NEW c \in Seq(S), c # <<>>, NEW d, d = Tail(c),
           NEW f, HolderOf(Head(c)) # f, NEW t, NEW h, Accounted(f, t, h, c)
    PROVE  Accounted(f, t, h, d)
<1>1. PICK n \in Nat : n + 1 = Len(c) /\ Len(d) = n
  <2>1. PICK l, m : l \in Nat /\ l = Len(c) /\ m = Len(d) /\ m = l - 1
    BY LenProperties, HeadTailProperties
  <2>2. l # 0
    BY <2>1, EmptySeq
  <2>3. m \in Nat /\ m + 1 = l
    BY <2>1, <2>2
  <2> QED BY <2>1, <2>3
<1>2. Head(c) = c[1] /\ \A i \in 1 .. n : d[i] = c[i + 1]
  BY <1>1, HeadTailProperties
<1>3. /\ \A i \in 1 .. n : i + 1 \in 1 .. n + 1
      /\ \A i \in 1 .. n + 1 : i = 1 \/ (i - 1 \in 1 .. n /\ (i - 1) + 1 = i)
  BY <1>1
<1>4. \A i \in 1 .. n : HolderOf(d[i]) = f => h + Bytes(d[i]) = t
  BY <1>1, <1>2, <1>3 DEF Accounted, NoneOf
<1>5. ASSUME \A i \in 1 .. n : HolderOf(d[i]) # f PROVE h = t
  <2>1. \A i \in 1 .. n + 1 : HolderOf(c[i]) # f
    <3> SUFFICES ASSUME NEW i \in 1 .. n + 1, i # 1 PROVE HolderOf(c[i]) # f
      BY <1>2
    <3>1. PICK j \in 1 .. n : j + 1 = i
      BY <1>3
    <3> QED BY <1>2, <1>5, <3>1
  <2> QED BY <1>1, <2>1 DEF Accounted, NoneOf
<1> QED BY <1>1, <1>4, <1>5 DEF Accounted, NoneOf

(* A connection without a completion is given one.                         *)
LEMMA AccountedMoved ==
    ASSUME cq \in Seq(Completion), NEW e \in Completion, cq' = Append(cq, e),
           NoneOf(HolderOf(e), cq), NEW t, NEW h, Accounted(HolderOf(e), t, h, cq)
    PROVE  h = t /\ Accounted(HolderOf(e), h + Bytes(e), h, cq')
<1>1. PICK n \in Nat : n = Len(cq)
  BY LenProperties
<1>2. Len(cq') = n + 1 /\ cq'[n + 1] = e /\ \A i \in 1 .. n : cq'[i] = cq[i]
  BY <1>1, AppendProperties
<1>3. /\ \A i \in 1 .. n + 1 : i \in 1 .. n \/ i = n + 1
      /\ n + 1 \in 1 .. n + 1
  BY <1>1
<1>4. PICK f : f = HolderOf(e)
  OBVIOUS
<1>5. h = t
  BY DEF Accounted
<1>6. ~ NoneOf(f, cq')
  BY <1>1, <1>2, <1>3, <1>4 DEF NoneOf
<1>7. \A i \in 1 .. n : HolderOf(cq'[i]) # f
  BY <1>1, <1>2, <1>4 DEF NoneOf
<1>8. \A i \in 1 .. Len(cq') : HolderOf(cq'[i]) = f => cq'[i] = e
  BY <1>2, <1>3, <1>7
<1>9. Accounted(f, h + Bytes(e), h, cq')
  BY <1>6, <1>8 DEF Accounted
<1> QED BY <1>4, <1>5, <1>9

LEMMA OthersAppend ==
    ASSUME cq \in Seq(Completion), NEW e \in Completion, cq' = Append(cq, e),
           NEW f, HolderOf(e) = f
    PROVE  \A g : g # f => \A t, h : Accounted(g, t, h, cq) => Accounted(g, t, h, cq')
<1> SUFFICES ASSUME NEW g, g # f, NEW t, NEW h, Accounted(g, t, h, cq)
             PROVE  Accounted(g, t, h, cq')
  OBVIOUS
<1>1. PICK S, c, d : S = Completion /\ c = cq /\ d = cq'
  OBVIOUS
<1>2. c \in Seq(S) /\ e \in S /\ d = Append(c, e) /\ HolderOf(e) # g /\ Accounted(g, t, h, c)
  BY <1>1
<1>3. Accounted(g, t, h, d)
  BY <1>2, AccountedAppend
<1> QED BY <1>1, <1>3

LEMMA OthersTail ==
    ASSUME cq \in Seq(Completion), cq # <<>>, cq' = Tail(cq), NEW f, HolderOf(Head(cq)) = f
    PROVE  \A g : g # f => \A t, h : Accounted(g, t, h, cq) => Accounted(g, t, h, cq')
<1> SUFFICES ASSUME NEW g, g # f, NEW t, NEW h, Accounted(g, t, h, cq)
             PROVE  Accounted(g, t, h, cq')
  OBVIOUS
<1>1. PICK S, c, d : S = Completion /\ c = cq /\ d = cq'
  OBVIOUS
<1>2. /\ c \in Seq(S) /\ c # <<>> /\ d = Tail(c) /\ HolderOf(Head(c)) # g
      /\ Accounted(g, t, h, c)
  BY <1>1
<1>3. Accounted(g, t, h, d)
  BY <1>2, AccountedTail
<1> QED BY <1>1, <1>3

(* It is handled: the buffer shows it all.                                 *)
LEMMA AccountedHandled ==
    ASSUME NEW S, NEW c \in Seq(S), c # <<>>, NEW f, HolderOf(Head(c)) = f,
           NEW t, NEW h, Accounted(f, t, h, c)
    PROVE  h + Bytes(Head(c)) = t
<1>1. Len(c) \in Nat /\ Len(c) # 0 /\ Head(c) = c[1]
  BY LenProperties, EmptySeq, HeadTailProperties
<1>2. 1 \in 1 .. Len(c)
  BY <1>1
<1> QED BY <1>1, <1>2 DEF Accounted, NoneOf

(* The accounts after a step, from what it does to one descriptor.         *)
LEMMA AccountsFrom ==
    ASSUME IInv, Accounts, NEW f,
           PoolContents(m_pl', ring'),
           \A g \in Fds : g # f => \A t, h : Accounted(g, t, h, cq) => Accounted(g, t, h, cq'),
           \A g \in Fds : g # f =>
                /\ fdOwner'[g] = fdOwner[g]
                /\ fdOwner[g] # NoClient =>
                    /\ sock'[fdOwner[g]].in = sock[fdOwner[g]].in
                    /\ sock'[fdOwner[g]].out = sock[fdOwner[g]].out
                /\ BufferOf(g) # NoBuffer => ring'[BufferOf(g)] = ring[BufferOf(g)],
           \A g \in Table : g # f => m_connections'[g] = m_connections[g],
           f \in Fds =>
                /\ BufferOf(f)' # NoBuffer =>
                    Accounted(f, Balance(f)', Held(BufferOf(f))', cq')
                /\ (fdOwner'[f] # NoClient /\ BufferOf(f)' = NoBuffer) =>
                    sock'[fdOwner'[f]].in = 0 /\ sock'[fdOwner'[f]].out = 0,
           f \in Table => OpOfState(m_connections'[f])
    PROVE  Accounts'
<1>1. ASSUME NEW g \in Fds, g # f, BufferOf(g)' # NoBuffer
      PROVE  Accounted(g, Balance(g)', Held(BufferOf(g))', cq')
  <2>1. g \in Table /\ m_connections'[g] = m_connections[g]
    BY <1>1, LoopAssumption
  <2>2. BufferOf(g)' = BufferOf(g) /\ BufferOf(g) # NoBuffer
    BY <1>1, <2>1 DEF BufferOf
  <2>3. fdOwner[g] # NoClient
    BY <2>1, <2>2 DEF IInv, PoolInv
  <2>4. Balance(g)' = Balance(g) /\ Held(BufferOf(g))' = Held(BufferOf(g))
    BY <1>1, <2>2, <2>3 DEF Balance, Held
  <2>5. Accounted(g, Balance(g), Held(BufferOf(g)), cq)
    BY <2>2 DEF Accounts
  <2> QED BY <1>1, <2>4, <2>5
<1>2. ASSUME NEW g \in Fds, g # f, fdOwner'[g] # NoClient, BufferOf(g)' = NoBuffer
      PROVE  sock'[fdOwner'[g]].in = 0 /\ sock'[fdOwner'[g]].out = 0
  <2>1. g \in Table /\ m_connections'[g] = m_connections[g]
    BY <1>2, LoopAssumption
  <2>2. fdOwner'[g] = fdOwner[g] /\ BufferOf(g) = NoBuffer
    BY <1>2, <2>1 DEF BufferOf
  <2> QED BY <1>2, <2>2 DEF Accounts
<1>3. \A g \in Table : OpOfState(m_connections'[g])
  BY DEF Accounts
<1>4. \A g \in Fds : BufferOf(g)' # NoBuffer =>
                        Accounted(g, Balance(g)', Held(BufferOf(g))', cq')
  BY <1>1
<1>5. \A g \in Fds : (fdOwner'[g] # NoClient /\ BufferOf(g)' = NoBuffer) =>
                        sock'[fdOwner'[g]].in = 0 /\ sock'[fdOwner'[g]].out = 0
  BY <1>2
<1> QED BY <1>3, <1>4, <1>5 DEF Accounts
-----------------------------------------------------------------------------
(* The accounts do not see steps that neither complete nor handle anything.*)
LEMMA QuietAccounts ==
    ASSUME IInv, BInv,
           Stop \/ WaitCqe \/ AcceptCrashes \/ Halted \/ PeerActs \/ EndOfBatch \/ UNCHANGED vars
    PROVE  BInv' /\ SameBytes /\ UNCHANGED <<cq, table, fdOwner>>
           /\ \A c \in Clients : sock'[c].phase = sock[c].phase
                              \/ (sock[c].phase = "new" /\ sock'[c].phase = "queued")
<1>1. UNCHANGED <<cq, table, fdOwner>> /\ (pc' = "stopped" <=> pc = "stopped")
  <2>1. CASE Stop
    BY <2>1 DEF Stop, sockets, rings
  <2>2. CASE WaitCqe
    BY <2>2 DEF WaitCqe, sockets, rings
  <2>3. CASE AcceptCrashes
    BY <2>3 DEF AcceptCrashes, sockets, rings
  <2>4. CASE Halted \/ UNCHANGED vars
    BY <2>4 DEF Halted, vars, sockets, rings
  <2>5. CASE PeerActs
    BY <2>5 DEF PeerActs, KernelStep, PeerStep, rings
  <2>6. CASE EndOfBatch
    BY <2>6 DEF EndOfBatch, sockets
  <2> QED BY <2>1, <2>2, <2>3, <2>4, <2>5, <2>6
<1>2. /\ OneDescriptorEach' /\ SameBytes
      /\ \A c \in Clients : sock'[c].phase = sock[c].phase
                         \/ (sock[c].phase = "new" /\ sock'[c].phase = "queued")
  <2>1. CASE UNCHANGED <<sock, backlog>>
    BY <1>1, <2>1 DEF BInv, OneDescriptorEach, SameBytes
  <2>2. CASE PeerActs
    <3>1. PICK c \in Clients : PeerStep(c)
      BY <2>2 DEF PeerActs, KernelStep
    <3>2. \/ Connects(c)
          \/ (Sends(c) \/ Reads(c) \/ Closes(c) \/ Resets(c)) /\ UNCHANGED backlog
      BY <3>1 DEF PeerStep
    <3>3. /\ sock \in [Clients -> Socket] /\ backlog \in Seq(Clients)
          /\ fdOwner \in [Fds -> Clients \cup {NoClient}] /\ OneDescriptorEach
      BY Types DEF IInv, BInv
    <3>4. OneDescriptorEach' /\ SameBytes
      BY <1>1, <3>2, <3>3, ClientDescriptors
    <3>5. \A d \in Clients : sock'[d].phase = IF Connects(c) /\ d = c THEN "queued"
                                               ELSE sock[d].phase
      BY <3>2, <3>3, ClientBytes
    <3>6. Connects(c) => sock[c].phase = "new"
      BY DEF Connects
    <3> QED BY <3>4, <3>5, <3>6
  <2> QED BY <2>1, <2>2 DEF Stop, WaitCqe, AcceptCrashes, Halted, EndOfBatch, vars, sockets
<1>3. CASE pc = "stopped"
  BY <1>1, <1>2, <1>3 DEF BInv, BufferOf, table
<1>4. CASE pc # "stopped"
  <2>1. /\ m_connections' = m_connections /\ ring' = ring /\ m_pl' = m_pl /\ cq' = cq
        /\ fdOwner' = fdOwner /\ Accounts
    BY <1>1, <1>4 DEF table, BInv
  <2>2. \A g \in Fds : fdOwner[g] # NoClient => fdOwner[g] \in Clients
    BY Types DEF IInv
  <2>3. \A g \in Fds : fdOwner[g] # NoClient =>
            /\ sock'[fdOwner[g]].in = sock[fdOwner[g]].in
            /\ sock'[fdOwner[g]].out = sock[fdOwner[g]].out
    BY <1>2, <2>2 DEF SameBytes
  <2>4. PICK f : f \notin Table /\ f \notin Fds
    <3>1. -1 \notin Table /\ -1 \notin Fds
      BY SocketAssumption DEF Table
    <3> QED BY <3>1
  <2>5. PoolContents(m_pl', ring')
    BY <2>1 DEF Accounts
  <2>6. Accounts'
    BY <2>1, <2>3, <2>4, <2>5, AccountsFrom
  <2> QED BY <1>1, <1>2, <1>4, <2>6 DEF BInv
<1> QED BY <1>1, <1>2, <1>3, <1>4

(* The first of the backlog is accepted: no byte has moved on it.          *)
LEMMA AcceptAccounts ==
    ASSUME TagsDiffer, IInv, BInv, KernelStep(CompleteAccept)
    PROVE  /\ BInv' /\ SameBytes /\ UNCHANGED table
           /\ \E f \in Fds :
                /\ fdOwner[f] = NoClient /\ backlog # <<>>
                /\ fdOwner' = [fdOwner EXCEPT ![f] = Head(backlog)]
                /\ cq' = Append(cq, [ud |-> TagAccept, res |-> f])
                /\ Head(backlog) \in Clients /\ sock[Head(backlog)].phase = "queued"
                /\ \A d \in Clients : sock'[d].phase = IF d = Head(backlog) THEN "open"
                                                        ELSE sock[d].phase
<1>1. /\ UNCHANGED <<table, m_running, pc>> /\ pc # "stopped" /\ QueuesInv /\ Accounts
      /\ CompleteAccept
  BY DEF KernelStep, Running, IInv, BInv
<1>2. PICK f \in Fds : /\ f \in FreeFds /\ Complete(Accept, f)
                       /\ fdOwner' = [fdOwner EXCEPT ![f] = Head(backlog)]
  BY <1>1 DEF CompleteAccept, Lowest
<1>3. /\ backlog # <<>> /\ backlog' = Tail(backlog)
      /\ sock' = [sock EXCEPT ![Head(backlog)].phase = "open"]
  BY <1>1 DEF CompleteAccept
<1>4. PICK phase \in {"open", "closed"} : phase = "open"
  OBVIOUS
<1>5. /\ OneDescriptorEach' /\ SameBytes
      /\ Head(backlog) \in Clients /\ sock[Head(backlog)].phase = "queued"
      /\ sock[Head(backlog)].in = 0 /\ sock[Head(backlog)].out = 0
      /\ \A d \in Clients : sock'[d].phase = IF d = Head(backlog) THEN phase
                                              ELSE sock[d].phase
  <2>1. /\ OneDescriptorEach /\ sock \in [Clients -> Socket] /\ backlog \in Seq(Clients)
        /\ fdOwner \in [Fds -> Clients \cup {NoClient}]
    BY Types DEF IInv, BInv
  <2>2. /\ sock' = [sock EXCEPT ![Head(backlog)].phase = phase]
        /\ fdOwner' = IF phase = "open" THEN [fdOwner EXCEPT ![f] = Head(backlog)]
                      ELSE fdOwner
    BY <1>2, <1>3, <1>4
  <2> QED BY <1>2, <1>3, <2>1, <2>2, AcceptDescriptors
<1>6. /\ m_connections' = m_connections /\ ring' = ring /\ m_pl' = m_pl
      /\ fdOwner[f] = NoClient /\ fdOwner'[f] = Head(backlog)
      /\ \A g \in Fds : g # f => fdOwner'[g] = fdOwner[g]
  BY <1>1, <1>2, Types DEF table, FreeFds, IInv
<1>7. PICK e \in Completion : e = [ud |-> TagAccept, res |-> f] /\ cq' = Append(cq, e)
                               /\ HolderOf(e) = ListenFd
  <2>1. Accept \in flying /\ cq' = Append(cq, [ud |-> TagOf(Accept), res |-> f])
    BY <1>2 DEF Complete
  <2>2. TagOf(Accept) = TagAccept
    BY <1>1, <2>1, TagNames DEF QueuesInv
  <2>3. [ud |-> TagAccept, res |-> f] \in Completion
    BY Tags, SocketAssumption DEF Completion
  <2> QED BY <2>1, <2>2, <2>3 DEF HolderOf
<1>8. \A g \in Fds : \A t, h : Accounted(g, t, h, cq) => Accounted(g, t, h, cq')
  <2>1. cq \in Seq(Completion) /\ ListenFd \notin Fds
    BY Types, RingEntriesAssumption DEF IInv
  <2> QED BY <1>7, <2>1, OthersAppend
<1>9. BufferOf(f)' = NoBuffer
  <2>1. f \in Table
    BY LoopAssumption
  <2> QED BY <1>6, <2>1 DEF IInv, PoolInv, BufferOf
<1>10. \A g \in Fds : fdOwner[g] # NoClient => fdOwner[g] \in Clients
  BY Types DEF IInv
<1>11. \A g \in Fds : fdOwner[g] # NoClient =>
            /\ sock'[fdOwner[g]].in = sock[fdOwner[g]].in
            /\ sock'[fdOwner[g]].out = sock[fdOwner[g]].out
  BY <1>5, <1>10 DEF SameBytes
<1>12. sock'[fdOwner'[f]].in = 0 /\ sock'[fdOwner'[f]].out = 0
  BY <1>5, <1>6 DEF SameBytes
<1>13. /\ PoolContents(m_pl', ring')
       /\ \A g \in Table : OpOfState(m_connections'[g])
  BY <1>1, <1>6 DEF Accounts
<1>14. Accounts'
  <2>1. /\ \A g \in Fds : g # f =>
                /\ fdOwner'[g] = fdOwner[g]
                /\ fdOwner[g] # NoClient =>
                    /\ sock'[fdOwner[g]].in = sock[fdOwner[g]].in
                    /\ sock'[fdOwner[g]].out = sock[fdOwner[g]].out
                /\ BufferOf(g) # NoBuffer => ring'[BufferOf(g)] = ring[BufferOf(g)]
        /\ \A g \in Table : g # f => m_connections'[g] = m_connections[g]
    BY <1>6, <1>11
  <2> QED BY <1>1, <1>8, <1>9, <1>12, <1>13, <2>1, AccountsFrom
<1> QED BY <1>1, <1>2, <1>3, <1>4, <1>5, <1>6, <1>7, <1>14 DEF BInv

LEMMA AcceptFailsAccounts ==
    ASSUME TagsDiffer, IInv, BInv, KernelStep(CompleteAcceptFails)
    PROVE  /\ BInv' /\ UNCHANGED <<table, sock, fdOwner>>
           /\ cq' = Append(cq, [ud |-> TagAccept, res |-> -1])
<1>1. /\ UNCHANGED <<table, m_running, pc>> /\ pc # "stopped" /\ QueuesInv /\ Accounts
      /\ Complete(Accept, -1) /\ UNCHANGED <<sock, backlog, fdOwner>>
  BY DEF KernelStep, Running, IInv, BInv, CompleteAcceptFails
<1>2. PICK e \in Completion : e = [ud |-> TagAccept, res |-> -1] /\ cq' = Append(cq, e)
                               /\ HolderOf(e) = ListenFd
  <2>1. Accept \in flying /\ cq' = Append(cq, [ud |-> TagOf(Accept), res |-> -1])
    BY <1>1 DEF Complete
  <2>2. TagOf(Accept) = TagAccept
    BY <1>1, <2>1, TagNames DEF QueuesInv
  <2>3. TagAccept \in Nat
    BY RingEntriesAssumption, SMT DEF TagAccept
  <2>4. [ud |-> TagAccept, res |-> -1] \in Completion
    BY <2>3 DEF Completion
  <2> QED BY <2>1, <2>2, <2>4 DEF HolderOf
<1>3. \A g \in Fds : \A t, h : Accounted(g, t, h, cq) => Accounted(g, t, h, cq')
  <2>1. cq \in Seq(Completion) /\ ListenFd \notin Fds
    BY Types, RingEntriesAssumption DEF IInv
  <2> QED BY <1>2, <2>1, OthersAppend
<1>4. m_connections' = m_connections /\ ring' = ring /\ m_pl' = m_pl
  BY <1>1 DEF table
<1>5. PICK f : f \notin Table /\ f \notin Fds
  <2>1. -1 \notin Table /\ -1 \notin Fds
    BY SocketAssumption DEF Table
  <2> QED BY <2>1
<1>6. PoolContents(m_pl', ring')
  BY <1>1, <1>4 DEF Accounts
<1>7. Accounts'
  BY <1>1, <1>3, <1>4, <1>5, <1>6, AccountsFrom
<1>8. OneDescriptorEach'
  BY <1>1 DEF BInv, OneDescriptorEach
<1> QED BY <1>1, <1>2, <1>7, <1>8 DEF BInv
-----------------------------------------------------------------------------
(* What there is to work on is free, or there, in the ring.                *)
LEMMA RegionFits ==
    ASSUME NEW r \in CounterPair, Count(r.head, r.tail) <= BufferSize
    PROVE  /\ Count(r.head, r.tail) \in Nat
           /\ Region("recv", r) \in Nat /\ Region("send", r) \in Nat
           /\ Count(r.head, r.tail) + Region("recv", r) <= BufferSize
           /\ Region("send", r) <= Count(r.head, r.tail)
<1>1. PICK h \in Counter, t \in Counter : h = r.head /\ t = r.tail
  BY DEF CounterPair
<1>2. PICK k \in Nat : k = Count(h, t) /\ k <= BufferSize
  <2>1. Count(h, t) \in Counter
    BY CountCases
  <2>2. Count(h, t) \in Nat
    BY <2>1, CounterFacts DEF Counter
  <2> QED BY <1>1, <2>2
<1>3. /\ FreeSpace(h, t) \in 0 .. BufferSize
      /\ FreeRegion(h, t) \in 0 .. FreeSpace(h, t)
      /\ UsedRegion(h, t) \in 0 .. Count(h, t)
  BY <1>2, RegionBounds
<1>4. FreeSpace(h, t) = BufferSize - k /\ BufferSize \in Nat
  BY <1>2, CounterFacts DEF FreeSpace
<1>5. PICK x \in Nat, y \in Nat : /\ x = FreeRegion(h, t) /\ y = UsedRegion(h, t)
                                 /\ k + x <= BufferSize /\ y <= k
  BY <1>2, <1>3, <1>4
<1>6. Region("recv", r) = x /\ Region("send", r) = y
  BY <1>1, <1>5 DEF Region
<1> QED BY <1>1, <1>2, <1>5, <1>6

(* The ring of a connection holds no more than there is room for.          *)
LEMMA RingOf ==
    ASSUME IInv, Accounts, NEW f \in Table, BufferOf(f) # NoBuffer
    PROVE  /\ f \in Fds /\ fdOwner[f] \in Clients /\ fdOwner[f] # NoClient
           /\ BufferOf(f) \in 1 .. Len(ring) /\ ring[BufferOf(f)] \in CounterPair
           /\ Held(BufferOf(f)) = Count(ring[BufferOf(f)].head, ring[BufferOf(f)].tail)
           /\ Held(BufferOf(f)) \in Nat /\ Held(BufferOf(f)) <= BufferSize
           /\ \A i \in 1 .. Len(m_pl) : m_pl[i] \in 1 .. Len(ring) /\ m_pl[i] # BufferOf(f)
<1>1. PICK b : b = BufferOf(f)
  OBVIOUS
<1>2. /\ f \in Fds /\ fdOwner[f] \in Clients /\ fdOwner[f] # NoClient
      /\ b \in 1 .. Len(ring) /\ ring[b] \in CounterPair
  BY <1>1, Entry
<1>3. Held(b) = Count(ring[b].head, ring[b].tail) /\ Held(b) <= BufferSize
  BY <1>2 DEF Accounts, PoolContents, Held
<1>4. Count(ring[b].head, ring[b].tail) \in Nat
  BY <1>2, <1>3, RegionFits
<1>5. \A i \in 1 .. Len(m_pl) : m_pl[i] \in 1 .. Len(ring) /\ m_pl[i] # b
  <2>1. BufferTable[f] = b
    BY <1>1 DEF BufferTable
  <2> QED BY <2>1 DEF IInv, PoolInv, Conserved
<1> QED BY <1>1, <1>2, <1>3, <1>4, <1>5

(* What the kernel moves on a connection: x bytes in, y bytes out.         *)
Moves(f, x, y) ==
    LET c == fdOwner[f]
    IN  /\ sock'[c].in = sock[c].in + x /\ sock'[c].out = sock[c].out + y
        /\ x # 0 => /\ y = 0 /\ m_connections[f].state = "read"
                    /\ Balance(f) + x <= BufferSize
        /\ y # 0 => x = 0 /\ m_connections[f].state = "write" /\ y <= Balance(f)
        /\ \A d \in Clients : /\ sock'[d].phase = sock[d].phase
                              /\ d # c => /\ sock'[d].in = sock[d].in
                                          /\ sock'[d].out = sock[d].out

(* It says so in the completion.                                           *)
LEMMA KernelBytes ==
    ASSUME TagsDiffer, IInv, BInv, NEW f \in Fds, KernelStep(KernelMove(f))
    PROVE  /\ UNCHANGED <<table, fdOwner, backlog>> /\ pc' = pc /\ pc # "stopped"
           /\ BufferOf(f) # NoBuffer /\ fdOwner[f] \in Clients
           /\ NoneOf(f, cq)
           /\ Balance(f) = Held(BufferOf(f))
           /\ \E x, y \in Nat : \E e \in Completion :
                /\ Moves(f, x, y) /\ cq' = Append(cq, e)
                /\ HolderOf(e) = f /\ e.ud # TagAccept /\ Bytes(e) = x - y
<1>1. /\ UNCHANGED <<table, m_running, pc>> /\ pc # "stopped" /\ QueuesInv /\ Accounts
  BY DEF KernelStep, Running, IInv, BInv
<1>2. PICK o \in flying : o.fd = f /\ (CompleteRecv(o) \/ CompleteSend(o))
  BY DEF KernelStep, KernelMove
<1>3. o.kind \in {"recv", "send"} /\ o # Accept /\ UNCHANGED <<backlog, fdOwner>>
  BY <1>2 DEF CompleteRecv, CompleteSend, Accept
<1>4. /\ m_connections[f].op = o.kind /\ m_connections[f].buffer # NoBuffer
      /\ o.size = Region(o.kind, ring[m_connections[f].buffer])
      /\ OpCurrent(o, m_connections, ring)
  BY <1>1, <1>2, <1>3 DEF QueuesInv, OpCurrent
<1>5. f \in Table /\ BufferOf(f) # NoBuffer
  BY <1>4, LoopAssumption DEF BufferOf
<1>6. PICK b, c : b = BufferOf(f) /\ c = fdOwner[f]
  OBVIOUS
<1>7. /\ c \in Clients /\ b \in 1 .. Len(ring) /\ ring[b] \in CounterPair
      /\ Held(b) = Count(ring[b].head, ring[b].tail)
      /\ Held(b) \in Nat /\ Held(b) <= BufferSize
  BY <1>1, <1>5, <1>6, RingOf
<1>8. /\ NoneOf(f, cq)
      /\ Balance(f) = Held(b)
  <2>1. NoneOf(f, cq)
    BY <1>1, <1>2 DEF QueuesInv, OneEach, NoneOf
  <2>2. Accounted(f, Balance(f), Held(b), cq)
    BY <1>1, <1>5, <1>6 DEF Accounts
  <2> QED BY <2>1, <2>2 DEF Accounted, NoneOf
<1>9. OpOfState(m_connections[f])
  BY <1>1, <1>5 DEF Accounts
<1>10. /\ o.size \in Nat
       /\ o.kind = "recv" => m_connections[f].state = "read" /\ Held(b) + o.size <= BufferSize
       /\ o.kind = "send" => m_connections[f].state = "write" /\ o.size <= Held(b)
  <2>1. /\ Region("recv", ring[b]) \in Nat /\ Region("send", ring[b]) \in Nat
        /\ Held(b) + Region("recv", ring[b]) <= BufferSize
        /\ Region("send", ring[b]) <= Held(b)
    BY <1>7, RegionFits
  <2>2. o.size = Region(o.kind, ring[b])
    BY <1>4, <1>6 DEF BufferOf
  <2> QED BY <1>3, <1>4, <1>9, <2>1, <2>2 DEF OpOfState
<1>11. sock \in [Clients -> Socket] /\ sock[c] \in Socket
  BY <1>7, Types DEF IInv
<1>12. BufferSize \in Nat
  BY CounterFacts
<1>13. ASSUME NEW n \in Int, Complete(o, n), NEW x \in Nat, NEW y \in Nat, Moves(f, x, y),
              o.kind = "recv" => x = (IF n <= 0 THEN 0 ELSE n) /\ y = 0,
              o.kind = "send" => y = (IF n <= 0 THEN 0 ELSE n) /\ x = 0
       PROVE  \E e \in Completion :
                /\ Moves(f, x, y) /\ cq' = Append(cq, e)
                /\ HolderOf(e) = f /\ e.ud # TagAccept /\ Bytes(e) = x - y
  <2>1. \/ o.kind = "recv" /\ TagOf(o) = TagRecv(f)
        \/ o.kind = "send" /\ TagOf(o) = TagSend(f)
    BY <1>2, <1>3, <1>4, TagNames
  <2>2. TagOf(o) \in Nat /\ TagOf(o) # TagAccept /\ FdOfTag(TagOf(o)) = f
    BY <2>1, Tags
  <2>3. PICK e \in Completion : e = [ud |-> TagOf(o), res |-> n]
    BY <2>2 DEF Completion
  <2>4. cq' = Append(cq, e)
    BY <1>13, <2>3 DEF Complete
  <2>5. HolderOf(e) = f /\ e.ud # TagAccept /\ e.ud = TagOf(o) /\ e.res = n
    BY <2>2, <2>3 DEF HolderOf
  <2>6. Bytes(e) = x - y
    <3>1. CASE o.kind = "recv"
      <4>1. IsRecv(e.ud)
        BY <2>1, <2>5, <3>1, Tags
      <4>2. Bytes(e) = IF n <= 0 THEN 0 ELSE n
        BY <2>5, <4>1 DEF Bytes
      <4> QED BY <1>13, <3>1, <4>2
    <3>2. CASE o.kind = "send"
      <4>1. ~IsRecv(e.ud)
        BY <2>1, <2>5, <3>2, Tags
      <4>2. Bytes(e) = IF n <= 0 THEN 0 ELSE -n
        BY <2>5, <4>1 DEF Bytes
      <4> QED BY <1>13, <3>2, <4>2
    <3> QED BY <1>3, <3>1, <3>2
  <2> QED BY <1>13, <2>4, <2>5, <2>6
<1>14. ASSUME UNCHANGED sock PROVE Moves(f, 0, 0)
  <2>1. sock[c].in \in Nat /\ sock[c].out \in Nat
    BY <1>11, SocketCounts
  <2>2. sock[c].in = sock[c].in + 0 /\ sock[c].out = sock[c].out + 0
    BY <2>1
  <2> QED BY <1>6, <1>14, <2>2 DEF Moves
<1>15. \E x, y \in Nat : \E e \in Completion :
          /\ Moves(f, x, y) /\ cq' = Append(cq, e)
          /\ HolderOf(e) = f /\ e.ud # TagAccept /\ Bytes(e) = x - y
  <2>1. CASE CompleteRecv(o) /\ sock[c].rx > 0
    <3>1. PICK n \in Nat : /\ n = (IF o.size < sock[c].rx THEN o.size ELSE sock[c].rx)
                           /\ n <= o.size
      BY <1>10, <1>11, SocketCounts
    <3>2. /\ Complete(o, n) /\ o.kind = "recv"
          /\ sock' = [sock EXCEPT ![c].rx = @ - n, ![c].in = @ + n]
      BY <1>2, <1>6, <2>1, <3>1 DEF CompleteRecv
    <3>3. PICK v : v = [sock[c] EXCEPT !.rx = sock[c].rx - n, !.in = sock[c].in + n]
      OBVIOUS
    <3>4. sock' = [sock EXCEPT ![c] = v] /\ v.in = sock[c].in + n /\ v.out = sock[c].out
          /\ v.phase = sock[c].phase
      BY <1>11, <3>2, <3>3 DEF Socket
    <3>5. /\ sock'[c] = v /\ \A d \in Clients : d # c => sock'[d] = sock[d]
      BY <1>7, <1>11, <3>4
    <3>6. sock[c].out = sock[c].out + 0 /\ Held(b) + n <= BufferSize
      <4>1. sock[c].out \in Nat
        BY <1>11, SocketCounts
      <4>2. PICK k \in Nat, l \in Nat : k = Held(b) /\ l = o.size
        BY <1>7, <1>10
      <4>3. k + l <= BufferSize /\ n <= l
        BY <1>10, <3>1, <3>2, <4>2
      <4>4. k + n <= BufferSize
        BY <1>12, <4>3
      <4> QED BY <4>1, <4>2, <4>4
    <3>7. Moves(f, n, 0)
      BY <1>6, <1>8, <1>10, <3>2, <3>4, <3>5, <3>6 DEF Moves
    <3>8. n = IF n <= 0 THEN 0 ELSE n
      BY <3>1
    <3> QED BY <1>13, <3>2, <3>7, <3>8
  <2>2. CASE CompleteRecv(o) /\ ~(sock[c].rx > 0)
    <3>1. (Complete(o, 0) \/ Complete(o, -1)) /\ UNCHANGED sock
      BY <1>2, <1>6, <2>2 DEF CompleteRecv
    <3> QED BY <1>13, <1>14, <3>1
  <2>3. CASE CompleteSend(o) /\ ~SendBroken(c)
    <3>1. sock[c].tx \in 0 .. SendRoom /\ SendRoom \in Nat
      BY <1>11, SocketCounts
    <3>2. PICK n \in Nat : /\ n = (IF o.size < SendRoom - sock[c].tx THEN o.size
                                   ELSE SendRoom - sock[c].tx)
                           /\ n <= o.size
      BY <1>10, <3>1
    <3>3. /\ Complete(o, n) /\ o.kind = "send"
          /\ sock' = [sock EXCEPT ![c].tx = @ + n, ![c].out = @ + n]
      BY <1>2, <1>6, <2>3, <3>2 DEF CompleteSend
    <3>4. PICK v : v = [sock[c] EXCEPT !.tx = sock[c].tx + n, !.out = sock[c].out + n]
      OBVIOUS
    <3>5. sock' = [sock EXCEPT ![c] = v] /\ v.out = sock[c].out + n /\ v.in = sock[c].in
          /\ v.phase = sock[c].phase
      BY <1>11, <3>3, <3>4 DEF Socket
    <3>6. /\ sock'[c] = v /\ \A d \in Clients : d # c => sock'[d] = sock[d]
      BY <1>7, <1>11, <3>5
    <3>7. sock[c].in = sock[c].in + 0 /\ n <= Held(b)
      <4>1. sock[c].in \in Nat
        BY <1>11, SocketCounts
      <4>2. PICK k \in Nat, l \in Nat : k = Held(b) /\ l = o.size
        BY <1>7, <1>10
      <4>3. l <= k /\ n <= l
        BY <1>10, <3>2, <3>3, <4>2
      <4>4. n <= k
        BY <4>3
      <4> QED BY <4>1, <4>2, <4>4
    <3>8. Moves(f, 0, n)
      BY <1>6, <1>8, <1>10, <3>3, <3>5, <3>6, <3>7 DEF Moves
    <3>9. n = IF n <= 0 THEN 0 ELSE n
      BY <3>2
    <3> QED BY <1>13, <3>3, <3>8, <3>9
  <2>4. CASE CompleteSend(o) /\ SendBroken(c)
    <3>1. Complete(o, -1) /\ UNCHANGED sock
      BY <1>2, <1>6, <2>4 DEF CompleteSend
    <3> QED BY <1>13, <1>14, <3>1
  <2> QED BY <1>2, <2>1, <2>2, <2>3, <2>4
<1> QED BY <1>1, <1>3, <1>5, <1>6, <1>7, <1>8, <1>15

LEMMA MoveAccounts ==
    ASSUME TagsDiffer, IInv, BInv, NEW f \in Fds, KernelStep(KernelMove(f))
    PROVE  BInv'
<1>1. /\ m_connections' = m_connections /\ ring' = ring /\ m_pl' = m_pl
      /\ fdOwner' = fdOwner /\ backlog' = backlog
      /\ pc' = pc /\ pc # "stopped" /\ Accounts /\ OneDescriptorEach
      /\ BufferOf(f) # NoBuffer /\ fdOwner[f] \in Clients
      /\ NoneOf(f, cq)
  BY KernelBytes DEF table, BInv
<1>2. PICK x \in Nat, y \in Nat, e \in Completion :
                /\ Moves(f, x, y) /\ cq' = Append(cq, e)
                /\ HolderOf(e) = f /\ Bytes(e) = x - y
  BY KernelBytes
<1>3. PICK c \in Clients : c = fdOwner[f]
  BY <1>1
<1>4. /\ sock'[c].in = sock[c].in + x /\ sock'[c].out = sock[c].out + y
      /\ \A d \in Clients : /\ sock'[d].phase = sock[d].phase
                            /\ d # c => /\ sock'[d].in = sock[d].in
                                        /\ sock'[d].out = sock[d].out
  BY <1>2, <1>3 DEF Moves
<1>5. /\ sock \in [Clients -> Socket] /\ backlog \in Seq(Clients)
      /\ fdOwner \in [Fds -> Clients \cup {NoClient}] /\ cq \in Seq(Completion)
      /\ NoClient \notin Clients
  BY Types, SocketAssumption DEF IInv
<1>6. OneDescriptorEach'
  <2>1. sock[c].phase = "open"
    BY <1>1, <1>3, <1>5 DEF OneDescriptorEach
  <2> QED BY <1>1, <1>4, <1>5, <2>1, DescriptorsKept
<1>7. \A g \in Fds : g # f /\ fdOwner[g] # NoClient =>
            fdOwner[g] \in Clients /\ fdOwner[g] # c
  BY <1>1, <1>3, <1>5 DEF OneDescriptorEach
<1>8. \A g : g # f => \A t, h : Accounted(g, t, h, cq) => Accounted(g, t, h, cq')
  BY <1>2, <1>5, OthersAppend
<1>9. Accounted(f, Balance(f)', Held(BufferOf(f))', cq')
  <2>1. Held(BufferOf(f))' = Held(BufferOf(f))
    BY <1>1 DEF Held, BufferOf
  <2>2. Balance(f)' = Balance(f) + Bytes(e)
    <3>1. /\ sock[c].in \in Nat /\ sock[c].out \in Nat
      BY <1>5, SocketCounts
    <3>2. /\ Balance(f) = sock[c].in - sock[c].out
          /\ Balance(f)' = (sock[c].in + x) - (sock[c].out + y)
      BY <1>1, <1>3, <1>4 DEF Balance
    <3>3. PICK i \in Nat, j \in Nat : i = sock[c].in /\ j = sock[c].out
      BY <3>1
    <3>4. (i + x) - (j + y) = (i - j) + (x - y)
      OBVIOUS
    <3> QED BY <1>2, <3>2, <3>3, <3>4
  <2>3. PICK t, h : t = Balance(f) /\ h = Held(BufferOf(f))
    OBVIOUS
  <2>4. Accounted(f, t, h, cq)
    BY <1>1, <2>3 DEF Accounts
  <2>5. h = t /\ Accounted(f, h + Bytes(e), h, cq')
    <3>1. h = t /\ Accounted(HolderOf(e), h + Bytes(e), h, cq')
      BY <1>1, <1>2, <1>5, <2>4, AccountedMoved
    <3> QED BY <1>2, <3>1
  <2>6. h + Bytes(e) = Balance(f)' /\ h = Held(BufferOf(f))'
    BY <2>1, <2>2, <2>3, <2>5
  <2> QED BY <2>5, <2>6
<1>10. BufferOf(f)' # NoBuffer /\ PoolContents(m_pl', ring')
       /\ \A g \in Table : OpOfState(m_connections'[g])
  BY <1>1 DEF BufferOf, Accounts
<1>11. Accounts'
  <2>1. \A g \in Fds : g # f =>
                /\ fdOwner'[g] = fdOwner[g]
                /\ fdOwner[g] # NoClient =>
                    /\ sock'[fdOwner[g]].in = sock[fdOwner[g]].in
                    /\ sock'[fdOwner[g]].out = sock[fdOwner[g]].out
                /\ BufferOf(g) # NoBuffer => ring'[BufferOf(g)] = ring[BufferOf(g)]
    BY <1>1, <1>4, <1>7
  <2> QED BY <1>1, <1>8, <1>9, <1>10, <2>1, AccountsFrom
<1> QED BY <1>1, <1>6, <1>11 DEF BInv
-----------------------------------------------------------------------------
(* The completion of a connection, as it is handled: what it moved is what *)
(* the buffer lacks, and fits into it, or is there.                        *)
LEMMA HandledBytes ==
    ASSUME TagsDiffer, IInv, BInv, NEW e, e = Head(cq), Handling(e), e.ud # TagAccept,
           NEW f, f = FdOfTag(e.ud)
    PROVE  /\ pc = "batch" /\ Accounts /\ f \in Fds /\ f \in Table /\ HolderOf(e) = f
           /\ BufferOf(f) # NoBuffer
           /\ Held(BufferOf(f)) \in Nat /\ Bytes(e) \in Int
           /\ Held(BufferOf(f)) + Bytes(e) = Balance(f)
           /\ NoneOf(f, cq')
           /\ \A g : g # f => \A t, h : Accounted(g, t, h, cq) => Accounted(g, t, h, cq')
           /\ (~Ended(e) /\ IsRecv(e.ud)) =>
                /\ e.res \in Nat \ {0} /\ Held(BufferOf(f)) + e.res <= BufferSize
                /\ m_connections[f].state = "read" /\ Bytes(e) = e.res
           /\ (~Ended(e) /\ IsSend(e.ud)) =>
                /\ e.res \in Nat \ {0} /\ e.res <= Held(BufferOf(f))
                /\ m_connections[f].state = "write" /\ Bytes(e) = -e.res
<1>1. /\ QueuesInv /\ pc = "batch" /\ e \in Completion /\ cq' = Tail(cq) /\ cq # <<>>
      /\ OneEach(sq, flying, cq', Active \ {HolderOf(e)})
  <2>1. QueuesInv /\ pc = "batch" /\ e \in Completion
    BY HeadHandled
  <2>2. OneEach(sq, flying, cq', Active \ {HolderOf(e)})
    BY HeadHandled
  <2> QED BY <2>1, <2>2 DEF Handling
<1>2. /\ f \in Fds /\ f \in Table /\ HolderOf(e) = f /\ IsAnswer(e, f, m_connections, ring)
      /\ IsRecv(e.ud) => m_connections[f].op = "recv"
      /\ IsSend(e.ud) => m_connections[f].op = "send"
      /\ BufferOf(f) # NoBuffer
  BY HeadOfConnection
<1>3. Accounts /\ cq \in Seq(Completion)
  BY <1>1, Types DEF BInv, IInv
<1>4. PICK b : b = BufferOf(f)
  OBVIOUS
<1>5. /\ ring[b] \in CounterPair /\ Held(b) = Count(ring[b].head, ring[b].tail)
      /\ Held(b) \in Nat /\ Held(b) <= BufferSize
  BY <1>2, <1>3, <1>4, RingOf
<1>6. Held(b) + Bytes(e) = Balance(f)
  <2>1. PICK t, h, S, c : /\ t = Balance(f) /\ h = Held(b) /\ S = Completion /\ c = cq
    OBVIOUS
  <2>2. Accounted(f, t, h, c) /\ c \in Seq(S) /\ c # <<>> /\ HolderOf(Head(c)) = f
    BY <1>1, <1>2, <1>3, <1>4, <2>1 DEF Accounts
  <2>3. h + Bytes(Head(c)) = t
    BY <2>2, AccountedHandled
  <2> QED BY <2>1, <2>3
<1>7. NoneOf(f, cq')
  BY <1>1, <1>2 DEF OneEach, NoneOf
<1>8. \A g : g # f => \A t, h : Accounted(g, t, h, cq) => Accounted(g, t, h, cq')
  BY <1>1, <1>2, <1>3, OthersTail
<1>9. e.res \in Int /\ Bytes(e) \in Int
  BY <1>1 DEF Completion, Bytes
<1>10. OpOfState(m_connections[f])
  BY <1>2, <1>3 DEF Accounts
<1>11. /\ Region("recv", ring[b]) \in Nat /\ Region("send", ring[b]) \in Nat
       /\ Held(b) + Region("recv", ring[b]) <= BufferSize
       /\ Region("send", ring[b]) <= Held(b)
  BY <1>5, RegionFits
<1>12. PICK k \in Nat, x \in Nat, y \in Nat, n \in Int :
          /\ k = Held(b) /\ x = Region("recv", ring[b]) /\ y = Region("send", ring[b])
          /\ n = e.res /\ k + x <= BufferSize /\ y <= k
  BY <1>5, <1>9, <1>11
<1>13. n <= Region(m_connections[f].op, ring[b])
  BY <1>2, <1>4, <1>12 DEF IsAnswer, BufferOf
<1>14. BufferSize \in Nat
  BY CounterFacts
<1>15. ASSUME ~Ended(e), IsRecv(e.ud)
       PROVE  /\ e.res \in Nat \ {0} /\ Held(b) + e.res <= BufferSize
              /\ m_connections[f].state = "read" /\ Bytes(e) = e.res
  <2>1. ~(n <= 0)
    BY <1>12, <1>15 DEF Ended
  <2>2. n <= x
    BY <1>2, <1>12, <1>13, <1>15
  <2>3. n \in Nat \ {0} /\ k + n <= BufferSize
    BY <1>12, <1>14, <2>1, <2>2
  <2>4. m_connections[f].state = "read" /\ Bytes(e) = e.res
    BY <1>2, <1>10, <1>12, <1>15, <2>1 DEF OpOfState, Bytes
  <2> QED BY <1>12, <2>3, <2>4
<1>16. ASSUME ~Ended(e), IsSend(e.ud)
       PROVE  /\ e.res \in Nat \ {0} /\ e.res <= Held(b)
              /\ m_connections[f].state = "write" /\ Bytes(e) = -e.res
  <2>1. ~(n <= 0)
    BY <1>12, <1>16 DEF Ended
  <2>2. n <= y
    BY <1>2, <1>12, <1>13, <1>16
  <2>3. n \in Nat \ {0} /\ n <= k
    BY <1>12, <2>1, <2>2
  <2>4. ~IsRecv(e.ud)
    BY <1>16 DEF IsRecv, IsSend
  <2>5. m_connections[f].state = "write" /\ Bytes(e) = -e.res
    BY <1>2, <1>10, <1>12, <1>16, <2>1, <2>4 DEF OpOfState, Bytes
  <2> QED BY <1>12, <2>3, <2>5
<1> QED BY <1>1, <1>2, <1>3, <1>4, <1>5, <1>6, <1>7, <1>8, <1>9, <1>15, <1>16

(* A connection ends, with what its buffer holds.                          *)
LEMMA RemoveAccounts ==
    ASSUME TagsDiffer, IInv, BInv, NEW e, e = Head(cq), Handling(e), e.ud # TagAccept,
           NEW f, f = FdOfTag(e.ud), RemoveConnection(f), UNCHANGED <<sq, pc>>
    PROVE  /\ BInv' /\ SameBytes /\ fdOwner' = [fdOwner EXCEPT ![f] = NoClient]
           /\ \A g \in Table : g # f => m_connections'[g] = m_connections[g]
           /\ \A d \in Clients : sock'[d].phase = IF d = fdOwner[f] THEN "closed"
                                                  ELSE sock[d].phase
<1>1. /\ pc = "batch" /\ Accounts /\ f \in Fds /\ f \in Table /\ BufferOf(f) # NoBuffer
      /\ \A g : g # f => \A t, h : Accounted(g, t, h, cq) => Accounted(g, t, h, cq')
  BY HandledBytes
<1>2. PICK b : b = BufferOf(f)
  OBVIOUS
<1>3. /\ b \in 1 .. Len(ring) /\ fdOwner[f] \in Clients /\ fdOwner[f] # NoClient
      /\ \A g \in Table : g # f => BufferOf(g) # b
  BY <1>1, <1>2, Entry, RingOf
<1>4. /\ m_pl' = Append(m_pl, b) /\ ring' = [ring EXCEPT ![b] = EmptyRing]
      /\ m_connections' = [m_connections EXCEPT ![f].buffer = NoBuffer, ![f].op = "none"]
      /\ Close(f) /\ backlog' = backlog
  BY <1>1, <1>2 DEF RemoveConnection, Redeem, AfterReset, Handling
<1>5. /\ sock' = [sock EXCEPT ![fdOwner[f]].phase = "closed"]
      /\ fdOwner' = [fdOwner EXCEPT ![f] = NoClient]
  BY <1>1, <1>3, <1>4 DEF Close, FreeFds
<1>6. /\ sock \in [Clients -> Socket] /\ backlog \in Seq(Clients)
      /\ fdOwner \in [Fds -> Clients \cup {NoClient}] /\ OneDescriptorEach
      /\ ring \in Seq(CounterPair) /\ m_pl \in Seq(1 .. Len(ring))
      /\ m_connections \in [Table -> ConnectionType(Len(ring))]
  BY Types DEF IInv, BInv
<1>7. /\ OneDescriptorEach' /\ SameBytes
      /\ \A d \in Clients : sock'[d].phase = IF d = fdOwner[f] THEN "closed"
                                             ELSE sock[d].phase
  BY <1>1, <1>3, <1>4, <1>5, <1>6, CloseDescriptors
<1>8. /\ \A d \in 1 .. Len(ring) : d # b => ring'[d] = ring[d]
      /\ PoolContents(m_pl', ring')
  <2>1. PICK s, p : s = ring' /\ p = m_pl'
    OBVIOUS
  <2>2. s = [ring EXCEPT ![b] = EmptyRing] /\ p = Append(m_pl, b)
    BY <1>4, <2>1
  <2>3. \A d \in 1 .. Len(ring) : d # b => s[d] = ring[d]
    BY <1>3, <1>6, <2>2, RingEmptied
  <2>4. PoolContents(m_pl, ring)
    BY <1>1 DEF Accounts
  <2>5. PoolContents(p, s)
    BY <1>3, <1>6, <2>2, <2>4, ContentsRedeemed
  <2> QED BY <2>1, <2>3, <2>5
<1>9. /\ m_connections'[f].buffer = NoBuffer /\ m_connections'[f].op = "none"
      /\ \A g \in Table : g # f => m_connections'[g] = m_connections[g]
  <2>1. PICK r : r = [m_connections[f] EXCEPT !.buffer = NoBuffer, !.op = "none"]
    OBVIOUS
  <2>2. m_connections' = [m_connections EXCEPT ![f] = r]
    BY <1>4, <2>1
  <2>3. r.buffer = NoBuffer /\ r.op = "none"
    BY <1>1, <1>6, <2>1 DEF ConnectionType
  <2> QED BY <1>1, <1>6, <2>2, <2>3
<1>10. \A g \in Fds : g # f =>
            /\ fdOwner'[g] = fdOwner[g]
            /\ fdOwner[g] # NoClient =>
                /\ sock'[fdOwner[g]].in = sock[fdOwner[g]].in
                /\ sock'[fdOwner[g]].out = sock[fdOwner[g]].out
            /\ BufferOf(g) # NoBuffer => ring'[BufferOf(g)] = ring[BufferOf(g)]
  <2> SUFFICES ASSUME NEW g \in Fds, g # f
               PROVE  /\ fdOwner'[g] = fdOwner[g]
                      /\ fdOwner[g] # NoClient =>
                          /\ sock'[fdOwner[g]].in = sock[fdOwner[g]].in
                          /\ sock'[fdOwner[g]].out = sock[fdOwner[g]].out
                      /\ BufferOf(g) # NoBuffer => ring'[BufferOf(g)] = ring[BufferOf(g)]
    OBVIOUS
  <2>1. g \in Table
    BY LoopAssumption
  <2>2. BufferOf(g) # NoBuffer => BufferOf(g) \in 1 .. Len(ring) /\ BufferOf(g) # b
    BY <1>3, <2>1, Entry
  <2>3. fdOwner[g] # NoClient => fdOwner[g] \in Clients
    BY <1>6
  <2> QED BY <1>5, <1>6, <1>7, <1>8, <2>2, <2>3 DEF SameBytes
<1>11. BufferOf(f)' = NoBuffer /\ fdOwner'[f] = NoClient /\ OpOfState(m_connections'[f])
  BY <1>1, <1>5, <1>6, <1>9 DEF BufferOf, OpOfState
<1>12. Accounts'
  BY <1>1, <1>8, <1>9, <1>10, <1>11, AccountsFrom
<1> QED BY <1>1, <1>5, <1>7, <1>9, <1>12 DEF BInv

(* A connection goes on, and its buffer holds what it has to.              *)
LEMMA GoOnAccounts ==
    ASSUME TagsDiffer, IInv, BInv, NEW e, e = Head(cq), Handling(e), e.ud # TagAccept,
           NEW f, f = FdOfTag(e.ud), NEW state \in States \ {"die"},
           NEW r \in CounterPair, GoOn(f, state, r), UNCHANGED pc,
           Count(r.head, r.tail) = Balance(f), Balance(f) <= BufferSize
    PROVE  /\ BInv' /\ UNCHANGED <<sock, fdOwner>>
           /\ \A g \in Table : g # f => m_connections'[g] = m_connections[g]
           /\ m_connections'[f].state = IF state = "idle" THEN m_connections[f].state
                                        ELSE state
<1>1. /\ pc = "batch" /\ Accounts /\ f \in Fds /\ f \in Table /\ BufferOf(f) # NoBuffer
      /\ NoneOf(f, cq')
      /\ \A g : g # f => \A t, h : Accounted(g, t, h, cq) => Accounted(g, t, h, cq')
  BY HandledBytes
<1>2. PICK b : b = BufferOf(f)
  OBVIOUS
<1>3. /\ b \in 1 .. Len(ring)
      /\ \A i \in 1 .. Len(m_pl) : m_pl[i] \in 1 .. Len(ring) /\ m_pl[i] # b
      /\ \A g \in Table : g # f => BufferOf(g) # b
  BY <1>1, <1>2, Entry, RingOf
<1>4. PICK op, s : op = OpAfter(Wanted(state), r)
                   /\ s = IF state = "idle" THEN m_connections[f].state ELSE state
  OBVIOUS
<1>5. /\ m_connections' = [m_connections EXCEPT ![f].state = s, ![f].op = op]
      /\ ring' = [ring EXCEPT ![b] = r]
      /\ m_pl' = m_pl /\ UNCHANGED <<sock, fdOwner, backlog>>
  BY <1>2, <1>4 DEF GoOn, Handling
<1>6. /\ ring \in Seq(CounterPair)
      /\ m_connections \in [Table -> ConnectionType(Len(ring))]
  BY Types DEF IInv
<1>7. /\ m_connections'[f].buffer = b /\ m_connections'[f].op = op
      /\ m_connections'[f].state = s
      /\ \A g \in Table : g # f => m_connections'[g] = m_connections[g]
  <2>1. PICK v : v = [m_connections[f] EXCEPT !.state = s, !.op = op]
    OBVIOUS
  <2>2. m_connections' = [m_connections EXCEPT ![f] = v]
    BY <1>5, <2>1
  <2>3. v.buffer = b /\ v.op = op /\ v.state = s
    BY <1>1, <1>2, <1>6, <2>1 DEF ConnectionType, BufferOf
  <2> QED BY <1>1, <1>6, <2>2, <2>3
<1>8. OpOfState(m_connections'[f])
  <2>1. /\ op = "recv" => Wanted(state) = "recv"
        /\ op = "send" => Wanted(state) = "send"
    BY <1>4 DEF OpAfter
  <2>2. /\ op = "recv" => state = "read"
        /\ op = "send" => state = "write"
    BY <2>1 DEF Wanted
  <2> QED BY <1>4, <1>7, <2>2 DEF OpOfState
<1>9. /\ Len(ring') = Len(ring) /\ ring'[b] = r
      /\ \A d \in 1 .. Len(ring) : d # b => ring'[d] = ring[d]
  <2>1. PICK q : q = ring'
    OBVIOUS
  <2>2. q = [ring EXCEPT ![b] = r]
    BY <1>5, <2>1
  <2>3. Len(q) = Len(ring) /\ q[b] = r /\ \A d \in 1 .. Len(ring) : d # b => q[d] = ring[d]
    BY <1>3, <1>6, <2>2, OneRing
  <2> QED BY <2>1, <2>3
<1>10. PoolContents(m_pl', ring')
  <2>1. PICK q, pl, w : q = ring' /\ pl = m_pl /\ w = ring
    OBVIOUS
  <2>2. /\ PoolContents(pl, w) /\ Len(q) = Len(w)
        /\ \A d \in 1 .. Len(w) : d # b => q[d] = w[d]
        /\ \A i \in 1 .. Len(pl) : pl[i] \in 1 .. Len(w) /\ pl[i] # b
        /\ q[b] = r
    BY <1>1, <1>3, <1>9, <2>1 DEF Accounts
  <2>3. Count(q[b].head, q[b].tail) <= BufferSize
    BY <2>2
  <2>4. PoolContents(pl, q)
    BY <2>2, <2>3, ContentsMoved
  <2> QED BY <1>5, <2>1, <2>4
<1>11. Accounted(f, Balance(f)', Held(BufferOf(f))', cq')
  <2>1. Balance(f)' = Balance(f)
    BY <1>5 DEF Balance
  <2>2. BufferOf(f)' = b
    BY <1>7 DEF BufferOf
  <2>3. Held(BufferOf(f))' = Balance(f)
    BY <1>9, <2>2 DEF Held
  <2>4. \A t : Accounted(f, t, t, cq')
    BY <1>1 DEF Accounted, NoneOf
  <2> QED BY <2>1, <2>3, <2>4
<1>12. BufferOf(f)' # NoBuffer
  BY <1>1, <1>2, <1>7 DEF BufferOf
<1>13. \A g \in Fds : g # f /\ BufferOf(g) # NoBuffer => ring'[BufferOf(g)] = ring[BufferOf(g)]
  <2> SUFFICES ASSUME NEW g \in Fds, g # f, BufferOf(g) # NoBuffer
               PROVE  ring'[BufferOf(g)] = ring[BufferOf(g)]
    OBVIOUS
  <2>1. g \in Table
    BY LoopAssumption
  <2>2. BufferOf(g) \in 1 .. Len(ring) /\ BufferOf(g) # b
    BY <1>3, <2>1, Entry
  <2> QED BY <1>9, <2>2
<1>14. Accounts'
  BY <1>1, <1>5, <1>7, <1>8, <1>10, <1>11, <1>12, <1>13, AccountsFrom
<1>15. OneDescriptorEach'
  BY <1>5 DEF BInv, OneDescriptorEach
<1> QED BY <1>1, <1>4, <1>5, <1>7, <1>14, <1>15 DEF BInv
-----------------------------------------------------------------------------
(* The counters after a completion show what it moved.                     *)
LEMMA HandledRing ==
    ASSUME TagsDiffer, IInv, BInv, NEW e, e = Head(cq), Handling(e), e.ud # TagAccept,
           ~Ended(e), NEW f, f = FdOfTag(e.ud), NEW b, b = BufferOf(f), NEW r,
           \/ IsRecv(e.ud) /\ r = [ring[b] EXCEPT !.tail = Advance(@, e.res)]
           \/ IsSend(e.ud) /\ r = [ring[b] EXCEPT !.head = Advance(@, e.res)]
    PROVE  /\ r \in CounterPair
           /\ Count(r.head, r.tail) = Balance(f) /\ Balance(f) <= BufferSize
           /\ IsRecv(e.ud) => Balance(f) > 0
<1>1. /\ Held(b) \in Nat /\ Held(b) + Bytes(e) = Balance(f)
      /\ IsRecv(e.ud) =>
            e.res \in Nat \ {0} /\ Held(b) + e.res <= BufferSize /\ Bytes(e) = e.res
      /\ IsSend(e.ud) =>
            e.res \in Nat \ {0} /\ e.res <= Held(b) /\ Bytes(e) = -e.res
  BY HandledBytes
<1>2. f \in Fds /\ f \in Table /\ BufferOf(f) # NoBuffer /\ Accounts
  BY HandledBytes
<1>3. /\ ring[b] \in CounterPair /\ Held(b) = Count(ring[b].head, ring[b].tail)
      /\ Held(b) <= BufferSize
  BY <1>2, RingOf
<1>4. PICK h \in Counter, t \in Counter : h = ring[b].head /\ t = ring[b].tail
  BY <1>3 DEF CounterPair
<1>5. PICK k \in Nat, m \in Int : k = Count(h, t) /\ m = Balance(f) /\ k <= BufferSize
                                  /\ k = Held(b)
  <2>1. e.res \in Nat \/ Balance(f) \in Int
    BY <1>1
  <2>2. Bytes(e) \in Int
    BY HandledBytes
  <2>3. Balance(f) \in Int
    BY <1>1, <2>2
  <2> QED BY <1>1, <1>3, <1>4, <2>3
<1>6. BufferSize \in Nat
  BY CounterFacts
<1>7. CASE IsRecv(e.ud) /\ r = [ring[b] EXCEPT !.tail = Advance(@, e.res)]
  <2>1. PICK n \in Nat : n = e.res /\ n # 0 /\ k + n <= BufferSize /\ k + n = m
    BY <1>1, <1>5, <1>7
  <2>2. /\ Advance(t, n) \in Counter
        /\ Count(h, Advance(t, n)) = Count(h, t) + n
    <3>1. Count(h, t) + n <= BufferSize
      BY <1>5, <2>1
    <3> QED BY <3>1, TailMoves
  <2>3. r \in CounterPair /\ r.head = h /\ r.tail = Advance(t, n)
    <3>1. PICK u \in Counter : u = Advance(t, n)
      BY <2>2
    <3>2. r = [ring[b] EXCEPT !.tail = u]
      BY <1>4, <1>7, <2>1, <3>1
    <3> QED BY <1>3, <1>4, <3>1, <3>2 DEF CounterPair
  <2>4. m <= BufferSize /\ m > 0
    BY <1>5, <1>6, <2>1
  <2> QED BY <1>5, <2>1, <2>2, <2>3, <2>4
<1>8. CASE IsSend(e.ud) /\ r = [ring[b] EXCEPT !.head = Advance(@, e.res)]
  <2>1. PICK n \in Nat : n = e.res /\ n <= k
    BY <1>1, <1>5, <1>8
  <2>2. m = k - n
    <3>1. Bytes(e) = -n /\ k + Bytes(e) = m
      BY <1>1, <1>5, <1>8, <2>1
    <3> QED BY <1>5, <2>1, <3>1
  <2>3. /\ Advance(h, n) \in Counter
        /\ Count(Advance(h, n), t) = Count(h, t) - n
    <3>1. n <= Count(h, t)
      BY <1>5, <2>1
    <3> QED BY <3>1, HeadMoves
  <2>4. r \in CounterPair /\ r.head = Advance(h, n) /\ r.tail = t
    <3>1. PICK u \in Counter : u = Advance(h, n)
      BY <2>3
    <3>2. r = [ring[b] EXCEPT !.head = u]
      BY <1>4, <1>8, <2>1, <3>1
    <3> QED BY <1>3, <1>4, <3>1, <3>2 DEF CounterPair
  <2>5. m <= BufferSize
    BY <1>5, <1>6, <2>1, <2>2
  <2>6. ~IsRecv(e.ud)
    BY <1>8 DEF IsRecv, IsSend
  <2> QED BY <1>5, <2>2, <2>3, <2>4, <2>5, <2>6
<1> QED BY <1>7, <1>8

(* What the completion of a connection leads to: its end, or the answer of *)
(* a callback that is asked when it may be, or more of the same.           *)
EndsAt(f) ==
    /\ fdOwner' = [fdOwner EXCEPT ![f] = NoClient]
    /\ \A d \in Clients : sock'[d].phase = IF d = fdOwner[f] THEN "closed"
                                           ELSE sock[d].phase

GoesOnAt(f) ==
    /\ UNCHANGED <<sock, fdOwner>>
    /\ \/ m_connections[f].state = "read" /\ Balance(f) > 0
       \/ m_connections[f].state = "write" /\ Balance(f) = 0
       \/ m_connections'[f].state = m_connections[f].state
    /\ m_connections'[f].state \in {"read", "write"}

LEMMA ConnectionAccounts ==
    ASSUME TagsDiffer, IInv, BInv, ConnectionEnds \/ RecvCompleted \/ SendCompleted
    PROVE  /\ BInv' /\ SameBytes /\ cq' = Tail(cq) /\ cq # <<>> /\ Head(cq).ud # TagAccept
           /\ \E f \in Fds :
                /\ f \in Table /\ BufferOf(f) # NoBuffer
                /\ EndsAt(f) \/ GoesOnAt(f)
                /\ \A g \in Table : g # f => m_connections'[g] = m_connections[g]
<1>1. PICK e, f : e = Head(cq) /\ f = FdOfTag(e.ud)
  OBVIOUS
<1>2. Handling(e) /\ e.ud # TagAccept /\ UNCHANGED pc
  BY <1>1 DEF ConnectionEnds, RecvCompleted, SendCompleted, Completed, OfConnection
<1>3. /\ f \in Fds /\ f \in Table /\ BufferOf(f) # NoBuffer
      /\ cq' = Tail(cq) /\ cq # <<>>
  BY <1>1, <1>2, HeadOfConnection DEF Handling
<1>4. PICK b : b = BufferOf(f)
  OBVIOUS
<1>5. ASSUME RemoveConnection(f), UNCHANGED sq
      PROVE  /\ BInv' /\ SameBytes /\ EndsAt(f)
             /\ \A g \in Table : g # f => m_connections'[g] = m_connections[g]
  BY <1>1, <1>2, <1>5, RemoveAccounts DEF EndsAt
<1>6. CASE ConnectionEnds
  <2>1. RemoveConnection(f) /\ UNCHANGED sq
    BY <1>1, <1>6 DEF ConnectionEnds
  <2> QED BY <1>1, <1>2, <1>3, <1>5, <2>1
<1>7. ASSUME NEW state \in States \ {"die"}, NEW r \in CounterPair, GoOn(f, state, r),
             Count(r.head, r.tail) = Balance(f), Balance(f) <= BufferSize
      PROVE  /\ BInv' /\ SameBytes /\ UNCHANGED <<sock, fdOwner>>
             /\ m_connections'[f].state = IF state = "idle" THEN m_connections[f].state
                                          ELSE state
             /\ \A g \in Table : g # f => m_connections'[g] = m_connections[g]
  BY <1>1, <1>2, <1>7, GoOnAccounts DEF SameBytes
<1>8. ASSUME NEW state \in States, NEW r \in CounterPair, Answer(f, state, r),
             Count(r.head, r.tail) = Balance(f), Balance(f) <= BufferSize,
             \/ m_connections[f].state = "read" /\ Balance(f) > 0
             \/ m_connections[f].state = "write" /\ Balance(f) = 0
      PROVE  /\ BInv' /\ SameBytes /\ (EndsAt(f) \/ GoesOnAt(f))
             /\ \A g \in Table : g # f => m_connections'[g] = m_connections[g]
  <2>1. CASE state = "die"
    <3>1. RemoveConnection(f) /\ UNCHANGED sq
      BY <1>8, <2>1 DEF Answer
    <3> QED BY <1>5, <3>1
  <2>2. CASE state # "die"
    <3>1. GoOn(f, state, r)
      BY <1>8, <2>2 DEF Answer
    <3>2. /\ BInv' /\ SameBytes /\ UNCHANGED <<sock, fdOwner>>
          /\ m_connections'[f].state = IF state = "idle" THEN m_connections[f].state
                                       ELSE state
          /\ \A g \in Table : g # f => m_connections'[g] = m_connections[g]
      BY <1>7, <1>8, <2>2, <3>1
    <3>3. m_connections'[f].state \in {"read", "write"}
      BY <1>8, <2>2, <3>2 DEF States
    <3> QED BY <1>8, <3>2, <3>3 DEF GoesOnAt
  <2> QED BY <2>1, <2>2
<1>9. ASSUME ~Ended(e), NEW r,
             \/ IsRecv(e.ud) /\ r = [ring[b] EXCEPT !.tail = Advance(@, e.res)]
             \/ IsSend(e.ud) /\ r = [ring[b] EXCEPT !.head = Advance(@, e.res)]
      PROVE  /\ r \in CounterPair
             /\ Count(r.head, r.tail) = Balance(f) /\ Balance(f) <= BufferSize
             /\ IsRecv(e.ud) => Balance(f) > 0 /\ m_connections[f].state = "read"
             /\ IsSend(e.ud) => m_connections[f].state = "write"
  <2>1. /\ IsRecv(e.ud) => m_connections[f].state = "read"
        /\ IsSend(e.ud) => m_connections[f].state = "write"
    BY <1>1, <1>2, <1>9, HandledBytes
  <2>2. /\ r \in CounterPair
        /\ Count(r.head, r.tail) = Balance(f) /\ Balance(f) <= BufferSize
        /\ IsRecv(e.ud) => Balance(f) > 0
    BY <1>1, <1>2, <1>4, <1>9, HandledRing
  <2> QED BY <2>1, <2>2
<1>10. CASE RecvCompleted
  <2>1. ~Ended(e) /\ IsRecv(e.ud) /\ m_connections[f].op = "recv"
    BY <1>1, <1>2, <1>10, HeadOfConnection DEF RecvCompleted, Completed
  <2>2. PICK r : r = [ring[b] EXCEPT !.tail = Advance(@, e.res)]
    OBVIOUS
  <2>3. PICK state \in OnRead : Answer(f, state, r)
    BY <1>1, <1>4, <1>10, <2>1, <2>2 DEF RecvCompleted, Completed
  <2>4. /\ r \in CounterPair /\ m_connections[f].state = "read" /\ Balance(f) > 0
        /\ Count(r.head, r.tail) = Balance(f) /\ Balance(f) <= BufferSize
    BY <1>9, <2>1, <2>2
  <2>5. state \in States
    BY LoopAssumption
  <2>6. /\ BInv' /\ SameBytes /\ (EndsAt(f) \/ GoesOnAt(f))
        /\ \A g \in Table : g # f => m_connections'[g] = m_connections[g]
    BY <1>8, <2>3, <2>4, <2>5
  <2> QED BY <1>1, <1>2, <1>3, <2>6
<1>11. CASE SendCompleted
  <2>1. ~Ended(e) /\ IsSend(e.ud) /\ m_connections[f].op = "send"
    BY <1>1, <1>2, <1>11, HeadOfConnection DEF SendCompleted, Completed
  <2>2. PICK r : r = [ring[b] EXCEPT !.head = Advance(@, e.res)]
    OBVIOUS
  <2>3. \/ Drained(r) /\ \E state \in OnWrite : Answer(f, state, r)
        \/ GoOn(f, "write", r)
    BY <1>1, <1>4, <1>11, <2>1, <2>2 DEF SendCompleted, Completed
  <2>4. /\ r \in CounterPair /\ m_connections[f].state = "write"
        /\ Count(r.head, r.tail) = Balance(f) /\ Balance(f) <= BufferSize
    BY <1>9, <2>1, <2>2
  <2>5. CASE Drained(r) /\ \E state \in OnWrite : Answer(f, state, r)
    <3>1. Balance(f) = 0
      <4>1. r.head \in Counter /\ r.tail \in Counter /\ IsEmpty(r.head, r.tail)
        BY <2>4, <2>5 DEF Drained, CounterPair
      <4>2. Count(r.head, r.tail) = 0
        BY <4>1, EmptyCount
      <4> QED BY <2>4, <4>2
    <3>2. PICK state \in OnWrite : Answer(f, state, r)
      BY <2>5
    <3>3. state \in States
      BY LoopAssumption
    <3>4. /\ BInv' /\ SameBytes /\ (EndsAt(f) \/ GoesOnAt(f))
          /\ \A g \in Table : g # f => m_connections'[g] = m_connections[g]
      BY <1>8, <2>4, <3>1, <3>2, <3>3
    <3> QED BY <1>1, <1>2, <1>3, <3>4
  <2>6. CASE GoOn(f, "write", r)
    <3>1. "write" \in States \ {"die"}
      BY DEF States
    <3>2. PICK state \in States \ {"die"} : state = "write" /\ GoOn(f, state, r)
      BY <2>6, <3>1
    <3>3. /\ BInv' /\ SameBytes /\ UNCHANGED <<sock, fdOwner>>
          /\ m_connections'[f].state = IF state = "idle" THEN m_connections[f].state
                                       ELSE state
          /\ \A g \in Table : g # f => m_connections'[g] = m_connections[g]
      BY <1>7, <2>4, <3>2
    <3>4. GoesOnAt(f)
      BY <2>4, <3>2, <3>3 DEF GoesOnAt
    <3> QED BY <1>1, <1>2, <1>3, <3>3, <3>4
  <2> QED BY <2>3, <2>5, <2>6
<1> QED BY <1>6, <1>10, <1>11
-----------------------------------------------------------------------------
(* An accept is handled: nobody else's completion is, and the connection   *)
(* it is about has none.                                                   *)
LEMMA AcceptedBytes ==
    ASSUME TagsDiffer, IInv, BInv, NEW e, e = Head(cq), Accepted(e), e.res >= 0,
           NEW f, f = e.res
    PROVE  /\ pc = "batch" /\ Accounts /\ f \in Fds /\ f \in Table /\ fdOwner[f] \in Clients
           /\ fdOwner[f] # NoClient /\ BufferOf(f) = NoBuffer
           /\ m_connections[f].op = "none"
           /\ cq' = Tail(cq) /\ cq # <<>> /\ \A i \in 1 .. Len(cq') : cq'[i].ud # TagAccept
           /\ Balance(f) = 0 /\ sock[fdOwner[f]].in = 0 /\ sock[fdOwner[f]].out = 0
           /\ NoneOf(f, cq')
           /\ \A g \in Fds : \A t, h : Accounted(g, t, h, cq) => Accounted(g, t, h, cq')
<1>1. /\ QueuesInv /\ pc = "batch"
      /\ OneEach(sq, flying, cq', Active \ {ListenFd})
      /\ \A i \in 1 .. Len(cq') : cq'[i].ud # TagAccept
  BY AcceptHandled
<1>2. /\ f \in Fds /\ f \in Table /\ fdOwner[f] # NoClient
      /\ BufferOf(f) = NoBuffer /\ m_connections[f].op = "none" /\ f \notin Active
  <2>1. e.res # -1
    OBVIOUS
  <2> QED BY <2>1, AcceptHandled
<1>3. cq' = Tail(cq) /\ cq # <<>> /\ HolderOf(e) = ListenFd
  BY DEF Accepted, Handling, HolderOf
<1>4. Accounts /\ fdOwner[f] \in Clients /\ cq \in Seq(Completion)
  BY <1>1, <1>2, Types DEF BInv, IInv
<1>5. /\ sock[fdOwner[f]].in = 0 /\ sock[fdOwner[f]].out = 0 /\ Balance(f) = 0
  BY <1>2, <1>4 DEF Accounts, Balance
<1>6. NoneOf(f, cq')
  BY <1>1, <1>2 DEF OneEach, NoneOf
<1>7. \A g : g # ListenFd => \A t, h : Accounted(g, t, h, cq) => Accounted(g, t, h, cq')
  BY <1>3, <1>4, OthersTail
<1>8. \A g \in Fds : g # ListenFd
  BY AcceptOp
<1> QED BY <1>1, <1>2, <1>3, <1>4, <1>5, <1>6, <1>7, <1>8

(* The connection gets a buffer, empty as it is.                           *)
LEMMA AcceptOneAccounts ==
    ASSUME TagsDiffer, IInv, BInv, AcceptOne
    PROVE  /\ BInv' /\ UNCHANGED <<sock, fdOwner>> /\ cq' = Tail(cq) /\ cq # <<>>
           /\ Head(cq).ud = TagAccept /\ \A i \in 1 .. Len(cq') : cq'[i].ud # TagAccept
           /\ \E f \in Fds :
                /\ f = Head(cq).res /\ f \in Table /\ fdOwner[f] \in Clients
                /\ BufferOf(f) = NoBuffer /\ Balance(f) = 0
                /\ m_connections'[f].state \in {"idle", "read", "write"}
                /\ BufferOf(f)' # NoBuffer
                /\ \A g \in Table : g # f => m_connections'[g] = m_connections[g]
<1>1. PICK e, f, b, r : e = Head(cq) /\ f = e.res /\ b = Allocated /\ r = RingWithNew[b]
  OBVIOUS
<1>2. PICK state \in OnConnect \ {"die"} :
        m_connections' = [m_connections EXCEPT
                ![f] = [state |-> state, buffer |-> b, op |-> OpAfter(Wanted(state), r)]]
  BY <1>1 DEF AcceptOne
<1>3. PICK op : op = OpAfter(Wanted(state), r)
  OBVIOUS
<1>4. /\ Accepted(e) /\ e.res >= 0 /\ m_pl' = PoolWithout /\ ring' = RingWithNew
      /\ pc' = pc /\ UNCHANGED <<sock, fdOwner, backlog>> /\ e.ud = TagAccept
  BY <1>1 DEF AcceptOne, Accepted, Handling
<1>5. /\ pc = "batch" /\ Accounts /\ f \in Fds /\ f \in Table /\ fdOwner[f] \in Clients
      /\ BufferOf(f) = NoBuffer
      /\ cq' = Tail(cq) /\ cq # <<>> /\ \A i \in 1 .. Len(cq') : cq'[i].ud # TagAccept
      /\ Balance(f) = 0 /\ NoneOf(f, cq')
      /\ \A g \in Fds : \A t, h : Accounted(g, t, h, cq) => Accounted(g, t, h, cq')
  BY <1>1, <1>4, AcceptedBytes
<1>6. /\ m_connections'[f].state = state /\ m_connections'[f].buffer = b
      /\ m_connections'[f].op = op
      /\ \A g \in Table : g # f => m_connections'[g] = m_connections[g]
  BY <1>2, <1>3, <1>5, Types DEF IInv
<1>7. state \in {"idle", "read", "write"}
  BY <1>2, LoopAssumption DEF States
<1>8. OpOfState(m_connections'[f])
  <2>1. op = Wanted(state) \/ op = "none"
    BY <1>3 DEF OpAfter
  <2>2. /\ op = "recv" => state = "read"
        /\ op = "send" => state = "write"
    BY <1>7, <2>1 DEF Wanted
  <2> QED BY <1>6, <2>2 DEF OpOfState
<1>9. /\ PoolContents(m_pl', ring') /\ b \in 1 .. Len(ring') /\ ring'[b] = EmptyRing
      /\ Len(ring') \in Nat
  <2>1. PoolTypeOK /\ PoolContents(m_pl, ring)
    BY <1>5, Types DEF Accounts, IInv
  <2>2. /\ PoolContents(PoolWithout, RingWithNew) /\ RingWithNew[Allocated] = EmptyRing
        /\ RingWithNew \in Seq(CounterPair) /\ Allocated \in 1 .. Len(RingWithNew)
    BY <2>1, ContentsAllocated
  <2>3. PICK n : n = Len(RingWithNew) /\ n \in Nat
    BY <2>2, LenProperties
  <2> QED BY <1>1, <1>4, <2>2, <2>3
<1>10. BufferOf(f)' = b /\ b # NoBuffer
  <2>1. PICK n \in Nat : n = Len(ring')
    BY <1>9
  <2>2. b \in 1 .. n
    BY <1>9, <2>1
  <2>3. b # 0
    BY <2>2
  <2> QED BY <1>6, <2>3 DEF BufferOf, NoBuffer
<1>11. \A d \in 1 .. Len(ring) : ring'[d] = ring[d]
  <2>1. PICK n \in Nat, k \in Nat : n = Len(ring) /\ k = Len(m_pl)
    BY Types, LenProperties DEF IInv
  <2>2. m_pl = <<>> => \A d \in 1 .. n : RingWithNew[d] = ring[d]
    BY <2>1, Types, AppendProperties DEF IInv, RingWithNew
  <2>3. m_pl # <<>> => RingWithNew = ring
    BY DEF RingWithNew
  <2> QED BY <1>4, <2>1, <2>2, <2>3
<1>12. Accounted(f, Balance(f)', Held(BufferOf(f))', cq')
  <2>1. Balance(f)' = 0
    BY <1>4, <1>5 DEF Balance
  <2>2. Held(BufferOf(f))' = 0
    BY <1>9, <1>10, EmptyHoldsNothing DEF Held
  <2>3. Accounted(f, 0, 0, cq')
    BY <1>5 DEF Accounted, NoneOf
  <2> QED BY <2>1, <2>2, <2>3
<1>13. \A g \in Fds : g # f /\ BufferOf(g) # NoBuffer => ring'[BufferOf(g)] = ring[BufferOf(g)]
  <2> SUFFICES ASSUME NEW g \in Fds, BufferOf(g) # NoBuffer
               PROVE  ring'[BufferOf(g)] = ring[BufferOf(g)]
    OBVIOUS
  <2>1. g \in Table
    BY LoopAssumption
  <2>2. BufferOf(g) \in 1 .. Len(ring)
    BY <2>1, Entry
  <2> QED BY <1>11, <2>2
<1>14. Accounts'
  <2>1. \A g \in Fds : g # f => \A t, h : Accounted(g, t, h, cq) => Accounted(g, t, h, cq')
    BY <1>5
  <2> QED BY <1>4, <1>5, <1>6, <1>8, <1>9, <1>10, <1>12, <1>13, <2>1, AccountsFrom
<1>15. OneDescriptorEach'
  BY <1>4 DEF BInv, OneDescriptorEach
<1> QED BY <1>1, <1>4, <1>5, <1>6, <1>7, <1>10, <1>14, <1>15 DEF BInv

(* The connection is closed, and its buffer goes back.                     *)
LEMMA AcceptRefusedAccounts ==
    ASSUME TagsDiffer, IInv, BInv, AcceptRefused
    PROVE  /\ BInv' /\ SameBytes /\ m_connections' = m_connections
           /\ cq' = Tail(cq) /\ cq # <<>>
           /\ Head(cq).ud = TagAccept /\ \A i \in 1 .. Len(cq') : cq'[i].ud # TagAccept
           /\ \E f \in Fds :
                /\ f = Head(cq).res /\ f \in Table /\ fdOwner[f] \in Clients
                /\ BufferOf(f) = NoBuffer /\ EndsAt(f)
<1>1. PICK e, f : e = Head(cq) /\ f = e.res
  OBVIOUS
<1>2. /\ Accepted(e) /\ e.res >= 0 /\ pc' = pc /\ Close(f) /\ e.ud = TagAccept
      /\ m_connections' = [m_connections EXCEPT ![f].buffer = NoBuffer, ![f].op = "none"]
      /\ m_pl' = Append(PoolWithout, Allocated)
      /\ ring' = [RingWithNew EXCEPT ![Allocated] = EmptyRing] /\ backlog' = backlog
  BY <1>1 DEF AcceptRefused, Accepted, Handling
<1>3. /\ pc = "batch" /\ Accounts /\ f \in Fds /\ f \in Table /\ fdOwner[f] \in Clients
      /\ fdOwner[f] # NoClient /\ BufferOf(f) = NoBuffer /\ m_connections[f].op = "none"
      /\ cq' = Tail(cq) /\ cq # <<>> /\ \A i \in 1 .. Len(cq') : cq'[i].ud # TagAccept
      /\ \A g \in Fds : \A t, h : Accounted(g, t, h, cq) => Accounted(g, t, h, cq')
  BY <1>1, <1>2, AcceptedBytes
<1>4. m_connections' = m_connections
  <2>1. m_connections \in [Table -> ConnectionType(Len(ring))]
    BY Types DEF IInv
  <2>2. PICK r : r = [m_connections[f] EXCEPT !.buffer = NoBuffer, !.op = "none"]
    OBVIOUS
  <2>3. m_connections[f] \in ConnectionType(Len(ring))
    BY <1>3, <2>1
  <2>4. r = m_connections[f]
    BY <1>3, <2>2, <2>3 DEF ConnectionType, BufferOf
  <2>5. m_connections' = [m_connections EXCEPT ![f] = r]
    BY <1>2, <2>2
  <2> QED BY <1>3, <2>1, <2>4, <2>5
<1>5. /\ sock' = [sock EXCEPT ![fdOwner[f]].phase = "closed"]
      /\ fdOwner' = [fdOwner EXCEPT ![f] = NoClient]
  BY <1>2, <1>3 DEF Close, FreeFds
<1>6. /\ OneDescriptorEach' /\ SameBytes /\ EndsAt(f)
  <2>1. /\ OneDescriptorEach /\ sock \in [Clients -> Socket] /\ backlog \in Seq(Clients)
        /\ fdOwner \in [Fds -> Clients \cup {NoClient}]
    BY Types DEF IInv, BInv
  <2>2. /\ OneDescriptorEach' /\ SameBytes
        /\ \A d \in Clients : sock'[d].phase = IF d = fdOwner[f] THEN "closed"
                                               ELSE sock[d].phase
    BY <1>2, <1>3, <1>5, <2>1, CloseDescriptors
  <2> QED BY <1>5, <2>2 DEF EndsAt
<1>7. PoolContents(m_pl', ring')
  <2>1. PoolTypeOK /\ PoolContents(m_pl, ring)
    BY <1>3, Types DEF Accounts, IInv
  <2> QED BY <1>2, <2>1, ContentsRefused
<1>8. \A g \in Table : BufferOf(g) # NoBuffer => ring'[BufferOf(g)] = ring[BufferOf(g)]
  <2>1. PICK t : t = BufferTable
    OBVIOUS
  <2>2. PoolTypeOK /\ Conserved(m_pl, Len(m_pl), Len(ring), Table, t)
    BY <2>1, Types DEF IInv, PoolInv
  <2>3. \A g \in Table : t[g] # 0 => ring'[t[g]] = ring[t[g]]
    BY <1>2, <2>2, RefusedBuffer
  <2>4. \A g \in Table : t[g] = BufferOf(g)
    BY <2>1 DEF BufferTable
  <2> QED BY <2>3, <2>4 DEF NoBuffer
<1>9. \A g \in Fds : g # f =>
            /\ fdOwner'[g] = fdOwner[g]
            /\ fdOwner[g] # NoClient =>
                /\ sock'[fdOwner[g]].in = sock[fdOwner[g]].in
                /\ sock'[fdOwner[g]].out = sock[fdOwner[g]].out
            /\ BufferOf(g) # NoBuffer => ring'[BufferOf(g)] = ring[BufferOf(g)]
  <2>1. \A g \in Fds : g \in Table /\ (fdOwner[g] # NoClient => fdOwner[g] \in Clients)
    BY LoopAssumption, Types DEF IInv
  <2>2. \A g \in Fds : g # f => fdOwner'[g] = fdOwner[g]
    BY <1>5, Types DEF IInv
  <2> QED BY <1>6, <1>8, <2>1, <2>2 DEF SameBytes
<1>10. BufferOf(f)' = NoBuffer /\ fdOwner'[f] = NoClient /\ OpOfState(m_connections'[f])
  <2>1. fdOwner'[f] = NoClient
    BY <1>3, <1>5, Types DEF IInv
  <2> QED BY <1>3, <1>4, <2>1 DEF BufferOf, Accounts
<1>11. Accounts'
  <2>1. \A g \in Fds : g # f => \A t, h : Accounted(g, t, h, cq) => Accounted(g, t, h, cq')
    BY <1>3
  <2>2. \A g \in Table : g # f => m_connections'[g] = m_connections[g]
    BY <1>4
  <2> QED BY <1>3, <1>7, <1>9, <1>10, <2>1, <2>2, AccountsFrom
<1> QED BY <1>1, <1>2, <1>3, <1>4, <1>6, <1>11 DEF BInv

(* There is no connection.                                                 *)
LEMMA AcceptGoneAccounts ==
    ASSUME TagsDiffer, IInv, BInv, AcceptFails
    PROVE  /\ BInv' /\ UNCHANGED <<sock, fdOwner, m_connections>>
           /\ cq' = Tail(cq) /\ cq # <<>>
           /\ Head(cq).ud = TagAccept /\ Head(cq).res \notin Fds
<1>1. PICK e : e = Head(cq)
  OBVIOUS
<1>2. /\ Accepted(e) /\ e.res < 0 /\ e.ud = TagAccept /\ pc = "batch"
      /\ UNCHANGED <<pc, sock, fdOwner, m_connections, m_pl, ring, backlog>>
      /\ cq' = Tail(cq) /\ cq # <<>>
  BY <1>1 DEF AcceptFails, Accepted, Handling, table
<1>3. Accounts /\ cq \in Seq(Completion) /\ HolderOf(e) = ListenFd
  BY <1>2, Types DEF BInv, IInv, HolderOf
<1>4. \A g : g # ListenFd => \A t, h : Accounted(g, t, h, cq) => Accounted(g, t, h, cq')
  BY <1>1, <1>2, <1>3, OthersTail
<1>5. /\ ListenFd \notin Fds /\ e.res \notin Fds
      /\ \A f \in Fds : BufferOf(f)' = BufferOf(f)
  <2>1. Fds \subseteq Nat
    BY SocketAssumption
  <2>2. e.res \in Int
    <3>1. e \in Completion
      BY <1>1, <1>2, HeadHandled DEF Accepted
    <3> QED BY <3>1 DEF Completion
  <2>3. e.res \notin Nat
    BY <1>2, <2>2
  <2> QED BY <1>2, <2>1, <2>3, AcceptOp DEF BufferOf
<1>6. PICK f : f \notin Table /\ f \notin Fds
  <2>1. -1 \notin Table /\ -1 \notin Fds
    BY SocketAssumption DEF Table
  <2> QED BY <2>1
<1>7. Accounts'
  <2>1. \A g \in Fds : g # f => \A t, h : Accounted(g, t, h, cq) => Accounted(g, t, h, cq')
    BY <1>4, <1>5
  <2>2. PoolContents(m_pl', ring')
    BY <1>2, <1>3 DEF Accounts
  <2> QED BY <1>2, <1>3, <1>6, <2>1, <2>2, AccountsFrom
<1>8. OneDescriptorEach'
  BY <1>2 DEF BInv, OneDescriptorEach
<1> QED BY <1>1, <1>2, <1>5, <1>7, <1>8 DEF BInv

(* run() ends: no connection has a buffer.                                 *)
LEMMA CleanupAccounts ==
    ASSUME IInv, BInv, LeaveLoop \/ WaitFails
    PROVE  /\ BInv' /\ UNCHANGED <<sock, fdOwner, cq>>
           /\ \A f \in Table : m_connections'[f].state = m_connections[f].state
<1>1. /\ m_connections' = [f \in Table |-> [m_connections[f] EXCEPT !.buffer = NoBuffer]]
      /\ pc' = "stopped" /\ UNCHANGED <<sock, backlog, fdOwner, cq>>
  BY DEF LeaveLoop, WaitFails, Cleanup, sockets, rings
<1>2. m_connections \in [Table -> ConnectionType(Len(ring))]
  BY Types DEF IInv
<1>3. ASSUME NEW f \in Table
      PROVE  BufferOf(f)' = NoBuffer /\ m_connections'[f].state = m_connections[f].state
  <2>1. PICK v : v = [m_connections[f] EXCEPT !.buffer = NoBuffer]
    OBVIOUS
  <2>2. m_connections'[f] = v
    BY <1>1, <1>3, <2>1
  <2>3. v.buffer = NoBuffer /\ v.state = m_connections[f].state
    BY <1>2, <1>3, <2>1 DEF ConnectionType
  <2> QED BY <2>2, <2>3 DEF BufferOf
<1>4. OneDescriptorEach'
  BY <1>1 DEF BInv, OneDescriptorEach
<1> QED BY <1>1, <1>3, <1>4 DEF BInv
-----------------------------------------------------------------------------
LEMMA InitialAccounts ==
    ASSUME Init
    PROVE  BInv
<1>1. /\ m_connections = [f \in Table |->
                            [state |-> "idle", buffer |-> NoBuffer, op |-> "none"]]
      /\ fdOwner = [f \in Fds |-> NoClient] /\ pc = "wait" /\ SocketsInit /\ PoolInit
  BY DEF Init, RingInit, SocketsInit
<1>2. OneDescriptorEach /\ PoolContents(m_pl, ring)
  BY <1>1, DescriptorsInit, ContentsInit
<1>3. \A f \in Table : BufferOf(f) = NoBuffer /\ OpOfState(m_connections[f])
  BY <1>1 DEF BufferOf, OpOfState
<1>4. \A f \in Fds : f \in Table /\ fdOwner[f] = NoClient
  BY <1>1, LoopAssumption
<1>5. Accounts
  BY <1>2, <1>3, <1>4 DEF Accounts
<1> QED BY <1>1, <1>2, <1>5 DEF BInv

LEMMA AccountsInductive ==
    ASSUME TagsDiffer, IInv, BInv, [Next]_vars
    PROVE  BInv'
<1>1. CASE LoopStep
  <2>1. CASE WaitCqe \/ EndOfBatch \/ AcceptCrashes
    BY <2>1, QuietAccounts
  <2>2. CASE LeaveLoop
    BY <2>2, CleanupAccounts
  <2>3. CASE AcceptFails
    BY <2>3, AcceptGoneAccounts
  <2>4. CASE AcceptRefused
    BY <2>4, AcceptRefusedAccounts
  <2>5. CASE AcceptOne
    BY <2>5, AcceptOneAccounts
  <2>6. CASE ConnectionEnds \/ RecvCompleted \/ SendCompleted
    BY <2>6, ConnectionAccounts
  <2> QED BY <1>1, <2>1, <2>2, <2>3, <2>4, <2>5, <2>6 DEF LoopStep
<1>2. CASE WaitFails
  BY <1>2, CleanupAccounts
<1>3. CASE Stop \/ Halted \/ PeerActs \/ UNCHANGED vars
  BY <1>3, QuietAccounts
<1>4. CASE Completes
  <2>1. CASE KernelStep(KernelAccept)
    <3>1. KernelStep(CompleteAccept) \/ KernelStep(CompleteAcceptFails)
      BY <2>1 DEF KernelStep, KernelAccept
    <3> QED BY <3>1, AcceptAccounts, AcceptFailsAccounts
  <2>2. ASSUME NEW f \in Fds, KernelStep(KernelMove(f)) PROVE BInv'
    BY <2>2, MoveAccounts
  <2> QED BY <1>4, <2>1, <2>2 DEF Completes
<1> QED BY <1>1, <1>2, <1>3, <1>4 DEF Next

(* A buffer holds what was received on its connection and not sent back,   *)
(* but for the completion that is not handled yet.                         *)
THEOREM BytesAccounted ==
    ASSUME TagsDiffer
    PROVE  Spec => []ByteAccount
<1>1. IInv /\ BInv => ByteAccount
  <2> SUFFICES ASSUME IInv, BInv, NEW f \in Fds, fdOwner[f] # NoClient,
                      BufferOf(f) # NoBuffer,
                      NEW moved, moved = IF Unhandled(f) = {} THEN 0
                               ELSE LET e == cq[CHOOSE i \in Unhandled(f) : TRUE]
                                    IN  IF e.res <= 0 THEN 0
                                        ELSE IF IsRecv(e.ud) THEN e.res ELSE -e.res
               PROVE  Held(BufferOf(f)) + moved = Balance(f)
    BY DEF ByteAccount, Balance
  <2>1. f \in Table
    BY LoopAssumption
  <2>2. Accounts /\ cq \in Seq(Completion)
    BY <2>1, Types DEF BInv, IInv
  <2>3. Accounted(f, Balance(f), Held(BufferOf(f)), cq)
    BY <2>2 DEF Accounts
  <2>4. Held(BufferOf(f)) \in Nat
    BY <2>1, <2>2, RingOf
  <2>5. DOMAIN cq = 1 .. Len(cq)
    BY <2>2, LenProperties
  <2>6. Unhandled(f) = {i \in 1 .. Len(cq) : HolderOf(cq[i]) = f}
    BY <2>5, AcceptOp DEF Unhandled, HolderOf
  <2>7. CASE Unhandled(f) = {}
    <3>1. NoneOf(f, cq)
      BY <2>6, <2>7 DEF NoneOf
    <3>2. moved = 0 /\ Held(BufferOf(f)) = Balance(f)
      BY <2>3, <2>7, <3>1 DEF Accounted
    <3> QED BY <2>4, <3>2
  <2>8. CASE Unhandled(f) # {}
    <3>1. PICK j : j = CHOOSE i \in Unhandled(f) : TRUE
      OBVIOUS
    <3>2. j \in Unhandled(f)
      BY <2>8, <3>1
    <3>3. moved = Bytes(cq[j])
      BY <2>8, <3>1 DEF Bytes
    <3> QED BY <2>3, <2>6, <3>2, <3>3 DEF Accounted
  <2> QED BY <2>7, <2>8
<1>2. Spec => []IInv
  BY Invariance
<1>3. Init => BInv
  BY InitialAccounts
<1>4. IInv /\ BInv /\ [Next]_vars => BInv'
  BY AccountsInductive
<1> QED BY <1>1, <1>2, <1>3, <1>4, PTL DEF Spec
-----------------------------------------------------------------------------
(* The connection contract's view of each client.                          *)
PhaseOf(c) == IF IsOpen(c) THEN "open" ELSE IF sock[c].phase = "closed" THEN "closed" ELSE "new"
StateOf(c) == IF IsOpen(c) THEN m_connections[FdOf(c)].state ELSE "idle"
HeldOf(c)  == IF IsOpen(c) THEN sock[c].in - sock[c].out ELSE 0

(* An accept that is not handled has accepted the connection of f.         *)
Pending(f) == \E i \in DOMAIN cq : cq[i].ud = TagAccept /\ cq[i].res = f

LEMMA DescriptorFound ==
    ASSUME NEW own, NEW f \in Fds, NEW c, own[f] = c, c # NoClient,
           \A g, h \in Fds : (own[g] = own[h] /\ own[g] # NoClient) => g = h
    PROVE  (CHOOSE g \in Fds : own[g] = c) = f
<1>1. PICK g : g = CHOOSE h \in Fds : own[h] = c
  OBVIOUS
<1>2. g \in Fds /\ own[g] = c
  BY <1>1
<1> QED BY <1>1, <1>2

(* The view of the client of a descriptor; and after a step.               *)
LEMMA View ==
    ASSUME OneDescriptorEach, NEW f \in Fds, NEW c \in Clients, fdOwner[f] = c,
           NoClient \notin Clients
    PROVE  /\ FdOf(c) = f /\ sock[c].phase = "open" /\ (IsOpen(c) <=> ~Pending(f))
           /\ PhaseOf(c) = IF Pending(f) THEN "new" ELSE "open"
           /\ StateOf(c) = IF Pending(f) THEN "idle" ELSE m_connections[f].state
           /\ HeldOf(c)  = IF Pending(f) THEN 0 ELSE Balance(f)
<1>1. FdOf(c) = f
  <2>1. PICK own : own = fdOwner
    OBVIOUS
  <2>2. (CHOOSE g \in Fds : own[g] = c) = f
    BY <2>1, DescriptorFound DEF OneDescriptorEach
  <2> QED BY <2>1, <2>2 DEF FdOf
<1>2. sock[c].phase = "open"
  BY DEF OneDescriptorEach
<1>3. IsOpen(c) <=> ~Pending(f)
  BY <1>1, <1>2 DEF IsOpen, Pending
<1> QED BY <1>1, <1>2, <1>3 DEF PhaseOf, StateOf, HeldOf, Balance

LEMMA ViewNext ==
    ASSUME OneDescriptorEach', NEW f \in Fds, NEW c \in Clients, fdOwner'[f] = c,
           NoClient \notin Clients
    PROVE  /\ FdOf(c)' = f /\ sock'[c].phase = "open"
           /\ PhaseOf(c)' = IF Pending(f)' THEN "new" ELSE "open"
           /\ StateOf(c)' = IF Pending(f)' THEN "idle" ELSE m_connections'[f].state
           /\ HeldOf(c)'  = IF Pending(f)' THEN 0 ELSE Balance(f)'
<1>1. FdOf(c)' = f
  <2>1. PICK own : own = fdOwner'
    OBVIOUS
  <2>2. (CHOOSE g \in Fds : own[g] = c) = f
    BY <2>1, DescriptorFound DEF OneDescriptorEach
  <2> QED BY <2>1, <2>2 DEF FdOf
<1>2. sock'[c].phase = "open"
  BY DEF OneDescriptorEach
<1>3. IsOpen(c)' <=> ~Pending(f)'
  BY <1>1, <1>2 DEF IsOpen, Pending
<1> QED BY <1>1, <1>2, <1>3 DEF PhaseOf, StateOf, HeldOf, Balance

(* A client without a descriptor.                                          *)
LEMMA ViewClosed ==
    ASSUME NEW c \in Clients
    PROVE  /\ sock[c].phase # "open" =>
                /\ PhaseOf(c) = IF sock[c].phase = "closed" THEN "closed" ELSE "new"
                /\ StateOf(c) = "idle" /\ HeldOf(c) = 0
           /\ sock'[c].phase # "open" =>
                /\ PhaseOf(c)' = IF sock'[c].phase = "closed" THEN "closed" ELSE "new"
                /\ StateOf(c)' = "idle" /\ HeldOf(c)' = 0
<1>1. /\ sock[c].phase # "open" => ~IsOpen(c)
      /\ sock'[c].phase # "open" => ~IsOpen(c)'
  BY DEF IsOpen
<1> QED BY <1>1 DEF PhaseOf, StateOf, HeldOf

(* What a step leaves of a client as it was.                               *)
Unmoved(d) ==
    /\ \/ sock'[d].phase = sock[d].phase
       \/ sock[d].phase = "new" /\ sock'[d].phase = "queued"
    /\ sock'[d].in = sock[d].in /\ sock'[d].out = sock[d].out
    /\ \A f \in Fds : fdOwner[f] = d =>
            /\ fdOwner'[f] = d /\ m_connections'[f].state = m_connections[f].state
            /\ Pending(f)' <=> Pending(f)

SameView(d) == PhaseOf(d)' = PhaseOf(d) /\ StateOf(d)' = StateOf(d) /\ HeldOf(d)' = HeldOf(d)

LEMMA Unseen ==
    ASSUME OneDescriptorEach, OneDescriptorEach', NEW d \in Clients, Unmoved(d),
           NoClient \notin Clients
    PROVE  SameView(d)
<1>1. CASE sock[d].phase = "open"
  <2>1. PICK f \in Fds : fdOwner[f] = d
    BY <1>1 DEF OneDescriptorEach
  <2>2. /\ fdOwner'[f] = d /\ m_connections'[f].state = m_connections[f].state
        /\ Pending(f)' <=> Pending(f)
    BY <2>1 DEF Unmoved
  <2>3. /\ PhaseOf(d) = IF Pending(f) THEN "new" ELSE "open"
        /\ StateOf(d) = IF Pending(f) THEN "idle" ELSE m_connections[f].state
        /\ HeldOf(d)  = IF Pending(f) THEN 0 ELSE Balance(f)
    BY <2>1, View
  <2>4. /\ PhaseOf(d)' = IF Pending(f)' THEN "new" ELSE "open"
        /\ StateOf(d)' = IF Pending(f)' THEN "idle" ELSE m_connections'[f].state
        /\ HeldOf(d)'  = IF Pending(f)' THEN 0 ELSE Balance(f)'
    BY <2>2, ViewNext
  <2>5. Balance(f)' = Balance(f)
    BY <2>1, <2>2 DEF Unmoved, Balance
  <2> QED BY <2>2, <2>3, <2>4, <2>5 DEF SameView
<1>2. CASE sock[d].phase # "open"
  <2>1. sock'[d].phase # "open" /\ (sock'[d].phase = "closed" <=> sock[d].phase = "closed")
    BY <1>2 DEF Unmoved
  <2> QED BY <1>2, <2>1, ViewClosed DEF SameView
<1> QED BY <1>1, <1>2

(* How the accepts that are not handled change.                            *)
LEMMA PendingAppend ==
    ASSUME cq \in Seq(Completion), NEW e \in Completion, cq' = Append(cq, e)
    PROVE  \A f : Pending(f)' <=> Pending(f) \/ (e.ud = TagAccept /\ e.res = f)
<1>1. PICK n \in Nat : n = Len(cq)
  BY LenProperties
<1>2. /\ DOMAIN cq = 1 .. n /\ DOMAIN cq' = 1 .. n + 1
      /\ cq'[n + 1] = e /\ \A i \in 1 .. n : cq'[i] = cq[i]
  BY <1>1, AppendProperties, LenProperties
<1>3. /\ \A i \in 1 .. n + 1 : i \in 1 .. n \/ i = n + 1
      /\ n + 1 \in 1 .. n + 1 /\ \A i \in 1 .. n : i \in 1 .. n + 1
  BY <1>1
<1> QED BY <1>2, <1>3 DEF Pending

LEMMA PendingTail ==
    ASSUME cq \in Seq(Completion), cq # <<>>, cq' = Tail(cq)
    PROVE  \A f : Pending(f) <=> Pending(f)' \/ (Head(cq).ud = TagAccept /\ Head(cq).res = f)
<1>1. PICK n \in Nat : n + 1 = Len(cq) /\ Len(cq') = n
  <2>1. PICK l, m : l \in Nat /\ l = Len(cq) /\ m = Len(cq') /\ m = l - 1
    BY LenProperties, HeadTailProperties
  <2>2. l # 0
    BY <2>1, EmptySeq
  <2>3. m \in Nat /\ m + 1 = l
    BY <2>1, <2>2
  <2> QED BY <2>1, <2>3
<1>2. /\ Head(cq) = cq[1] /\ \A i \in 1 .. n : cq'[i] = cq[i + 1]
      /\ DOMAIN cq = 1 .. n + 1 /\ DOMAIN cq' = 1 .. n
  BY <1>1, HeadTailProperties, LenProperties
<1>3. /\ \A i \in 1 .. n : i + 1 \in 1 .. n + 1
      /\ \A i \in 1 .. n + 1 : i = 1 \/ (i - 1 \in 1 .. n /\ (i - 1) + 1 = i)
      /\ 1 \in 1 .. n + 1
  BY <1>1
<1>4. ASSUME NEW f, Pending(f)
      PROVE  Pending(f)' \/ (Head(cq).ud = TagAccept /\ Head(cq).res = f)
  <2>1. PICK i \in 1 .. n + 1 : cq[i].ud = TagAccept /\ cq[i].res = f
    BY <1>2, <1>4 DEF Pending
  <2>2. CASE i = 1
    BY <1>2, <2>1, <2>2
  <2>3. CASE i # 1
    <3>1. PICK j \in 1 .. n : j + 1 = i
      BY <1>3, <2>3
    <3> QED BY <1>2, <2>1, <3>1 DEF Pending
  <2> QED BY <2>2, <2>3
<1>5. ASSUME NEW f, Pending(f)' \/ (Head(cq).ud = TagAccept /\ Head(cq).res = f)
      PROVE  Pending(f)
  BY <1>2, <1>3, <1>5 DEF Pending
<1> QED BY <1>4, <1>5
-----------------------------------------------------------------------------
(* One client's turn in the contract.                                      *)
Turns(c) ==
    \/ /\ PhaseOf(c) = "new" /\ PhaseOf(c)' = "open"
       /\ StateOf(c)' \in {"idle", "read", "write"} /\ HeldOf(c)' = HeldOf(c)
    \/ /\ PhaseOf(c) = "new" /\ PhaseOf(c)' = "closed"
       /\ StateOf(c)' = StateOf(c) /\ HeldOf(c)' = HeldOf(c)
    \/ /\ PhaseOf(c) = "open" /\ PhaseOf(c)' = "open"
       /\ StateOf(c) = "read" /\ StateOf(c)' = "read"
       /\ \E n \in 1 .. BufferSize - HeldOf(c) : HeldOf(c)' = HeldOf(c) + n
    \/ /\ PhaseOf(c) = "open" /\ PhaseOf(c)' = "open"
       /\ StateOf(c) = "write" /\ StateOf(c)' = "write"
       /\ \E n \in 1 .. HeldOf(c) : HeldOf(c)' = HeldOf(c) - n
    \/ /\ PhaseOf(c) = "open" /\ PhaseOf(c)' = "open" /\ HeldOf(c)' = HeldOf(c)
       /\ \/ StateOf(c) = "read" /\ HeldOf(c) > 0
          \/ StateOf(c) = "write" /\ HeldOf(c) = 0
       /\ StateOf(c)' \in {"read", "write"}
    \/ /\ PhaseOf(c) = "open" /\ PhaseOf(c)' = "closed"
       /\ StateOf(c)' = "idle" /\ HeldOf(c)' = 0

LEMMA TurnIsStep ==
    ASSUME NEW c \in Clients, \A d \in Clients : d # c => SameView(d), Turns(c)
    PROVE  Contract!Next
<1>1. PICK p, q, s, t, h, k :
        /\ p = [d \in Clients |-> PhaseOf(d)] /\ q = [d \in Clients |-> PhaseOf(d)']
        /\ s = [d \in Clients |-> StateOf(d)] /\ t = [d \in Clients |-> StateOf(d)']
        /\ h = [d \in Clients |-> HeldOf(d)]  /\ k = [d \in Clients |-> HeldOf(d)']
  OBVIOUS
<1>2. /\ p[c] = PhaseOf(c) /\ s[c] = StateOf(c) /\ h[c] = HeldOf(c)
      /\ q = [p EXCEPT ![c] = PhaseOf(c)'] /\ t = [s EXCEPT ![c] = StateOf(c)']
      /\ k = [h EXCEPT ![c] = HeldOf(c)']
  <2>1. \A d \in Clients : d # c => q[d] = p[d] /\ t[d] = s[d] /\ k[d] = h[d]
    BY <1>1 DEF SameView
  <2> QED BY <1>1, <2>1
<1>3. /\ PhaseOf(c)' = PhaseOf(c) => q = p
      /\ StateOf(c)' = StateOf(c) => t = s
      /\ HeldOf(c)' = HeldOf(c) => k = h
  BY <1>1, <1>2
<1>4. /\ p = [d \in Clients |-> IF IsOpen(d) THEN "open"
                                 ELSE IF sock[d].phase = "closed" THEN "closed" ELSE "new"]
      /\ s = [d \in Clients |-> IF IsOpen(d) THEN m_connections[FdOf(d)].state ELSE "idle"]
      /\ h = [d \in Clients |-> IF IsOpen(d) THEN sock[d].in - sock[d].out ELSE 0]
  BY <1>1 DEF PhaseOf, StateOf, HeldOf
<1>5. /\ q = [d \in Clients |-> IF IsOpen(d)' THEN "open"
                                 ELSE IF sock'[d].phase = "closed" THEN "closed" ELSE "new"]
      /\ t = [d \in Clients |-> IF IsOpen(d)' THEN m_connections'[FdOf(d)'].state ELSE "idle"]
      /\ k = [d \in Clients |-> IF IsOpen(d)' THEN sock'[d].in - sock'[d].out ELSE 0]
  BY <1>1 DEF PhaseOf, StateOf, HeldOf
<1>6. CASE /\ PhaseOf(c) = "new" /\ PhaseOf(c)' = "open"
           /\ StateOf(c)' \in {"idle", "read", "write"} /\ HeldOf(c)' = HeldOf(c)
  <2>1. Contract!Open(c)
    BY <1>2, <1>3, <1>4, <1>5, <1>6 DEF Contract!Open
  <2> QED BY <2>1 DEF Contract!Next
<1>7. CASE /\ PhaseOf(c) = "new" /\ PhaseOf(c)' = "closed"
           /\ StateOf(c)' = StateOf(c) /\ HeldOf(c)' = HeldOf(c)
  <2>1. Contract!Refuse(c)
    BY <1>2, <1>3, <1>4, <1>5, <1>7 DEF Contract!Refuse
  <2> QED BY <2>1 DEF Contract!Next
<1>8. CASE /\ PhaseOf(c) = "open" /\ PhaseOf(c)' = "open"
           /\ StateOf(c) = "read" /\ StateOf(c)' = "read"
           /\ \E n \in 1 .. BufferSize - HeldOf(c) : HeldOf(c)' = HeldOf(c) + n
  <2>1. Contract!Receive(c)
    BY <1>1, <1>2, <1>3, <1>4, <1>5, <1>8 DEF Contract!Receive
  <2> QED BY <2>1 DEF Contract!Next
<1>9. CASE /\ PhaseOf(c) = "open" /\ PhaseOf(c)' = "open"
           /\ StateOf(c) = "write" /\ StateOf(c)' = "write"
           /\ \E n \in 1 .. HeldOf(c) : HeldOf(c)' = HeldOf(c) - n
  <2>1. Contract!Send(c)
    BY <1>1, <1>2, <1>3, <1>4, <1>5, <1>9 DEF Contract!Send
  <2> QED BY <2>1 DEF Contract!Next
<1>10. CASE /\ PhaseOf(c) = "open" /\ PhaseOf(c)' = "open" /\ HeldOf(c)' = HeldOf(c)
            /\ \/ StateOf(c) = "read" /\ HeldOf(c) > 0
               \/ StateOf(c) = "write" /\ HeldOf(c) = 0
            /\ StateOf(c)' \in {"read", "write"}
  <2>1. Contract!AskOnRead(c) \/ Contract!AskOnWrite(c)
    BY <1>2, <1>3, <1>4, <1>5, <1>10 DEF Contract!AskOnRead, Contract!AskOnWrite
  <2> QED BY <2>1 DEF Contract!Next
<1>11. CASE /\ PhaseOf(c) = "open" /\ PhaseOf(c)' = "closed"
            /\ StateOf(c)' = "idle" /\ HeldOf(c)' = 0
  <2>1. Contract!End(c)
    BY <1>2, <1>3, <1>4, <1>5, <1>11 DEF Contract!End
  <2> QED BY <2>1 DEF Contract!Next
<1> QED BY <1>6, <1>7, <1>8, <1>9, <1>10, <1>11 DEF Turns

(* Or nobody's.                                                            *)
LEMMA NoTurn ==
    ASSUME \A d \in Clients : SameView(d)
    PROVE  UNCHANGED Contract!vars
<1> DEFINE p == [d \in Clients |-> PhaseOf(d)]
           q == [d \in Clients |-> PhaseOf(d)']
           s == [d \in Clients |-> StateOf(d)]
           t == [d \in Clients |-> StateOf(d)']
           h == [d \in Clients |-> HeldOf(d)]
           k == [d \in Clients |-> HeldOf(d)']
<1>2. q = p /\ t = s /\ k = h
  BY DEF SameView
<1>3. /\ p = [d \in Clients |-> IF IsOpen(d) THEN "open"
                                 ELSE IF sock[d].phase = "closed" THEN "closed" ELSE "new"]
      /\ s = [d \in Clients |-> IF IsOpen(d) THEN m_connections[FdOf(d)].state ELSE "idle"]
      /\ h = [d \in Clients |-> IF IsOpen(d) THEN sock[d].in - sock[d].out ELSE 0]
  BY DEF PhaseOf, StateOf, HeldOf
<1>4. /\ q = [d \in Clients |-> IF IsOpen(d)' THEN "open"
                                 ELSE IF sock'[d].phase = "closed" THEN "closed" ELSE "new"]
      /\ t = [d \in Clients |-> IF IsOpen(d)' THEN m_connections'[FdOf(d)'].state ELSE "idle"]
      /\ k = [d \in Clients |-> IF IsOpen(d)' THEN sock'[d].in - sock'[d].out ELSE 0]
  BY DEF PhaseOf, StateOf, HeldOf
<1> HIDE DEF p, q, s, t, h, k
<1> QED BY <1>2, <1>3, <1>4 DEF Contract!vars

LEMMA QuietTurn ==
    ASSUME TagsDiffer, IInv, BInv,
           \/ Stop \/ WaitCqe \/ AcceptCrashes \/ Halted \/ PeerActs \/ EndOfBatch
           \/ UNCHANGED vars \/ LeaveLoop \/ WaitFails \/ AcceptFails
           \/ KernelStep(CompleteAcceptFails)
    PROVE  UNCHANGED Contract!vars
<1>1. /\ BInv' /\ SameBytes /\ fdOwner' = fdOwner
      /\ \A c \in Clients : sock'[c].phase = sock[c].phase
                         \/ (sock[c].phase = "new" /\ sock'[c].phase = "queued")
      /\ \A f \in Fds : m_connections'[f].state = m_connections[f].state
      /\ \A f \in Fds : Pending(f)' <=> Pending(f)
  <2>0. /\ cq \in Seq(Completion) /\ NoClient \notin Clients
        /\ \A f \in Fds : f \in Table
    BY Types, SocketAssumption, LoopAssumption DEF IInv
  <2>1. CASE Stop \/ WaitCqe \/ AcceptCrashes \/ Halted \/ PeerActs \/ EndOfBatch
             \/ UNCHANGED vars
    <3>1. /\ BInv' /\ SameBytes /\ UNCHANGED <<cq, table, fdOwner>>
          /\ \A c \in Clients : sock'[c].phase = sock[c].phase
                             \/ (sock[c].phase = "new" /\ sock'[c].phase = "queued")
      BY <2>1, QuietAccounts
    <3> QED BY <3>1 DEF table, Pending
  <2>2. CASE LeaveLoop \/ WaitFails
    <3>1. /\ BInv' /\ UNCHANGED <<sock, fdOwner, cq>>
          /\ \A f \in Table : m_connections'[f].state = m_connections[f].state
      BY <2>2, CleanupAccounts
    <3> QED BY <2>0, <3>1 DEF SameBytes, Pending
  <2>3. CASE AcceptFails
    <3>1. /\ BInv' /\ UNCHANGED <<sock, fdOwner, m_connections>>
          /\ cq' = Tail(cq) /\ cq # <<>> /\ Head(cq).res \notin Fds
      BY <2>3, AcceptGoneAccounts
    <3>2. \A f : Pending(f) <=> Pending(f)' \/ (Head(cq).ud = TagAccept /\ Head(cq).res = f)
      BY <2>0, <3>1, PendingTail
    <3> QED BY <3>1, <3>2 DEF SameBytes
  <2>4. CASE KernelStep(CompleteAcceptFails)
    <3>1. /\ BInv' /\ UNCHANGED <<table, sock, fdOwner>>
          /\ cq' = Append(cq, [ud |-> TagAccept, res |-> -1])
      BY <2>4, AcceptFailsAccounts
    <3>2. PICK e \in Completion : e = [ud |-> TagAccept, res |-> -1] /\ e.res \notin Fds
      <4>1. TagAccept \in Nat
        BY RingEntriesAssumption, SMT DEF TagAccept
      <4>2. [ud |-> TagAccept, res |-> -1] \in Completion
        BY <4>1 DEF Completion
      <4> QED BY <4>2, SocketAssumption
    <3>3. \A f : Pending(f)' <=> Pending(f) \/ (e.ud = TagAccept /\ e.res = f)
      BY <2>0, <3>1, <3>2, PendingAppend
    <3> QED BY <3>1, <3>2, <3>3 DEF SameBytes, table
  <2> QED BY <2>1, <2>2, <2>3, <2>4
<1>2. OneDescriptorEach /\ OneDescriptorEach' /\ NoClient \notin Clients
  BY <1>1, SocketAssumption DEF BInv
<1>3. \A d \in Clients : Unmoved(d)
  BY <1>1 DEF Unmoved, SameBytes
<1>4. \A d \in Clients : SameView(d)
  BY <1>2, <1>3, Unseen
<1> QED BY <1>4, NoTurn

(* The first of the backlog is accepted, but not by the loop yet.          *)
LEMMA AcceptTurn ==
    ASSUME TagsDiffer, IInv, BInv, KernelStep(CompleteAccept)
    PROVE  UNCHANGED Contract!vars
<1>1. PICK f \in Fds :
        /\ fdOwner[f] = NoClient /\ backlog # <<>>
        /\ fdOwner' = [fdOwner EXCEPT ![f] = Head(backlog)]
        /\ cq' = Append(cq, [ud |-> TagAccept, res |-> f])
        /\ Head(backlog) \in Clients /\ sock[Head(backlog)].phase = "queued"
        /\ \A d \in Clients : sock'[d].phase = IF d = Head(backlog) THEN "open"
                                                ELSE sock[d].phase
  BY AcceptAccounts
<1>2. BInv' /\ SameBytes /\ UNCHANGED table
  BY AcceptAccounts
<1>3. PICK c \in Clients : c = Head(backlog)
  BY <1>1
<1>4. /\ cq \in Seq(Completion) /\ NoClient \notin Clients
      /\ fdOwner \in [Fds -> Clients \cup {NoClient}]
      /\ OneDescriptorEach /\ OneDescriptorEach'
  BY <1>2, Types, SocketAssumption DEF IInv, BInv
<1>5. PICK e \in Completion : e = [ud |-> TagAccept, res |-> f]
  <2>1. TagAccept \in Nat
    BY RingEntriesAssumption, SMT DEF TagAccept
  <2>2. f \in Int
    BY SocketAssumption
  <2>3. [ud |-> TagAccept, res |-> f] \in Completion
    BY <2>1, <2>2 DEF Completion
  <2> QED BY <2>3
<1>6. \A g : Pending(g)' <=> Pending(g) \/ (e.ud = TagAccept /\ e.res = g)
  BY <1>1, <1>4, <1>5, PendingAppend
<1>7. ASSUME NEW d \in Clients, d # c PROVE SameView(d)
  <2>1. Unmoved(d)
    BY <1>1, <1>2, <1>3, <1>4, <1>5, <1>6, <1>7 DEF Unmoved, SameBytes, table
  <2> QED BY <1>4, <2>1, Unseen
<1>8. SameView(c)
  <2>1. fdOwner'[f] = c /\ Pending(f)'
    BY <1>1, <1>3, <1>4, <1>5, <1>6
  <2>2. PhaseOf(c)' = "new" /\ StateOf(c)' = "idle" /\ HeldOf(c)' = 0
    BY <1>4, <2>1, ViewNext
  <2>3. PhaseOf(c) = "new" /\ StateOf(c) = "idle" /\ HeldOf(c) = 0
    BY <1>1, <1>3, ViewClosed
  <2> QED BY <2>2, <2>3 DEF SameView
<1>9. \A d \in Clients : SameView(d)
  BY <1>7, <1>8
<1> QED BY <1>9, NoTurn

(* The loop accepts it, or closes it at once.                              *)
LEMMA OpenTurn ==
    ASSUME TagsDiffer, IInv, BInv, AcceptOne
    PROVE  Contract!Next
<1>1. PICK f \in Fds :
        /\ f = Head(cq).res /\ f \in Table /\ fdOwner[f] \in Clients
        /\ BufferOf(f) = NoBuffer /\ Balance(f) = 0
        /\ m_connections'[f].state \in {"idle", "read", "write"}
        /\ \A g \in Table : g # f => m_connections'[g] = m_connections[g]
  BY AcceptOneAccounts
<1>2. /\ BInv' /\ UNCHANGED <<sock, fdOwner>> /\ cq' = Tail(cq) /\ cq # <<>>
      /\ Head(cq).ud = TagAccept /\ \A i \in 1 .. Len(cq') : cq'[i].ud # TagAccept
  BY AcceptOneAccounts
<1>3. PICK c \in Clients : c = fdOwner[f]
  BY <1>1
<1>4. /\ cq \in Seq(Completion) /\ cq' \in Seq(Completion) /\ NoClient \notin Clients
      /\ OneDescriptorEach /\ OneDescriptorEach' /\ \A g \in Fds : g \in Table
  <2>1. cq \in Seq(Completion)
    BY Types DEF IInv
  <2>2. cq' \in Seq(Completion)
    BY <1>2, <2>1, HeadTailProperties
  <2> QED BY <1>2, <2>1, <2>2, SocketAssumption, LoopAssumption DEF BInv
<1>5. \A g : Pending(g) <=> Pending(g)' \/ (Head(cq).ud = TagAccept /\ Head(cq).res = g)
  BY <1>2, <1>4, PendingTail
<1>6. \A g : ~Pending(g)'
  <2>1. DOMAIN cq' = 1 .. Len(cq')
    BY <1>4, LenProperties
  <2> QED BY <1>2, <2>1 DEF Pending
<1>7. ASSUME NEW d \in Clients, d # c PROVE SameView(d)
  <2>1. ASSUME NEW g \in Fds, fdOwner[g] = d
        PROVE  /\ fdOwner'[g] = d /\ m_connections'[g].state = m_connections[g].state
               /\ Pending(g)' <=> Pending(g)
    <3>1. g # f /\ g \in Table
      BY <1>3, <1>4, <1>7, <2>1
    <3> QED BY <1>1, <1>2, <1>5, <1>6, <2>1, <3>1
  <2>2. Unmoved(d)
    BY <1>2, <2>1 DEF Unmoved
  <2> QED BY <1>4, <2>2, Unseen
<1>8. PhaseOf(c) = "new" /\ HeldOf(c) = 0
  <2>1. Pending(f)
    BY <1>1, <1>2, <1>5
  <2> QED BY <1>3, <1>4, <2>1, View
<1>9. /\ PhaseOf(c)' = "open" /\ HeldOf(c)' = 0
      /\ StateOf(c)' \in {"idle", "read", "write"}
  <2>1. fdOwner'[f] = c /\ ~Pending(f)'
    BY <1>2, <1>3, <1>6
  <2>2. PhaseOf(c)' = "open" /\ HeldOf(c)' = Balance(f)' /\ StateOf(c)' = m_connections'[f].state
    BY <1>4, <2>1, ViewNext
  <2>3. Balance(f)' = 0
    BY <1>1, <1>2 DEF Balance
  <2> QED BY <1>1, <2>2, <2>3
<1>10. Turns(c)
  BY <1>8, <1>9 DEF Turns
<1> QED BY <1>7, <1>10, TurnIsStep

LEMMA RefuseTurn ==
    ASSUME TagsDiffer, IInv, BInv, AcceptRefused
    PROVE  Contract!Next
<1>1. PICK f \in Fds : /\ f = Head(cq).res /\ f \in Table /\ fdOwner[f] \in Clients
                       /\ EndsAt(f)
  BY AcceptRefusedAccounts
<1>2. /\ BInv' /\ SameBytes /\ m_connections' = m_connections
      /\ cq' = Tail(cq) /\ cq # <<>>
      /\ Head(cq).ud = TagAccept /\ \A i \in 1 .. Len(cq') : cq'[i].ud # TagAccept
  BY AcceptRefusedAccounts
<1>3. PICK c \in Clients : c = fdOwner[f]
  BY <1>1
<1>4. /\ cq \in Seq(Completion) /\ cq' \in Seq(Completion) /\ NoClient \notin Clients
      /\ fdOwner \in [Fds -> Clients \cup {NoClient}]
      /\ OneDescriptorEach /\ OneDescriptorEach'
  <2>1. cq \in Seq(Completion) /\ fdOwner \in [Fds -> Clients \cup {NoClient}]
    BY Types DEF IInv
  <2>2. cq' \in Seq(Completion)
    BY <1>2, <2>1, HeadTailProperties
  <2> QED BY <1>2, <2>1, <2>2, SocketAssumption DEF BInv
<1>5. \A g : Pending(g) <=> Pending(g)' \/ (Head(cq).ud = TagAccept /\ Head(cq).res = g)
  BY <1>2, <1>4, PendingTail
<1>6. \A g : ~Pending(g)'
  <2>1. DOMAIN cq' = 1 .. Len(cq')
    BY <1>4, LenProperties
  <2> QED BY <1>2, <2>1 DEF Pending
<1>7. ASSUME NEW d \in Clients, d # c PROVE SameView(d)
  <2>1. ASSUME NEW g \in Fds, fdOwner[g] = d
        PROVE  /\ fdOwner'[g] = d /\ m_connections'[g].state = m_connections[g].state
               /\ Pending(g)' <=> Pending(g)
    <3>1. g # f
      BY <1>3, <1>7, <2>1
    <3> QED BY <1>1, <1>2, <1>4, <1>5, <1>6, <2>1, <3>1 DEF EndsAt
  <2>2. Unmoved(d)
    BY <1>1, <1>2, <1>3, <1>7, <2>1 DEF Unmoved, SameBytes, EndsAt
  <2> QED BY <1>4, <2>2, Unseen
<1>8. PhaseOf(c) = "new" /\ HeldOf(c) = 0 /\ StateOf(c) = "idle"
  <2>1. Pending(f)
    BY <1>1, <1>2, <1>5
  <2> QED BY <1>3, <1>4, <2>1, View
<1>9. PhaseOf(c)' = "closed" /\ HeldOf(c)' = 0 /\ StateOf(c)' = "idle"
  <2>1. sock'[c].phase = "closed"
    BY <1>1, <1>3 DEF EndsAt
  <2> QED BY <2>1, ViewClosed
<1>10. Turns(c)
  BY <1>8, <1>9 DEF Turns
<1> QED BY <1>7, <1>10, TurnIsStep

LEMMA NotPending ==
    ASSUME TagsDiffer, IInv, pc # "stopped", NEW f \in Fds, BufferOf(f) # NoBuffer
    PROVE  ~Pending(f)
<1>1. cq \in Seq(Completion) /\ QueuesInv
  BY Types DEF IInv
<1>2. PICK c : c = cq
  OBVIOUS
<1>3. \A i \in 1 .. Len(c) : CompletionCurrent(c[i], m_connections, ring, fdOwner)
  BY <1>1, <1>2 DEF QueuesInv
<1>4. \A i \in 1 .. Len(c) : c[i].ud = TagAccept => c[i].res # f
  BY <1>3, NotAccepted
<1>5. DOMAIN cq = 1 .. Len(cq)
  BY <1>1, LenProperties
<1> QED BY <1>2, <1>4, <1>5 DEF Pending

(* The kernel moves bytes.                                                 *)
LEMMA MoveTurn ==
    ASSUME TagsDiffer, IInv, BInv, NEW f \in Fds, KernelStep(KernelMove(f))
    PROVE  Contract!Next \/ UNCHANGED Contract!vars
<1>1. PICK x \in Nat, y \in Nat, e \in Completion :
        Moves(f, x, y) /\ cq' = Append(cq, e) /\ e.ud # TagAccept
  BY KernelBytes
<1>2. /\ m_connections' = m_connections /\ fdOwner' = fdOwner /\ pc # "stopped"
      /\ BufferOf(f) # NoBuffer /\ fdOwner[f] \in Clients
      /\ Balance(f) = Held(BufferOf(f))
  BY KernelBytes DEF table
<1>3. /\ cq \in Seq(Completion) /\ NoClient \notin Clients /\ Accounts /\ f \in Table
      /\ OneDescriptorEach /\ OneDescriptorEach'
  <2>1. BInv'
    BY MoveAccounts
  <2> QED BY <1>2, <2>1, Types, SocketAssumption, LoopAssumption DEF IInv, BInv
<1>4. PICK c \in Clients : c = fdOwner[f]
  BY <1>2
<1>5. \A g : Pending(g)' <=> Pending(g)
  <2>1. \A g : Pending(g)' <=> Pending(g) \/ (e.ud = TagAccept /\ e.res = g)
    BY <1>1, <1>3, PendingAppend
  <2> QED BY <1>1, <2>1
<1>6. ~Pending(f) /\ ~Pending(f)'
  BY <1>2, <1>5, NotPending
<1>7. PICK k \in Nat : k = Balance(f)
  <2>1. Balance(f) \in Nat
    BY <1>2, <1>3, RingOf
  <2> QED BY <2>1
<1>8. PICK m \in Int : m = Balance(f)' /\ m = (k + x) - y
  <2>1. sock[c].in \in Nat /\ sock[c].out \in Nat
    BY <1>4, Types, SocketCounts DEF IInv
  <2>2. /\ k = sock[c].in - sock[c].out
        /\ Balance(f)' = (sock[c].in + x) - (sock[c].out + y)
    BY <1>1, <1>2, <1>4, <1>7 DEF Balance, Moves
  <2>3. PICK i \in Nat, o \in Nat : i = sock[c].in /\ o = sock[c].out
    BY <2>1
  <2>4. PICK m \in Int : m = (i + x) - (o + y)
    OBVIOUS
  <2>5. k = i - o /\ m = Balance(f)'
    BY <2>2, <2>3, <2>4
  <2>6. m = (k + x) - y
    BY <2>4, <2>5
  <2> QED BY <2>5, <2>6
<1>9. ASSUME NEW d \in Clients, d # c PROVE SameView(d)
  <2>1. /\ sock'[d].phase = sock[d].phase
        /\ sock'[d].in = sock[d].in /\ sock'[d].out = sock[d].out
    BY <1>1, <1>4, <1>9 DEF Moves
  <2>2. Unmoved(d)
    BY <1>2, <1>5, <2>1 DEF Unmoved
  <2> QED BY <1>3, <2>2, Unseen
<1>10. /\ PhaseOf(c) = "open" /\ HeldOf(c) = k /\ StateOf(c) = m_connections[f].state
       /\ PhaseOf(c)' = "open" /\ HeldOf(c)' = m /\ StateOf(c)' = m_connections[f].state
  <2>1. PhaseOf(c) = "open" /\ HeldOf(c) = k /\ StateOf(c) = m_connections[f].state
    BY <1>3, <1>4, <1>6, <1>7, View
  <2>2. fdOwner'[f] = c
    BY <1>2, <1>4
  <2>3. PhaseOf(c)' = "open" /\ HeldOf(c)' = m /\ StateOf(c)' = m_connections'[f].state
    BY <1>3, <1>6, <1>8, <2>2, ViewNext
  <2> QED BY <1>2, <2>1, <2>3
<1>11. BufferSize \in Nat
  BY CounterFacts
<1>12. CASE x # 0
  <2>1. y = 0 /\ m_connections[f].state = "read" /\ k + x <= BufferSize
    BY <1>1, <1>7, <1>12 DEF Moves
  <2>2. x \in 1 .. BufferSize - k /\ m = k + x
    BY <1>8, <1>11, <1>12, <2>1
  <2>3. Turns(c)
    BY <1>10, <2>1, <2>2 DEF Turns
  <2> QED BY <1>9, <2>3, TurnIsStep
<1>13. CASE y # 0
  <2>1. x = 0 /\ m_connections[f].state = "write" /\ y <= k
    BY <1>1, <1>7, <1>13 DEF Moves
  <2>2. y \in 1 .. k /\ m = k - y
    BY <1>8, <1>13, <2>1
  <2>3. Turns(c)
    BY <1>10, <2>1, <2>2 DEF Turns
  <2> QED BY <1>9, <2>3, TurnIsStep
<1>14. CASE x = 0 /\ y = 0
  <2>1. m = k
    BY <1>8, <1>14
  <2>2. SameView(c)
    BY <1>10, <2>1 DEF SameView
  <2>3. \A d \in Clients : SameView(d)
    BY <1>9, <2>2
  <2> QED BY <2>3, NoTurn
<1> QED BY <1>12, <1>13, <1>14

(* A completion of a connection is handled.                                *)
LEMMA ConnectionTurn ==
    ASSUME TagsDiffer, IInv, BInv, ConnectionEnds \/ RecvCompleted \/ SendCompleted
    PROVE  Contract!Next \/ UNCHANGED Contract!vars
<1>1. PICK f \in Fds :
        /\ f \in Table /\ BufferOf(f) # NoBuffer
        /\ EndsAt(f) \/ GoesOnAt(f)
        /\ \A g \in Table : g # f => m_connections'[g] = m_connections[g]
  BY ConnectionAccounts
<1>2. /\ BInv' /\ SameBytes /\ cq' = Tail(cq) /\ cq # <<>> /\ Head(cq).ud # TagAccept
  BY ConnectionAccounts
<1>3. /\ cq \in Seq(Completion) /\ NoClient \notin Clients /\ pc # "stopped"
      /\ fdOwner \in [Fds -> Clients \cup {NoClient}] /\ \A g \in Fds : g \in Table
      /\ OneDescriptorEach /\ OneDescriptorEach'
  <2>1. pc # "stopped"
    BY DEF ConnectionEnds, RecvCompleted, SendCompleted, Completed, OfConnection, Handling
  <2> QED BY <1>2, <2>1, Types, SocketAssumption, LoopAssumption DEF IInv, BInv
<1>4. PICK c \in Clients : c = fdOwner[f]
  BY <1>1, <1>3 DEF IInv, PoolInv
<1>5. \A g : Pending(g)' <=> Pending(g)
  <2>1. \A g : Pending(g) <=> Pending(g)' \/ (Head(cq).ud = TagAccept /\ Head(cq).res = g)
    BY <1>2, <1>3, PendingTail
  <2> QED BY <1>2, <2>1
<1>6. ~Pending(f) /\ ~Pending(f)'
  BY <1>1, <1>3, <1>5, NotPending
<1>7. ASSUME NEW d \in Clients, d # c PROVE SameView(d)
  <2>1. ASSUME NEW g \in Fds, fdOwner[g] = d
        PROVE  fdOwner'[g] = d /\ m_connections'[g].state = m_connections[g].state
    <3>1. g # f /\ g \in Table
      BY <1>3, <1>4, <1>7, <2>1
    <3>2. fdOwner'[g] = fdOwner[g]
      BY <1>1, <1>3, <3>1 DEF EndsAt, GoesOnAt
    <3> QED BY <1>1, <2>1, <3>1, <3>2
  <2>2. sock'[d].phase = sock[d].phase
    BY <1>1, <1>4, <1>7 DEF EndsAt, GoesOnAt
  <2>3. Unmoved(d)
    BY <1>2, <1>5, <2>1, <2>2 DEF Unmoved, SameBytes
  <2> QED BY <1>3, <2>3, Unseen
<1>8. PhaseOf(c) = "open" /\ HeldOf(c) = Balance(f) /\ StateOf(c) = m_connections[f].state
  BY <1>3, <1>4, <1>6, View
<1>9. CASE EndsAt(f)
  <2>1. sock'[c].phase = "closed"
    BY <1>4, <1>9 DEF EndsAt
  <2>2. PhaseOf(c)' = "closed" /\ HeldOf(c)' = 0 /\ StateOf(c)' = "idle"
    BY <2>1, ViewClosed
  <2>3. Turns(c)
    BY <1>8, <2>2 DEF Turns
  <2> QED BY <1>7, <2>3, TurnIsStep
<1>10. CASE GoesOnAt(f)
  <2>1. fdOwner'[f] = c /\ Balance(f)' = Balance(f)
    BY <1>4, <1>10 DEF GoesOnAt, Balance
  <2>2. /\ PhaseOf(c)' = "open" /\ HeldOf(c)' = Balance(f)
        /\ StateOf(c)' = m_connections'[f].state
    BY <1>3, <1>6, <2>1, ViewNext
  <2>3. CASE m_connections'[f].state = m_connections[f].state
    <3>1. SameView(c)
      BY <1>8, <2>2, <2>3 DEF SameView
    <3>2. \A d \in Clients : SameView(d)
      BY <1>7, <3>1
    <3> QED BY <3>2, NoTurn
  <2>4. CASE m_connections'[f].state # m_connections[f].state
    <3>1. Turns(c)
      BY <1>8, <1>10, <2>2, <2>4 DEF Turns, GoesOnAt
    <3> QED BY <1>7, <3>1, TurnIsStep
  <2> QED BY <2>3, <2>4
<1> QED BY <1>1, <1>9, <1>10
-----------------------------------------------------------------------------
LEMMA StepKeepsContract ==
    ASSUME TagsDiffer, IInv, BInv, [Next]_vars
    PROVE  [Contract!Next]_(Contract!vars)
<1>1. CASE LoopStep
  <2>1. CASE WaitCqe \/ EndOfBatch \/ AcceptCrashes \/ LeaveLoop \/ AcceptFails
    BY <2>1, QuietTurn
  <2>2. CASE AcceptRefused
    BY <2>2, RefuseTurn
  <2>3. CASE AcceptOne
    BY <2>3, OpenTurn
  <2>4. CASE ConnectionEnds \/ RecvCompleted \/ SendCompleted
    BY <2>4, ConnectionTurn
  <2> QED BY <1>1, <2>1, <2>2, <2>3, <2>4 DEF LoopStep
<1>2. CASE WaitFails \/ Stop \/ Halted \/ PeerActs \/ UNCHANGED vars
  BY <1>2, QuietTurn
<1>3. CASE Completes
  <2>1. CASE KernelStep(KernelAccept)
    <3>1. KernelStep(CompleteAccept) \/ KernelStep(CompleteAcceptFails)
      BY <2>1 DEF KernelStep, KernelAccept
    <3> QED BY <3>1, AcceptTurn, QuietTurn
  <2>2. ASSUME NEW f \in Fds, KernelStep(KernelMove(f))
        PROVE  [Contract!Next]_(Contract!vars)
    BY <2>2, MoveTurn
  <2> QED BY <1>3, <2>1, <2>2 DEF Completes
<1> QED BY <1>1, <1>2, <1>3 DEF Next

(* Each connection behaves as the state machine the callbacks drive.       *)
THEOREM KeepsContract ==
    ASSUME TagsDiffer
    PROVE  Spec => ContractSpec
<1>1. Init => Contract!Init
  <2> SUFFICES ASSUME Init PROVE Contract!Init
    OBVIOUS
  <2>1. \A c \in Clients : sock[c].phase = "new"
    BY DEF Init, RingInit, SocketsInit
  <2>2. \A c \in Clients : ~IsOpen(c)
    BY <2>1 DEF IsOpen
  <2> QED BY <2>1, <2>2 DEF Contract!Init
<1>2. Spec => []IInv
  BY Invariance
<1>3. Init => BInv
  BY InitialAccounts
<1>4. IInv /\ BInv /\ [Next]_vars => BInv'
  BY AccountsInductive
<1>5. IInv /\ BInv /\ [Next]_vars => [Contract!Next]_(Contract!vars)
  BY StepKeepsContract
<1> QED BY <1>1, <1>2, <1>3, <1>4, <1>5, PTL DEF Spec, ContractSpec, Contract!Spec
=============================================================================
