---------------------------- MODULE SharedLemmas ----------------------------
(***************************************************************************)
(* What the proofs share.  First the counters of a ring, for every ring    *)
(* size and every width of the counters that RingAssumption allows.  Then  *)
(* the buffers: what allocate and redeem do to where they are, and what    *)
(* moving the counters of one ring does to the rings.  Then the sockets:   *)
(* what the clients and the kernel do to them keeps them sockets, gives    *)
(* each open connection one descriptor, and counts its bytes.  No state of *)
(* a loop is involved.                                                     *)
(***************************************************************************)
EXTENDS RingCounters, BufferPool, Sockets, Functions, FunctionTheorems, SequenceTheorems,
        FiniteSetTheorems, TLAPS

(* The provers handle "%" badly when it meets "*"; behind a name it is     *)
(* only what the lemmas say.                                               *)
Rem(x, m) == x % m

(* The one law of products the lemmas below need.                          *)
LEMMA Distribute ==
    ASSUME NEW a \in Int, NEW b \in Int, NEW m \in Int
    PROVE  a * m + b * m = (a + b) * m /\ a * m \in Int
    BY SMT

(* Division with remainder.                                                *)
LEMMA Remainder ==
    ASSUME NEW x \in Int, NEW m \in Nat \ {0}
    PROVE  /\ Rem(x, m) \in 0 .. m - 1
           /\ \E q \in Int : x = q * m + Rem(x, m)
<1>1. Rem(x, m) \in 0 .. m - 1
  BY SMT DEF Rem
<1>2. x = (x \div m) * m + Rem(x, m) /\ (x \div m) \in Int
  BY SMT DEF Rem
<1> QED BY <1>1, <1>2

(* There is one remainder only.                                            *)
LEMMA RemainderUnique ==
    ASSUME NEW x \in Int, NEW m \in Nat \ {0},
           NEW q \in Int, NEW r \in 0 .. m - 1, x = q * m + r
    PROVE  Rem(x, m) = r
    BY SMT DEF Rem

(* The remainder of a value below twice the modulus.                       *)
LEMMA RemainderAbove ==
    ASSUME NEW x \in Int, NEW m \in Nat \ {0}, 0 <= x, x < m + m
    PROVE  Rem(x, m) = IF x < m THEN x ELSE x - m
    BY SMT DEF Rem

(* The remainder of a negative value no further down than the modulus.     *)
LEMMA RemainderBelow ==
    ASSUME NEW x \in Int, NEW m \in Nat \ {0}, -m <= x, x < m
    PROVE  Rem(x, m) = IF 0 <= x THEN x ELSE x + m
    BY SMT DEF Rem

(* Whole multiples of the modulus do not count.                            *)
LEMMA RemainderShift ==
    ASSUME NEW j \in Int, NEW y \in Int, NEW m \in Nat \ {0}
    PROVE  Rem(j * m + y, m) = Rem(y, m)
<1> DEFINE r == Rem(y, m)
<1>1. r \in 0 .. m - 1
  BY Remainder
<1>2. PICK q \in Int : y = q * m + r
  BY Remainder
<1> HIDE DEF r
<1>3. j * m + y = (j + q) * m + r
  <2>1. j * m + q * m = (j + q) * m /\ j * m \in Int /\ q * m \in Int
    BY Distribute
  <2> QED BY <1>1, <1>2, <2>1, SMT
<1>4. j * m + y \in Int /\ j + q \in Int
  BY Distribute, SMT
<1> QED BY <1>1, <1>3, <1>4, RemainderUnique DEF r

(* Values less than a modulus apart have different remainders.             *)
LEMMA RemainderDistinct ==
    ASSUME NEW x \in Int, NEW d \in Int, NEW m \in Nat \ {0}, 0 < d, d < m
    PROVE  Rem(x, m) # Rem(x + d, m)
<1> DEFINE r == Rem(x, m)
<1>1. r \in 0 .. m - 1
  BY Remainder
<1>2. PICK q \in Int : x = q * m + r
  BY Remainder
<1> HIDE DEF r
<1>3. x + d = q * m + (r + d) /\ r + d \in Int
  BY <1>1, <1>2, Distribute, SMT
<1>4. Rem(x + d, m) = Rem(r + d, m)
  BY <1>3, RemainderShift
<1>5. r \in Int /\ r + d \in Int /\ 0 <= r + d /\ r + d < m + m
  BY <1>1, SMT
<1>6. Rem(r + d, m) = IF r + d < m THEN r + d ELSE r + d - m
  BY <1>5, RemainderAbove, SMT
<1>7. Rem(r + d, m) # r
  BY <1>1, <1>6, SMT
<1> QED BY <1>4, <1>7 DEF r

(* Taking the slot of a counter forgets that the counter has wrapped.      *)
LEMMA RemainderTwice ==
    ASSUME NEW x \in Int, NEW m \in Nat \ {0}, NEW w \in Nat \ {0}, Rem(w, m) = 0
    PROVE  Rem(Rem(x, w), m) = Rem(x, m)
<1> DEFINE r == Rem(x, w)
<1>1. r \in Int
  BY Remainder
<1>2. PICK q \in Int : x = q * w + r
  BY Remainder
<1>3. PICK k \in Int : w = k * m + Rem(w, m)
  <2>1. w \in Int
    OBVIOUS
  <2> QED BY <2>1, Remainder
<1> HIDE DEF r
<1>4. w = k * m
  <2>1. k * m \in Int
    BY SMT
  <2> QED BY <1>3, <2>1, SMT
<1>5. q * (k * m) = (q * k) * m /\ q * k \in Int
  BY SMT
<1>6. x = (q * k) * m + r
  BY <1>2, <1>4, <1>5
<1>7. Rem((q * k) * m + r, m) = Rem(r, m)
  BY <1>1, <1>5, RemainderShift
<1> QED BY <1>6, <1>7 DEF r

(* Equal remainders stay equal when the same is added.                     *)
LEMMA RemainderAdd ==
    ASSUME NEW x \in Int, NEW y \in Int, NEW i \in Int, NEW m \in Nat \ {0},
           Rem(x, m) = Rem(y, m)
    PROVE  Rem(x + i, m) = Rem(y + i, m)
<1> DEFINE r == Rem(x, m)
<1>1. r \in Int
  BY Remainder
<1>2. PICK p \in Int : x = p * m + r
  BY Remainder
<1>3. PICK q \in Int : y = q * m + r
  BY Remainder
<1> HIDE DEF r
<1>4. x + i = p * m + (r + i) /\ y + i = q * m + (r + i) /\ r + i \in Int
  BY <1>1, <1>2, <1>3, Distribute, SMT
<1>5. Rem(x + i, m) = Rem(r + i, m) /\ Rem(y + i, m) = Rem(r + i, m)
  <2>1. Rem(p * m + (r + i), m) = Rem(r + i, m)
    BY <1>4, RemainderShift
  <2>2. Rem(q * m + (r + i), m) = Rem(r + i, m)
    BY <1>4, RemainderShift
  <2> QED BY <1>4, <2>1, <2>2
<1> QED BY <1>5

(* RingAssumption, in the form the lemmas use.                             *)
LEMMA CounterFacts ==
    /\ BufferSize \in Nat \ {0}
    /\ CounterModulus \in Nat \ {0}
    /\ BufferSize < CounterModulus
    /\ Rem(CounterModulus, BufferSize) = 0
    BY RingAssumption, SMT DEF Rem

(* The count without the remainder.                                        *)
LEMMA CountCases ==
    ASSUME NEW head \in Counter, NEW tail \in Counter
    PROVE  /\ Count(head, tail) \in Counter
           /\ Count(head, tail) = IF head <= tail THEN tail - head
                                  ELSE tail - head + CounterModulus
<1>1. /\ tail - head \in Int
      /\ -CounterModulus <= tail - head /\ tail - head < CounterModulus
  BY CounterFacts, SMT DEF Counter
<1>2. Count(head, tail) = Rem(tail - head, CounterModulus)
  BY DEF Count, Rem
<1> QED BY <1>1, <1>2, CounterFacts, RemainderBelow, SMT DEF Counter

(* Advance without the remainder.                                          *)
LEMMA AdvanceCases ==
    ASSUME NEW c \in Counter, NEW n \in 0 .. CounterModulus
    PROVE  /\ Advance(c, n) \in Counter
           /\ Advance(c, n) = IF c + n < CounterModulus THEN c + n
                              ELSE c + n - CounterModulus
<1>1. c + n \in Int /\ 0 <= c + n /\ c + n < CounterModulus + CounterModulus
  BY CounterFacts, SMT DEF Counter
<1>2. Advance(c, n) = Rem(c + n, CounterModulus)
  BY DEF Advance, Rem
<1> QED BY <1>1, <1>2, CounterFacts, RemainderAbove, SMT DEF Counter

(* Moving m_tail adds to the count what it moves by, if that fits.         *)
LEMMA TailMoves ==
    ASSUME NEW head \in Counter, NEW tail \in Counter, NEW n \in Nat,
           Count(head, tail) + n <= BufferSize
    PROVE  /\ Advance(tail, n) \in Counter
           /\ Count(head, Advance(tail, n)) = Count(head, tail) + n
<1> DEFINE t == Advance(tail, n)
           k == Count(head, tail)
           l == Count(head, t)
<1>1. /\ k \in Counter
      /\ k = IF head <= tail THEN tail - head ELSE tail - head + CounterModulus
  BY CountCases
<1>2. n \in 0 .. CounterModulus
  BY <1>1, CounterFacts, SMT DEF Counter
<1>3. /\ t \in Counter
      /\ t = IF tail + n < CounterModulus THEN tail + n ELSE tail + n - CounterModulus
  BY <1>2, AdvanceCases
<1>4. l = IF head <= t THEN t - head ELSE t - head + CounterModulus
  BY <1>3, CountCases
<1> HIDE DEF t, k, l
<1>5. k + n <= BufferSize
  BY DEF k
<1>6. l = k + n
  BY <1>1, <1>2, <1>3, <1>4, <1>5, CounterFacts, SMT DEF Counter
<1> QED BY <1>3, <1>6 DEF t, k, l

(* Moving m_head takes from the count what it moves by, if it is there.    *)
LEMMA HeadMoves ==
    ASSUME NEW head \in Counter, NEW tail \in Counter, NEW n \in Nat,
           n <= Count(head, tail)
    PROVE  /\ Advance(head, n) \in Counter
           /\ Count(Advance(head, n), tail) = Count(head, tail) - n
<1> DEFINE h == Advance(head, n)
           k == Count(head, tail)
           l == Count(h, tail)
<1>1. /\ k \in Counter
      /\ k = IF head <= tail THEN tail - head ELSE tail - head + CounterModulus
  BY CountCases
<1>2. n \in 0 .. CounterModulus
  BY <1>1, CounterFacts, SMT DEF Counter
<1>3. /\ h \in Counter
      /\ h = IF head + n < CounterModulus THEN head + n ELSE head + n - CounterModulus
  BY <1>2, AdvanceCases
<1>4. l = IF h <= tail THEN tail - h ELSE tail - h + CounterModulus
  BY <1>3, CountCases
<1> HIDE DEF h, k, l
<1>5. n <= k
  BY DEF k
<1>6. l = k - n
  BY <1>1, <1>2, <1>3, <1>4, <1>5, CounterFacts, SMT DEF Counter
<1> QED BY <1>3, <1>6 DEF h, k, l

(* A chunk is no longer than what is left, and ends within the array.      *)
LEMMA ChunkBounds ==
    ASSUME NEW c \in Counter, NEW left \in 0 .. BufferSize
    PROVE  /\ SlotOf(c) \in Slot
           /\ Chunk(c, left) \in 0 .. left
           /\ SlotOf(c) + Chunk(c, left) <= BufferSize
<1>1. SlotOf(c) \in 0 .. BufferSize - 1
  <2>1. c \in Int
    BY CounterFacts, SMT DEF Counter
  <2> QED BY <2>1, CounterFacts, Remainder DEF SlotOf, Rem
<1> QED
  BY <1>1, CounterFacts, SMT DEF Chunk, Smaller, Slot

(* The slot of a counter that is at most a ring further on.                *)
LEMMA SlotFurtherOn ==
    ASSUME NEW c \in Int, NEW k \in Int, 0 <= k, k <= BufferSize
    PROVE  SlotOf(c + k) = IF SlotOf(c) + k < BufferSize THEN SlotOf(c) + k
                           ELSE SlotOf(c) + k - BufferSize
<1>1. BufferSize \in Nat \ {0}
  BY CounterFacts
<1>2. Rem(c, BufferSize) \in 0 .. BufferSize - 1
  BY <1>1, Remainder
<1>3. PICK h \in Int : h = Rem(c, BufferSize) /\ 0 <= h /\ h < BufferSize
  BY <1>1, <1>2, SMT
<1>4. Rem(h, BufferSize) = h
  BY <1>1, <1>3, RemainderAbove, SMT
<1>5. Rem(c + k, BufferSize) = Rem(h + k, BufferSize)
  <2>1. Rem(c, BufferSize) = Rem(h, BufferSize)
    BY <1>3, <1>4
  <2> QED BY <1>1, <2>1, RemainderAdd
<1>6. Rem(h + k, BufferSize) = IF h + k < BufferSize THEN h + k ELSE h + k - BufferSize
  <2>1. h + k \in Int /\ 0 <= h + k /\ h + k < BufferSize + BufferSize
    BY <1>1, <1>3, SMT
  <2> QED BY <1>1, <2>1, RemainderAbove, SMT
<1>7. SlotOf(c) = h /\ SlotOf(c + k) = Rem(c + k, BufferSize)
  BY <1>3 DEF SlotOf, Rem
<1> QED BY <1>5, <1>6, <1>7

(* The slot of m_tail is as far from the one of m_head as the count says.  *)
LEMMA TailSlot ==
    ASSUME NEW head \in Counter, NEW tail \in Counter
    PROVE  SlotOf(head + Count(head, tail)) = SlotOf(tail)
<1>1. PICK k \in Int : /\ k = Count(head, tail)
                       /\ k \in Counter
                       /\ k = IF head <= tail THEN tail - head
                              ELSE tail - head + CounterModulus
  <2>1. /\ Count(head, tail) \in Counter
        /\ Count(head, tail) = IF head <= tail THEN tail - head
                               ELSE tail - head + CounterModulus
    BY CountCases
  <2>2. Count(head, tail) \in Int
    BY <2>1, CounterFacts, SMT DEF Counter
  <2> QED BY <2>1, <2>2
<1>2. PICK y \in Int : /\ y = head + k
                       /\ 0 <= y /\ y < CounterModulus + CounterModulus
  BY <1>1, CounterFacts, SMT DEF Counter
<1>3. Rem(y, CounterModulus) = IF y < CounterModulus THEN y ELSE y - CounterModulus
  BY <1>2, CounterFacts, RemainderAbove, SMT
<1>4. Rem(y, CounterModulus) = tail
  BY <1>1, <1>2, <1>3, CounterFacts, SMT DEF Counter
<1>5. Rem(Rem(y, CounterModulus), BufferSize) = Rem(y, BufferSize)
  BY CounterFacts, RemainderTwice
<1> QED BY <1>1, <1>2, <1>4, <1>5 DEF SlotOf, Rem

(* The regions of the direct access pair are never more than is free, or   *)
(* there, nor past the end of the array; a free region is empty only when  *)
(* the buffer is full.                                                     *)
LEMMA RegionBounds ==
    ASSUME NEW head \in Counter, NEW tail \in Counter, Count(head, tail) <= BufferSize
    PROVE  /\ FreeSpace(head, tail) \in 0 .. BufferSize
           /\ FreeRegion(head, tail) \in 0 .. FreeSpace(head, tail)
           /\ FreeRegion(head, tail) = 0 <=> Count(head, tail) = BufferSize
           /\ UsedRegion(head, tail) \in 0 .. Count(head, tail)
           /\ SlotOf(head) + UsedRegion(head, tail) <= BufferSize
<1> DEFINE h == SlotOf(head)
           t == SlotOf(tail)
           k == Count(head, tail)
<1>1. /\ k \in Counter
      /\ k = IF head <= tail THEN tail - head ELSE tail - head + CounterModulus
  BY CountCases
<1>2. k \in Int /\ 0 <= k /\ k <= BufferSize /\ (head = tail <=> k = 0)
  BY <1>1, CounterFacts, SMT DEF Counter
<1>3. t = IF h + k < BufferSize THEN h + k ELSE h + k - BufferSize
  <2>1. head \in Int
    BY CounterFacts, SMT DEF Counter
  <2>2. SlotOf(head + k) = IF h + k < BufferSize THEN h + k ELSE h + k - BufferSize
    BY <1>2, <2>1, SlotFurtherOn
  <2> QED BY <2>2, TailSlot
<1>4. h \in Int /\ 0 <= h /\ h < BufferSize
  <2>1. head \in Int
    BY CounterFacts, SMT DEF Counter
  <2>2. Rem(head, BufferSize) \in 0 .. BufferSize - 1
    BY <2>1, CounterFacts, Remainder
  <2> QED BY <2>2, CounterFacts, SMT DEF SlotOf, Rem
<1>5. FreeRegion(head, tail) = IF k >= BufferSize THEN 0
                               ELSE IF h > t THEN h - t ELSE BufferSize - t
  BY DEF FreeRegion
<1>6. UsedRegion(head, tail) = IF head = tail THEN 0
                               ELSE IF h <= t THEN t - h ELSE BufferSize - h
  BY DEF UsedRegion
<1>7. FreeSpace(head, tail) = BufferSize - k
  BY DEF FreeSpace
<1> HIDE DEF h, t, k
<1>8. /\ FreeSpace(head, tail) \in 0 .. BufferSize
      /\ FreeRegion(head, tail) \in 0 .. FreeSpace(head, tail)
      /\ FreeRegion(head, tail) = 0 <=> k = BufferSize
  BY <1>2, <1>3, <1>4, <1>5, <1>7, CounterFacts, SMT
<1>9. /\ UsedRegion(head, tail) \in 0 .. k
      /\ h + UsedRegion(head, tail) <= BufferSize
  BY <1>2, <1>3, <1>4, <1>6, CounterFacts, SMT
<1> QED BY <1>8, <1>9 DEF h, t, k

(* The slots of bytes that are less than a ring apart do not meet.         *)
LEMMA DisjointSlots ==
    ASSUME NEW head \in Counter, NEW tail \in Counter,
           NEW n \in Nat, Count(head, tail) + n <= BufferSize
    PROVE  SlotsFrom(tail, n) \cap SlotsFrom(head, Count(head, tail)) = {}
<1> DEFINE k == Count(head, tail)
<1>1. /\ k \in Counter
      /\ k = IF head <= tail THEN tail - head ELSE tail - head + CounterModulus
  BY CountCases
<1>2. head \in Int /\ tail \in Int /\ k \in Nat /\ k + n <= BufferSize
  BY <1>1, CounterFacts, SMT DEF Counter
<1> HIDE DEF k
<1>3. SlotOf(tail) = SlotOf(head + k)
  BY TailSlot DEF k
<1>4. SUFFICES ASSUME NEW i \in 0 .. n - 1, NEW j \in 0 .. k - 1,
                      SlotOf(tail + i) = SlotOf(head + j)
               PROVE  FALSE
  BY DEF SlotsFrom, k
<1>5. SlotOf(tail + i) = SlotOf((head + k) + i)
  <2> DEFINE y == head + k
  <2>1. tail \in Int /\ y \in Int /\ i \in Int /\ BufferSize \in Nat \ {0}
    BY <1>2, CounterFacts, SMT
  <2>2. Rem(tail, BufferSize) = Rem(y, BufferSize)
    BY <1>3 DEF SlotOf, Rem
  <2> HIDE DEF y
  <2>3. Rem(tail + i, BufferSize) = Rem(y + i, BufferSize)
    BY <2>1, <2>2, RemainderAdd
  <2> QED BY <2>3 DEF SlotOf, Rem, y
<1>6. SlotOf(head + j) # SlotOf((head + j) + (k + i - j))
  <2>1. /\ head + j \in Int /\ k + i - j \in Int
        /\ 0 < k + i - j /\ k + i - j < BufferSize
    BY <1>2, CounterFacts, SMT
  <2> QED BY <2>1, CounterFacts, RemainderDistinct DEF SlotOf, Rem
<1>7. (head + j) + (k + i - j) = (head + k) + i
  BY <1>2, SMT
<1> QED
  BY <1>4, <1>5, <1>6, <1>7

(* A buffer is empty when its counters are the same, and only then.        *)
LEMMA EmptyCount ==
    ASSUME NEW head \in Counter, NEW tail \in Counter
    PROVE  IsEmpty(head, tail) <=> Count(head, tail) = 0
<1>1. Count(head, tail) = IF head <= tail THEN tail - head
                          ELSE tail - head + CounterModulus
  BY CountCases
<1>2. head \in 0 .. CounterModulus - 1 /\ tail \in 0 .. CounterModulus - 1
  BY DEF Counter
<1> QED BY <1>1, <1>2, CounterFacts, SMT DEF IsEmpty
-----------------------------------------------------------------------------
(* Of n buffers, each is in exactly one place: once among the first k of   *)
(* the pool pl, or with one entry of the table buf.                        *)
Conserved(pl, k, n, F, buf) ==
    /\ k \in Nat /\ n \in Nat
    /\ \A i \in 1 .. k : pl[i] \in 1 .. n
    /\ \A f \in F : buf[f] \in 0 .. n
    /\ \A f, g \in F : (f # g /\ buf[f] # 0) => buf[f] # buf[g]
    /\ \A i, j \in 1 .. k : i # j => pl[i] # pl[j]
    /\ \A f \in F : \A i \in 1 .. k : buf[f] # pl[i]
    /\ \A b \in 1 .. n : (\E f \in F : buf[f] = b) \/ (\E i \in 1 .. k : pl[i] = b)

(* The buffer of one entry goes back to the pool.                          *)
LEMMA ConservedPush ==
    ASSUME NEW pl, NEW k, NEW n, NEW F, NEW buf, Conserved(pl, k, n, F, buf),
           NEW f \in F, buf[f] # 0, NEW p, NEW t,
           \A i \in 1 .. k : p[i] = pl[i], p[k + 1] = buf[f],
           t[f] = 0, \A g \in F : g # f => t[g] = buf[g]
    PROVE  Conserved(p, k + 1, n, F, t)
<1>1. /\ k \in Nat /\ n \in Nat /\ k + 1 \in Nat /\ buf[f] \in 1 .. n
      /\ \A i \in 1 .. k + 1 : i \in 1 .. k \/ i = k + 1
      /\ k + 1 \in 1 .. k + 1 /\ \A i \in 1 .. k : i \in 1 .. k + 1
  BY SMT DEF Conserved
<1>2. \A i \in 1 .. k + 1 : p[i] \in 1 .. n
  BY <1>1 DEF Conserved
<1>3. \A g \in F : t[g] \in 0 .. n
  BY <1>1 DEF Conserved
<1>4. \A g, h \in F : (g # h /\ t[g] # 0) => t[g] # t[h]
  BY DEF Conserved
<1>5. \A i, j \in 1 .. k + 1 : i # j => p[i] # p[j]
  BY <1>1 DEF Conserved
<1>6. \A g \in F : \A i \in 1 .. k + 1 : t[g] # p[i]
  <2> SUFFICES ASSUME NEW g \in F, NEW i \in 1 .. k + 1 PROVE t[g] # p[i]
    OBVIOUS
  <2>1. CASE g = f
    BY <1>2, <2>1
  <2>2. CASE g # f
    BY <1>1, <2>2 DEF Conserved
  <2> QED BY <2>1, <2>2
<1>7. \A b \in 1 .. n : (\E g \in F : t[g] = b) \/ (\E i \in 1 .. k + 1 : p[i] = b)
  <2> SUFFICES ASSUME NEW b \in 1 .. n, b # buf[f]
               PROVE  (\E g \in F : t[g] = b) \/ (\E i \in 1 .. k + 1 : p[i] = b)
    BY <1>1
  <2> QED BY <1>1 DEF Conserved
<1> QED BY <1>1, <1>2, <1>3, <1>4, <1>5, <1>6, <1>7 DEF Conserved

(* An entry without a buffer is given the last of the pool.                *)
LEMMA ConservedPop ==
    ASSUME NEW pl, NEW k, NEW n, NEW F, NEW buf, Conserved(pl, k, n, F, buf), k # 0,
           NEW f \in F, buf[f] = 0, NEW p, NEW t,
           \A i \in 1 .. k - 1 : p[i] = pl[i],
           t[f] = pl[k], \A g \in F : g # f => t[g] = buf[g]
    PROVE  Conserved(p, k - 1, n, F, t)
<1>1. /\ k \in Nat /\ n \in Nat /\ k - 1 \in Nat /\ k \in 1 .. k /\ pl[k] \in 1 .. n
      /\ \A i \in 1 .. k - 1 : i \in 1 .. k /\ i # k
      /\ \A i \in 1 .. k : i \in 1 .. k - 1 \/ i = k
  BY SMT DEF Conserved
<1>2. \A i \in 1 .. k - 1 : p[i] \in 1 .. n
  BY <1>1 DEF Conserved
<1>3. \A g \in F : t[g] \in 0 .. n
  BY <1>1 DEF Conserved
<1>4. \A g, h \in F : (g # h /\ t[g] # 0) => t[g] # t[h]
  BY <1>1 DEF Conserved
<1>5. \A i, j \in 1 .. k - 1 : i # j => p[i] # p[j]
  BY <1>1 DEF Conserved
<1>6. \A g \in F : \A i \in 1 .. k - 1 : t[g] # p[i]
  BY <1>1 DEF Conserved
<1>7. \A b \in 1 .. n : (\E g \in F : t[g] = b) \/ (\E i \in 1 .. k - 1 : p[i] = b)
  <2> SUFFICES ASSUME NEW b \in 1 .. n, b # pl[k]
               PROVE  (\E g \in F : t[g] = b) \/ (\E i \in 1 .. k - 1 : p[i] = b)
    BY <1>1
  <2>1. CASE \E g \in F : buf[g] = b
    BY <2>1, <1>1
  <2>2. CASE \E i \in 1 .. k : pl[i] = b
    BY <2>2, <1>1
  <2> QED BY <2>1, <2>2 DEF Conserved
<1> QED BY <1>1, <1>2, <1>3, <1>4, <1>5, <1>6, <1>7 DEF Conserved

(* The pool is empty: an entry without a buffer is given a new one.        *)
LEMMA ConservedNew ==
    ASSUME NEW pl, NEW n, NEW F, NEW buf, Conserved(pl, 0, n, F, buf),
           NEW f \in F, NEW p, NEW t, buf[f] = 0,
           t[f] = n + 1, \A g \in F : g # f => t[g] = buf[g]
    PROVE  Conserved(p, 0, n + 1, F, t)
<1>1. /\ n \in Nat /\ n + 1 \in Nat /\ n + 1 # 0
      /\ \A b \in 0 .. n : b \in 0 .. n + 1 /\ b # n + 1
      /\ \A b \in 1 .. n + 1 : b \in 1 .. n \/ b = n + 1
      /\ n + 1 \in 0 .. n + 1 /\ \A i \in 1 .. 0 : FALSE
  BY SMT DEF Conserved
<1>2. \A g \in F : t[g] \in 0 .. n + 1
  BY <1>1 DEF Conserved
<1>3. \A g, h \in F : (g # h /\ t[g] # 0) => t[g] # t[h]
  BY <1>1 DEF Conserved
<1>4. \A b \in 1 .. n + 1 : \E g \in F : t[g] = b
  <2> SUFFICES ASSUME NEW b \in 1 .. n, b # n + 1 PROVE \E g \in F : t[g] = b
    BY <1>1
  <2>1. PICK g \in F : buf[g] = b
    BY <1>1 DEF Conserved
  <2>2. g # f
    BY <2>1, SMT
  <2> QED BY <2>1, <2>2
<1> QED BY <1>1, <1>2, <1>3, <1>4 DEF Conserved
(* A new buffer is made and goes to the empty pool.                        *)
LEMMA ConservedSpare ==
    ASSUME NEW pl, NEW n, NEW F, NEW buf, Conserved(pl, 0, n, F, buf),
           NEW p, p[1] = n + 1
    PROVE  Conserved(p, 1, n + 1, F, buf)
<1>1. /\ 1 \in Nat /\ n + 1 \in Nat
      /\ \A b \in 0 .. n : b \in 0 .. n + 1 /\ b # n + 1
      /\ \A b \in 1 .. n + 1 : b \in 1 .. n \/ b = n + 1
      /\ n + 1 \in 1 .. n + 1 /\ 1 \in 1 .. 1
      /\ (\A i \in 1 .. 1 : i = 1) /\ \A i \in 1 .. 0 : FALSE
  BY SMT DEF Conserved
<1>2. /\ \A i \in 1 .. 1 : p[i] \in 1 .. n + 1
      /\ \A f \in F : buf[f] \in 0 .. n + 1
      /\ \A f, g \in F : (f # g /\ buf[f] # 0) => buf[f] # buf[g]
  BY <1>1 DEF Conserved
<1>3. /\ \A i, j \in 1 .. 1 : i # j => p[i] # p[j]
      /\ \A f \in F : \A i \in 1 .. 1 : buf[f] # p[i]
  BY <1>1 DEF Conserved
<1>4. \A b \in 1 .. n + 1 : (\E f \in F : buf[f] = b) \/ (\E i \in 1 .. 1 : p[i] = b)
  BY <1>1 DEF Conserved
<1> QED BY <1>1, <1>2, <1>3, <1>4 DEF Conserved

(* It matters only which buffers the pool holds.                           *)
LEMMA ConservedSame ==
    ASSUME NEW pl, NEW k, NEW n, NEW F, NEW buf, Conserved(pl, k, n, F, buf),
           NEW p, \A i \in 1 .. k : p[i] = pl[i]
    PROVE  Conserved(p, k, n, F, buf)
    BY DEF Conserved

(* The buffers of all entries go back to the pool, in an order s.          *)
AllReturn(pl, k, F, buf, m, s, p, t) ==
    /\ m \in Nat
    /\ \A j \in 1 .. m : s[j] # 0 /\ \E f \in F : s[j] = buf[f]
    /\ \A i, j \in 1 .. m : i # j => s[i] # s[j]
    /\ \A f \in F : buf[f] # 0 => \E j \in 1 .. m : s[j] = buf[f]
    /\ \A i \in 1 .. k : p[i] = pl[i]
    /\ \A j \in 1 .. m : p[k + j] = s[j]
    /\ \A f \in F : t[f] = 0

LEMMA ConservedAll ==
    ASSUME NEW pl, NEW k, NEW n, NEW F, NEW buf, Conserved(pl, k, n, F, buf),
           NEW m, NEW s, NEW p, NEW t, AllReturn(pl, k, F, buf, m, s, p, t)
    PROVE  Conserved(p, k + m, n, F, t)
<1> USE DEF AllReturn
<1>1. /\ k \in Nat /\ n \in Nat /\ k + m \in Nat
      /\ \A i \in 1 .. k + m : i \in 1 .. k \/ \E j \in 1 .. m : i = k + j
      /\ (\A j \in 1 .. m : k + j \in 1 .. k + m) /\ \A i \in 1 .. k : i \in 1 .. k + m
      /\ \A b \in 0 .. n : b # 0 => b \in 1 .. n
      /\ 0 \in 0 .. n /\ \A b \in 1 .. n : b # 0
  <2>1. k \in Nat /\ n \in Nat
    BY DEF Conserved
  <2>2. ASSUME NEW i \in 1 .. k + m, i \notin 1 .. k PROVE \E j \in 1 .. m : i = k + j
    <3>1. i - k \in 1 .. m /\ i = k + (i - k)
      BY <2>1, <2>2
    <3> QED BY <3>1
  <2> QED BY <2>1, <2>2
<1>2. \A j \in 1 .. m : s[j] \in 1 .. n
  BY <1>1 DEF Conserved
<1>3. \A i \in 1 .. k + m : p[i] \in 1 .. n
  <2>1. ASSUME NEW i \in 1 .. k PROVE p[i] \in 1 .. n
    BY DEF Conserved
  <2> QED BY <1>1, <1>2, <2>1
<1>4. \A i \in 1 .. k : \A j \in 1 .. m : p[i] # p[k + j]
  <2> SUFFICES ASSUME NEW i \in 1 .. k, NEW j \in 1 .. m PROVE p[i] # p[k + j]
    OBVIOUS
  <2>1. PICK f \in F : p[k + j] = buf[f]
    OBVIOUS
  <2>2. p[i] = pl[i] /\ buf[f] # pl[i]
    BY DEF Conserved
  <2> QED BY <2>1, <2>2
<1>5. \A i, j \in 1 .. k : i # j => p[i] # p[j]
  BY DEF Conserved
<1>6. \A i, j \in 1 .. k + m : i # j => p[i] # p[j]
  <2> SUFFICES ASSUME NEW i \in 1 .. k + m, NEW j \in 1 .. k + m, i # j
               PROVE  p[i] # p[j]
    OBVIOUS
  <2>1. CASE i \in 1 .. k
    BY <1>1, <1>4, <1>5, <2>1
  <2>2. CASE j \in 1 .. k
    BY <1>1, <1>4, <1>5, <2>2
  <2>3. ASSUME NEW x \in 1 .. m, NEW y \in 1 .. m, i = k + x, j = k + y
        PROVE  p[i] # p[j]
    BY <2>3
  <2> QED BY <1>1, <2>1, <2>2, <2>3
<1>7. \A b \in 1 .. n : \E i \in 1 .. k + m : p[i] = b
  <2> SUFFICES ASSUME NEW b \in 1 .. n PROVE \E i \in 1 .. k + m : p[i] = b
    OBVIOUS
  <2>1. CASE \E f \in F : buf[f] = b
    <3>1. PICK j \in 1 .. m : s[j] = b
      BY <1>1, <2>1
    <3>2. p[k + j] = b /\ k + j \in 1 .. k + m
      BY <1>1, <3>1
    <3> QED BY <3>2
  <2>2. CASE \E i \in 1 .. k : pl[i] = b
    <3>1. PICK i \in 1 .. k : pl[i] = b
      BY <2>2
    <3>2. p[i] = b /\ i \in 1 .. k + m
      BY <1>1, <3>1
    <3> QED BY <3>2
  <2> QED BY <2>1, <2>2 DEF Conserved
<1>8. \A f \in F : t[f] \in 0 .. n /\ \A i \in 1 .. k + m : t[f] # p[i]
  BY <1>1, <1>3
<1> QED BY <1>1, <1>3, <1>6, <1>7, <1>8 DEF Conserved

(* When the pool is empty, all buffers are with other entries.             *)
LEMMA RoomForNew ==
    ASSUME NEW pl, NEW n, NEW F, IsFiniteSet(F), NEW buf, Conserved(pl, 0, n, F, buf),
           NEW f \in F, buf[f] = 0
    PROVE  n + 1 <= Cardinality(F)
<1> DEFINE G == {g \in F : buf[g] # 0}
           s == [g \in G |-> buf[g]]
<1>1. n \in Nat /\ Cardinality(F) \in Nat
  BY FS_CardinalityType DEF Conserved
<1>2. IsFiniteSet(F \ {f}) /\ Cardinality(F \ {f}) = Cardinality(F) - 1
  BY FS_RemoveElement
<1>3. G \in SUBSET (F \ {f})
  OBVIOUS
<1>4. IsFiniteSet(G) /\ Cardinality(G) <= Cardinality(F) - 1
  <2> HIDE DEF G
  <2> QED BY <1>2, <1>3, FS_Subset
<1>5. s \in Surjection(G, 1 .. n)
  <2>1. \A b \in 0 .. n : b # 0 => b \in 1 .. n
    BY <1>1
  <2>2. s \in [G -> 1 .. n]
    BY <2>1 DEF Conserved
  <2>3. (\A b \in 1 .. n : b # 0) /\ \A i \in 1 .. 0 : FALSE
    BY <1>1
  <2>4. \A b \in 1 .. n : \E g \in G : s[g] = b
    BY <2>3 DEF Conserved
  <2> QED BY <2>2, <2>4 DEF Surjection
<1>6. Cardinality(1 .. n) <= Cardinality(G) /\ Cardinality(G) \in Nat
  <2> HIDE DEF G, s
  <2> QED BY <1>4, <1>5, FS_Surjection, FS_CardinalityType
<1>7. Cardinality(1 .. n) = n
  BY <1>1, FS_Interval
<1> HIDE DEF G
<1> QED BY <1>1, <1>4, <1>6, <1>7
-----------------------------------------------------------------------------
CounterPair == [head : Counter, tail : Counter]

(* One ring of several is replaced.                                        *)
LEMMA OneRing ==
    ASSUME NEW r \in Seq(CounterPair), NEW b \in 1 .. Len(r), NEW e \in CounterPair,
           NEW s, s = [r EXCEPT ![b] = e]
    PROVE  /\ s \in Seq(CounterPair) /\ Len(s) = Len(r) /\ s[b] = e
           /\ \A d \in 1 .. Len(r) : d # b => s[d] = r[d]
    BY ExceptSeq

(* redeem leaves the ring empty.                                           *)
LEMMA RingEmptied ==
    ASSUME NEW r \in Seq(CounterPair), NEW b \in 1 .. Len(r),
           NEW s, s = [r EXCEPT ![b] = EmptyRing]
    PROVE  /\ s \in Seq(CounterPair) /\ Len(s) = Len(r)
           /\ s[b] = EmptyRing /\ Count(s[b].head, s[b].tail) = 0
           /\ \A d \in 1 .. Len(r) : d # b => s[d] = r[d]
<1>1. 0 \in Counter
  BY CounterFacts, SMT DEF Counter
<1>2. EmptyRing \in CounterPair /\ EmptyRing.head = 0 /\ EmptyRing.tail = 0
  BY <1>1 DEF EmptyRing, CounterPair
<1>3. Count(0, 0) = 0
  BY <1>1, CountCases, SMT
<1> QED BY <1>2, <1>3, OneRing

(* Bytes are received into one ring that has room for them.                *)
LEMMA OneTailMoves ==
    ASSUME NEW r \in Seq(CounterPair), NEW b \in 1 .. Len(r), NEW n \in Nat,
           Count(r[b].head, r[b].tail) + n <= BufferSize,
           NEW e, e = [head |-> r[b].head, tail |-> Advance(r[b].tail, n)],
           NEW s, s = [r EXCEPT ![b] = e]
    PROVE  /\ s \in Seq(CounterPair) /\ Len(s) = Len(r)
           /\ Count(s[b].head, s[b].tail) = Count(r[b].head, r[b].tail) + n
           /\ \A d \in 1 .. Len(r) : d # b => s[d] = r[d]
<1>0. r[b] \in CounterPair
  BY ElementOfSeq
<1>1. r[b].head \in Counter /\ r[b].tail \in Counter
  BY <1>0 DEF CounterPair
<1>2. PICK t : t = Advance(r[b].tail, n)
  OBVIOUS
<1>3. t \in Counter /\ Count(r[b].head, t) = Count(r[b].head, r[b].tail) + n
  BY <1>1, <1>2, TailMoves
<1>4. e = [head |-> r[b].head, tail |-> t]
  BY <1>2
<1>5. e \in CounterPair /\ e.head = r[b].head /\ e.tail = t
  BY <1>1, <1>3, <1>4 DEF CounterPair
<1>6. /\ s \in Seq(CounterPair) /\ Len(s) = Len(r) /\ s[b] = e
      /\ \A d \in 1 .. Len(r) : d # b => s[d] = r[d]
  BY <1>5, OneRing
<1> QED BY <1>3, <1>5, <1>6

(* Bytes are sent from one ring that holds them.                           *)
LEMMA OneHeadMoves ==
    ASSUME NEW r \in Seq(CounterPair), NEW b \in 1 .. Len(r), NEW n \in 0 .. BufferSize,
           NEW e, e = [head |-> Advance(r[b].head, n), tail |-> r[b].tail],
           NEW s, s = [r EXCEPT ![b] = e]
    PROVE  /\ s \in Seq(CounterPair) /\ Len(s) = Len(r)
           /\ n <= Count(r[b].head, r[b].tail) =>
                Count(s[b].head, s[b].tail) = Count(r[b].head, r[b].tail) - n
           /\ \A d \in 1 .. Len(r) : d # b => s[d] = r[d]
<1>0. r[b] \in CounterPair
  BY ElementOfSeq
<1>1. r[b].head \in Counter /\ r[b].tail \in Counter
  BY <1>0 DEF CounterPair
<1>2. PICK h : h = Advance(r[b].head, n)
  OBVIOUS
<1>3. h \in Counter
  <2>1. n \in 0 .. CounterModulus
    BY CounterFacts, SMT
  <2> QED BY <1>1, <1>2, <2>1, AdvanceCases
<1>4. n <= Count(r[b].head, r[b].tail) =>
        Count(h, r[b].tail) = Count(r[b].head, r[b].tail) - n
  <2>1. n \in Nat
    BY CounterFacts, SMT
  <2> QED BY <1>1, <1>2, <2>1, HeadMoves
<1>5. e = [head |-> h, tail |-> r[b].tail]
  BY <1>2
<1>6. e \in CounterPair /\ e.head = h /\ e.tail = r[b].tail
  BY <1>1, <1>3, <1>5 DEF CounterPair
<1>7. /\ s \in Seq(CounterPair) /\ Len(s) = Len(r) /\ s[b] = e
      /\ \A d \in 1 .. Len(r) : d # b => s[d] = r[d]
  BY <1>6, OneRing
<1> QED BY <1>4, <1>6, <1>7

(* allocate.                                                               *)
LEMMA Allocation ==
    ASSUME PoolTypeOK, NEW L, L = Len(m_pl), NEW n, n = Len(ring)
    PROVE  /\ L \in Nat /\ n \in Nat /\ ring \in Seq(CounterPair)
           /\ L = 0 => /\ Allocated = n + 1 /\ PoolWithout = <<>>
                       /\ RingWithNew \in Seq(CounterPair) /\ Len(RingWithNew) = n + 1
                       /\ RingWithNew[n + 1] = EmptyRing
                       /\ \A b \in 1 .. n : RingWithNew[b] = ring[b]
           /\ L # 0 => /\ Allocated = m_pl[L] /\ Allocated \in 1 .. n
                       /\ PoolWithout \in Seq(1 .. n) /\ Len(PoolWithout) = L - 1
                       /\ \A i \in 1 .. L - 1 : PoolWithout[i] = m_pl[i]
                       /\ RingWithNew = ring
<1>1. /\ ring \in Seq(CounterPair) /\ n \in Nat
      /\ m_pl \in Seq(1 .. n) /\ L \in Nat /\ (L = 0 <=> m_pl = <<>>)
  BY LenProperties, EmptySeq DEF PoolTypeOK, Buffers, CounterPair
<1>2. CASE L = 0
  <2>1. EmptyRing \in CounterPair
    BY CounterFacts, SMT DEF EmptyRing, CounterPair, Counter
  <2> QED BY <1>1, <1>2, <2>1, AppendProperties DEF Allocated, PoolWithout, RingWithNew
<1>3. CASE L # 0
  <2>1. L \in 1 .. L /\ L - 1 \in 1 - 1 .. L /\ 1 \in 1 .. L + 1 /\ 1 \in 1 .. Len(m_pl) + 1
    BY <1>1, <1>3
  <2>2. m_pl[L] \in 1 .. n
    BY <1>1, <2>1, ElementOfSeq
  <2>3. /\ SubSeq(m_pl, 1, L - 1) \in Seq(1 .. n) /\ Len(SubSeq(m_pl, 1, L - 1)) = L - 1
        /\ \A i \in 1 .. L - 1 : SubSeq(m_pl, 1, L - 1)[i] = m_pl[i]
    BY <1>1, <2>1, SubSeqProperties
  <2>4. m_pl # <<>>
    BY <1>1, <1>3
  <2>5. Allocated = m_pl[L] /\ PoolWithout = SubSeq(m_pl, 1, L - 1) /\ RingWithNew = ring
    BY <2>4 DEF Allocated, PoolWithout, RingWithNew
  <2> QED BY <1>1, <1>3, <2>2, <2>3, <2>5
<1> QED BY <1>1, <1>2, <1>3

(* A connection is given the buffer that is allocated.                     *)
LEMMA AllocatedBuffer ==
    ASSUME PoolTypeOK, NEW F, NEW buf, Conserved(m_pl, Len(m_pl), Len(ring), F, buf),
           NEW f \in F, buf[f] = 0,
           NEW t, t[f] = Allocated, \A g \in F : g # f => t[g] = buf[g],
           NEW p, p = PoolWithout, NEW r, r = RingWithNew
    PROVE  /\ Len(r) \in Nat /\ Len(ring) <= Len(r)
           /\ r \in Seq(CounterPair) /\ Allocated \in 1 .. Len(r)
           /\ \A b \in 1 .. Len(ring) : r[b] = ring[b]
           /\ \A b \in 1 .. Len(r) : b \in 1 .. Len(ring) \/ r[b] = EmptyRing
           /\ p \in Seq(1 .. Len(r))
           /\ Conserved(p, Len(p), Len(r), F, t)
           /\ Len(r) = Len(ring) \/ (Len(m_pl) = 0 /\ Len(r) = Len(ring) + 1)
<1>1. PICK L, n, N : L = Len(m_pl) /\ n = Len(ring) /\ N = Len(r)
  OBVIOUS
<1>2. L \in Nat /\ n \in Nat /\ ring \in Seq(CounterPair)
  BY <1>1, Allocation
<1>3. Conserved(m_pl, L, n, F, buf)
  BY <1>1
<1>4. CASE L = 0
  <2>1. /\ Allocated = n + 1 /\ p = <<>>
        /\ r \in Seq(CounterPair) /\ N = n + 1 /\ r[n + 1] = EmptyRing
        /\ \A b \in 1 .. n : r[b] = ring[b]
    BY <1>1, <1>2, <1>4, Allocation
  <2>2. t[f] = n + 1
    BY <2>1
  <2>3. Conserved(p, 0, n + 1, F, t)
    BY <1>3, <1>4, <2>2, ConservedNew
  <2>4. Len(p) = 0 /\ p \in Seq(1 .. N)
    BY <2>1, EmptySeq
  <2>5. /\ N \in Nat /\ n <= N /\ n + 1 \in 1 .. N
        /\ \A b \in 1 .. N : b \in 1 .. n \/ b = n + 1
    BY <1>2, <2>1
  <2> QED BY <1>1, <1>4, <2>1, <2>3, <2>4, <2>5
<1>5. CASE L # 0
  <2>1. /\ Allocated = m_pl[L] /\ Allocated \in 1 .. n
        /\ p \in Seq(1 .. n) /\ Len(p) = L - 1
        /\ \A i \in 1 .. L - 1 : p[i] = m_pl[i]
        /\ r = ring
    <3>1. /\ Allocated = m_pl[L] /\ Allocated \in 1 .. n
          /\ PoolWithout \in Seq(1 .. n) /\ Len(PoolWithout) = L - 1
          /\ \A i \in 1 .. L - 1 : PoolWithout[i] = m_pl[i]
          /\ RingWithNew = ring
      BY <1>1, <1>5, Allocation
    <3> QED BY <3>1
  <2>2. t[f] = m_pl[L]
    BY <2>1
  <2>3. Conserved(p, L - 1, n, F, t)
    <3>1. \A i \in 1 .. L - 1 : p[i] = m_pl[i]
      BY <2>1
    <3>2. PICK q, k : q = p /\ k = L
      OBVIOUS
    <3>3. /\ \A i \in 1 .. k - 1 : q[i] = m_pl[i]
          /\ Conserved(m_pl, k, n, F, buf) /\ k # 0 /\ t[f] = m_pl[k]
      BY <1>3, <1>5, <2>2, <3>1, <3>2
    <3>4. Conserved(q, k - 1, n, F, t)
      BY <3>3, ConservedPop
    <3> QED BY <3>2, <3>4
  <2> QED BY <1>1, <1>2, <2>1, <2>3
<1> QED BY <1>4, <1>5

LEMMA PushedBuffer ==
    ASSUME PoolTypeOK, NEW F, NEW buf, Conserved(m_pl, Len(m_pl), Len(ring), F, buf),
           NEW f \in F, buf[f] = 0,
           NEW t, t[f] = Allocated, \A g \in F : g # f => t[g] = buf[g],
           m_pl' = PoolWithout, ring' = RingWithNew
    PROVE  /\ Len(ring') \in Nat /\ Len(ring) <= Len(ring')
           /\ ring' \in Seq(CounterPair) /\ Allocated \in 1 .. Len(ring')
           /\ \A b \in 1 .. Len(ring) : ring'[b] = ring[b]
           /\ \A b \in 1 .. Len(ring') : b \in 1 .. Len(ring) \/ ring'[b] = EmptyRing
           /\ m_pl' \in Seq(1 .. Len(ring'))
           /\ Conserved(m_pl', Len(m_pl'), Len(ring'), F, t)
           /\ Len(ring') = Len(ring) \/ (Len(m_pl) = 0 /\ Len(ring') = Len(ring) + 1)
    BY AllocatedBuffer

(* It is allocated and redeemed at once.                                   *)
LEMMA RefusedBuffer ==
    ASSUME PoolTypeOK, NEW F, NEW buf, Conserved(m_pl, Len(m_pl), Len(ring), F, buf),
           m_pl' = Append(PoolWithout, Allocated),
           ring' = [RingWithNew EXCEPT ![Allocated] = EmptyRing]
    PROVE  /\ Len(ring') \in Nat /\ Len(ring) <= Len(ring')
           /\ ring' \in Seq(CounterPair)
           /\ \A b \in 1 .. Len(ring') :
                \/ b \in 1 .. Len(ring) /\ ring'[b] = ring[b]
                \/ Count(ring'[b].head, ring'[b].tail) = 0
           /\ \A f \in F : buf[f] # 0 =>
                buf[f] \in 1 .. Len(ring) /\ ring'[buf[f]] = ring[buf[f]]
           /\ m_pl' \in Seq(1 .. Len(ring'))
           /\ Conserved(m_pl', Len(m_pl'), Len(ring'), F, buf)
           /\ Len(ring') = Len(ring) \/ (Len(m_pl) = 0 /\ Len(ring') = Len(ring) + 1)
<1>1. PICK L, n, N : L = Len(m_pl) /\ n = Len(ring) /\ N = Len(ring')
  OBVIOUS
<1>2. L \in Nat /\ n \in Nat /\ ring \in Seq(CounterPair)
  BY <1>1, Allocation
<1>3. Conserved(m_pl, L, n, F, buf)
  BY <1>1
<1>4. \A f \in F : buf[f] # 0 => buf[f] \in 1 .. n
  BY <1>2, <1>3 DEF Conserved
<1>5. CASE L = 0
  <2>1. /\ Allocated = n + 1 /\ PoolWithout = <<>> /\ n + 1 \in 1 .. n + 1
        /\ RingWithNew \in Seq(CounterPair) /\ Len(RingWithNew) = n + 1
        /\ \A b \in 1 .. n : RingWithNew[b] = ring[b]
    <3>1. L = 0 => /\ Allocated = n + 1 /\ PoolWithout = <<>>
                   /\ RingWithNew \in Seq(CounterPair) /\ Len(RingWithNew) = n + 1
                   /\ RingWithNew[n + 1] = EmptyRing
                   /\ \A b \in 1 .. n : RingWithNew[b] = ring[b]
      BY <1>1, Allocation
    <3>2. n + 1 \in 1 .. n + 1
      BY <1>2
    <3> QED BY <1>5, <3>1, <3>2
  <2>2. PICK r \in Seq(CounterPair) : r = RingWithNew /\ Len(r) = n + 1
    BY <2>1
  <2>3. ring' = [r EXCEPT ![n + 1] = EmptyRing]
    BY <2>1, <2>2
  <2>4. /\ ring' \in Seq(CounterPair) /\ N = n + 1
        /\ Count(ring'[n + 1].head, ring'[n + 1].tail) = 0
        /\ \A d \in 1 .. n + 1 : d # n + 1 => ring'[d] = r[d]
    <3>1. n + 1 \in 1 .. Len(r) /\ Len(r) = n + 1 /\ N = Len(ring')
      BY <1>1, <2>1, <2>2
    <3>2. PICK d : d = n + 1
      OBVIOUS
    <3>3. d \in 1 .. Len(r) /\ ring' = [r EXCEPT ![d] = EmptyRing]
      BY <2>3, <3>1, <3>2
    <3>4. PICK s : s = ring'
      OBVIOUS
    <3>5. s = [r EXCEPT ![d] = EmptyRing]
      BY <3>3, <3>4
    <3>6. /\ s \in Seq(CounterPair) /\ Len(s) = Len(r)
          /\ Count(s[d].head, s[d].tail) = 0
          /\ \A a \in 1 .. Len(r) : a # d => s[a] = r[a]
      BY <3>3, <3>5, RingEmptied
    <3> QED BY <3>1, <3>2, <3>4, <3>6
  <2>5. /\ n <= N /\ N \in Nat /\ \A b \in 1 .. N : b \in 1 .. n \/ b = n + 1
        /\ \A b \in 1 .. n : b \in 1 .. n + 1 /\ b # n + 1
    BY <1>2, <2>4
  <2>6. \A b \in 1 .. n : ring'[b] = ring[b]
    BY <2>1, <2>2, <2>4, <2>5
  <2>7. /\ m_pl' \in Seq(1 .. n + 1) /\ Len(m_pl') = 1 /\ m_pl'[1] = n + 1
    <3>1. m_pl' = Append(<<>>, n + 1) /\ <<>> \in Seq(1 .. n + 1) /\ Len(<<>>) = 0
      BY <2>1, EmptySeq
    <3> QED BY <2>1, <3>1, AppendProperties
  <2>8. Conserved(m_pl', 1, n + 1, F, buf)
    <3>1. Conserved(m_pl, 0, n, F, buf) /\ m_pl'[1] = n + 1
      BY <1>3, <1>5, <2>7
    <3>2. PICK p : p = m_pl'
      OBVIOUS
    <3>3. p[1] = n + 1
      BY <3>1, <3>2
    <3>4. Conserved(p, 1, n + 1, F, buf)
      BY <3>1, <3>3, ConservedSpare
    <3> QED BY <3>2, <3>4
  <2> QED BY <1>1, <1>4, <1>5, <2>4, <2>5, <2>6, <2>7, <2>8
<1>6. CASE L # 0
  <2>1. /\ Allocated = m_pl[L] /\ Allocated \in 1 .. n
        /\ PoolWithout \in Seq(1 .. n) /\ Len(PoolWithout) = L - 1
        /\ \A i \in 1 .. L - 1 : PoolWithout[i] = m_pl[i]
        /\ RingWithNew = ring
    BY <1>1, <1>2, <1>6, Allocation
  <2>2. PICK a \in 1 .. Len(ring) : a = Allocated
    BY <1>1, <2>1
  <2>3. ring' = [ring EXCEPT ![a] = EmptyRing]
    BY <2>1, <2>2
  <2>4. /\ ring' \in Seq(CounterPair) /\ N = n
        /\ Count(ring'[a].head, ring'[a].tail) = 0
        /\ \A d \in 1 .. n : d # a => ring'[d] = ring[d]
    <3>1. N = Len(ring') /\ n = Len(ring)
      BY <1>1
    <3>2. /\ ring' \in Seq(CounterPair) /\ Len(ring') = Len(ring)
          /\ Count(ring'[a].head, ring'[a].tail) = 0
          /\ \A d \in 1 .. Len(ring) : d # a => ring'[d] = ring[d]
      <4>1. PICK s : s = ring'
        OBVIOUS
      <4>2. s = [ring EXCEPT ![a] = EmptyRing]
        BY <2>3, <4>1
      <4>3. /\ s \in Seq(CounterPair) /\ Len(s) = Len(ring)
            /\ Count(s[a].head, s[a].tail) = 0
            /\ \A d \in 1 .. Len(ring) : d # a => s[d] = ring[d]
        BY <1>2, <4>2, RingEmptied
      <4> QED BY <4>1, <4>3
    <3> QED BY <3>1, <3>2
  <2>5. PICK w \in Seq(1 .. n) : w = PoolWithout /\ Len(w) = L - 1
                                /\ \A i \in 1 .. L - 1 : w[i] = m_pl[i]
    BY <2>1
  <2>6. /\ m_pl' \in Seq(1 .. n) /\ Len(m_pl') = (L - 1) + 1
        /\ \A i \in 1 .. L - 1 : m_pl'[i] = w[i]
        /\ m_pl'[(L - 1) + 1] = m_pl[L]
    BY <2>1, <2>5, AppendProperties
  <2>7. (L - 1) + 1 = L /\ L \in 1 .. L /\ \A i \in 1 .. L : i \in 1 .. L - 1 \/ i = L
    BY <1>2, <1>6
  <2>8. Len(m_pl') = L /\ \A i \in 1 .. L : m_pl'[i] = m_pl[i]
    BY <2>5, <2>6, <2>7
  <2>9. Conserved(m_pl', L, n, F, buf)
    <3>1. PICK p : p = m_pl'
      OBVIOUS
    <3>2. \A i \in 1 .. L : p[i] = m_pl[i]
      BY <2>8, <3>1
    <3>3. Conserved(p, L, n, F, buf)
      BY <1>3, <3>2, ConservedSame
    <3> QED BY <3>1, <3>3
  <2>10. \A f \in F : buf[f] # a
    BY <1>3, <2>1, <2>2, <2>7 DEF Conserved
  <2>11. \A f \in F : buf[f] # 0 => buf[f] \in 1 .. n /\ ring'[buf[f]] = ring[buf[f]]
    BY <1>4, <2>4, <2>10
  <2>12. \A b \in 1 .. N : \/ b \in 1 .. n /\ ring'[b] = ring[b]
                           \/ Count(ring'[b].head, ring'[b].tail) = 0
    BY <2>4
  <2> QED BY <1>1, <1>2, <2>4, <2>6, <2>8, <2>9, <2>11, <2>12
<1> QED BY <1>5, <1>6
-----------------------------------------------------------------------------
(* No ring holds more than its buffer has room for, and the pool's are     *)
(* empty.                                                                  *)
PoolContents(pl, rg) ==
    /\ \A b \in 1 .. Len(rg) : Count(rg[b].head, rg[b].tail) <= BufferSize
    /\ \A i \in 1 .. Len(pl) : rg[pl[i]] = EmptyRing
LEMMA EmptyHoldsNothing ==
    /\ EmptyRing \in CounterPair
    /\ Count(EmptyRing.head, EmptyRing.tail) = 0
<1>1. 0 \in Counter
  BY CounterFacts, SMT DEF Counter
<1>2. EmptyRing \in CounterPair /\ EmptyRing.head = 0 /\ EmptyRing.tail = 0
  BY <1>1 DEF EmptyRing, CounterPair
<1>3. Count(0, 0) = 0
  BY <1>1, CountCases, SMT
<1> QED BY <1>2, <1>3

(* prepool.                                                                *)
LEMMA ContentsInit ==
    ASSUME PoolInit
    PROVE  PoolContents(m_pl, ring)
<1>1. /\ Len(ring) = Prepool /\ Len(m_pl) = Prepool
      /\ \A i \in 1 .. Prepool : ring[i] = EmptyRing /\ m_pl[i] = i
  BY PoolAssumption DEF PoolInit
<1>2. Count(EmptyRing.head, EmptyRing.tail) <= BufferSize
  BY EmptyHoldsNothing, CounterFacts
<1> QED BY <1>1, <1>2 DEF PoolContents

(* allocate: the buffer is empty, and so are the others of the pool.       *)
LEMMA ContentsAllocated ==
    ASSUME PoolTypeOK, PoolContents(m_pl, ring)
    PROVE  /\ PoolContents(PoolWithout, RingWithNew)
           /\ RingWithNew[Allocated] = EmptyRing
           /\ RingWithNew \in Seq(CounterPair) /\ Allocated \in 1 .. Len(RingWithNew)
           /\ PoolWithout \in Seq(1 .. Len(RingWithNew))
<1>1. PICK L \in Nat, n \in Nat : L = Len(m_pl) /\ n = Len(ring)
  BY Allocation
<1>2. CASE L = 0
  <2>1. /\ Allocated = n + 1 /\ PoolWithout = <<>>
        /\ RingWithNew \in Seq(CounterPair) /\ Len(RingWithNew) = n + 1
        /\ RingWithNew[n + 1] = EmptyRing
        /\ \A b \in 1 .. n : RingWithNew[b] = ring[b]
    BY <1>1, <1>2, Allocation
  <2>2. \A b \in 1 .. n : Count(ring[b].head, ring[b].tail) <= BufferSize
    BY <1>1 DEF PoolContents
  <2>3. Count(EmptyRing.head, EmptyRing.tail) <= BufferSize
    BY EmptyHoldsNothing, CounterFacts
  <2>4. /\ \A b \in 1 .. n + 1 : b \in 1 .. n \/ b = n + 1
        /\ n + 1 \in 1 .. n + 1
    OBVIOUS
  <2>5. \A b \in 1 .. n + 1 : Count(RingWithNew[b].head, RingWithNew[b].tail) <= BufferSize
    BY <2>1, <2>2, <2>3, <2>4
  <2>6. Len(<<>>) = 0 /\ (\A i \in 1 .. 0 : FALSE) /\ <<>> \in Seq(1 .. n + 1)
    BY EmptySeq
  <2> QED BY <2>1, <2>4, <2>5, <2>6 DEF PoolContents
<1>3. CASE L # 0
  <2>1. /\ Allocated = m_pl[L] /\ Allocated \in 1 .. n
        /\ PoolWithout \in Seq(1 .. n) /\ Len(PoolWithout) = L - 1
        /\ \A i \in 1 .. L - 1 : PoolWithout[i] = m_pl[i]
        /\ RingWithNew = ring /\ ring \in Seq(CounterPair)
    <3>1. /\ ring \in Seq(CounterPair)
          /\ L # 0 => /\ Allocated = m_pl[L] /\ Allocated \in 1 .. n
                      /\ PoolWithout \in Seq(1 .. n) /\ Len(PoolWithout) = L - 1
                      /\ \A i \in 1 .. L - 1 : PoolWithout[i] = m_pl[i]
                      /\ RingWithNew = ring
      BY <1>1, Allocation
    <3> QED BY <1>3, <3>1
  <2>2. L \in 1 .. L /\ \A i \in 1 .. L - 1 : i \in 1 .. L
    BY <1>1, <1>3
  <2> QED BY <1>1, <2>1, <2>2 DEF PoolContents
<1> QED BY <1>2, <1>3

(* redeem.                                                                 *)
LEMMA ContentsRedeemed ==
    ASSUME NEW r \in Seq(CounterPair), NEW pl \in Seq(1 .. Len(r)), PoolContents(pl, r),
           NEW b \in 1 .. Len(r), NEW p, p = Append(pl, b),
           NEW s, s = [r EXCEPT ![b] = EmptyRing]
    PROVE  PoolContents(p, s) /\ Len(s) = Len(r)
<1>1. /\ Len(s) = Len(r) /\ s[b] = EmptyRing /\ Count(s[b].head, s[b].tail) = 0
      /\ \A d \in 1 .. Len(r) : d # b => s[d] = r[d]
  BY RingEmptied
<1>2. PICK k \in Nat : k = Len(pl)
  BY LenProperties
<1>3. /\ Len(p) = k + 1 /\ p[k + 1] = b /\ \A i \in 1 .. k : p[i] = pl[i]
      /\ \A i \in 1 .. k : pl[i] \in 1 .. Len(r)
  BY <1>2, AppendProperties, ElementOfSeq
<1>4. \A i \in 1 .. k + 1 : i \in 1 .. k \/ i = k + 1
  BY <1>2
<1>5. \A d \in 1 .. Len(s) : Count(s[d].head, s[d].tail) <= BufferSize
  <2>1. 0 <= BufferSize
    BY CounterFacts
  <2> QED BY <1>1, <2>1 DEF PoolContents
<1>6. \A i \in 1 .. k : s[pl[i]] = EmptyRing
  BY <1>1, <1>2, <1>3 DEF PoolContents
<1>7. \A i \in 1 .. Len(p) : s[p[i]] = EmptyRing
  BY <1>1, <1>3, <1>4, <1>6
<1> QED BY <1>1, <1>5, <1>7 DEF PoolContents

(* allocate and redeem.                                                    *)
LEMMA ContentsRefused ==
    ASSUME PoolTypeOK, PoolContents(m_pl, ring),
           m_pl' = Append(PoolWithout, Allocated),
           ring' = [RingWithNew EXCEPT ![Allocated] = EmptyRing]
    PROVE  PoolContents(m_pl', ring')
<1>1. PICK pl, r, b : pl = PoolWithout /\ r = RingWithNew /\ b = Allocated
  OBVIOUS
<1>2. /\ r \in Seq(CounterPair) /\ pl \in Seq(1 .. Len(r)) /\ PoolContents(pl, r)
      /\ b \in 1 .. Len(r)
  BY <1>1, ContentsAllocated
<1>3. PICK p, s : p = m_pl' /\ s = ring'
  OBVIOUS
<1>4. p = Append(pl, b) /\ s = [r EXCEPT ![b] = EmptyRing]
  BY <1>1, <1>3
<1>5. PoolContents(p, s)
  BY <1>2, <1>4, ContentsRedeemed
<1> QED BY <1>3, <1>5

(* A buffer that is not in the pool is filled or emptied.                  *)
LEMMA ContentsMoved ==
    ASSUME NEW pl, NEW r, PoolContents(pl, r), NEW b, NEW s, Len(s) = Len(r),
           \A d \in 1 .. Len(r) : d # b => s[d] = r[d],
           Count(s[b].head, s[b].tail) <= BufferSize,
           \A i \in 1 .. Len(pl) : pl[i] \in 1 .. Len(r) /\ pl[i] # b
    PROVE  PoolContents(pl, s)
<1>1. \A d \in 1 .. Len(s) : Count(s[d].head, s[d].tail) <= BufferSize
  BY DEF PoolContents
<1>2. \A i \in 1 .. Len(pl) : s[pl[i]] = EmptyRing
  BY DEF PoolContents
<1> QED BY <1>1, <1>2 DEF PoolContents
-----------------------------------------------------------------------------
LEMMA SocketCounts ==
    ASSUME NEW s \in Socket
    PROVE  /\ s.rx \in 0 .. MaxBytes /\ s.tx \in 0 .. SendRoom
           /\ s.in \in Nat /\ s.out \in Nat
           /\ MaxBytes \in Nat /\ SendRoom \in Nat
    BY SocketAssumption DEF Socket

(* A connection goes from one phase to another.                            *)
LEMMA PhaseType ==
    ASSUME NEW s \in [Clients -> Socket], NEW c \in Clients,
           NEW phase \in {"new", "queued", "open", "closed"},
           NEW t, t = [s EXCEPT ![c].phase = phase]
    PROVE  t \in [Clients -> Socket]
<1>1. PICK r : r = [s[c] EXCEPT !.phase = phase]
  OBVIOUS
<1>2. r \in Socket
  BY <1>1 DEF Socket
<1>3. t = [s EXCEPT ![c] = r]
  BY <1>1
<1> QED BY <1>2, <1>3

(* The loop receives bytes that are there.                                 *)
LEMMA ReceivedType ==
    ASSUME NEW s \in [Clients -> Socket], NEW c \in Clients,
           NEW n \in Nat, n <= s[c].rx,
           NEW t, t = [s EXCEPT ![c].rx = @ - n, ![c].in = @ + n]
    PROVE  t \in [Clients -> Socket]
<1>1. s[c] \in Socket
  OBVIOUS
<1>2. PICK x \in 0 .. MaxBytes, y \in Nat : x = s[c].rx - n /\ y = s[c].in + n
  BY <1>1, SocketCounts
<1>3. PICK r : r = [s[c] EXCEPT !.rx = x, !.in = y]
  OBVIOUS
<1>4. r \in Socket
  BY <1>1, <1>3 DEF Socket
<1>5. t = [s EXCEPT ![c] = r]
  BY <1>2, <1>3
<1> QED BY <1>4, <1>5

(* It sends bytes there is room for.                                       *)
LEMMA SentType ==
    ASSUME NEW s \in [Clients -> Socket], NEW c \in Clients,
           NEW n \in Nat, n <= SendRoom - s[c].tx,
           NEW t, t = [s EXCEPT ![c].tx = @ + n, ![c].out = @ + n]
    PROVE  t \in [Clients -> Socket]
<1>1. s[c] \in Socket
  OBVIOUS
<1>2. PICK x \in 0 .. SendRoom, y \in Nat : x = s[c].tx + n /\ y = s[c].out + n
  BY <1>1, SocketCounts
<1>3. PICK r : r = [s[c] EXCEPT !.tx = x, !.out = y]
  OBVIOUS
<1>4. r \in Socket
  BY <1>1, <1>3 DEF Socket
<1>5. t = [s EXCEPT ![c] = r]
  BY <1>2, <1>3
<1> QED BY <1>4, <1>5

(* Steps of the clients.                                                   *)
LEMMA ClientTypes ==
    ASSUME sock \in [Clients -> Socket], backlog \in Seq(Clients), NEW c \in Clients,
           \/ Connects(c)
           \/ (Sends(c) \/ Reads(c) \/ Closes(c) \/ Resets(c)) /\ UNCHANGED backlog
    PROVE  sock' \in [Clients -> Socket] /\ backlog' \in Seq(Clients)
<1>1. sock[c] \in Socket
  OBVIOUS
<1>2. CASE Connects(c)
  <2>1. sock' = [sock EXCEPT ![c].phase = "queued"] /\ backlog' = Append(backlog, c)
    BY <1>2 DEF Connects
  <2>2. sock' \in [Clients -> Socket]
    BY <2>1, PhaseType
  <2> QED BY <2>1, <2>2, AppendProperties
<1>3. ASSUME Sends(c) PROVE sock' \in [Clients -> Socket]
  <2>1. PICK n \in 1 .. MaxBytes - Sent(c) : sock' = [sock EXCEPT ![c].rx = @ + n]
    BY <1>3 DEF Sends
  <2>2. sock[c].rx + n \in 0 .. MaxBytes
    BY <1>1, <2>1, SocketCounts, SMT DEF Sent
  <2>3. PICK m \in 0 .. MaxBytes : m = sock[c].rx + n
    BY <2>2
  <2>4. [sock[c] EXCEPT !.rx = m] \in Socket
    BY <1>1 DEF Socket
  <2>5. sock' = [sock EXCEPT ![c] = [sock[c] EXCEPT !.rx = m]]
    BY <2>1, <2>3
  <2> QED BY <2>4, <2>5
<1>4. ASSUME Reads(c) PROVE sock' \in [Clients -> Socket]
  <2>1. PICK n \in 1 .. sock[c].tx : sock' = [sock EXCEPT ![c].tx = @ - n]
    BY <1>4 DEF Reads
  <2>2. sock[c].tx - n \in 0 .. SendRoom
    BY <1>1, <2>1, SocketCounts, SMT
  <2>3. PICK m \in 0 .. SendRoom : m = sock[c].tx - n
    BY <2>2
  <2>4. [sock[c] EXCEPT !.tx = m] \in Socket
    BY <1>1 DEF Socket
  <2>5. sock' = [sock EXCEPT ![c] = [sock[c] EXCEPT !.tx = m]]
    BY <2>1, <2>3
  <2> QED BY <2>4, <2>5
<1>5. ASSUME Closes(c) PROVE sock' \in [Clients -> Socket]
  <2>1. sock' = [sock EXCEPT ![c].peer = "fin"]
    BY <1>5 DEF Closes
  <2>2. [sock[c] EXCEPT !.peer = "fin"] \in Socket
    BY <1>1 DEF Socket
  <2>3. sock' = [sock EXCEPT ![c] = [sock[c] EXCEPT !.peer = "fin"]]
    BY <2>1
  <2> QED BY <2>2, <2>3
<1>6. ASSUME Resets(c) PROVE sock' \in [Clients -> Socket]
  <2>1. sock' = [sock EXCEPT ![c].peer = "rst", ![c].tx = 0]
    BY <1>6 DEF Resets, AnswersReset, ResetOf
  <2>2. 0 \in 0 .. SendRoom
    BY <1>1, SocketCounts
  <2>3. [sock[c] EXCEPT !.peer = "rst", !.tx = 0] \in Socket
    BY <1>1, <2>2 DEF Socket
  <2>4. sock' = [sock EXCEPT ![c] = [sock[c] EXCEPT !.peer = "rst", !.tx = 0]]
    BY <2>1
  <2> QED BY <2>3, <2>4
<1> QED BY <1>2, <1>3, <1>4, <1>5, <1>6
-----------------------------------------------------------------------------
(* Which socket a descriptor is connected to: an open connection has one   *)
(* descriptor, one that waits to be accepted is queued once, and no byte   *)
(* has been read or sent before it is open.                                *)
OneDescriptorEach ==
    /\ \A f, g \in Fds : (fdOwner[f] = fdOwner[g] /\ fdOwner[f] # NoClient) => f = g
    /\ \A f \in Fds : fdOwner[f] # NoClient => sock[fdOwner[f]].phase = "open"
    /\ \A c \in Clients : sock[c].phase = "open" => \E f \in Fds : fdOwner[f] = c
    /\ \A i \in 1 .. Len(backlog) : sock[backlog[i]].phase = "queued"
    /\ \A i, j \in 1 .. Len(backlog) : backlog[i] = backlog[j] => i = j
    /\ \A c \in Clients : sock[c].phase \in {"new", "queued"} =>
                            sock[c].in = 0 /\ sock[c].out = 0

(* What a step of a client leaves alone.                                   *)
SameBytes ==
    \A c \in Clients : sock'[c].in = sock[c].in /\ sock'[c].out = sock[c].out

LEMMA DescriptorsInit ==
    ASSUME SocketsInit
    PROVE  OneDescriptorEach
<1>1. /\ backlog = <<>> /\ \A f \in Fds : fdOwner[f] = NoClient
      /\ \A c \in Clients : sock[c].phase = "new" /\ sock[c].in = 0 /\ sock[c].out = 0
  BY DEF SocketsInit
<1>2. \A i \in 1 .. Len(backlog) : FALSE
  BY <1>1
<1> QED BY <1>1, <1>2 DEF OneDescriptorEach

(* Bytes move on connections that are open, and no phase changes.          *)
LEMMA DescriptorsKept ==
    ASSUME OneDescriptorEach, fdOwner' = fdOwner, backlog' = backlog,
           backlog \in Seq(Clients),
           \A c \in Clients : /\ sock'[c].phase = sock[c].phase
                              /\ sock[c].phase # "open" =>
                                   sock'[c].in = sock[c].in /\ sock'[c].out = sock[c].out,
           fdOwner \in [Fds -> Clients \cup {NoClient}]
    PROVE  OneDescriptorEach'
<1>1. \A i \in 1 .. Len(backlog) : backlog[i] \in Clients
  BY ElementOfSeq
<1>2. \A f \in Fds : fdOwner[f] # NoClient => fdOwner[f] \in Clients
  OBVIOUS
<1> QED BY <1>1, <1>2 DEF OneDescriptorEach

(* Steps of the clients.                                                   *)
LEMMA ClientBytes ==
    ASSUME sock \in [Clients -> Socket], NEW c \in Clients,
           Connects(c) \/ Sends(c) \/ Reads(c) \/ Closes(c) \/ Resets(c)
    PROVE  /\ SameBytes
           /\ \A d \in Clients : sock'[d].phase = IF Connects(c) /\ d = c THEN "queued"
                                                  ELSE sock[d].phase
<1>1. sock[c] \in Socket
  OBVIOUS
<1> SUFFICES ASSUME NEW d \in Clients
             PROVE  /\ sock'[d].in = sock[d].in /\ sock'[d].out = sock[d].out
                    /\ sock'[d].phase = IF Connects(c) /\ d = c THEN "queued"
                                        ELSE sock[d].phase
  BY DEF SameBytes
<1>2. sock[d] \in Socket
  OBVIOUS
<1>3. CASE Connects(c)
  BY <1>1, <1>2, <1>3 DEF Connects, Socket
<1>4. ASSUME NEW n, sock' = [sock EXCEPT ![c].rx = n] \/ sock' = [sock EXCEPT ![c].tx = n]
             \/ sock' = [sock EXCEPT ![c].peer = n]
             \/ sock' = [sock EXCEPT ![c].peer = n, ![c].tx = 0]
      PROVE  /\ sock'[d].in = sock[d].in /\ sock'[d].out = sock[d].out
             /\ sock'[d].phase = sock[d].phase
  BY <1>1, <1>2, <1>4 DEF Socket
<1>5. CASE ~Connects(c)
  <2>1. CASE Sends(c)
    BY <1>4, <1>5, <2>1 DEF Sends
  <2>2. CASE Reads(c)
    BY <1>4, <1>5, <2>2 DEF Reads
  <2>3. CASE Closes(c)
    BY <1>4, <1>5, <2>3 DEF Closes
  <2>4. CASE Resets(c)
    BY <1>4, <1>5, <2>4 DEF Resets, AnswersReset, ResetOf
  <2> QED BY <1>5, <2>1, <2>2, <2>3, <2>4
<1> QED BY <1>3, <1>5

LEMMA ClientDescriptors ==
    ASSUME OneDescriptorEach, sock \in [Clients -> Socket], backlog \in Seq(Clients),
           fdOwner \in [Fds -> Clients \cup {NoClient}], fdOwner' = fdOwner, NEW c \in Clients,
           \/ Connects(c)
           \/ (Sends(c) \/ Reads(c) \/ Closes(c) \/ Resets(c)) /\ UNCHANGED backlog
    PROVE  OneDescriptorEach' /\ SameBytes
<1>1. /\ SameBytes
      /\ \A d \in Clients : sock'[d].phase = IF Connects(c) /\ d = c THEN "queued"
                                             ELSE sock[d].phase
  BY ClientBytes
<1>2. CASE Connects(c)
  <2>1. sock[c].phase = "new" /\ backlog' = Append(backlog, c)
    BY <1>2 DEF Connects
  <2>2. PICK k \in Nat : k = Len(backlog)
    OBVIOUS
  <2>3. /\ Len(backlog') = k + 1 /\ backlog'[k + 1] = c
        /\ \A i \in 1 .. k : backlog'[i] = backlog[i] /\ backlog[i] \in Clients
        /\ \A i \in 1 .. k + 1 : i \in 1 .. k \/ i = k + 1
    BY <2>1, <2>2, AppendProperties, ElementOfSeq
  <2>4. \A i \in 1 .. k : backlog[i] # c
    BY <2>1, <2>2 DEF OneDescriptorEach
  <2>5. /\ \A i \in 1 .. k + 1 : sock'[backlog'[i]].phase = "queued"
        /\ \A i, j \in 1 .. k + 1 : backlog'[i] = backlog'[j] => i = j
    BY <1>1, <1>2, <2>2, <2>3, <2>4 DEF OneDescriptorEach
  <2>6. \A f \in Fds : fdOwner[f] # NoClient => fdOwner[f] \in Clients /\ fdOwner[f] # c
    BY <2>1 DEF OneDescriptorEach
  <2>7. /\ \A f \in Fds : fdOwner'[f] # NoClient => sock'[fdOwner'[f]].phase = "open"
        /\ \A d \in Clients : sock'[d].phase = "open" => \E f \in Fds : fdOwner'[f] = d
        /\ \A d \in Clients : sock'[d].phase \in {"new", "queued"} =>
                                sock'[d].in = 0 /\ sock'[d].out = 0
    BY <1>1, <1>2, <2>1, <2>6 DEF OneDescriptorEach, SameBytes
  <2> QED BY <1>1, <2>3, <2>5, <2>7 DEF OneDescriptorEach
<1>3. CASE ~Connects(c)
  BY <1>1, <1>3, DescriptorsKept DEF SameBytes
<1> QED BY <1>2, <1>3

(* The first of the backlog is accepted, and perhaps served at once.       *)
AcceptsAs(c, f, phase) ==
    /\ sock'[c].phase = phase /\ \A d \in Clients : d # c => sock'[d] = sock[d]
    /\ backlog' = Tail(backlog)
    /\ fdOwner' = IF phase = "open" THEN [fdOwner EXCEPT ![f] = c] ELSE fdOwner

LEMMA AcceptedDescriptors ==
    ASSUME OneDescriptorEach, backlog \in Seq(Clients),
           fdOwner \in [Fds -> Clients \cup {NoClient}], backlog # <<>>, NEW f \in FreeFds,
           NEW c \in Clients, c = Head(backlog), NEW phase \in {"open", "closed"},
           AcceptsAs(c, f, phase)
    PROVE  /\ OneDescriptorEach'
           /\ sock[c].phase = "queued" /\ sock[c].in = 0 /\ sock[c].out = 0
           /\ \A g \in Fds : fdOwner[g] # c
<1> /\ sock'[c].phase = phase /\ \A d \in Clients : d # c => sock'[d] = sock[d]
    /\ backlog' = Tail(backlog)
    /\ fdOwner' = IF phase = "open" THEN [fdOwner EXCEPT ![f] = c] ELSE fdOwner
  BY DEF AcceptsAs
<1>2. PICK k \in Nat : k + 1 = Len(backlog)
  <2>1. PICK l \in Nat : l = Len(backlog)
    BY LenProperties
  <2>2. l # 0
    BY <2>1, EmptySeq
  <2>3. l - 1 \in Nat /\ (l - 1) + 1 = l
    BY <2>2
  <2> QED BY <2>1, <2>3
<1>3. /\ Len(backlog') = k /\ c = backlog[1] /\ 1 \in 1 .. k + 1
      /\ \A i \in 1 .. k : /\ backlog'[i] = backlog[i + 1] /\ i + 1 \in 1 .. k + 1
                           /\ i + 1 # 1
      /\ \A i, j \in 1 .. k : i + 1 = j + 1 => i = j
      /\ \A i \in 1 .. k + 1 : backlog[i] \in Clients
  BY <1>2
<1>4. sock[c].phase = "queued" /\ sock[c].in = 0 /\ sock[c].out = 0
  BY <1>2, <1>3 DEF OneDescriptorEach
<1>5. \A d \in Clients :
        /\ d # c => sock'[d].in = sock[d].in /\ sock'[d].out = sock[d].out
        /\ sock'[d].phase = IF d = c THEN phase ELSE sock[d].phase
  OBVIOUS
<1>6. \A g \in Fds : fdOwner[g] # c
  BY <1>4, SocketAssumption DEF OneDescriptorEach
<1>7. \A i \in 1 .. k : backlog'[i] # c /\ backlog'[i] \in Clients
  <2> TAKE i \in 1 .. k
  <2>1. /\ backlog'[i] = backlog[i + 1] /\ i + 1 \in 1 .. k + 1 /\ i + 1 # 1
        /\ 1 \in 1 .. k + 1 /\ c = backlog[1] /\ backlog[i + 1] \in Clients
    BY <1>3
  <2>2. backlog[i + 1] = backlog[1] => i + 1 = 1
    BY <1>2, <2>1 DEF OneDescriptorEach
  <2> QED BY <2>1, <2>2
<1>8. /\ \A i \in 1 .. k : sock'[backlog'[i]].phase = "queued"
      /\ \A i, j \in 1 .. k : backlog'[i] = backlog'[j] => i = j
  <2>1. /\ \A i \in 1 .. k + 1 : sock[backlog[i]].phase = "queued"
        /\ \A i, j \in 1 .. k + 1 : backlog[i] = backlog[j] => i = j
    BY <1>2 DEF OneDescriptorEach
  <2>2. ASSUME NEW i \in 1 .. k
        PROVE  sock'[backlog'[i]].phase = "queued"
    <3>1. PICK d \in Clients : d = backlog'[i] /\ d # c
      BY <1>7
    <3>2. sock[d].phase = "queued"
      BY <1>3, <2>1, <3>1
    <3> QED BY <1>5, <3>1, <3>2
  <2>3. ASSUME NEW i \in 1 .. k, NEW j \in 1 .. k, backlog'[i] = backlog'[j]
        PROVE  i = j
    <3>1. PICK m, n : m = i + 1 /\ n = j + 1
      OBVIOUS
    <3>2. m \in 1 .. k + 1 /\ n \in 1 .. k + 1 /\ backlog[m] = backlog[n]
      BY <1>3, <2>3, <3>1
    <3>3. m = n
      BY <2>1, <3>2
    <3> QED BY <1>3, <3>1, <3>3
  <2> QED BY <2>2, <2>3
<1>9. \A d \in Clients : sock'[d].phase \in {"new", "queued"} =>
                            sock'[d].in = 0 /\ sock'[d].out = 0
  BY <1>5 DEF OneDescriptorEach
<1>10. CASE phase = "open"
  <2>1. /\ f \in Fds /\ fdOwner[f] = NoClient /\ fdOwner'[f] = c
        /\ \A g \in Fds : g # f => fdOwner'[g] = fdOwner[g]
        /\ c # NoClient
    BY <1>10, SocketAssumption DEF FreeFds
  <2>2. \A g \in Fds : fdOwner[g] # NoClient => fdOwner[g] \in Clients
    OBVIOUS
  <2>3. \A g, h \in Fds : (fdOwner'[g] = fdOwner'[h] /\ fdOwner'[g] # NoClient) => g = h
    BY <1>6, <2>1 DEF OneDescriptorEach
  <2>4. \A g \in Fds : fdOwner'[g] # NoClient => sock'[fdOwner'[g]].phase = "open"
    BY <1>5, <1>6, <1>10, <2>1, <2>2 DEF OneDescriptorEach
  <2>5. \A d \in Clients : sock'[d].phase = "open" => \E g \in Fds : fdOwner'[g] = d
    <3> SUFFICES ASSUME NEW d \in Clients, sock'[d].phase = "open"
                 PROVE  \E g \in Fds : fdOwner'[g] = d
      OBVIOUS
    <3>1. CASE d = c
      BY <2>1, <3>1
    <3>2. CASE d # c
      <4>1. PICK g \in Fds : fdOwner[g] = d
        BY <1>5, <3>2 DEF OneDescriptorEach
      <4>2. g # f
        BY <2>1, <4>1, SocketAssumption
      <4> QED BY <2>1, <4>1, <4>2
    <3> QED BY <3>1, <3>2
  <2>6. OneDescriptorEach'
    BY <1>3, <1>8, <1>9, <2>3, <2>4, <2>5 DEF OneDescriptorEach
  <2> QED BY <1>4, <1>6, <2>6
<1>11. CASE phase = "closed"
  <2>1. fdOwner' = fdOwner
    BY <1>11
  <2>2. \A g \in Fds : fdOwner[g] # NoClient => fdOwner[g] \in Clients /\ fdOwner[g] # c
    BY <1>6
  <2>3. /\ \A g \in Fds : fdOwner'[g] # NoClient => sock'[fdOwner'[g]].phase = "open"
        /\ \A d \in Clients : sock'[d].phase = "open" => \E g \in Fds : fdOwner'[g] = d
    BY <1>5, <1>11, <2>1, <2>2 DEF OneDescriptorEach
  <2>4. OneDescriptorEach'
    BY <1>3, <1>8, <1>9, <2>1, <2>3 DEF OneDescriptorEach
  <2> QED BY <1>4, <1>6, <2>4
<1> QED BY <1>10, <1>11

LEMMA AcceptDescriptors ==
    ASSUME OneDescriptorEach, sock \in [Clients -> Socket], backlog \in Seq(Clients),
           fdOwner \in [Fds -> Clients \cup {NoClient}], backlog # <<>>, NEW f \in FreeFds,
           NEW phase \in {"open", "closed"},
           sock' = [sock EXCEPT ![Head(backlog)].phase = phase], backlog' = Tail(backlog),
           fdOwner' = IF phase = "open" THEN [fdOwner EXCEPT ![f] = Head(backlog)] ELSE fdOwner
    PROVE  /\ OneDescriptorEach' /\ SameBytes
           /\ Head(backlog) \in Clients /\ sock[Head(backlog)].phase = "queued"
           /\ sock[Head(backlog)].in = 0 /\ sock[Head(backlog)].out = 0
           /\ \A g \in Fds : fdOwner[g] # Head(backlog)
           /\ \A d \in Clients : sock'[d].phase = IF d = Head(backlog) THEN phase
                                                  ELSE sock[d].phase
<1>1. PICK c \in Clients : c = Head(backlog)
  OBVIOUS
<1>2. PICK r : r = [sock[c] EXCEPT !.phase = phase]
  OBVIOUS
<1>3. sock[c] \in Socket /\ sock' = [sock EXCEPT ![c] = r]
  BY <1>1, <1>2
<1>4. r.phase = phase /\ r.in = sock[c].in /\ r.out = sock[c].out
  BY <1>2, <1>3 DEF Socket
<1>5. sock'[c] = r /\ \A d \in Clients : d # c => sock'[d] = sock[d]
  BY <1>3
<1>6. sock'[c].phase = phase /\ fdOwner' = IF phase = "open" THEN [fdOwner EXCEPT ![f] = c] ELSE fdOwner
  BY <1>1, <1>4, <1>5
<1>7. /\ OneDescriptorEach'
      /\ sock[c].phase = "queued" /\ sock[c].in = 0 /\ sock[c].out = 0
      /\ \A g \in Fds : fdOwner[g] # c
  <2>1. backlog' = Tail(backlog)
    OBVIOUS
  <2>2. AcceptsAs(c, f, phase)
    BY <1>5, <1>6, <2>1 DEF AcceptsAs
  <2> QED BY <1>1, <2>2, AcceptedDescriptors
<1>8. \A d \in Clients : /\ sock'[d].in = sock[d].in /\ sock'[d].out = sock[d].out
                         /\ sock'[d].phase = IF d = c THEN phase ELSE sock[d].phase
  <2> TAKE d \in Clients
  <2>1. CASE d = c
    BY <1>4, <1>5, <2>1
  <2>2. CASE d # c
    <3>1. d \in Clients
      OBVIOUS
    <3>2. sock'[d] = sock[d]
      BY ONLY <1>5, <2>2, <3>1
    <3> QED BY ONLY <2>2, <3>2
  <2> QED BY <2>1, <2>2
<1> QED BY <1>1, <1>7, <1>8 DEF SameBytes

(* A connection is closed, perhaps after more of its bytes were moved.     *)
LEMMA ErasedDescriptors ==
    ASSUME OneDescriptorEach, backlog \in Seq(Clients),
           fdOwner \in [Fds -> Clients \cup {NoClient}], backlog' = backlog,
           NEW f \in Fds, NEW c \in Clients, c = fdOwner[f], c # NoClient,
           sock'[c].phase = "closed", \A d \in Clients : d # c => sock'[d] = sock[d],
           fdOwner' = [fdOwner EXCEPT ![f] = NoClient]
    PROVE  OneDescriptorEach'
<1>1. /\ fdOwner'[f] = NoClient
      /\ \A g \in Fds : g # f => fdOwner'[g] = fdOwner[g] /\ fdOwner[g] # c
  BY DEF OneDescriptorEach
<1>2. sock[c].phase = "open"
  BY DEF OneDescriptorEach
<1>3. \A i \in 1 .. Len(backlog) : backlog[i] \in Clients /\ backlog[i] # c
  BY <1>2, ElementOfSeq DEF OneDescriptorEach
<1>4. /\ \A i \in 1 .. Len(backlog') : sock'[backlog'[i]].phase = "queued"
      /\ \A i, j \in 1 .. Len(backlog') : backlog'[i] = backlog'[j] => i = j
  BY <1>3 DEF OneDescriptorEach
<1>5. \A g \in Fds : fdOwner'[g] # NoClient =>
        fdOwner'[g] = fdOwner[g] /\ g # f /\ fdOwner[g] \in Clients /\ fdOwner[g] # c
  BY <1>1
<1>6. /\ \A g, h \in Fds : (fdOwner'[g] = fdOwner'[h] /\ fdOwner'[g] # NoClient) => g = h
      /\ \A g \in Fds : fdOwner'[g] # NoClient => sock'[fdOwner'[g]].phase = "open"
  BY <1>5 DEF OneDescriptorEach
<1>7. ASSUME NEW d \in Clients, sock'[d].phase = "open"
      PROVE  \E g \in Fds : fdOwner'[g] = d
  <2>1. d # c /\ sock[d].phase = "open"
    BY <1>7
  <2>2. PICK g \in Fds : fdOwner[g] = d
    BY <2>1 DEF OneDescriptorEach
  <2> QED BY <1>1, <2>1, <2>2
<1>8. \A d \in Clients : sock'[d].phase \in {"new", "queued"} =>
                            sock'[d].in = 0 /\ sock'[d].out = 0
  BY DEF OneDescriptorEach
<1> QED BY <1>4, <1>6, <1>7, <1>8 DEF OneDescriptorEach

LEMMA CloseDescriptors ==
    ASSUME OneDescriptorEach, sock \in [Clients -> Socket], backlog \in Seq(Clients),
           fdOwner \in [Fds -> Clients \cup {NoClient}], backlog' = backlog,
           NEW f \in Fds, fdOwner[f] # NoClient,
           sock' = [sock EXCEPT ![fdOwner[f]].phase = "closed"],
           fdOwner' = [fdOwner EXCEPT ![f] = NoClient]
    PROVE  /\ OneDescriptorEach' /\ SameBytes
           /\ \A d \in Clients : sock'[d].phase = IF d = fdOwner[f] THEN "closed"
                                                  ELSE sock[d].phase
<1>1. PICK c \in Clients : c = fdOwner[f]
  OBVIOUS
<1>2. PICK r : r = [sock[c] EXCEPT !.phase = "closed"]
  OBVIOUS
<1>3. sock[c] \in Socket /\ sock' = [sock EXCEPT ![c] = r]
  BY <1>1, <1>2
<1>4. r.phase = "closed" /\ r.in = sock[c].in /\ r.out = sock[c].out
  BY <1>2, <1>3 DEF Socket
<1>5. sock'[c] = r /\ \A d \in Clients : d # c => sock'[d] = sock[d]
  BY <1>3
<1>6. OneDescriptorEach'
  BY <1>1, <1>4, <1>5, ErasedDescriptors
<1> QED BY <1>1, <1>4, <1>5, <1>6 DEF SameBytes
-----------------------------------------------------------------------------
(* What a step of the loop leaves of a socket.                             *)
LEMMA ReceivedBytes ==
    ASSUME NEW s \in [Clients -> Socket], NEW c \in Clients, NEW n,
           NEW t, t = [s EXCEPT ![c].rx = @ - n, ![c].in = @ + n]
    PROVE  /\ t[c].in = s[c].in + n /\ t[c].out = s[c].out
           /\ \A d \in Clients : /\ t[d].phase = s[d].phase /\ t[d].peer = s[d].peer
                                 /\ d # c => t[d] = s[d]
<1>1. PICK x, y : x = s[c].rx - n /\ y = s[c].in + n
  OBVIOUS
<1>2. PICK r : r = [s[c] EXCEPT !.rx = x, !.in = y]
  OBVIOUS
<1>3. t = [s EXCEPT ![c] = r]
  BY <1>1, <1>2
<1>4. s[c] \in Socket
  OBVIOUS
<1>5. r.in = y /\ r.out = s[c].out /\ r.phase = s[c].phase /\ r.peer = s[c].peer
  BY <1>2, <1>4 DEF Socket
<1> QED BY <1>1, <1>3, <1>5

LEMMA SentBytes ==
    ASSUME NEW s \in [Clients -> Socket], NEW c \in Clients, NEW n,
           NEW t, t = [s EXCEPT ![c].tx = @ + n, ![c].out = @ + n]
    PROVE  /\ t[c].in = s[c].in /\ t[c].out = s[c].out + n
           /\ \A d \in Clients : /\ t[d].phase = s[d].phase /\ t[d].peer = s[d].peer
                                 /\ d # c => t[d] = s[d]
<1>1. PICK x, y : x = s[c].tx + n /\ y = s[c].out + n
  OBVIOUS
<1>2. PICK r : r = [s[c] EXCEPT !.tx = x, !.out = y]
  OBVIOUS
<1>3. t = [s EXCEPT ![c] = r]
  BY <1>1, <1>2
<1>4. s[c] \in Socket
  OBVIOUS
<1>5. r.out = y /\ r.in = s[c].in /\ r.phase = s[c].phase /\ r.peer = s[c].peer
  BY <1>2, <1>4 DEF Socket
<1> QED BY <1>1, <1>3, <1>5

LEMMA PhaseOnly ==
    ASSUME NEW s \in [Clients -> Socket], NEW c, NEW phase,
           NEW t, t = [s EXCEPT ![c].phase = phase]
    PROVE  \A d \in Clients : /\ t[d].peer = s[d].peer
                              /\ t[d].in = s[d].in /\ t[d].out = s[d].out
<1> TAKE d \in Clients
<1>1. PICK r : r = [s[d] EXCEPT !.phase = phase]
  OBVIOUS
<1>2. s[d] \in Socket
  OBVIOUS
<1>3. r.peer = s[d].peer /\ r.in = s[d].in /\ r.out = s[d].out
  BY <1>1, <1>2 DEF Socket
<1>4. t[d] = IF d = c THEN r ELSE s[d]
  BY <1>1
<1> QED BY <1>3, <1>4

(* A client that has closed or reset its connection stays away.            *)
LEMMA PeersOfClients ==
    ASSUME sock \in [Clients -> Socket], NEW c \in Clients,
           Connects(c) \/ Sends(c) \/ Reads(c) \/ Closes(c) \/ Resets(c)
    PROVE  \A d \in Clients : sock'[d].peer = "up" => sock[d].peer = "up"
<1> SUFFICES ASSUME NEW d \in Clients, sock'[d].peer = "up" PROVE sock[d].peer = "up"
  OBVIOUS
<1>1. sock[c] \in Socket /\ sock[d] \in Socket
  OBVIOUS
<1>2. CASE Connects(c)
  <2>1. sock' = [sock EXCEPT ![c].phase = "queued"]
    BY <1>2 DEF Connects
  <2> QED BY <2>1, PhaseOnly
<1>3. ASSUME NEW n, sock' = [sock EXCEPT ![c].rx = n] \/ sock' = [sock EXCEPT ![c].tx = n]
      PROVE  sock[d].peer = "up"
  BY <1>1, <1>3 DEF Socket
<1>4. CASE Sends(c) \/ Reads(c)
  BY <1>3, <1>4 DEF Sends, Reads
<1>5. ASSUME NEW n, n # "up",
             sock' = [sock EXCEPT ![c].peer = n] \/ sock' = [sock EXCEPT ![c].peer = n, ![c].tx = 0]
      PROVE  sock[d].peer = "up"
  BY <1>1, <1>5 DEF Socket
<1>6. CASE Closes(c) \/ Resets(c)
  BY <1>5, <1>6 DEF Closes, Resets, AnswersReset, ResetOf
<1> QED BY <1>2, <1>4, <1>6

(* And who neither closes nor resets it is still there.                    *)
LEMMA ClientsStayUp ==
    ASSUME sock \in [Clients -> Socket], NEW c \in Clients,
           Connects(c) \/ Sends(c) \/ Reads(c) \/ Closes(c) \/ Resets(c),
           {"fin", "rst"} \cap Faults = {}, \A d \in Clients : sock[d].peer = "up"
    PROVE  \A d \in Clients : sock'[d].peer = "up"
<1> SUFFICES ASSUME NEW d \in Clients PROVE sock'[d].peer = "up"
  OBVIOUS
<1>1. sock[c] \in Socket /\ sock[d] \in Socket /\ sock[d].peer = "up"
  OBVIOUS
<1>2. CASE Connects(c)
  <2>1. sock' = [sock EXCEPT ![c].phase = "queued"]
    BY <1>2 DEF Connects
  <2> QED BY <1>1, <2>1, PhaseOnly
<1>3. ASSUME NEW n, sock' = [sock EXCEPT ![c].rx = n] \/ sock' = [sock EXCEPT ![c].tx = n]
      PROVE  sock'[d].peer = "up"
  BY <1>1, <1>3 DEF Socket
<1>4. CASE Sends(c) \/ Reads(c)
  BY <1>3, <1>4 DEF Sends, Reads
<1>5. ~Closes(c) /\ ~Resets(c)
  BY DEF Closes, Resets, AnswersReset
<1> QED BY <1>2, <1>4, <1>5
-----------------------------------------------------------------------------
(* A connection in the hands of a handler: its socket and its ring.        *)
LEMMA SocketReceives ==
    ASSUME NEW s \in Socket, NEW n \in Nat, n <= s.rx,
           NEW t, t = [s EXCEPT !.rx = @ - n, !.in = @ + n]
    PROVE  /\ t \in Socket /\ t.phase = s.phase /\ t.peer = s.peer
           /\ t.rx = s.rx - n /\ t.in = s.in + n /\ t.tx = s.tx /\ t.out = s.out
<1>1. s.rx \in 0 .. MaxBytes /\ s.in \in Nat /\ MaxBytes \in Nat
  BY SocketCounts
<1>2. s.rx - n \in 0 .. MaxBytes /\ s.in + n \in Nat
  BY <1>1
<1> QED BY <1>1, <1>2 DEF Socket

LEMMA SocketSends ==
    ASSUME NEW s \in Socket, NEW n \in Nat, n <= SendRoom - s.tx,
           NEW t, t = [s EXCEPT !.tx = @ + n, !.out = @ + n]
    PROVE  /\ t \in Socket /\ t.phase = s.phase /\ t.peer = s.peer
           /\ t.rx = s.rx /\ t.in = s.in /\ t.tx = s.tx + n /\ t.out = s.out + n
<1>1. s.tx \in 0 .. SendRoom /\ s.out \in Nat /\ SendRoom \in Nat
  BY SocketCounts
<1>2. s.tx + n \in 0 .. SendRoom /\ s.out + n \in Nat
  BY <1>1
<1> QED BY <1>1, <1>2 DEF Socket

LEMMA RingReceives ==
    ASSUME NEW r \in CounterPair, NEW n \in Nat, Count(r.head, r.tail) + n <= BufferSize,
           NEW q, q = [r EXCEPT !.tail = Advance(@, n)]
    PROVE  q \in CounterPair /\ Count(q.head, q.tail) = Count(r.head, r.tail) + n
<1>1. r.head \in Counter /\ r.tail \in Counter
  BY DEF CounterPair
<1>2. PICK t : t = Advance(r.tail, n)
  OBVIOUS
<1>3. t \in Counter /\ Count(r.head, t) = Count(r.head, r.tail) + n
  BY <1>1, <1>2, TailMoves
<1>4. q.head = r.head /\ q.tail = t /\ q \in CounterPair
  BY <1>2, <1>3 DEF CounterPair
<1> QED BY <1>3, <1>4

LEMMA RingSends ==
    ASSUME NEW r \in CounterPair, NEW n \in Nat, n <= Count(r.head, r.tail),
           NEW q, q = [r EXCEPT !.head = Advance(@, n)]
    PROVE  q \in CounterPair /\ Count(q.head, q.tail) = Count(r.head, r.tail) - n
<1>1. r.head \in Counter /\ r.tail \in Counter
  BY DEF CounterPair
<1>2. PICK t : t = Advance(r.head, n)
  OBVIOUS
<1>3. t \in Counter /\ Count(t, r.tail) = Count(r.head, r.tail) - n
  BY <1>1, <1>2, HeadMoves
<1>4. q.head = t /\ q.tail = r.tail /\ q \in CounterPair
  BY <1>2, <1>3 DEF CounterPair
<1> QED BY <1>3, <1>4
-----------------------------------------------------------------------------
(* When run() ends: every buffer is redeemed, in an order o of the entries *)
(* that have one.                                                          *)
WithBuffer(F, buf) == {f \in F : buf[f] # 0}
RedeemsAll(F, buf, o, p, r, t) ==
    /\ o \in Bijection(1 .. Cardinality(WithBuffer(F, buf)), WithBuffer(F, buf))
    /\ p = m_pl \o [i \in DOMAIN o |-> buf[o[i]]]
    /\ r = [b \in Buffers |-> IF \E f \in WithBuffer(F, buf) : b = buf[f] THEN EmptyRing
                              ELSE ring[b]]
    /\ \A f \in F : t[f] = 0

LEMMA AllRedeemed ==
    ASSUME PoolTypeOK, NEW F, IsFiniteSet(F), NEW buf,
           Conserved(m_pl, Len(m_pl), Len(ring), F, buf),
           NEW o, NEW p, NEW r, NEW t, RedeemsAll(F, buf, o, p, r, t)
    PROVE  /\ r \in Seq(CounterPair) /\ Len(r) = Len(ring) /\ p \in Seq(1 .. Len(ring))
           /\ Conserved(p, Len(p), Len(r), F, t)
           /\ PoolContents(m_pl, ring) => PoolContents(p, r)
<1>0. PICK B, s : /\ B = {f \in F : buf[f] # 0} /\ o \in Bijection(1 .. Cardinality(B), B)
                  /\ s = [i \in DOMAIN o |-> buf[o[i]]] /\ p = m_pl \o s
                  /\ r = [b \in Buffers |-> IF \E f \in B : b = buf[f] THEN EmptyRing
                                            ELSE ring[b]]
                  /\ \A f \in F : t[f] = 0
  BY DEF RedeemsAll, WithBuffer
<1> USE <1>0
<1>1. PICK k \in Nat, n \in Nat : k = Len(m_pl) /\ n = Len(ring)
  BY Allocation
<1>2. /\ ring \in Seq(CounterPair) /\ m_pl \in Seq(1 .. n) /\ Buffers = 1 .. n
      /\ Conserved(m_pl, k, n, F, buf)
  BY <1>1 DEF PoolTypeOK, CounterPair, Buffers
<1>3. PICK m \in Nat : m = Cardinality(B)
  <2>1. B \in SUBSET F
    OBVIOUS
  <2> QED BY <2>1, FS_Subset, FS_CardinalityType
<1>4. /\ o \in [1 .. m -> B] /\ DOMAIN o = 1 .. m
      /\ \A i, j \in 1 .. m : o[i] = o[j] => i = j
      /\ \A f \in B : \E i \in 1 .. m : o[i] = f
  <2>1. PICK S : S = 1 .. m
    OBVIOUS
  <2>2. o \in Bijection(S, B)
    BY <1>3, <2>1
  <2>3. /\ o \in [S -> B]
        /\ o \in Injection(S, B)
        /\ o \in Surjection(S, B)
        /\ \A i, j \in S : o[i] = o[j] => i = j
        /\ \A f \in B : \E i \in S : o[i] = f
    BY ONLY <2>2, Fun_BijectionProperties
  <2> QED BY <2>1, <2>3
<1>5. /\ s = [i \in 1 .. m |-> buf[o[i]]]
      /\ \A i \in 1 .. m : o[i] \in F /\ s[i] = buf[o[i]] /\ s[i] # 0
      /\ \A i \in 1 .. m : s[i] \in 1 .. n
      /\ \A i, j \in 1 .. m : i # j => s[i] # s[j]
  <2>1. s = [i \in 1 .. m |-> buf[o[i]]]
    BY <1>4
  <2>2. \A i \in 1 .. m : o[i] \in F /\ buf[o[i]] # 0
    BY <1>4
  <2>3. \A i \in 1 .. m : buf[o[i]] \in 1 .. n
    <3>1. \A b \in 0 .. n : b # 0 => b \in 1 .. n
      BY <1>1
    <3> QED BY <1>2, <2>2, <3>1 DEF Conserved
  <2>4. \A i, j \in 1 .. m : i # j => buf[o[i]] # buf[o[j]]
    BY <1>2, <1>4, <2>2 DEF Conserved
  <2> QED BY <2>1, <2>2, <2>3, <2>4
<1>6. /\ p \in Seq(1 .. n) /\ Len(p) = k + m
      /\ \A i \in 1 .. k : p[i] = m_pl[i]
      /\ \A j \in 1 .. m : p[k + j] = s[j]
  <2>1. s \in Seq(1 .. n) /\ Len(s) = m
    <3>1. s \in [1 .. m -> 1 .. n] /\ m \in Nat
      BY <1>5
    <3> QED BY ONLY <3>1
  <2>2. PICK S : S = 1 .. n
    OBVIOUS
  <2>3. m_pl \in Seq(S) /\ s \in Seq(S)
    BY <1>2, <2>1, <2>2
  <2>4. PICK c, d : c = Len(m_pl) /\ d = Len(s)
    OBVIOUS
  <2>5. /\ m_pl \o s \in Seq(S) /\ Len(m_pl \o s) = Len(m_pl) + Len(s)
        /\ \A i \in 1 .. Len(m_pl) + Len(s) :
              (m_pl \o s)[i] = IF i <= Len(m_pl) THEN m_pl[i] ELSE s[i - Len(m_pl)]
    BY <2>3, ConcatProperties
  <2>6. /\ p \in Seq(S) /\ Len(p) = c + d
        /\ \A i \in 1 .. c + d : p[i] = IF i <= c THEN m_pl[i] ELSE s[i - c]
    BY <2>4, <2>5
  <2>7. c = k /\ d = m
    BY <1>1, <2>1, <2>4
  <2>8. /\ p \in Seq(1 .. n) /\ Len(p) = k + m
        /\ \A i \in 1 .. k + m : p[i] = IF i <= k THEN m_pl[i] ELSE s[i - k]
    BY <2>2, <2>6, <2>7
  <2>9. /\ \A i \in 1 .. k : i \in 1 .. k + m /\ i <= k
        /\ \A j \in 1 .. m : k + j \in 1 .. k + m /\ ~(k + j <= k) /\ (k + j) - k = j
    OBVIOUS
  <2>10. \A i \in 1 .. k : p[i] = m_pl[i]
    BY ONLY <2>8, <2>9
  <2>11. \A j \in 1 .. m : p[k + j] = s[j]
    <3> SUFFICES ASSUME NEW j \in 1 .. m PROVE p[k + j] = s[j]
      OBVIOUS
    <3>1. PICK i : i = k + j
      OBVIOUS
    <3>2. i \in 1 .. k + m /\ ~(i <= k) /\ i - k = j
      BY <2>9, <3>1
    <3>3. p[i] = s[i - k]
      BY ONLY <2>8, <3>2
    <3> QED BY ONLY <3>1, <3>2, <3>3
  <2> QED BY ONLY <2>8, <2>10, <2>11
<1>7. r \in Seq(CounterPair) /\ Len(r) = n
  <2>1. \A b \in 1 .. n : ring[b] \in CounterPair
    BY <1>1, <1>2, ElementOfSeq
  <2>2. r \in [1 .. n -> CounterPair]
    BY <1>2, <2>1, EmptyHoldsNothing
  <2> QED BY <2>2
<1>8. Conserved(p, k + m, n, F, t)
  <2>1. \A j \in 1 .. m : s[j] # 0 /\ \E f \in F : s[j] = buf[f]
    BY <1>5
  <2>2. \A f \in F : buf[f] # 0 => \E j \in 1 .. m : s[j] = buf[f]
    <3>1. \A f \in F : buf[f] # 0 => f \in B
      OBVIOUS
    <3> QED BY <1>4, <1>5, <3>1
  <2>3. AllReturn(m_pl, k, F, buf, m, s, p, t)
    BY <1>5, <1>6, <2>1, <2>2 DEF AllReturn
  <2> QED BY <1>2, <2>3, ConservedAll
<1>9. ASSUME PoolContents(m_pl, ring) PROVE PoolContents(p, r)
  <2>1. \A b \in 1 .. n : r[b] = EmptyRing \/ r[b] = ring[b]
    BY <1>2
  <2>2. \A b \in 1 .. n : Count(ring[b].head, ring[b].tail) <= BufferSize
    BY <1>1, <1>9 DEF PoolContents
  <2>3. Count(EmptyRing.head, EmptyRing.tail) <= BufferSize
    BY EmptyHoldsNothing, CounterFacts
  <2>4. \A b \in 1 .. n : Count(r[b].head, r[b].tail) <= BufferSize
    BY <2>1, <2>2, <2>3
  <2>5. \A i \in 1 .. k : m_pl[i] \in 1 .. n /\ ring[m_pl[i]] = EmptyRing
    BY <1>1, <1>2, <1>9, ElementOfSeq DEF PoolContents
  <2>6. \A i \in 1 .. k : r[p[i]] = EmptyRing
    <3> SUFFICES ASSUME NEW i \in 1 .. k PROVE r[p[i]] = EmptyRing
      OBVIOUS
    <3>1. PICK b : b = m_pl[i]
      OBVIOUS
    <3>2. p[i] = b /\ b \in 1 .. n /\ ring[b] = EmptyRing
      BY <1>6, <2>5, <3>1
    <3>3. r[b] = EmptyRing
      BY ONLY <2>1, <3>2
    <3> QED BY <3>2, <3>3
  <2>7. \A j \in 1 .. m : r[s[j]] = EmptyRing
    <3> SUFFICES ASSUME NEW j \in 1 .. m PROVE r[s[j]] = EmptyRing
      OBVIOUS
    <3>1. s[j] \in Buffers
      BY <1>2, <1>5
    <3>2. o[j] \in B /\ s[j] = buf[o[j]]
      BY <1>4, <1>5
    <3> QED BY <3>1, <3>2
  <2>8. \A i \in 1 .. k + m : i \in 1 .. k \/ \E j \in 1 .. m : i = k + j
    <3> SUFFICES ASSUME NEW i \in 1 .. k + m, ~(i <= k) PROVE \E j \in 1 .. m : i = k + j
      OBVIOUS
    <3>1. i - k \in 1 .. m /\ i = k + (i - k)
      OBVIOUS
    <3> QED BY <3>1
  <2>9. ASSUME NEW i \in 1 .. k + m PROVE r[p[i]] = EmptyRing
    <3>1. CASE i \in 1 .. k
      BY <2>6, <3>1
    <3>2. CASE \E j \in 1 .. m : i = k + j
      <4>1. PICK j \in 1 .. m : i = k + j
        BY <3>2
      <4>2. p[i] = s[j] /\ r[s[j]] = EmptyRing
        BY <1>6, <2>7, <4>1
      <4> QED BY <4>2
    <3> QED BY <2>8, <3>1, <3>2
  <2>10. \A i \in 1 .. Len(p) : r[p[i]] = EmptyRing
    BY <1>6, <2>9
  <2> QED BY <1>7, <2>4, <2>10 DEF PoolContents
<1>10. Len(p) = k + m /\ Len(r) = n /\ Len(ring) = n
  BY <1>1, <1>6, <1>7
<1> QED BY <1>6, <1>7, <1>8, <1>9, <1>10
=============================================================================
