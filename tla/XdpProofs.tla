----------------------------- MODULE XdpProofs -----------------------------
(***************************************************************************)
(* Proofs about the two sides of the AF_XDP socket, for every ring size    *)
(* and every modulus of the counters that is a multiple of it.  First the  *)
(* rings: what storing, publishing and giving back do to the sequence of   *)
(* entries a ring holds, although the counters wrap.  Then XdpUmem, for    *)
(* every set of chunks and number of blocks in a chunk: no chunk of the    *)
(* umem is lost or in two places, and the blocks of the slab chunks are in *)
(* use, on the free list or not carved yet.  Last XdpTx, for every limit   *)
(* of segments and number of calls: no descriptor is lost, duplicated or   *)
(* overwritten, packets are framed, and the shared header is right unless  *)
(* another packet overtook.                                                *)
(***************************************************************************)
EXTENDS XdpUmem, XdpTx, SequenceTheorems, FiniteSetTheorems, WellFoundedInduction, TLAPS

-----------------------------------------------------------------------------
(***************************************************************************)
(* Remainders                                                              *)
(***************************************************************************)
\* A number is its quotient and its remainder.
LEMMA DivMod ==
  ASSUME NEW m \in Nat \ {0}, NEW x \in Int
  PROVE  x \div m \in Int /\ x % m \in 0 .. m - 1 /\ x = m * (x \div m) + (x % m)
<1>1. x \div m \in Int
  OBVIOUS
<1>2. x % m \in 0 .. m - 1
  OBVIOUS
<1>3. x = m * (x \div m) + (x % m)
  OBVIOUS
<1> QED BY <1>1, <1>2, <1>3

\* Multiples of m that are less than m apart are the same.
LEMMA RemainderUnique ==
  ASSUME NEW m \in Nat \ {0}, NEW a \in Int, NEW b \in Int,
         NEW r \in 0 .. m - 1, NEW s \in 0 .. m - 1,
         m * a + r = m * b + s
  PROVE  r = s /\ a = b
<1>1. ~(a >= b + 1)
  <2> SUFFICES ASSUME a >= b + 1 PROVE FALSE
    OBVIOUS
  <2>1. m * a >= m * (b + 1)
    OBVIOUS
  <2>2. m * (b + 1) = m * b + m
    OBVIOUS
  <2>3. m * a \in Int /\ m * b \in Int
    OBVIOUS
  <2> QED BY <2>1, <2>2, <2>3
<1>2. ~(b >= a + 1)
  <2> SUFFICES ASSUME b >= a + 1 PROVE FALSE
    OBVIOUS
  <2>1. m * b >= m * (a + 1)
    OBVIOUS
  <2>2. m * (a + 1) = m * a + m
    OBVIOUS
  <2>3. m * a \in Int /\ m * b \in Int
    OBVIOUS
  <2> QED BY <2>1, <2>2, <2>3
<1>3. a = b
  BY <1>1, <1>2
<1> QED BY <1>3

\* Adding a multiple of m does not change the remainder.
LEMMA ModShift ==
  ASSUME NEW m \in Nat \ {0}, NEW x \in Int, NEW k \in Int
  PROVE  (x + m * k) % m = x % m
<1> DEFINE y == x + m * k
           a == x \div m
           b == y \div m
           v == x % m
<1>1. y \in Int /\ m * k \in Int
  OBVIOUS
<1>2. /\ a \in Int /\ v \in 0 .. m - 1 /\ x = m * a + v /\ m * a \in Int
  BY DivMod
<1> HIDE DEF a, v
<1>3. m * (a + k) = m * a + m * k
  BY <1>2
<1>4. y = m * (a + k) + v
  BY <1>1, <1>2, <1>3
<1> HIDE DEF y
<1> DEFINE w == y % m
<1>5. /\ b \in Int /\ w \in 0 .. m - 1 /\ y = m * b + w
  BY <1>1, DivMod
<1> HIDE DEF b, w
<1>6. a + k \in Int /\ m * (a + k) + v = m * b + w
  BY <1>2, <1>4, <1>5
<1>7. w = v
  BY <1>2, <1>5, <1>6, RemainderUnique
<1> QED BY <1>7 DEF y, v, w

\* A summand may be reduced first.
LEMMA ModSum ==
  ASSUME NEW m \in Nat \ {0}, NEW x \in Int, NEW y \in Int
  PROVE  ((x % m) + y) % m = (x + y) % m
<1> DEFINE a == x \div m
           v == x % m
<1>1. /\ a \in Int /\ v \in Int /\ x = m * a + v
  BY DivMod
<1> HIDE DEF a, v
<1>2. m * a \in Int
  BY <1>1
<1>3. x + y = (v + y) + m * a /\ v + y \in Int
  BY <1>1, <1>2
<1>4. (v + y) % m = (x + y) % m
  <2> DEFINE s == v + y
  <2>1. s \in Int /\ x + y = s + m * a
    BY <1>3
  <2> HIDE DEF s
  <2>2. (s + m * a) % m = s % m
    BY <1>1, <2>1, ModShift
  <2> QED BY <2>1, <2>2 DEF s
<1> QED BY <1>4 DEF v

\* So may a subtrahend.
LEMMA ModDifference ==
  ASSUME NEW m \in Nat \ {0}, NEW x \in Int, NEW y \in Int
  PROVE  (x - (y % m)) % m = (x - y) % m
<1> DEFINE a == y \div m
           v == y % m
<1>1. /\ a \in Int /\ v \in Int /\ y = m * a + v
  BY DivMod
<1> HIDE DEF a, v
<1>2. m * a \in Int
  BY <1>1
<1> DEFINE z == x - y
<1>3. x - v = z + m * a /\ z \in Int
  BY <1>1, <1>2
<1> HIDE DEF z
<1>4. (z + m * a) % m = z % m
  BY <1>1, <1>3, ModShift
<1>5. (x - v) % m = z % m
  BY <1>3, <1>4
<1> QED BY <1>5 DEF v, z

\* What is in the range already stays.
LEMMA ModSmall ==
  ASSUME NEW m \in Nat \ {0}, NEW x \in 0 .. m - 1
  PROVE  x % m = x
OBVIOUS

-----------------------------------------------------------------------------
(***************************************************************************)
(* Counters and slots                                                      *)
(***************************************************************************)
\* The constants as numbers.
LEMMA RingConstants ==
  /\ Size \in Nat \ {0} /\ Wrap \in Nat \ {0} /\ Size < Wrap
  /\ \E k \in Int : Wrap = Size * k
<1>1. /\ Size \in Nat \ {0} /\ Wrap \in Nat \ {0} /\ Size < Wrap /\ Wrap % Size = 0
  BY SizeAssumption, WrapAssumption
<1>2. /\ Wrap \div Size \in Int /\ Wrap = Size * (Wrap \div Size) + (Wrap % Size)
  BY <1>1, DivMod
<1> DEFINE k == Wrap \div Size
<1>3. k \in Int /\ Wrap = Size * k + 0
  BY <1>1, <1>2
<1> HIDE DEF k
<1>4. Wrap = Size * k
  BY <1>1, <1>3
<1> QED BY <1>1, <1>3, <1>4

\* A slot is an index of the ring.
LEMMA SlotType == \A c \in Int : Slot(c) \in 0 .. Size - 1
BY RingConstants, DivMod DEF Slot

\* The slot of a counter is the same before and after the counter wraps.
LEMMA SlotWrap == \A c, i \in Int : Slot((c % Wrap) + i) = Slot(c + i)
<1>1. TAKE c, i \in Int
<1>2. PICK k \in Int : Wrap = Size * k
  BY RingConstants
<1> DEFINE a == c \div Wrap
           v == c % Wrap
           b == k * a
<1>c. Wrap \in Nat \ {0} /\ Size \in Nat \ {0}
  BY RingConstants
<1>3. /\ a \in Int /\ v \in Int /\ c = Wrap * a + v
  BY <1>c, DivMod
<1> HIDE DEF a, v
<1>4. Wrap * a = Size * b /\ b \in Int
  BY <1>2, <1>3, RingConstants
<1> HIDE DEF b
<1>5. Size * b \in Int
  BY <1>4, RingConstants
<1> DEFINE z == v + i
<1>6. c + i = z + Size * b /\ z \in Int
  BY <1>3, <1>4, <1>5
<1> HIDE DEF z
<1>7. (z + Size * b) % Size = z % Size
  BY <1>c, <1>4, <1>6, ModShift
<1>8. (c + i) % Size = z % Size
  BY <1>6, <1>7
<1> QED BY <1>8 DEF Slot, v, z

\* Less than a turn apart, slots are different.
LEMMA SlotInjective ==
  ASSUME NEW c \in Int, NEW i \in Nat, NEW j \in Nat, i < Size, j < Size,
         Slot(c + i) = Slot(c + j)
  PROVE  i = j
<1> DEFINE a == (c + i) \div Size
           b == (c + j) \div Size
           r == (c + i) % Size
<1>1. /\ a \in Int /\ b \in Int /\ r \in 0 .. Size - 1 /\ r \in Int
      /\ c + i = Size * a + r /\ c + j = Size * b + r
  <2>1. c + i \in Int /\ c + j \in Int /\ Size \in Nat \ {0}
    BY RingConstants
  <2>2. /\ a \in Int /\ r \in 0 .. Size - 1 /\ c + i = Size * a + r
    BY <2>1, DivMod
  <2>3. /\ b \in Int /\ c + j = Size * b + ((c + j) % Size)
    BY <2>1, DivMod
  <2>4. (c + j) % Size = r
    BY DEF Slot
  <2> QED BY <2>1, <2>2, <2>3, <2>4
<1> HIDE DEF a, b, r
<1>2. Size * (a - b) = Size * a - Size * b /\ Size * a \in Int /\ Size * b \in Int
  BY <1>1, RingConstants
<1>3. i - j = Size * (a - b)
  BY <1>1, <1>2
<1>4. CASE i >= j
  <2>1. i - j \in 0 .. Size - 1
    BY <1>4, RingConstants
  <2>2. Size * (a - b) + 0 = Size * 0 + (i - j) /\ a - b \in Int /\ 0 \in 0 .. Size - 1
    BY <1>1, <1>3, RingConstants
  <2>3. 0 = i - j
    BY <2>1, <2>2, RemainderUnique, RingConstants
  <2> QED BY <2>3
<1>5. CASE i < j
  <2>1. j - i \in 0 .. Size - 1
    BY <1>5, RingConstants
  <2>2. Size * (a - b) + (j - i) = Size * 0 + 0 /\ a - b \in Int /\ 0 \in 0 .. Size - 1
    BY <1>1, <1>3, RingConstants
  <2>3. j - i = 0
    BY <2>1, <2>2, RemainderUnique, RingConstants
  <2> QED BY <2>3
<1> QED BY <1>4, <1>5

-----------------------------------------------------------------------------
(***************************************************************************)
(* The entries a ring holds                                                *)
(***************************************************************************)
Counters == 0 .. Wrap - 1
RingSlots == 0 .. Size - 1

\* The counters and the slots of a ring.
IsRing(r) == /\ r = [prod |-> r.prod, cons |-> r.cons, slot |-> r.slot]
             /\ r.prod \in Counters /\ r.cons \in Counters
             /\ r.slot = [s \in RingSlots |-> r.slot[s]]

\* Ring r holds the entries q for its consumer, oldest first.
Holds(r, q) == /\ IsRing(r)
               /\ Count(r) = Len(q) /\ Len(q) <= Size
               /\ \A i \in 1 .. Len(q) : r.slot[Slot(r.cons + i - 1)] = q[i]

\* The producer has stored es in the free slots of r and not yet published
\* them.
Stored(r, es) == \A i \in 1 .. Len(es) : r.slot[Slot(r.prod + i - 1)] = es[i]

\* The producer's slots come after the entries held.
LEMMA SlotOfProducer ==
  ASSUME NEW r, IsRing(r), NEW i \in Int
  PROVE  Slot(r.prod + i) = Slot(r.cons + Count(r) + i) /\ Count(r) \in Counters
<1>1. r.prod \in Int /\ r.cons \in Int /\ r.prod \in 0 .. Wrap - 1
  BY DEF IsRing, Counters
<1> DEFINE p == r.prod
           c == r.cons
           k == (p - c) % Wrap
<1> HIDE DEF p, c
<1>2. p \in Int /\ c \in Int /\ p - c \in Int
  BY <1>1 DEF p, c
<1>3. k \in 0 .. Wrap - 1
  BY <1>2, DivMod, RingConstants
<1>4. (k + c) % Wrap = ((p - c) + c) % Wrap
  BY <1>2, ModSum, RingConstants
<1> HIDE DEF k
<1>5. (p - c) + c = p /\ k + c = c + k /\ k \in Int
  BY <1>2, <1>3, RingConstants
<1>6. (k + c) % Wrap = p
  BY <1>1, <1>4, <1>5, ModSmall, RingConstants DEF p
<1>7. Slot(((k + c) % Wrap) + i) = Slot((k + c) + i)
  BY <1>2, <1>5, SlotWrap
<1> QED BY <1>3, <1>5, <1>6, <1>7 DEF Count, Counters, p, c, k

\* A new ring holds nothing.
LEMMA EmptyHolds == Holds(EmptyRing, << >>)
<1>1. IsRing(EmptyRing)
  BY RingConstants DEF IsRing, EmptyRing, Counters, RingSlots
<1>2. Count(EmptyRing) = 0
  BY RingConstants, ModSmall DEF Count, EmptyRing
<1> QED BY <1>1, <1>2, RingConstants DEF Holds

\* The store loops touch only free slots: what the consumer may read stays.
LEMMA StoreHolds ==
  ASSUME NEW T, NEW r, NEW q \in Seq(T), NEW es \in Seq(T), Holds(r, q),
         Len(q) + Len(es) <= Size
  PROVE  Holds(Store(r, es), q) /\ Stored(Store(r, es), es)
         /\ Store(r, es).prod = r.prod /\ Store(r, es).cons = r.cons
<1> DEFINE sl == [s \in DOMAIN r.slot |->
                    IF \E i \in DOMAIN es : s = Slot(r.prod + i - 1)
                    THEN es[CHOOSE i \in DOMAIN es : s = Slot(r.prod + i - 1)]
                    ELSE r.slot[s]]
           t == Store(r, es)
<1>1. /\ r = [prod |-> r.prod, cons |-> r.cons, slot |-> r.slot]
      /\ r.prod \in Counters /\ r.cons \in Counters
      /\ DOMAIN r.slot = RingSlots
  BY DEF Holds, IsRing
<1>2. t = [prod |-> r.prod, cons |-> r.cons, slot |-> sl]
  <2>1. t = [r EXCEPT !.slot = sl]
    BY DEF Store
  <2> HIDE DEF sl, t
  <2> QED BY <1>1, <2>1
<1>3. /\ t.prod = r.prod /\ t.cons = r.cons /\ t.slot = sl
  BY <1>2
<1> HIDE DEF t
<1>4. IsRing(t)
  <2>1. sl = [s \in RingSlots |-> sl[s]]
    BY <1>1
  <2> HIDE DEF sl
  <2> QED BY <1>1, <1>2, <1>3, <2>1 DEF IsRing
<1>5. Count(t) = Count(r)
  BY <1>3 DEF Count
<1>6. /\ Len(q) \in Nat /\ Len(es) \in Nat /\ Size \in Nat /\ DOMAIN es = 1 .. Len(es)
      /\ r.cons \in Int /\ r.prod \in Int
  BY <1>1, RingConstants DEF Counters
<1>7. ASSUME NEW i \in 1 .. Len(es)
      PROVE  Slot(r.prod + i - 1) = Slot(r.cons + (Len(q) + i - 1))
  <2>1. i - 1 \in Int /\ r.prod + i - 1 = r.prod + (i - 1)
        /\ r.cons + Len(q) + (i - 1) = r.cons + (Len(q) + i - 1)
    BY <1>6
  <2>2. IsRing(r) /\ Count(r) = Len(q)
    BY DEF Holds
  <2> QED BY <2>1, <2>2, SlotOfProducer
<1>8. ASSUME NEW i \in 1 .. Len(q)
      PROVE  t.slot[Slot(r.cons + i - 1)] = q[i]
  <2>1. Slot(r.cons + i - 1) = Slot(r.cons + (i - 1)) /\ Slot(r.cons + i - 1) \in RingSlots
    <3>1. r.cons + i - 1 = r.cons + (i - 1) /\ r.cons + i - 1 \in Int
      BY <1>6
    <3> QED BY <3>1, SlotType DEF RingSlots
  <2>2. ASSUME NEW k \in DOMAIN es, Slot(r.cons + i - 1) = Slot(r.prod + k - 1)
        PROVE  FALSE
    <3>1. Slot(r.cons + (i - 1)) = Slot(r.cons + (Len(q) + k - 1))
      BY <1>6, <1>7, <2>1, <2>2
    <3>2. i - 1 \in Nat /\ Len(q) + k - 1 \in Nat /\ i - 1 < Size /\ Len(q) + k - 1 < Size
      BY <1>6
    <3>3. i - 1 = Len(q) + k - 1
      BY <1>6, <3>1, <3>2, SlotInjective
    <3> QED BY <1>6, <3>3
  <2>3. sl[Slot(r.cons + i - 1)] = r.slot[Slot(r.cons + i - 1)]
    BY <1>1, <2>1, <2>2
  <2> QED BY <1>3, <2>3 DEF Holds
<1>9. ASSUME NEW i \in 1 .. Len(es)
      PROVE  t.slot[Slot(r.prod + i - 1)] = es[i]
  <2>1. Slot(r.prod + i - 1) \in RingSlots
    <3>1. r.prod + i - 1 \in Int
      BY <1>6
    <3> QED BY <3>1, SlotType DEF RingSlots
  <2> DEFINE k == CHOOSE k \in DOMAIN es : Slot(r.prod + i - 1) = Slot(r.prod + k - 1)
  <2>2. k \in DOMAIN es /\ Slot(r.prod + i - 1) = Slot(r.prod + k - 1)
    BY <1>6
  <2>3. sl[Slot(r.prod + i - 1)] = es[k]
    BY <1>1, <1>6, <2>1
  <2> HIDE DEF k
  <2>4. Slot(r.cons + (Len(q) + i - 1)) = Slot(r.cons + (Len(q) + k - 1))
    BY <1>6, <1>7, <2>2
  <2>5. /\ Len(q) + i - 1 \in Nat /\ Len(q) + k - 1 \in Nat
        /\ Len(q) + i - 1 < Size /\ Len(q) + k - 1 < Size
    <3>1. i \in Nat /\ k \in Nat /\ 1 <= i /\ 1 <= k /\ i <= Len(es) /\ k <= Len(es)
      BY <2>2
    <3>2. Len(q) \in Nat /\ Len(es) \in Nat /\ Size \in Nat /\ Len(q) + Len(es) <= Size
      BY <1>6
    <3> QED BY <3>1, <3>2
  <2>6. Len(q) + i - 1 = Len(q) + k - 1
    BY <1>6, <2>4, <2>5, SlotInjective
  <2>7. i = k
    BY <1>6, <2>2, <2>6
  <2> QED BY <1>3, <2>3, <2>7
<1> QED BY <1>3, <1>4, <1>5, <1>8, <1>9 DEF Holds, Stored, t

\* Storing the producer publishes what was stored, behind the older entries.
LEMMA ProduceHolds ==
  ASSUME NEW T, NEW r, NEW q \in Seq(T), NEW es \in Seq(T), Holds(r, q), Stored(r, es),
         Len(q) + Len(es) <= Size
  PROVE  Holds(Produce(r, Len(es)), q \o es)
<1> DEFINE t == Produce(r, Len(es))
           p == r.prod
           c == r.cons
           k == Len(es)
<1>1. /\ r = [prod |-> r.prod, cons |-> r.cons, slot |-> r.slot]
      /\ p \in Counters /\ c \in Counters
      /\ r.slot = [s \in RingSlots |-> r.slot[s]]
      /\ IsRing(r) /\ Count(r) = Len(q)
  BY DEF Holds, IsRing
<1>2. /\ t = [prod |-> (p + k) % Wrap, cons |-> c, slot |-> r.slot]
  BY <1>1 DEF Produce
<1>3. /\ t.prod = (p + k) % Wrap /\ t.cons = c /\ t.slot = r.slot
  BY <1>2
<1>4. /\ k \in Nat /\ p \in Int /\ c \in Int /\ Len(q) \in Nat
      /\ Wrap \in Nat \ {0} /\ Size \in Nat /\ Size < Wrap /\ p + k \in Int /\ p - c \in Int
  BY <1>1, RingConstants DEF Counters
<1> HIDE DEF t, p, c, k
<1>5. IsRing(t)
  <2>1. (p + k) % Wrap \in Counters
    BY <1>4, DivMod DEF Counters
  <2> QED BY <1>1, <1>2, <1>3, <2>1 DEF IsRing
<1>6. Count(t) = Len(q) + k
  <2>1. Count(t) = (((p + k) % Wrap) - c) % Wrap
    BY <1>3 DEF Count
  <2> DEFINE d == -c
  <2>2. d \in Int /\ \A x \in Int : x - c = x + d
    BY <1>4
  <2> HIDE DEF d
  <2>3. (((p + k) % Wrap) + d) % Wrap = ((p + k) + d) % Wrap
    BY <1>4, <2>2, ModSum
  <2>4. (p + k) % Wrap \in Int
    BY <1>4, DivMod
  <2>5. (p + k) + d = (p - c) + k
    BY <1>4, <2>2
  <2> DEFINE e == p - c
  <2>e. e \in Int /\ k \in Int
    BY <1>4
  <2> HIDE DEF e
  <2>x. ((e % Wrap) + k) % Wrap = (e + k) % Wrap
    BY <1>4, <2>e, ModSum
  <2>6. (((p - c) % Wrap) + k) % Wrap = ((p - c) + k) % Wrap
    BY <2>x DEF e
  <2>7. (p - c) % Wrap = Len(q)
    BY <1>1 DEF Count, p, c
  <2>8. Len(q) + k \in 0 .. Wrap - 1
    BY <1>4 DEF k
  <2>9. (Len(q) + k) % Wrap = Len(q) + k
    BY <1>4, <2>8, ModSmall
  <2> QED BY <2>1, <2>2, <2>3, <2>4, <2>5, <2>6, <2>7, <2>9
<1>7. /\ Len(q \o es) = Len(q) + k
      /\ \A i \in 1 .. Len(q) : (q \o es)[i] = q[i]
      /\ \A i \in 1 .. k : (q \o es)[Len(q) + i] = es[i]
  BY DEF k
<1>8. ASSUME NEW i \in 1 .. Len(q) + k
      PROVE  t.slot[Slot(t.cons + i - 1)] = (q \o es)[i]
  <2>1. CASE i <= Len(q)
    <3>1. i \in 1 .. Len(q)
      BY <1>4, <2>1
    <3> QED BY <1>3, <1>7, <3>1 DEF Holds, c
  <2>2. CASE i > Len(q)
    <3> DEFINE j == i - Len(q)
    <3>1. j \in 1 .. k /\ i = Len(q) + j /\ j - 1 \in Int
      BY <1>4, <2>2
    <3> HIDE DEF j
    <3>2. p + j - 1 = p + (j - 1) /\ c + i - 1 = c + Len(q) + (j - 1)
      BY <1>4, <3>1
    <3>3. Slot(p + (j - 1)) = Slot(c + Len(q) + (j - 1))
      BY <1>1, <3>1, SlotOfProducer DEF p, c
    <3>4. r.slot[Slot(p + j - 1)] = es[j]
      BY <3>1 DEF Stored, p, k
    <3> QED BY <1>3, <1>7, <3>1, <3>2, <3>3, <3>4
  <2>3. i \in Int /\ Len(q) \in Int
    BY <1>4
  <2>4. i <= Len(q) \/ i > Len(q)
    BY <2>3
  <2> QED BY <2>1, <2>2, <2>4
<1>9. Len(q) + k <= Size
  BY DEF k
<1> QED BY <1>5, <1>6, <1>7, <1>8, <1>9 DEF Holds, t, k

\* Storing the consumer gives the oldest entries back, and does not touch what
\* the producer has stored.
LEMMA ConsumeHolds ==
  ASSUME NEW T, NEW r, NEW q \in Seq(T), Holds(r, q), NEW k \in 0 .. Len(q)
  PROVE  /\ Holds(Consume(r, k), SubSeq(q, k + 1, Len(q)))
         /\ Consume(r, k).prod = r.prod /\ Consume(r, k).slot = r.slot
<1> DEFINE t == Consume(r, k)
           p == r.prod
           c == r.cons
           z == SubSeq(q, k + 1, Len(q))
<1>1. /\ r = [prod |-> r.prod, cons |-> r.cons, slot |-> r.slot]
      /\ p \in Counters /\ c \in Counters
      /\ r.slot = [s \in RingSlots |-> r.slot[s]]
      /\ IsRing(r) /\ Count(r) = Len(q) /\ Len(q) <= Size
  BY DEF Holds, IsRing
<1>2. /\ t = [prod |-> p, cons |-> (c + k) % Wrap, slot |-> r.slot]
  BY <1>1 DEF Consume
<1>3. /\ t.cons = (c + k) % Wrap /\ t.prod = p /\ t.slot = r.slot
  BY <1>2
<1>4. /\ k \in Nat /\ p \in Int /\ c \in Int /\ Len(q) \in Nat /\ k <= Len(q)
      /\ Wrap \in Nat \ {0} /\ Size \in Nat /\ Size < Wrap /\ c + k \in Int /\ p - c \in Int
  BY <1>1, RingConstants DEF Counters
<1>5. /\ Len(z) = Len(q) - k /\ \A i \in 1 .. Len(q) - k : z[i] = q[k + i]
  <2>1. /\ k + 1 \in Int /\ Len(q) \in Int /\ \A i \in k + 1 .. Len(q) : q[i] \in T
    BY <1>4
  <2>2. /\ Len(z) = IF k + 1 <= Len(q) THEN Len(q) - (k + 1) + 1 ELSE 0
        /\ \A i \in 1 .. Len(q) - (k + 1) + 1 : z[i] = q[k + 1 + i - 1]
    BY <2>1, SubSeqProperties
  <2> HIDE DEF z
  <2>3. \A i \in 1 .. Len(q) - k : i \in 1 .. Len(q) - (k + 1) + 1 /\ k + 1 + i - 1 = k + i
    BY <1>4
  <2>4. Len(z) = Len(q) - k
    BY <1>4, <2>2
  <2>5. ASSUME NEW i \in 1 .. Len(q) - k PROVE z[i] = q[k + i]
    BY <2>2, <2>3
  <2> QED BY <2>4, <2>5
<1> HIDE DEF t, p, c, z
<1>6. IsRing(t)
  <2>1. (c + k) % Wrap \in Counters
    BY <1>4, DivMod DEF Counters
  <2> QED BY <1>1, <1>2, <1>3, <2>1 DEF IsRing
<1>7. Count(t) = Len(q) - k
  <2>1. Count(t) = (p - ((c + k) % Wrap)) % Wrap
    BY <1>3 DEF Count
  <2>2. (p - ((c + k) % Wrap)) % Wrap = (p - (c + k)) % Wrap
    BY <1>4, ModDifference
  <2> DEFINE d == -k
  <2>3. d \in Int /\ p - (c + k) = (p - c) + d /\ Len(q) - k = Len(q) + d
    BY <1>4
  <2> HIDE DEF d
  <2>4. (((p - c) % Wrap) + d) % Wrap = ((p - c) + d) % Wrap
    BY <1>4, <2>3, ModSum
  <2>5. (p - c) % Wrap = Len(q)
    BY <1>1 DEF Count, p, c
  <2>6. Len(q) - k \in 0 .. Wrap - 1
    BY <1>1, <1>4
  <2>7. (Len(q) - k) % Wrap = Len(q) - k
    BY <1>4, <2>6, ModSmall
  <2> QED BY <2>1, <2>2, <2>3, <2>4, <2>5, <2>7
<1>8. ASSUME NEW i \in 1 .. Len(q) - k
      PROVE  t.slot[Slot(t.cons + i - 1)] = z[i]
  <2>1. i - 1 \in Int /\ k + i \in 1 .. Len(q)
    BY <1>4
  <2>2. Slot(((c + k) % Wrap) + (i - 1)) = Slot((c + k) + (i - 1))
    BY <1>4, <2>1, SlotWrap
  <2>3. (c + k) % Wrap \in Int
    BY <1>4, DivMod
  <2>4. t.cons + i - 1 = t.cons + (i - 1) /\ (c + k) + (i - 1) = c + (k + i) - 1
    BY <1>3, <1>4, <2>3
  <2>5. r.slot[Slot(c + (k + i) - 1)] = q[k + i]
    BY <2>1 DEF Holds, c
  <2> QED BY <1>3, <1>5, <2>2, <2>4, <2>5
<1>9. Len(q) - k <= Size
  BY <1>1, <1>4
<1> QED BY <1>3, <1>5, <1>6, <1>7, <1>8, <1>9 DEF Holds, t, z, p

\* What a consumer copies out are the oldest entries.
LEMMA EntriesHeld ==
  ASSUME NEW T, NEW r, NEW q \in Seq(T), Holds(r, q), NEW k \in 0 .. Len(q)
  PROVE  Entries(r, r.cons, k) = [i \in 1 .. k |-> q[i]]
<1>1. \A i \in 1 .. k : i \in 1 .. Len(q)
  OBVIOUS
<1>2. \A i \in 1 .. k : r.slot[Slot(r.cons + i - 1)] = q[i]
  BY <1>1 DEF Holds
<1> QED BY <1>2 DEF Entries

\* The entries of a ring, all of them copied out.
LEMMA AllEntries ==
  ASSUME NEW T, NEW r, NEW q \in Seq(T), Holds(r, q)
  PROVE  Entries(r, r.cons, Count(r)) = q
<1>1. Count(r) = Len(q) /\ Len(q) \in 0 .. Len(q)
  BY DEF Holds
<1>2. Entries(r, r.cons, Len(q)) = [i \in 1 .. Len(q) |-> q[i]]
  BY <1>1, EntriesHeld
<1> QED BY <1>1, <1>2

\* The slots the consumer may read that store entry d.
SlotsOf(r, d) == {s \in Pending(r) : r.slot[s] = d}

\* An entry that a ring holds once is in one of the slots the consumer may
\* read, one it does not hold is in none.
LEMMA PendingHeld ==
  ASSUME NEW T, NEW r, NEW q \in Seq(T), Holds(r, q), NEW d
  PROVE  /\ (\A i \in 1 .. Len(q) : q[i] # d) => SlotsOf(r, d) = {}
         /\ \A i \in 1 .. Len(q) :
              q[i] = d /\ (\A j \in 1 .. Len(q) : q[j] = d => j = i)
              => SlotsOf(r, d) = {Slot(r.cons + i - 1)}
<1>1. /\ r.cons \in Int /\ Len(q) \in Nat
      /\ \A i \in 1 .. Len(q) : r.slot[Slot(r.cons + i - 1)] = q[i]
  <2>1. r.cons \in 0 .. Wrap - 1 /\ Wrap \in Nat
    BY RingConstants DEF Holds, IsRing, Counters
  <2>2. r.cons \in Int /\ Len(q) \in Nat
    BY <2>1
  <2> QED BY <2>2 DEF Holds
<1>2. Pending(r) = {Slot(r.cons + i) : i \in 0 .. Len(q) - 1}
  BY DEF Pending, Holds
<1>3. Pending(r) = {Slot(r.cons + i - 1) : i \in 1 .. Len(q)}
  <2>1. ASSUME NEW i \in 0 .. Len(q) - 1
        PROVE  \E j \in 1 .. Len(q) : Slot(r.cons + i) = Slot(r.cons + j - 1)
    <3>1. i + 1 \in 1 .. Len(q) /\ r.cons + (i + 1) - 1 = r.cons + i
      BY <1>1
    <3> QED BY <3>1
  <2>2. ASSUME NEW j \in 1 .. Len(q)
        PROVE  \E i \in 0 .. Len(q) - 1 : Slot(r.cons + i) = Slot(r.cons + j - 1)
    <3>1. j - 1 \in 0 .. Len(q) - 1 /\ r.cons + j - 1 = r.cons + (j - 1)
      BY <1>1
    <3> QED BY <3>1
  <2> QED BY <1>2, <2>1, <2>2
<1> QED BY <1>1, <1>3 DEF SlotsOf

-----------------------------------------------------------------------------
(***************************************************************************)
(* XdpUmem: the inductive invariant                                        *)
(***************************************************************************)
Labels == {"idle", "fill_store", "fill_publish", "rx_copy", "rx_publish"}
Distinct(s) == \A i, j \in DOMAIN s : s[i] = s[j] => i = j

\* What waits in the two rings.
Filled == Entries(fill, fill.cons, Count(fill))
Arrived == Entries(rx, rx.cons, Count(rx))

TypeOK == /\ pc \in Labels /\ n \in Nat
          /\ stack \in Seq(Chunks) /\ Distinct(stack)
          /\ kernel \subseteq Chunks /\ app \subseteq Chunks

\* The fill ring, and the room xdp_fill found in it, which the kernel can
\* only make larger.
FillOK == /\ Filled \in Seq(Chunks) /\ Distinct(Filled) /\ Holds(fill, Filled)
          /\ pc \in {"fill_store", "fill_publish"} => Len(Filled) + n <= Size
          /\ pc = "fill_publish" => /\ out \in Seq(Chunks) /\ Distinct(out)
                                    /\ Len(out) = n /\ Stored(fill, out)

\* The rx ring, and what xdp_rx has counted and copied of it.
RxOK == /\ Arrived \in Seq(Chunks) /\ Distinct(Arrived) /\ Holds(rx, Arrived)
        /\ pc \in {"rx_copy", "rx_publish"} => n <= Len(Arrived)
        /\ pc = "rx_publish" => out = [i \in 1 .. n |-> Arrived[i]]

\* w says where each chunk is.
Homes == {"stack", "filling", "fill", "rx", "kernel", "app", "slab"}
Located(w) ==
  /\ w \in [Chunks -> Homes]
  /\ \A c \in Chunks : /\ (w[c] = "stack")   <=> c \in Elems(stack)
                       /\ (w[c] = "filling") <=> pc = "fill_publish" /\ c \in Elems(out)
                       /\ (w[c] = "fill")    <=> c \in Elems(Filled)
                       /\ (w[c] = "rx")      <=> c \in Elems(Arrived)
                       /\ (w[c] = "kernel")  <=> c \in kernel
                       /\ (w[c] = "app")     <=> c \in app

\* The free list is f, from its head to the null pointer.
Linked(f) == /\ f \in Seq(Blocks) /\ Distinct(f)
             /\ freeList = IF f = << >> THEN NULL ELSE f[1]
             /\ DOMAIN link = Blocks
             /\ \A i \in 1 .. Len(f) : link[f[i]] = IF i = Len(f) THEN NULL ELSE f[i + 1]

\* Where the next block is carved from: nowhere yet, or a slab chunk.
CurOK(w) == /\ cur = <<cur[1], cur[2]>> /\ cur[2] \in 1 .. Lines
            /\ \/ cur[1] = NULL /\ cur[2] = Lines
               \/ cur[1] \in Chunks /\ w[cur[1]] = "slab"

\* The blocks that have been carved.
Carved(w) == {b \in Blocks : w[b[1]] = "slab" /\ (b[1] = cur[1] => b[2] < cur[2])}

SlabOK(w) == /\ CurOK(w)
             /\ \E f : /\ Linked(f)
                       /\ inUse \intersect Elems(f) = {}
                       /\ inUse \union Elems(f) = Carved(w)

UmemInvariant == /\ TypeOK /\ FillOK /\ RxOK
                 /\ \E w : Located(w) /\ SlabOK(w)

-----------------------------------------------------------------------------
(***************************************************************************)
(* Sequences                                                               *)
(***************************************************************************)
\* The elements of a sequence.
LEMMA ElemsOfSeq ==
  ASSUME NEW T, NEW s \in Seq(T)
  PROVE  /\ Len(s) \in Nat /\ DOMAIN s = 1 .. Len(s)
         /\ Elems(s) = {s[i] : i \in 1 .. Len(s)}
         /\ \A i \in 1 .. Len(s) : s[i] \in T
BY DEF Elems

\* What is published after what was there.
LEMMA JoinDistinct ==
  ASSUME NEW T, NEW p \in Seq(T), NEW q \in Seq(T), Distinct(p), Distinct(q),
         Elems(p) \intersect Elems(q) = {}
  PROVE  /\ p \o q \in Seq(T) /\ Len(p \o q) = Len(p) + Len(q)
         /\ Distinct(p \o q) /\ Elems(p \o q) = Elems(p) \union Elems(q)
<1> DEFINE z == p \o q
<1>1. /\ z \in Seq(T) /\ Len(z) = Len(p) + Len(q)
      /\ \A i \in 1 .. Len(p) + Len(q) : z[i] = IF i <= Len(p) THEN p[i] ELSE q[i - Len(p)]
  BY ConcatProperties
<1> HIDE DEF z
<1>2. /\ Len(p) \in Nat /\ Len(q) \in Nat
      /\ DOMAIN p = 1 .. Len(p) /\ DOMAIN q = 1 .. Len(q) /\ DOMAIN z = 1 .. Len(p) + Len(q)
      /\ Elems(p) = {p[i] : i \in 1 .. Len(p)} /\ Elems(q) = {q[i] : i \in 1 .. Len(q)}
      /\ Elems(z) = {z[i] : i \in 1 .. Len(p) + Len(q)}
  <2>1. /\ Len(p) \in Nat /\ DOMAIN p = 1 .. Len(p) /\ Elems(p) = {p[i] : i \in 1 .. Len(p)}
    BY ElemsOfSeq
  <2>2. /\ Len(q) \in Nat /\ DOMAIN q = 1 .. Len(q) /\ Elems(q) = {q[i] : i \in 1 .. Len(q)}
    BY ElemsOfSeq
  <2>3. DOMAIN z = 1 .. Len(z) /\ Elems(z) = {z[i] : i \in 1 .. Len(z)}
    BY <1>1, ElemsOfSeq
  <2> QED BY <1>1, <2>1, <2>2, <2>3
<1>3. \A i \in 1 .. Len(p) : i \in 1 .. Len(p) + Len(q) /\ z[i] = p[i]
  BY <1>1, <1>2
<1>4. \A i \in 1 .. Len(q) : Len(p) + i \in 1 .. Len(p) + Len(q) /\ z[Len(p) + i] = q[i]
  BY <1>1, <1>2
<1>5. \A i \in 1 .. Len(p) + Len(q) :
         \/ i \in 1 .. Len(p)
         \/ i - Len(p) \in 1 .. Len(q) /\ i = Len(p) + (i - Len(p))
  BY <1>2
<1>6. Elems(z) = Elems(p) \union Elems(q)
  <2>1. ASSUME NEW i \in 1 .. Len(p) + Len(q) PROVE z[i] \in Elems(p) \union Elems(q)
    <3>1. CASE i \in 1 .. Len(p)
      BY <1>2, <1>3, <3>1
    <3>2. CASE i - Len(p) \in 1 .. Len(q) /\ i = Len(p) + (i - Len(p))
      BY <1>2, <1>4, <3>2
    <3> QED BY <1>5, <3>1, <3>2
  <2>2. Elems(p) \subseteq Elems(z)
    BY <1>2, <1>3
  <2>3. Elems(q) \subseteq Elems(z)
    BY <1>2, <1>4
  <2>4. Elems(z) \subseteq Elems(p) \union Elems(q)
    BY <1>2, <2>1
  <2> QED BY <2>2, <2>3, <2>4
<1>7. Distinct(z)
  <2> SUFFICES ASSUME NEW i \in 1 .. Len(p) + Len(q), NEW j \in 1 .. Len(p) + Len(q),
                      z[i] = z[j]
               PROVE  i = j
    BY <1>2 DEF Distinct
  <2> DEFINE a == i - Len(p)
             b == j - Len(p)
  <2>0. i \in Int /\ j \in Int
    BY <1>2
  <2>1. \/ i \in 1 .. Len(p) /\ z[i] = p[i] /\ z[i] \in Elems(p)
        \/ a \in 1 .. Len(q) /\ z[i] = q[a] /\ z[i] \in Elems(q)
    <3>1. i \in 1 .. Len(p) \/ (a \in 1 .. Len(q) /\ i = Len(p) + a)
      BY <1>5
    <3> HIDE DEF a
    <3> QED BY <1>2, <1>3, <1>4, <3>1
  <2>2. \/ j \in 1 .. Len(p) /\ z[j] = p[j] /\ z[j] \in Elems(p)
        \/ b \in 1 .. Len(q) /\ z[j] = q[b] /\ z[j] \in Elems(q)
    <3>1. j \in 1 .. Len(p) \/ (b \in 1 .. Len(q) /\ j = Len(p) + b)
      BY <1>5
    <3> HIDE DEF b
    <3> QED BY <1>2, <1>3, <1>4, <3>1
  <2>3. a = b => i = j
    BY <1>2, <2>0
  <2> HIDE DEF a, b
  <2> QED BY <1>2, <2>1, <2>2, <2>3 DEF Distinct
<1> QED BY <1>1, <1>6, <1>7 DEF z

\* The i-th entry of a is entry f[i] of s.
Deals(s, a, f) == /\ \A i \in 1 .. Len(a) : f[i] \in 1 .. Len(s) /\ a[i] = s[f[i]]
                  /\ \A i, j \in 1 .. Len(a) : f[i] = f[j] => i = j

\* What is dealt out of a sequence without repetitions has none.
LEMMA DealtDistinct ==
  ASSUME NEW T, NEW s \in Seq(T), NEW a \in Seq(T), NEW f, Distinct(s), Deals(s, a, f)
  PROVE  Distinct(a) /\ Elems(a) \subseteq Elems(s)
<1>1. /\ DOMAIN s = 1 .. Len(s) /\ Elems(s) = {s[i] : i \in 1 .. Len(s)}
      /\ DOMAIN a = 1 .. Len(a) /\ Elems(a) = {a[i] : i \in 1 .. Len(a)}
  BY ElemsOfSeq
<1>2. \A i, j \in 1 .. Len(s) : s[i] = s[j] => i = j
  BY <1>1 DEF Distinct
<1>3. \A i \in 1 .. Len(a) : f[i] \in 1 .. Len(s) /\ a[i] = s[f[i]]
  BY DEF Deals
<1>4. \A i, j \in 1 .. Len(a) : a[i] = a[j] => i = j
  <2> SUFFICES ASSUME NEW i \in 1 .. Len(a), NEW j \in 1 .. Len(a), a[i] = a[j] PROVE i = j
    OBVIOUS
  <2>1. PICK x \in 1 .. Len(s) : x = f[i] /\ a[i] = s[x]
    BY <1>3
  <2>2. PICK y \in 1 .. Len(s) : y = f[j] /\ a[j] = s[y]
    BY <1>3
  <2>3. x = y
    BY <1>2, <2>1, <2>2
  <2> QED BY <2>1, <2>2, <2>3 DEF Deals
<1>5. \A i \in 1 .. Len(a) : a[i] \in Elems(s)
  BY <1>1, <1>3
<1> QED BY <1>1, <1>4, <1>5 DEF Distinct

\* Each entry of s is dealt to one of a and b.
Splits(s, a, f, b, g) ==
  /\ \A i \in 1 .. Len(a), j \in 1 .. Len(b) : f[i] # g[j]
  /\ \A l \in 1 .. Len(s) : \/ \E i \in 1 .. Len(a) : f[i] = l
                            \/ \E i \in 1 .. Len(b) : g[i] = l

\* A sequence that is dealt out to two others, all of it.
LEMMA Dealt ==
  ASSUME NEW T, NEW s \in Seq(T), NEW a \in Seq(T), NEW b \in Seq(T), Distinct(s),
         NEW f, NEW g, Deals(s, a, f), Deals(s, b, g), Splits(s, a, f, b, g)
  PROVE  /\ Distinct(a) /\ Distinct(b)
         /\ Elems(a) \intersect Elems(b) = {} /\ Elems(s) = Elems(a) \union Elems(b)
<1>1. /\ DOMAIN s = 1 .. Len(s) /\ Elems(s) = {s[i] : i \in 1 .. Len(s)}
      /\ Elems(a) = {a[i] : i \in 1 .. Len(a)} /\ Elems(b) = {b[i] : i \in 1 .. Len(b)}
  BY DEF Elems
<1>2. \A i, j \in 1 .. Len(s) : s[i] = s[j] => i = j
  BY <1>1 DEF Distinct
<1>3. /\ \A i \in 1 .. Len(a) : f[i] \in 1 .. Len(s) /\ a[i] = s[f[i]]
      /\ \A i \in 1 .. Len(b) : g[i] \in 1 .. Len(s) /\ b[i] = s[g[i]]
  BY DEF Deals
<1>4. /\ Distinct(a) /\ Elems(a) \subseteq Elems(s)
      /\ Distinct(b) /\ Elems(b) \subseteq Elems(s)
  BY DealtDistinct
<1>5. ASSUME NEW i \in 1 .. Len(a), NEW j \in 1 .. Len(b), a[i] = b[j] PROVE FALSE
  <2>1. PICK x \in 1 .. Len(s) : x = f[i] /\ a[i] = s[x]
    BY <1>3
  <2>2. PICK y \in 1 .. Len(s) : y = g[j] /\ b[j] = s[y]
    BY <1>3
  <2>3. x = y
    BY <1>2, <1>5, <2>1, <2>2
  <2>4. f[i] # g[j]
    BY DEF Splits
  <2> QED BY <2>1, <2>2, <2>3, <2>4
<1>6. Elems(a) \intersect Elems(b) = {}
  BY <1>1, <1>5
<1>8. ASSUME NEW l \in 1 .. Len(s) PROVE s[l] \in Elems(a) \union Elems(b)
  <2>1. CASE \E i \in 1 .. Len(a) : f[i] = l
    <3>1. PICK i \in 1 .. Len(a) : f[i] = l
      BY <2>1
    <3> QED BY <1>1, <1>3, <3>1
  <2>2. CASE \E i \in 1 .. Len(b) : g[i] = l
    <3>1. PICK i \in 1 .. Len(b) : g[i] = l
      BY <2>2
    <3> QED BY <1>1, <1>3, <3>1
  <2> QED BY <2>1, <2>2 DEF Splits
<1>9. Elems(s) \subseteq Elems(a) \union Elems(b)
  BY <1>1, <1>8
<1> QED BY <1>4, <1>6, <1>9

\* The k topmost entries of a stack and what is below them, the first k
\* entries of a queue and what comes after them.
Popped(s, k) == [i \in 1 .. k |-> s[Len(s) + 1 - i]]
Below(s, k) == SubSeq(s, 1, Len(s) - k)
Oldest(s, k) == [i \in 1 .. k |-> s[i]]
After(s, k) == SubSeq(s, k + 1, Len(s))

\* A sequence cut after its first k entries.
LEMMA CutFront ==
  ASSUME NEW T, NEW s \in Seq(T), Distinct(s), NEW k \in 0 .. Len(s)
  PROVE  /\ Oldest(s, k) \in Seq(T) /\ Len(Oldest(s, k)) = k
         /\ After(s, k) \in Seq(T) /\ Len(After(s, k)) = Len(s) - k
         /\ Distinct(Oldest(s, k)) /\ Distinct(After(s, k))
         /\ Elems(Oldest(s, k)) \intersect Elems(After(s, k)) = {}
         /\ Elems(s) = Elems(Oldest(s, k)) \union Elems(After(s, k))
<1> DEFINE a == Oldest(s, k)
           b == After(s, k)
           f == [i \in 1 .. k |-> i]
           g == [i \in 1 .. Len(s) - k |-> k + i]
<1>1. Len(s) \in Nat /\ k \in Nat /\ k <= Len(s)
  OBVIOUS
<1>2. /\ b \in Seq(T) /\ Len(b) = Len(s) - k
      /\ \A i \in 1 .. Len(s) - k : b[i] = s[k + i]
  BY <1>1 DEF After
<1>a. a \in Seq(T) /\ Len(a) = k /\ \A i \in 1 .. k : a[i] = s[i]
  <2>1. \A i \in 1 .. k : s[i] \in T
    BY <1>1
  <2>2. a \in [1 .. k -> T] /\ \A i \in 1 .. k : a[i] = s[i]
    BY <2>1 DEF Oldest
  <2> HIDE DEF a
  <2> QED BY <1>1, <2>2
<1> HIDE DEF a, b
<1>3. /\ \A i \in 1 .. k : f[i] \in 1 .. Len(s) /\ f[i] = i
      /\ \A i \in 1 .. Len(s) - k : g[i] \in 1 .. Len(s) /\ g[i] = k + i /\ i \in Int
      /\ \A i \in 1 .. k, j \in 1 .. Len(s) - k : f[i] # g[j]
      /\ \A i, j \in 1 .. Len(s) - k : g[i] = g[j] => i = j
  BY <1>1
<1>4. ASSUME NEW l \in 1 .. Len(s)
      PROVE  \/ \E i \in 1 .. k : f[i] = l
             \/ \E i \in 1 .. Len(s) - k : g[i] = l
  <2>1. l \in 1 .. k \/ (l - k \in 1 .. Len(s) - k /\ k + (l - k) = l)
    BY <1>1
  <2> QED BY <1>3, <2>1
<1> HIDE DEF f, g
<1>5. /\ Distinct(a) /\ Distinct(b)
      /\ Elems(a) \intersect Elems(b) = {} /\ Elems(s) = Elems(a) \union Elems(b)
  <2>1. Deals(s, a, f)
    BY <1>a, <1>3 DEF Deals
  <2>2. Deals(s, b, g)
    BY <1>2, <1>3 DEF Deals
  <2>3. \A i \in 1 .. Len(a), j \in 1 .. Len(b) : f[i] # g[j]
    BY <1>a, <1>2, <1>3
  <2>4. \A l \in 1 .. Len(s) : \/ \E i \in 1 .. Len(a) : f[i] = l
                               \/ \E i \in 1 .. Len(b) : g[i] = l
    BY <1>a, <1>2, <1>4
  <2>5. Splits(s, a, f, b, g)
    BY <2>3, <2>4 DEF Splits
  <2> QED BY <1>a, <1>2, <2>1, <2>2, <2>5, Dealt
<1> QED BY <1>a, <1>2, <1>5 DEF a, b

\* A stack whose k topmost entries have been popped.
LEMMA CutBack ==
  ASSUME NEW T, NEW s \in Seq(T), Distinct(s), NEW k \in 0 .. Len(s)
  PROVE  /\ Popped(s, k) \in Seq(T) /\ Len(Popped(s, k)) = k
         /\ Below(s, k) \in Seq(T) /\ Len(Below(s, k)) = Len(s) - k
         /\ Distinct(Popped(s, k)) /\ Distinct(Below(s, k))
         /\ Elems(Popped(s, k)) \intersect Elems(Below(s, k)) = {}
         /\ Elems(s) = Elems(Popped(s, k)) \union Elems(Below(s, k))
<1> DEFINE a == Popped(s, k)
           b == Below(s, k)
           f == [i \in 1 .. k |-> Len(s) + 1 - i]
           g == [i \in 1 .. Len(s) - k |-> i]
<1>1. Len(s) \in Nat /\ k \in Nat /\ k <= Len(s)
  OBVIOUS
<1>2. /\ b \in Seq(T) /\ Len(b) = Len(s) - k
      /\ \A i \in 1 .. Len(s) - k : b[i] = s[i]
  BY <1>1 DEF Below
<1> HIDE DEF b
<1>3. /\ \A i \in 1 .. k : f[i] \in 1 .. Len(s) /\ f[i] = Len(s) + 1 - i /\ i \in Int
      /\ \A i \in 1 .. Len(s) - k : g[i] \in 1 .. Len(s) /\ g[i] = i
      /\ \A i \in 1 .. k, j \in 1 .. Len(s) - k : f[i] # g[j]
      /\ \A i, j \in 1 .. k : f[i] = f[j] => i = j
  BY <1>1
<1>4. ASSUME NEW l \in 1 .. Len(s)
      PROVE  \/ \E i \in 1 .. k : f[i] = l
             \/ \E i \in 1 .. Len(s) - k : g[i] = l
  <2>1. \/ l \in 1 .. Len(s) - k
        \/ Len(s) + 1 - l \in 1 .. k /\ Len(s) + 1 - (Len(s) + 1 - l) = l
    BY <1>1
  <2> QED BY <1>3, <2>1
<1>5. a \in Seq(T) /\ Len(a) = k /\ \A i \in 1 .. k : a[i] = s[f[i]]
  <2>1. \A i \in 1 .. k : s[Len(s) + 1 - i] \in T /\ s[f[i]] = s[Len(s) + 1 - i]
    <3>1. \A i \in 1 .. Len(s) : s[i] \in T
      OBVIOUS
    <3> HIDE DEF f
    <3> QED BY <1>3, <3>1
  <2> HIDE DEF f
  <2>2. a \in [1 .. k -> T] /\ \A i \in 1 .. k : a[i] = s[Len(s) + 1 - i]
    BY <2>1 DEF Popped
  <2> HIDE DEF a
  <2> QED BY <1>1, <2>1, <2>2
<1> HIDE DEF a, f, g
<1>6. /\ Distinct(a) /\ Distinct(b)
      /\ Elems(a) \intersect Elems(b) = {} /\ Elems(s) = Elems(a) \union Elems(b)
  <2>1. Deals(s, a, f)
    BY <1>3, <1>5 DEF Deals
  <2>2. Deals(s, b, g)
    BY <1>2, <1>3 DEF Deals
  <2>3. \A i \in 1 .. Len(a), j \in 1 .. Len(b) : f[i] # g[j]
    BY <1>2, <1>3, <1>5
  <2>4. \A l \in 1 .. Len(s) : \/ \E i \in 1 .. Len(a) : f[i] = l
                               \/ \E i \in 1 .. Len(b) : g[i] = l
    BY <1>2, <1>4, <1>5
  <2>5. Splits(s, a, f, b, g)
    BY <2>3, <2>4 DEF Splits
  <2> QED BY <1>2, <1>5, <2>1, <2>2, <2>5, Dealt
<1> QED BY <1>2, <1>5, <1>6 DEF a, b

\* A sequence without repetitions that misses an element of a finite set is
\* shorter than the set is large; no sequence without repetitions is longer.
LEMMA DistinctLength ==
  ASSUME NEW T, IsFiniteSet(T), NEW s \in Seq(T), Distinct(s)
  PROVE  /\ Cardinality(T) \in Nat /\ Len(s) <= Cardinality(T)
         /\ \A x \in T : x \notin Elems(s) => Len(s) # Cardinality(T)
<1>1. /\ Len(s) \in Nat /\ DOMAIN s = 1 .. Len(s)
      /\ Elems(s) = {s[i] : i \in 1 .. Len(s)}
      /\ s \in [1 .. Len(s) -> T]
  BY ElemsOfSeq
<1>2. s \in Injection(1 .. Len(s), T)
  BY <1>1 DEF Injection, IsInjective, Distinct
<1>3. Cardinality(1 .. Len(s)) = Len(s)
  <2> DEFINE l == Len(s)
  <2>1. 1 \in Int /\ l \in Int /\ l \in Nat
    BY <1>1
  <2> HIDE DEF l
  <2>2. Cardinality(1 .. l) = IF 1 > l THEN 0 ELSE l - 1 + 1
    BY <2>1, FS_Interval
  <2>3. Cardinality(1 .. l) = l
    BY <2>1, <2>2
  <2> QED BY <2>3 DEF l
<1>4. /\ Cardinality(1 .. Len(s)) <= Cardinality(T)
      /\ Cardinality(1 .. Len(s)) = Cardinality(T) => s \in Surjection(1 .. Len(s), T)
  BY <1>2, FS_Injection
<1>5. s \in Surjection(1 .. Len(s), T) => T \subseteq Elems(s)
  BY <1>1 DEF Surjection
<1> QED BY <1>3, <1>4, <1>5, FS_CardinalityType

\* A chunk pushed on a stack that does not have it.
LEMMA AppendDistinct ==
  ASSUME NEW T, NEW s \in Seq(T), Distinct(s), NEW x \in T, x \notin Elems(s)
  PROVE  /\ Append(s, x) \in Seq(T) /\ Distinct(Append(s, x))
         /\ Elems(Append(s, x)) = Elems(s) \union {x}
<1> DEFINE z == Append(s, x)
<1>1. /\ z \in Seq(T) /\ Len(z) = Len(s) + 1
      /\ \A i \in 1 .. Len(s) : z[i] = s[i]
      /\ z[Len(s) + 1] = x
  BY AppendProperties
<1> HIDE DEF z
<1>2. /\ Len(s) \in Nat /\ DOMAIN s = 1 .. Len(s) /\ DOMAIN z = 1 .. Len(s) + 1
      /\ Elems(s) = {s[i] : i \in 1 .. Len(s)}
      /\ Elems(z) = {z[i] : i \in 1 .. Len(s) + 1}
  BY <1>1, ElemsOfSeq
<1>3. \A i : i \in 1 .. Len(s) + 1 <=> i \in 1 .. Len(s) \/ i = Len(s) + 1
  BY <1>2
<1>4. Distinct(z)
  BY <1>1, <1>2, <1>3 DEF Distinct
<1>5. Elems(z) = Elems(s) \union {x}
  BY <1>1, <1>2, <1>3
<1> QED BY <1>1, <1>4, <1>5 DEF z

\* A sequence of one entry.
LEMMA OneEntry ==
  ASSUME NEW T, NEW x \in T
  PROVE  <<x>> \in Seq(T) /\ Len(<<x>>) = 1 /\ Distinct(<<x>>) /\ Elems(<<x>>) = {x}
<1> DEFINE z == <<x>>
<1>1. z \in Seq(T) /\ Len(z) = 1 /\ z[1] = x
  OBVIOUS
<1> HIDE DEF z
<1>2. DOMAIN z = {1} /\ Elems(z) = {z[i] : i \in {1}}
  <2>1. DOMAIN z = 1 .. 1 /\ 1 .. 1 = {1}
    BY <1>1
  <2> QED BY <2>1 DEF Elems
<1>3. Distinct(z) /\ Elems(z) = {x}
  BY <1>1, <1>2 DEF Distinct
<1> QED BY <1>1, <1>3 DEF z

-----------------------------------------------------------------------------
(***************************************************************************)
(* What the parts of the invariant say                                     *)
(***************************************************************************)
\* The constants as numbers.
LEMMA UmemConstants == /\ Size \in Nat \ {0} /\ Lines \in Nat \ {0} /\ MaxN \in Nat
                       /\ IsFiniteSet(Chunks) /\ NULL \notin Chunks /\ NULL \notin Blocks
BY SizeAssumption, LinesAssumption, MaxNAssumption, ChunksAssumption, NullAssumption

\* The number of entries in a ring, as the code computes it.
LEMMA RingCounts ==
  ASSUME FillOK, RxOK
  PROVE  /\ Count(fill) = Len(Filled) /\ Len(Filled) \in Nat /\ Len(Filled) <= Size
         /\ Count(rx) = Len(Arrived) /\ Len(Arrived) \in Nat /\ Len(Arrived) <= Size
         /\ DOMAIN Filled = 1 .. Len(Filled) /\ DOMAIN Arrived = 1 .. Len(Arrived)
<1>1. /\ Filled \in Seq(Chunks) /\ Holds(fill, Filled)
      /\ Arrived \in Seq(Chunks) /\ Holds(rx, Arrived)
  BY DEF FillOK, RxOK
<1>2. /\ Len(Filled) \in Nat /\ DOMAIN Filled = 1 .. Len(Filled)
      /\ Len(Arrived) \in Nat /\ DOMAIN Arrived = 1 .. Len(Arrived)
  BY <1>1, ElemsOfSeq
<1> QED BY <1>1, <1>2 DEF Holds

\* The smaller of two numbers.
LEMMA SmallerOf ==
  ASSUME NEW a \in Nat, NEW b \in Nat
  PROVE  Smaller(a, b) \in Nat /\ Smaller(a, b) <= a /\ Smaller(a, b) <= b
BY DEF Smaller

\* The slab allocator does not see chunks move between the other places.
LEMMA SlabKept ==
  ASSUME NEW w, SlabOK(w), UNCHANGED slab, NEW v,
         \A c \in Chunks : (v[c] = "slab") <=> (w[c] = "slab")
  PROVE  SlabOK(v)'
<1>1. UNCHANGED <<freeList, link, cur, inUse>>
  BY DEF slab
<1>2. CurOK(v)'
  BY <1>1 DEF SlabOK, CurOK
<1>3. Carved(v)' = Carved(w)
  <2>1. \A b \in Blocks : b[1] \in Chunks
    BY DEF Blocks
  <2> QED BY <1>1, <2>1 DEF Carved
<1>4. PICK f : /\ Linked(f) /\ inUse \intersect Elems(f) = {}
               /\ inUse \union Elems(f) = Carved(w)
  BY DEF SlabOK
<1>5. Linked(f)'
  BY <1>1, <1>4 DEF Linked
<1> QED BY <1>1, <1>2, <1>3, <1>4, <1>5 DEF SlabOK

\* A ring nobody touches.
LEMMA FillKept ==
  ASSUME FillOK, fill' = fill, pc' \notin {"fill_store", "fill_publish"}
  PROVE  FillOK' /\ Filled' = Filled
BY DEF FillOK, Filled

\* The same for the rx ring.
LEMMA RxKept ==
  ASSUME RxOK, rx' = rx, pc' \notin {"rx_copy", "rx_publish"}
  PROVE  RxOK' /\ Arrived' = Arrived
BY DEF RxOK, Arrived

-----------------------------------------------------------------------------
(***************************************************************************)
(* Every step preserves the invariant                                      *)
(***************************************************************************)
\* create_umem_stack and xdp_open.
LEMMA InitInvariant == Init => UmemInvariant
<1> SUFFICES ASSUME Init PROVE UmemInvariant
  OBVIOUS
<1>0. /\ stack \in [1 .. Cardinality(Chunks) -> Chunks] /\ Elems(stack) = Chunks
      /\ fill = EmptyRing /\ rx = EmptyRing /\ kernel = {} /\ app = {}
      /\ pc = "idle" /\ n = 0 /\ freeList = NULL /\ cur = <<NULL, Lines>>
      /\ link = [b \in Blocks |-> NULL] /\ inUse = {}
  BY DEF Init
<1>1. stack \in Seq(Chunks) /\ Distinct(stack)
  <2> DEFINE k == Cardinality(Chunks)
  <2>1. k \in Nat
    BY UmemConstants, FS_CardinalityType
  <2>2. stack \in Seq(Chunks) /\ DOMAIN stack = 1 .. k
    BY <1>0, <2>1
  <2>3. \A c \in Chunks : \E i \in 1 .. k : stack[i] = c
    BY <1>0, <2>2 DEF Elems
  <2>4. stack \in Surjection(1 .. k, Chunks)
    BY <1>0, <2>3 DEF Surjection
  <2>5. IsFiniteSet(1 .. k) /\ Cardinality(1 .. k) = k
    <3>1. IsFiniteSet(1 .. k) /\ Cardinality(1 .. k) = IF 1 > k THEN 0 ELSE k - 1 + 1
      BY <2>1, FS_Interval
    <3> HIDE DEF k
    <3> QED BY <2>1, <3>1
  <2>6. stack \in Injection(1 .. k, Chunks)
    BY <2>4, <2>5, FS_Surjection
  <2> QED BY <2>2, <2>6 DEF Injection, IsInjective, Distinct
<1>2. TypeOK
  BY <1>0, <1>1 DEF TypeOK, Labels
<1>3. << >> \in Seq(Chunks) /\ << >> \in Seq(Blocks) /\ Elems(<< >>) = {} /\ Distinct(<< >>)
      /\ Len(<< >>) = 0
  BY DEF Elems, Distinct
<1>4. Filled = << >> /\ Arrived = << >> /\ Holds(fill, << >>) /\ Holds(rx, << >>)
  BY <1>0, <1>3, EmptyHolds, AllEntries DEF Filled, Arrived
<1>5. FillOK /\ RxOK
  BY <1>0, <1>3, <1>4 DEF FillOK, RxOK
<1> DEFINE w == [c \in Chunks |-> "stack"]
<1>6. Located(w)
  BY <1>0, <1>3, <1>4 DEF Located, Homes
<1>7. CurOK(w)
  BY <1>0, UmemConstants DEF CurOK
<1>8. Linked(<< >>)
  BY <1>0, <1>3 DEF Linked
<1>9. Carved(w) = {}
  BY DEF Carved, Blocks
<1>10. SlabOK(w)
  BY <1>0, <1>3, <1>7, <1>8, <1>9 DEF SlabOK
<1> QED BY <1>2, <1>5, <1>6, <1>10 DEF UmemInvariant

\* xdp_fill and xdp_rx read the counters.
LEMMA InvBegin ==
  ASSUME UmemInvariant, NEW m \in 0 .. MaxN, FillBegin(m) \/ RxBegin(m)
  PROVE  UmemInvariant'
<1>1. /\ UNCHANGED <<stack, fill, rx, kernel, app, out>> /\ UNCHANGED slab /\ pc = "idle"
  BY DEF FillBegin, RxBegin, rings
<1>2. TypeOK /\ FillOK /\ RxOK
  BY DEF UmemInvariant
<1>3. PICK w : Located(w) /\ SlabOK(w)
  BY DEF UmemInvariant
<1>4. Filled' = Filled /\ Arrived' = Arrived
  BY <1>1 DEF Filled, Arrived
<1>c. /\ Count(fill) = Len(Filled) /\ Len(Filled) \in Nat /\ Len(Filled) <= Size
      /\ Count(rx) = Len(Arrived) /\ Len(Arrived) \in Nat /\ Size \in Nat
  BY <1>2, RingCounts, UmemConstants
<1>5. /\ pc' \in {"idle", "fill_store", "rx_copy"} /\ n' \in Nat
      /\ pc' = "fill_store" => Len(Filled) + n' <= Size
      /\ pc' = "rx_copy" => n' <= Len(Arrived)
  <2>m. m \in Nat
    BY UmemConstants
  <2>1. CASE FillBegin(m)
    <3>1. FreeEntries(fill) = Size - Len(Filled) /\ FreeEntries(fill) \in Nat
      BY <1>c DEF FreeEntries
    <3>2. n' \in Nat /\ n' <= FreeEntries(fill)
      BY <2>m, <2>1, <3>1, SmallerOf DEF FillBegin
    <3> QED BY <1>c, <2>1, <3>1, <3>2 DEF FillBegin
  <2>2. CASE RxBegin(m)
    <3>1. n' \in Nat /\ n' <= Len(Arrived)
      BY <1>c, <2>m, <2>2, SmallerOf DEF RxBegin
    <3> QED BY <2>2, <3>1 DEF RxBegin
  <2> QED BY <2>1, <2>2
<1>6. TypeOK'
  BY <1>1, <1>2, <1>5 DEF TypeOK, Labels
<1>7. FillOK' /\ RxOK'
  BY <1>1, <1>2, <1>4, <1>5 DEF FillOK, RxOK
<1>8. Located(w)'
  BY <1>1, <1>3, <1>4, <1>5 DEF Located
<1>9. SlabOK(w)'
  BY <1>1, <1>3, SlabKept
<1> QED BY <1>6, <1>7, <1>8, <1>9 DEF UmemInvariant

\* The store loop of xdp_fill.
LEMMA InvFillStore ==
  ASSUME UmemInvariant, FillStore
  PROVE  UmemInvariant'
<1> DEFINE k == Smaller(n, Len(stack))
           a == Popped(stack, k)
           b == Below(stack, k)
<1>1. /\ pc = "fill_store" /\ fill' = Store(fill, a) /\ out' = a /\ stack' = b /\ n' = k
      /\ pc' = "fill_publish" /\ UNCHANGED <<rx, kernel, app>> /\ UNCHANGED slab
  BY DEF FillStore, Popped, Below
<1>2. TypeOK /\ FillOK /\ RxOK
  BY DEF UmemInvariant
<1>3. PICK w : Located(w) /\ SlabOK(w)
  BY DEF UmemInvariant
<1>4. /\ n \in Nat /\ stack \in Seq(Chunks) /\ Distinct(stack) /\ Len(stack) \in Nat
      /\ Len(Filled) + n <= Size /\ Filled \in Seq(Chunks) /\ Holds(fill, Filled)
      /\ Len(Filled) \in Nat /\ Size \in Nat
  BY <1>1, <1>2, RingCounts, UmemConstants DEF TypeOK, FillOK
<1>5. k \in Nat /\ k <= n /\ k \in 0 .. Len(stack)
  <2>1. k \in Nat /\ k <= n /\ k <= Len(stack)
    BY <1>4, SmallerOf
  <2> HIDE DEF k
  <2> QED BY <1>4, <2>1
<1> HIDE DEF k
<1>6. /\ a \in Seq(Chunks) /\ Len(a) = k /\ b \in Seq(Chunks)
      /\ Distinct(a) /\ Distinct(b)
      /\ Elems(a) \intersect Elems(b) = {} /\ Elems(stack) = Elems(a) \union Elems(b)
  BY <1>4, <1>5, CutBack
<1> HIDE DEF a, b
<1>7. Len(Filled) + Len(a) <= Size
  BY <1>4, <1>5, <1>6
<1>8. Holds(fill', Filled) /\ Stored(fill', a)
  BY <1>1, <1>4, <1>6, <1>7, StoreHolds
<1>9. Filled' = Filled
  BY <1>4, <1>8, AllEntries DEF Filled
<1>10. TypeOK'
  BY <1>1, <1>2, <1>5, <1>6 DEF TypeOK, Labels
<1>11. FillOK'
  BY <1>1, <1>2, <1>6, <1>7, <1>8, <1>9 DEF FillOK
<1>12. RxOK' /\ Arrived' = Arrived
  BY <1>1, <1>2, RxKept
<1>v. PICK v : v = [c \in Chunks |-> IF c \in Elems(a) THEN "filling" ELSE w[c]]
  OBVIOUS
<1>13. v \in [Chunks -> Homes]
  BY <1>3, <1>v DEF Located, Homes
<1>14. \A c \in Chunks : v[c] = IF c \in Elems(a) THEN "filling" ELSE w[c]
  BY <1>v
<1>15. \A c \in Chunks : c \in Elems(a) => w[c] = "stack"
  BY <1>3, <1>6 DEF Located
<1>16. Located(v)'
  BY <1>1, <1>3, <1>6, <1>9, <1>12, <1>13, <1>14, <1>15 DEF Located
<1>17. SlabOK(v)'
  <2>1. \A c \in Chunks : (v[c] = "slab") <=> (w[c] = "slab")
    BY <1>14, <1>15
  <2> QED BY <1>1, <1>3, <2>1, SlabKept
<1> QED BY <1>10, <1>11, <1>12, <1>16, <1>17 DEF UmemInvariant

\* xdp_fill publishes what it stored.
LEMMA InvFillPublish ==
  ASSUME UmemInvariant, FillPublish
  PROVE  UmemInvariant'
<1>1. /\ pc = "fill_publish" /\ fill' = Produce(fill, n) /\ n' = 0 /\ pc' = "idle"
      /\ UNCHANGED <<stack, rx, kernel, app>> /\ UNCHANGED slab
  BY DEF FillPublish
<1>2. TypeOK /\ FillOK /\ RxOK
  BY DEF UmemInvariant
<1>3. PICK w : Located(w) /\ SlabOK(w)
  BY DEF UmemInvariant
<1>4. /\ Filled \in Seq(Chunks) /\ Distinct(Filled) /\ Holds(fill, Filled)
      /\ out \in Seq(Chunks) /\ Distinct(out) /\ Stored(fill, out)
      /\ n = Len(out) /\ Len(Filled) + Len(out) <= Size
  BY <1>1, <1>2 DEF FillOK
<1> DEFINE q == Filled
<1>q. q \in Seq(Chunks) /\ Distinct(q) /\ Holds(fill, q) /\ Len(q) + Len(out) <= Size
  BY <1>4
<1>5. Elems(q) \intersect Elems(out) = {}
  <2>1. \A c \in Elems(out) : c \in Chunks
    BY <1>4, ElemsOfSeq
  <2> QED BY <1>1, <1>3, <2>1 DEF Located
<1> HIDE DEF q
<1>6. /\ q \o out \in Seq(Chunks) /\ Distinct(q \o out)
      /\ Elems(q \o out) = Elems(q) \union Elems(out)
  BY <1>4, <1>q, <1>5, JoinDistinct
<1>7. Holds(fill', q \o out)
  BY <1>1, <1>4, <1>q, ProduceHolds
<1>8. Filled' = q \o out
  <2> DEFINE z == q \o out
  <2>1. z \in Seq(Chunks) /\ Holds(fill', z)
    BY <1>6, <1>7
  <2> HIDE DEF z
  <2>2. Entries(fill', fill'.cons, Count(fill')) = z
    BY <2>1, AllEntries
  <2> QED BY <2>2 DEF Filled, z
<1>9. FillOK'
  BY <1>1, <1>6, <1>7, <1>8 DEF FillOK
<1>10. TypeOK'
  BY <1>1, <1>2 DEF TypeOK, Labels
<1>11. RxOK' /\ Arrived' = Arrived
  BY <1>1, <1>2, RxKept
<1>v. PICK v : v = [c \in Chunks |-> IF c \in Elems(out) THEN "fill" ELSE w[c]]
  OBVIOUS
<1>12. v \in [Chunks -> Homes]
  BY <1>3, <1>v DEF Located, Homes
<1>13. \A c \in Chunks : v[c] = IF c \in Elems(out) THEN "fill" ELSE w[c]
  BY <1>v
<1>14. \A c \in Chunks : (c \in Elems(out)) <=> (w[c] = "filling")
  BY <1>1, <1>3 DEF Located
<1>15. Elems(Filled') = Elems(Filled) \union Elems(out)
  BY <1>6, <1>8 DEF q
<1>16. Located(v)'
  BY <1>1, <1>3, <1>11, <1>12, <1>13, <1>14, <1>15 DEF Located
<1>17. SlabOK(v)'
  <2>1. \A c \in Chunks : (v[c] = "slab") <=> (w[c] = "slab")
    BY <1>13, <1>14
  <2> QED BY <1>1, <1>3, <2>1, SlabKept
<1> QED BY <1>9, <1>10, <1>11, <1>16, <1>17 DEF UmemInvariant

\* xdp_rx copies the oldest descriptors.
LEMMA InvRxCopy ==
  ASSUME UmemInvariant, RxCopy
  PROVE  UmemInvariant'
<1>1. /\ pc = "rx_copy" /\ out' = Entries(rx, rx.cons, n) /\ pc' = "rx_publish"
      /\ UNCHANGED <<stack, fill, rx, kernel, app, n>> /\ UNCHANGED slab
  BY DEF RxCopy, rings
<1>2. TypeOK /\ FillOK /\ RxOK
  BY DEF UmemInvariant
<1>3. PICK w : Located(w) /\ SlabOK(w)
  BY DEF UmemInvariant
<1>4. /\ Arrived \in Seq(Chunks) /\ Holds(rx, Arrived) /\ n \in 0 .. Len(Arrived)
  <2>1. n \in Nat /\ n <= Len(Arrived) /\ Len(Arrived) \in Nat
    BY <1>1, <1>2, RingCounts DEF TypeOK, RxOK
  <2>2. n \in 0 .. Len(Arrived)
    BY <2>1
  <2> QED BY <1>2, <2>2 DEF RxOK
<1>5. out' = [i \in 1 .. n |-> Arrived[i]]
  BY <1>1, <1>4, EntriesHeld
<1>6. Arrived' = Arrived
  BY <1>1 DEF Arrived
<1>7. TypeOK'
  BY <1>1, <1>2 DEF TypeOK, Labels
<1>8. FillOK' /\ Filled' = Filled
  BY <1>1, <1>2, FillKept
<1>9. RxOK'
  BY <1>1, <1>2, <1>5, <1>6 DEF RxOK
<1>10. Located(w)'
  BY <1>1, <1>3, <1>6, <1>8 DEF Located
<1>11. SlabOK(w)'
  BY <1>1, <1>3, SlabKept
<1> QED BY <1>7, <1>8, <1>9, <1>10, <1>11 DEF UmemInvariant

\* xdp_rx gives the slots back; the caller has the chunks.
LEMMA InvRxPublish ==
  ASSUME UmemInvariant, RxPublish
  PROVE  UmemInvariant'
<1>1. /\ pc = "rx_publish" /\ rx' = Consume(rx, n) /\ app' = app \union Elems(out)
      /\ n' = 0 /\ pc' = "idle"
      /\ UNCHANGED <<stack, fill, kernel>> /\ UNCHANGED slab
  BY DEF RxPublish
<1>2. TypeOK /\ FillOK /\ RxOK
  BY DEF UmemInvariant
<1>3. PICK w : Located(w) /\ SlabOK(w)
  BY DEF UmemInvariant
<1> DEFINE q == Arrived
           b == After(q, n)
<1>4. /\ q \in Seq(Chunks) /\ Distinct(q) /\ Holds(rx, q) /\ n \in 0 .. Len(q)
      /\ n \in Nat /\ out = [i \in 1 .. n |-> q[i]] /\ \A i \in 1 .. Len(q) : q[i] \in Chunks
  <2>1. n \in Nat /\ n <= Len(Arrived) /\ Len(Arrived) \in Nat
    BY <1>1, <1>2, RingCounts DEF TypeOK, RxOK
  <2>2. n \in 0 .. Len(Arrived)
    BY <2>1
  <2>3. Arrived \in Seq(Chunks)
    BY <1>2 DEF RxOK
  <2>4. \A i \in 1 .. Len(Arrived) : Arrived[i] \in Chunks
    BY <2>3, ElemsOfSeq
  <2> QED BY <1>1, <1>2, <2>1, <2>2, <2>4 DEF RxOK
<1> HIDE DEF q
<1>5. out = Oldest(q, n)
  BY <1>4 DEF Oldest
<1>6. /\ out \in Seq(Chunks) /\ b \in Seq(Chunks) /\ Distinct(b)
      /\ Elems(out) \intersect Elems(b) = {} /\ Elems(q) = Elems(out) \union Elems(b)
  <2>1. /\ Oldest(q, n) \in Seq(Chunks) /\ After(q, n) \in Seq(Chunks)
        /\ Distinct(After(q, n)) /\ Elems(Oldest(q, n)) \intersect Elems(After(q, n)) = {}
        /\ Elems(q) = Elems(Oldest(q, n)) \union Elems(After(q, n))
    <3>1. q \in Seq(Chunks) /\ Distinct(q) /\ n \in 0 .. Len(q)
      BY <1>4
    <3> QED BY <3>1, CutFront
  <2> QED BY <1>5, <2>1
<1>7. Holds(rx', b)
  BY <1>1, <1>4, ConsumeHolds DEF After
<1> HIDE DEF b
<1>8. Arrived' = b
  BY <1>6, <1>7, AllEntries DEF Arrived
<1>9. RxOK'
  BY <1>1, <1>6, <1>7, <1>8 DEF RxOK
<1>10. FillOK' /\ Filled' = Filled
  BY <1>1, <1>2, FillKept
<1>11. TypeOK'
  <2>1. Elems(out) \subseteq Chunks
    BY <1>6, ElemsOfSeq
  <2> QED BY <1>1, <1>2, <2>1 DEF TypeOK, Labels
<1>v. PICK v : v = [c \in Chunks |-> IF c \in Elems(out) THEN "app" ELSE w[c]]
  OBVIOUS
<1>12. v \in [Chunks -> Homes]
  BY <1>3, <1>v DEF Located, Homes
<1>13. \A c \in Chunks : v[c] = IF c \in Elems(out) THEN "app" ELSE w[c]
  BY <1>v
<1>14. Elems(Arrived) = Elems(out) \union Elems(Arrived')
       /\ Elems(out) \intersect Elems(Arrived') = {}
  BY <1>6, <1>8 DEF q
<1>15. \A c \in Chunks : c \in Elems(out) => w[c] = "rx"
  BY <1>3, <1>14 DEF Located
<1>16. Located(v)'
  BY <1>1, <1>3, <1>10, <1>12, <1>13, <1>14, <1>15 DEF Located
<1>17. SlabOK(v)'
  <2>1. \A c \in Chunks : (v[c] = "slab") <=> (w[c] = "slab")
    BY <1>13, <1>15
  <2> QED BY <1>1, <1>3, <2>1, SlabKept
<1> QED BY <1>9, <1>10, <1>11, <1>16, <1>17 DEF UmemInvariant

\* umem_stack_push: the stack has room for every chunk that is not on it.
LEMMA InvRecycle ==
  ASSUME UmemInvariant, NEW d \in Chunks, Recycle(d)
  PROVE  UmemInvariant'
<1>1. /\ pc = "idle" /\ d \in app /\ app' = app \ {d}
      /\ stack' = IF Len(stack) = Cardinality(Chunks) THEN stack ELSE Append(stack, d)
      /\ UNCHANGED <<fill, rx, kernel, pc, n, out>> /\ UNCHANGED slab
  BY DEF Recycle, rings
<1>2. TypeOK /\ FillOK /\ RxOK
  BY DEF UmemInvariant
<1>3. PICK w : Located(w) /\ SlabOK(w)
  BY DEF UmemInvariant
<1>4. stack \in Seq(Chunks) /\ Distinct(stack) /\ d \notin Elems(stack) /\ w[d] = "app"
  <2>1. w[d] = "app"
    BY <1>1, <1>3 DEF Located
  <2> QED BY <1>2, <1>3, <2>1 DEF TypeOK, Located
<1>5. stack' = Append(stack, d)
  BY <1>1, <1>4, DistinctLength, UmemConstants
<1>6. /\ stack' \in Seq(Chunks) /\ Distinct(stack') /\ Elems(stack') = Elems(stack) \union {d}
  BY <1>4, <1>5, AppendDistinct
<1>7. TypeOK'
  BY <1>1, <1>2, <1>6 DEF TypeOK
<1>8. FillOK' /\ Filled' = Filled /\ RxOK' /\ Arrived' = Arrived
  BY <1>1, <1>2, FillKept, RxKept
<1>v. PICK v : v = [c \in Chunks |-> IF c = d THEN "stack" ELSE w[c]]
  OBVIOUS
<1>9. v \in [Chunks -> Homes]
  BY <1>3, <1>v DEF Located, Homes
<1>10. \A c \in Chunks : v[c] = IF c = d THEN "stack" ELSE w[c]
  BY <1>v
<1>11. Located(v)'
  BY <1>1, <1>3, <1>4, <1>6, <1>8, <1>9, <1>10 DEF Located
<1>12. SlabOK(v)'
  <2>1. \A c \in Chunks : (v[c] = "slab") <=> (w[c] = "slab")
    BY <1>4, <1>10
  <2> QED BY <1>1, <1>3, <2>1, SlabKept
<1> QED BY <1>7, <1>8, <1>11, <1>12 DEF UmemInvariant

\* The kernel takes the oldest chunk off the fill ring, also in the middle of
\* a call of xdp_fill.
LEMMA InvKernelTake ==
  ASSUME UmemInvariant, KernelTake
  PROVE  UmemInvariant'
<1> DEFINE q == Filled
           b == After(q, 1)
           d == fill.slot[Slot(fill.cons)]
<1>1. /\ Count(fill) > 0 /\ kernel' = kernel \union {d} /\ fill' = Consume(fill, 1)
      /\ UNCHANGED <<stack, rx, app, pc, n, out>> /\ UNCHANGED slab
  BY DEF KernelTake
<1>2. TypeOK /\ FillOK /\ RxOK
  BY DEF UmemInvariant
<1>3. PICK w : Located(w) /\ SlabOK(w)
  BY DEF UmemInvariant
<1>4. /\ q \in Seq(Chunks) /\ Distinct(q) /\ Holds(fill, q) /\ Len(q) \in Nat
      /\ 1 \in 0 .. Len(q) /\ 1 \in 1 .. Len(q) /\ Size \in Nat
  <2>1. Count(fill) = Len(Filled) /\ Len(Filled) \in Nat
    BY <1>2, RingCounts
  <2>2. Len(Filled) > 0
    BY <1>1, <2>1
  <2> QED BY <1>2, <2>1, <2>2, UmemConstants DEF FillOK
<1> HIDE DEF q
<1>5. d = q[1]
  <2>1. fill.slot[Slot(fill.cons + 1 - 1)] = q[1]
    BY <1>4 DEF Holds
  <2>2. fill.cons \in Int
    BY <1>4, RingConstants DEF Holds, IsRing, Counters
  <2>3. fill.cons + 1 - 1 = fill.cons
    BY <2>2
  <2> QED BY <2>1, <2>3
<1> HIDE DEF d
<1>6. /\ b \in Seq(Chunks) /\ Len(b) = Len(q) - 1 /\ Distinct(b)
      /\ Elems(Oldest(q, 1)) \intersect Elems(b) = {}
      /\ Elems(q) = Elems(Oldest(q, 1)) \union Elems(b)
  <2> HIDE DEF b
  <2>1. /\ After(q, 1) \in Seq(Chunks) /\ Len(After(q, 1)) = Len(q) - 1 /\ Distinct(After(q, 1))
        /\ Elems(Oldest(q, 1)) \intersect Elems(After(q, 1)) = {}
        /\ Elems(q) = Elems(Oldest(q, 1)) \union Elems(After(q, 1))
    BY <1>4, CutFront, ZenonT(40)
  <2> QED BY <2>1 DEF b
<1>7. /\ Holds(fill', b) /\ fill'.prod = fill.prod /\ fill'.slot = fill.slot
  BY <1>1, <1>4, ConsumeHolds DEF After
<1> HIDE DEF b
<1>8. Elems(Oldest(q, 1)) = {d} /\ d \in Chunks
  <2>1. q[1] \in Chunks
    BY <1>4, ElemsOfSeq
  <2>2. Oldest(q, 1) = [i \in {1} |-> q[i]]
    <3>1. 1 .. 1 = {1}
      OBVIOUS
    <3> QED BY <3>1 DEF Oldest
  <2>3. Elems(Oldest(q, 1)) = {q[1]}
    BY <2>2 DEF Elems
  <2> QED BY <1>5, <2>1, <2>3
<1>9. Filled' = b
  BY <1>6, <1>7, AllEntries DEF Filled
<1>10. /\ Elems(Filled) = Elems(Filled') \union {d} /\ d \notin Elems(Filled')
       /\ Len(Filled') <= Len(Filled) /\ Len(Filled') \in Nat /\ Len(Filled) \in Nat
  <2>1. Len(b) <= Len(q) /\ Len(b) \in Nat
    BY <1>4, <1>6
  <2> QED BY <1>4, <1>6, <1>8, <1>9, <2>1 DEF q
<1>11. TypeOK'
  BY <1>1, <1>2, <1>8 DEF TypeOK
<1>12. FillOK'
  <2>1. pc' \in {"fill_store", "fill_publish"} => Len(Filled') + n' <= Size
    <3> SUFFICES ASSUME pc' \in {"fill_store", "fill_publish"}
                 PROVE  Len(Filled') + n' <= Size
      OBVIOUS
    <3>1. Len(Filled) + n <= Size /\ n \in Nat /\ n' = n
      BY <1>1, <1>2 DEF FillOK, TypeOK
    <3> QED BY <1>4, <1>10, <3>1
  <2>2. pc' = "fill_publish" => Stored(fill', out')
    BY <1>1, <1>2, <1>7 DEF FillOK, Stored
  <2> QED BY <1>1, <1>2, <1>6, <1>7, <1>9, <2>1, <2>2 DEF FillOK
<1>13. RxOK' /\ Arrived' = Arrived
  BY <1>1, <1>2 DEF RxOK, Arrived
<1>14. w[d] = "fill"
  BY <1>3, <1>8, <1>10 DEF Located
<1>v. PICK v : v = [c \in Chunks |-> IF c = d THEN "kernel" ELSE w[c]]
  OBVIOUS
<1>15. v \in [Chunks -> Homes]
  BY <1>3, <1>v DEF Located, Homes
<1>16. \A c \in Chunks : v[c] = IF c = d THEN "kernel" ELSE w[c]
  BY <1>v
<1>17. Located(v)'
  BY <1>1, <1>3, <1>8, <1>10, <1>13, <1>14, <1>15, <1>16 DEF Located
<1>18. SlabOK(v)'
  <2>1. \A c \in Chunks : (v[c] = "slab") <=> (w[c] = "slab")
    BY <1>14, <1>16
  <2> QED BY <1>1, <1>3, <2>1, SlabKept
<1> QED BY <1>11, <1>12, <1>13, <1>17, <1>18 DEF UmemInvariant

\* The kernel hands a chunk over on the rx ring, also in the middle of a call
\* of xdp_rx.
LEMMA InvKernelReceive ==
  ASSUME UmemInvariant, NEW d \in Chunks, KernelReceive(d)
  PROVE  UmemInvariant'
<1> DEFINE q == Arrived
           s == Store(rx, <<d>>)
           z == q \o <<d>>
<1>1. /\ d \in kernel /\ Count(rx) < Size /\ kernel' = kernel \ {d} /\ rx' = Produce(s, 1)
      /\ UNCHANGED <<stack, fill, app, pc, n, out>> /\ UNCHANGED slab
  BY DEF KernelReceive
<1>2. TypeOK /\ FillOK /\ RxOK
  BY DEF UmemInvariant
<1>3. PICK w : Located(w) /\ SlabOK(w)
  BY DEF UmemInvariant
<1>4. /\ q \in Seq(Chunks) /\ Distinct(q) /\ Holds(rx, q) /\ Len(q) \in Nat /\ Size \in Nat
      /\ Len(q) < Size
  <2>1. Count(rx) = Len(Arrived) /\ Len(Arrived) \in Nat
    BY <1>2, RingCounts
  <2> QED BY <1>1, <1>2, <2>1, UmemConstants DEF RxOK
<1>5. w[d] = "kernel" /\ d \notin Elems(q)
  BY <1>1, <1>3 DEF Located
<1> HIDE DEF q
<1>6. <<d>> \in Seq(Chunks) /\ Len(<<d>>) = 1 /\ Distinct(<<d>>) /\ Elems(<<d>>) = {d}
  BY OneEntry
<1>7. Len(q) + Len(<<d>>) <= Size
  BY <1>4, <1>6
<1>8. Holds(s, q) /\ Stored(s, <<d>>)
  BY <1>4, <1>6, <1>7, StoreHolds
<1> HIDE DEF s
<1>9. Holds(rx', z)
  <2>1. Holds(Produce(s, Len(<<d>>)), q \o <<d>>)
    BY <1>4, <1>6, <1>7, <1>8, ProduceHolds
  <2> QED BY <1>1, <1>6, <2>1
<1>10. /\ z \in Seq(Chunks) /\ Len(z) = Len(q) + 1 /\ Distinct(z)
       /\ Elems(z) = Elems(q) \union {d}
  <2> DEFINE e == <<d>>
  <2>1. e \in Seq(Chunks) /\ Len(e) = 1 /\ Distinct(e) /\ Elems(e) = {d}
    BY <1>6
  <2>z. z = q \o e
    OBVIOUS
  <2> HIDE DEF e, z
  <2>2. Elems(q) \intersect Elems(e) = {}
    BY <1>5, <2>1
  <2>3. /\ q \o e \in Seq(Chunks) /\ Len(q \o e) = Len(q) + Len(e)
        /\ Distinct(q \o e) /\ Elems(q \o e) = Elems(q) \union Elems(e)
    <3>1. q \in Seq(Chunks) /\ e \in Seq(Chunks) /\ Distinct(q) /\ Distinct(e)
      BY <1>4, <2>1
    <3> QED BY <2>2, <3>1, JoinDistinct
  <2> QED BY <2>1, <2>z, <2>3
<1>11. \A i \in 1 .. Len(q) : z[i] = q[i]
  BY <1>4
<1> HIDE DEF z
<1>12. Arrived' = z
  BY <1>9, <1>10, AllEntries DEF Arrived
<1>13. RxOK'
  <2>1. pc' \in {"rx_copy", "rx_publish"} => n' <= Len(z)
    <3> SUFFICES ASSUME pc' \in {"rx_copy", "rx_publish"} PROVE n' <= Len(z)
      OBVIOUS
    <3>1. n \in Nat /\ n <= Len(q) /\ n' = n
      BY <1>1, <1>2 DEF RxOK, TypeOK, q
    <3> QED BY <1>4, <1>10, <3>1
  <2>2. pc' = "rx_publish" => out' = [i \in 1 .. n' |-> z[i]]
    <3> SUFFICES ASSUME pc' = "rx_publish" PROVE out' = [i \in 1 .. n' |-> z[i]]
      OBVIOUS
    <3>1. /\ n \in Nat /\ n <= Len(q) /\ n' = n /\ out' = out
          /\ out = [i \in 1 .. n |-> q[i]]
      BY <1>1, <1>2 DEF RxOK, TypeOK, q
    <3>2. \A i \in 1 .. n : z[i] = q[i]
      BY <1>4, <1>11, <3>1
    <3> QED BY <3>1, <3>2
  <2> QED BY <1>9, <1>10, <1>12, <2>1, <2>2 DEF RxOK
<1>14. TypeOK'
  BY <1>1, <1>2 DEF TypeOK
<1>15. FillOK' /\ Filled' = Filled
  BY <1>1, <1>2 DEF FillOK, Filled
<1>16. Elems(Arrived') = Elems(Arrived) \union {d}
  BY <1>10, <1>12 DEF q
<1>v. PICK v : v = [c \in Chunks |-> IF c = d THEN "rx" ELSE w[c]]
  OBVIOUS
<1>17. v \in [Chunks -> Homes]
  BY <1>3, <1>v DEF Located, Homes
<1>18. \A c \in Chunks : v[c] = IF c = d THEN "rx" ELSE w[c]
  BY <1>v
<1>19. Located(v)'
  BY <1>1, <1>3, <1>5, <1>15, <1>16, <1>17, <1>18 DEF Located
<1>20. SlabOK(v)'
  <2>1. \A c \in Chunks : (v[c] = "slab") <=> (w[c] = "slab")
    BY <1>5, <1>18
  <2> QED BY <1>1, <1>3, <2>1, SlabKept
<1> QED BY <1>13, <1>14, <1>15, <1>19, <1>20 DEF UmemInvariant

\* The rings do not see the slab allocator work on blocks it has.
LEMMA RestKept ==
  ASSUME TypeOK, FillOK, RxOK, NEW w, Located(w),
         UNCHANGED <<stack, fill, rx, kernel, app, pc, n, out>>
  PROVE  TypeOK' /\ FillOK' /\ RxOK' /\ Located(w)'
<1>1. Filled' = Filled /\ Arrived' = Arrived
  BY DEF Filled, Arrived
<1>2. TypeOK'
  BY DEF TypeOK
<1>3. FillOK' /\ RxOK'
  BY <1>1 DEF FillOK, RxOK
<1>4. Located(w)'
  BY <1>1 DEF Located
<1> QED BY <1>2, <1>3, <1>4

\* slab_alloc_64b takes the head of the free list.
LEMMA InvSlabReuse ==
  ASSUME UmemInvariant, SlabReuse
  PROVE  UmemInvariant'
<1>1. /\ freeList # NULL /\ freeList' = link[freeList] /\ inUse' = inUse \union {freeList}
      /\ link' = [link EXCEPT ![freeList] = NULL] /\ cur' = cur
      /\ UNCHANGED <<stack, fill, rx, kernel, app, pc, n, out>>
  BY DEF SlabReuse, rings
<1>2. TypeOK /\ FillOK /\ RxOK
  BY DEF UmemInvariant
<1>3. PICK w : Located(w) /\ SlabOK(w)
  BY DEF UmemInvariant
<1>4. PICK f : /\ Linked(f) /\ inUse \intersect Elems(f) = {}
               /\ inUse \union Elems(f) = Carved(w)
  BY <1>3 DEF SlabOK
<1>5. /\ f \in Seq(Blocks) /\ Distinct(f) /\ Len(f) \in Nat /\ f # << >> /\ freeList = f[1]
      /\ DOMAIN link = Blocks
      /\ \A i \in 1 .. Len(f) : link[f[i]] = IF i = Len(f) THEN NULL ELSE f[i + 1]
  BY <1>1, <1>4, ElemsOfSeq DEF Linked
<1>6. Len(f) >= 1 /\ 1 \in 0 .. Len(f) /\ 1 \in 1 .. Len(f)
  BY <1>5
<1> DEFINE b == f[1]
<1>p. PICK g : g = After(f, 1)
  OBVIOUS
<1>7. /\ g \in Seq(Blocks) /\ Len(g) = Len(f) - 1 /\ Distinct(g)
      /\ \A i \in 1 .. Len(f) - 1 : g[i] = f[1 + i]
  <2>1. /\ After(f, 1) \in Seq(Blocks) /\ Len(After(f, 1)) = Len(f) - 1
        /\ Distinct(After(f, 1))
    BY <1>5, <1>6, CutFront
  <2>2. \A i \in 1 .. Len(f) - 1 : After(f, 1)[i] = f[1 + i]
    BY <1>5, <1>6 DEF After
  <2> QED BY <1>p, <2>1, <2>2
<1>8. /\ DOMAIN f = 1 .. Len(f) /\ Elems(f) = {f[i] : i \in 1 .. Len(f)}
      /\ DOMAIN g = 1 .. Len(g) /\ Elems(g) = {g[i] : i \in 1 .. Len(g)}
      /\ b \in Blocks
  BY <1>5, <1>6, <1>7, ElemsOfSeq
<1>9. \A i \in 1 .. Len(f) - 1 : 1 + i \in 1 .. Len(f) /\ f[1 + i] # b
  <2> SUFFICES ASSUME NEW i \in 1 .. Len(f) - 1 PROVE 1 + i \in 1 .. Len(f) /\ f[1 + i] # b
    OBVIOUS
  <2>1. 1 + i \in 1 .. Len(f) /\ 1 + i # 1
    BY <1>5
  <2> QED BY <1>5, <1>6, <1>8, <2>1 DEF Distinct
<1>10. Elems(f) = Elems(g) \union {b} /\ b \notin Elems(g)
  <2>1. \A i \in 1 .. Len(f) : i = 1 \/ (i - 1 \in 1 .. Len(f) - 1 /\ 1 + (i - 1) = i)
    BY <1>5
  <2>2. \A i \in 1 .. Len(f) : f[i] \in Elems(g) \union {b}
    <3> SUFFICES ASSUME NEW i \in 1 .. Len(f), i # 1 PROVE f[i] \in Elems(g)
      OBVIOUS
    <3> DEFINE j == i - 1
    <3>1. j \in 1 .. Len(f) - 1 /\ 1 + j = i
      BY <2>1
    <3> HIDE DEF j
    <3> QED BY <1>7, <1>8, <3>1
  <2>3. \A i \in 1 .. Len(g) : g[i] \in Elems(f) /\ g[i] # b
    BY <1>7, <1>8, <1>9
  <2> QED BY <1>6, <1>8, <2>2, <2>3
<1>11. Linked(g)'
  <2>1. freeList' = IF g = << >> THEN NULL ELSE g[1]
    <3>1. freeList' = IF 1 = Len(f) THEN NULL ELSE f[2]
      <4>1. link[f[1]] = IF 1 = Len(f) THEN NULL ELSE f[1 + 1]
        BY <1>5, <1>6
      <4>2. freeList' = link[f[1]] /\ 1 + 1 = 2
        BY <1>1, <1>5
      <4> QED BY <4>1, <4>2
    <3>2. (g = << >>) <=> (1 = Len(f))
      BY <1>5, <1>6, <1>7
    <3>3. 1 # Len(f) => g[1] = f[2]
      BY <1>5, <1>6, <1>7
    <3> QED BY <3>1, <3>2, <3>3
  <2>2. ASSUME NEW i \in 1 .. Len(g)
        PROVE  link'[g[i]] = IF i = Len(g) THEN NULL ELSE g[i + 1]
    <3>1. /\ i \in 1 .. Len(f) - 1 /\ g[i] = f[1 + i] /\ g[i] # b /\ 1 + i \in 1 .. Len(f)
          /\ i \in Nat
      BY <1>5, <1>7, <1>9
    <3>2. g[i] \in Blocks
      BY <1>7, ElemsOfSeq
    <3>3. link'[g[i]] = link[g[i]]
      BY <1>1, <1>5, <3>1, <3>2
    <3>4. link[f[1 + i]] = IF 1 + i = Len(f) THEN NULL ELSE f[1 + i + 1]
      BY <1>5, <3>1
    <3>5. (1 + i = Len(f)) <=> (i = Len(g))
      BY <1>5, <1>7, <3>1
    <3>6. i # Len(g) => g[i + 1] = f[1 + i + 1]
      <4> SUFFICES ASSUME i # Len(g) PROVE g[i + 1] = f[1 + i + 1]
        OBVIOUS
      <4>1. i + 1 \in 1 .. Len(f) - 1 /\ 1 + (i + 1) = 1 + i + 1
        BY <1>5, <1>7, <3>1
      <4> QED BY <1>7, <4>1
    <3> QED BY <3>1, <3>3, <3>4, <3>5, <3>6
  <2>3. DOMAIN link' = Blocks
    BY <1>1, <1>5
  <2> QED BY <1>7, <2>1, <2>2, <2>3 DEF Linked
<1>12. CurOK(w)' /\ Carved(w)' = Carved(w)
  BY <1>1, <1>3 DEF SlabOK, CurOK, Carved
<1>13. inUse' \intersect Elems(g) = {} /\ inUse' \union Elems(g) = Carved(w)
  BY <1>1, <1>4, <1>5, <1>10
<1>14. SlabOK(w)'
  BY <1>11, <1>12, <1>13 DEF SlabOK
<1> QED BY <1>1, <1>2, <1>3, <1>14, RestKept DEF UmemInvariant

\* slab_free_64b puts a block at the head of the free list.
LEMMA InvSlabFree ==
  ASSUME UmemInvariant, NEW b \in Blocks, SlabFree(b)
  PROVE  UmemInvariant'
<1>1. /\ b \in inUse /\ freeList' = b /\ inUse' = inUse \ {b}
      /\ link' = [link EXCEPT ![b] = freeList] /\ cur' = cur
      /\ UNCHANGED <<stack, fill, rx, kernel, app, pc, n, out>>
  BY DEF SlabFree, rings
<1>2. TypeOK /\ FillOK /\ RxOK
  BY DEF UmemInvariant
<1>3. PICK w : Located(w) /\ SlabOK(w)
  BY DEF UmemInvariant
<1>4. PICK f : /\ Linked(f) /\ inUse \intersect Elems(f) = {}
               /\ inUse \union Elems(f) = Carved(w)
  BY <1>3 DEF SlabOK
<1>5. /\ f \in Seq(Blocks) /\ Distinct(f) /\ Len(f) \in Nat
      /\ freeList = IF f = << >> THEN NULL ELSE f[1]
      /\ DOMAIN link = Blocks /\ DOMAIN f = 1 .. Len(f)
      /\ \A i \in 1 .. Len(f) : link[f[i]] = IF i = Len(f) THEN NULL ELSE f[i + 1]
      /\ \A i \in 1 .. Len(f) : f[i] \in Blocks /\ f[i] \in Elems(f)
  BY <1>1, <1>4, ElemsOfSeq DEF Linked
<1>n. f \in Seq(Blocks) /\ Len(f) \in Nat
  BY <1>5
<1>6. b \notin Elems(f)
  BY <1>1, <1>4
<1>p. PICK e : e = <<b>>
  OBVIOUS
<1>q. PICK g : g = e \o f
  OBVIOUS
<1>7. e \in Seq(Blocks) /\ Len(e) = 1 /\ Distinct(e) /\ Elems(e) = {b} /\ e[1] = b
  BY <1>p, OneEntry
<1>8. /\ g \in Seq(Blocks) /\ Len(g) = 1 + Len(f) /\ Distinct(g)
      /\ Elems(g) = {b} \union Elems(f)
  <2>1. Elems(e) \intersect Elems(f) = {}
    BY <1>6, <1>7
  <2>2. /\ e \o f \in Seq(Blocks) /\ Len(e \o f) = Len(e) + Len(f)
        /\ Distinct(e \o f) /\ Elems(e \o f) = Elems(e) \union Elems(f)
    <3>1. e \in Seq(Blocks) /\ f \in Seq(Blocks) /\ Distinct(e) /\ Distinct(f)
      BY <1>5, <1>7
    <3> QED BY <2>1, <3>1, JoinDistinct
  <2> QED BY <1>7, <1>q, <2>2
<1>9. g[1] = b /\ \A i \in 1 .. Len(f) : g[1 + i] = f[i]
  <2>1. \A i \in 1 .. Len(e) + Len(f) : (e \o f)[i] = IF i <= Len(e) THEN e[i] ELSE f[i - Len(e)]
    BY <1>5, <1>7, ConcatProperties
  <2>2. \A i \in 1 .. 1 + Len(f) : g[i] = IF i <= 1 THEN e[i] ELSE f[i - 1]
    BY <1>7, <1>q, <2>1
  <2>3. 1 \in 1 .. 1 + Len(f) /\ 1 <= 1
    BY <1>n
  <2>4. \A i \in 1 .. Len(f) : 1 + i \in 1 .. 1 + Len(f) /\ ~(1 + i <= 1) /\ (1 + i) - 1 = i
    BY <1>n
  <2> QED BY <1>7, <2>2, <2>3, <2>4
<1>10. Linked(g)'
  <2>1. g # << >>
    BY <1>n, <1>8
  <2>2. freeList' = IF g = << >> THEN NULL ELSE g[1]
    BY <1>1, <1>9, <2>1
  <2>3. ASSUME NEW i \in 1 .. Len(g)
        PROVE  link'[g[i]] = IF i = Len(g) THEN NULL ELSE g[i + 1]
    <3>1. CASE i = 1
      <4>1. link'[g[i]] = freeList
        BY <1>1, <1>5, <1>9, <3>1
      <4>2. (f = << >>) <=> (i = Len(g))
        BY <1>n, <1>8, <3>1
      <4>3. f # << >> => g[i + 1] = f[1]
        <5> SUFFICES ASSUME f # << >> PROVE g[i + 1] = f[1]
          OBVIOUS
        <5>1. 1 \in 1 .. Len(f) /\ i + 1 = 1 + 1
          BY <1>n, <3>1
        <5> QED BY <1>9, <5>1
      <4> QED BY <1>5, <4>1, <4>2, <4>3
    <3>2. CASE i # 1
      <4> DEFINE j == i - 1
      <4>1. /\ j \in 1 .. Len(f) /\ i = 1 + j /\ i + 1 = 1 + (j + 1)
            /\ (j = Len(f)) <=> (i = Len(g))
            /\ j # Len(f) => j + 1 \in 1 .. Len(f)
        BY <1>n, <1>8, <3>2
      <4> HIDE DEF j
      <4>2. g[i] = f[j] /\ f[j] # b /\ f[j] \in Blocks
        BY <1>5, <1>6, <1>9, <4>1
      <4>3. link'[g[i]] = link[f[j]]
        BY <1>1, <1>5, <4>2
      <4>4. link[f[j]] = IF j = Len(f) THEN NULL ELSE f[j + 1]
        BY <1>5, <4>1
      <4>5. j # Len(f) => g[i + 1] = f[j + 1]
        BY <1>9, <4>1
      <4> QED BY <4>1, <4>3, <4>4, <4>5
    <3> QED BY <3>1, <3>2
  <2>4. DOMAIN link' = Blocks
    BY <1>1, <1>5
  <2> QED BY <1>8, <2>2, <2>3, <2>4 DEF Linked
<1>11. CurOK(w)' /\ Carved(w)' = Carved(w)
  BY <1>1, <1>3 DEF SlabOK, CurOK, Carved
<1>12. inUse' \intersect Elems(g) = {} /\ inUse' \union Elems(g) = Carved(w)
  BY <1>1, <1>4, <1>6, <1>8
<1>13. SlabOK(w)'
  BY <1>10, <1>11, <1>12 DEF SlabOK
<1> QED BY <1>1, <1>2, <1>3, <1>13, RestKept DEF UmemInvariant

\* Without a free list every carved block is in use.
LEMMA NoFreeBlock ==
  ASSUME NEW w, SlabOK(w), freeList = NULL
  PROVE  /\ Linked(<< >>) /\ inUse = Carved(w) /\ Elems(<< >>) = {}
         /\ cur[2] \in 1 .. Lines /\ cur = <<cur[1], cur[2]>>
<1>1. PICK f : /\ Linked(f) /\ inUse \intersect Elems(f) = {}
               /\ inUse \union Elems(f) = Carved(w)
  BY DEF SlabOK
<1>2. f = << >>
  <2> SUFFICES ASSUME f # << >> PROVE FALSE
    OBVIOUS
  <2>1. f \in Seq(Blocks) /\ f[1] = NULL
    BY <1>1 DEF Linked
  <2>2. 1 \in 1 .. Len(f)
    BY <2>1
  <2>3. f[1] \in Blocks
    BY <2>1, <2>2, ElemsOfSeq
  <2> QED BY <2>1, <2>3, UmemConstants
<1>3. Elems(<< >>) = {}
  BY DEF Elems
<1> QED BY <1>1, <1>2, <1>3 DEF SlabOK, CurOK

\* slab_alloc_64b carves the next block of its chunk.
LEMMA InvSlabCarve ==
  ASSUME UmemInvariant, SlabCarve
  PROVE  UmemInvariant'
<1>1. /\ freeList = NULL /\ cur[2] < Lines /\ cur' = <<cur[1], cur[2] + 1>>
      /\ inUse' = inUse \union {cur} /\ UNCHANGED <<freeList, link>>
      /\ UNCHANGED <<stack, fill, rx, kernel, app, pc, n, out>>
  BY DEF SlabCarve, Carve, rings
<1>2. TypeOK /\ FillOK /\ RxOK
  BY DEF UmemInvariant
<1>3. PICK w : Located(w) /\ SlabOK(w)
  BY DEF UmemInvariant
<1>4. /\ Linked(<< >>) /\ inUse = Carved(w) /\ Elems(<< >>) = {}
      /\ cur[2] \in 1 .. Lines /\ cur = <<cur[1], cur[2]>>
  BY <1>1, <1>3, NoFreeBlock
<1>5. cur[1] \in Chunks /\ w[cur[1]] = "slab" /\ Lines \in Nat
  BY <1>1, <1>3, UmemConstants DEF SlabOK, CurOK
<1>6. CurOK(w)'
  <2>1. cur'[1] = cur[1] /\ cur'[2] = cur[2] + 1
    BY <1>1
  <2>2. cur[2] + 1 \in 1 .. Lines
    BY <1>1, <1>4, <1>5
  <2> QED BY <1>1, <1>5, <2>1, <2>2 DEF CurOK
<1>7. Linked(<< >>)'
  BY <1>1, <1>4 DEF Linked
<1>8. Carved(w)' = Carved(w) \union {cur}
  <2> DEFINE x == cur[1]
             k == cur[2]
  <2>1. /\ cur'[1] = x /\ cur'[2] = k + 1 /\ cur = <<x, k>> /\ k \in 1 .. Lines /\ k < Lines
        /\ x \in Chunks /\ w[x] = "slab" /\ Lines \in Nat
    BY <1>1, <1>4, <1>5
  <2> HIDE DEF x, k
  <2>2. \A b \in Blocks : /\ b = <<b[1], b[2]>> /\ b[2] \in Int
                          /\ b[2] < k + 1 <=> b[2] < k \/ b[2] = k
    BY <2>1 DEF Blocks
  <2>3. cur \in Blocks /\ cur[1] = x /\ cur[2] = k
    BY <2>1 DEF Blocks
  <2> QED BY <2>1, <2>2, <2>3 DEF Carved
<1>9. inUse' \intersect Elems(<< >>) = {} /\ inUse' \union Elems(<< >>) = Carved(w)'
  BY <1>1, <1>4, <1>8
<1>10. SlabOK(w)'
  BY <1>6, <1>7, <1>9 DEF SlabOK
<1> QED BY <1>1, <1>2, <1>3, <1>10, RestKept DEF UmemInvariant

\* slab_alloc_64b takes a chunk off the stack and carves its first block.
LEMMA InvSlabGrow ==
  ASSUME UmemInvariant, SlabGrow
  PROVE  UmemInvariant'
<1> DEFINE d == stack[Len(stack)]
<1>1. /\ freeList = NULL /\ cur[2] >= Lines /\ stack # << >>
      /\ stack' = SubSeq(stack, 1, Len(stack) - 1) /\ cur' = <<d, 1>>
      /\ inUse' = inUse \union {<<d, 0>>} /\ UNCHANGED <<freeList, link>>
      /\ UNCHANGED <<fill, rx, kernel, app, pc, n, out>> /\ pc = "idle"
  BY DEF SlabGrow, Carve, PopChunk, Top, rings
<1>2. TypeOK /\ FillOK /\ RxOK
  BY DEF UmemInvariant
<1>3. PICK w : Located(w) /\ SlabOK(w)
  BY DEF UmemInvariant
<1>4. /\ Linked(<< >>) /\ inUse = Carved(w) /\ Elems(<< >>) = {}
      /\ cur[2] \in 1 .. Lines /\ cur = <<cur[1], cur[2]>>
  BY <1>1, <1>3, NoFreeBlock
<1>5. /\ stack \in Seq(Chunks) /\ Distinct(stack) /\ Len(stack) \in Nat /\ Len(stack) >= 1
      /\ 1 \in 0 .. Len(stack) /\ d \in Chunks
  <2>1. stack \in Seq(Chunks) /\ Distinct(stack)
    BY <1>2 DEF TypeOK
  <2>2. Len(stack) \in Nat /\ Len(stack) >= 1
    BY <1>1, <2>1
  <2>3. Len(stack) \in 1 .. Len(stack)
    BY <2>2
  <2> QED BY <2>1, <2>2, <2>3, ElemsOfSeq
<1>6. /\ stack' \in Seq(Chunks) /\ Distinct(stack')
      /\ d \notin Elems(stack') /\ Elems(stack) = {d} \union Elems(stack')
  <2>1. /\ Below(stack, 1) \in Seq(Chunks) /\ Distinct(Below(stack, 1))
        /\ Elems(Popped(stack, 1)) \intersect Elems(Below(stack, 1)) = {}
        /\ Elems(stack) = Elems(Popped(stack, 1)) \union Elems(Below(stack, 1))
    BY <1>5, CutBack, ZenonT(40)
  <2>2. Popped(stack, 1) = [i \in {1} |-> stack[Len(stack) + 1 - i]]
    <3>1. 1 .. 1 = {1}
      OBVIOUS
    <3> QED BY <3>1 DEF Popped
  <2>3. Elems(Popped(stack, 1)) = {d}
    <3>1. Len(stack) + 1 - 1 = Len(stack)
      BY <1>5
    <3> QED BY <2>2, <3>1 DEF Elems
  <2>4. stack' = Below(stack, 1)
    BY <1>1 DEF Below
  <2> QED BY <2>1, <2>3, <2>4
<1>7. w[d] = "stack"
  BY <1>3, <1>5, <1>6 DEF Located
<1>p. PICK x : x = d
  OBVIOUS
<1>v. PICK v : v = [c \in Chunks |-> IF c = x THEN "slab" ELSE w[c]]
  OBVIOUS
<1> HIDE DEF d
<1>8. /\ v \in [Chunks -> Homes] /\ x \in Chunks
      /\ \A c \in Chunks : v[c] = IF c = x THEN "slab" ELSE w[c]
  BY <1>3, <1>v, <1>p, <1>5 DEF Located, Homes
<1>9. TypeOK'
  BY <1>1, <1>2, <1>6 DEF TypeOK
<1>10. FillOK' /\ Filled' = Filled /\ RxOK' /\ Arrived' = Arrived
  BY <1>1, <1>2, FillKept, RxKept
<1>11. Located(v)'
  BY <1>1, <1>3, <1>p, <1>6, <1>7, <1>8, <1>10 DEF Located
<1>12. CurOK(v)'
  <2>1. cur'[1] = x /\ cur'[2] = 1 /\ cur' = <<x, 1>> /\ 1 \in 1 .. Lines
    BY <1>1, <1>p, UmemConstants
  <2> QED BY <1>8, <2>1 DEF CurOK
<1>13. Linked(<< >>)'
  BY <1>1, <1>4 DEF Linked
<1>14. Carved(v)' = Carved(w) \union {<<x, 0>>}
  <2>1. /\ cur'[1] = x /\ cur'[2] = 1 /\ cur[2] = Lines /\ Lines \in Nat /\ Lines > 0
    BY <1>1, <1>p, <1>4, UmemConstants
  <2>2. \A b \in Blocks : /\ b = <<b[1], b[2]>> /\ b[1] \in Chunks /\ b[2] \in Int
                          /\ b[2] < Lines /\ (b[2] < 1 <=> b[2] = 0)
    BY <2>1 DEF Blocks
  <2>3. <<x, 0>> \in Blocks /\ <<x, 0>>[1] = x /\ <<x, 0>>[2] = 0
    BY <1>8, <2>1 DEF Blocks
  <2>4. Carved(v)' = {b \in Blocks : v[b[1]] = "slab" /\ (b[1] = x => b[2] = 0)}
    BY <2>1, <2>2 DEF Carved
  <2>5. Carved(w) = {b \in Blocks : w[b[1]] = "slab"}
    BY <2>1, <2>2 DEF Carved
  <2>6. w[x] # "slab"
    BY <1>p, <1>7
  <2>7. \A b \in Blocks : (v[b[1]] = "slab" /\ (b[1] = x => b[2] = 0))
                          <=> (w[b[1]] = "slab" \/ b = <<x, 0>>)
    <3> SUFFICES ASSUME NEW b \in Blocks
                 PROVE  (v[b[1]] = "slab" /\ (b[1] = x => b[2] = 0))
                        <=> (w[b[1]] = "slab" \/ b = <<x, 0>>)
      OBVIOUS
    <3>1. CASE b[1] = x
      <4>1. b = <<x, b[2]>> /\ v[b[1]] = "slab" /\ w[b[1]] # "slab"
        BY <1>8, <2>2, <2>6, <3>1
      <4>2. (b = <<x, 0>>) <=> (b[2] = 0)
        BY <2>3, <4>1
      <4> QED BY <3>1, <4>1, <4>2
    <3>2. CASE b[1] # x
      BY <1>8, <2>2, <2>3, <3>2
    <3> QED BY <3>1, <3>2
  <2> QED BY <2>3, <2>4, <2>5, <2>7
<1>15. inUse' \intersect Elems(<< >>) = {} /\ inUse' \union Elems(<< >>) = Carved(v)'
  BY <1>1, <1>p, <1>4, <1>14
<1>16. SlabOK(v)'
  BY <1>12, <1>13, <1>15 DEF SlabOK
<1> QED BY <1>9, <1>10, <1>11, <1>16 DEF UmemInvariant

\* Every step preserves the invariant.
LEMMA NextInvariant == UmemInvariant /\ [Next]_vars => UmemInvariant'
<1> SUFFICES ASSUME UmemInvariant, [Next]_vars PROVE UmemInvariant'
  OBVIOUS
<1>1. ASSUME NEW m \in 0 .. MaxN, FillBegin(m) \/ RxBegin(m) PROVE UmemInvariant'
  BY <1>1, InvBegin
<1>2. ASSUME NEW c \in Chunks, Recycle(c) \/ KernelReceive(c) PROVE UmemInvariant'
  BY <1>2, InvRecycle, InvKernelReceive
<1>3. ASSUME NEW b \in Blocks, SlabFree(b) PROVE UmemInvariant'
  BY <1>3, InvSlabFree
<1>4. CASE UNCHANGED vars
  <2>1. UNCHANGED <<stack, fill, rx, kernel, app, pc, n, out>> /\ UNCHANGED slab
    BY <1>4 DEF vars, slab
  <2>2. PICK w : Located(w) /\ SlabOK(w)
    BY DEF UmemInvariant
  <2>3. SlabOK(w)'
    BY <2>1, <2>2, SlabKept
  <2> QED BY <2>1, <2>2, <2>3, RestKept DEF UmemInvariant
<1> QED BY <1>1, <1>2, <1>3, <1>4, InvFillStore, InvFillPublish, InvRxCopy, InvRxPublish,
           InvSlabReuse, InvSlabCarve, InvSlabGrow, InvKernelTake DEF Next

\* UmemInvariant holds of every reachable state.
THEOREM UmemInvariantHolds == Spec => []UmemInvariant
BY InitInvariant, NextInvariant, PTL DEF Spec

-----------------------------------------------------------------------------
(***************************************************************************)
(* What the walk along the free list finds                                 *)
(***************************************************************************)
\* A set of natural numbers has a least element.
LEMMA LeastNat ==
  ASSUME NEW T \in SUBSET Nat, T # {}
  PROVE  \E x \in T : \A y \in T : x <= y
<1> DEFINE R == OpToRel(<, Nat)
<1>1. IsWellFoundedOn(R, Nat)
  BY NatLessThanWellFounded
<1>2. \A x, y \in Nat : x < y => <<x, y>> \in R
  BY DEF OpToRel
<1> HIDE DEF R
<1>3. PICK x \in T : \A y \in T : ~ (<<y, x>> \in R)
  BY <1>1, WFMin
<1>4. \A y \in T : ~(y < x) /\ y \in Nat /\ x \in Nat
  BY <1>2, <1>3
<1>5. \A y \in T : x <= y
  BY <1>4
<1> QED BY <1>3, <1>5

\* The defining equation of the walk.
WalkOf(w) == w = [i \in 0 .. Cardinality(Blocks) |->
                    IF i = 0 THEN freeList
                    ELSE LET b == w[i - 1] IN IF b = NULL THEN NULL ELSE link[b]]

\* FreeChain satisfies it when something does.
LEMMA ChainIsWalk ==
  ASSUME NEW g, WalkOf(g)
  PROVE  WalkOf(FreeChain)
<1>1. FreeChain = CHOOSE w : WalkOf(w)
  BY DEF FreeChain, WalkOf
<1> QED BY <1>1, Zenon

\* The blocks of the umem are finitely many.
LEMMA BlocksFinite == IsFiniteSet(Blocks) /\ Cardinality(Blocks) \in Nat
<1>1. IsFiniteSet(0 .. Lines - 1)
  <2>1. 0 \in Int /\ Lines - 1 \in Int
    BY UmemConstants
  <2> QED BY <2>1, FS_Interval
<1> QED BY <1>1, UmemConstants, FS_Product, FS_CardinalityType DEF Blocks

\* A walk along the list finds its blocks in order and then the null pointer.
LEMMA ChainFollowsList ==
  ASSUME NEW f, Linked(f)
  PROVE  \A i \in 0 .. Cardinality(Blocks) :
            FreeChain[i] = IF i < Len(f) THEN f[i + 1] ELSE NULL
<1> DEFINE C == Cardinality(Blocks)
<1>1. /\ f \in Seq(Blocks) /\ Len(f) \in Nat /\ C \in Nat
      /\ \A i \in 1 .. Len(f) : f[i] \in Blocks
      /\ freeList = IF f = << >> THEN NULL ELSE f[1]
  BY BlocksFinite, ElemsOfSeq DEF Linked
<1>2. \A i \in 1 .. Len(f) : link[f[i]] = IF i = Len(f) THEN NULL ELSE f[i + 1]
  BY DEF Linked
<1>3. \A i \in 1 .. Len(f) : f[i] # NULL
  BY <1>1, UmemConstants
<1> DEFINE g == [i \in 0 .. C |-> IF i < Len(f) THEN f[i + 1] ELSE NULL]
<1>g. \A i \in 0 .. C : g[i] = IF i < Len(f) THEN f[i + 1] ELSE NULL
  OBVIOUS
<1>4. ASSUME NEW i \in 0 .. C
      PROVE  g[i] = IF i = 0 THEN freeList
                    ELSE LET b == g[i - 1] IN IF b = NULL THEN NULL ELSE link[b]
  <2> HIDE DEF g, C
  <2>n. Len(f) \in Nat /\ C \in Nat /\ i \in Nat /\ f \in Seq(Blocks)
    BY <1>1
  <2>1. CASE i = 0
    <3>1. (f = << >>) <=> ~(i < Len(f))
      BY <2>n, <2>1
    <3>2. i + 1 = 1
      BY <2>1
    <3> QED BY <1>1, <1>g, <2>1, <3>1, <3>2
  <2>2. CASE i # 0
    <3> DEFINE j == i - 1
    <3>1. j \in 0 .. C /\ j + 1 = i
      BY <2>n, <2>2
    <3>2. g[j] = IF j < Len(f) THEN f[i] ELSE NULL
      BY <1>g, <3>1
    <3>3. CASE j < Len(f)
      <4>1. i \in 1 .. Len(f) /\ (i = Len(f) <=> ~(i < Len(f)))
        BY <2>n, <2>2, <3>3
      <4>2. g[j] # NULL /\ link[g[j]] = IF i = Len(f) THEN NULL ELSE f[i + 1]
        BY <1>2, <1>3, <3>2, <3>3, <4>1
      <4> QED BY <1>g, <2>2, <4>1, <4>2
    <3>4. CASE ~(j < Len(f))
      <4>1. ~(i < Len(f))
        BY <2>n, <3>4
      <4> QED BY <1>g, <2>2, <3>2, <3>4, <4>1
    <3> QED BY <3>3, <3>4
  <2> QED BY <2>1, <2>2
<1>5. WalkOf(g)
  <2> DEFINE e(i) == IF i = 0 THEN freeList
                     ELSE LET b == g[i - 1] IN IF b = NULL THEN NULL ELSE link[b]
  <2>1. \A i \in 0 .. C : g[i] = e(i)
    BY <1>4
  <2>2. g = [i \in 0 .. C |-> g[i]]
    OBVIOUS
  <2> HIDE DEF g
  <2>3. g = [i \in 0 .. C |-> e(i)]
    BY <2>1, <2>2
  <2> QED BY <2>3 DEF WalkOf
<1> HIDE DEF g
<1>6. WalkOf(FreeChain)
  BY <1>5, ChainIsWalk
<1> DEFINE h == FreeChain
<1>7. \A i \in 0 .. C : h[i] = IF i = 0 THEN freeList
                               ELSE LET b == h[i - 1] IN IF b = NULL THEN NULL ELSE link[b]
  BY <1>6 DEF WalkOf
<1> HIDE DEF h
<1> DEFINE T == {i \in 0 .. C : h[i] # g[i]}
<1>8. T = {}
  <2> SUFFICES ASSUME T # {} PROVE FALSE
    OBVIOUS
  <2>1. T \in SUBSET Nat
    BY <1>1
  <2>2. PICK m \in T : \A y \in T : m <= y
    BY <2>1, LeastNat
  <2>3. m \in 0 .. C /\ h[m] # g[m] /\ m \in Nat
    BY <1>1, <2>2
  <2>4. CASE m = 0
    BY <1>4, <1>7, <2>3, <2>4
  <2>5. CASE m # 0
    <3> DEFINE j == m - 1
    <3>1. j \in 0 .. C /\ ~(m <= j)
      BY <1>1, <2>3, <2>5
    <3>2. h[j] = g[j]
      BY <2>2, <3>1
    <3>3. h[m] = IF h[j] = NULL THEN NULL ELSE link[h[j]]
      BY <1>7, <2>3, <2>5
    <3>4. g[m] = IF g[j] = NULL THEN NULL ELSE link[g[j]]
      BY <1>4, <2>3, <2>5
    <3> QED BY <2>3, <3>2, <3>3, <3>4
  <2> QED BY <2>4, <2>5
<1>9. \A i \in 0 .. C : h[i] = g[i]
  BY <1>8
<1> QED BY <1>9, <1>g DEF h

\* The free list, walked for as many blocks as there are, is all of f and
\* ends.
LEMMA ChainFindsList ==
  ASSUME NEW f, Linked(f)
  PROVE  FreeBlocks = Elems(f) /\ FreeChain[Cardinality(Blocks)] = NULL
<1> DEFINE C == Cardinality(Blocks)
           h == FreeChain
<1>1. /\ f \in Seq(Blocks) /\ Distinct(f) /\ Len(f) \in Nat
      /\ Elems(f) = {f[i] : i \in 1 .. Len(f)}
      /\ \A i \in 1 .. Len(f) : f[i] \in Blocks
  BY ElemsOfSeq DEF Linked
<1>2. C \in Nat /\ Len(f) <= C
  BY <1>1, BlocksFinite, DistinctLength
<1>3. \A i \in 0 .. C : h[i] = IF i < Len(f) THEN f[i + 1] ELSE NULL
  BY ChainFollowsList
<1>4. FreeBlocks = {h[i] : i \in 0 .. C} \ {NULL}
  BY DEF FreeBlocks
<1> HIDE DEF C, h
<1>5. h[C] = NULL
  BY <1>1, <1>2, <1>3
<1>6. \A i \in 0 .. C : h[i] # NULL => h[i] \in Elems(f)
  <2> SUFFICES ASSUME NEW i \in 0 .. C, h[i] # NULL PROVE h[i] \in Elems(f)
    OBVIOUS
  <2>1. i < Len(f) /\ h[i] = f[i + 1]
    BY <1>3
  <2>2. i + 1 \in 1 .. Len(f)
    BY <1>1, <1>2, <2>1
  <2> QED BY <1>1, <2>1, <2>2
<1>7. \A i \in 1 .. Len(f) : f[i] # NULL /\ \E j \in 0 .. C : h[j] = f[i]
  <2> SUFFICES ASSUME NEW i \in 1 .. Len(f)
               PROVE  f[i] # NULL /\ \E j \in 0 .. C : h[j] = f[i]
    OBVIOUS
  <2> DEFINE j == i - 1
  <2>1. j \in 0 .. C /\ j < Len(f) /\ j + 1 = i
    BY <1>1, <1>2
  <2> HIDE DEF j
  <2>2. h[j] = f[i]
    BY <1>3, <2>1
  <2> QED BY <1>1, <2>1, <2>2, UmemConstants
<1>8. Elems(f) \subseteq FreeBlocks
  BY <1>1, <1>4, <1>7
<1>9. FreeBlocks \subseteq Elems(f)
  BY <1>4, <1>6
<1> QED BY <1>5, <1>8, <1>9 DEF C, h

\* What the slab allocator has are the slab chunks and their carved blocks.
LEMMA SlabBlocks ==
  ASSUME NEW w, Located(w), SlabOK(w)
  PROVE  /\ inUse \union FreeBlocks = Carved(w) /\ inUse \intersect FreeBlocks = {}
         /\ FreeChain[Cardinality(Blocks)] = NULL
         /\ SlabChunks = {c \in Chunks : w[c] = "slab"}
<1>1. PICK f : /\ Linked(f) /\ inUse \intersect Elems(f) = {}
               /\ inUse \union Elems(f) = Carved(w)
  BY DEF SlabOK
<1>2. FreeBlocks = Elems(f) /\ FreeChain[Cardinality(Blocks)] = NULL
  BY <1>1, ChainFindsList
<1>3. inUse \union FreeBlocks = Carved(w) /\ inUse \intersect FreeBlocks = {}
  BY <1>1, <1>2
<1>4. SlabChunks = {b[1] : b \in Carved(w)}
  BY <1>3 DEF SlabChunks
<1>5. \A b \in Carved(w) : b[1] \in Chunks /\ w[b[1]] = "slab"
  BY DEF Carved, Blocks
<1>6. ASSUME NEW c \in Chunks, w[c] = "slab" PROVE \E b \in Carved(w) : b[1] = c
  <2>1. <<c, 0>> \in Blocks /\ <<c, 0>>[1] = c /\ <<c, 0>>[2] = 0
    BY UmemConstants DEF Blocks
  <2>2. 0 < cur[2]
    BY UmemConstants DEF SlabOK, CurOK
  <2>3. <<c, 0>> \in Carved(w)
    BY <1>6, <2>1, <2>2 DEF Carved
  <2> QED BY <2>1, <2>3
<1> QED BY <1>2, <1>3, <1>4, <1>5, <1>6

\* For every number of chunks and blocks: each block of a slab chunk is in
\* use, free or not carved yet, and only one of these, and the free list of
\* slab_alloc_64b and slab_free_64b reaches every free block and ends.
THEOREM SlabBlocksPartitioned == Spec => []SlabPartition
<1>1. ASSUME UmemInvariant PROVE SlabPartition
  <2>1. PICK w : Located(w) /\ SlabOK(w)
    BY <1>1 DEF UmemInvariant
  <2>2. /\ inUse \union FreeBlocks = Carved(w) /\ inUse \intersect FreeBlocks = {}
        /\ FreeChain[Cardinality(Blocks)] = NULL
        /\ SlabChunks = {c \in Chunks : w[c] = "slab"}
    BY <2>1, SlabBlocks
  <2>3. \A b \in Blocks : b = <<b[1], b[2]>> /\ b[1] \in Chunks /\ b[2] \in 0 .. Lines - 1
    BY DEF Blocks
  <2>4. /\ cur[2] \in 1 .. Lines /\ Lines \in Nat
        /\ \/ cur[1] = NULL /\ cur[2] = Lines
           \/ cur[1] \in Chunks /\ w[cur[1]] = "slab"
    BY <2>1, UmemConstants DEF SlabOK, CurOK
  <2>5. Uncarved = {b \in Blocks : w[b[1]] = "slab" /\ b[1] = cur[1] /\ ~(b[2] < cur[2])}
    <3> DEFINE U == {b \in Blocks : w[b[1]] = "slab" /\ b[1] = cur[1] /\ ~(b[2] < cur[2])}
    <3>1. ASSUME NEW k \in cur[2] .. Lines - 1 PROVE <<cur[1], k>> \in U
      <4>1. k \in 0 .. Lines - 1 /\ ~(k < cur[2]) /\ cur[2] # Lines
        BY <2>4
      <4>2. cur[1] \in Chunks /\ w[cur[1]] = "slab"
        BY <2>4, <4>1
      <4>3. <<cur[1], k>> \in Blocks
        BY <4>1, <4>2 DEF Blocks
      <4> QED BY <4>1, <4>2, <4>3
    <3>2. ASSUME NEW b \in U PROVE \E k \in cur[2] .. Lines - 1 : b = <<cur[1], k>>
      <4>1. b \in Blocks /\ b[1] = cur[1] /\ ~(b[2] < cur[2])
        OBVIOUS
      <4>2. b = <<cur[1], b[2]>> /\ b[2] \in 0 .. Lines - 1
        BY <2>3, <4>1
      <4>3. b[2] \in cur[2] .. Lines - 1
        BY <2>4, <4>1, <4>2
      <4> QED BY <4>2, <4>3
    <3> HIDE DEF U
    <3>3. Uncarved = U
      BY <3>1, <3>2 DEF Uncarved
    <3> QED BY <3>3 DEF U
  <2>6. Carved(w) \intersect Uncarved = {}
    BY <2>5 DEF Carved
  <2>7. Carved(w) \union Uncarved = {b \in Blocks : b[1] \in SlabChunks}
    BY <2>2, <2>3, <2>5 DEF Carved
  <2> QED BY <2>2, <2>6, <2>7 DEF SlabPartition
<1> QED BY <1>1, UmemInvariantHolds, PTL

-----------------------------------------------------------------------------
(***************************************************************************)
(* Every chunk is in one place                                             *)
(***************************************************************************)
\* S has one element if p, and none otherwise.
OneIf(p, S) == IF p THEN \E x : S = {x} ELSE S = {}

\* The positions of an entry in a sequence without repetitions.
LEMMA PositionOf ==
  ASSUME NEW T, NEW s \in Seq(T), Distinct(s), NEW c
  PROVE  OneIf(c \in Elems(s), {i \in DOMAIN s : s[i] = c})
<1> DEFINE S == {i \in DOMAIN s : s[i] = c}
<1>1. CASE c \in Elems(s)
  <2>1. PICK i \in DOMAIN s : s[i] = c
    BY <1>1 DEF Elems
  <2>2. S = {i}
    BY <2>1 DEF Distinct
  <2> HIDE DEF S
  <2>3. \E x : S = {x}
    BY <2>2
  <2> QED BY <1>1, <2>3 DEF OneIf, S
<1>2. CASE c \notin Elems(s)
  <2>1. S = {}
    BY <1>2 DEF Elems
  <2> QED BY <1>2, <2>1 DEF OneIf
<1> QED BY <1>1, <1>2

\* The slot of an entry in a ring that holds it once.
LEMMA SlotOfEntry ==
  ASSUME NEW T, NEW r, NEW q \in Seq(T), Distinct(q), Holds(r, q), NEW c
  PROVE  OneIf(c \in Elems(q), SlotsOf(r, c))
<1>1. DOMAIN q = 1 .. Len(q) /\ Elems(q) = {q[i] : i \in 1 .. Len(q)}
  BY ElemsOfSeq
<1>2. /\ (\A i \in 1 .. Len(q) : q[i] # c) => SlotsOf(r, c) = {}
      /\ \A i \in 1 .. Len(q) :
           q[i] = c /\ (\A j \in 1 .. Len(q) : q[j] = c => j = i)
           => SlotsOf(r, c) = {Slot(r.cons + i - 1)}
  BY PendingHeld
<1>3. CASE c \in Elems(q)
  <2>1. PICK i \in 1 .. Len(q) : q[i] = c
    BY <1>1, <1>3
  <2>2. \A j \in 1 .. Len(q) : q[j] = c => j = i
    BY <1>1, <2>1 DEF Distinct
  <2>3. SlotsOf(r, c) = {Slot(r.cons + i - 1)}
    BY <1>2, <2>1, <2>2
  <2>4. \E x : SlotsOf(r, c) = {x}
    BY <2>3, Zenon
  <2> QED BY <1>3, <2>4 DEF OneIf
<1>4. CASE c \notin Elems(q)
  <2>1. SlotsOf(r, c) = {}
    BY <1>1, <1>2, <1>4
  <2> QED BY <1>4, <2>1 DEF OneIf
<1> QED BY <1>3, <1>4

\* For every number of chunks, ring size and modulus of the counters: a chunk
\* is on the stack, on its way to the fill ring, in it, with the kernel, in
\* the rx ring, with the caller or in the slab allocator, and in one of these
\* only, whatever the kernel does between the steps of xdp_fill and xdp_rx.
THEOREM ChunksInOnePlace == Spec => []ChunkOnePlace
<1>1. ASSUME UmemInvariant, NEW c \in Chunks PROVE Cardinality(Places(c, SlabChunks)) = 1
  <2>1. PICK w : Located(w) /\ SlabOK(w)
    BY <1>1 DEF UmemInvariant
  <2>2. SlabChunks = {d \in Chunks : w[d] = "slab"}
    BY <2>1, SlabBlocks
  <2> DEFINE h == w[c]
             stacked == {i \in DOMAIN stack : stack[i] = c}
             filling == {i \in DOMAIN out : pc = "fill_publish" /\ out[i] = c}
             filled  == SlotsOf(fill, c)
             arrived == SlotsOf(rx, c)
             owners  == {o \in {"kernel", "app", "slab"} :
                           \/ o = "kernel" /\ c \in kernel
                           \/ o = "app" /\ c \in app
                           \/ o = "slab" /\ c \in SlabChunks}
  <2>3. Places(c, SlabChunks) =
          ({"stack"} \X stacked) \union ({"filling"} \X filling)
            \union ({"fill"} \X filled) \union ({"rx"} \X arrived)
            \union ({"owner"} \X owners)
    BY DEF Places, SlotsOf
  <2>4. TypeOK /\ FillOK /\ RxOK
    BY <1>1 DEF UmemInvariant
  <2>h. /\ h \in Homes
        /\ (h = "stack") <=> c \in Elems(stack)
        /\ (h = "filling") <=> pc = "fill_publish" /\ c \in Elems(out)
        /\ (h = "fill") <=> c \in Elems(Filled)
        /\ (h = "rx") <=> c \in Elems(Arrived)
        /\ (h = "kernel") <=> c \in kernel
        /\ (h = "app") <=> c \in app
        /\ (h = "slab") <=> c \in SlabChunks
    BY <2>1, <2>2 DEF Located
  <2>5. OneIf(h = "stack", stacked)
    <3>1. OneIf(c \in Elems(stack), stacked)
      BY <2>4, PositionOf DEF TypeOK
    <3> QED BY <2>h, <3>1 DEF OneIf
  <2>6. OneIf(h = "filling", filling)
    <3>1. CASE pc = "fill_publish"
      <4>1. filling = {i \in DOMAIN out : out[i] = c}
        BY <3>1
      <4>2. OneIf(c \in Elems(out), {i \in DOMAIN out : out[i] = c})
        BY <2>4, <3>1, PositionOf DEF FillOK
      <4> QED BY <2>h, <3>1, <4>1, <4>2 DEF OneIf
    <3>2. CASE pc # "fill_publish"
      BY <2>h, <3>2 DEF OneIf
    <3> QED BY <3>1, <3>2
  <2>7. OneIf(h = "fill", filled)
    <3>1. OneIf(c \in Elems(Filled), filled)
      BY <2>4, SlotOfEntry DEF FillOK
    <3> QED BY <2>h, <3>1 DEF OneIf
  <2>8. OneIf(h = "rx", arrived)
    <3>1. OneIf(c \in Elems(Arrived), arrived)
      BY <2>4, SlotOfEntry DEF RxOK
    <3> QED BY <2>h, <3>1 DEF OneIf
  <2>9. owners = IF h \in {"kernel", "app", "slab"} THEN {h} ELSE {}
    BY <2>h
  <2> HIDE DEF h, stacked, filling, filled, arrived, owners
  <2>p. /\ \A a, b : {a} \X {b} = {<<a, b>>}
        /\ \A a : {a} \X {} = {}
    OBVIOUS
  <2>10. \E x : Places(c, SlabChunks) = {x}
    <3>1. CASE h = "stack"
      <4>1. /\ filling = {} /\ filled = {} /\ arrived = {} /\ owners = {}
            /\ \E x : stacked = {x}
        BY <2>5, <2>6, <2>7, <2>8, <2>9, <3>1 DEF OneIf
      <4>2. PICK x : stacked = {x}
        BY <4>1
      <4>3. Places(c, SlabChunks) = {<<"stack", x>>}
        BY <2>3, <2>p, <4>1, <4>2
      <4> QED BY <4>3, Zenon
    <3>2. CASE h = "filling"
      <4>1. /\ stacked = {} /\ filled = {} /\ arrived = {} /\ owners = {}
            /\ \E x : filling = {x}
        BY <2>5, <2>6, <2>7, <2>8, <2>9, <3>2 DEF OneIf
      <4>2. PICK x : filling = {x}
        BY <4>1
      <4>3. Places(c, SlabChunks) = {<<"filling", x>>}
        BY <2>3, <2>p, <4>1, <4>2
      <4> QED BY <4>3, Zenon
    <3>3. CASE h = "fill"
      <4>1. /\ stacked = {} /\ filling = {} /\ arrived = {} /\ owners = {}
            /\ \E x : filled = {x}
        BY <2>5, <2>6, <2>7, <2>8, <2>9, <3>3 DEF OneIf
      <4>2. PICK x : filled = {x}
        BY <4>1
      <4>3. Places(c, SlabChunks) = {<<"fill", x>>}
        BY <2>3, <2>p, <4>1, <4>2
      <4> QED BY <4>3, Zenon
    <3>4. CASE h = "rx"
      <4>1. /\ stacked = {} /\ filling = {} /\ filled = {} /\ owners = {}
            /\ \E x : arrived = {x}
        BY <2>5, <2>6, <2>7, <2>8, <2>9, <3>4 DEF OneIf
      <4>2. PICK x : arrived = {x}
        BY <4>1
      <4>3. Places(c, SlabChunks) = {<<"rx", x>>}
        BY <2>3, <2>p, <4>1, <4>2
      <4> QED BY <4>3, Zenon
    <3>5. CASE h \in {"kernel", "app", "slab"}
      <4>1. /\ stacked = {} /\ filling = {} /\ filled = {} /\ arrived = {}
            /\ owners = {h}
        BY <2>5, <2>6, <2>7, <2>8, <2>9, <3>5 DEF OneIf
      <4>2. Places(c, SlabChunks) = {<<"owner", h>>}
        BY <2>3, <2>p, <4>1
      <4> QED BY <4>2, Zenon
    <3> QED BY <2>h, <3>1, <3>2, <3>3, <3>4, <3>5 DEF Homes
  <2> QED BY <2>10, FS_Singleton
<1>2. UmemInvariant => ChunkOnePlace
  BY <1>1 DEF ChunkOnePlace
<1> QED BY <1>2, UmemInvariantHolds, PTL

-----------------------------------------------------------------------------
(***************************************************************************)
(* XdpTx: the inductive invariant                                          *)
(***************************************************************************)
Vias == {"tx", "sg"}
TxLabels == {"idle", "tx_check", "store", "publish", "comp_publish"}
Descs == [call : Nat, i : Nat, contd : BOOLEAN, via : Vias, len : Nat]

TxTypeOK == /\ segCount \in 1 .. MaxSegs /\ built \in Nat /\ ipLen \in Nat
            /\ txPc \in TxLabels /\ via \in Vias
            /\ txN \in Nat /\ want \in Nat /\ max \in Nat /\ calls \in Nat
            /\ submitted \in Seq(Descs) /\ sent \in Seq(Descs)
            /\ held \subseteq Descs /\ reaped \subseteq Descs /\ IsFiniteSet(held)

\* The descriptors published and not yet taken by the kernel.
Rest(s, t) == [i \in 1 .. Len(s) - Len(t) |-> s[Len(t) + i]]
Queue == Rest(submitted, sent)

\* The tx ring holds exactly these.
QueueOK == /\ Len(sent) <= Len(submitted)
           /\ \A i \in 1 .. Len(sent) : sent[i] = submitted[i]
           /\ Holds(tx, Queue)

Offered == [i \in 1 .. txN |-> Desc(i)]
InSend == txPc \in {"tx_check", "store", "publish"}

\* A call that stores or publishes still has the room it found.
CallOK == /\ txPc \in {"store", "publish"} => /\ txN \in 1 .. want
                                              /\ Len(Queue) + txN <= Size
                                              /\ via = "tx" => txN = want
          /\ txPc = "publish" => Stored(tx, Offered)
          /\ txPc = "tx_check" => via = "tx"
          /\ InSend /\ via = "tx" => ipLen = built

\* No descriptor is published twice.
SubmittedOK == /\ \A i \in DOMAIN submitted : /\ submitted[i].call <= calls
                                              /\ InSend => submitted[i].call < calls
               /\ \A i, j \in DOMAIN submitted : submitted[i] = submitted[j] => i = j

\* Completions that wait for xdp_complete_tx.
Done == Entries(comp, comp.cons, Count(comp))

\* What the kernel took is with it, completed or reaped, and its completion
\* has a slot.
CompOK == /\ Done \in Seq(Descs) /\ Holds(comp, Done)
          /\ \A i, j \in DOMAIN Done : Done[i] = Done[j] => i = j
          /\ Elems(Done) \intersect held = {} /\ Elems(Done) \intersect reaped = {}
          /\ held \intersect reaped = {}
          /\ Elems(Done) \union held \union reaped = Elems(sent)
          /\ Len(Done) + Cardinality(held) <= Size
          /\ txPc = "comp_publish" => txN \in 1 .. Len(Done)

\* Descriptors follow each other as PacketsFramed says, the last one too.
FramedOK == /\ \A j \in 2 .. Len(submitted) :
                 LET d == submitted[j]
                     e == submitted[j - 1]
                 IN  \/ d = [e EXCEPT !.i = @ + 1, !.contd = d.contd] /\ e.contd
                     \/ d.i = 1 /\ (e.contd => e.via = "sg")
            /\ submitted # << >> /\ submitted[Len(submitted)].contd
                 => submitted[Len(submitted)].via = "sg"

\* The shared header has the length of every packet no other has overtaken.
HeaderOK == \A j \in DOMAIN submitted :
               submitted[j].via = "tx" => \/ ipLen = submitted[j].len
                                          \/ Overtaken(submitted[j])

TxInvariant == TxTypeOK /\ QueueOK /\ CallOK /\ SubmittedOK /\ CompOK /\ FramedOK /\ HeaderOK

-----------------------------------------------------------------------------
(***************************************************************************)
(* Sequences, rings and descriptors                                        *)
(***************************************************************************)
\* What is left of a sequence is a sequence.
LEMMA RestType ==
  ASSUME NEW T, NEW s \in Seq(T), NEW t \in Seq(T), Len(t) <= Len(s)
  PROVE  /\ Rest(s, t) \in Seq(T) /\ Len(Rest(s, t)) = Len(s) - Len(t)
         /\ \A i \in 1 .. Len(s) - Len(t) : Rest(s, t)[i] = s[Len(t) + i]
<1>1. Len(s) \in Nat /\ Len(t) \in Nat /\ Len(s) - Len(t) \in Nat
  OBVIOUS
<1>2. \A i \in 1 .. Len(s) - Len(t) : Len(t) + i \in 1 .. Len(s)
  BY <1>1
<1>3. \A i \in 1 .. Len(s) - Len(t) : s[Len(t) + i] \in T
  BY <1>2
<1>4. Rest(s, t) \in [1 .. Len(s) - Len(t) -> T]
  BY <1>3 DEF Rest
<1> QED BY <1>1, <1>4 DEF Rest

\* Publishing adds to what is left.
LEMMA RestAppend ==
  ASSUME NEW T, NEW s \in Seq(T), NEW t \in Seq(T), NEW e \in Seq(T), Len(t) <= Len(s)
  PROVE  Rest(s \o e, t) = Rest(s, t) \o e
<1> DEFINE a == Rest(s \o e, t)
           b == Rest(s, t) \o e
<1>1. /\ s \o e \in Seq(T) /\ Len(s \o e) = Len(s) + Len(e) /\ Len(t) <= Len(s \o e)
      /\ Len(s) \in Nat /\ Len(t) \in Nat /\ Len(e) \in Nat
      /\ \A i \in 1 .. Len(s) : (s \o e)[i] = s[i]
      /\ \A i \in 1 .. Len(e) : (s \o e)[Len(s) + i] = e[i]
  OBVIOUS
<1>2. /\ a \in Seq(T) /\ Len(a) = Len(s) + Len(e) - Len(t)
      /\ \A i \in 1 .. Len(s) + Len(e) - Len(t) : a[i] = (s \o e)[Len(t) + i]
  <2> DEFINE u == s \o e
  <2>1. u \in Seq(T) /\ Len(t) <= Len(u) /\ Len(u) = Len(s) + Len(e)
    BY <1>1
  <2> HIDE DEF u
  <2>2. /\ Rest(u, t) \in Seq(T) /\ Len(Rest(u, t)) = Len(u) - Len(t)
        /\ \A i \in 1 .. Len(u) - Len(t) : Rest(u, t)[i] = u[Len(t) + i]
    BY <2>1, RestType
  <2> QED BY <2>1, <2>2 DEF u
<1>3. /\ Rest(s, t) \in Seq(T) /\ Len(Rest(s, t)) = Len(s) - Len(t)
      /\ \A i \in 1 .. Len(s) - Len(t) : Rest(s, t)[i] = s[Len(t) + i]
  BY RestType
<1>4. /\ b \in Seq(T) /\ Len(b) = Len(s) - Len(t) + Len(e)
      /\ \A i \in 1 .. Len(s) - Len(t) : b[i] = Rest(s, t)[i]
      /\ \A i \in 1 .. Len(e) : b[Len(s) - Len(t) + i] = e[i]
  <2> DEFINE u == Rest(s, t)
  <2>1. u \in Seq(T) /\ Len(u) = Len(s) - Len(t)
    BY <1>3
  <2> HIDE DEF u
  <2>2. /\ u \o e \in Seq(T) /\ Len(u \o e) = Len(u) + Len(e)
        /\ \A i \in 1 .. Len(u) : (u \o e)[i] = u[i]
        /\ \A i \in 1 .. Len(e) : (u \o e)[Len(u) + i] = e[i]
    <3>1. /\ u \o e \in Seq(T) /\ Len(u \o e) = Len(u) + Len(e)
          /\ \A i \in 1 .. Len(u) + Len(e) : (u \o e)[i] =
                     IF i <= Len(u) THEN u[i] ELSE e[i - Len(u)]
      BY <2>1, ConcatProperties
    <3>2. Len(u) \in Nat /\ Len(e) \in Nat
      BY <2>1
    <3> HIDE DEF b
    <3> QED BY <3>1, <3>2
  <2> QED BY <2>1, <2>2 DEF u
<1> HIDE DEF a, b
<1>5. ASSUME NEW i \in 1 .. Len(s) + Len(e) - Len(t) PROVE a[i] = b[i]
  <2>1. CASE i <= Len(s) - Len(t)
    <3>1. i \in 1 .. Len(s) - Len(t) /\ Len(t) + i \in 1 .. Len(s)
      BY <1>1, <2>1
    <3> QED BY <1>1, <1>2, <1>3, <1>4, <3>1
  <2>2. CASE ~(i <= Len(s) - Len(t))
    <3> DEFINE j == i - (Len(s) - Len(t))
    <3>1. j \in 1 .. Len(e) /\ i = Len(s) - Len(t) + j /\ Len(t) + i = Len(s) + j
      BY <1>1, <2>2
    <3> HIDE DEF j
    <3>2. a[i] = e[j]
      BY <1>1, <1>2, <3>1
    <3>3. b[i] = e[j]
      BY <1>4, <3>1
    <3> QED BY <3>2, <3>3
  <2> QED BY <2>1, <2>2
<1>6. Len(a) = Len(b) /\ Len(a) = Len(s) + Len(e) - Len(t)
  BY <1>1, <1>2, <1>4
<1>7. a = b
  BY <1>2, <1>4, <1>5, <1>6, SeqEqual
<1> QED BY <1>7 DEF a, b

\* Taking the next one removes the first of what is left.
LEMMA RestTake ==
  ASSUME NEW T, NEW s \in Seq(T), NEW t \in Seq(T), NEW x \in T, Len(t) < Len(s)
  PROVE  Rest(s, Append(t, x)) = SubSeq(Rest(s, t), 2, Len(Rest(s, t)))
<1> DEFINE a == Rest(s, Append(t, x))
           q == Rest(s, t)
           b == SubSeq(q, 2, Len(q))
<1>1. /\ Append(t, x) \in Seq(T) /\ Len(Append(t, x)) = Len(t) + 1
      /\ Len(s) \in Nat /\ Len(t) \in Nat
  OBVIOUS
<1>2. /\ a \in Seq(T) /\ Len(a) = Len(s) - (Len(t) + 1)
      /\ \A i \in 1 .. Len(s) - (Len(t) + 1) : a[i] = s[Len(t) + 1 + i]
  <2> DEFINE u == Append(t, x)
  <2>1. u \in Seq(T) /\ Len(u) <= Len(s) /\ Len(u) = Len(t) + 1
    BY <1>1
  <2> HIDE DEF u
  <2> HIDE DEF a, q, b
  <2>2. \A y \in Seq(T) : Len(y) <= Len(s) =>
           /\ Rest(s, y) \in Seq(T) /\ Len(Rest(s, y)) = Len(s) - Len(y)
           /\ \A i \in 1 .. Len(s) - Len(y) : Rest(s, y)[i] = s[Len(y) + i]
    BY RestType
  <2>3. /\ Rest(s, u) \in Seq(T) /\ Len(Rest(s, u)) = Len(s) - Len(u)
        /\ \A i \in 1 .. Len(s) - Len(u) : Rest(s, u)[i] = s[Len(u) + i]
    BY <2>1, <2>2
  <2>4. a = Rest(s, u)
    BY DEF a, u
  <2> QED BY <2>1, <2>3, <2>4
<1>3. /\ q \in Seq(T) /\ Len(q) = Len(s) - Len(t)
      /\ \A i \in 1 .. Len(s) - Len(t) : q[i] = s[Len(t) + i]
  BY <1>1, RestType
<1> HIDE DEF a, q
<1>4. /\ b \in Seq(T) /\ Len(b) = Len(q) - 1
      /\ \A i \in 1 .. Len(q) - 1 : b[i] = q[1 + i]
  BY <1>1, <1>3
<1> HIDE DEF b
<1>5. ASSUME NEW i \in 1 .. Len(s) - (Len(t) + 1) PROVE a[i] = b[i]
  <2>1. i \in 1 .. Len(q) - 1 /\ 1 + i \in 1 .. Len(s) - Len(t)
        /\ Len(t) + 1 + i = Len(t) + (1 + i)
    BY <1>1, <1>3
  <2> QED BY <1>2, <1>3, <1>4, <2>1
<1>6. Len(a) = Len(b) /\ Len(a) = Len(s) - (Len(t) + 1)
  BY <1>1, <1>2, <1>3, <1>4
<1>7. a = b
  BY <1>2, <1>4, <1>5, <1>6, SeqEqual
<1> QED BY <1>7 DEF a, b, q

\* The constants as numbers.
LEMMA TxConstants == Size \in Nat \ {0} /\ MaxSegs \in Nat /\ MaxSegs >= 1 /\ MaxSegs <= Size
BY SizeAssumption, MaxSegsAssumption

\* The descriptors of a call.
LEMMA OfferedType ==
  TxTypeOK => /\ Offered \in Seq(Descs) /\ Len(Offered) = txN
              /\ \A i \in 1 .. txN : Offered[i] = Desc(i) /\ Offered[i] \in Descs
<1> SUFFICES ASSUME TxTypeOK
             PROVE  /\ Offered \in Seq(Descs) /\ Len(Offered) = txN
                    /\ \A i \in 1 .. txN : Offered[i] = Desc(i) /\ Offered[i] \in Descs
  OBVIOUS
<1>1. /\ txN \in Nat /\ calls \in Nat /\ want \in Nat /\ built \in Nat /\ via \in Vias
  BY DEF TxTypeOK
<1>2. ASSUME NEW i \in 1 .. txN PROVE Desc(i) \in Descs
  <2>1. (IF via = "tx" THEN built ELSE want) \in Nat /\ (i < want) \in BOOLEAN /\ i \in Nat
    BY <1>1
  <2> QED BY <1>1, <2>1 DEF Desc, Descs
<1>3. Offered \in [1 .. txN -> Descs]
  BY <1>2 DEF Offered
<1> QED BY <1>1, <1>3 DEF Offered

\* What publishing them does to the history.
LEMMA OfferedSubmitted ==
  ASSUME TxTypeOK, submitted' = submitted \o Offered
  PROVE  /\ Len(submitted') = Len(submitted) + txN /\ Len(submitted) \in Nat /\ txN \in Nat
         /\ DOMAIN submitted = 1 .. Len(submitted)
         /\ DOMAIN submitted' = 1 .. Len(submitted) + txN
         /\ \A i \in 1 .. Len(submitted) : submitted'[i] = submitted[i]
         /\ \A i \in 1 .. txN : submitted'[Len(submitted) + i] = Desc(i)
<1>1. /\ submitted \in Seq(Descs) /\ Offered \in Seq(Descs) /\ Len(Offered) = txN /\ txN \in Nat
      /\ \A i \in 1 .. txN : Offered[i] = Desc(i)
  BY OfferedType DEF TxTypeOK
<1> DEFINE s == submitted \o Offered
<1>2. /\ s \in Seq(Descs) /\ Len(s) = Len(submitted) + txN
      /\ \A i \in 1 .. Len(submitted) + txN :
            s[i] = IF i <= Len(submitted) THEN submitted[i] ELSE Offered[i - Len(submitted)]
  BY <1>1, ConcatProperties
<1>3. Len(submitted) \in Nat /\ DOMAIN submitted = 1 .. Len(submitted) /\ DOMAIN s = 1 .. Len(s)
  BY <1>1, <1>2
<1>4. submitted' = s
  OBVIOUS
<1> HIDE DEF s
<1>5. \A i \in 1 .. Len(submitted) : s[i] = submitted[i]
  BY <1>1, <1>2, <1>3
<1>6. \A i \in 1 .. txN : s[Len(submitted) + i] = Desc(i)
  <2> TAKE i \in 1 .. txN
  <2>1. /\ Len(submitted) + i \in 1 .. Len(submitted) + txN
        /\ ~(Len(submitted) + i <= Len(submitted))
        /\ (Len(submitted) + i) - Len(submitted) = i
    BY <1>1, <1>3
  <2> QED BY <1>1, <1>2, <2>1
<1> QED BY <1>1, <1>2, <1>3, <1>4, <1>5, <1>6

\* The tx ring in numbers.
LEMMA QueueFacts ==
  ASSUME TxTypeOK, QueueOK
  PROVE  /\ Queue \in Seq(Descs) /\ Len(Queue) = Len(submitted) - Len(sent)
         /\ Len(Queue) \in Nat /\ Len(submitted) \in Nat /\ Len(sent) \in Nat
         /\ \A i \in 1 .. Len(Queue) : Queue[i] = submitted[Len(sent) + i]
         /\ Count(tx) = Len(Queue) /\ Len(Queue) <= Size
         /\ FreeEntries(tx) = Size - Len(Queue)
<1>1. submitted \in Seq(Descs) /\ sent \in Seq(Descs) /\ Len(sent) <= Len(submitted)
  BY DEF TxTypeOK, QueueOK
<1>2. /\ Queue \in Seq(Descs) /\ Len(Queue) = Len(submitted) - Len(sent)
      /\ \A i \in 1 .. Len(submitted) - Len(sent) : Queue[i] = submitted[Len(sent) + i]
  BY <1>1, RestType DEF Queue
<1>3. Count(tx) = Len(Queue) /\ Len(Queue) <= Size
  BY DEF QueueOK, Holds
<1> QED BY <1>1, <1>2, <1>3 DEF FreeEntries

\* What the kernel takes is the first of the queue.
LEMMA OldestIs ==
  ASSUME TxTypeOK, QueueOK, Count(tx) > 0
  PROVE  /\ Len(Queue) >= 1 /\ Len(sent) + 1 \in 1 .. Len(submitted)
         /\ OldestDesc = submitted[Len(sent) + 1] /\ OldestDesc \in Descs
<1>1. /\ Len(Queue) \in Nat /\ Len(sent) \in Nat /\ Len(submitted) \in Nat
      /\ Len(Queue) = Len(submitted) - Len(sent)
      /\ \A i \in 1 .. Len(Queue) : Queue[i] = submitted[Len(sent) + i]
      /\ Len(Queue) >= 1
  BY QueueFacts
<1>2. tx.slot[Slot(tx.cons + 1 - 1)] = Queue[1]
  BY <1>1 DEF QueueOK, Holds
<1>3. tx.cons \in Int
  <2>1. tx.cons \in 0 .. Wrap - 1 /\ Wrap \in Nat
    BY RingConstants DEF QueueOK, Holds, IsRing, Counters
  <2> QED BY <2>1
<1>4. tx.cons + 1 - 1 = tx.cons
  BY <1>3
<1>5. OldestDesc = submitted[Len(sent) + 1]
  BY <1>1, <1>2, <1>4 DEF OldestDesc
<1>6. Len(sent) + 1 \in 1 .. Len(submitted)
  BY <1>1
<1> QED BY <1>1, <1>5, <1>6 DEF TxTypeOK

-----------------------------------------------------------------------------
(***************************************************************************)
(* The steps                                                               *)
(***************************************************************************)
\* The rings and the queues start empty.
LEMMA TxInitInvariant == TxInit => TxInvariant
<1> SUFFICES ASSUME TxInit PROVE TxInvariant
  OBVIOUS
<1> USE DEF TxInit
<1>0. MaxSegs \in Nat /\ MaxSegs >= 1 /\ Size \in Nat
  BY TxConstants
<1>1. TxTypeOK
  <2>1. IsFiniteSet(held)
    BY FS_EmptySet
  <2> QED BY <1>0, <2>1 DEF TxTypeOK, TxLabels, Vias
<1>2. Queue = << >> /\ Queue \in Seq(Descs)
  BY DEF Queue, Rest
<1>3. Holds(tx, << >>) /\ Holds(comp, << >>)
  BY EmptyHolds
<1>4. QueueOK
  BY <1>2, <1>3 DEF QueueOK
<1>5. Done = << >>
  <2>1. << >> \in Seq(Descs)
    OBVIOUS
  <2> QED BY <1>3, <2>1, AllEntries DEF Done
<1>6. CompOK
  <2>1. Cardinality(held) = 0
    BY FS_EmptySet
  <2> QED BY <1>0, <1>3, <1>5, <2>1 DEF CompOK, Elems
<1>7. CallOK /\ SubmittedOK /\ FramedOK /\ HeaderOK
  BY DEF CallOK, SubmittedOK, FramedOK, HeaderOK, InSend
<1> QED BY <1>1, <1>4, <1>6, <1>7 DEF TxInvariant

\* What xdp_complete_tx copies out.
LEMMA ReapedEntries ==
  ASSUME CompOK, txPc = "comp_publish"
  PROVE  /\ txN \in 1 .. Len(Done) /\ Len(Done) \in Nat
         /\ Elems(Entries(comp, comp.cons, txN)) = {Done[i] : i \in 1 .. txN}
<1>1. txN \in 1 .. Len(Done) /\ Done \in Seq(Descs) /\ Holds(comp, Done)
  BY DEF CompOK
<1>2. txN \in 0 .. Len(Done) /\ txN \in Nat /\ Len(Done) \in Nat
  BY <1>1
<1>3. Entries(comp, comp.cons, txN) = [i \in 1 .. txN |-> Done[i]]
  BY <1>1, <1>2, EntriesHeld
<1> QED BY <1>1, <1>2, <1>3 DEF Elems

\* Every step keeps the types.
LEMMA NextType ==
  ASSUME TxInvariant, TxNext
  PROVE  TxTypeOK'
<1>t. TxTypeOK /\ QueueOK /\ CompOK
  BY DEF TxInvariant
<1>c. Size \in Nat /\ MaxSegs \in Nat /\ MaxSegs >= 1
  BY TxConstants
<1>1. CASE Prepare
  BY <1>1, <1>t, <1>c DEF Prepare, TxTypeOK, caller, history
<1>2. CASE PushSeg
  BY <1>2, <1>t, <1>c DEF PushSeg, TxTypeOK, caller, history
<1>3. CASE Send
  BY <1>3, <1>t, <1>c DEF Send, TxTypeOK, TxLabels, Vias, history
<1>4. CASE TxCheck
  <2>1. txN' \in Nat
    BY <1>4, <1>t DEF TxCheck, TxTypeOK
  <2> QED BY <1>4, <1>t, <2>1 DEF TxCheck, TxTypeOK, TxLabels, packet, history
<1>5. CASE TxStore
  BY <1>5, <1>t DEF TxStore, TxTypeOK, TxLabels, packet, history
<1>6. CASE TxPublish
  <2>1. submitted' \in Seq(Descs)
    <3>1. submitted' = submitted \o Offered
      BY <1>6 DEF TxPublish, Offered
    <3> QED BY <1>t, <3>1, OfferedType DEF TxTypeOK
  <2> QED BY <1>6, <1>t, <2>1 DEF TxPublish, TxTypeOK, TxLabels, packet
<1>7. CASE CompletePublish
  <2>1. reaped' \subseteq Descs
    <3>1. /\ txN \in 1 .. Len(Done) /\ Len(Done) \in Nat /\ Done \in Seq(Descs)
          /\ Elems(Entries(comp, comp.cons, txN)) = {Done[i] : i \in 1 .. txN}
      BY <1>7, <1>t, ReapedEntries DEF CompletePublish, CompOK
    <3>2. \A i \in 1 .. txN : Done[i] \in Descs
      BY <3>1
    <3> QED BY <1>7, <1>t, <3>1, <3>2 DEF CompletePublish, TxTypeOK
  <2> QED BY <1>7, <1>t, <2>1 DEF CompletePublish, TxTypeOK, TxLabels, packet
<1>8. ASSUME NEW k \in 1 .. MaxSegs, SgBegin(k) PROVE TxTypeOK'
  <2>1. k \in Nat
    BY <1>c
  <2>2. txN' \in Nat
    BY <1>8, <1>t, <1>c, <2>1, QueueFacts DEF SgBegin, Smaller
  <2> QED BY <1>8, <1>t, <2>1, <2>2 DEF SgBegin, TxTypeOK, TxLabels, Vias, packet, history
<1>9. ASSUME NEW m \in 0 .. Size, CompleteBegin(m) PROVE TxTypeOK'
  <2>1. m \in Nat /\ Count(comp) \in Nat
    <3>1. Count(comp) = Len(Done) /\ Done \in Seq(Descs)
      BY <1>t DEF CompOK, Holds
    <3> QED BY <1>c, <3>1
  <2>2. txN' \in Nat /\ max' \in Nat
    BY <1>9, <2>1 DEF CompleteBegin, Smaller
  <2> QED BY <1>9, <1>t, <2>2 DEF CompleteBegin, TxTypeOK, TxLabels, packet, history
<1>10. CASE KernelSend
  <2>1. OldestDesc \in Descs
    BY <1>10, <1>t, OldestIs DEF KernelSend
  <2>2. IsFiniteSet(held')
    BY <1>10, <1>t, FS_AddElement DEF KernelSend, TxTypeOK
  <2>3. sent' \in Seq(Descs) /\ held' \subseteq Descs
    BY <1>10, <1>t, <2>1 DEF KernelSend, TxTypeOK
  <2> QED BY <1>10, <1>t, <2>2, <2>3 DEF KernelSend, TxTypeOK, packet, caller, history
<1>11. ASSUME NEW d \in held, KernelComplete(d) PROVE TxTypeOK'
  <2>1. IsFiniteSet(held') /\ held' \subseteq Descs
    <3>1. held' \subseteq held
      BY <1>11 DEF KernelComplete
    <3> QED BY <1>t, <3>1, FS_Subset DEF TxTypeOK
  <2> QED BY <1>11, <1>t, <2>1 DEF KernelComplete, TxTypeOK, packet, caller, history
<1> QED BY <1>1, <1>2, <1>3, <1>4, <1>5, <1>6, <1>7, <1>8, <1>9, <1>10, <1>11
        DEF TxNext, CallStep, Kernel

\* The tx ring keeps holding what is published, and a call its room: the
\* kernel can only make more of it.
LEMMA NextQueue ==
  ASSUME TxInvariant, TxNext
  PROVE  QueueOK' /\ CallOK'
<1>t. TxTypeOK /\ QueueOK /\ CallOK
  BY DEF TxInvariant
<1>q. /\ Queue \in Seq(Descs) /\ Len(Queue) = Len(submitted) - Len(sent)
      /\ Len(Queue) \in Nat /\ Len(submitted) \in Nat /\ Len(sent) \in Nat
      /\ \A i \in 1 .. Len(Queue) : Queue[i] = submitted[Len(sent) + i]
      /\ Count(tx) = Len(Queue) /\ Len(Queue) <= Size
      /\ FreeEntries(tx) = Size - Len(Queue)
      /\ Size \in Nat
      /\ submitted \in Seq(Descs) /\ sent \in Seq(Descs)
  BY <1>t, QueueFacts, TxConstants DEF TxTypeOK
<1>o. Holds(tx, Queue) /\ Len(sent) <= Len(submitted)
  BY <1>t DEF QueueOK
<1>u. UNCHANGED <<tx, submitted, sent>> => QueueOK' /\ Queue' = Queue
  BY <1>t DEF QueueOK, Queue
<1>1. CASE Prepare \/ PushSeg
  BY <1>1, <1>t, <1>u DEF Prepare, PushSeg, caller, history, CallOK, InSend
<1>2. CASE Send
  BY <1>2, <1>t, <1>u DEF Send, history, CallOK, InSend
<1>3. CASE TxCheck
  <2>1. /\ txPc = "tx_check" /\ UNCHANGED <<tx, submitted, sent, via, ipLen, built, want>>
        /\ txN' = IF want = 0 \/ want > MaxSegs \/ want > FreeEntries(tx) THEN 0 ELSE want
        /\ txPc' = IF txN' = 0 THEN "tx_check" ELSE "store"
    BY <1>3 DEF TxCheck, packet, history
  <2>2. via = "tx" /\ ipLen = built /\ want \in Nat
    BY <1>t, <2>1 DEF CallOK, InSend, TxTypeOK
  <2>3. txN' # 0 => txN' = want /\ txN' \in 1 .. want /\ Len(Queue) + txN' <= Size
    BY <1>q, <2>1, <2>2
  <2> QED BY <1>u, <2>1, <2>2, <2>3 DEF CallOK, InSend
<1>4. ASSUME NEW k \in 1 .. MaxSegs, SgBegin(k) PROVE QueueOK' /\ CallOK'
  <2>1. /\ UNCHANGED <<tx, submitted, sent>> /\ want' = k /\ via' = "sg"
        /\ txN' = Smaller(k, FreeEntries(tx))
        /\ txPc' = IF txN' = 0 THEN "idle" ELSE "store"
    BY <1>4 DEF SgBegin, history
  <2>2. k \in Nat
    BY TxConstants
  <2>3. txN' # 0 => txN' \in 1 .. k /\ Len(Queue) + txN' <= Size
    BY <1>q, <2>1, <2>2 DEF Smaller
  <2> QED BY <1>u, <2>1, <2>3 DEF CallOK, InSend
<1>5. CASE TxStore
  <2>1. /\ txPc = "store" /\ txPc' = "publish" /\ tx' = Store(tx, Offered)
        /\ UNCHANGED <<submitted, sent, via, txN, want, ipLen, built, calls>>
    BY <1>5 DEF TxStore, packet, history, Offered
  <2>2. /\ txN \in 1 .. want /\ Len(Queue) + txN <= Size /\ (via = "tx" => txN = want)
        /\ (via = "tx" => ipLen = built)
    BY <1>t, <2>1 DEF CallOK, InSend
  <2>3. Offered \in Seq(Descs) /\ Len(Offered) = txN
    BY <1>t, OfferedType
  <2>4. Holds(tx', Queue) /\ Stored(tx', Offered)
    BY <1>q, <1>o, <2>1, <2>2, <2>3, StoreHolds
  <2>5. Queue' = Queue /\ Offered' = Offered
    BY <2>1 DEF Queue, Offered, Desc
  <2>6. QueueOK'
    BY <1>t, <2>1, <2>4, <2>5 DEF QueueOK, Holds, IsRing, Count
  <2> QED BY <2>1, <2>2, <2>4, <2>5, <2>6 DEF CallOK, InSend, Stored
<1>6. CASE TxPublish
  <2>1. /\ txPc = "publish" /\ txPc' = "idle" /\ tx' = Produce(tx, txN)
        /\ submitted' = submitted \o Offered /\ UNCHANGED sent
    BY <1>6 DEF TxPublish, Offered
  <2>2. Len(Queue) + txN <= Size /\ Stored(tx, Offered)
    BY <1>t, <2>1 DEF CallOK
  <2>3. Offered \in Seq(Descs) /\ Len(Offered) = txN /\ txN \in Nat
    BY <1>t, OfferedType DEF TxTypeOK
  <2>4. Holds(tx', Queue \o Offered)
    BY <1>q, <1>o, <2>1, <2>2, <2>3, ProduceHolds
  <2>5. Queue' = Queue \o Offered
    <3>1. Rest(submitted \o Offered, sent) = Rest(submitted, sent) \o Offered
      <4>1. submitted \in Seq(Descs) /\ sent \in Seq(Descs) /\ Len(sent) <= Len(submitted)
        BY <1>t, <1>o DEF TxTypeOK
      <4> HIDE DEF Offered
      <4> QED BY <2>3, <4>1, RestAppend
    <3> QED BY <2>1, <3>1 DEF Queue
  <2>6. /\ Len(submitted') = Len(submitted) + txN
        /\ \A i \in 1 .. Len(submitted) : submitted'[i] = submitted[i]
    BY <1>t, OfferedSubmitted, <2>1
  <2>7. QueueOK'
    BY <1>q, <1>t, <2>1, <2>3, <2>4, <2>5, <2>6 DEF QueueOK
  <2> QED BY <2>1, <2>7 DEF CallOK, InSend
<1>7. ASSUME NEW m \in 0 .. Size, CompleteBegin(m) PROVE QueueOK' /\ CallOK'
  <2>1. /\ UNCHANGED <<tx, submitted, sent>> /\ txPc' \in {"idle", "comp_publish"}
    BY <1>7 DEF CompleteBegin, history
  <2> QED BY <1>u, <2>1 DEF CallOK, InSend
<1>8. CASE CompletePublish
  BY <1>8, <1>u DEF CompletePublish, CallOK, InSend
<1>9. CASE KernelSend
  <2>1. /\ Count(tx) > 0 /\ tx' = Consume(tx, 1) /\ sent' = Append(sent, OldestDesc)
        /\ UNCHANGED <<submitted, txPc, via, txN, want, ipLen, built, calls>>
    BY <1>9 DEF KernelSend, packet, caller, history
  <2>2. /\ Len(Queue) >= 1 /\ Len(sent) + 1 \in 1 .. Len(submitted)
        /\ OldestDesc = submitted[Len(sent) + 1] /\ OldestDesc \in Descs
    BY <1>t, <2>1, OldestIs
  <2>3. 1 \in 0 .. Len(Queue)
    BY <1>q, <2>2
  <2>4. /\ Holds(tx', SubSeq(Queue, 2, Len(Queue)))
        /\ tx'.prod = tx.prod /\ tx'.slot = tx.slot
    BY <1>q, <1>o, <2>1, <2>3, ConsumeHolds
  <2>5. Queue' = SubSeq(Queue, 2, Len(Queue))
    <3>1. Len(sent) < Len(submitted)
      BY <1>q, <2>2
    <3> QED BY <1>q, <2>1, <2>2, <3>1, RestTake DEF Queue
  <2>6. Len(Queue') = Len(Queue) - 1
    BY <1>q, <2>2, <2>5
  <2>7. /\ Len(sent') = Len(sent) + 1 /\ Len(sent') <= Len(submitted)
        /\ \A i \in 1 .. Len(sent') : sent'[i] = submitted[i]
    <3>1. /\ Len(sent') = Len(sent) + 1 /\ sent'[Len(sent) + 1] = OldestDesc
          /\ \A i \in 1 .. Len(sent) : sent'[i] = sent[i]
      BY <1>q, <2>1, <2>2
    <3>2. \A i \in 1 .. Len(sent) : sent[i] = submitted[i]
      BY <1>t DEF QueueOK
    <3>3. Len(sent) \in Nat /\ Len(submitted) \in Nat
      BY <1>q
    <3>4. \A i \in 1 .. Len(sent) + 1 : i \in 1 .. Len(sent) \/ i = Len(sent) + 1
      BY <3>3
    <3> QED BY <2>2, <3>1, <3>2, <3>3, <3>4
  <2>8. QueueOK'
    BY <2>1, <2>4, <2>5, <2>7 DEF QueueOK
  <2>9. Offered' = Offered /\ (Stored(tx, Offered) => Stored(tx', Offered))
    BY <2>1, <2>4 DEF Offered, Desc, Stored
  <2>10. txPc \in {"store", "publish"} => Len(Queue') + txN <= Size
    BY <1>q, <1>t, <2>6 DEF CallOK, TxTypeOK
  <2> QED BY <1>t, <2>1, <2>8, <2>9, <2>10 DEF CallOK, InSend, Stored
<1>10. ASSUME NEW d \in held, KernelComplete(d) PROVE QueueOK' /\ CallOK'
  <2>1. UNCHANGED <<tx, submitted, sent, txPc, via, txN, want, ipLen, built, calls>>
    BY <1>10 DEF KernelComplete, packet, caller, history
  <2>2. Offered' = Offered
    BY <2>1 DEF Offered, Desc
  <2> QED BY <1>t, <1>u, <2>1, <2>2 DEF CallOK, InSend, Stored
<1> QED BY <1>1, <1>2, <1>3, <1>4, <1>5, <1>6, <1>7, <1>8, <1>9, <1>10
        DEF TxNext, CallStep, Kernel

\* Steps other than the publishing one leave the history of descriptors alone.
LEMMA SubmittedKept ==
  ASSUME TxNext, ~TxPublish
  PROVE  UNCHANGED submitted
BY DEF TxNext, CallStep, Kernel, Prepare, PushSeg, Send, TxCheck, TxStore, CompletePublish,
       SgBegin, CompleteBegin, KernelSend, KernelComplete, history

\* Descriptors stay different: each call has its own number.
LEMMA NextSubmitted ==
  ASSUME TxInvariant, TxNext
  PROVE  SubmittedOK'
<1>t. /\ TxTypeOK /\ SubmittedOK /\ calls \in Nat
      /\ \A i \in DOMAIN submitted : submitted[i].call \in Nat
  <2>1. submitted \in Seq(Descs) /\ calls \in Nat /\ TxTypeOK /\ SubmittedOK
    BY DEF TxInvariant, TxTypeOK
  <2>2. \A i \in DOMAIN submitted : submitted[i] \in Descs
    BY <2>1
  <2> QED BY <2>1, <2>2 DEF Descs
<1>1. CASE TxPublish
  <2>1. /\ txPc = "publish" /\ txPc' = "idle" /\ UNCHANGED calls
        /\ submitted' = submitted \o Offered
    BY <1>1 DEF TxPublish, Offered
  <2> DEFINE l == Len(submitted)
  <2>2. /\ l \in Nat /\ txN \in Nat
        /\ DOMAIN submitted = 1 .. l /\ DOMAIN submitted' = 1 .. l + txN
        /\ \A i \in 1 .. l : submitted'[i] = submitted[i]
        /\ \A i \in 1 .. txN : submitted'[l + i] = Desc(i)
    BY <1>t, <2>1, OfferedSubmitted
  <2> HIDE DEF l
  <2>3. \A i \in 1 .. l + txN : i \in 1 .. l \/ \E a \in 1 .. txN : i = l + a
    <3> TAKE i \in 1 .. l + txN
    <3>1. CASE i <= l
      BY <2>2, <3>1
    <3>2. CASE ~(i <= l)
      <4>1. i - l \in 1 .. txN /\ i = l + (i - l)
        BY <2>2, <3>2
      <4> QED BY <4>1
    <3> QED BY <3>1, <3>2
  <2>4. \A i \in 1 .. l : submitted[i].call < calls
    BY <1>t, <2>1, <2>2 DEF SubmittedOK, InSend
  <2>5. \A a \in 1 .. txN : Desc(a).call = calls /\ Desc(a).i = a
    BY DEF Desc
  <2>6. \A i \in 1 .. l + txN : submitted'[i].call <= calls
    <3> TAKE i \in 1 .. l + txN
    <3>1. CASE i \in 1 .. l
      <4>1. submitted'[i].call = submitted[i].call /\ submitted[i].call \in Nat
        BY <1>t, <2>2, <3>1
      <4> QED BY <1>t, <2>4, <3>1, <4>1
    <3>2. ASSUME NEW a \in 1 .. txN, i = l + a PROVE submitted'[i].call <= calls
      <4>1. submitted'[i].call = calls
        BY <2>2, <2>5, <3>2
      <4> QED BY <1>t, <4>1
    <3> QED BY <2>3, <3>1, <3>2
  <2>7. ASSUME NEW i \in 1 .. l + txN, NEW j \in 1 .. l + txN, submitted'[i] = submitted'[j]
        PROVE  i = j
    <3>1. CASE i \in 1 .. l /\ j \in 1 .. l
      BY <1>t, <2>2, <2>7, <3>1 DEF SubmittedOK
    <3>2. ASSUME NEW a \in 1 .. txN, NEW b \in 1 .. txN, i = l + a, j = l + b PROVE i = j
      <4>1. Desc(a) = Desc(b)
        BY <2>2, <2>7, <3>2
      <4> QED BY <2>5, <3>2, <4>1
    <3>3. ASSUME NEW a \in 1 .. txN, i \in 1 .. l, j = l + a PROVE FALSE
      <4>1. submitted[i] = Desc(a)
        BY <2>2, <2>7, <3>3
      <4>2. submitted[i].call = calls /\ submitted[i].call < calls /\ submitted[i].call \in Nat
        BY <1>t, <2>2, <2>4, <2>5, <3>3, <4>1
      <4> QED BY <1>t, <4>2
    <3>4. ASSUME NEW a \in 1 .. txN, j \in 1 .. l, i = l + a PROVE FALSE
      <4>1. submitted[j] = Desc(a)
        BY <2>2, <2>7, <3>4
      <4>2. submitted[j].call = calls /\ submitted[j].call < calls /\ submitted[j].call \in Nat
        BY <1>t, <2>2, <2>4, <2>5, <3>4, <4>1
      <4> QED BY <1>t, <4>2
    <3> QED BY <2>3, <3>1, <3>2, <3>3, <3>4
  <2> QED BY <2>1, <2>2, <2>6, <2>7 DEF SubmittedOK, InSend
<1>2. CASE ~TxPublish
  <2>1. UNCHANGED submitted
    BY <1>2, SubmittedKept
  <2>2. calls' = calls + 1 \/ (UNCHANGED calls /\ (InSend' => InSend))
    BY <1>2 DEF TxNext, CallStep, Kernel, Prepare, PushSeg, Send, TxCheck, TxStore,
         CompletePublish, SgBegin, CompleteBegin, KernelSend, KernelComplete, caller, InSend
  <2> QED BY <1>t, <2>1, <2>2 DEF SubmittedOK
<1> QED BY <1>1, <1>2

\* The packets of one call follow each other; a packet of eth_send_sctp goes
\* out whole.
LEMMA NextFramed ==
  ASSUME TxInvariant, TxNext
  PROVE  FramedOK'
<1>t. TxTypeOK /\ FramedOK /\ CallOK
  BY DEF TxInvariant
<1>1. CASE TxPublish
  <2>1. /\ txPc = "publish" /\ submitted' = submitted \o Offered
    BY <1>1 DEF TxPublish, Offered
  <2> DEFINE l == Len(submitted)
  <2>2. /\ l \in Nat /\ txN \in Nat /\ Len(submitted') = l + txN
        /\ \A i \in 1 .. l : submitted'[i] = submitted[i]
        /\ \A i \in 1 .. txN : submitted'[l + i] = Desc(i)
        /\ (submitted = << >> <=> l = 0)
    BY <1>t, <2>1, OfferedSubmitted DEF TxTypeOK
  <2>3. /\ txN \in 1 .. want /\ want \in Nat /\ (via = "tx" => txN = want) /\ via \in Vias
    BY <1>t, <2>1 DEF CallOK, TxTypeOK
  <2>4. \A j \in 2 .. l : LET d == submitted[j]
                             e == submitted[j - 1]
                         IN  \/ d = [e EXCEPT !.i = @ + 1, !.contd = d.contd] /\ e.contd
                             \/ d.i = 1 /\ (e.contd => e.via = "sg")
    BY <1>t DEF FramedOK
  <2>5. l # 0 /\ submitted[l].contd => submitted[l].via = "sg"
    BY <1>t, <2>2 DEF FramedOK
  <2> HIDE DEF l
  <2>6. ASSUME NEW j \in 2 .. l + txN
        PROVE  LET d == submitted'[j]
                   e == submitted'[j - 1]
               IN  \/ d = [e EXCEPT !.i = @ + 1, !.contd = d.contd] /\ e.contd
                   \/ d.i = 1 /\ (e.contd => e.via = "sg")
    <3>1. CASE j <= l
      <4>1. j \in 2 .. l /\ j \in 1 .. l /\ j - 1 \in 1 .. l
        BY <2>2, <3>1
      <4>2. submitted'[j] = submitted[j] /\ submitted'[j - 1] = submitted[j - 1]
        BY <2>2, <4>1
      <4> QED BY <2>4, <4>1, <4>2
    <3>2. CASE j = l + 1
      <4>1. j - 1 = l /\ l \in 1 .. l /\ 1 \in 1 .. txN /\ l # 0
        BY <2>2, <2>3, <3>2
      <4>2. submitted'[j] = Desc(1) /\ submitted'[j - 1] = submitted[l]
        BY <2>2, <3>2, <4>1
      <4>3. Desc(1).i = 1
        BY DEF Desc
      <4> QED BY <2>5, <4>1, <4>2, <4>3
    <3>3. CASE j > l + 1
      <4> DEFINE a == j - l
      <4>1. a \in 1 .. txN /\ a - 1 \in 1 .. txN /\ j = l + a /\ j - 1 = l + (a - 1) /\ a - 1 < want
        BY <2>2, <2>3, <3>3
      <4> HIDE DEF a
      <4>2. submitted'[j] = Desc(a) /\ submitted'[j - 1] = Desc(a - 1)
        BY <2>2, <4>1
      <4>3. Desc(a) = [Desc(a - 1) EXCEPT !.i = @ + 1, !.contd = Desc(a).contd]
        <5>1. (a - 1) + 1 = a
          BY <2>2, <4>1
        <5> DEFINE d == Desc(a)
                   e == Desc(a - 1)
                   f == [e EXCEPT !.i = @ + 1, !.contd = d.contd]
        <5>2. /\ DOMAIN d = {"call", "i", "contd", "via", "len"}
              /\ d = [x \in {"call", "i", "contd", "via", "len"} |-> d[x]]
          BY DEF Desc
        <5>3. /\ DOMAIN e = {"call", "i", "contd", "via", "len"}
              /\ e.i = a - 1
              /\ d.call = e.call /\ d.via = e.via /\ d.len = e.len /\ d.i = a
          BY DEF Desc
        <5> HIDE DEF d, e
        <5>4. /\ f = [x \in {"call", "i", "contd", "via", "len"} |-> f[x]]
              /\ f.call = e.call /\ f.via = e.via /\ f.len = e.len
              /\ f.i = e.i + 1 /\ f.contd = d.contd
          BY <5>3
        <5> HIDE DEF f
        <5>5. d = f
          BY <5>1, <5>2, <5>3, <5>4
        <5> QED BY <5>5 DEF d, e, f
      <4>4. Desc(a - 1).contd
        BY <4>1 DEF Desc
      <4> QED BY <4>2, <4>3, <4>4
    <3> QED BY <2>2, <3>1, <3>2, <3>3
  <2>7. submitted'[l + txN] = Desc(txN) /\ (Desc(txN).contd => Desc(txN).via = "sg")
    <3>1. txN \in 1 .. txN
      BY <2>3
    <3>2. /\ Desc(txN).contd = (txN < want) /\ Desc(txN).via = via
      BY DEF Desc
    <3>3. submitted'[l + txN] = Desc(txN)
      BY <2>2, <3>1
    <3>4. txN < want => via = "sg"
      BY <2>3 DEF Vias
    <3> QED BY <3>2, <3>3, <3>4
  <2> QED BY <2>2, <2>6, <2>7 DEF FramedOK
<1>2. CASE ~TxPublish
  BY <1>2, <1>t, SubmittedKept DEF FramedOK
<1> QED BY <1>1, <1>2

\* The length in the shared header is changed by the call that overtakes.
LEMMA NextHeader ==
  ASSUME TxInvariant, TxNext
  PROVE  HeaderOK'
<1>t. TxTypeOK /\ HeaderOK /\ CallOK /\ SubmittedOK
  BY DEF TxInvariant
<1> DEFINE Later(d) == \E j \in DOMAIN submitted : /\ submitted[j].call > d.call
                                                   /\ submitted[j].via = "tx"
                                                   /\ submitted[j].len # d.len
           Busy(d) == InSend /\ via = "tx" /\ built # d.len
<1>o. \A d : Overtaken(d) <=> Later(d) \/ Busy(d)
  BY DEF Overtaken, InSend
<1>p. \A d : Overtaken(d)' <=> Later(d)' \/ Busy(d)'
  BY DEF Overtaken, InSend
<1>1. CASE TxPublish
  <2>1. /\ txPc = "publish" /\ txPc' = "idle" /\ submitted' = submitted \o Offered
        /\ UNCHANGED ipLen
    BY <1>1 DEF TxPublish, Offered, packet
  <2> DEFINE l == Len(submitted)
  <2>2. /\ l \in Nat /\ txN \in Nat
        /\ DOMAIN submitted = 1 .. l /\ DOMAIN submitted' = 1 .. l + txN
        /\ \A i \in 1 .. l : submitted'[i] = submitted[i]
        /\ \A i \in 1 .. txN : submitted'[l + i] = Desc(i)
    BY <1>t, <2>1, OfferedSubmitted
  <2> HIDE DEF l
  <2>3. txN \in 1 .. want /\ want \in Nat /\ (via = "tx" => ipLen = built)
    BY <1>t, <2>1 DEF CallOK, InSend, TxTypeOK
  <2>4. \A a \in 1 .. txN : /\ Desc(a).call = calls /\ Desc(a).via = via
                            /\ via = "tx" => Desc(a).len = built
    BY DEF Desc
  <2>5. ASSUME NEW j \in 1 .. l, submitted[j].via = "tx", ipLen # submitted[j].len
        PROVE  Later(submitted[j])'
    <3>1. Later(submitted[j]) \/ Busy(submitted[j])
      BY <1>t, <1>o, <2>2, <2>5 DEF HeaderOK
    <3>2. CASE Later(submitted[j])
      <4>1. PICK k \in 1 .. l : /\ submitted[k].call > submitted[j].call
                                /\ submitted[k].via = "tx"
                                /\ submitted[k].len # submitted[j].len
        BY <2>2, <3>2
      <4>2. k \in 1 .. l + txN
        BY <2>2
      <4> QED BY <2>2, <4>1, <4>2
    <3>3. CASE Busy(submitted[j])
      <4>1. submitted[j].call < calls
        BY <1>t, <2>2, <3>3 DEF SubmittedOK
      <4>2. /\ l + 1 \in 1 .. l + txN /\ 1 \in 1 .. txN
        BY <2>2, <2>3
      <4>3. /\ submitted'[l + 1] = Desc(1) /\ Desc(1).via = "tx" /\ Desc(1).call = calls
            /\ Desc(1).len # submitted[j].len
        BY <2>2, <2>4, <3>3, <4>2
      <4>4. calls > submitted[j].call
        <5>1. submitted[j] \in Descs
          BY <1>t, <2>2 DEF TxTypeOK
        <5> QED BY <1>t, <4>1, <5>1 DEF Descs, TxTypeOK
      <4> QED BY <2>2, <4>2, <4>3, <4>4
    <3> QED BY <3>1, <3>2, <3>3
  <2>6. \A a \in 1 .. txN : Desc(a).via = "tx" => ipLen = Desc(a).len
    BY <2>3, <2>4
  <2>7. \A i \in 1 .. l + txN : i \in 1 .. l \/ \E a \in 1 .. txN : i = l + a
    <3> TAKE i \in 1 .. l + txN
    <3>1. CASE i <= l
      BY <2>2, <3>1
    <3>2. CASE ~(i <= l)
      <4>1. i - l \in 1 .. txN /\ i = l + (i - l)
        BY <2>2, <3>2
      <4> QED BY <4>1
    <3> QED BY <3>1, <3>2
  <2>8. ASSUME NEW j \in 1 .. l + txN, submitted'[j].via = "tx"
        PROVE  ipLen' = submitted'[j].len \/ Overtaken(submitted[j])'
    <3>1. CASE j \in 1 .. l
      BY <1>p, <2>1, <2>2, <2>5, <2>8, <3>1
    <3>2. ASSUME NEW a \in 1 .. txN, j = l + a
          PROVE  ipLen' = submitted'[j].len
      BY <2>1, <2>2, <2>6, <2>8, <3>2
    <3> QED BY <2>7, <3>1, <3>2
  <2> QED BY <2>2, <2>8 DEF HeaderOK
<1>2. CASE Send
  <2>1. /\ ipLen' = built /\ InSend' /\ via' = "tx" /\ built' = built /\ UNCHANGED submitted
    BY <1>2 DEF Send, InSend, history
  <2>2. \A d : ipLen' = d.len \/ Overtaken(d)'
    BY <1>p, <2>1
  <2> QED BY <2>1, <2>2 DEF HeaderOK
<1>3. CASE ~TxPublish /\ ~Send
  <2>1. UNCHANGED <<submitted, ipLen>>
    BY <1>3, SubmittedKept
       DEF TxNext, CallStep, Kernel, Prepare, PushSeg, TxCheck, TxStore, CompletePublish,
           SgBegin, CompleteBegin, KernelSend, KernelComplete, packet
  <2>2. InSend => InSend' /\ UNCHANGED <<via, built>>
    BY <1>3 DEF TxNext, CallStep, Kernel, Prepare, PushSeg, TxCheck, TxStore, CompletePublish,
           SgBegin, CompleteBegin, KernelSend, KernelComplete, packet, caller, InSend
  <2>3. \A d : Overtaken(d) => Overtaken(d)'
    BY <1>o, <1>p, <2>1, <2>2
  <2> QED BY <1>t, <2>1, <2>3 DEF HeaderOK
<1> QED BY <1>1, <1>2, <1>3

\* What the kernel took stays accounted for: with the kernel, completed or
\* reaped.
LEMMA NextComp ==
  ASSUME TxInvariant, TxNext
  PROVE  CompOK'
<1>t. TxTypeOK /\ QueueOK /\ SubmittedOK /\ CompOK
  BY DEF TxInvariant
<1>c. /\ Done \in Seq(Descs) /\ Holds(comp, Done) /\ Len(Done) \in Nat
      /\ DOMAIN Done = 1 .. Len(Done) /\ Count(comp) = Len(Done)
      /\ \A i, j \in 1 .. Len(Done) : Done[i] = Done[j] => i = j
      /\ Elems(Done) = {Done[i] : i \in 1 .. Len(Done)}
      /\ Elems(Done) \intersect held = {} /\ Elems(Done) \intersect reaped = {}
      /\ held \intersect reaped = {}
      /\ Elems(Done) \union held \union reaped = Elems(sent)
      /\ Len(Done) + Cardinality(held) <= Size
      /\ IsFiniteSet(held) /\ Cardinality(held) \in Nat /\ Size \in Nat
  <2>1. Done \in Seq(Descs) /\ Holds(comp, Done) /\ IsFiniteSet(held)
    BY <1>t DEF CompOK, TxTypeOK
  <2>2. Len(Done) \in Nat /\ DOMAIN Done = 1 .. Len(Done) /\ Count(comp) = Len(Done)
    BY <2>1 DEF Holds
  <2>3. Cardinality(held) \in Nat
    BY <2>1, FS_CardinalityType
  <2> QED BY <1>t, <2>1, <2>2, <2>3, TxConstants DEF CompOK, Elems
<1>u. UNCHANGED <<comp, held, reaped, sent>> /\ (txPc' = "comp_publish" => txN' \in 1 .. Len(Done))
      => CompOK'
  <2> SUFFICES ASSUME UNCHANGED <<comp, held, reaped, sent>>,
                      txPc' = "comp_publish" => txN' \in 1 .. Len(Done)
               PROVE  CompOK'
    OBVIOUS
  <2>1. Done' = Done
    BY DEF Done
  <2> QED BY <1>t, <2>1 DEF CompOK
<1>1. CASE Prepare \/ PushSeg \/ Send \/ TxCheck \/ TxStore \/ TxPublish
           \/ \E k \in 1 .. MaxSegs : SgBegin(k)
  <2>1. UNCHANGED <<comp, held, reaped, sent>> /\ txPc' # "comp_publish"
    BY <1>1 DEF Prepare, PushSeg, Send, TxCheck, TxStore, TxPublish, SgBegin, caller, history
  <2> QED BY <1>u, <2>1
<1>2. ASSUME NEW m \in 0 .. Size, CompleteBegin(m) PROVE CompOK'
  <2>1. /\ UNCHANGED <<comp, held, reaped, sent>> /\ txN' = Smaller(Count(comp), m)
        /\ txPc' = IF txN' = 0 THEN "idle" ELSE "comp_publish"
    BY <1>2 DEF CompleteBegin, history
  <2>2. txN' # 0 => txN' \in 1 .. Len(Done)
    BY <1>c, <2>1 DEF Smaller
  <2> QED BY <1>u, <2>1, <2>2
<1>3. CASE CompletePublish
  <2>1. /\ txPc = "comp_publish" /\ txPc' = "idle" /\ comp' = Consume(comp, txN)
        /\ UNCHANGED <<held, sent>>
        /\ reaped' = reaped \union Elems(Entries(comp, comp.cons, txN))
    BY <1>3 DEF CompletePublish
  <2>2. /\ txN \in 1 .. Len(Done)
        /\ Elems(Entries(comp, comp.cons, txN)) = {Done[i] : i \in 1 .. txN}
    BY <1>t, <2>1, ReapedEntries
  <2> DEFINE q == SubSeq(Done, txN + 1, Len(Done))
  <2>3. txN \in 0 .. Len(Done) /\ txN \in Nat
    BY <1>c, <2>2
  <2>4. /\ q \in Seq(Descs) /\ Len(q) = Len(Done) - txN /\ DOMAIN q = 1 .. Len(q)
        /\ \A i \in 1 .. Len(q) : q[i] = Done[txN + i]
    <3>1. /\ q \in Seq(Descs) /\ Len(q) = Len(Done) - txN
          /\ \A i \in 1 .. Len(Done) - txN : q[i] = Done[txN + i]
      <4> DEFINE z == Done
      <4>1. z \in Seq(Descs) /\ Len(z) \in Nat /\ txN \in 0 .. Len(z) /\ txN \in Nat
        BY <1>c, <2>3
      <4> HIDE DEF z
      <4>2. /\ SubSeq(z, txN + 1, Len(z)) \in Seq(Descs)
            /\ Len(SubSeq(z, txN + 1, Len(z))) = Len(z) - txN
            /\ \A i \in 1 .. Len(z) - txN : SubSeq(z, txN + 1, Len(z))[i] = z[txN + i]
        BY <4>1
      <4> QED BY <4>2 DEF z
    <3> HIDE DEF q
    <3> QED BY <3>1
  <2> HIDE DEF q
  <2>5. Holds(comp', q)
    BY <1>c, <2>1, <2>3, ConsumeHolds DEF q
  <2>6. Done' = q
    BY <2>4, <2>5, AllEntries DEF Done
  <2>7. Elems(q) = {Done[i] : i \in txN + 1 .. Len(Done)}
    <3>1. \A i \in 1 .. Len(q) : txN + i \in txN + 1 .. Len(Done) /\ q[i] = Done[txN + i]
      BY <1>c, <2>3, <2>4
    <3>3. Elems(q) = {q[i] : i \in 1 .. Len(q)}
      BY <2>4 DEF Elems
    <3>2. ASSUME NEW i \in txN + 1 .. Len(Done)
          PROVE  \E j \in 1 .. Len(q) : q[j] = Done[i]
      <4>1. i - txN \in 1 .. Len(q) /\ txN + (i - txN) = i
        BY <1>c, <2>3, <2>4
      <4> QED BY <2>4, <4>1
    <3>4. {q[i] : i \in 1 .. Len(q)} \subseteq {Done[i] : i \in txN + 1 .. Len(Done)}
      BY <3>1
    <3>5. {Done[i] : i \in txN + 1 .. Len(Done)} \subseteq {q[i] : i \in 1 .. Len(q)}
      BY <3>2
    <3> QED BY <3>3, <3>4, <3>5
  <2>8. Elems(Done) = Elems(q) \union {Done[i] : i \in 1 .. txN}
    <3>1. \A i \in 1 .. Len(Done) : i \in 1 .. txN \/ i \in txN + 1 .. Len(Done)
      BY <1>c, <2>3
    <3>2. \A i : i \in 1 .. txN \/ i \in txN + 1 .. Len(Done) => i \in 1 .. Len(Done)
      BY <1>c, <2>3
    <3> QED BY <1>c, <2>7, <3>1, <3>2
  <2>9. Elems(q) \intersect {Done[i] : i \in 1 .. txN} = {}
    <3>1. \A i \in 1 .. txN, j \in txN + 1 .. Len(Done) :
             i # j /\ i \in 1 .. Len(Done) /\ j \in 1 .. Len(Done)
      BY <1>c, <2>3
    <3> QED BY <1>c, <2>7, <3>1
  <2>10. \A i, j \in 1 .. Len(q) : q[i] = q[j] => i = j
    <3> SUFFICES ASSUME NEW i \in 1 .. Len(q), NEW j \in 1 .. Len(q), q[i] = q[j]
                 PROVE  i = j
      OBVIOUS
    <3>1. txN + i \in 1 .. Len(Done) /\ txN + j \in 1 .. Len(Done) /\ i \in Int /\ j \in Int
      BY <1>c, <2>3, <2>4
    <3>2. txN + i = txN + j
      BY <1>c, <2>4, <3>1
    <3> QED BY <2>3, <3>1, <3>2
  <2>11. Len(q) + Cardinality(held) <= Size
    BY <1>c, <2>3, <2>4
  <2>12. /\ Elems(q) \intersect held = {} /\ Elems(q) \intersect reaped' = {}
         /\ held \intersect reaped' = {} /\ Elems(q) \union held \union reaped' = Elems(sent)
    BY <1>c, <2>1, <2>2, <2>8, <2>9
  <2>13. \A i, j \in DOMAIN q : q[i] = q[j] => i = j
    BY <2>4, <2>10
  <2> QED BY <2>1, <2>4, <2>5, <2>6, <2>11, <2>12, <2>13 DEF CompOK
<1>4. CASE KernelSend
  <2>1. /\ Count(tx) > 0 /\ Count(comp) + Cardinality(held) < Size
        /\ held' = held \union {OldestDesc} /\ sent' = Append(sent, OldestDesc)
        /\ UNCHANGED <<comp, reaped, txPc, txN>>
    BY <1>4 DEF KernelSend, caller, history
  <2>2. /\ Len(sent) + 1 \in 1 .. Len(submitted) /\ OldestDesc = submitted[Len(sent) + 1]
        /\ OldestDesc \in Descs /\ sent \in Seq(Descs) /\ Len(sent) \in Nat
        /\ submitted \in Seq(Descs) /\ Len(submitted) \in Nat
    BY <1>t, <2>1, OldestIs DEF TxTypeOK
  <2>3. OldestDesc \notin Elems(sent)
    <3> SUFFICES ASSUME NEW i \in 1 .. Len(sent), sent[i] = OldestDesc PROVE FALSE
      BY <2>2 DEF Elems
    <3>1. sent[i] = submitted[i] /\ i \in 1 .. Len(submitted) /\ i # Len(sent) + 1
      BY <1>t, <2>2 DEF QueueOK
    <3>2. DOMAIN submitted = 1 .. Len(submitted)
      BY <2>2
    <3> QED BY <1>t, <2>2, <3>1, <3>2 DEF SubmittedOK
  <2>4. Elems(sent') = Elems(sent) \union {OldestDesc}
    <3>1. /\ Len(sent') = Len(sent) + 1 /\ sent'[Len(sent) + 1] = OldestDesc
          /\ DOMAIN sent' = 1 .. Len(sent) + 1 /\ DOMAIN sent = 1 .. Len(sent)
          /\ \A i \in 1 .. Len(sent) : sent'[i] = sent[i]
      BY <2>1, <2>2
    <3>2. 1 .. Len(sent) + 1 = (1 .. Len(sent)) \union {Len(sent) + 1}
      BY <2>2
    <3> QED BY <3>1, <3>2 DEF Elems
  <2>5. OldestDesc \notin held /\ Cardinality(held') = Cardinality(held) + 1
    BY <1>c, <2>1, <2>3, FS_AddElement
  <2>6. Done' = Done
    BY <2>1 DEF Done
  <2>7. Len(Done) + Cardinality(held') <= Size
    BY <1>c, <2>1, <2>5
  <2>8. /\ Elems(Done) \intersect held' = {} /\ held' \intersect reaped = {}
        /\ Elems(Done) \union held' \union reaped = Elems(sent')
    BY <1>c, <2>1, <2>3, <2>4
  <2> QED BY <1>t, <2>1, <2>6, <2>7, <2>8 DEF CompOK
<1>5. ASSUME NEW d \in held, KernelComplete(d) PROVE CompOK'
  <2>1. /\ held' = held \ {d} /\ comp' = Produce(Store(comp, <<d>>), 1)
        /\ UNCHANGED <<reaped, sent, txPc, txN>>
    BY <1>5 DEF KernelComplete, caller, history
  <2>2. d \in Descs /\ <<d>> \in Seq(Descs) /\ Len(<<d>>) = 1
    BY <1>t DEF TxTypeOK
  <2>3. Cardinality(held') = Cardinality(held) - 1 /\ Cardinality(held') \in Nat
    <3>1. Cardinality(held \ {d}) = Cardinality(held) - 1 /\ IsFiniteSet(held \ {d})
      BY <1>c, FS_RemoveElement
    <3> QED BY <2>1, <3>1, FS_CardinalityType
  <2>4. Len(Done) + Len(<<d>>) <= Size
    BY <1>c, <2>2, <2>3
  <2> DEFINE r == Store(comp, <<d>>)
             q == Done \o <<d>>
  <2>5. Holds(r, Done) /\ Stored(r, <<d>>)
    BY <1>c, <2>2, <2>4, StoreHolds
  <2> HIDE DEF r
  <2>6. Holds(Produce(r, Len(<<d>>)), q)
    BY <1>c, <2>2, <2>4, <2>5, ProduceHolds
  <2>7. Holds(comp', q)
    BY <2>1, <2>2, <2>6 DEF r
  <2>8. /\ q \in Seq(Descs) /\ Len(q) = Len(Done) + 1 /\ DOMAIN q = 1 .. Len(Done) + 1
        /\ \A i \in 1 .. Len(Done) : q[i] = Done[i]
        /\ q[Len(Done) + 1] = d
    <3> DEFINE z == Done
    <3>1. z \in Seq(Descs) /\ Len(z) \in Nat
      BY <1>c
    <3> HIDE DEF z
    <3>2. /\ z \o <<d>> \in Seq(Descs) /\ Len(z \o <<d>>) = Len(z) + 1
          /\ DOMAIN (z \o <<d>>) = 1 .. Len(z) + 1
          /\ \A i \in 1 .. Len(z) : (z \o <<d>>)[i] = z[i]
          /\ (z \o <<d>>)[Len(z) + 1] = d
      BY <2>2, <3>1
    <3> QED BY <3>2 DEF z
  <2> HIDE DEF q
  <2>9. Done' = q
    BY <2>7, <2>8, AllEntries DEF Done
  <2>10. 1 .. Len(Done) + 1 = (1 .. Len(Done)) \union {Len(Done) + 1}
    BY <1>c
  <2>11. Elems(q) = Elems(Done) \union {d}
    BY <1>c, <2>8, <2>10 DEF Elems
  <2>12. d \notin Elems(Done) /\ d \notin reaped
    BY <1>c
  <2>13. \A i, j \in DOMAIN q : q[i] = q[j] => i = j
    <3>1. \A i \in 1 .. Len(Done) : q[i] # d
      BY <1>c, <2>8, <2>12
    <3> QED BY <1>c, <2>8, <2>10, <3>1
  <2>14. Len(q) + Cardinality(held') <= Size
    BY <1>c, <2>3, <2>8
  <2>15. /\ Elems(q) \intersect held' = {} /\ Elems(q) \intersect reaped = {}
         /\ held' \intersect reaped = {} /\ Elems(q) \union held' \union reaped = Elems(sent)
    BY <1>c, <2>1, <2>11, <2>12
  <2>16. txPc' = "comp_publish" => txN' \in 1 .. Len(q)
    <3>1. txPc = "comp_publish" => txN \in 1 .. Len(Done)
      BY <1>t DEF CompOK
    <3> QED BY <1>c, <2>1, <2>8, <3>1
  <2> QED BY <2>1, <2>7, <2>8, <2>9, <2>13, <2>14, <2>15, <2>16 DEF CompOK, Elems
<1> QED BY <1>1, <1>2, <1>3, <1>4, <1>5 DEF TxNext, CallStep, Kernel

-----------------------------------------------------------------------------
\* The invariant above is inductive.
LEMMA TxNextInvariant == TxInvariant /\ [TxNext]_txVars => TxInvariant'
<1> SUFFICES ASSUME TxInvariant, [TxNext]_txVars PROVE TxInvariant'
  OBVIOUS
<1>1. CASE TxNext
  BY <1>1, NextType, NextQueue, NextSubmitted, NextComp, NextFramed, NextHeader DEF TxInvariant
<1>2. CASE UNCHANGED txVars
  <2>1. UNCHANGED <<tx, comp, held, segCount, built, ipLen, txPc, via, txN, want, max, calls,
                    submitted, sent, reaped>>
    BY <1>2 DEF txVars
  <2>2. Queue' = Queue /\ Done' = Done /\ Offered' = Offered /\ InSend' = InSend
    BY <2>1 DEF Queue, Done, Offered, Desc, InSend
  <2>3. TxTypeOK' /\ QueueOK' /\ CallOK'
    BY <2>1, <2>2 DEF TxInvariant, TxTypeOK, QueueOK, CallOK
  <2>4. SubmittedOK' /\ CompOK' /\ FramedOK'
    BY <2>1, <2>2 DEF TxInvariant, SubmittedOK, CompOK, FramedOK
  <2>5. HeaderOK'
    BY <2>1 DEF TxInvariant, HeaderOK, Overtaken
  <2> QED BY <2>3, <2>4, <2>5 DEF TxInvariant
<1> QED BY <1>1, <1>2

\* TxInvariant holds of every reachable state.
THEOREM TxInvariantHolds == TxSpec => []TxInvariant
BY TxInitInvariant, TxNextInvariant, PTL DEF TxSpec

\* For every ring size and every modulus of the counters that is a multiple
\* of it: what xdp_tx and xdp_tx_sg publish is in the tx ring, with the
\* kernel, in the completion ring or returned by xdp_complete_tx, and in one
\* of these only.
THEOREM DescriptorsInOnePlace == TxSpec => []DescriptorOnePlace
<1>1. ASSUME TxInvariant, NEW k \in DOMAIN submitted
      PROVE  Cardinality(DescPlaces(submitted[k])) = 1
  <2> DEFINE d == submitted[k]
             queued == SlotsOf(tx, d)
             done   == SlotsOf(comp, d)
             owners == {o \in {"kernel", "reaped"} : \/ o = "kernel" /\ d \in held
                                                     \/ o = "reaped" /\ d \in reaped}
  <2>1. DescPlaces(d) = ({"tx"} \X queued) \union ({"comp"} \X done) \union ({"owner"} \X owners)
    BY DEF DescPlaces, SlotsOf
  <2>t. TxTypeOK /\ QueueOK /\ SubmittedOK /\ CompOK
    BY <1>1 DEF TxInvariant
  <2>2. /\ Queue \in Seq(Descs) /\ Holds(tx, Queue) /\ Len(Queue) = Len(submitted) - Len(sent)
        /\ Len(submitted) \in Nat /\ Len(sent) \in Nat /\ Len(sent) <= Len(submitted)
        /\ \A i \in 1 .. Len(Queue) : Queue[i] = submitted[Len(sent) + i]
        /\ submitted \in Seq(Descs) /\ sent \in Seq(Descs)
    BY <2>t, QueueFacts DEF QueueOK, TxTypeOK
  <2>3. /\ Done \in Seq(Descs) /\ Holds(comp, Done)
        /\ Elems(Done) \intersect held = {} /\ Elems(Done) \intersect reaped = {}
        /\ held \intersect reaped = {} /\ Elems(Done) \union held \union reaped = Elems(sent)
    BY <2>t DEF CompOK
  <2>4. k \in 1 .. Len(submitted) /\ DOMAIN submitted = 1 .. Len(submitted)
        /\ DOMAIN sent = 1 .. Len(sent) /\ DOMAIN Done = 1 .. Len(Done)
    BY <2>2, <2>3
  <2>5. \A i \in 1 .. Len(submitted) : submitted[i] = d => i = k
    BY <2>t, <2>4 DEF SubmittedOK
  <2> HIDE DEF d
  <2>6. /\ (\A i \in 1 .. Len(Queue) : Queue[i] # d) => queued = {}
        /\ \A i \in 1 .. Len(Queue) :
              Queue[i] = d /\ (\A j \in 1 .. Len(Queue) : Queue[j] = d => j = i)
              => queued = {Slot(tx.cons + i - 1)}
    <3> DEFINE q == Queue
    <3>1. q \in Seq(Descs) /\ Holds(tx, q)
      BY <2>2
    <3> HIDE DEF q
    <3>2. /\ (\A i \in 1 .. Len(q) : q[i] # d) => SlotsOf(tx, d) = {}
          /\ \A i \in 1 .. Len(q) :
                q[i] = d /\ (\A j \in 1 .. Len(q) : q[j] = d => j = i)
                => SlotsOf(tx, d) = {Slot(tx.cons + i - 1)}
      BY <3>1, PendingHeld
    <3> QED BY <3>2 DEF q
  <2>7. /\ (\A i \in 1 .. Len(Done) : Done[i] # d) => done = {}
        /\ \A i \in 1 .. Len(Done) :
              Done[i] = d /\ (\A j \in 1 .. Len(Done) : Done[j] = d => j = i)
              => done = {Slot(comp.cons + i - 1)}
    BY <2>3, PendingHeld
  <2>p. \A a, b : {a} \X {b} = {<<a, b>>} /\ {b} \X {} = {}
    OBVIOUS
  <2>r. \A j \in 1 .. Len(Queue) : /\ Len(sent) + j \in 1 .. Len(submitted) /\ j \in Int
                                   /\ Len(sent) + j > Len(sent)
                                   /\ Queue[j] = submitted[Len(sent) + j]
    <3>1. \A x, y \in Nat : \A j \in 1 .. x - y : y + j \in 1 .. x /\ j \in Int /\ y + j > y
      OBVIOUS
    <3> QED BY <2>2, <3>1
  <2>8. d \notin Elems(Done) => done = {}
    BY <2>4, <2>7 DEF Elems
  <2> HIDE DEF queued, done
  <2>9. \E x : DescPlaces(d) = {x}
    <3>1. CASE k > Len(sent)
      <4> DEFINE i == k - Len(sent)
      <4>1. i \in 1 .. Len(Queue) /\ Len(sent) + i = k
        BY <2>2, <2>4, <3>1
      <4>2. Queue[i] = d
        BY <2>2, <4>1 DEF d
      <4>3. ASSUME NEW j \in 1 .. Len(Queue), Queue[j] = d PROVE j = i
        <5>1. Len(sent) + j = k
          BY <2>5, <2>r, <4>3
        <5> QED BY <2>2, <2>r, <4>1, <5>1
      <4>4. queued = {Slot(tx.cons + i - 1)}
        BY <2>6, <4>1, <4>2, <4>3
      <4>5. d \notin Elems(sent)
        <5> SUFFICES ASSUME NEW j \in 1 .. Len(sent), sent[j] = d PROVE FALSE
          BY <2>4 DEF Elems
        <5>1. j \in 1 .. Len(submitted) /\ submitted[j] = d
          BY <2>t, <2>2 DEF QueueOK
        <5> QED BY <2>2, <2>5, <3>1, <5>1
      <4>6. done = {} /\ owners = {}
        BY <2>3, <2>8, <4>5
      <4>7. DescPlaces(d) = {<<"tx", Slot(tx.cons + i - 1)>>}
        BY <2>1, <2>p, <4>4, <4>6
      <4> QED BY <4>7, Zenon
    <3>2. CASE ~(k > Len(sent))
      <4>1. k \in 1 .. Len(sent) /\ sent[k] = d
        <5>1. k \in 1 .. Len(sent)
          BY <2>2, <2>4, <3>2
        <5> QED BY <2>t, <5>1 DEF QueueOK, d
      <4>2. d \in Elems(sent)
        BY <2>4, <4>1 DEF Elems
      <4>3. queued = {}
        <5>1. ASSUME NEW j \in 1 .. Len(Queue), Queue[j] = d PROVE FALSE
          <6>1. Len(sent) + j = k
            BY <2>5, <2>r, <5>1
          <6> QED BY <2>r, <3>2, <6>1
        <5> QED BY <2>6, <5>1
      <4>4. CASE d \in Elems(Done)
        <5>1. PICK i \in 1 .. Len(Done) : Done[i] = d
          BY <2>4, <4>4 DEF Elems
        <5>2. done = {Slot(comp.cons + i - 1)}
          BY <2>t, <2>4, <2>7, <5>1 DEF CompOK
        <5>3. owners = {}
          BY <2>3, <4>4
        <5>4. DescPlaces(d) = {<<"comp", Slot(comp.cons + i - 1)>>}
          BY <2>1, <2>p, <4>3, <5>2, <5>3
        <5> QED BY <5>4, Zenon
      <4>5. CASE d \in held
        <5>1. done = {} /\ owners = {"kernel"}
          BY <2>3, <2>8, <4>5
        <5>2. DescPlaces(d) = {<<"owner", "kernel">>}
          BY <2>1, <2>p, <4>3, <5>1
        <5> QED BY <5>2, Zenon
      <4>6. CASE d \in reaped
        <5>1. done = {} /\ owners = {"reaped"}
          BY <2>3, <2>8, <4>6
        <5>2. DescPlaces(d) = {<<"owner", "reaped">>}
          BY <2>1, <2>p, <4>3, <5>1
        <5> QED BY <5>2, Zenon
      <4> QED BY <2>3, <4>2, <4>4, <4>5, <4>6
    <3> QED BY <3>1, <3>2
  <2> QED BY <2>9, FS_Singleton DEF d
<1>2. TxInvariant => DescriptorOnePlace
  BY <1>1 DEF DescriptorOnePlace
<1> QED BY <1>2, TxInvariantHolds, PTL

\* The kernel sees the descriptors in the order of publication, and each
\* packet of eth_send_sctp whole and apart from its neighbours.
THEOREM PacketsAreFramed == TxSpec => []PacketsFramed
<1>1. ASSUME TxInvariant PROVE PacketsFramed
  <2>t. TxTypeOK /\ QueueOK /\ FramedOK
    BY <1>1 DEF TxInvariant
  <2>1. /\ submitted \in Seq(Descs) /\ sent \in Seq(Descs)
        /\ Len(submitted) \in Nat /\ Len(sent) \in Nat /\ Len(sent) <= Len(submitted)
        /\ \A i \in 1 .. Len(sent) : sent[i] = submitted[i]
    BY <2>t DEF TxTypeOK, QueueOK
  <2> DEFINE q == SubSeq(submitted, 1, Len(sent))
  <2>2. /\ q \in Seq(Descs) /\ Len(q) = Len(sent)
        /\ \A i \in 1 .. Len(sent) : q[i] = submitted[i]
    BY <2>1
  <2> HIDE DEF q
  <2>3. \A i \in 1 .. Len(sent) : sent[i] = q[i]
    BY <2>1, <2>2
  <2>4. sent = q
    BY <2>1, <2>2, <2>3, SeqEqual
  <2> QED BY <2>t, <2>4 DEF PacketsFramed, FramedOK, q
<1>2. TxInvariant => PacketsFramed
  BY <1>1
<1> QED BY <1>2, TxInvariantHolds, PTL

\* When the kernel takes the first descriptor of a packet of eth_send_sctp,
\* the length in the shared header is that packet's, unless a packet of
\* another length was offered since.
THEOREM HeaderStaysIntact == TxSpec => HeaderIntactUnlessOvertaken
<1>1. ASSUME TxInvariant, [TxNext]_txVars
      PROVE  [sent' # sent /\ OldestDesc.via = "tx" /\ OldestDesc.i = 1
              => ipLen = OldestDesc.len \/ Overtaken(OldestDesc)]_txVars
  <2> SUFFICES ASSUME sent' # sent, OldestDesc.via = "tx"
               PROVE  ipLen = OldestDesc.len \/ Overtaken(OldestDesc)
    OBVIOUS
  <2>1. KernelSend
    BY <1>1 DEF TxNext, txVars, CallStep, Kernel, Prepare, PushSeg, Send, TxCheck, TxStore,
         TxPublish, CompletePublish, SgBegin, CompleteBegin, KernelComplete
  <2>2. TxTypeOK /\ QueueOK /\ HeaderOK
    BY <1>1 DEF TxInvariant
  <2>3. OldestDesc = submitted[Len(sent) + 1] /\ Len(sent) + 1 \in DOMAIN submitted
    <3>1. DOMAIN submitted = 1 .. Len(submitted)
      BY <2>2 DEF TxTypeOK
    <3> QED BY <2>1, <2>2, <3>1, OldestIs DEF KernelSend
  <2> QED BY <2>2, <2>3 DEF HeaderOK
<1> QED BY <1>1, TxInvariantHolds, PTL DEF TxSpec, HeaderIntactUnlessOvertaken
=============================================================================
