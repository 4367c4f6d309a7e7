--------------------------- MODULE SctpDataProofs ---------------------------
(***************************************************************************)
(* Proofs about SctpData, for any number of streams and buffers, messages  *)
(* of any length, every packet size and every base of the TSN's bytes.     *)
(***************************************************************************)
EXTENDS SctpData, FiniteSetTheorems, SequenceTheorems, TLAPS

-----------------------------------------------------------------------------
(***************************************************************************)
(* Lengths and remainders                                                  *)
(***************************************************************************)
\* The constants as numbers.
LEMMA DataConstants ==
  /\ Mtu \in Nat /\ Mtu > 32 /\ W \in Nat \ {0} /\ W > Mtu
  /\ ByteBase \in Nat \ {0} /\ RtxSize \in Nat \ {0} /\ ByteBase <= RtxSize
  /\ RingSize \in Nat /\ Cardinality(Buffers) \in Nat \ {0}
  /\ Cardinality(Buffers) <= RingSize
  /\ \A n \in Lengths : n \in 0 .. W - 1
<1>1. Cardinality(Buffers) \in Nat /\ Cardinality(Buffers) # 0
  BY BuffersAssumption, FS_CardinalityType, FS_EmptySet
<1> QED BY <1>1, SizesAssumption, LengthsAssumption, BuffersAssumption

\* Padding adds at most three bytes, and none to a multiple of four.
LEMMA AlignFacts ==
  \A n \in Nat : /\ Align(n) \in Nat /\ n <= Align(n) /\ Align(n) <= n + 3
                 /\ n - (n % 4) \in Nat /\ Align(n - (n % 4)) = n - (n % 4)
BY DEF Align

\* A number is its quotient and its remainder.
LEMMA QuotientRemainder ==
  ASSUME NEW m \in Nat \ {0}, NEW x \in Int
  PROVE  /\ x \div m \in Int /\ x % m \in 0 .. m - 1
         /\ m * (x \div m) \in Int /\ x = m * (x \div m) + (x % m)
<1>1. x \div m \in Int
  OBVIOUS
<1>2. x % m \in 0 .. m - 1
  OBVIOUS
<1>3. x = m * (x \div m) + (x % m)
  OBVIOUS
<1> QED BY <1>1, <1>2, <1>3

\* Two ways to divide a number by m are one.
LEMMA DivisionUnique ==
  ASSUME NEW m \in Nat \ {0}, NEW a \in Int, NEW b \in Int,
         NEW r \in 0 .. m - 1, NEW s \in 0 .. m - 1,
         m * a + r = m * b + s
  PROVE  a = b /\ r = s
<1>1. ASSUME NEW x \in Int, NEW y \in Int, x >= y + 1 PROVE m * x >= m * y + m
  <2>1. m * x >= m * (y + 1) /\ m * (y + 1) = m * y + m
    BY <1>1
  <2> QED BY <2>1
<1>2. m * a \in Int /\ m * b \in Int
  OBVIOUS
<1>3. ~(a >= b + 1)
  <2> SUFFICES ASSUME a >= b + 1 PROVE FALSE
    OBVIOUS
  <2>1. m * a >= m * b + m
    BY <1>1
  <2> QED BY <1>2, <2>1
<1>4. ~(b >= a + 1)
  <2> SUFFICES ASSUME b >= a + 1 PROVE FALSE
    OBVIOUS
  <2>1. m * b >= m * a + m
    BY <1>1
  <2> QED BY <1>2, <2>1
<1>5. a = b
  BY <1>3, <1>4
<1> QED BY <1>2, <1>5

\* What is in the range already stays.
LEMMA RemainderSmall ==
  ASSUME NEW m \in Nat \ {0}, NEW x \in 0 .. m - 1
  PROVE  x % m = x
OBVIOUS

\* Numbers that differ by a multiple of m have the same remainder.
LEMMA RemainderShift ==
  ASSUME NEW m \in Nat \ {0}, NEW x \in Int, NEW y \in Int, NEW k \in Int, y = x + m * k
  PROVE  x % m = y % m
<1> DEFINE a == x \div m
           v == x % m
           b == y \div m
           w == y % m
<1>1. a \in Int /\ v \in 0 .. m - 1 /\ m * a \in Int /\ x = m * a + v
  BY QuotientRemainder
<1>2. b \in Int /\ w \in 0 .. m - 1 /\ m * b \in Int /\ y = m * b + w
  BY QuotientRemainder
<1> HIDE DEF a, b, v, w
<1>3. m * (a + k) = m * a + m * k /\ m * k \in Int /\ a + k \in Int
  BY <1>1
<1> DEFINE c == a + k
<1>4. c \in Int /\ m * c + v = m * b + w
  BY <1>1, <1>2, <1>3
<1> HIDE DEF c
<1>5. c = b /\ v = w
  <2>1. v \in 0 .. m - 1 /\ w \in 0 .. m - 1 /\ b \in Int
    BY <1>1, <1>2
  <2> QED BY <1>4, <2>1, DivisionUnique
<1> QED BY <1>5 DEF v, w

\* Numbers less than m apart have different remainders.
LEMMA RemaindersDiffer ==
  ASSUME NEW m \in Nat \ {0}, NEW x \in Int, NEW y \in Int, x < y, y < x + m
  PROVE  x % m # y % m
<1> DEFINE a == x \div m
           v == x % m
           b == y \div m
           w == y % m
<1>1. a \in Int /\ v \in 0 .. m - 1 /\ m * a \in Int /\ x = m * a + v
  BY QuotientRemainder
<1>2. b \in Int /\ w \in 0 .. m - 1 /\ m * b \in Int /\ y = m * b + w
  BY QuotientRemainder
<1> HIDE DEF a, b, v, w
<1>3. ASSUME v = w PROVE FALSE
  <2> DEFINE d == y - x
  <2>1. d \in 0 .. m - 1 /\ d # 0 /\ m * a + d = m * b + 0
    BY <1>1, <1>2, <1>3
  <2>2. 0 \in 0 .. m - 1
    OBVIOUS
  <2> HIDE DEF d
  <2>3. d = 0
    BY <1>1, <1>2, <2>1, <2>2, DivisionUnique
  <2> QED BY <2>1, <2>3
<1> QED BY <1>3 DEF v, w

-----------------------------------------------------------------------------
(***************************************************************************)
(* TSNs: only the last byte counts, and the slots of ByteBase consecutive  *)
(* ones are different                                                      *)
(***************************************************************************)
\* The bytes of a TSN that never change.
UpperBytes(x) == (x \div ByteBase) * ByteBase

\* The next TSN has the same upper bytes and is one more, up to a turn of the
\* last byte.
LEMMA NextTsnFacts ==
  ASSUME NEW x \in Nat
  PROVE  /\ NextTsn(x) \in Nat /\ UpperBytes(x) \in Nat
         /\ UpperBytes(NextTsn(x)) = UpperBytes(x)
         /\ NextTsn(x) = UpperBytes(x) + (NextTsn(x) % ByteBase)
         /\ \E k \in Int : NextTsn(x) = x + 1 + ByteBase * k
<1>0. ByteBase \in Nat \ {0}
  BY DataConstants
<1> DEFINE B == ByteBase
           q == x \div B
           r == x % B
           p == (x + 1) \div B
           t == (x + 1) % B
           n == NextTsn(x)
<1>1. q \in Int /\ r \in 0 .. B - 1 /\ B * q \in Int /\ x = B * q + r
  BY <1>0, QuotientRemainder
<1>2. p \in Int /\ t \in 0 .. B - 1 /\ B * p \in Int /\ x + 1 = B * p + t
  <2>1. x + 1 \in Int
    OBVIOUS
  <2> QED BY <1>0, <2>1, QuotientRemainder
<1>3. q \in Nat
  BY <1>0
<1>4. UpperBytes(x) = B * q /\ n = B * q + t
  BY <1>0, <1>1, <1>2 DEF UpperBytes, NextTsn
<1>5. B * q \in Nat
  BY <1>0, <1>3
<1> HIDE DEF B, q, r, p, t
<1>6. n \in Nat
  BY <1>2, <1>4, <1>5
<1> HIDE DEF n
<1>7. /\ n \div B \in Int /\ n % B \in 0 .. B - 1 /\ B * (n \div B) \in Int
      /\ n = B * (n \div B) + (n % B)
  BY <1>0, <1>6, QuotientRemainder DEF B
<1>8. n \div B = q /\ n % B = t
  <2> DEFINE c == n \div B
             d == n % B
  <2>1. c \in Int /\ d \in 0 .. B - 1 /\ B * c + d = B * q + t
    BY <1>4, <1>7
  <2> HIDE DEF c, d
  <2>2. c = q /\ d = t
    BY <1>0, <1>1, <1>2, <2>1, DivisionUnique DEF B
  <2> QED BY <2>2 DEF c, d
<1>9. UpperBytes(n) = B * q
  <2>1. UpperBytes(n) = (n \div B) * B
    BY DEF UpperBytes, B
  <2>2. q * B = B * q
    BY <1>0, <1>1 DEF B
  <2> QED BY <1>8, <2>1, <2>2
<1>10. \E k \in Int : n = x + 1 + B * k
  <2>1. q - p \in Int /\ B * (q - p) = B * q - B * p
    BY <1>0, <1>1, <1>2 DEF B
  <2>2. n = x + 1 + B * (q - p)
    BY <1>2, <1>4, <2>1, <1>1
  <2> QED BY <2>1, <2>2
<1> QED BY <1>4, <1>5, <1>6, <1>8, <1>9, <1>10 DEF n, B

\* Within one turn of the last byte, the slot of an older TSN is not that of
\* the newest.
LEMMA SlotsApart ==
  ASSUME NEW u \in Nat, NEW x \in Nat, NEW d \in 1 .. ByteBase - 1
  PROVE  SlotOf(u + ((x - d) % ByteBase)) # SlotOf(u + (x % ByteBase))
<1>0. ByteBase \in Nat \ {0} /\ RtxSize \in Nat \ {0} /\ ByteBase <= RtxSize
  BY DataConstants
<1> DEFINE a == (x - d) % ByteBase
           b == x % ByteBase
<1>1. x - d \in Int /\ x \in Int /\ x - d < x /\ x < (x - d) + ByteBase
  BY <1>0
<1>2. a # b
  BY <1>0, <1>1, RemaindersDiffer
<1>3. a \in 0 .. ByteBase - 1 /\ b \in 0 .. ByteBase - 1
  BY <1>0, <1>1, QuotientRemainder
<1> HIDE DEF a, b
<1>4. u + a \in Int /\ u + b \in Int
  BY <1>3
<1>5. CASE a < b
  <2>1. u + a < u + b /\ u + b < (u + a) + RtxSize
    BY <1>0, <1>3, <1>5
  <2> DEFINE y == u + a
             z == u + b
  <2> HIDE DEF y, z
  <2>2. y % RtxSize # z % RtxSize
    BY <1>0, <1>4, <2>1, RemaindersDiffer DEF y, z
  <2> QED BY <2>2 DEF SlotOf, y, z, a, b
<1>6. CASE b < a
  <2>1. u + b < u + a /\ u + a < (u + b) + RtxSize
    BY <1>0, <1>3, <1>6
  <2> DEFINE y == u + a
             z == u + b
  <2> HIDE DEF y, z
  <2>2. z % RtxSize # y % RtxSize
    BY <1>0, <1>4, <2>1, RemaindersDiffer DEF y, z
  <2> QED BY <2>2 DEF SlotOf, y, z, a, b
<1> QED BY <1>2, <1>3, <1>5, <1>6

-----------------------------------------------------------------------------
(***************************************************************************)
(* The inductive invariant.  One part is common to the builders; of the    *)
(* others each has its own.                                                *)
(***************************************************************************)
ChunkSet == [stream : Streams, pos : 0 .. W - 1, at : Nat, len : Nat, tsn : Nat,
             flags : SUBSET {"B", "E"}]
CellSet == [buf : Buffers, plen : Nat]

TypeOK == /\ builder \in {"fill", "bundle"}
          /\ high \in [Streams -> Lengths]
          /\ cur \in [Streams -> 0 .. W - 1]
          /\ tsn \in Nat
          /\ pool \in Seq(CellSet) /\ bundling \in Seq(CellSet) /\ tx \in Seq(CellSet)
          /\ current \in Buffers \union {NULL}
          /\ off \in Nat /\ remain \in Nat
          /\ chunks \in [Buffers -> Seq(ChunkSet)]
          /\ rtx \in [0 .. RtxSize - 1 -> ChunkSet \union {NULL}]
          /\ built \in Seq(ChunkSet)
          /\ found \in [Buffers -> Nat]
          /\ crashed \in BOOLEAN

\* The chunks follow each other from the start of the packet.
Walks(cs) ==
  \A i \in DOMAIN cs : cs[i].at = IF i = 1 THEN 0 ELSE cs[i - 1].at + Align(cs[i - 1].len)

Has(ring, b) == \E i \in DOMAIN ring : ring[i].buf = b
Distinct(ring) == \A i, j \in DOMAIN ring : ring[i].buf = ring[j].buf => i = j

\* Every buffer of sctp_build_data_hdr is in one place, once, and there are as
\* many cells as buffers.
FillBuffers ==
  /\ bundling = << >>
  /\ Distinct(pool) /\ Distinct(tx)
  /\ \A b \in Buffers : \/ b = current /\ ~Has(pool, b) /\ ~Has(tx, b)
                        \/ b # current /\ Has(pool, b) /\ ~Has(tx, b)
                        \/ b # current /\ ~Has(pool, b) /\ Has(tx, b)
  /\ Len(pool) + Len(tx) + (IF current = NULL THEN 0 ELSE 1) = Cardinality(Buffers)
  /\ current = NULL /\ ~crashed => tx = << >>

\* Buffers in the pool are empty; the lengths of the packet being filled and
\* of the queued ones are where their chunks end.
FillPackets ==
  /\ current # NULL => off = EndOf(chunks[current]) /\ off + remain = Mtu
  /\ \A i \in DOMAIN pool : pool[i].plen = 0 /\ chunks[pool[i].buf] = << >>
  /\ \A i \in DOMAIN tx : tx[i].plen = EndOf(chunks[tx[i].buf])
  /\ \A i \in DOMAIN built : built[i].at + Align(built[i].len) + H <= Mtu

\* The TSNs of the chunks count down from the present one, in the last byte.
FillTsns ==
  \A i \in DOMAIN built :
     NextTsn(built[i].tsn) = UpperBytes(tsn) + ((tsn - (Len(built) - i)) % ByteBase)

\* As long as it has not gone below zero, pos_current is inside the message.
FillPositions ==
  \A s \in Streams : ~BelowZero(s, Len(built)) => cur[s] <= high[s]

\* The pool of the bundling builder always has every buffer, with a length that
\* leaves room, and one cell more for every bundle; the one cell that may wait is
\* the last one that was filled, and its length is that of its chunk with the
\* padding, behind the length it was found with.
BundleBuffers ==
  /\ current = NULL /\ ~crashed
  /\ Len(pool) = Least(RingSize, Cardinality(Buffers) + Bundles)
  /\ \A i \in DOMAIN pool : pool[i].plen < Mtu
  /\ \A b \in Buffers : Has(pool, b)
  /\ bundling # << >> =>
       /\ Len(bundling) = 1 /\ built # << >>
       /\ LET b == bundling[1].buf
          IN  /\ chunks[b] = <<built[Len(built)]>>
              /\ bundling[1].plen = found[b] + Align(chunks[b][1].len)
              /\ bundling[1].plen < Mtu

\* Each chunk is at least a header and at most a packet and begins in a packet,
\* and the last cell of a buffer in tx_ring has the length of what the buffer
\* holds, behind the length it was found with.
BundlePackets ==
  /\ \A i \in DOMAIN built : /\ H <= built[i].len /\ built[i].len <= Mtu
                             /\ built[i].at < Mtu
  /\ \A i \in DOMAIN tx :
       /\ chunks[tx[i].buf] # << >>
       /\ (\A j \in DOMAIN tx : j > i => tx[j].buf # tx[i].buf) /\ ~Has(bundling, tx[i].buf)
          => tx[i].plen = found[tx[i].buf] + EndOf(chunks[tx[i].buf])

\* pos_current is where the last chunk of the stream ended; from the first one
\* on that is the end of the message or at least one full packet.
BundlePositions ==
  \A s \in Streams :
     /\ cur[s] <= high[s]
     /\ (\A i \in DOMAIN built : built[i].stream # s) => cur[s] = 0
     /\ \A i \in DOMAIN built : built[i].stream = s =>
           /\ Least(Room, high[s]) <= cur[s]
           /\ Least(Room, high[s]) <= PayloadEnd(built[i])
           /\ (\A k \in DOMAIN built : built[k].stream = s => k <= i)
              => cur[s] = PayloadEnd(built[i])

\* The properties follow from these parts or are parts themselves.
DataInvariant ==
  /\ TypeOK /\ \A b \in Buffers : Walks(chunks[b])
  /\ QueuedPacketsCarryData /\ MessagesCarried /\ RtxFindsChunk
  /\ builder = "fill" => FillBuffers /\ FillPackets /\ FillTsns /\ FillPositions
  /\ builder = "bundle" => BundleBuffers /\ BundlePackets /\ BundlePositions

-----------------------------------------------------------------------------
(***************************************************************************)
(* sctp_build_data_hdr writes a chunk                                      *)
(***************************************************************************)
NewLen(s, left) == ChunkLen(s, left - H)
NewChunk(s, o, left) == Chunk(s, o, NewLen(s, left), Flags(s, NewLen(s, left)))

\* A call that writes at offset o of buffer b, which becomes or stays the
\* current packet, with `left' bytes of it left.
Fills(s, b, o, left) ==
  /\ s \in Streams /\ b \in Buffers /\ o \in Nat /\ left \in Nat
  /\ o + left = Mtu /\ H + 4 <= left
  /\ o = EndOf(chunks[b])
  /\ high[s] # cur[s]
  /\ Put(s, b, o, left)

\* The chunk with its padding leaves room for the H bytes that are copied
\* beyond it, and is not longer than what is left of the message.
LEMMA NewLenFits ==
  ASSUME TypeOK, NEW s \in Streams, NEW left \in Nat, H + 4 <= left
  PROVE  /\ NewLen(s, left) \in Nat
         /\ Diff(high[s], cur[s]) \in 0 .. W - 1
         /\ NewLen(s, left) <= Diff(high[s], cur[s])
         /\ Align(NewLen(s, left)) + H <= left
<1> DEFINE d == Diff(high[s], cur[s])
           room == left - H
           n == Least(room, d)
<1>1. high[s] \in 0 .. W - 1 /\ cur[s] \in 0 .. W - 1 /\ W \in Nat \ {0}
  BY DataConstants DEF TypeOK
<1>2. d \in 0 .. W - 1
  <2>1. high[s] - cur[s] \in Int
    BY <1>1
  <2> QED BY <1>1, <2>1, QuotientRemainder DEF Diff
<1>3. room \in Nat /\ left = room + H
  BY DEF H
<1> HIDE DEF d, room
<1>4. n \in Nat /\ n <= d /\ n <= room
  BY <1>2, <1>3 DEF Least
<1>5. NewLen(s, left) = IF Align(n) > room THEN n - (n % 4) ELSE n
  BY DEF NewLen, ChunkLen, room, d
<1> HIDE DEF n
<1>6. /\ Align(n) \in Nat /\ n - (n % 4) \in Nat /\ n - (n % 4) <= n
      /\ Align(n - (n % 4)) = n - (n % 4)
  <2>1. n % 4 \in 0 .. 3
    BY <1>4
  <2> QED BY <1>4, <2>1, AlignFacts
<1>7. CASE Align(n) > room
  BY <1>2, <1>3, <1>4, <1>5, <1>6, <1>7 DEF d, H
<1>8. CASE ~(Align(n) > room)
  BY <1>2, <1>3, <1>4, <1>5, <1>6, <1>8 DEF d, H
<1> QED BY <1>7, <1>8

\* What a call changes.
LEMMA FillsFacts ==
  ASSUME TypeOK, NEW s, NEW b, NEW o, NEW left, Fills(s, b, o, left)
  PROVE  LET len == NewLen(s, left)
             c   == NewChunk(s, o, left)
         IN  /\ len \in Nat /\ c \in ChunkSet
             /\ c.stream = s /\ c.pos = cur[s] /\ c.at = o /\ c.len = len /\ c.tsn = tsn
             /\ o + Align(len) + H <= Mtu
             /\ chunks' = [chunks EXCEPT ![b] = Append(@, c)]
             /\ built' = Append(built, c)
             /\ off' = o + Align(len) /\ remain' = left - Align(len)
             /\ tsn' = NextTsn(tsn)
             /\ rtx' = [rtx EXCEPT ![SlotOf(tsn')] = c]
             /\ cur' = [cur EXCEPT ![s] = (@ + len - H) % W]
<1> DEFINE len == NewLen(s, left)
           c   == NewChunk(s, o, left)
<1>1. s \in Streams /\ o \in Nat /\ left \in Nat /\ H + 4 <= left /\ o + left = Mtu
  BY DEF Fills
<1>2. len \in Nat /\ Align(len) \in Nat /\ Align(len) + H <= left
  BY <1>1, NewLenFits, AlignFacts
<1>3. Flags(s, len) \in SUBSET {"B", "E"}
  BY DEF Flags
<1>4. cur[s] \in 0 .. W - 1 /\ tsn \in Nat
  BY <1>1 DEF TypeOK
<1>5. /\ c = [stream |-> s, pos |-> cur[s], at |-> o, len |-> len, tsn |-> tsn,
              flags |-> Flags(s, len)]
  BY DEF NewChunk, Chunk
<1>6. /\ chunks' = [chunks EXCEPT ![b] = Append(@, c)]
      /\ built' = Append(built, c)
      /\ off' = o + Align(len) /\ remain' = left - Align(len)
      /\ tsn' = NextTsn(tsn)
      /\ rtx' = [rtx EXCEPT ![SlotOf(tsn')] = c]
      /\ cur' = [cur EXCEPT ![s] = (@ + len - H) % W]
  BY DEF Fills, Put, Advance, NewChunk, NewLen
<1> HIDE DEF len
<1>7. /\ c \in ChunkSet
      /\ c.stream = s /\ c.pos = cur[s] /\ c.at = o /\ c.len = len /\ c.tsn = tsn
  <2> HIDE DEF c
  <2> QED BY <1>1, <1>2, <1>3, <1>4, <1>5 DEF ChunkSet
<1>8. o + Align(len) + H <= Mtu
  BY <1>1, <1>2 DEF H
<1> HIDE DEF c
<1> QED BY <1>2, <1>6, <1>7, <1>8 DEF len, c

\* Appending keeps the elements and adds one.
LEMMA AppendFacts ==
  ASSUME NEW S, NEW q \in Seq(S), NEW e \in S
  PROVE  /\ Append(q, e) \in Seq(S) /\ Len(q) \in Nat /\ DOMAIN q = 1 .. Len(q)
         /\ Len(Append(q, e)) = Len(q) + 1 /\ DOMAIN Append(q, e) = 1 .. Len(q) + 1
         /\ \A i \in 1 .. Len(q) : Append(q, e)[i] = q[i]
         /\ Append(q, e)[Len(q) + 1] = e
<1>1. Len(q) \in Nat /\ DOMAIN q = 1 .. Len(q)
  BY LenProperties
<1>2. Append(q, e) \in Seq(S) /\ Len(Append(q, e)) = Len(q) + 1
  OBVIOUS
<1>3. DOMAIN Append(q, e) = 1 .. Len(q) + 1
  BY <1>2, LenProperties
<1>4. \A i \in 1 .. Len(q) : Append(q, e)[i] = q[i]
  OBVIOUS
<1>5. Append(q, e)[Len(q) + 1] = e
  BY <1>1
<1> QED BY <1>1, <1>2, <1>3, <1>4, <1>5

\* What both builders do to the list of chunks.
Builds(c) ==
  /\ c \in ChunkSet
  /\ built' \in Seq(ChunkSet) /\ Len(built) \in Nat
  /\ DOMAIN built = 1 .. Len(built) /\ DOMAIN built' = 1 .. Len(built) + 1
  /\ Len(built') = Len(built) + 1
  /\ \A i \in 1 .. Len(built) : built'[i] = built[i] /\ built[i] \in ChunkSet
  /\ built'[Len(built) + 1] = c

\* Appending a chunk does that.
LEMMA BuildsOne ==
  ASSUME TypeOK, NEW c \in ChunkSet, built' = Append(built, c)
  PROVE  Builds(c)
<1>1. built \in Seq(ChunkSet)
  BY DEF TypeOK
<1>2. \A i \in 1 .. Len(built) : built[i] \in ChunkSet
  BY <1>1, ElementOfSeq
<1> QED BY <1>1, <1>2, AppendFacts DEF Builds

\* The variables that Put changes keep their types.
LEMMA FillsTypes ==
  ASSUME TypeOK, NEW s, NEW b, NEW o, NEW left, Fills(s, b, o, left)
  PROVE  /\ cur' \in [Streams -> 0 .. W - 1] /\ tsn' \in Nat
         /\ off' \in Nat /\ remain' \in Nat
         /\ chunks' \in [Buffers -> Seq(ChunkSet)]
         /\ rtx' \in [0 .. RtxSize - 1 -> ChunkSet \union {NULL}]
         /\ built' \in Seq(ChunkSet)
<1> DEFINE len == NewLen(s, left)
           c   == NewChunk(s, o, left)
<1>1. /\ s \in Streams /\ b \in Buffers /\ o \in Nat /\ left \in Nat /\ o + left = Mtu
  BY DEF Fills
<1>2. /\ len \in Nat /\ c \in ChunkSet /\ o + Align(len) + H <= Mtu
      /\ chunks' = [chunks EXCEPT ![b] = Append(@, c)]
      /\ built' = Append(built, c)
      /\ off' = o + Align(len) /\ remain' = left - Align(len)
      /\ tsn' = NextTsn(tsn)
      /\ rtx' = [rtx EXCEPT ![SlotOf(tsn')] = c]
      /\ cur' = [cur EXCEPT ![s] = (@ + len - H) % W]
  BY FillsFacts
<1> HIDE DEF len, c
<1>3. Align(len) \in Nat
  BY <1>2, AlignFacts
<1>4. cur' \in [Streams -> 0 .. W - 1]
  <2>0. cur[s] \in 0 .. W - 1 /\ W \in Nat \ {0}
    BY <1>1, DataConstants DEF TypeOK
  <2>1. cur[s] + len - H \in Int /\ W \in Nat \ {0}
    BY <1>2, <2>0 DEF H
  <2>2. (cur[s] + len - H) % W \in 0 .. W - 1
    BY <2>1, QuotientRemainder
  <2> QED BY <1>1, <1>2, <2>2 DEF TypeOK
<1>5. tsn' \in Nat
  BY <1>2, NextTsnFacts DEF TypeOK
<1>6. off' \in Nat /\ remain' \in Nat
  BY <1>1, <1>2, <1>3, DataConstants DEF H
<1>7. chunks' \in [Buffers -> Seq(ChunkSet)]
  <2>1. Append(chunks[b], c) \in Seq(ChunkSet)
    BY <1>1, <1>2, AppendFacts DEF TypeOK
  <2> QED BY <1>1, <1>2, <2>1 DEF TypeOK
<1>8. rtx' \in [0 .. RtxSize - 1 -> ChunkSet \union {NULL}]
  BY <1>2 DEF TypeOK
<1>9. built' \in Seq(ChunkSet)
  BY <1>2, AppendFacts DEF TypeOK
<1> QED BY <1>4, <1>5, <1>6, <1>7, <1>8, <1>9

\* The new chunk is stored under the present TSN; the slots of the ByteBase - 1
\* chunks before it are others.
LEMMA FillsTsns ==
  ASSUME TypeOK, NEW s, NEW b, NEW o, NEW left, Fills(s, b, o, left),
         builder = "fill", FillTsns, RtxFindsChunk
  PROVE  FillTsns' /\ RtxFindsChunk'
<1> DEFINE c == NewChunk(s, o, left)
           n == Len(built)
           u == UpperBytes(tsn)
<1>1. /\ c \in ChunkSet /\ c.tsn = tsn /\ built' = Append(built, c)
      /\ tsn' = NextTsn(tsn) /\ rtx' = [rtx EXCEPT ![SlotOf(tsn')] = c]
  BY FillsFacts
<1> HIDE DEF c
<1>2. Builds(c)
  BY <1>1, BuildsOne
<1>3. n \in Nat /\ tsn \in Nat /\ ByteBase \in Nat \ {0} /\ RtxSize \in Nat \ {0}
  BY <1>2, DataConstants DEF Builds, TypeOK
<1>4. /\ tsn' \in Nat /\ u \in Nat /\ UpperBytes(tsn') = u
      /\ tsn' = u + (tsn' % ByteBase)
  BY <1>1, <1>3, NextTsnFacts
<1>5. PICK k \in Int : tsn' = tsn + 1 + ByteBase * k
  BY <1>1, <1>3, NextTsnFacts
<1> HIDE DEF n, u
<1>6. FillTsns'
  <2> SUFFICES ASSUME NEW i \in 1 .. n + 1
               PROVE  NextTsn(built'[i].tsn) = u + ((tsn' - ((n + 1) - i)) % ByteBase)
    BY <1>2, <1>4 DEF FillTsns, Builds, n, UpperBytes, NextTsn
  <2>1. CASE i = n + 1
    <3>1. built'[i] = c /\ tsn' - ((n + 1) - i) = tsn'
      <4>1. \A x, m \in Nat : x - ((m + 1) - (m + 1)) = x
        OBVIOUS
      <4>2. tsn' - ((n + 1) - (n + 1)) = tsn'
        BY <1>3, <1>4, <4>1
      <4> QED BY <1>2, <2>1, <4>2 DEF Builds, n
    <3> QED BY <1>1, <1>4, <3>1
  <2>2. CASE i # n + 1
    <3>1. i \in 1 .. n
      BY <1>3, <2>2
    <3>2. /\ built'[i] = built[i]
          /\ NextTsn(built[i].tsn) = u + ((tsn - (n - i)) % ByteBase)
      BY <1>2, <3>1 DEF Builds, FillTsns, n, u
    <3> DEFINE x == tsn - (n - i)
               y == tsn' - ((n + 1) - i)
    <3>3. x \in Int /\ y \in Int /\ y = x + ByteBase * k
      <4>1. ByteBase * k \in Int
        BY <1>3
      <4> QED BY <1>3, <1>4, <1>5, <3>1, <4>1
    <3> HIDE DEF x, y
    <3>4. x % ByteBase = y % ByteBase
      BY <1>3, <3>3, RemainderShift
    <3> QED BY <3>2, <3>4 DEF x, y
  <2> QED BY <2>1, <2>2
<1>7. RtxFindsChunk'
  <2> SUFFICES ASSUME NEW i \in 1 .. n + 1, (n + 1) - i < ByteBase
               PROVE  rtx'[SlotOf(NextTsn(built'[i].tsn))] = built'[i]
    BY <1>2 DEF RtxFindsChunk, Builds, n, SlotOf, NextTsn
  <2>1. SlotOf(tsn') \in 0 .. RtxSize - 1
    <3>1. tsn' \in Int
      BY <1>4
    <3> QED BY <1>3, <3>1, QuotientRemainder DEF SlotOf
  <2>2. rtx'[SlotOf(tsn')] = c /\ \A j \in 0 .. RtxSize - 1 : j # SlotOf(tsn') => rtx'[j] = rtx[j]
    BY <1>1, <2>1 DEF TypeOK
  <2>3. CASE i = n + 1
    <3>1. built'[i] = c /\ NextTsn(built'[i].tsn) = tsn'
      BY <1>1, <1>2, <2>3 DEF Builds, n
    <3> QED BY <2>2, <3>1
  <2>4. CASE i # n + 1
    <3>1. i \in 1 .. n /\ n - i < ByteBase /\ (n + 1) - i \in 1 .. ByteBase - 1
      BY <1>3, <2>4
    <3>2. built'[i] = built[i] /\ i \in DOMAIN built
      BY <1>2, <3>1 DEF Builds, n
    <3>3. rtx[SlotOf(NextTsn(built[i].tsn))] = built[i]
      BY <3>1, <3>2 DEF RtxFindsChunk, n
    <3>4. NextTsn(built'[i].tsn) = u + ((tsn' - ((n + 1) - i)) % ByteBase)
      <4>1. i \in DOMAIN built' /\ Len(built') = n + 1
        BY <1>2, <1>3, <3>1 DEF Builds, n
      <4> QED BY <1>4, <1>6, <4>1 DEF FillTsns, UpperBytes, NextTsn
    <3> DEFINE d == (n + 1) - i
    <3> HIDE DEF d
    <3>5. SlotOf(u + ((tsn' - d) % ByteBase)) # SlotOf(u + (tsn' % ByteBase))
      BY <1>4, <3>1, SlotsApart DEF d
    <3>6. SlotOf(NextTsn(built[i].tsn)) # SlotOf(tsn')
      BY <1>4, <3>2, <3>4, <3>5 DEF d
    <3>7. SlotOf(NextTsn(built[i].tsn)) \in 0 .. RtxSize - 1
      <4>1. NextTsn(built[i].tsn) \in Nat
        BY <1>2, <3>1, NextTsnFacts DEF Builds, ChunkSet, n
      <4> QED BY <1>3, <4>1, QuotientRemainder DEF SlotOf
    <3> QED BY <2>2, <3>2, <3>3, <3>6, <3>7
  <2> QED BY <2>3, <2>4
<1> QED BY <1>6, <1>7

\* Whether a stream went below zero is decided by the chunks there were.
LEMMA BelowZeroGrows ==
  ASSUME NEW c, Builds(c)
  PROVE  /\ \A t, m : m \in 0 .. Len(built) => (BelowZero(t, m)' <=> BelowZero(t, m))
         /\ \A t : BelowZero(t, Len(built))' <=>
                      BelowZero(t, Len(built)) \/ (c.stream = t /\ c.pos + c.len < H)
<1> DEFINE n == Len(built)
<1>1. /\ n \in Nat /\ Len(built') = n + 1 /\ built'[n + 1] = c
      /\ \A i \in 1 .. n : built'[i] = built[i]
  BY DEF Builds
<1> HIDE DEF n
<1>2. ASSUME NEW t, NEW m \in 0 .. n PROVE BelowZero(t, m)' <=> BelowZero(t, m)
  <2>1. \A j \in 1 .. m : j \in 1 .. n
    BY <1>1
  <2> QED BY <1>1, <2>1 DEF BelowZero
<1>3. ASSUME NEW t
      PROVE  (\E j \in 1 .. n + 1 : built'[j].stream = t /\ built'[j].pos + built'[j].len < H)
             <=> \/ \E j \in 1 .. n : built[j].stream = t /\ built[j].pos + built[j].len < H
                 \/ c.stream = t /\ c.pos + c.len < H
  <2>1. \A j : j \in 1 .. n + 1 <=> (j \in 1 .. n \/ j = n + 1)
    BY <1>1
  <2> QED BY <1>1, <2>1
<1> QED BY <1>1, <1>2, <1>3 DEF BelowZero, n

\* What the chunks of a stream carry, and what one more adds.
LEMMA CarriedGrows ==
  ASSUME NEW c, Builds(c)
  PROVE  \A t, x : x \in Carried(t)' <=>
                      \/ x \in Carried(t)
                      \/ c.stream = t /\ x \in c.pos .. (c.pos + c.len - H - 1)
<1> DEFINE n == Len(built)
<1>1. /\ n \in Nat /\ DOMAIN built' = 1 .. n + 1 /\ built'[n + 1] = c
      /\ DOMAIN built = 1 .. n /\ \A i \in 1 .. n : built'[i] = built[i]
  BY DEF Builds
<1> HIDE DEF n
<1>2. ASSUME NEW t, NEW x
      PROVE  x \in Carried(t) <=> \E i \in DOMAIN built :
                /\ built[i].stream = t
                /\ x \in built[i].pos .. (built[i].pos + built[i].len - H - 1)
  BY DEF Carried
<1>3. ASSUME NEW t, NEW x
      PROVE  x \in Carried(t)' <=> \E i \in DOMAIN built' :
                /\ built'[i].stream = t
                /\ x \in built'[i].pos .. (built'[i].pos + built'[i].len - H - 1)
  BY DEF Carried
<1>4. \A j : j \in 1 .. n + 1 <=> (j \in 1 .. n \/ j = n + 1)
  BY <1>1
<1> QED BY <1>1, <1>2, <1>3, <1>4

\* pos_current without a wrap: a chunk that has its header before it, or
\* enough of the message, moves it forward to where its payload ends.
LEMMA FillsCur ==
  ASSUME TypeOK, NEW s, NEW b, NEW o, NEW left, Fills(s, b, o, left), cur[s] <= high[s]
  PROVE  LET len == NewLen(s, left)
         IN  /\ cur[s] + len <= high[s]
             /\ ~(cur[s] + len < H) => cur'[s] = cur[s] + len - H
<1> DEFINE len == NewLen(s, left)
           h == high[s]
           p == cur[s]
<1>1. s \in Streams /\ left \in Nat /\ H + 4 <= left
  BY DEF Fills
<1>2. h \in 0 .. W - 1 /\ p \in 0 .. W - 1 /\ W \in Nat \ {0} /\ p <= h
  BY <1>1, DataConstants DEF TypeOK
<1>3. len \in Nat /\ len <= Diff(h, p)
  BY <1>1, NewLenFits
<1>4. cur' = [cur EXCEPT ![s] = (@ + len - H) % W]
  BY FillsFacts
<1>5. cur'[s] = (p + len - H) % W
  BY <1>1, <1>4 DEF TypeOK
<1> HIDE DEF len, h, p
<1>6. Diff(h, p) = h - p
  <2>1. h - p \in 0 .. W - 1
    BY <1>2
  <2> QED BY <1>2, <2>1, RemainderSmall DEF Diff
<1>7. p + len <= h
  BY <1>2, <1>3, <1>6
<1>8. ASSUME ~(p + len < H) PROVE cur'[s] = p + len - H
  <2>1. p + len - H \in 0 .. W - 1
    BY <1>2, <1>3, <1>7, <1>8 DEF H
  <2> QED BY <1>2, <1>5, <2>1, RemainderSmall
<1> QED BY <1>7, <1>8 DEF len, h, p

\* No byte is skipped and none is read outside the message.
LEMMA FillsPositions ==
  ASSUME TypeOK, NEW s, NEW b, NEW o, NEW left, Fills(s, b, o, left),
         builder = "fill", UNCHANGED <<builder, high>>, FillPositions, MessagesCarried
  PROVE  FillPositions' /\ MessagesCarried'
<1> DEFINE len == NewLen(s, left)
           c == NewChunk(s, o, left)
           n == Len(built)
<1>1. /\ len \in Nat /\ c \in ChunkSet /\ c.stream = s /\ c.pos = cur[s] /\ c.len = len
      /\ built' = Append(built, c)
      /\ cur' = [cur EXCEPT ![s] = (@ + len - H) % W]
  BY FillsFacts
<1> HIDE DEF c, len
<1>2. Builds(c)
  BY <1>1, BuildsOne
<1>3. s \in Streams /\ high[s] \in Nat /\ cur[s] \in Nat
  BY DataConstants DEF Fills, TypeOK
<1>4. cur[s] <= high[s] => /\ cur[s] + len <= high[s]
                           /\ ~(cur[s] + len < H) => cur'[s] = cur[s] + len - H
  BY FillsCur DEF len
<1>5. \A t \in Streams \ {s} : cur'[t] = cur[t]
  BY <1>1 DEF TypeOK
<1>6. ASSUME NEW t \in Streams, ~BelowZero(t, Len(built))'
      PROVE  /\ ~BelowZero(t, n)
             /\ t = s => cur[s] + len <= high[s] /\ cur'[s] = cur[s] + len - H
  <2>1. ~BelowZero(t, n) /\ ~(s = t /\ cur[s] + len < H)
    BY <1>1, <1>2, <1>6, BelowZeroGrows
  <2>2. cur[t] <= high[t]
    BY <2>1 DEF FillPositions, n
  <2> QED BY <1>4, <2>1, <2>2
<1>7. FillPositions'
  <2> SUFFICES ASSUME NEW t \in Streams, ~BelowZero(t, Len(built))'
               PROVE  cur'[t] <= high[t]
    BY DEF FillPositions
  <2>1. CASE t = s
    BY <1>1, <1>3, <1>6, <2>1 DEF H
  <2>2. CASE t # s
    BY <1>5, <1>6, <2>2 DEF FillPositions, n
  <2> QED BY <2>1, <2>2
<1>8. NoByteSkipped'
  <2> SUFFICES ASSUME NEW t \in Streams, ~BelowZero(t, Len(built))'
               PROVE  /\ (0 .. cur'[t] - 1) \subseteq Carried(t)'
                      /\ Carried(t)' \intersect ((high[t] - H) .. (high[t] - 1)) = {}
    BY DEF NoByteSkipped
  <2>1. /\ (0 .. cur[t] - 1) \subseteq Carried(t)
        /\ Carried(t) \intersect ((high[t] - H) .. (high[t] - 1)) = {}
    BY <1>6 DEF MessagesCarried, NoByteSkipped, n
  <2>2. \A x : x \in Carried(t)' <=>
                 \/ x \in Carried(t)
                 \/ s = t /\ x \in cur[s] .. (cur[s] + len - H - 1)
    BY <1>1, <1>2, CarriedGrows
  <2>3. CASE t = s
    <3>1. cur[s] + len <= high[s] /\ cur'[s] = cur[s] + len - H
      BY <1>6, <2>3
    <3>2. ASSUME NEW x \in 0 .. cur'[t] - 1 PROVE x \in Carried(t)'
      <4>1. x \in 0 .. cur[t] - 1 \/ x \in cur[s] .. (cur[s] + len - H - 1)
        BY <1>1, <1>3, <2>3, <3>1 DEF H
      <4> QED BY <2>1, <2>2, <2>3, <4>1
    <3>3. ASSUME NEW x \in Carried(t)', x \in (high[t] - H) .. (high[t] - 1) PROVE FALSE
      <4>1. x \in cur[s] .. (cur[s] + len - H - 1)
        BY <2>1, <2>2, <3>3
      <4> QED BY <1>1, <1>3, <2>3, <3>1, <3>3, <4>1 DEF H
    <3> QED BY <3>2, <3>3
  <2>4. CASE t # s
    BY <1>5, <2>1, <2>2, <2>4
  <2> QED BY <2>3, <2>4
<1>9. ReadsInside'
  <2> SUFFICES ASSUME NEW i \in 1 .. n + 1
               PROVE  \/ built'[i].pos + built'[i].len <= high[built'[i].stream]
                      \/ \E j \in 1 .. i - 1 : /\ built'[j].stream = built'[i].stream
                                               /\ built'[j].pos + built'[j].len < H
    BY <1>2 DEF ReadsInside, Builds, n, BelowZero
  <2>1. /\ n \in Nat /\ \A j \in 1 .. i - 1 : j \in 1 .. n
        /\ \A j \in 1 .. n : built'[j] = built[j]
    BY <1>2 DEF Builds, n
  <2>2. CASE i = n + 1
    <3>1. built'[i] = c /\ i - 1 = n
      BY <1>2, <2>1, <2>2 DEF Builds, n
    <3>2. CASE BelowZero(s, n)
      BY <1>1, <2>1, <3>1, <3>2 DEF BelowZero
    <3>3. CASE ~BelowZero(s, n)
      <4>1. cur[s] <= high[s]
        BY <1>3, <3>3 DEF FillPositions, n
      <4> QED BY <1>1, <1>4, <3>1, <4>1
    <3> QED BY <3>2, <3>3
  <2>3. CASE i # n + 1
    <3>1. i \in 1 .. n
      BY <2>1, <2>3
    <3>2. built'[i] = built[i] /\ i \in DOMAIN built
      BY <1>2, <3>1 DEF Builds, n
    <3>3. \/ built[i].pos + built[i].len <= high[built[i].stream]
          \/ BelowZero(built[i].stream, i - 1)
      BY <3>2 DEF MessagesCarried, ReadsInside
    <3> QED BY <2>1, <3>2, <3>3 DEF BelowZero
  <2> QED BY <2>2, <2>3
<1>10. ReassemblesWhole'
  BY DEF ReassemblesWhole
<1> QED BY <1>7, <1>8, <1>9, <1>10 DEF MessagesCarried

-----------------------------------------------------------------------------
(***************************************************************************)
(* Packets and rings of cells                                              *)
(***************************************************************************)
\* A chunk written where the last one ends can be walked to.
LEMMA WalksAppend ==
  ASSUME NEW q \in Seq(ChunkSet), NEW c \in ChunkSet, Walks(q), c.at = EndOf(q)
  PROVE  Walks(Append(q, c)) /\ EndOf(Append(q, c)) = c.at + Align(c.len)
<1> DEFINE r == Append(q, c)
           n == Len(q)
<1>1. /\ r \in Seq(ChunkSet) /\ n \in Nat /\ DOMAIN q = 1 .. n /\ Len(r) = n + 1
      /\ DOMAIN r = 1 .. n + 1 /\ r[n + 1] = c /\ \A i \in 1 .. n : r[i] = q[i]
  BY AppendFacts
<1>2. n = 0 <=> q = << >>
  BY <1>1, EmptySeq
<1> HIDE DEF r, n
<1>3. EndOf(r) = c.at + Align(c.len)
  <2>1. r # << >> /\ Last(r) = c
    BY <1>1 DEF Last
  <2> QED BY <2>1 DEF EndOf
<1>4. ASSUME NEW i \in 1 .. n + 1
      PROVE  r[i].at = IF i = 1 THEN 0 ELSE r[i - 1].at + Align(r[i - 1].len)
  <2>1. CASE i = n + 1 /\ n = 0
    BY <1>1, <1>2, <2>1 DEF EndOf
  <2>2. CASE i = n + 1 /\ n # 0
    <3>1. q # << >> /\ i # 1 /\ i - 1 = n /\ n \in 1 .. n
      BY <1>1, <1>2, <2>2
    <3>2. r[i] = c /\ r[i - 1] = q[n]
      BY <1>1, <2>2, <3>1
    <3>3. EndOf(q) = q[n].at + Align(q[n].len)
      BY <3>1 DEF EndOf, Last, n
    <3> QED BY <3>1, <3>2, <3>3
  <2>3. CASE i # n + 1
    <3>1. i \in 1 .. n /\ (i # 1 => i - 1 \in 1 .. n)
      BY <1>1, <2>3
    <3>2. q[i].at = IF i = 1 THEN 0 ELSE q[i - 1].at + Align(q[i - 1].len)
      BY <1>1, <3>1 DEF Walks
    <3> QED BY <1>1, <3>1, <3>2
  <2> QED BY <2>1, <2>2, <2>3
<1>5. Walks(r)
  BY <1>1, <1>4 DEF Walks
<1> QED BY <1>3, <1>5 DEF r

\* A cell put at the end of a ring.
LEMMA RingAppend ==
  ASSUME NEW q \in Seq(CellSet), NEW e \in CellSet
  PROVE  /\ \A x : Has(Append(q, e), x) <=> Has(q, x) \/ x = e.buf
         /\ Distinct(q) /\ ~Has(q, e.buf) => Distinct(Append(q, e))
<1> DEFINE r == Append(q, e)
           n == Len(q)
<1>1. /\ n \in Nat /\ DOMAIN q = 1 .. n /\ DOMAIN r = 1 .. n + 1
      /\ r[n + 1] = e /\ \A i \in 1 .. n : r[i] = q[i]
  BY AppendFacts
<1> HIDE DEF r, n
<1>2. \A j : j \in 1 .. n + 1 <=> (j \in 1 .. n \/ j = n + 1)
  BY <1>1
<1>3. \A x : Has(r, x) <=> Has(q, x) \/ x = e.buf
  BY <1>1, <1>2 DEF Has
<1>4. Distinct(q) /\ ~Has(q, e.buf) => Distinct(r)
  BY <1>1, <1>2 DEF Has, Distinct
<1> QED BY <1>3, <1>4 DEF r

\* The first cell of a ring taken away.
LEMMA RingTail ==
  ASSUME NEW q \in Seq(CellSet), q # << >>
  PROVE  /\ Head(q) \in CellSet /\ Head(q) = q[1] /\ 1 \in DOMAIN q
         /\ Tail(q) \in Seq(CellSet) /\ Len(Tail(q)) = Len(q) - 1
         /\ \A i \in DOMAIN Tail(q) : i + 1 \in DOMAIN q /\ Tail(q)[i] = q[i + 1]
         /\ Has(q, Head(q).buf)
         /\ \A x : x # Head(q).buf => (Has(Tail(q), x) <=> Has(q, x))
         /\ Distinct(q) => Distinct(Tail(q)) /\ ~Has(Tail(q), Head(q).buf)
<1> DEFINE r == Tail(q)
           n == Len(q)
<1>1. /\ Head(q) \in CellSet /\ r \in Seq(CellSet) /\ Len(r) = n - 1
      /\ n \in Nat /\ DOMAIN q = 1 .. n /\ n # 0
  BY HeadTailProperties, LenProperties, EmptySeq
<1>2. Head(q) = q[1] /\ DOMAIN r = 1 .. n - 1 /\ \A i \in 1 .. n - 1 : r[i] = q[i + 1]
  BY <1>1, LenProperties
<1> HIDE DEF r, n
<1>3. 1 \in 1 .. n /\ \A i \in 1 .. n - 1 : i + 1 \in 1 .. n /\ i + 1 # 1
  BY <1>1
<1>4. \A j \in 1 .. n : j = 1 \/ (j - 1 \in 1 .. n - 1 /\ (j - 1) + 1 = j)
  BY <1>1
<1>5. \A i, j \in 1 .. n - 1 : i + 1 = j + 1 => i = j
  BY <1>1
<1>6. Has(q, Head(q).buf)
  BY <1>1, <1>2, <1>3 DEF Has
<1>7. \A x : x # Head(q).buf => (Has(r, x) <=> Has(q, x))
  <2> TAKE x
  <2> HAVE x # Head(q).buf
  <2>1. Has(r, x) => Has(q, x)
    BY <1>1, <1>2, <1>3 DEF Has
  <2>2. Has(q, x) => Has(r, x)
    <3> SUFFICES ASSUME NEW j \in 1 .. n, q[j].buf = x PROVE Has(r, x)
      BY <1>1 DEF Has
    <3>1. j # 1
      BY <1>2
    <3>2. j - 1 \in 1 .. n - 1 /\ r[j - 1] = q[j]
      BY <1>2, <1>4, <3>1
    <3> QED BY <1>2, <3>2 DEF Has
  <2> QED BY <2>1, <2>2
<1>8. Distinct(q) => Distinct(r) /\ ~Has(r, Head(q).buf)
  <2> SUFFICES ASSUME Distinct(q) PROVE Distinct(r) /\ ~Has(r, Head(q).buf)
    OBVIOUS
  <2>1. \A i, j \in 1 .. n : q[i].buf = q[j].buf => i = j
    BY <1>1 DEF Distinct
  <2>2. \A i, j \in 1 .. n - 1 : r[i].buf = r[j].buf => i + 1 = j + 1
    BY <1>2, <1>3, <2>1
  <2>3. \A i \in 1 .. n - 1 : r[i].buf # q[1].buf
    BY <1>2, <1>3, <2>1
  <2> QED BY <1>2, <1>5, <2>2, <2>3 DEF Distinct, Has
<1> QED BY <1>1, <1>2, <1>3, <1>6, <1>7, <1>8 DEF r, n

\* Two rings one after the other.
LEMMA RingConcat ==
  ASSUME NEW q \in Seq(CellSet), NEW r \in Seq(CellSet)
  PROVE  /\ q \o r \in Seq(CellSet) /\ Len(q \o r) = Len(q) + Len(r)
         /\ \A i \in DOMAIN (q \o r) : \/ i \in DOMAIN q /\ (q \o r)[i] = q[i]
                                       \/ \E j \in DOMAIN r : (q \o r)[i] = r[j]
         /\ \A x : Has(q \o r, x) <=> Has(q, x) \/ Has(r, x)
         /\ Distinct(q) /\ Distinct(r) /\ (\A x : Has(q, x) => ~Has(r, x))
            => Distinct(q \o r)
<1> DEFINE t == q \o r
           m == Len(q)
           n == Len(r)
<1>1. /\ t \in Seq(CellSet) /\ Len(t) = m + n /\ m \in Nat /\ n \in Nat
      /\ DOMAIN q = 1 .. m /\ DOMAIN r = 1 .. n
  BY ConcatProperties, LenProperties
<1>2. DOMAIN t = 1 .. m + n
  BY <1>1, LenProperties
<1>3. \A i \in 1 .. m + n : t[i] = IF i <= m THEN q[i] ELSE r[i - m]
  BY ConcatProperties
<1> HIDE DEF t, m, n
<1>4. \A i \in 1 .. m : i \in 1 .. m + n /\ t[i] = q[i]
  BY <1>1, <1>3
<1>5. \A j \in 1 .. n : m + j \in 1 .. m + n /\ t[m + j] = r[j] /\ ~(m + j <= m)
  <2> TAKE j \in 1 .. n
  <2>1. m + j \in 1 .. m + n /\ ~(m + j <= m) /\ (m + j) - m = j
    BY <1>1
  <2> QED BY <1>3, <2>1
<1>6. \A i \in 1 .. m + n : i \in 1 .. m \/ (i - m \in 1 .. n /\ m + (i - m) = i)
  BY <1>1
<1>7. \A x : Has(t, x) <=> Has(q, x) \/ Has(r, x)
  <2> TAKE x
  <2>1. Has(q, x) \/ Has(r, x) => Has(t, x)
    BY <1>1, <1>2, <1>4, <1>5 DEF Has
  <2>2. Has(t, x) => Has(q, x) \/ Has(r, x)
    <3> SUFFICES ASSUME NEW i \in 1 .. m + n, t[i].buf = x PROVE Has(q, x) \/ Has(r, x)
      BY <1>2 DEF Has
    <3>1. CASE i \in 1 .. m
      BY <1>1, <1>4, <3>1 DEF Has
    <3>2. CASE i - m \in 1 .. n /\ m + (i - m) = i
      BY <1>1, <1>5, <3>2 DEF Has
    <3> QED BY <1>6, <3>1, <3>2
  <2> QED BY <2>1, <2>2
<1>8. ASSUME Distinct(q), Distinct(r), \A x : Has(q, x) => ~Has(r, x) PROVE Distinct(t)
  <2> SUFFICES ASSUME NEW i \in 1 .. m + n, NEW j \in 1 .. m + n, t[i].buf = t[j].buf
               PROVE  i = j
    BY <1>2 DEF Distinct
  <2>1. CASE i \in 1 .. m /\ j \in 1 .. m
    BY <1>1, <1>4, <1>8, <2>1 DEF Distinct
  <2>2. CASE i \in 1 .. m /\ ~(j \in 1 .. m)
    <3>1. Has(q, t[i].buf) /\ Has(r, t[j].buf)
      <4>1. t[i] = q[i] /\ j - m \in 1 .. n /\ t[j] = r[j - m]
        BY <1>4, <1>5, <1>6, <2>2
      <4> QED BY <1>1, <2>2, <4>1 DEF Has
    <3> QED BY <1>8, <3>1
  <2>3. CASE ~(i \in 1 .. m) /\ j \in 1 .. m
    <3>1. Has(r, t[i].buf) /\ Has(q, t[j].buf)
      <4>1. t[j] = q[j] /\ i - m \in 1 .. n /\ t[i] = r[i - m]
        BY <1>4, <1>5, <1>6, <2>3
      <4> QED BY <1>1, <2>3, <4>1 DEF Has
    <3> QED BY <1>8, <3>1
  <2>4. CASE ~(i \in 1 .. m) /\ ~(j \in 1 .. m)
    <3>1. /\ i - m \in 1 .. n /\ m + (i - m) = i
          /\ j - m \in 1 .. n /\ m + (j - m) = j
      BY <1>6, <2>4
    <3>2. t[i] = r[i - m] /\ t[j] = r[j - m]
      BY <1>5, <3>1
    <3>3. i - m = j - m
      BY <1>1, <1>8, <3>1, <3>2 DEF Distinct
    <3> QED BY <3>1, <3>3
  <2> QED BY <2>1, <2>2, <2>3, <2>4
<1>9. \A i \in 1 .. m + n : \/ i \in 1 .. m /\ t[i] = q[i]
                            \/ \E j \in 1 .. n : t[i] = r[j]
  BY <1>4, <1>5, <1>6
<1> QED BY <1>1, <1>2, <1>7, <1>8, <1>9 DEF t, m, n

-----------------------------------------------------------------------------
(***************************************************************************)
(* The steps of sctp_build_data_hdr                                        *)
(***************************************************************************)
\* A buffer is taken from the pool, and the packet there was is queued.
LEMMA TakesBuffer ==
  ASSUME TypeOK, FillBuffers, FillPackets, pool # << >>,
         pool' = Tail(pool), current' = Head(pool).buf, UNCHANGED <<bundling, crashed>>,
         \/ current = NULL /\ tx' = tx
         \/ current # NULL /\ tx' = Append(tx, Cell(current, Mtu - remain))
  PROVE  /\ FillBuffers'
         /\ pool' \in Seq(CellSet) /\ tx' \in Seq(CellSet) /\ current' \in Buffers
         /\ current' # NULL /\ chunks[current'] = << >>
         /\ \A i \in DOMAIN pool' : /\ pool'[i].plen = 0 /\ chunks[pool'[i].buf] = << >>
                                    /\ pool'[i].buf # current'
         /\ \A i \in DOMAIN tx' : /\ tx'[i].plen = EndOf(chunks[tx'[i].buf])
                                  /\ tx'[i].buf # current'
<1> DEFINE x == Head(pool).buf
           e == Cell(current, Mtu - remain)
<1>1. pool \in Seq(CellSet) /\ tx \in Seq(CellSet) /\ current \in Buffers \union {NULL}
  BY DEF TypeOK
<1>2. /\ Head(pool) \in CellSet /\ Head(pool) = pool[1] /\ 1 \in DOMAIN pool
      /\ Tail(pool) \in Seq(CellSet) /\ Len(Tail(pool)) = Len(pool) - 1
      /\ \A i \in DOMAIN Tail(pool) : i + 1 \in DOMAIN pool /\ Tail(pool)[i] = pool[i + 1]
      /\ Has(pool, x)
      /\ \A y : y # x => (Has(Tail(pool), y) <=> Has(pool, y))
      /\ Distinct(pool) => Distinct(Tail(pool)) /\ ~Has(Tail(pool), x)
  BY <1>1, RingTail
<1>3. x \in Buffers /\ x # NULL
  BY <1>2, BuffersAssumption DEF CellSet
<1>4. Distinct(pool) /\ Distinct(tx) /\ Distinct(Tail(pool)) /\ ~Has(Tail(pool), x)
  BY <1>2 DEF FillBuffers
<1>5. x # current /\ ~Has(tx, x)
  BY <1>2, <1>3 DEF FillBuffers
<1> HIDE DEF x
<1>6. current # NULL =>
        /\ current \in Buffers /\ e \in CellSet /\ e.buf = current
        /\ e.plen = EndOf(chunks[current])
        /\ ~Has(tx, current) /\ ~Has(pool, current)
  <2> SUFFICES ASSUME current # NULL PROVE
        /\ current \in Buffers /\ e \in CellSet /\ e.buf = current
        /\ e.plen = EndOf(chunks[current])
        /\ ~Has(tx, current) /\ ~Has(pool, current)
    OBVIOUS
  <2>1. current \in Buffers /\ Mtu - remain = off /\ off \in Nat
    BY <1>1, DataConstants DEF FillPackets, TypeOK
  <2>2. off = EndOf(chunks[current])
    BY DEF FillPackets
  <2>3. ~Has(tx, current) /\ ~Has(pool, current)
    BY <2>1 DEF FillBuffers
  <2> QED BY <2>1, <2>2, <2>3 DEF Cell, CellSet
<1> HIDE DEF e
<1>7. /\ tx' \in Seq(CellSet) /\ Distinct(tx')
      /\ \A y : Has(tx', y) <=> Has(tx, y) \/ (current # NULL /\ y = current)
      /\ \A i \in DOMAIN tx' : tx'[i].plen = EndOf(chunks[tx'[i].buf])
      /\ Len(tx') = Len(tx) + (IF current = NULL THEN 0 ELSE 1)
  <2>0. Len(tx) \in Nat
    BY <1>1, LenProperties
  <2>1. CASE current = NULL
    BY <1>1, <1>4, <2>0, <2>1 DEF FillPackets
  <2>2. CASE current # NULL
    <3>1. tx' = Append(tx, e)
      BY <2>2 DEF e
    <3>2. /\ tx' \in Seq(CellSet) /\ DOMAIN tx = 1 .. Len(tx)
          /\ Len(tx') = Len(tx) + 1 /\ DOMAIN tx' = 1 .. Len(tx) + 1
          /\ \A i \in 1 .. Len(tx) : tx'[i] = tx[i]
          /\ tx'[Len(tx) + 1] = e
      BY <1>1, <1>6, <2>2, <3>1, AppendFacts
    <3>3. Distinct(tx') /\ \A y : Has(tx', y) <=> Has(tx, y) \/ y = current
      BY <1>1, <1>4, <1>6, <2>2, <3>1, RingAppend
    <3>4. ASSUME NEW i \in DOMAIN tx' PROVE tx'[i].plen = EndOf(chunks[tx'[i].buf])
      <4>1. i \in DOMAIN tx \/ i = Len(tx) + 1
        BY <2>0, <3>2
      <4>2. CASE i \in DOMAIN tx
        BY <3>2, <4>2 DEF FillPackets
      <4>3. CASE i = Len(tx) + 1
        BY <1>6, <2>2, <3>2, <4>3
      <4> QED BY <4>1, <4>2, <4>3
    <3> QED BY <2>2, <3>2, <3>3, <3>4
  <2> QED BY <2>1, <2>2
<1>8. \A y \in Buffers : \/ y = x /\ ~Has(pool', y) /\ ~Has(tx', y)
                         \/ y # x /\ Has(pool', y) /\ ~Has(tx', y)
                         \/ y # x /\ ~Has(pool', y) /\ Has(tx', y)
  <2> TAKE y \in Buffers
  <2>1. CASE y = x
    BY <1>4, <1>5, <1>7, <2>1
  <2>2. CASE y # x /\ y = current
    BY <1>2, <1>6, <1>7, <2>2, BuffersAssumption
  <2>3. CASE y # x /\ y # current
    BY <1>2, <1>7, <2>3 DEF FillBuffers
  <2> QED BY <2>1, <2>2, <2>3
<1>9. Len(pool') + Len(tx') + 1 = Cardinality(Buffers)
  <2>1. Len(pool) \in Nat /\ Len(tx) \in Nat
    BY <1>1, LenProperties
  <2>2. Len(pool) + Len(tx) + (IF current = NULL THEN 0 ELSE 1) = Cardinality(Buffers)
    BY DEF FillBuffers
  <2>3. Len(pool') = Len(pool) - 1
    BY <1>2
  <2>4. Len(tx') = Len(tx) + (IF current = NULL THEN 0 ELSE 1)
    BY <1>7
  <2>5. CASE current = NULL
    BY <2>1, <2>2, <2>3, <2>4, <2>5
  <2>6. CASE current # NULL
    BY <2>1, <2>2, <2>3, <2>4, <2>6
  <2> QED BY <2>5, <2>6
<1>10. FillBuffers'
  <2>1. /\ bundling' = << >> /\ Distinct(pool') /\ Distinct(tx')
        /\ current' = x /\ x # NULL
    BY <1>3, <1>4, <1>7 DEF FillBuffers, x
  <2> QED BY <1>8, <1>9, <2>1 DEF FillBuffers, Has, Distinct
<1>11. ASSUME NEW i \in DOMAIN pool'
       PROVE  /\ pool'[i].plen = 0 /\ chunks[pool'[i].buf] = << >>
              /\ pool'[i].buf # x
  BY <1>2, <1>4 DEF FillPackets, Has
<1>12. \A i \in DOMAIN tx' : tx'[i].buf # x
  <2>1. ~Has(tx', x)
    BY <1>3, <1>5, <1>7
  <2> QED BY <2>1 DEF Has
<1>13. chunks[x] = << >>
  BY <1>2 DEF FillPackets, x
<1>14. current' = x
  BY DEF x
<1> QED BY <1>2, <1>3, <1>7, <1>10, <1>11, <1>12, <1>13, <1>14

\* What a step keeps that builds no chunk.
LEMMA NothingBuilt ==
  ASSUME UNCHANGED <<builder, high, cur, tsn, rtx, built>>
  PROVE  /\ MessagesCarried => MessagesCarried'
         /\ RtxFindsChunk => RtxFindsChunk'
         /\ FillTsns => FillTsns'
         /\ FillPositions => FillPositions'
         /\ BundlePositions => BundlePositions'
<1>1. ReadsInside => ReadsInside'
  BY DEF ReadsInside, BelowZero
<1>2. NoByteSkipped => NoByteSkipped'
  BY DEF NoByteSkipped, BelowZero, Carried
<1>3. ReassemblesWhole => ReassemblesWhole'
  BY DEF ReassemblesWhole, Earlier, PayloadEnd
<1>4. RtxFindsChunk => RtxFindsChunk'
  BY DEF RtxFindsChunk
<1>5. FillTsns => FillTsns'
  BY DEF FillTsns, UpperBytes, NextTsn
<1>6. FillPositions => FillPositions'
  BY DEF FillPositions, BelowZero
<1>7. BundlePositions => BundlePositions'
  BY DEF BundlePositions, PayloadEnd
<1> QED BY <1>1, <1>2, <1>3, <1>4, <1>5, <1>6, <1>7 DEF MessagesCarried

\* The first packet.
LEMMA InvBegin == DataInvariant /\ Begin => DataInvariant'
<1> SUFFICES ASSUME DataInvariant, Begin PROVE DataInvariant'
  OBVIOUS
<1>1. /\ TypeOK /\ builder = "fill" /\ current = NULL /\ ~crashed
      /\ FillBuffers /\ FillPackets /\ FillTsns /\ FillPositions
      /\ QueuedPacketsCarryData /\ MessagesCarried /\ RtxFindsChunk
  BY DEF DataInvariant, Begin, Running
<1>2. /\ pool' = Tail(pool) /\ current' = Head(pool).buf /\ remain' = Mtu /\ off' = 0
      /\ UNCHANGED <<builder, high, cur, tsn, bundling, tx, chunks, rtx, built, found, crashed>>
  BY DEF Begin
<1>3. pool # << >>
  <2>1. tx = << >> /\ Len(pool) + Len(tx) + 0 = Cardinality(Buffers)
    BY <1>1 DEF FillBuffers
  <2>2. Cardinality(Buffers) # 0
    BY DataConstants
  <2> QED BY <2>1, <2>2
<1>4. /\ FillBuffers'
      /\ pool' \in Seq(CellSet) /\ tx' \in Seq(CellSet) /\ current' \in Buffers
      /\ current' # NULL /\ chunks[current'] = << >>
      /\ \A i \in DOMAIN pool' : pool'[i].plen = 0 /\ chunks[pool'[i].buf] = << >>
      /\ \A i \in DOMAIN tx' : tx'[i].plen = EndOf(chunks[tx'[i].buf])
  BY <1>1, <1>2, <1>3, TakesBuffer
<1>5. TypeOK'
  BY <1>1, <1>2, <1>4, DataConstants DEF TypeOK
<1>6. FillPackets'
  <2>1. off' = EndOf(chunks'[current']) /\ off' + remain' = Mtu
    BY <1>2, <1>4, DataConstants DEF EndOf
  <2>2. \A i \in DOMAIN built : built[i].at + Align(built[i].len) + H <= Mtu
    BY <1>1 DEF FillPackets
  <2> QED BY <1>2, <1>4, <2>1, <2>2 DEF FillPackets, EndOf
<1>7. QueuedPacketsCarryData'
  BY <1>1, <1>2 DEF QueuedPacketsCarryData
<1>8. FillTsns' /\ FillPositions' /\ MessagesCarried' /\ RtxFindsChunk'
  BY <1>1, <1>2, NothingBuilt
<1>9. \A b \in Buffers : Walks(chunks'[b])
  BY <1>2 DEF DataInvariant
<1>10. builder' = "fill"
  BY <1>1, <1>2
<1> QED BY <1>4, <1>5, <1>6, <1>7, <1>8, <1>9, <1>10 DEF DataInvariant, Walks

\* A chunk in the packet there is, or in a fresh one.
LEMMA InvFills ==
  ASSUME DataInvariant, builder = "fill", ~crashed,
         UNCHANGED <<builder, high, bundling, found, crashed>>,
         FillBuffers', pool' \in Seq(CellSet), tx' \in Seq(CellSet), current' # NULL,
         NEW s, NEW o, NEW left, NEW b, b = current', Fills(s, b, o, left),
         \A i \in DOMAIN pool' : /\ pool'[i].plen = 0 /\ chunks[pool'[i].buf] = << >>
                                 /\ pool'[i].buf # b,
         \A i \in DOMAIN tx' : /\ tx'[i].plen = EndOf(chunks[tx'[i].buf])
                               /\ tx'[i].buf # b /\ tx'[i].plen > 0
  PROVE  DataInvariant'
<1> DEFINE len == NewLen(s, left)
           c   == NewChunk(s, o, left)
<1>1. TypeOK /\ FillPackets /\ FillTsns /\ FillPositions /\ MessagesCarried /\ RtxFindsChunk
  BY DEF DataInvariant
<1>2. /\ s \in Streams /\ b \in Buffers /\ o \in Nat /\ left \in Nat /\ o + left = Mtu
      /\ o = EndOf(chunks[b])
  BY DEF Fills
<1>3. /\ len \in Nat /\ c \in ChunkSet /\ c.at = o /\ c.len = len
      /\ o + Align(len) + H <= Mtu
      /\ chunks' = [chunks EXCEPT ![b] = Append(@, c)]
      /\ built' = Append(built, c)
      /\ off' = o + Align(len) /\ remain' = left - Align(len)
  BY <1>1, FillsFacts
<1>4. TypeOK'
  <2>1. /\ builder' \in {"fill", "bundle"} /\ high' \in [Streams -> Lengths]
        /\ bundling' \in Seq(CellSet) /\ crashed' \in BOOLEAN
        /\ found' \in [Buffers -> Nat] /\ current' \in Buffers \union {NULL}
    BY <1>1, <1>2 DEF TypeOK
  <2> QED BY <1>1, <2>1, FillsTypes DEF TypeOK
<1>5. FillTsns' /\ RtxFindsChunk'
  BY <1>1, FillsTsns
<1>6. FillPositions' /\ MessagesCarried'
  BY <1>1, FillsPositions
<1> HIDE DEF len, c
<1>7. /\ chunks'[b] = Append(chunks[b], c) /\ chunks[b] \in Seq(ChunkSet)
      /\ \A x \in Buffers : x # b => chunks'[x] = chunks[x]
  BY <1>1, <1>2, <1>3 DEF TypeOK
<1>8. Walks(chunks'[b]) /\ EndOf(chunks'[b]) = o + Align(len)
  <2>1. Walks(chunks[b])
    BY <1>2 DEF DataInvariant
  <2> QED BY <1>2, <1>3, <1>7, <2>1, WalksAppend
<1>9. \A x \in Buffers : Walks(chunks'[x])
  <2>1. \A x \in Buffers : x # b => Walks(chunks[x])
    BY DEF DataInvariant
  <2> QED BY <1>7, <1>8, <2>1
<1>10. \A i \in DOMAIN pool' : chunks'[pool'[i].buf] = chunks[pool'[i].buf]
  <2>1. \A i \in DOMAIN pool' : pool'[i].buf \in Buffers
    <3>1. \A i \in DOMAIN pool' : pool'[i] \in CellSet
      BY LenProperties, ElementOfSeq
    <3> QED BY <3>1 DEF CellSet
  <2> QED BY <1>7, <2>1
<1>11. \A i \in DOMAIN tx' : chunks'[tx'[i].buf] = chunks[tx'[i].buf]
  <2>1. \A i \in DOMAIN tx' : tx'[i].buf \in Buffers
    <3>1. \A i \in DOMAIN tx' : tx'[i] \in CellSet
      BY LenProperties, ElementOfSeq
    <3> QED BY <3>1 DEF CellSet
  <2> QED BY <1>7, <2>1
<1>12. Builds(c)
  BY <1>1, <1>3, BuildsOne
<1>13. \A i \in DOMAIN built' : built'[i].at + Align(built'[i].len) + H <= Mtu
  <2> TAKE i \in DOMAIN built'
  <2>1. CASE i = Len(built) + 1
    BY <1>3, <1>12, <2>1 DEF Builds
  <2>2. CASE i # Len(built) + 1
    <3>1. i \in 1 .. Len(built)
      BY <1>12, <2>2 DEF Builds
    <3>2. i \in DOMAIN built /\ built'[i] = built[i]
      BY <1>12, <3>1 DEF Builds
    <3> QED BY <1>1, <3>2 DEF FillPackets
  <2> QED BY <2>1, <2>2
<1>14. off' = EndOf(chunks'[b]) /\ off' + remain' = Mtu
  <2>1. Align(len) \in Nat
    BY <1>3, AlignFacts
  <2> QED BY <1>2, <1>3, <1>8, <2>1
<1>15. FillPackets'
  <2>1. /\ current' # NULL => off' = EndOf(chunks'[current']) /\ off' + remain' = Mtu
        /\ \A i \in DOMAIN pool' : pool'[i].plen = 0 /\ chunks'[pool'[i].buf] = << >>
        /\ \A i \in DOMAIN tx' : tx'[i].plen = EndOf(chunks'[tx'[i].buf])
    BY <1>10, <1>11, <1>14
  <2> QED BY <1>13, <2>1 DEF FillPackets, EndOf
<1>16. QueuedPacketsCarryData'
  BY DEF QueuedPacketsCarryData
<1>17. (\A x \in Buffers : Walks(chunks[x]))' /\ builder' = "fill"
  BY <1>9 DEF Walks
<1> QED BY <1>4, <1>5, <1>6, <1>15, <1>16, <1>17 DEF DataInvariant

\* One call of sctp_build_data_hdr that returns.
LEMMA InvBuildData ==
  ASSUME DataInvariant, NEW s \in Streams, BuildData(s)
  PROVE  DataInvariant'
<1>1. /\ builder = "fill" /\ current # NULL /\ ~crashed /\ high[s] # cur[s]
      /\ UNCHANGED <<builder, high, bundling, found, crashed>>
  BY DEF BuildData, Running
<1>2. /\ TypeOK /\ FillBuffers /\ FillPackets /\ QueuedPacketsCarryData
  BY <1>1 DEF DataInvariant
<1>3. /\ current \in Buffers /\ off \in Nat /\ remain \in Nat /\ off + remain = Mtu
      /\ off = EndOf(chunks[current]) /\ Mtu \in Nat /\ Mtu > 32
  BY <1>1, <1>2, DataConstants DEF TypeOK, FillPackets
<1>4. CASE ~NeedsFlush
  <2>1. Put(s, current, off, remain) /\ UNCHANGED <<tx, current, pool>>
    BY <1>4 DEF BuildData
  <2>2. H + 4 <= remain
    BY <1>3, <1>4 DEF NeedsFlush, H
  <2>3. PICK b, o, left : b = current /\ o = off /\ left = remain
    OBVIOUS
  <2>4. Fills(s, b, o, left)
    BY <1>1, <1>3, <2>1, <2>2, <2>3 DEF Fills
  <2>5. FillBuffers'
    BY <1>1, <1>2, <2>1 DEF FillBuffers, Has, Distinct
  <2>6. ~Has(pool, b) /\ ~Has(tx, b)
    BY <1>2, <1>3, <2>3 DEF FillBuffers
  <2>7. \A i \in DOMAIN pool' : /\ pool'[i].plen = 0 /\ chunks[pool'[i].buf] = << >>
                                /\ pool'[i].buf # b
    BY <1>2, <2>1, <2>6 DEF FillPackets, Has
  <2>8. \A i \in DOMAIN tx' : /\ tx'[i].plen = EndOf(chunks[tx'[i].buf])
                              /\ tx'[i].buf # b /\ tx'[i].plen > 0
    BY <1>1, <1>2, <2>1, <2>6 DEF FillPackets, Has, QueuedPacketsCarryData
  <2>9. pool' \in Seq(CellSet) /\ tx' \in Seq(CellSet) /\ current' # NULL /\ b = current'
    BY <1>1, <1>2, <2>1, <2>3 DEF TypeOK
  <2> QED BY <1>1, <2>4, <2>5, <2>7, <2>8, <2>9, InvFills
<1>5. CASE NeedsFlush
  <2>1. /\ pool # << >> /\ Put(s, current', 0, Mtu)
        /\ pool' = Tail(pool) /\ current' = Head(pool).buf
        /\ tx' = Append(tx, Cell(current, Mtu - remain))
    BY <1>5 DEF BuildData, Flush
  <2>2. /\ FillBuffers'
        /\ pool' \in Seq(CellSet) /\ tx' \in Seq(CellSet) /\ current' \in Buffers
        /\ current' # NULL /\ chunks[current'] = << >>
        /\ \A i \in DOMAIN pool' : /\ pool'[i].plen = 0 /\ chunks[pool'[i].buf] = << >>
                                   /\ pool'[i].buf # current'
        /\ \A i \in DOMAIN tx' : /\ tx'[i].plen = EndOf(chunks[tx'[i].buf])
                                 /\ tx'[i].buf # current'
    BY <1>1, <1>2, <2>1, TakesBuffer
  <2>3. PICK b, o, left : b = current' /\ o = 0 /\ left = Mtu
    OBVIOUS
  <2>4. Fills(s, b, o, left)
    <3>1. EndOf(chunks[b]) = 0
      BY <2>2, <2>3 DEF EndOf
    <3>2. o + left = Mtu /\ H + 4 <= left /\ o \in Nat /\ left \in Nat
      BY <1>3, <2>3 DEF H
    <3> QED BY <1>1, <2>1, <2>2, <2>3, <3>1, <3>2 DEF Fills
  <2>5. \A i \in DOMAIN tx' : tx'[i].plen > 0
    <3>1. tx \in Seq(CellSet) /\ Cell(current, Mtu - remain) \in CellSet
      <4>1. Mtu - remain \in Nat
        BY <1>3
      <4> QED BY <1>2, <1>3, <4>1 DEF TypeOK, Cell, CellSet
    <3>2. Cell(current, Mtu - remain).plen > 0
      BY <1>3, <1>5 DEF NeedsFlush, H, Cell
    <3>3. /\ DOMAIN tx = 1 .. Len(tx) /\ DOMAIN tx' = 1 .. Len(tx) + 1 /\ Len(tx) \in Nat
          /\ \A i \in 1 .. Len(tx) : tx'[i] = tx[i]
          /\ tx'[Len(tx) + 1] = Cell(current, Mtu - remain)
      BY <2>1, <3>1, AppendFacts
    <3>4. \A i \in DOMAIN tx : tx[i].plen > 0
      BY <1>1, <1>2 DEF QueuedPacketsCarryData
    <3> TAKE i \in DOMAIN tx'
    <3>5. i \in 1 .. Len(tx) \/ i = Len(tx) + 1
      BY <3>3
    <3> QED BY <3>2, <3>3, <3>4, <3>5
  <2> QED BY <1>1, <2>2, <2>3, <2>4, <2>5, InvFills
<1> QED BY <1>4, <1>5

\* The call that finds the pool empty, having queued what there was.
LEMMA InvBuildDataCrashes ==
  ASSUME DataInvariant, NEW s \in Streams, BuildDataCrashes(s)
  PROVE  DataInvariant'
<1> DEFINE e == Cell(current, Mtu - remain)
           q == Append(tx, e)
<1>1. /\ builder = "fill" /\ current # NULL /\ ~crashed
      /\ high[s] = cur[s] \/ (NeedsFlush /\ pool = << >>)
      /\ tx' = q \o pool /\ pool' = << >> /\ current' = NULL /\ remain' = Mtu
      /\ crashed' = TRUE
      /\ UNCHANGED <<builder, high, cur, tsn, bundling, off, chunks, rtx, built, found>>
  BY DEF BuildDataCrashes, Running
<1>2. /\ TypeOK /\ FillBuffers /\ FillPackets /\ FillTsns /\ FillPositions
      /\ QueuedPacketsCarryData /\ MessagesCarried /\ RtxFindsChunk
  BY <1>1 DEF DataInvariant
<1>3. /\ current \in Buffers /\ off \in Nat /\ remain \in Nat /\ off + remain = Mtu
      /\ off = EndOf(chunks[current]) /\ Mtu \in Nat /\ Mtu > 32
  BY <1>1, <1>2, DataConstants DEF TypeOK, FillPackets
<1>4. tx \in Seq(CellSet) /\ pool \in Seq(CellSet)
  BY <1>2 DEF TypeOK
<1>5. e \in CellSet /\ e.buf = current /\ e.plen = EndOf(chunks[current]) /\ e.plen = Mtu - remain
  <2>1. Mtu - remain = off
    BY <1>3
  <2> QED BY <1>3, <2>1 DEF Cell, CellSet
<1> HIDE DEF e
<1>6. /\ q \in Seq(CellSet) /\ DOMAIN tx = 1 .. Len(tx) /\ DOMAIN q = 1 .. Len(tx) + 1
      /\ Len(q) = Len(tx) + 1 /\ Len(tx) \in Nat
      /\ \A i \in 1 .. Len(tx) : q[i] = tx[i]
      /\ q[Len(tx) + 1] = e
  BY <1>4, <1>5, AppendFacts
<1>7. ~Has(tx, current) /\ ~Has(pool, current) /\ Distinct(tx) /\ Distinct(pool)
  BY <1>2, <1>3 DEF FillBuffers
<1>8. Distinct(q) /\ \A x : Has(q, x) <=> Has(tx, x) \/ x = current
  BY <1>4, <1>5, <1>7, RingAppend
<1>9. \A x : Has(q, x) => ~Has(pool, x)
  <2> SUFFICES ASSUME NEW x, Has(tx, x) PROVE ~Has(pool, x)
    BY <1>7, <1>8
  <2>1. x \in Buffers
    <3>1. \A i \in DOMAIN tx : tx[i] \in CellSet
      BY <1>4, LenProperties, ElementOfSeq
    <3> QED BY <3>1 DEF CellSet, Has
  <2> QED BY <1>2, <2>1 DEF FillBuffers
<1> HIDE DEF q
<1>10. /\ tx' \in Seq(CellSet) /\ Len(tx') = Len(q) + Len(pool) /\ Distinct(tx')
       /\ \A i \in DOMAIN tx' : \/ i \in DOMAIN q /\ tx'[i] = q[i]
                                \/ \E j \in DOMAIN pool : tx'[i] = pool[j]
       /\ \A x : Has(tx', x) <=> Has(q, x) \/ Has(pool, x)
  <2> DEFINE r == q \o pool
  <2>1. q \in Seq(CellSet) /\ pool \in Seq(CellSet)
    BY <1>4, <1>6
  <2>2. /\ r \in Seq(CellSet) /\ Len(r) = Len(q) + Len(pool)
        /\ \A i \in DOMAIN r : \/ i \in DOMAIN q /\ r[i] = q[i]
                               \/ \E j \in DOMAIN pool : r[i] = pool[j]
        /\ \A x : Has(r, x) <=> Has(q, x) \/ Has(pool, x)
        /\ Distinct(q) /\ Distinct(pool) /\ (\A x : Has(q, x) => ~Has(pool, x))
           => Distinct(r)
    BY <2>1, RingConcat
  <2>3. tx' = r
    BY <1>1
  <2> HIDE DEF r
  <2> QED BY <1>7, <1>8, <1>9, <2>2, <2>3
<1>11. Len(pool) \in Nat /\ Len(tx') = Cardinality(Buffers)
  <2>1. Len(pool) \in Nat
    BY <1>4, LenProperties
  <2>2. Len(pool) + Len(tx) + 1 = Cardinality(Buffers)
    BY <1>1, <1>2 DEF FillBuffers
  <2> QED BY <1>6, <1>10, <2>1, <2>2
<1>12. \A i \in DOMAIN tx' : tx'[i].plen = EndOf(chunks[tx'[i].buf])
  <2> TAKE i \in DOMAIN tx'
  <2>1. CASE i \in DOMAIN q /\ tx'[i] = q[i]
    <3>1. i \in DOMAIN tx \/ i = Len(tx) + 1
      BY <1>6, <2>1
    <3> QED BY <1>2, <1>5, <1>6, <2>1, <3>1 DEF FillPackets
  <2>2. CASE \E j \in DOMAIN pool : tx'[i] = pool[j]
    BY <1>2, <2>2 DEF FillPackets, EndOf
  <2> QED BY <1>10, <2>1, <2>2
<1>13. FillBuffers'
  <2>1. \A b \in Buffers : b # NULL /\ Has(tx', b)
    <3> TAKE b \in Buffers
    <3>1. b = current \/ Has(pool, b) \/ Has(tx, b)
      BY <1>2 DEF FillBuffers
    <3> QED BY <1>8, <1>10, <3>1, BuffersAssumption
  <2>2. Distinct(pool') /\ \A b : ~Has(pool', b)
    BY <1>1 DEF Distinct, Has
  <2>3. Len(pool') + Len(tx') + 0 = Cardinality(Buffers)
    BY <1>1, <1>11, DataConstants
  <2>4. bundling' = << >>
    BY <1>1, <1>2 DEF FillBuffers
  <2> QED BY <1>1, <1>10, <2>1, <2>2, <2>3, <2>4 DEF FillBuffers, Distinct, Has
<1>14. FillPackets'
  <2>1. \A i \in DOMAIN built : built[i].at + Align(built[i].len) + H <= Mtu
    BY <1>2 DEF FillPackets
  <2>2. DOMAIN pool' = {}
    BY <1>1
  <2> QED BY <1>1, <1>12, <2>1, <2>2 DEF FillPackets, EndOf
<1>15. QueuedPacketsCarryData'
  <2> SUFFICES ASSUME high[s] # cur[s], NEW i \in DOMAIN tx' PROVE tx'[i].plen > 0
    BY <1>1, <1>11 DEF QueuedPacketsCarryData
  <2>1. NeedsFlush /\ pool = << >>
    BY <1>1
  <2>2. i \in DOMAIN q /\ tx'[i] = q[i]
    BY <1>10, <2>1
  <2>3. i \in DOMAIN tx \/ i = Len(tx) + 1
    BY <1>6, <2>2
  <2>4. e.plen > 0
    BY <1>3, <1>5, <2>1 DEF NeedsFlush, H
  <2>5. \A j \in DOMAIN tx : tx[j].plen > 0
    BY <1>1, <1>2 DEF QueuedPacketsCarryData
  <2> QED BY <1>6, <2>2, <2>3, <2>4, <2>5
<1>16. TypeOK'
  <2>1. pool' \in Seq(CellSet) /\ remain' \in Nat
    BY <1>1, <1>3
  <2> QED BY <1>1, <1>2, <1>10, <2>1 DEF TypeOK
<1>17. FillTsns' /\ FillPositions' /\ MessagesCarried' /\ RtxFindsChunk'
  BY <1>1, <1>2, NothingBuilt
<1>18. (\A b \in Buffers : Walks(chunks[b]))' /\ builder' = "fill"
  BY <1>1 DEF DataInvariant, Walks
<1> QED BY <1>13, <1>14, <1>15, <1>16, <1>17, <1>18 DEF DataInvariant

-----------------------------------------------------------------------------
(***************************************************************************)
(* build_prefilled_mac_ip_sctp_data_hdr                                    *)
(***************************************************************************)
BundleCell == IF bundling # << >> THEN Head(bundling) ELSE Head(pool)
First == chunks[BundleCell.buf][1]
Payload(s) == Least(Room, high[s] - cur[s])
Pad(s) == IF BundleCell.plen < Mtu THEN Align(H + Payload(s)) - (H + Payload(s)) ELSE 0
BundlePlen(s) == BundleCell.plen + Pad(s) + H + Payload(s)
BundleChunk(s) ==
  Chunk(s, BundleAt(bundling # << >>, First), H + Payload(s), BundleFlags(s))
Waits(s) == BundlePlen(s) < Mtu /\ ~(bundling # << >>)

\* What a call changes.
LEMMA BundledChanges ==
  ASSUME NEW s, BuildBundled(s)
  PROVE  /\ builder = "bundle"
         /\ chunks' = [chunks EXCEPT ![BundleCell.buf] =
                         IF bundling # << >> THEN <<First, BundleChunk(s)>>
                         ELSE <<BundleChunk(s)>>]
         /\ built' = Append(built, BundleChunk(s))
         /\ found' = IF bundling # << >> THEN found
                     ELSE [found EXCEPT ![BundleCell.buf] = BundleCell.plen]
         /\ tsn' = NextTsn(tsn)
         /\ cur' = [cur EXCEPT ![s] = @ + Payload(s)]
         /\ bundling' = IF Waits(s) THEN <<Cell(BundleCell.buf, BundlePlen(s))>> ELSE << >>
         /\ tx' = IF Waits(s) THEN tx ELSE Append(tx, Cell(BundleCell.buf, BundlePlen(s)))
         /\ pool' = Push(IF bundling # << >> THEN pool ELSE Tail(pool), BundleCell)
         /\ UNCHANGED <<builder, high, current, off, remain, rtx, crashed>>
BY DEF BuildBundled, BundleCell, First, Payload, Pad, BundlePlen, BundleChunk, Waits

\* The cell a call fills, and how much it adds to it.
LEMMA BundledFacts ==
  ASSUME TypeOK, BundleBuffers, BundlePositions, NEW s \in Streams
  PROVE  LET n == Payload(s)
             c == BundleChunk(s)
             plen == BundlePlen(s)
         IN  /\ pool # << >> /\ BundleCell \in CellSet
             /\ n \in Nat /\ n <= Room /\ cur[s] + n <= high[s] /\ Room \in Nat /\ Room > 0
             /\ cur[s] \in Nat /\ high[s] \in 0 .. W - 1
             /\ Room + H = Mtu
             /\ plen \in Nat /\ plen = BundleCell.plen + Align(H + n)
             /\ BundleCell.plen < Mtu
             /\ c \in ChunkSet /\ c.stream = s /\ c.pos = cur[s] /\ c.len = H + n
             /\ c.flags = Flags(s, Room)
             /\ bundling = << >> => c.at = 0
             /\ bundling # << >> =>
                  /\ First = built[Len(built)] /\ First \in ChunkSet
                  /\ c.at = Align(First.len)
                  /\ BundleCell.plen = found[BundleCell.buf] + Align(First.len)
                  /\ chunks[BundleCell.buf] = <<First>>
                  /\ bundling = <<BundleCell>>
<1> DEFINE n == Payload(s)
           c == BundleChunk(s)
           plen == BundlePlen(s)
<1>1. /\ pool \in Seq(CellSet) /\ bundling \in Seq(CellSet) /\ built \in Seq(ChunkSet)
      /\ tsn \in Nat
  BY DEF TypeOK
<1>2. pool # << >>
  <2>1. PICK b \in Buffers : TRUE
    BY BuffersAssumption
  <2>2. Has(pool, b)
    BY DEF BundleBuffers
  <2> QED BY <2>2 DEF Has
<1>3. BundleCell \in CellSet
  BY <1>1, <1>2, HeadTailProperties DEF BundleCell
<1>4. BundleCell.plen \in Nat /\ BundleCell.buf \in Buffers
  BY <1>3 DEF CellSet
<1>5. /\ cur[s] \in 0 .. W - 1 /\ high[s] \in 0 .. W - 1 /\ W \in Nat /\ cur[s] <= high[s]
      /\ Mtu \in Nat /\ Mtu > 32
  BY DataConstants DEF TypeOK, BundlePositions
<1>6. Room \in Nat /\ Room > 0 /\ Room + H = Mtu
  BY <1>5 DEF Room, H
<1>7. n \in Nat /\ n <= Room /\ cur[s] + n <= high[s]
  BY <1>5, <1>6 DEF Payload, Least
<1>8. Pad(s) \in Nat /\ (BundleCell.plen < Mtu => Pad(s) + H + n = Align(H + n))
  <2>1. H + n \in Nat
    BY <1>7 DEF H
  <2>2. Align(H + n) \in Nat /\ H + n <= Align(H + n)
    BY <2>1, AlignFacts
  <2> DEFINE a == Align(H + n)
             m == H + n
  <2>3. Pad(s) = IF BundleCell.plen < Mtu THEN a - m ELSE 0
    BY DEF Pad
  <2>4. a \in Nat /\ m \in Nat /\ m <= a
    BY <2>1, <2>2
  <2>5. \A x \in Nat : x + H + n = x + m
    BY <1>7 DEF H
  <2> HIDE DEF a, m
  <2>6. Pad(s) \in Nat /\ (BundleCell.plen < Mtu => Pad(s) + m = a)
    BY <2>3, <2>4
  <2> QED BY <2>5, <2>6 DEF a
<1> HIDE DEF n
<1>9. plen \in Nat /\ plen = BundleCell.plen + Align(H + n) /\ BundleCell.plen < Mtu
  <2>1. BundleCell.plen < Mtu
    <3>1. CASE bundling # << >>
      BY <1>1, <3>1 DEF BundleBuffers, BundleCell
    <3>2. CASE bundling = << >>
      <4>1. 1 \in DOMAIN pool /\ BundleCell = pool[1]
        BY <1>1, <1>2, <3>2 DEF BundleCell
      <4> QED BY <4>1 DEF BundleBuffers
    <3> QED BY <3>1, <3>2
  <2>2. plen = BundleCell.plen + Pad(s) + H + n
    BY DEF BundlePlen, n
  <2> DEFINE p == BundleCell.plen
             d == Pad(s)
             a == Align(H + n)
  <2>3. /\ p \in Nat /\ d \in Nat /\ n \in Nat /\ plen = p + d + H + n
        /\ d + H + n = a
    BY <1>4, <1>7, <1>8, <2>1, <2>2
  <2> HIDE DEF plen, p, d, a
  <2>4. plen \in Nat /\ plen = p + a
    BY <2>3 DEF H
  <2> QED BY <2>1, <2>4 DEF p, a
<1>10. bundling # << >> =>
         /\ First = built[Len(built)] /\ First \in ChunkSet
         /\ BundleCell.plen = found[BundleCell.buf] + Align(First.len)
         /\ chunks[BundleCell.buf] = <<First>>
         /\ bundling = <<BundleCell>>
  <2> SUFFICES ASSUME bundling # << >> PROVE
         /\ First = built[Len(built)] /\ First \in ChunkSet
         /\ BundleCell.plen = found[BundleCell.buf] + Align(First.len)
         /\ chunks[BundleCell.buf] = <<First>>
         /\ bundling = <<BundleCell>>
    OBVIOUS
  <2>1. /\ Len(bundling) = 1 /\ built # << >>
        /\ chunks[bundling[1].buf] = <<built[Len(built)]>>
        /\ bundling[1].plen = found[bundling[1].buf] + Align(chunks[bundling[1].buf][1].len)
    BY DEF BundleBuffers
  <2>2. BundleCell = bundling[1]
    BY <1>1 DEF BundleCell
  <2>3. First = built[Len(built)]
    BY <2>1, <2>2 DEF First
  <2>4. built[Len(built)] \in ChunkSet
    <3>1. Len(built) \in Nat \ {0}
      BY <1>1, <2>1, EmptySeq
    <3> QED BY <1>1, <3>1, ElementOfSeq
  <2>5. bundling = <<BundleCell>>
    BY <1>1, <2>1, <2>2
  <2> QED BY <2>1, <2>2, <2>3, <2>4, <2>5 DEF First
<1>11. /\ c = [stream |-> s, pos |-> cur[s], at |-> BundleAt(bundling # << >>, First),
               len |-> H + n, tsn |-> tsn, flags |-> Flags(s, Room)]
  BY DEF BundleChunk, Chunk, BundleFlags, n
<1>12. BundleAt(bundling # << >>, First) \in Nat
  <2>1. CASE bundling = << >>
    BY <2>1 DEF BundleAt
  <2>2. CASE bundling # << >>
    <3>1. First.len \in Nat
      BY <1>10, <2>2 DEF ChunkSet
    <3> QED BY <2>2, <3>1, AlignFacts DEF BundleAt
  <2> QED BY <2>1, <2>2
<1>13. H + n \in Nat /\ Flags(s, Room) \in SUBSET {"B", "E"}
  BY <1>7 DEF H, Flags
<1> HIDE DEF c
<1>14. /\ c \in ChunkSet /\ c.stream = s /\ c.pos = cur[s] /\ c.len = H + n
       /\ c.flags = Flags(s, Room) /\ c.at = BundleAt(bundling # << >>, First)
  BY <1>1, <1>5, <1>11, <1>12, <1>13 DEF ChunkSet
<1>15. /\ bundling = << >> => c.at = 0
       /\ bundling # << >> => c.at = Align(First.len)
  BY <1>14 DEF BundleAt
<1>16. cur[s] \in Nat
  BY <1>5
<1> QED BY <1>2, <1>3, <1>5, <1>6, <1>7, <1>9, <1>10, <1>14, <1>15, <1>16 DEF n, c

\* Which flags the chunk gets, and how far it brings the stream.
LEMMA BundledFlags ==
  ASSUME TypeOK, BundleBuffers, BundlePositions, NEW s \in Streams
  PROVE  /\ "E" \in Flags(s, Room) <=> cur[s] + Payload(s) = high[s]
         /\ "B" \in Flags(s, Room) <=> high[s] <= Room \/ cur[s] = 0
         /\ Least(Room, high[s]) <= cur[s] + Payload(s)
<1> DEFINE n == Payload(s)
           h == high[s]
           p == cur[s]
<1>1. n \in Nat /\ n <= Room /\ p + n <= h /\ Room \in Nat /\ Room > 0 /\ p \in Nat
      /\ h \in 0 .. W - 1 /\ n = Least(Room, h - p)
  BY BundledFacts DEF Payload
<1>2. W \in Nat \ {0}
  BY DataConstants
<1> HIDE DEF n, h, p
<1>3. Diff(h, p) = h - p
  <2>1. h - p \in 0 .. W - 1
    BY <1>1, <1>2
  <2> QED BY <1>2, <2>1, RemainderSmall DEF Diff
<1>4. (p + Least(Room, Diff(h, p))) % W = p + n
  <2>1. p + n \in 0 .. W - 1
    BY <1>1, <1>2
  <2> QED BY <1>1, <1>2, <1>3, <2>1, RemainderSmall
<1>5. Flags(s, Room) = IF h <= Room THEN {"B", "E"}
                       ELSE IF p = 0 THEN {"B"}
                       ELSE IF p + n = h THEN {"E"} ELSE {}
  BY <1>4 DEF Flags, h, p
<1>6. /\ h <= Room => p + n = h
      /\ h > Room /\ p = 0 => p + n # h
      /\ Least(Room, h) <= p + n
  BY <1>1, <1>2 DEF Least
<1>7. ("E" \in Flags(s, Room) <=> p + n = h) /\ ("B" \in Flags(s, Room) <=> h <= Room \/ p = 0)
  <2>1. h > Room <=> ~(h <= Room)
    BY <1>1, <1>2
  <2>2. "B" # "E"
    OBVIOUS
  <2> QED BY <1>5, <1>6, <2>1, <2>2
<1> QED BY <1>6, <1>7 DEF n, h, p

\* The stream is brought forward by what the chunk carries, so a receiver
\* still puts the message together.
LEMMA BundledPositions ==
  ASSUME TypeOK, BundleBuffers, BundlePositions, ReadsInside, ReassemblesWhole,
         NEW s \in Streams, BuildBundled(s)
  PROVE  BundlePositions' /\ ReadsInside' /\ ReassemblesWhole'
<1> DEFINE n == Payload(s)
           c == BundleChunk(s)
           N == Len(built)
<1>1. /\ builder = "bundle" /\ builder' = "bundle" /\ high' = high
      /\ built' = Append(built, c) /\ cur' = [cur EXCEPT ![s] = @ + n]
  BY BundledChanges
<1>2. /\ n \in Nat /\ cur[s] + n <= high[s] /\ cur[s] \in Nat /\ high[s] \in 0 .. W - 1
      /\ Room \in Nat /\ Room > 0
      /\ c \in ChunkSet /\ c.stream = s /\ c.pos = cur[s] /\ c.len = H + n
      /\ c.flags = Flags(s, Room)
  BY BundledFacts
<1>3. /\ "E" \in c.flags <=> cur[s] + n = high[s]
      /\ "B" \in c.flags <=> high[s] <= Room \/ cur[s] = 0
      /\ Least(Room, high[s]) <= cur[s] + n
  BY <1>2, BundledFlags
<1> HIDE DEF c, n
<1>4. Builds(c)
  BY <1>1, <1>2, BuildsOne
<1>5. /\ N \in Nat /\ DOMAIN built = 1 .. N /\ DOMAIN built' = 1 .. N + 1
      /\ \A i \in 1 .. N : built'[i] = built[i] /\ built[i] \in ChunkSet
      /\ built'[N + 1] = c
  BY <1>4 DEF Builds
<1>6. /\ \A t \in Streams : cur'[t] = IF t = s THEN cur[s] + n ELSE cur[t]
      /\ \A t \in Streams : high[t] \in 0 .. W - 1 /\ cur[t] \in 0 .. W - 1
      /\ W \in Nat
  BY <1>1, DataConstants DEF TypeOK
<1>7. PayloadEnd(c) = cur[s] + n
  BY <1>2 DEF PayloadEnd, H
<1>8. \A i \in DOMAIN built' : i \in 1 .. N \/ i = N + 1
  BY <1>5
<1>9. /\ \A i \in DOMAIN built : built[i].stream = s =>
           /\ Least(Room, high[s]) <= cur[s]
           /\ Least(Room, high[s]) <= PayloadEnd(built[i])
           /\ (\A k \in DOMAIN built : built[k].stream = s => k <= i)
              => cur[s] = PayloadEnd(built[i])
      /\ (\A i \in DOMAIN built : built[i].stream # s) => cur[s] = 0
  BY DEF BundlePositions
<1> HIDE DEF N
<1>10. BundlePositions'
  <2> SUFFICES ASSUME NEW t \in Streams
               PROVE  /\ cur'[t] <= high[t]
                      /\ (\A i \in DOMAIN built' : built'[i].stream # t) => cur'[t] = 0
                      /\ \A i \in DOMAIN built' : built'[i].stream = t =>
                            /\ Least(Room, high[t]) <= cur'[t]
                            /\ Least(Room, high[t]) <= PayloadEnd(built'[i])
                            /\ (\A k \in DOMAIN built' : built'[k].stream = t => k <= i)
                               => cur'[t] = PayloadEnd(built'[i])
    BY <1>1 DEF BundlePositions, PayloadEnd, Least, Room, H
  <2>1. CASE t # s
    <3>1. cur'[t] = cur[t]
      BY <1>6, <2>1
    <3>2. \A i \in DOMAIN built' : built'[i].stream = t =>
             i \in DOMAIN built /\ built'[i] = built[i]
      BY <1>2, <1>5, <1>8, <2>1
    <3>3. \A i \in DOMAIN built : i \in DOMAIN built' /\ built'[i] = built[i]
      BY <1>5
    <3>4. /\ cur[t] <= high[t]
          /\ (\A i \in DOMAIN built : built[i].stream # t) => cur[t] = 0
          /\ \A i \in DOMAIN built : built[i].stream = t =>
                /\ Least(Room, high[t]) <= cur[t]
                /\ Least(Room, high[t]) <= PayloadEnd(built[i])
                /\ (\A k \in DOMAIN built : built[k].stream = t => k <= i)
                   => cur[t] = PayloadEnd(built[i])
      BY DEF BundlePositions
    <3> QED BY <3>1, <3>2, <3>3, <3>4, Zenon
  <2>2. CASE t = s
    <3>1. cur'[t] = cur[s] + n
      BY <1>6, <2>2
    <3>2. N + 1 \in DOMAIN built' /\ built'[N + 1].stream = t
      BY <1>2, <1>5, <2>2
    <3>3. ASSUME NEW i \in DOMAIN built', built'[i].stream = t
          PROVE  Least(Room, high[t]) <= PayloadEnd(built'[i])
      <4>1. CASE i \in 1 .. N
        BY <1>5, <1>9, <2>2, <3>3, <4>1
      <4>2. CASE i = N + 1
        BY <1>3, <1>5, <1>7, <2>2, <4>2
      <4> QED BY <1>8, <4>1, <4>2
    <3>4. ASSUME NEW i \in DOMAIN built', built'[i].stream = t,
                 \A k \in DOMAIN built' : built'[k].stream = t => k <= i
          PROVE  cur'[t] = PayloadEnd(built'[i])
      <4>1. N + 1 <= i
        BY <3>2, <3>4
      <4>2. i = N + 1
        BY <1>5, <4>1
      <4> QED BY <1>5, <1>7, <3>1, <4>2
    <3>5. cur'[t] <= high[t] /\ Least(Room, high[t]) <= cur'[t]
      BY <1>2, <1>3, <2>2, <3>1
    <3> QED BY <3>2, <3>3, <3>4, <3>5
  <2> QED BY <2>1, <2>2
<1>11. ReadsInside'
  <2> SUFFICES ASSUME NEW i \in DOMAIN built'
               PROVE  built'[i].pos + (built'[i].len - H) <= high[built'[i].stream]
    BY <1>1 DEF ReadsInside, H
  <2>1. CASE i \in 1 .. N
    BY <1>1, <1>5, <2>1 DEF ReadsInside
  <2>2. CASE i = N + 1
    <3>1. c.pos + (c.len - H) <= high[c.stream]
      BY <1>2 DEF H
    <3> QED BY <1>5, <2>2, <3>1
  <2> QED BY <1>8, <2>1, <2>2
<1>12. ReassemblesWhole'
  <2> DEFINE E(i) == {j \in 1 .. i - 1 : built'[j].stream = built'[i].stream}
  <2> SUFFICES ASSUME NEW i \in DOMAIN built'
               PROVE  /\ "E" \in built'[i].flags
                            <=> PayloadEnd(built'[i]) = high[built'[i].stream]
                      /\ (\A j \in E(i) : PayloadEnd(built'[j]) < high[built'[i].stream]) =>
                           /\ "B" \in built'[i].flags <=> E(i) = {}
                           /\ E(i) = {} => built'[i].pos = 0
                           /\ \A j \in E(i) : (\A k \in E(i) : k <= j)
                                              => built'[i].pos = PayloadEnd(built'[j])
    BY <1>1 DEF ReassemblesWhole, Earlier, PayloadEnd, H
  <2>1. CASE i \in 1 .. N
    <3>1. built'[i] = built[i] /\ i \in DOMAIN built
      BY <1>5, <2>1
    <3>2. \A j \in 1 .. i - 1 : built'[j] = built[j]
      BY <1>5, <2>1
    <3>3. E(i) = Earlier(i)
      BY <3>1, <3>2 DEF Earlier
    <3>4. \A j \in E(i) : built'[j] = built[j]
      BY <3>2
    <3>5. /\ "E" \in built[i].flags <=> PayloadEnd(built[i]) = high[built[i].stream]
          /\ (\A j \in Earlier(i) : PayloadEnd(built[j]) < high[built[i].stream]) =>
                /\ "B" \in built[i].flags <=> Earlier(i) = {}
                /\ Earlier(i) = {} => built[i].pos = 0
                /\ \A j \in Earlier(i) : (\A k \in Earlier(i) : k <= j)
                                         => built[i].pos = PayloadEnd(built[j])
      BY <1>1, <3>1 DEF ReassemblesWhole
    <3> HIDE DEF E
    <3> QED BY <3>1, <3>3, <3>4, <3>5, Zenon
  <2>2. CASE i = N + 1
    <3> DEFINE F == E(i)
    <3>1. built'[i] = c
      BY <1>5, <2>2
    <3>2. \A j : j \in F <=> j \in DOMAIN built /\ built[j].stream = s
      <4>1. i - 1 = N
        BY <1>5, <2>2
      <4> QED BY <1>2, <1>5, <3>1, <4>1
    <3>3. \A j \in F : built'[j] = built[j]
      BY <1>5, <3>2
    <3> HIDE DEF E, F
    <3>4. CASE F = {}
      <4>1. cur[s] = 0
        BY <1>9, <3>2, <3>4
      <4> QED BY <1>2, <1>3, <1>7, <3>1, <3>4, <4>1 DEF F
    <3>5. CASE F # {}
      <4> SUFFICES ASSUME \A j \in F : PayloadEnd(built[j]) < high[s]
                   PROVE  /\ "B" \notin c.flags
                          /\ \A j \in F : (\A k \in F : k <= j) => c.pos = PayloadEnd(built[j])
        BY <1>2, <1>3, <1>7, <3>1, <3>3, <3>5 DEF F
      <4>1. PICK j \in F : TRUE
        BY <3>5
      <4>2. /\ PayloadEnd(built[j]) < high[s] /\ Least(Room, high[s]) <= PayloadEnd(built[j])
            /\ Least(Room, high[s]) <= cur[s] /\ PayloadEnd(built[j]) \in Int
        <5>1. j \in 1 .. N /\ built[j].stream = s
          BY <1>5, <3>2
        <5>2. PayloadEnd(built[j]) \in Int
          <6>1. built[j].pos \in Int /\ built[j].len \in Int
            <7>1. built[j] \in ChunkSet
              BY <1>5, <5>1
            <7> QED BY <7>1, DataConstants DEF ChunkSet
          <6> QED BY <6>1 DEF PayloadEnd, H
        <5> QED BY <1>5, <1>9, <5>1, <5>2
      <4>3. ~(high[s] <= Room) /\ cur[s] # 0
        BY <1>2, <4>2 DEF Least
      <4>4. "B" \notin c.flags
        BY <1>3, <4>3
      <4>5. ASSUME NEW k \in F, \A l \in F : l <= k PROVE c.pos = PayloadEnd(built[k])
        BY <1>2, <1>9, <3>2, <4>5
      <4> QED BY <4>4, <4>5
    <3> QED BY <3>4, <3>5
  <2> QED BY <1>8, <2>1, <2>2
<1> QED BY <1>10, <1>11, <1>12

\* A call adds a bundle if it writes a second chunk.
LEMMA BundledCounts ==
  ASSUME TypeOK, BundleBuffers, BundlePackets, BundlePositions,
         NEW s \in Streams, BuildBundled(s)
  PROVE  /\ Bundles \in Nat
         /\ bundling # << >> => Bundles' = Bundles + 1
         /\ bundling = << >> => Bundles' = Bundles
<1> DEFINE c == BundleChunk(s)
           N == Len(built)
           S == {i \in DOMAIN built : built[i].at > 0}
           T == {i \in DOMAIN built' : built'[i].at > 0}
<1>1. /\ c \in ChunkSet
      /\ bundling = << >> => c.at = 0
      /\ bundling # << >> => /\ c.at = Align(First.len) /\ First \in ChunkSet
                             /\ First = built[Len(built)]
  BY BundledFacts
<1>2. built' = Append(built, c)
  BY BundledChanges
<1>3. Builds(c)
  BY <1>1, <1>2, BuildsOne
<1> HIDE DEF c
<1>4. /\ N \in Nat /\ DOMAIN built = 1 .. N /\ DOMAIN built' = 1 .. N + 1
      /\ (\A i \in 1 .. N : built'[i] = built[i]) /\ built'[N + 1] = c
  <2>1. DOMAIN built = 1 .. Len(built)
    BY LenProperties DEF TypeOK
  <2> QED BY <1>3, <2>1 DEF Builds
<1>5. bundling # << >> => c.at > 0
  <2> SUFFICES ASSUME bundling # << >> PROVE c.at > 0
    OBVIOUS
  <2>1. built # << >>
    BY DEF BundleBuffers
  <2>2. N \in DOMAIN built
    BY <1>4, <2>1, EmptySeq DEF TypeOK
  <2>3. H <= First.len /\ First.len \in Nat
    BY <1>1, <2>2 DEF BundlePackets, ChunkSet
  <2> DEFINE a == Align(First.len)
  <2>4. a \in Nat /\ First.len <= a /\ c.at = a
    BY <1>1, <2>3, AlignFacts
  <2> HIDE DEF a
  <2> QED BY <2>3, <2>4 DEF H
<1> HIDE DEF N
<1>6. IsFiniteSet(S) /\ Cardinality(S) \in Nat
  <2>1. IsFiniteSet(1 .. N) /\ S \subseteq 1 .. N
    BY <1>4, FS_Interval
  <2>2. IsFiniteSet(S)
    BY <2>1, FS_Subset
  <2> QED BY <2>2, FS_CardinalityType
<1>7. N + 1 \notin S
  BY <1>4
<1>8. \A i : i \in 1 .. N + 1 <=> i \in 1 .. N \/ i = N + 1
  BY <1>4
<1>9. T = IF bundling # << >> THEN S \union {N + 1} ELSE S
  <2>1. CASE bundling # << >>
    BY <1>4, <1>5, <1>8, <2>1
  <2>2. CASE bundling = << >>
    <3>1. ~(c.at > 0)
      BY <1>1, <2>2
    <3> QED BY <1>4, <1>8, <2>2, <3>1
  <2> QED BY <2>1, <2>2
<1>10. Bundles = Cardinality(S) /\ Bundles' = Cardinality(T)
  BY DEF Bundles
<1> HIDE DEF S, T
<1>11. bundling # << >> => Cardinality(T) = Cardinality(S) + 1
  BY <1>6, <1>7, <1>9, FS_AddElement
<1> QED BY <1>6, <1>9, <1>10, <1>11

\* The buffer that is filled goes back to the end of the pool at once; the one
\* of a bundle is there already, and goes back again if there is room.
LEMMA BundledPool ==
  ASSUME TypeOK, BundleBuffers, BundlePackets, BundlePositions,
         NEW s \in Streams, BuildBundled(s)
  PROVE  /\ pool' \in Seq(CellSet)
         /\ Len(pool') = Least(RingSize, Cardinality(Buffers) + Bundles')
         /\ \A i \in DOMAIN pool' : pool'[i].plen < Mtu
         /\ \A b \in Buffers : Has(pool', b)
<1> DEFINE e == BundleCell
           q == IF bundling # << >> THEN pool ELSE Tail(pool)
           M == Cardinality(Buffers)
<1>1. pool' = Push(q, e)
  BY BundledChanges
<1>2. /\ pool # << >> /\ e \in CellSet /\ e.plen < Mtu /\ pool \in Seq(CellSet)
      /\ Len(pool) = Least(RingSize, M + Bundles)
      /\ RingSize \in Nat /\ M \in Nat /\ M <= RingSize
      /\ \A i \in DOMAIN pool : pool[i].plen < Mtu
  BY BundledFacts, DataConstants DEF BundleBuffers, TypeOK
<1>3. Len(pool) \in Nat
  BY <1>2, LenProperties
<1>4. /\ Tail(pool) \in Seq(CellSet) /\ Len(Tail(pool)) = Len(pool) - 1
      /\ \A x : x # Head(pool).buf => (Has(Tail(pool), x) <=> Has(pool, x))
  BY <1>2, RingTail
<1>5. /\ Bundles \in Nat
      /\ bundling # << >> => Bundles' = Bundles + 1
      /\ bundling = << >> => Bundles' = Bundles
  BY BundledCounts
<1>6. q \in Seq(CellSet) /\ Len(q) \in Nat
  <2>1. q \in Seq(CellSet)
    BY <1>2, <1>4
  <2> QED BY <2>1, LenProperties
<1>7. /\ bundling = << >> => Len(q) = Len(pool) - 1
      /\ bundling # << >> => Len(q) = Len(pool)
  BY <1>4
<1>8. \A i \in DOMAIN q : q[i].plen < Mtu
  <2>1. CASE bundling # << >>
    BY <1>2, <2>1
  <2>2. CASE bundling = << >>
    <3>1. q = Tail(pool)
      BY <2>2
    <3>2. /\ DOMAIN pool = 1 .. Len(pool) /\ DOMAIN Tail(pool) = 1 .. Len(pool) - 1
          /\ \A i \in 1 .. Len(pool) - 1 : Tail(pool)[i] = pool[i + 1]
      BY <1>2, <1>4, LenProperties, HeadTailProperties
    <3> HIDE DEF q
    <3> QED BY <1>2, <1>3, <3>1, <3>2
  <2> QED BY <2>1, <2>2
<1>9. \A b \in Buffers : Has(q, b) \/ (bundling = << >> /\ b = e.buf)
  <2> TAKE b \in Buffers
  <2>1. Has(pool, b)
    BY DEF BundleBuffers
  <2>2. CASE bundling # << >>
    BY <2>1, <2>2
  <2>3. CASE bundling = << >>
    <3>1. e = Head(pool)
      BY <2>3 DEF BundleCell
    <3>2. q = Tail(pool)
      BY <2>3
    <3> HIDE DEF e, q
    <3> QED BY <1>4, <2>1, <2>3, <3>1, <3>2
  <2> QED BY <2>2, <2>3
<1> HIDE DEF e, q, M
<1>10. /\ Append(q, e) \in Seq(CellSet) /\ Len(Append(q, e)) = Len(q) + 1
       /\ \A x : Has(Append(q, e), x) <=> Has(q, x) \/ x = e.buf
       /\ DOMAIN Append(q, e) = 1 .. Len(q) + 1 /\ DOMAIN q = 1 .. Len(q)
       /\ (\A i \in 1 .. Len(q) : Append(q, e)[i] = q[i]) /\ Append(q, e)[Len(q) + 1] = e
  BY <1>2, <1>6, AppendFacts, RingAppend
<1>11. CASE Len(q) < RingSize
  <2>1. pool' = Append(q, e)
    BY <1>1, <1>11 DEF Push
  <2>2. Len(pool') = Least(RingSize, M + Bundles')
    <3>1. CASE bundling = << >>
      BY <1>2, <1>3, <1>5, <1>7, <1>10, <2>1, <3>1
    <3>2. CASE bundling # << >>
      <4>1. /\ Len(pool) < RingSize /\ Len(pool') = Len(pool) + 1 /\ Bundles' = Bundles + 1
        BY <1>5, <1>7, <1>10, <1>11, <2>1, <3>2
      <4>2. \A k \in Nat : /\ Least(RingSize, M + k) < RingSize
                            => Least(RingSize, M + k) + 1 = Least(RingSize, M + (k + 1))
        BY <1>2 DEF Least
      <4> QED BY <1>2, <1>5, <4>1, <4>2
    <3> QED BY <3>1, <3>2
  <2>3. \A i \in DOMAIN pool' : pool'[i].plen < Mtu
    <3>1. \A i \in 1 .. Len(q) + 1 : i \in 1 .. Len(q) \/ i = Len(q) + 1
      BY <1>6
    <3> QED BY <1>2, <1>8, <1>10, <2>1, <3>1
  <2> QED BY <1>9, <1>10, <2>1, <2>2, <2>3 DEF M
<1>12. CASE ~(Len(q) < RingSize)
  <2>1. pool' = q
    BY <1>1, <1>12 DEF Push
  <2>2. Len(pool') = Least(RingSize, M + Bundles') /\ bundling # << >>
    BY <1>2, <1>3, <1>5, <1>6, <1>7, <1>12, <2>1 DEF Least
  <2> QED BY <1>6, <1>8, <1>9, <2>1, <2>2 DEF M
<1> QED BY <1>11, <1>12

\* The state after a call is a state of the builder.
LEMMA BundledTypes ==
  ASSUME TypeOK, BundleBuffers, BundlePackets, BundlePositions, NEW s \in Streams, BuildBundled(s)
  PROVE  TypeOK'
<1> DEFINE n == Payload(s)
           c == BundleChunk(s)
           p == BundlePlen(s)
           b == BundleCell.buf
<1>1. /\ chunks' = [chunks EXCEPT ![b] = IF bundling # << >> THEN <<First, c>> ELSE <<c>>]
      /\ built' = Append(built, c) /\ tsn' = NextTsn(tsn)
      /\ found' = IF bundling # << >> THEN found ELSE [found EXCEPT ![b] = BundleCell.plen]
      /\ cur' = [cur EXCEPT ![s] = @ + n]
      /\ bundling' = IF Waits(s) THEN <<Cell(b, p)>> ELSE << >>
      /\ tx' = IF Waits(s) THEN tx ELSE Append(tx, Cell(b, p))
      /\ UNCHANGED <<builder, high, current, off, remain, rtx, crashed>>
  BY BundledChanges
<1>2. /\ BundleCell \in CellSet /\ n \in Nat /\ cur[s] + n <= high[s] /\ cur[s] \in Nat
      /\ high[s] \in 0 .. W - 1 /\ p \in Nat /\ c \in ChunkSet
      /\ bundling # << >> => First \in ChunkSet
  BY BundledFacts
<1> HIDE DEF n, c, p
<1>3. b \in Buffers /\ BundleCell.plen \in Nat /\ Cell(b, p) \in CellSet
  BY <1>2 DEF CellSet, Cell
<1> HIDE DEF b
<1>4. cur' \in [Streams -> 0 .. W - 1]
  <2>1. W \in Nat /\ cur \in [Streams -> 0 .. W - 1]
    BY DataConstants DEF TypeOK
  <2>2. cur[s] + n \in 0 .. W - 1
    BY <1>2, <2>1
  <2> QED BY <1>1, <2>1, <2>2
<1>5. tsn' \in Nat
  BY <1>1, NextTsnFacts DEF TypeOK
<1>6. pool' \in Seq(CellSet)
  BY BundledPool
<1>7. bundling' \in Seq(CellSet)
  BY <1>1, <1>3
<1>8. tx' \in Seq(CellSet)
  <2>1. tx \in Seq(CellSet)
    BY DEF TypeOK
  <2>2. Append(tx, Cell(b, p)) \in Seq(CellSet)
    BY <1>3, <2>1, AppendFacts
  <2> QED BY <1>1, <2>1, <2>2
<1>9. built' \in Seq(ChunkSet)
  BY <1>1, <1>2, AppendFacts DEF TypeOK
<1>10. chunks' \in [Buffers -> Seq(ChunkSet)]
  <2> DEFINE q == IF bundling # << >> THEN <<First, c>> ELSE <<c>>
  <2>1. CASE bundling = << >>
    <3>1. q = <<c>> /\ <<c>> \in Seq(ChunkSet)
      BY <1>2, <2>1
    <3> QED BY <1>1, <3>1 DEF TypeOK
  <2>2. CASE bundling # << >>
    <3>1. q = <<First, c>> /\ <<First, c>> \in Seq(ChunkSet)
      BY <1>2, <2>2
    <3> QED BY <1>1, <3>1 DEF TypeOK
  <2> QED BY <2>1, <2>2
<1>11. found' \in [Buffers -> Nat]
  BY <1>1, <1>3 DEF TypeOK
<1> QED BY <1>1, <1>4, <1>5, <1>6, <1>7, <1>8, <1>9, <1>10, <1>11 DEF TypeOK

\* A second chunk starts where the first and its padding end.
LEMMA BundledWalks ==
  ASSUME TypeOK, BundleBuffers, BundlePositions, \A x \in Buffers : Walks(chunks[x]),
         NEW s \in Streams, BuildBundled(s)
  PROVE  \A x \in Buffers : Walks(chunks'[x])
<1> DEFINE c == BundleChunk(s)
           b == BundleCell.buf
<1>1. chunks' = [chunks EXCEPT ![b] = IF bundling # << >> THEN <<First, c>> ELSE <<c>>]
  BY BundledChanges
<1>2. /\ BundleCell \in CellSet /\ c \in ChunkSet
      /\ bundling = << >> => c.at = 0
      /\ bundling # << >> => /\ First \in ChunkSet /\ c.at = Align(First.len)
                             /\ chunks[b] = <<First>>
  BY BundledFacts
<1>3. b \in Buffers
  BY <1>2 DEF CellSet
<1> HIDE DEF b, c
<1> TAKE x \in Buffers
<1>4. CASE x # b
  BY <1>1, <1>4 DEF TypeOK
<1>5. CASE x = b /\ bundling = << >>
  <2>1. chunks'[x] = <<c>>
    BY <1>1, <1>5 DEF TypeOK
  <2> QED BY <1>2, <1>5, <2>1 DEF Walks
<1>6. CASE x = b /\ bundling # << >>
  <2>1. chunks'[x] = <<First, c>>
    BY <1>1, <1>6 DEF TypeOK
  <2>2. First.at = 0
    <3>1. Walks(<<First>>)
      BY <1>2, <1>3, <1>6
    <3> QED BY <3>1 DEF Walks
  <2>3. First.len \in Nat /\ c.at = First.at + Align(First.len)
    <3>1. First.len \in Nat
      BY <1>2, <1>6 DEF ChunkSet
    <3> DEFINE a == Align(First.len)
    <3>2. a \in Nat /\ c.at = a
      BY <1>2, <1>6, <3>1, AlignFacts
    <3> HIDE DEF a
    <3>3. c.at = First.at + a
      BY <2>2, <3>2
    <3> QED BY <3>1, <3>3 DEF a
  <2>4. \A i \in DOMAIN <<First, c>> :
          <<First, c>>[i].at = IF i = 1 THEN 0
                               ELSE <<First, c>>[i - 1].at + Align(<<First, c>>[i - 1].len)
    <3> DEFINE q == <<First, c>>
    <3>1. DOMAIN q = {1, 2} /\ q[1] = First /\ q[2] = c
      OBVIOUS
    <3> HIDE DEF q
    <3>2. \A i \in DOMAIN q : q[i].at = IF i = 1 THEN 0 ELSE q[i - 1].at + Align(q[i - 1].len)
      BY <2>2, <2>3, <3>1
    <3> QED BY <3>2 DEF q
  <2> QED BY <2>1, <2>4 DEF Walks
<1> QED BY <1>4, <1>5, <1>6

\* A cell that waits has the last chunk that was built, and its length.
LEMMA BundledBuffers ==
  ASSUME TypeOK, BundleBuffers, BundlePackets, BundlePositions,
         NEW s \in Streams, BuildBundled(s)
  PROVE  BundleBuffers'
<1> DEFINE c == BundleChunk(s)
           p == BundlePlen(s)
           b == BundleCell.buf
<1>1. /\ chunks' = [chunks EXCEPT ![b] = IF bundling # << >> THEN <<First, c>> ELSE <<c>>]
      /\ built' = Append(built, c)
      /\ found' = IF bundling # << >> THEN found ELSE [found EXCEPT ![b] = BundleCell.plen]
      /\ bundling' = IF Waits(s) THEN <<Cell(b, p)>> ELSE << >>
      /\ UNCHANGED <<current, crashed>>
  BY BundledChanges
<1>2. /\ BundleCell \in CellSet /\ c \in ChunkSet /\ c.len = H + Payload(s)
      /\ p = BundleCell.plen + Align(H + Payload(s))
  BY BundledFacts
<1>3. b \in Buffers
  BY <1>2 DEF CellSet
<1>4. /\ Len(pool') = Least(RingSize, Cardinality(Buffers) + Bundles')
      /\ \A i \in DOMAIN pool' : pool'[i].plen < Mtu
      /\ \A x \in Buffers : Has(pool', x)
  BY BundledPool
<1>5. Builds(c)
  BY <1>1, <1>2, BuildsOne
<1>6. Waits(s) => p < Mtu /\ bundling = << >>
  BY DEF Waits
<1> HIDE DEF b, c, p
<1>7. ASSUME bundling' # << >>
      PROVE  /\ Len(bundling') = 1 /\ built' # << >>
             /\ chunks'[bundling'[1].buf] = <<built'[Len(built')]>>
             /\ bundling'[1].plen = found'[bundling'[1].buf]
                                      + Align(chunks'[bundling'[1].buf][1].len)
             /\ bundling'[1].plen < Mtu
  <2>1. Waits(s) /\ bundling' = <<Cell(b, p)>>
    BY <1>1, <1>7
  <2>2. Len(bundling') = 1 /\ bundling'[1].buf = b /\ bundling'[1].plen = p
    BY <2>1 DEF Cell
  <2>3. chunks'[b] = <<c>> /\ found'[b] = BundleCell.plen
    BY <1>1, <1>3, <1>6, <2>1 DEF TypeOK
  <2>4. built'[Len(built')] = c /\ built' # << >>
    <3>1. /\ Len(built) \in Nat /\ Len(built') = Len(built) + 1
          /\ built'[Len(built) + 1] = c
      BY <1>5 DEF Builds
    <3>2. Len(built') # 0
      BY <3>1
    <3> QED BY <3>1, <3>2
  <2>5. p = found'[b] + Align(c.len) /\ p < Mtu
    BY <1>2, <1>6, <2>1, <2>3
  <2>6. chunks'[b][1] = c
    BY <2>3
  <2> QED BY <2>2, <2>3, <2>4, <2>5, <2>6
<1>8. current' = NULL /\ ~crashed'
  BY <1>1 DEF BundleBuffers
<1> QED BY <1>4, <1>7, <1>8 DEF BundleBuffers, Has, Align, Least

\* A packet that is queued has the length of its chunks, behind the length its
\* buffer was found with.
LEMMA BundledPackets ==
  ASSUME TypeOK, BundleBuffers, BundlePackets, BundlePositions, QueuedPacketsCarryData,
         NEW s \in Streams, BuildBundled(s)
  PROVE  BundlePackets' /\ QueuedPacketsCarryData'
<1> DEFINE c == BundleChunk(s)
           p == BundlePlen(s)
           b == BundleCell.buf
           e == Cell(b, p)
<1>1. /\ chunks' = [chunks EXCEPT ![b] = IF bundling # << >> THEN <<First, c>> ELSE <<c>>]
      /\ built' = Append(built, c)
      /\ found' = IF bundling # << >> THEN found ELSE [found EXCEPT ![b] = BundleCell.plen]
      /\ bundling' = IF Waits(s) THEN <<e>> ELSE << >>
      /\ tx' = IF Waits(s) THEN tx ELSE Append(tx, e)
      /\ UNCHANGED <<current, crashed>>
  BY BundledChanges
<1>2. /\ BundleCell \in CellSet /\ c \in ChunkSet /\ c.len = H + Payload(s)
      /\ Payload(s) \in Nat /\ Payload(s) <= Room /\ Room \in Nat /\ Room + H = Mtu
      /\ p \in Nat /\ p = BundleCell.plen + Align(H + Payload(s)) /\ BundleCell.plen < Mtu
      /\ bundling = << >> => c.at = 0
      /\ bundling # << >> => /\ c.at = Align(First.len)
                             /\ BundleCell.plen = found[b] + Align(First.len)
                             /\ bundling = <<BundleCell>>
  BY BundledFacts
<1>3. b \in Buffers /\ BundleCell.plen \in Nat /\ e \in CellSet /\ e.buf = b /\ e.plen = p
  BY <1>2 DEF CellSet, Cell
<1>4. Builds(c)
  BY <1>1, <1>2, BuildsOne
<1>5. /\ H <= c.len /\ c.len <= Mtu /\ c.at < Mtu
      /\ p > 0 /\ p = found'[b] + (c.at + Align(c.len))
  <2> DEFINE f == found[b]
             q == BundleCell.plen
             a == Align(H + Payload(s))
  <2>1. /\ f \in Nat /\ q \in Nat /\ c.at \in Nat /\ Mtu \in Nat /\ c.len \in Nat
        /\ p = q + a /\ a = Align(c.len)
    BY <1>2, <1>3, DataConstants DEF TypeOK, ChunkSet
  <2>2. a \in Nat /\ c.len <= a
    BY <2>1, AlignFacts
  <2>3. H <= c.len /\ c.len <= Mtu
    BY <1>2 DEF H
  <2>4. /\ bundling = << >> => c.at = 0 /\ found'[b] = q
        /\ bundling # << >> => q = f + c.at /\ found'[b] = f
    BY <1>1, <1>2, <1>3 DEF TypeOK
  <2> HIDE DEF f, q, a, c, p, b
  <2>5. q < Mtu
    BY <1>2 DEF q
  <2>6. p > 0 /\ c.at < Mtu /\ p = found'[b] + (c.at + a)
    BY <2>1, <2>2, <2>3, <2>4, <2>5, DataConstants DEF H
  <2> QED BY <2>1, <2>3, <2>6
<1> HIDE DEF c, p, e
<1>6. chunks'[b] # << >> /\ p = found'[b] + EndOf(chunks'[b])
  <2>1. chunks'[b] # << >> /\ Last(chunks'[b]) = c
    <3>1. CASE bundling = << >>
      <4>1. chunks'[b] = <<c>>
        BY <1>1, <1>3, <3>1 DEF TypeOK
      <4> QED BY <4>1 DEF Last
    <3>2. CASE bundling # << >>
      <4>1. chunks'[b] = <<First, c>>
        BY <1>1, <1>3, <3>2 DEF TypeOK
      <4> QED BY <4>1 DEF Last
    <3> QED BY <3>1, <3>2
  <2> QED BY <1>5, <2>1 DEF EndOf
<1>7. \A x \in Buffers : x # b => chunks'[x] = chunks[x] /\ found'[x] = found[x]
  BY <1>1 DEF TypeOK
<1>8. \A x \in Buffers : x # b => ~Has(bundling, x)
  BY <1>2 DEF Has
<1> HIDE DEF b
<1>9. tx \in Seq(CellSet) /\ (\A i \in DOMAIN tx : tx[i] \in CellSet /\ tx[i].buf \in Buffers)
  <2>1. tx \in Seq(CellSet)
    BY DEF TypeOK
  <2>2. \A i \in DOMAIN tx : tx[i] \in CellSet
    BY <2>1, LenProperties, ElementOfSeq
  <2> QED BY <2>1, <2>2 DEF CellSet
<1>10. \A i \in DOMAIN built' : /\ H <= built'[i].len /\ built'[i].len <= Mtu
                               /\ built'[i].at < Mtu
  <2> TAKE i \in DOMAIN built'
  <2>1. i \in 1 .. Len(built) \/ i = Len(built) + 1
    BY <1>4 DEF Builds
  <2> QED BY <1>4, <1>5, <2>1 DEF Builds, BundlePackets
<1>11. \A i \in DOMAIN tx :
         /\ chunks[tx[i].buf] # << >>
         /\ (\A j \in DOMAIN tx : j > i => tx[j].buf # tx[i].buf) /\ ~Has(bundling, tx[i].buf)
            => tx[i].plen = found[tx[i].buf] + EndOf(chunks[tx[i].buf])
  BY DEF BundlePackets
<1>12. \A i \in DOMAIN tx : tx[i].plen > 0
  BY DEF BundleBuffers, QueuedPacketsCarryData
<1> DEFINE Covered(i) ==
       /\ chunks'[tx'[i].buf] # << >>
       /\ (\A j \in DOMAIN tx' : j > i => tx'[j].buf # tx'[i].buf) /\ ~Has(bundling', tx'[i].buf)
          => tx'[i].plen = found'[tx'[i].buf] + EndOf(chunks'[tx'[i].buf])
<1>13. ASSUME NEW i \in DOMAIN tx, i \in DOMAIN tx', tx'[i] = tx[i], tx[i].buf # b,
              \A j \in DOMAIN tx : j \in DOMAIN tx' /\ tx'[j] = tx[j]
       PROVE  Covered(i)
  <2>1. /\ chunks'[tx[i].buf] = chunks[tx[i].buf] /\ found'[tx[i].buf] = found[tx[i].buf]
        /\ ~Has(bundling, tx[i].buf)
    BY <1>7, <1>8, <1>9, <1>13
  <2>2. EndOf(chunks'[tx[i].buf]) = EndOf(chunks[tx[i].buf])
    BY <2>1
  <2> QED BY <1>11, <1>13, <2>1, <2>2
<1>14. CASE Waits(s)
  <2>1. tx' = tx /\ bundling' = <<e>>
    BY <1>1, <1>14
  <2>2. Has(bundling', b)
    <3>1. 1 \in DOMAIN <<e>> /\ <<e>>[1] = e
      OBVIOUS
    <3> QED BY <1>3, <2>1, <3>1 DEF Has
  <2>3. \A i \in DOMAIN tx' : Covered(i)
    <3> TAKE i \in DOMAIN tx'
    <3>1. CASE tx[i].buf = b
      BY <1>6, <2>1, <2>2, <3>1
    <3>2. CASE tx[i].buf # b
      BY <1>13, <2>1, <3>2
    <3> QED BY <3>1, <3>2
  <2>4. BundlePackets'
    BY <1>10, <2>3 DEF BundlePackets, Has, EndOf
  <2> QED BY <1>1, <1>12, <2>1, <2>4 DEF QueuedPacketsCarryData, BundleBuffers
<1>15. CASE ~Waits(s)
  <2>1. tx' = Append(tx, e) /\ bundling' = << >>
    BY <1>1, <1>15
  <2>2. /\ Len(tx) \in Nat /\ DOMAIN tx = 1 .. Len(tx) /\ DOMAIN tx' = 1 .. Len(tx) + 1
        /\ \A i \in 1 .. Len(tx) : tx'[i] = tx[i]
        /\ tx'[Len(tx) + 1] = e
    BY <1>3, <1>9, <2>1, AppendFacts
  <2>3. \A i \in DOMAIN tx' : i \in DOMAIN tx \/ i = Len(tx) + 1
    BY <2>2
  <2>4. \A i \in DOMAIN tx' : Covered(i)
    <3> TAKE i \in DOMAIN tx'
    <3>1. CASE i = Len(tx) + 1
      BY <1>3, <1>6, <2>2, <3>1
    <3>2. CASE i \in DOMAIN tx /\ tx[i].buf # b
      <4>1. \A j \in DOMAIN tx : j \in DOMAIN tx' /\ tx'[j] = tx[j]
        BY <2>2
      <4> QED BY <1>13, <3>2, <4>1
    <3>3. CASE i \in DOMAIN tx /\ tx[i].buf = b
      <4>1. Len(tx) + 1 \in DOMAIN tx' /\ Len(tx) + 1 > i /\ tx'[Len(tx) + 1].buf = tx'[i].buf
        BY <1>3, <2>2, <3>3
      <4>2. tx'[i].buf = b
        BY <2>2, <3>3
      <4> QED BY <1>6, <4>1, <4>2
    <3> QED BY <2>3, <3>1, <3>2, <3>3
  <2>5. BundlePackets'
    BY <1>10, <2>4 DEF BundlePackets, Has, EndOf
  <2>6. \A i \in DOMAIN tx' : tx'[i].plen > 0
    BY <1>3, <1>5, <1>12, <2>2, <2>3
  <2> QED BY <1>1, <2>5, <2>6 DEF QueuedPacketsCarryData, BundleBuffers
<1> QED BY <1>14, <1>15

\* A call of the bundling builder.
LEMMA InvBuildBundled ==
  ASSUME DataInvariant, NEW s \in Streams, BuildBundled(s)
  PROVE  DataInvariant'
<1>1. builder = "bundle" /\ builder' = "bundle"
  BY BundledChanges
<1>2. /\ TypeOK /\ BundleBuffers /\ BundlePackets /\ BundlePositions
      /\ QueuedPacketsCarryData /\ ReadsInside /\ ReassemblesWhole
      /\ \A x \in Buffers : Walks(chunks[x])
  BY <1>1 DEF DataInvariant, MessagesCarried
<1>3. TypeOK' /\ BundleBuffers' /\ \A x \in Buffers : Walks(chunks'[x])
  BY <1>2, BundledTypes, BundledBuffers, BundledWalks
<1>4. BundlePackets' /\ QueuedPacketsCarryData'
  BY <1>2, BundledPackets
<1>5. BundlePositions' /\ ReadsInside' /\ ReassemblesWhole'
  BY <1>2, BundledPositions
<1>6. NoByteSkipped' /\ RtxFindsChunk'
  BY <1>1 DEF NoByteSkipped, RtxFindsChunk
<1>7. (\A x \in Buffers : Walks(chunks[x]))'
  BY <1>3 DEF Walks
<1> QED BY <1>1, <1>3, <1>4, <1>5, <1>6, <1>7 DEF DataInvariant, MessagesCarried

-----------------------------------------------------------------------------
(***************************************************************************)
(* The initial states, and the invariant                                   *)
(***************************************************************************)
\* At first the pool has every buffer once.
LEMMA InitialPool ==
  ASSUME Init
  PROVE  /\ pool \in Seq(CellSet) /\ Len(pool) = Cardinality(Buffers)
         /\ \A i \in DOMAIN pool : pool[i].plen = 0
         /\ Distinct(pool) /\ \A b \in Buffers : Has(pool, b)
<1> DEFINE N == Cardinality(Buffers)
           f == SetToSeq(Buffers)
<1>1. IsFiniteSet(Buffers) /\ N \in Nat /\ ExistsBijection(1 .. N, Buffers)
  BY BuffersAssumption, FS_CardinalityType
<1>2. \E g \in [1 .. N -> Buffers] : IsInjective(g)
  BY <1>1 DEF ExistsBijection, Bijection, Injection, IsInjective
<1>3. f \in [1 .. N -> Buffers] /\ IsInjective(f)
  BY <1>2 DEF SetToSeq
<1> HIDE DEF f
<1>4. \A b \in Buffers : \E i \in 1 .. N : f[i] = b
  <2>1. f \in Injection(1 .. N, Buffers)
    BY <1>3 DEF Injection, IsInjective
  <2>2. Cardinality(1 .. N) = N
    BY <1>1, FS_Interval
  <2>3. f \in Surjection(1 .. N, Buffers)
    BY <1>1, <2>1, <2>2, FS_Injection
  <2> QED BY <2>3 DEF Surjection
<1>5. pool = [i \in 1 .. N |-> Cell(f[i], 0)]
  BY DEF Init, f
<1> HIDE DEF N
<1>6. DOMAIN pool = 1 .. N /\ \A i \in 1 .. N : /\ pool[i] \in CellSet
                                               /\ pool[i].buf = f[i] /\ pool[i].plen = 0
  BY <1>3, <1>5 DEF Cell, CellSet
<1>7. pool \in Seq(CellSet) /\ Len(pool) = N
  <2>1. pool \in [1 .. N -> CellSet]
    BY <1>5, <1>6
  <2> QED BY <1>1, <2>1
<1>8. Distinct(pool)
  BY <1>3, <1>6 DEF Distinct, IsInjective
<1>9. \A b \in Buffers : Has(pool, b)
  BY <1>4, <1>6 DEF Has
<1> QED BY <1>6, <1>7, <1>8, <1>9 DEF N

\* Nothing is built, queued or waiting at first.
LEMMA InitInvariant == Init => DataInvariant
<1> SUFFICES ASSUME Init PROVE DataInvariant
  OBVIOUS
<1>1. /\ builder \in {"fill", "bundle"} /\ high \in [Streams -> Lengths]
      /\ cur = [s \in Streams |-> 0] /\ tsn \in InitTsns
      /\ bundling = << >> /\ tx = << >> /\ current = NULL /\ off = 0 /\ remain = 0
      /\ chunks = [b \in Buffers |-> << >>] /\ rtx = [i \in 0 .. RtxSize - 1 |-> NULL]
      /\ built = << >> /\ found = [b \in Buffers |-> 0] /\ crashed = FALSE
  BY DEF Init
<1>2. /\ pool \in Seq(CellSet) /\ Len(pool) = Cardinality(Buffers)
      /\ \A i \in DOMAIN pool : pool[i].plen = 0
      /\ Distinct(pool) /\ \A b \in Buffers : Has(pool, b)
  BY InitialPool
<1>3. TypeOK
  <2>1. tsn \in Nat /\ 0 \in 0 .. W - 1
    BY <1>1, TsnAssumption, DataConstants
  <2>2. chunks \in [Buffers -> Seq(ChunkSet)]
    BY <1>1
  <2>3. rtx \in [0 .. RtxSize - 1 -> ChunkSet \union {NULL}]
    BY <1>1
  <2>4. cur \in [Streams -> 0 .. W - 1]
    BY <1>1, <2>1
  <2>5. bundling \in Seq(CellSet) /\ tx \in Seq(CellSet) /\ built \in Seq(ChunkSet)
    BY <1>1
  <2>6. off \in Nat /\ remain \in Nat /\ current \in Buffers \union {NULL}
    BY <1>1
  <2> QED BY <1>1, <1>2, <2>1, <2>2, <2>3, <2>4, <2>5, <2>6 DEF TypeOK
<1>4. DOMAIN built = {} /\ DOMAIN tx = {} /\ Len(built) = 0 /\ Len(tx) = 0
  BY <1>1
<1>5. \A b \in Buffers : Walks(chunks[b])
  BY <1>1 DEF Walks
<1>6. QueuedPacketsCarryData
  BY <1>1, <1>4 DEF QueuedPacketsCarryData
<1>7. RtxFindsChunk
  BY <1>4 DEF RtxFindsChunk
<1>8. \A s \in Streams : cur[s] = 0 /\ high[s] \in Nat
  <2>1. \A n \in Lengths : n \in Nat
    BY DataConstants
  <2> QED BY <1>1, <2>1
<1>9. MessagesCarried
  <2>1. ReadsInside /\ ReassemblesWhole
    BY <1>4 DEF ReadsInside, ReassemblesWhole
  <2>2. \A s \in Streams : Carried(s) = {} /\ 0 .. cur[s] - 1 = {}
    BY <1>4, <1>8 DEF Carried
  <2>3. NoByteSkipped
    BY <2>2 DEF NoByteSkipped
  <2> QED BY <2>1, <2>3 DEF MessagesCarried
<1>10. FillBuffers
  <2>1. \A b : ~Has(tx, b)
    BY <1>4 DEF Has
  <2>2. Distinct(tx)
    BY <1>4 DEF Distinct
  <2>3. \A b \in Buffers : b # current
    BY <1>1, BuffersAssumption
  <2>4. Len(pool) + Len(tx) + 0 = Cardinality(Buffers)
    BY <1>2, <1>4, DataConstants
  <2> QED BY <1>1, <1>2, <2>1, <2>2, <2>3, <2>4 DEF FillBuffers
<1>11. FillPackets
  <2>1. \A i \in DOMAIN pool : pool[i].buf \in Buffers
    <3>1. \A i \in DOMAIN pool : pool[i] \in CellSet
      BY <1>2, LenProperties, ElementOfSeq
    <3> QED BY <3>1 DEF CellSet
  <2> QED BY <1>1, <1>2, <1>4, <2>1 DEF FillPackets
<1>12. FillTsns /\ FillPositions
  BY <1>4, <1>8 DEF FillTsns, FillPositions
<1>13. BundleBuffers
  <2>1. Bundles = 0
    <3>1. {i \in DOMAIN built : built[i].at > 0} = {}
      BY <1>4
    <3> QED BY <3>1, FS_EmptySet DEF Bundles
  <2>2. Len(pool) = Least(RingSize, Cardinality(Buffers) + Bundles)
    BY <1>2, <2>1, DataConstants DEF Least
  <2> QED BY <1>1, <1>2, <2>2, DataConstants DEF BundleBuffers
<1>14. BundlePackets
  BY <1>4 DEF BundlePackets
<1>15. BundlePositions
  BY <1>4, <1>8 DEF BundlePositions
<1> QED BY <1>3, <1>5, <1>6, <1>7, <1>9, <1>10, <1>11, <1>12, <1>13, <1>14, <1>15
        DEF DataInvariant

\* Every step of either builder keeps the invariant.
LEMMA StepInvariant == DataInvariant /\ [Next]_vars => DataInvariant'
<1> SUFFICES ASSUME DataInvariant, [Next]_vars PROVE DataInvariant'
  OBVIOUS
<1>1. CASE Begin
  BY <1>1, InvBegin
<1>2. ASSUME NEW s \in Streams, BuildData(s) PROVE DataInvariant'
  BY <1>2, InvBuildData
<1>3. ASSUME NEW s \in Streams, BuildDataCrashes(s) PROVE DataInvariant'
  BY <1>3, InvBuildDataCrashes
<1>4. ASSUME NEW s \in Streams, BuildBundled(s) PROVE DataInvariant'
  BY <1>4, InvBuildBundled
<1>5. CASE UNCHANGED vars
  <2>1. UNCHANGED <<builder, high, cur, tsn, pool, bundling, tx, current, off, remain,
                    chunks, rtx, built, found, crashed>>
    BY <1>5 DEF vars
  <2>2. TypeOK' /\ (\A b \in Buffers : Walks(chunks[b]))' /\ QueuedPacketsCarryData'
    BY <2>1 DEF DataInvariant, TypeOK, Walks, QueuedPacketsCarryData
  <2>3. MessagesCarried' /\ RtxFindsChunk'
    BY <2>1, NothingBuilt DEF DataInvariant
  <2>4. builder' = "fill" => FillTsns' /\ FillPositions'
    BY <2>1, NothingBuilt DEF DataInvariant
  <2>5. builder' = "fill" => FillBuffers' /\ FillPackets'
    BY <2>1 DEF DataInvariant, FillBuffers, FillPackets, Has, Distinct, EndOf, H
  <2>6. builder' = "bundle" => BundlePositions'
    BY <2>1, NothingBuilt DEF DataInvariant
  <2>7. builder' = "bundle" => BundleBuffers' /\ BundlePackets'
    BY <2>1 DEF DataInvariant, BundleBuffers, BundlePackets, Bundles, EndOf, Has, H
  <2> QED BY <2>2, <2>3, <2>4, <2>5, <2>6, <2>7 DEF DataInvariant
<1> QED BY <1>1, <1>2, <1>3, <1>4, <1>5 DEF Next

\* The invariant of both builders: every reachable state satisfies it.
THEOREM DataInvariantHolds == Spec => []DataInvariant
BY InitInvariant, StepInvariant, PTL DEF Spec

-----------------------------------------------------------------------------
(***************************************************************************)
(* What the invariant says of the packets, the messages and the buffers    *)
(***************************************************************************)
\* Chunks end inside the packet, and lead from one to the next.
LEMMA InvariantPackets == DataInvariant => PacketsWellFormed
<1> SUFFICES ASSUME DataInvariant PROVE WritesInside /\ PacketsWalk
  BY DEF PacketsWellFormed
<1>1. TypeOK /\ \A b \in Buffers : Walks(chunks[b])
  BY DEF DataInvariant
<1>2. built \in Seq(ChunkSet) /\ \A i \in DOMAIN built : built[i] \in ChunkSet
  <2>1. built \in Seq(ChunkSet)
    BY <1>1 DEF TypeOK
  <2> QED BY <2>1, LenProperties, ElementOfSeq
<1>3. WritesInside
  <2> SUFFICES ASSUME NEW i \in DOMAIN built
               PROVE  IF builder = "fill" THEN built[i].at + Align(built[i].len) + H <= Mtu
                      ELSE built[i].at < Mtu /\ built[i].len <= Mtu
    BY DEF WritesInside
  <2>1. CASE builder = "fill"
    BY <2>1 DEF DataInvariant, FillPackets
  <2>2. CASE builder # "fill"
    <3>1. BundlePackets
      BY <1>1, <2>2 DEF DataInvariant, TypeOK
    <3> QED BY <2>2, <3>1 DEF BundlePackets
  <2> QED BY <2>1, <2>2
<1>4. PacketsWalk
  <2> SUFFICES ASSUME NEW b \in Buffers
               PROVE  /\ \A i \in DOMAIN chunks[b] : chunks[b][i].at =
                            IF i = 1 THEN 0
                            ELSE chunks[b][i - 1].at + Align(chunks[b][i - 1].len)
                      /\ builder = "fill" =>
                           /\ b = current => off = EndOf(chunks[b])
                                             /\ remain = Mtu - EndOf(chunks[b])
                           /\ \A i \in DOMAIN tx :
                                tx[i].buf = b => tx[i].plen = EndOf(chunks[b])
                      /\ builder = "bundle" => \A i \in DOMAIN tx :
                            tx[i].buf = b /\ ~(\E j \in DOMAIN tx : j > i /\ tx[j].buf = b)
                            /\ ~(\E j \in DOMAIN bundling : bundling[j].buf = b)
                            => tx[i].plen = found[b] + EndOf(chunks[b])
    BY DEF PacketsWalk
  <2>1. \A i \in DOMAIN chunks[b] : chunks[b][i].at =
           IF i = 1 THEN 0 ELSE chunks[b][i - 1].at + Align(chunks[b][i - 1].len)
    BY <1>1 DEF Walks
  <2>2. ASSUME builder = "fill", b = current
        PROVE  off = EndOf(chunks[b]) /\ remain = Mtu - EndOf(chunks[b])
    <3>1. off = EndOf(chunks[b]) /\ off + remain = Mtu
      BY <2>2, BuffersAssumption DEF DataInvariant, FillPackets
    <3>2. off \in Nat /\ remain \in Nat /\ Mtu \in Nat
      BY <1>1, DataConstants DEF TypeOK
    <3>3. remain = Mtu - off
      BY <3>1, <3>2
    <3> QED BY <3>1, <3>3
  <2>3. ASSUME builder = "fill", NEW i \in DOMAIN tx, tx[i].buf = b
        PROVE  tx[i].plen = EndOf(chunks[b])
    BY <2>3 DEF DataInvariant, FillPackets
  <2>4. ASSUME builder = "bundle", NEW i \in DOMAIN tx, tx[i].buf = b,
               ~(\E j \in DOMAIN tx : j > i /\ tx[j].buf = b),
               ~(\E j \in DOMAIN bundling : bundling[j].buf = b)
        PROVE  tx[i].plen = found[b] + EndOf(chunks[b])
    BY <2>4 DEF DataInvariant, BundlePackets, Has
  <2> QED BY <2>1, <2>2, <2>3, <2>4
<1> QED BY <1>3, <1>4

\* How many cells of a ring hold a buffer.
CellsWith(ring, b) == Cardinality({i \in DOMAIN ring : ring[i].buf = b})

\* None, one, or at least one.
LEMMA CountCells ==
  ASSUME NEW q \in Seq(CellSet), NEW b
  PROVE  /\ ~Has(q, b) => CellsWith(q, b) = 0
         /\ Has(q, b) /\ Distinct(q) => CellsWith(q, b) = 1
         /\ Has(q, b) => CellsWith(q, b) >= 1
         /\ CellsWith(q, b) = 1 => Has(q, b)
<1> DEFINE S == {i \in DOMAIN q : q[i].buf = b}
<1>1. Len(q) \in Nat /\ DOMAIN q = 1 .. Len(q)
  BY LenProperties
<1>2. IsFiniteSet(S) /\ Cardinality(S) \in Nat
  <2>1. IsFiniteSet(1 .. Len(q))
    BY <1>1, FS_Interval
  <2>2. IsFiniteSet(S)
    BY <1>1, <2>1, FS_Subset
  <2> QED BY <2>2, FS_CardinalityType
<1>3. S = {} <=> ~Has(q, b)
  BY DEF Has
<1>4. Cardinality(S) = 0 <=> S = {}
  BY <1>2, FS_EmptySet
<1>5. ASSUME Has(q, b), Distinct(q) PROVE Cardinality(S) = 1
  <2>1. PICK i \in DOMAIN q : q[i].buf = b
    BY <1>5 DEF Has
  <2>2. S = {i}
    BY <1>5, <2>1 DEF Distinct
  <2> QED BY <2>2, FS_Singleton
<1> HIDE DEF S
<1>6. Has(q, b) => Cardinality(S) >= 1
  BY <1>2, <1>3, <1>4
<1>7. Cardinality(S) = 1 => Has(q, b)
  BY <1>3, <1>4
<1>8. ~Has(q, b) => Cardinality(S) = 0
  BY <1>3, <1>4
<1> QED BY <1>5, <1>6, <1>7, <1>8 DEF CellsWith, S

\* Where the buffers are.
LEMMA InvariantBuffers == DataInvariant => BuffersAccounted
<1> SUFFICES ASSUME DataInvariant PROVE BufferPlaces
  BY DEF BuffersAccounted, DataInvariant
<1>1. /\ pool \in Seq(CellSet) /\ bundling \in Seq(CellSet) /\ tx \in Seq(CellSet)
      /\ builder \in {"fill", "bundle"} /\ built \in Seq(ChunkSet)
  BY DEF DataInvariant, TypeOK
<1>2. builder = "bundle" => Len(pool) = Least(RingSize, Cardinality(Buffers) + Bundles)
  BY DEF DataInvariant, BundleBuffers
<1> SUFFICES ASSUME NEW b \in Buffers
             PROVE  IF builder = "fill"
                    THEN CellsWith(pool, b) + CellsWith(tx, b) + (IF current = b THEN 1 ELSE 0) = 1
                    ELSE /\ CellsWith(pool, b) >= 1
                         /\ CellsWith(bundling, b) = 1 =>
                              Len(chunks[b]) = 1 /\ Last(built) = chunks[b][1]
  BY <1>2 DEF BufferPlaces, CellsWith
<1>3. CASE builder = "fill"
  <2>1. FillBuffers
    BY <1>3 DEF DataInvariant
  <2>2. Distinct(pool) /\ Distinct(tx)
    BY <2>1 DEF FillBuffers
  <2>3. /\ Has(pool, b) => CellsWith(pool, b) = 1
        /\ ~Has(pool, b) => CellsWith(pool, b) = 0
        /\ Has(tx, b) => CellsWith(tx, b) = 1
        /\ ~Has(tx, b) => CellsWith(tx, b) = 0
    BY <1>1, <2>2, CountCells
  <2>4. \/ b = current /\ ~Has(pool, b) /\ ~Has(tx, b)
        \/ b # current /\ Has(pool, b) /\ ~Has(tx, b)
        \/ b # current /\ ~Has(pool, b) /\ Has(tx, b)
    BY <2>1 DEF FillBuffers
  <2> QED BY <1>3, <2>3, <2>4
<1>4. CASE builder = "bundle"
  <2>1. BundleBuffers
    BY <1>4 DEF DataInvariant
  <2>2. CellsWith(pool, b) >= 1
    BY <1>1, <2>1, CountCells DEF BundleBuffers
  <2>3. ASSUME CellsWith(bundling, b) = 1
        PROVE  Len(chunks[b]) = 1 /\ Last(built) = chunks[b][1]
    <3>1. PICK i \in DOMAIN bundling : bundling[i].buf = b
      BY <1>1, <2>3, CountCells DEF Has
    <3>2. bundling # << >> /\ Len(bundling) = 1
      <4>1. bundling # << >>
        BY <3>1
      <4> QED BY <2>1, <4>1 DEF BundleBuffers
    <3>3. i = 1
      <4>1. DOMAIN bundling = 1 .. Len(bundling)
        BY <1>1, LenProperties
      <4> QED BY <3>1, <3>2, <4>1
    <3>4. chunks[b] = <<built[Len(built)]>>
      BY <2>1, <3>1, <3>2, <3>3 DEF BundleBuffers
    <3> QED BY <3>4 DEF Last
  <2> QED BY <1>4, <2>2, <2>3
<1> QED BY <1>1, <1>3, <1>4

\* sctp_build_data_hdr writes every chunk, with its padding and the bytes it
\* copies too many, inside the packet; the bundling builder begins every chunk
\* inside and writes at most a packet from there, up to twice the packet.  Both
\* leave packets whose chunks lead from one to the next up to the length in
\* tx_ring, which for a bundle counts what the buffer was found with too.
THEOREM PacketsAlwaysWellFormed == Spec => []PacketsWellFormed
BY DataInvariantHolds, InvariantPackets, PTL

\* Both builders read only bytes of the message; sctp_build_data_hdr skips none
\* before pos_current, and the flags of the bundling builder let a receiver
\* put the whole message together.
THEOREM MessagesAlwaysCarried == Spec => []MessagesCarried
<1>1. DataInvariant => MessagesCarried
  BY DEF DataInvariant
<1> QED BY <1>1, DataInvariantHolds, PTL

\* No queued packet is filled again by sctp_build_data_hdr, no waiting one by
\* another call of the bundling builder, whose pool has a cell more for every
\* bundle until its ring is full; packets without data are queued only on the
\* way to the crash.
THEOREM BuffersAlwaysAccounted == Spec => []BuffersAccounted
BY DataInvariantHolds, InvariantBuffers, PTL

\* The last ByteBase chunks are all found in rtx, for every TSN the
\* association starts with and although the TSN's last byte never carries.
THEOREM RtxAlwaysFindsChunk == Spec => []RtxFindsChunk
<1>1. DataInvariant => RtxFindsChunk
  BY DEF DataInvariant
<1> QED BY <1>1, DataInvariantHolds, PTL
=============================================================================
