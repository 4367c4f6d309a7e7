------------------------------ MODULE SctpData ------------------------------
(***************************************************************************)
(* Sending user messages as DATA chunks.  The library has two builders:    *)
(* sctp_build_data_hdr, which fills one packet until it is full, and the   *)
(* older build_prefilled_mac_ip_sctp_data_hdr, which lets a short packet   *)
(* wait in the ring `bundling' for a second chunk.  An association uses    *)
(* one of them.                                                            *)
(*                                                                         *)
(* Offsets and lengths in a packet are counted from the end of the common  *)
(* header.  A chunk is where it stands in the packet (at, len) and what it *)
(* carries: from byte pos of the message of its stream.                    *)
(***************************************************************************)
EXTENDS Integers, Sequences, FiniteSets, SequencesExt

CONSTANTS Streams,   \* streams of the association
          Lengths,   \* lengths of the messages to send
          Buffers,   \* packet buffers in prefilled_ring
          RingSize,  \* cells of prefilled_ring
          Mtu,       \* assoc->mtu, 1454
          W,         \* 2^32: positions in a message are u32
          ByteBase,  \* 256
          RtxSize,   \* RTX_BUFFER_SIZE, 1024
          InitTsns,  \* TSNs an association may start with, its peer chooses
          MaxChunks, \* bound: chunks built
          NULL

ASSUME SizesAssumption == /\ Mtu \in Nat /\ Mtu > 32 /\ W \in Nat /\ W > Mtu
                          /\ ByteBase \in Nat \ {0} /\ RtxSize \in Nat
                          /\ ByteBase <= RtxSize /\ RtxSize % ByteBase = 0
ASSUME TsnAssumption == InitTsns \subseteq Nat
\* pos_high is a u32.
ASSUME LengthsAssumption == Lengths \subseteq 0 .. W - 1
\* prefilled_ring has room for every buffer, and the first packet is there.
ASSUME BuffersAssumption == /\ IsFiniteSet(Buffers) /\ Buffers # {} /\ NULL \notin Buffers
                            /\ RingSize \in Nat /\ Cardinality(Buffers) <= RingSize
ASSUME BoundAssumption == MaxChunks \in Nat

VARIABLES builder,   \* the builder this association uses
          high,      \* pos_high of each stream (pos_low is 0)
          cur,       \* pos_current of each stream
          tsn,       \* the next TSN, as a number in host order
          pool,      \* prefilled_ring: cells [buf, plen]
          bundling,  \* the ring of that name
          tx,        \* what was pushed to tx_ring
          current,   \* current_packet, or NULL
          off,       \* cursor, as an offset in current_packet
          remain,    \* remain_plen
          chunks,    \* the chunks each buffer holds
          rtx,       \* the retransmission slots
          built,     \* history: all chunks
          found,     \* history: plen each buffer was last taken from the pool with
          crashed    \* a NULL cell was dereferenced

vars == <<builder, high, cur, tsn, pool, bundling, tx, current, off, remain,
          chunks, rtx, built, found, crashed>>

H == 16                              \* sizeof (hdr), and of its fld and data
Align(n) == ((n + 3) \div 4) * 4
Least(a, b) == IF a <= b THEN a ELSE b
Diff(a, b) == (a - b) % W            \* u32

\* fault: the slot is found from the TSN in network order
SlotNetworkOrder(t) == (t \div ByteBase) % RtxSize

\* rtx[ntohl (assoc->tsn) & RTX_MASK]
SlotOf(t) == t % RtxSize

\* tsn += htonl (1): the sum is made on the bytes in network order, so on a
\* little-endian machine the last byte of the TSN has no carry.
NextTsn(t) == (t \div ByteBase) * ByteBase + ((t + 1) % ByteBase)

Flags(s, len) ==
  IF high[s] <= len THEN {"B", "E"}
  ELSE IF cur[s] = 0 THEN {"B"}
  ELSE IF (cur[s] + Least(len, Diff(high[s], cur[s]))) % W = high[s] THEN {"E"}
  ELSE {}

Chunk(s, at, len, flags) == [stream |-> s, pos |-> cur[s], at |-> at,
                             len |-> len, tsn |-> tsn, flags |-> flags]

Cell(buf, plen) == [buf |-> buf, plen |-> plen]

Init ==
  /\ builder \in {"fill", "bundle"}
  /\ high \in [Streams -> Lengths]
  /\ cur = [s \in Streams |-> 0]
  /\ tsn \in InitTsns
  /\ pool = [i \in 1 .. Cardinality(Buffers) |-> Cell(SetToSeq(Buffers)[i], 0)]
  /\ bundling = << >> /\ tx = << >>
  /\ current = NULL /\ off = 0 /\ remain = 0
  /\ chunks = [b \in Buffers |-> << >>]
  /\ rtx = [i \in 0 .. RtxSize - 1 |-> NULL]
  /\ built = << >>
  /\ found = [b \in Buffers |-> 0]
  /\ crashed = FALSE

Running == ~crashed /\ Len(built) < MaxChunks

-----------------------------------------------------------------------------
(***************************************************************************)
(* sctp_build_data_hdr                                                     *)
(***************************************************************************)
\* The first packet, before the calls in create_client.
Begin == /\ builder = "fill" /\ current = NULL /\ Running
         /\ current' = Head(pool).buf
         /\ pool' = Tail(pool)
         /\ remain' = Mtu /\ off' = 0
         /\ UNCHANGED <<builder, high, cur, tsn, bundling, tx, chunks, rtx, built, found, crashed>>

\* fault: a fresh packet is flushed too
NeedsFlushFresh == remain < H + 4 \/ remain >= Mtu

NeedsFlush == remain < H + 4

\* fault: the packet that is queued goes back to the pool, as in the builders
\* of the handshake
FlushReturnsBuffer ==
  /\ tx' = Append(tx, Cell(current, Mtu - remain))
  /\ current' = Head(pool).buf
  /\ pool' = Append(Tail(pool), Cell(current, 0))

\* Queue the packet and take another.
Flush == /\ tx' = Append(tx, Cell(current, Mtu - remain))
         /\ current' = Head(pool).buf
         /\ pool' = Tail(pool)

\* fault: the packet's room does not stop at a multiple of four
ChunkLenUnaligned(s, room) == Least(room, Diff(high[s], cur[s]))

\* fault: the packet's room alone decides
ChunkLenRoom(s, room) == room - (room % 4)

\* pplen: header and payload; cut to a multiple of four where the padding
\* would not fit any more
ChunkLen(s, room) == LET n == Least(room, Diff(high[s], cur[s]))
                     IN  IF Align(n) > room THEN n - (n % 4) ELSE n

\* fault: pos_current advances by the header too
AdvanceWhole(s, len) == cur' = [cur EXCEPT ![s] = (@ + len) % W]

Advance(s, len) == cur' = [cur EXCEPT ![s] = (@ + len - H) % W]

\* Write a chunk at offset o of buffer b with `left' bytes of packet left.
\* The payload is copied after the header, len bytes of it; the last H of
\* them are where the next chunk will start.
Put(s, b, o, left) ==
  LET len == ChunkLen(s, left - H)
      c   == Chunk(s, o, len, Flags(s, len))
  IN  /\ chunks' = [chunks EXCEPT ![b] = Append(@, c)]
      /\ built' = Append(built, c)
      /\ off' = o + Align(len)
      /\ remain' = left - Align(len)
      /\ tsn' = NextTsn(tsn)
      /\ rtx' = [rtx EXCEPT ![SlotOf(tsn')] = c]
      /\ Advance(s, len)

BuildData(s) ==
  /\ builder = "fill" /\ current # NULL /\ Running
  /\ high[s] # cur[s]
  /\ \/ /\ ~NeedsFlush
        /\ Put(s, current, off, remain)
        /\ UNCHANGED <<tx, current, pool>>
     \/ /\ NeedsFlush /\ pool # << >>
        /\ Flush
        /\ Put(s, current', 0, Mtu)
  /\ UNCHANGED <<builder, high, bundling, found, crashed>>

\* cell->packet of an empty pool.  With nothing to send on the stream the
\* jump back to flush is taken until that happens.
BuildDataCrashes(s) ==
  /\ builder = "fill" /\ current # NULL /\ Running
  /\ \/ high[s] = cur[s]
     \/ NeedsFlush /\ pool = << >>
  /\ tx' = Append(tx, Cell(current, Mtu - remain)) \o pool
  /\ pool' = << >> /\ current' = NULL /\ remain' = Mtu
  /\ crashed' = TRUE
  /\ UNCHANGED <<builder, high, cur, tsn, bundling, off, chunks, rtx, built, found>>

-----------------------------------------------------------------------------
(***************************************************************************)
(* build_prefilled_mac_ip_sctp_data_hdr                                    *)
(***************************************************************************)
Room == Mtu - H                      \* pplen: 1438 of MAX_PACKET_LEN

Push(ring, cell) == IF Len(ring) < RingSize THEN Append(ring, cell) ELSE ring

\* fault: the second chunk comes after the payload of the first, not its padding
BundleAtUnpadded(bundled, first) == IF bundled THEN first.len ELSE 0

\* The second chunk comes after the first and its padding.
BundleAt(bundled, first) == IF bundled THEN Align(first.len) ELSE 0

\* fault: a last fragment that fills the packet is not the end
BundleFlagsLast(s) ==
  IF high[s] <= Room THEN {"B", "E"}
  ELSE IF cur[s] = 0 THEN {"B"}
  ELSE IF high[s] - cur[s] < Room THEN {"E"}
  ELSE {}

BundleFlags(s) == Flags(s, Room)

BuildBundled(s) ==
  LET bundled == bundling # << >>
      cell    == IF bundled THEN Head(bundling) ELSE Head(pool)
      first   == chunks[cell.buf][1]
      n       == Least(Room, high[s] - cur[s])
      pad     == IF cell.plen < Mtu THEN Align(H + n) - (H + n) ELSE 0
      plen    == cell.plen + pad + H + n
      c       == Chunk(s, BundleAt(bundled, first), H + n, BundleFlags(s))
      waits   == plen < Mtu /\ ~bundled
  IN  /\ builder = "bundle" /\ Running
      /\ chunks' = [chunks EXCEPT ![cell.buf] = IF bundled THEN <<first, c>> ELSE <<c>>]
      /\ built' = Append(built, c)
      /\ found' = IF bundled THEN found ELSE [found EXCEPT ![cell.buf] = cell.plen]
      /\ tsn' = NextTsn(tsn)
      /\ cur' = [cur EXCEPT ![s] = @ + n]
      /\ bundling' = IF waits THEN <<Cell(cell.buf, plen)>> ELSE << >>
      /\ tx' = IF waits THEN tx ELSE Append(tx, Cell(cell.buf, plen))
      /\ pool' = Push(IF bundled THEN pool ELSE Tail(pool), cell)
      /\ UNCHANGED <<builder, high, current, off, remain, rtx, crashed>>

Next == \/ Begin
        \/ \E s \in Streams : BuildData(s) \/ BuildDataCrashes(s) \/ BuildBundled(s)

Spec == Init /\ [][Next]_vars

-----------------------------------------------------------------------------
(***************************************************************************)
(* Properties                                                              *)
(***************************************************************************)
\* Where the last of these chunks ends, with its padding.
EndOf(cs) == IF cs = << >> THEN 0 ELSE Last(cs).at + Align(Last(cs).len)

\* sctp_build_data_hdr writes the header, the payload and the padding of a
\* chunk inside the packet, although it copies H bytes of payload more than
\* the chunk has, and whatever the other streams left of the packet.  The
\* bundling builder keeps a chunk of its own inside the packet but for its
\* padding, and checks nothing of a second one: that one begins inside and is
\* as long as a packet, so a bundle reaches up to 2 * Mtu and overruns the
\* packet, and the buffer as well.
WritesInside ==
  \A i \in DOMAIN built :
     LET c == built[i]
     IN  IF builder = "fill"
         THEN c.at + Align(c.len) + H <= Mtu
         ELSE c.at < Mtu /\ c.len <= Mtu

\* Walking a packet by the lengths of its chunks leads a receiver to every
\* chunk that was written and to no other, and the packet's length in tx_ring
\* is where they end; the bundling builder adds to it what the buffer came
\* from the pool with, the length of an earlier first chunk in it.  (What a
\* buffer holds is compared with the entry of tx_ring it was queued in last:
\* an earlier one sends what was written over it.)
PacketsWalk ==
  \A b \in Buffers :
     LET cs == chunks[b]
         end == EndOf(cs)
     IN  /\ \A i \in DOMAIN cs :
               cs[i].at = IF i = 1 THEN 0 ELSE cs[i - 1].at + Align(cs[i - 1].len)
         /\ builder = "fill" =>
               /\ b = current => off = end /\ remain = Mtu - end
               /\ \A i \in DOMAIN tx : tx[i].buf = b => tx[i].plen = end
         /\ builder = "bundle" => \A i \in DOMAIN tx :
               tx[i].buf = b /\ ~(\E j \in DOMAIN tx : j > i /\ tx[j].buf = b)
               /\ ~(\E j \in DOMAIN bundling : bundling[j].buf = b)
               => tx[i].plen = found[b] + end

\* pos_current of the stream wrapped below zero within the first n chunks:
\* one of its own was shorter than its header and had too little before it.
BelowZero(s, n) == \E j \in 1 .. n : /\ built[j].stream = s
                                     /\ built[j].pos + built[j].len < H

\* What the chunks of a stream carry for the receiver: the bytes between the
\* header and the next chunk.
Carried(s) == UNION {c.pos .. (c.pos + c.len - H - 1) :
                       c \in {built[i] : i \in {j \in DOMAIN built : built[j].stream = s}}}

\* The bytes sctp_build_data_hdr copies beyond a chunk and overwrites with
\* the next header are sent again by the next chunk: no byte before
\* pos_current is skipped, also when packets change, chunks of other streams
\* come between or a short chunk takes it back (but not below zero).  The last
\* H bytes of a message are never carried.
NoByteSkipped ==
  builder = "fill" => \A s \in Streams :
     ~BelowZero(s, Len(built)) =>
        /\ (0 .. cur[s] - 1) \subseteq Carried(s)
        /\ Carried(s) \intersect ((high[s] - H) .. (high[s] - 1)) = {}

\* A builder reads only bytes of the message, unless pos_current has wrapped
\* below zero before.
ReadsInside ==
  \A i \in DOMAIN built :
     LET c == built[i]
     IN  \/ c.pos + (IF builder = "fill" THEN c.len ELSE c.len - H) <= high[c.stream]
         \/ builder = "fill" /\ BelowZero(c.stream, i - 1)

\* Each of the last ByteBase chunks of sctp_build_data_hdr is found in rtx
\* under the TSN that follows its own, although TSNs repeat after ByteBase
\* chunks.
RtxFindsChunk ==
  builder = "fill" =>
     \A i \in DOMAIN built :
        Len(built) - i < ByteBase => rtx[SlotOf(NextTsn(built[i].tsn))] = built[i]

\* The second chunks the bundling builder has written.
Bundles == Cardinality({i \in DOMAIN built : built[i].at > 0})

\* A buffer of sctp_build_data_hdr is in the pool, the current packet or
\* queued, and in one of them only: what waits in tx_ring is not overwritten.
\* The bundling builder keeps every buffer in the pool, also the one that
\* waits for its second chunk; no other call fills that one meanwhile.  It
\* puts the buffer of a bundle back twice: the pool grows by a cell with each
\* bundle until the ring is full, and from then on the push is refused.
BufferPlaces ==
  /\ \A b \in Buffers :
       LET In(ring) == Cardinality({i \in DOMAIN ring : ring[i].buf = b})
       IN  IF builder = "fill"
           THEN In(pool) + In(tx) + (IF current = b THEN 1 ELSE 0) = 1
           ELSE /\ In(pool) >= 1
                /\ In(bundling) = 1 => Len(chunks[b]) = 1 /\ Last(built) = chunks[b][1]
  /\ builder = "bundle" => Len(pool) = Least(RingSize, Cardinality(Buffers) + Bundles)

\* A packet without a chunk is queued only by a call for a stream with
\* nothing to send, which empties the pool and crashes; without such a call
\* the crash comes when every buffer has been queued.
QueuedPacketsCarryData ==
  /\ ~crashed => \A i \in DOMAIN tx : tx[i].plen > 0
  /\ crashed /\ (\A s \in Streams : high[s] # cur[s])
     => /\ Len(tx) = Cardinality(Buffers)
        /\ \A i \in DOMAIN tx : tx[i].plen > 0

\* A receiver that puts together the chunks of a stream from the one with B
\* to the first with E has the whole message, as soon as the builder has been
\* through it (bundling builder).
PayloadEnd(c) == c.pos + c.len - H
Earlier(i) == {j \in 1 .. i - 1 : built[j].stream = built[i].stream}
ReassemblesWhole ==
  builder = "bundle" => \A i \in DOMAIN built :
     LET c == built[i]
         size == high[c.stream]
     IN  /\ "E" \in c.flags <=> PayloadEnd(c) = size
         /\ (\A j \in Earlier(i) : PayloadEnd(built[j]) < size) =>
               /\ "B" \in c.flags <=> Earlier(i) = {}
               /\ Earlier(i) = {} => c.pos = 0
               /\ \A j \in Earlier(i) : (\A k \in Earlier(i) : k <= j)
                                        => c.pos = PayloadEnd(built[j])

\* How far each builder writes, and that what it queues can be walked.
PacketsWellFormed == WritesInside /\ PacketsWalk

\* The chunks carry the messages: only bytes of them, none skipped, and with
\* the flags a receiver needs to put them together.
MessagesCarried == ReadsInside /\ NoByteSkipped /\ ReassemblesWhole

\* Where every buffer is, and when the pool runs out.
BuffersAccounted == BufferPlaces /\ QueuedPacketsCarryData
=============================================================================
