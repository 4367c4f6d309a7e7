------------------------------ MODULE Receive ------------------------------
(***************************************************************************)
(* A sender that uses the builders of Wire, a network that damages and     *)
(* loses packets, and one of the two receivers on the socket: the loop of  *)
(* recv_sctp_packet, which checks the checksums and hands buffers over to  *)
(* a consumer through a ring, or a program that calls eth_receive_sctp.    *)
(*                                                                         *)
(* push_ringbuf and pop_ringbuf are atomic here (Ringbuf shows that they   *)
(* implement a queue).  A packet built in a prefilled buffer is sent       *)
(* before the buffer's turn comes again (SctpHandshake has the case where  *)
(* it is not).                                                             *)
(***************************************************************************)
EXTENDS Wire, FiniteSets

CONSTANTS Ids,         \* words an IP header may have
          Dests,       \* destination addresses <<high, low>>
          AnyDest,     \* the destination of a server's template
          Prefilled,   \* buffers of the sender's prefilled_ring
          Buffers,     \* receive buffers, in the receiver's allocator
          RbSize,      \* cells of the ring to the consumer
          MaxSends,    \* bound: packets sent
          MaxFaults,   \* bound: packets damaged or lost
          NULL

ASSUME IdsAssumption == Ids \subseteq 1 .. W - 1 /\ Ids # {}
ASSUME RbSizeAssumption == RbSize \in Nat \ {0}
\* create_server's destination is ~0.
ASSUME DestsAssumption == /\ Dests \subseteq (0 .. W - 1) \X (0 .. W - 1)
                          /\ AnyDest = <<W - 1, W - 1>> /\ AnyDest \notin Dests
ASSUME BuffersAssumption == /\ IsFiniteSet(Buffers) /\ IsFiniteSet(Prefilled)
                            /\ Prefilled # {} /\ NULL \notin Buffers

VARIABLES frame,     \* frame_data_t: packet and plen of the raw builders
          template,  \* what prefill_mac_ip_sctp was given: id and destination
          ring,      \* prefilled_ring
          header,    \* the IP header in each prefilled buffer
          sent,      \* history: the packets as they were sent, and whether
                     \* their checksums should be right
          wire,      \* what waits at the socket
          faults,    \* packets lost or damaged
          receiver,  \* "loop" or "eth"
          pc,        \* of recv_sctp_packet
          buffer,    \* the buffer it holds, or NULL
          pool,      \* allocator
          content,   \* of the receive buffers
          rb,        \* ring to the consumer
          delivered  \* history: what the user of the packets got

sender == <<frame, ring, header>>
network == <<sent, wire, faults>>
receiving == <<pc, buffer, pool, content, rb, delivered>>
vars == <<sender, template, network, receiver, receiving>>

\* Buffers in the order in which they were pushed at set-up
InOrder(set) == CHOOSE q \in [1 .. Cardinality(set) -> set] : ToSet(q) = set

Init == /\ frame = [packet |-> 0, plen |-> 0]
        /\ template \in [id : Ids, dest : Dests \union {AnyDest}]
        /\ ring = InOrder(Prefilled)
        /\ header = [b \in Prefilled |-> Prefill(template.id, template.dest)]
        /\ sent = << >> /\ wire = << >> /\ faults = 0
        /\ receiver \in {"loop", "eth"}
        /\ pc = "pop" /\ buffer = NULL /\ pool = InOrder(Buffers)
        /\ content = [b \in Buffers |-> NULL]
        /\ rb = << >> /\ delivered = << >>

-----------------------------------------------------------------------------
(***************************************************************************)
(* The network: a packet arrives, is lost, or arrives damaged in one place *)
(***************************************************************************)
Damages(d) ==
  {[d EXCEPT !.ip.id = w] : w \in {0, W - 1}}
    \union {[d EXCEPT !.ip.dest[2] = w] : w \in {0, W - 1}}
    \union {[d EXCEPT !.ip.check = (@ + 1) % W], [d EXCEPT !.ip.len = 0],
            [d EXCEPT !.fld = (@ + 1) % W], [d EXCEPT !.body = 0],
            [d EXCEPT !.size = HdrSize - 1]}

Send(d, right) ==
  /\ Len(sent) < MaxSends
  /\ sent' = Append(sent, [packet |-> d, right |-> right])
  /\ \/ /\ wire' = Append(wire, [nth |-> Len(sent) + 1, packet |-> d])
        /\ UNCHANGED faults
     \/ /\ faults < MaxFaults
        /\ faults' = faults + 1
        /\ \/ UNCHANGED wire
           \/ \E x \in Damages(d) \ {d} :
                 wire' = Append(wire, [nth |-> Len(sent) + 1, packet |-> x])
  /\ UNCHANGED <<template, receiver, receiving>>

-----------------------------------------------------------------------------
\* Equal as one's complement words
Alike(v, w) == v % (W - 1) = w % (W - 1)

(***************************************************************************)
(* The sender.  Every packet has another body.  The second argument of     *)
(* Send says when the receiver should find the checksums right.            *)
(***************************************************************************)
Body == Len(sent) + 1

\* build_sctp_init_hdr, _init_ack_hdr, _cookie_echo_hdr, _cookie_ack_hdr.
\* They add to plen; the caller may reset it before the next packet.
BuildRaw(kind, reset) ==
  LET f == IF reset THEN [frame EXCEPT !.plen = 0] ELSE frame
      r == Raw(f, kind, template.id, template.dest, Body)
  IN  /\ frame' = r.frame
      /\ Send(r.packet, RawFits(f, kind))
      /\ UNCHANGED <<ring, header>>

\* prefill_mac_ip_sctp and build_prefilled_sctp_init_hdr, on a frame of its own
BuildPrefilledInit ==
  LET d == PrefilledInit(template.id, template.dest, Body)
  IN  /\ Send(d, Htons(d.ip.len) <= Prefill(template.id, template.dest).check)
      /\ UNCHANGED sender

\* eth_send_sctp of the INIT in umem
SendXdpInit == /\ Send(XdpInit(template.id, template.dest, Body), FALSE)
               /\ UNCHANGED sender

\* The checksum an in-place build finds in its buffer is the template's, but
\* for what the subtraction itself will be off by.  A result of FFFF stands for
\* 0000, which is what a receiver computes.
FindsTemplateCheck(b, len, off) ==
  /\ Alike(header[b].check,
           Prefill(template.id, template.dest).check + WrapError(header[b].check, len, off))
  /\ TakeOff(header[b].check, len, off) # W - 1

\* A server answers the INITs and cookies of any client, a client sends
\* cookies to its server.  The buffer goes back to prefilled_ring as it is.
BuildInPlace(kind, dest) ==
  LET b == Head(ring)
      d == InPlace(header[b], kind, dest, Body)
  IN  /\ \/ template.dest = AnyDest /\ kind \in {"init_ack", "cookie_ack"}
         \/ template.dest = dest /\ kind = "cookie_echo"
      /\ header' = [header EXCEPT ![b] = d.ip]
      /\ ring' = Append(Tail(ring), b)
      /\ Send(d, FindsTemplateCheck(b, Htons(d.ip.len), Off(kind, dest)))
      /\ UNCHANGED frame

\* The length in the IP header is right for no data packet, but that of a
\* handshake packet built in this buffer before is long enough for the receiver.
BuildData(fld, more) ==
  LET b == Head(ring)
      d == Data(header[b], fld, more, Body)
  IN  /\ header' = [header EXCEPT ![b] = d.ip]
      /\ ring' = Append(Tail(ring), b)
      /\ Send(d, more = 0 /\ header[b].len >= IpSize + CmnSize + FldSize)
      /\ UNCHANGED frame

-----------------------------------------------------------------------------
(***************************************************************************)
(* recv_sctp_packet.  Where the code polls (an empty allocator, an empty   *)
(* socket, a full ring) there is no step until there is something.         *)
(***************************************************************************)
LoopPop == /\ receiver = "loop" /\ pc = "pop" /\ pool # << >>
           /\ buffer' = Head(pool) /\ pool' = Tail(pool)
           /\ pc' = "recv"
           /\ UNCHANGED <<sender, template, network, receiver, content, rb, delivered>>

\* fault: a packet that is refused costs its buffer
LoopRecvLeaks == /\ receiver = "loop" /\ pc = "recv" /\ wire # << >>
                 /\ content' = [content EXCEPT ![buffer] = Head(wire)]
                 /\ wire' = Tail(wire)
                 /\ pc' = IF ChecksumsOk(Head(wire).packet) THEN "push" ELSE "pop"
                 /\ UNCHANGED <<sender, template, sent, faults, receiver, buffer, pool,
                                rb, delivered>>

\* recv, then the checksums: the buffer of a bad packet is used again
LoopRecv == /\ receiver = "loop" /\ pc = "recv" /\ wire # << >>
            /\ content' = [content EXCEPT ![buffer] = Head(wire)]
            /\ wire' = Tail(wire)
            /\ pc' = IF ChecksumsOk(Head(wire).packet) THEN "push" ELSE "recv"
            /\ UNCHANGED <<sender, template, sent, faults, receiver, buffer, pool,
                           rb, delivered>>

\* recv fails, or the other side has closed: the buffer goes back
LoopExit == /\ receiver = "loop" /\ pc = "recv"
            /\ pool' = Append(pool, buffer) /\ buffer' = NULL
            /\ pc' = "exited"
            /\ UNCHANGED <<sender, template, network, receiver, content, rb, delivered>>

\* fault: the ring is not retried
LoopPushOnce == /\ receiver = "loop" /\ pc = "push"
                /\ rb' = IF Len(rb) < RbSize THEN Append(rb, buffer) ELSE rb
                /\ buffer' = NULL
                /\ pc' = "pop"
                /\ UNCHANGED <<sender, template, network, receiver, pool, content, delivered>>

LoopPush == /\ receiver = "loop" /\ pc = "push" /\ Len(rb) < RbSize
            /\ rb' = Append(rb, buffer) /\ buffer' = NULL
            /\ pc' = "pop"
            /\ UNCHANGED <<sender, template, network, receiver, pool, content, delivered>>

\* The consumer takes a packet and gives its buffer back.
Consume == /\ rb # << >>
           /\ delivered' = Append(delivered, content[Head(rb)])
           /\ rb' = Tail(rb)
           /\ pool' = Append(pool, Head(rb))
           /\ UNCHANGED <<sender, template, network, receiver, pc, buffer, content>>

-----------------------------------------------------------------------------
\* eth_receive_sctp: a buffer per call, whether recv fails, the packet is
\* short, or it becomes current_packet.  Nothing is checked.
EthReceive ==
  /\ receiver = "eth" /\ pool # << >>
  /\ pool' = Tail(pool)
  /\ \/ UNCHANGED <<buffer, content, delivered, wire>>
     \/ /\ wire # << >>
        /\ wire' = Tail(wire)
        /\ content' = [content EXCEPT ![Head(pool)] = Head(wire)]
        /\ IF Head(wire).packet.size < HdrSize
           THEN UNCHANGED <<buffer, delivered>>
           ELSE /\ buffer' = Head(pool)
                /\ delivered' = Append(delivered, Head(wire))
  /\ UNCHANGED <<sender, template, sent, faults, receiver, pc, rb>>

-----------------------------------------------------------------------------
\* What build_prefilled_mac_ip_sctp_data_hdr gives to tx_ring, as the first
\* chunk and the bytes behind it: a full chunk and its padding, a chunk that
\* needs no padding (a short one goes out alone when its buffer has come back
\* with the plen of an earlier bundle), and a bundle.
DataShapes == {<<1454, 2>>, <<20, 0>>, <<1436, 20>>}

SendSome == \/ \E kind \in Kinds, reset \in BOOLEAN : BuildRaw(kind, reset)
            \/ BuildPrefilledInit
            \/ SendXdpInit
            \/ \E kind \in Kinds, dest \in Dests : BuildInPlace(kind, dest)
            \/ \E shape \in DataShapes : BuildData(shape[1], shape[2])

Loop == LoopPop \/ LoopRecv \/ LoopPush

Next == SendSome \/ Loop \/ LoopExit \/ Consume \/ EthReceive

Spec == Init /\ [][Next]_vars

\* The receiving thread and the consumer run.
FairSpec == Spec /\ WF_vars(Loop) /\ WF_vars(Consume)

-----------------------------------------------------------------------------
(***************************************************************************)
(* Properties                                                              *)
(***************************************************************************)
PassesAsPredicted(by) ==
  \A k \in DOMAIN sent : sent[k].packet.by \in by
                         => (ChecksumsOk(sent[k].packet) <=> sent[k].right)

\* The packets of build_sctp_*_hdr pass sctp_check_checksums, also when plen
\* still counts the packets before: every length is taken from the same running
\* plen, so they stay consistent with each other unless it wraps between them.
RawPasses == PassesAsPredicted({"raw"})

\* After any number of packets the raw builders are back where the first one
\* started, but for a chunk header per COOKIE ECHO: room is made for one more
\* than is written, so that the frame creeps up its buffer.
FrameCreepsByEchoes ==
  frame.packet = FldSize * Cardinality({k \in DOMAIN sent :
                                          /\ sent[k].packet.by = "raw"
                                          /\ sent[k].packet.kind = "cookie_echo"})

\* An INIT of build_prefilled_sctp_init_hdr passes exactly when the length
\* can be taken off the template's checksum without a borrow: the borrow is
\* never folded back in.
PrefilledInitPassesUnlessBorrow == PassesAsPredicted({"prefilled"})

\* An INIT ACK, COOKIE ECHO or COOKIE ACK passes exactly when the checksum in
\* its buffer is still the template's, but for the error the 32-bit subtraction
\* makes.  The builders update the checksum in the buffer they give back and
\* take the next length off that one: the first packet of a buffer passes unless
\* the subtraction is off, a later one only by chance, when what was taken off
\* before is a multiple of 65535 with the errors of all of them.
InPlacePassesFromTemplate == PassesAsPredicted({"in_place"})

\* A data packet passes exactly when it is one chunk without padding, in a
\* buffer in which a handshake packet was built before: the CRC covers all that
\* follows, the receiver's the first chunk, and nobody but the builders of
\* handshake packets ever sets the length in the IP header.
DataPassesByAccident == PassesAsPredicted({"data"})

\* The client's INIT from umem, whose checksums nobody fills in, never passes.
UncheckedNeverPasses == PassesAsPredicted({"xdp"})

\* Which packets of which builder the receiver finds right, and where the
\* builders leave their frame.
BuildersAsPredicted ==
  /\ RawPasses /\ FrameCreepsByEchoes
  /\ PrefilledInitPassesUnlessBorrow /\ InPlacePassesFromTemplate
  /\ DataPassesByAccident /\ UncheckedNeverPasses

\* The receiver's test of the IP header is the Internet checksum of RFC 1071,
\* with 0000 for a sum of FFFF, and tcp_checksum, which folds at the end, is
\* the same function as ip_checksum, which folds at every word.
SumIsInternetChecksum ==
  \A k \in DOMAIN sent :
    LET ip == sent[k].packet.ip
    IN  /\ ip.check = FullCheck(ip) <=> SumsUp(Words(ip), ip.check) /\ ip.check # W - 1
        /\ FullCheck(ip) = TcpChecksum(Words(ip), 0)

\* The receiver hands on what was sent: damage in one place of a packet that
\* was right is found, but for a header word of 0000 that became FFFF or the
\* reverse.  (Damage can also repair a packet that left with a wrong sum.)
AcceptedAsSent ==
  receiver = "loop" =>
    \A i \in DOMAIN delivered :
      LET got == delivered[i].packet
          was == sent[delivered[i].nth].packet
      IN  sent[delivered[i].nth].right =>
          /\ Alike(got.ip.id, was.ip.id) /\ Alike(got.ip.dest[2], was.ip.dest[2])
          /\ [got EXCEPT !.ip = was.ip] = was
          /\ got.ip.check = was.ip.check /\ got.ip.len = was.ip.len

\* The receiver's checks are those of the protocol and find the damage.
ChecksSound == SumIsInternetChecksum /\ AcceptedAsSent

\* Packets come out in the order they were sent, each once, and in the loop
\* every buffer is in one place: allocator, receiving thread or ring.
InOrderOnce ==
  /\ \A i, j \in DOMAIN delivered : i < j => delivered[i].nth < delivered[j].nth
  /\ receiver = "loop" =>
       /\ ToSet(pool) \union ToSet(rb) \union ({buffer} \ {NULL}) = Buffers
       /\ Len(pool) + Len(rb) + (IF buffer = NULL THEN 0 ELSE 1) = Cardinality(Buffers)

\* A packet with right checksums that has reached the socket is handed on,
\* unless recv fails: refused packets cost neither buffers nor their turn.
GoodGetsThrough ==
  \A k \in 1 .. MaxSends :
     (receiver = "loop" /\ \E i \in DOMAIN wire : /\ wire[i].nth = k
                                                  /\ ChecksumsOk(wire[i].packet))
     ~> (pc = "exited" \/ \E i \in DOMAIN delivered : delivered[i].nth = k)
=============================================================================
