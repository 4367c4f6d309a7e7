------------------------------- MODULE XdpTx -------------------------------
(***************************************************************************)
(* The send side of the AF_XDP socket: a packet is assembled from segments *)
(* (sctp_prepare_packet, sctp_push_to_xdp_segs), sent by eth_send_sctp,    *)
(* which retries xdp_tx until the tx ring has room, or by xdp_tx_sg; sent  *)
(* descriptors come back through xdp_complete_tx.  One user thread, and    *)
(* the kernel that consumes tx and produces completions at any time.       *)
(*                                                                         *)
(* A descriptor is segment i of n of the packet of one call; contd is its  *)
(* XDP_PKT_CONTD option.  The first segment of every packet of eth_send_   *)
(* sctp is the same umem block, prefilled_umem_packet, whose IP length is  *)
(* rewritten by each call: ipLen is that shared memory, not a field of the *)
(* descriptor.                                                             *)
(***************************************************************************)
EXTENDS XdpRing

CONSTANTS MaxSegs,   \* XDP_MAX_SEGS
          MaxCalls   \* bound: how many packets are offered to the tx ring

ASSUME MaxSegsAssumption == MaxSegs \in 1 .. Size
ASSUME MaxCallsAssumption == MaxCalls \in Nat

VARIABLES tx, comp,            \* tx and completion ring
          held,                \* descriptors the kernel is sending
          segCount, built,     \* assoc->xdp_seg_count, mtu - remain_plen
          ipLen,               \* hdr->ip.len
          txPc, via, txN, want, max, \* the call in progress
          calls,               \* packets offered so far
          submitted, sent,     \* histories: published, taken by the kernel
          reaped               \* history: returned by xdp_complete_tx

caller == <<txPc, via, txN, want, max>>
packet == <<segCount, built, ipLen>>
history == <<submitted, reaped>>
txVars == <<tx, comp, held, segCount, built, ipLen, txPc, via, txN, want, max, calls,
            submitted, sent, reaped>>

\* Segment i of the packet being offered.  len is the length its builders
\* counted; the packet of xdp_tx_sg comes with headers of its own.
Desc(i) == [call |-> calls, i |-> i, contd |-> i < want, via |-> via,
            len |-> IF via = "tx" THEN built ELSE want]

TxInit == /\ tx = EmptyRing /\ comp = EmptyRing /\ held = {}
          /\ segCount = 1 /\ built = 1      \* sctp_prepare_packet has run
          /\ ipLen = 0
          /\ txPc = "idle" /\ via = "tx" /\ txN = 0 /\ want = 0 /\ max = 0 /\ calls = 0
          /\ submitted = << >> /\ sent = << >> /\ reaped = {}

-----------------------------------------------------------------------------
(***************************************************************************)
(* Assembling the packet                                                   *)
(***************************************************************************)
\* sctp_prepare_packet: the header segment only, remain_plen = mtu
Prepare == /\ txPc = "idle"
           /\ segCount' = 1 /\ built' = 1
           /\ UNCHANGED <<tx, comp, held, ipLen, caller, calls, history, sent>>

\* A builder counts its chunk in remain_plen and calls sctp_push_to_xdp_segs,
\* which refuses a segment beyond XDP_MAX_SEGS; the builder does not look at
\* the result.  Bound: at most one refusal per packet.
PushSeg == /\ txPc = "idle" /\ built <= MaxSegs
           /\ segCount' = IF segCount >= MaxSegs THEN segCount
                          ELSE segCount + 1
           /\ built' = built + 1
           /\ UNCHANGED <<tx, comp, held, ipLen, caller, calls, history, sent>>

-----------------------------------------------------------------------------
(***************************************************************************)
(* eth_send_sctp and xdp_tx; xdp_tx_sg                                     *)
(***************************************************************************)
\* fault: the length in the shared header is left alone
SendStaleLength == /\ txPc = "idle" /\ calls < MaxCalls
                   /\ want' = segCount /\ calls' = calls + 1
                   /\ txPc' = "tx_check" /\ via' = "tx"
                   /\ UNCHANGED <<tx, comp, held, packet, txN, max, history, sent>>

\* eth_send_sctp up to `retry': the length goes into the shared header.
Send == /\ txPc = "idle" /\ calls < MaxCalls
        /\ ipLen' = built
        /\ want' = segCount /\ calls' = calls + 1
        /\ txPc' = "tx_check" /\ via' = "tx"
        /\ UNCHANGED <<tx, comp, held, segCount, built, txN, max, history, sent>>

\* fault: like xdp_tx_sg, send what fits
TxCheckPartial == /\ txPc = "tx_check"
                  /\ txN' = Smaller(want, FreeEntries(tx))
                  /\ txPc' = IF txN' = 0 THEN "tx_check" ELSE "store"
                  /\ UNCHANGED <<tx, comp, held, packet, via, want, max, calls,
                                 history, sent>>

\* fault: a ring with exactly n free slots is refused
TxCheckNeedsSpare == /\ txPc = "tx_check"
                     /\ txN' = IF want >= FreeEntries(tx) THEN 0 ELSE want
                     /\ txPc' = IF txN' = 0 THEN "tx_check" ELSE "store"
                     /\ UNCHANGED <<tx, comp, held, packet, via, want, max, calls,
                                    history, sent>>

\* xdp_tx reads the counters; a packet goes in whole or not at all, and
\* eth_send_sctp tries again.
TxCheck == /\ txPc = "tx_check"
           /\ txN' = IF want = 0 \/ want > MaxSegs \/ want > FreeEntries(tx)
                     THEN 0 ELSE want
           /\ txPc' = IF txN' = 0 THEN "tx_check" ELSE "store"
           /\ UNCHANGED <<tx, comp, held, packet, via, want, max, calls,
                          history, sent>>

\* xdp_tx_sg reads the counters; what does not fit is cut off.
SgBegin(k) == /\ txPc = "idle" /\ calls < MaxCalls
              /\ want' = k /\ calls' = calls + 1
              /\ txN' = Smaller(k, FreeEntries(tx))
              /\ via' = "sg"
              /\ txPc' = IF txN' = 0 THEN "idle" ELSE "store"
              /\ UNCHANGED <<tx, comp, held, packet, max, history, sent>>

\* The store loop of both.
TxStore == /\ txPc = "store"
           /\ tx' = Store(tx, [i \in 1 .. txN |-> Desc(i)])
           /\ txPc' = "publish"
           /\ UNCHANGED <<comp, held, packet, via, txN, want, max, calls, history, sent>>

\* *producer = prod + n, then sendto, which only wakes the kernel.
TxPublish == /\ txPc = "publish"
             /\ tx' = Produce(tx, txN)
             /\ submitted' = submitted \o [i \in 1 .. txN |-> Desc(i)]
             /\ txPc' = "idle" /\ txN' = 0 /\ want' = 0
             /\ UNCHANGED <<comp, held, packet, via, max, calls, sent, reaped>>

-----------------------------------------------------------------------------
(***************************************************************************)
(* xdp_complete_tx                                                         *)
(***************************************************************************)
\* fault: the caller's max_n slots are given back
CompletePublishMax == /\ txPc = "comp_publish"
                      /\ comp' = Consume(comp, max)
                      /\ reaped' = reaped \union Elems(Entries(comp, comp.cons, txN))
                      /\ txPc' = "idle" /\ txN' = 0 /\ max' = 0
                      /\ UNCHANGED <<tx, held, packet, via, want, calls, submitted, sent>>

CompleteBegin(m) == /\ txPc = "idle"
                    /\ txN' = Smaller(Count(comp), m)
                    /\ txPc' = IF txN' = 0 THEN "idle" ELSE "comp_publish"
                    /\ max' = IF txN' = 0 THEN 0 ELSE m
                    /\ UNCHANGED <<tx, comp, held, packet, via, want, calls,
                                   history, sent>>

\* The copy loop and the store of the consumer: the slots copied are not
\* the kernel's to write before that store.
CompletePublish == /\ txPc = "comp_publish"
                   /\ comp' = Consume(comp, txN)
                   /\ reaped' = reaped \union Elems(Entries(comp, comp.cons, txN))
                   /\ txPc' = "idle" /\ txN' = 0 /\ max' = 0
                   /\ UNCHANGED <<tx, held, packet, via, want, calls, submitted, sent>>

-----------------------------------------------------------------------------
(***************************************************************************)
(* The kernel: reserves a completion slot for every descriptor it takes;   *)
(* descriptors complete in any order                                       *)
(***************************************************************************)
OldestDesc == tx.slot[Slot(tx.cons)]

KernelSend == /\ Count(tx) > 0
              /\ Count(comp) + Cardinality(held) < Size
              /\ held' = held \union {OldestDesc}
              /\ sent' = Append(sent, OldestDesc)
              /\ tx' = Consume(tx, 1)
              /\ UNCHANGED <<comp, packet, caller, calls, history>>

KernelComplete(d) == /\ d \in held
                     /\ held' = held \ {d}
                     /\ comp' = Produce(Store(comp, <<d>>), 1)
                     /\ UNCHANGED <<tx, packet, caller, calls, history, sent>>

Kernel == KernelSend \/ \E d \in held : KernelComplete(d)

-----------------------------------------------------------------------------
\* The thread inside a call.
CallStep == TxCheck \/ TxStore \/ TxPublish \/ CompletePublish

TxNext == \/ Prepare \/ PushSeg \/ Send \/ CallStep
          \/ \E k \in 1 .. MaxSegs : SgBegin(k)
          \/ \E m \in 0 .. Size : CompleteBegin(m)
          \/ Kernel

TxSpec == TxInit /\ [][TxNext]_txVars

\* The thread runs and the kernel sends what it was given; nobody has to
\* call xdp_complete_tx.
TxFairSpec == TxSpec /\ WF_txVars(CallStep) /\ WF_txVars(Kernel)

-----------------------------------------------------------------------------
(***************************************************************************)
(* Properties                                                              *)
(***************************************************************************)
\* Everywhere descriptor d is.
DescPlaces(d) ==
  LET queued == {s \in Pending(tx) : tx.slot[s] = d}
      done   == {s \in Pending(comp) : comp.slot[s] = d}
      owners == {o \in {"kernel", "reaped"} : \/ o = "kernel" /\ d \in held
                                              \/ o = "reaped" /\ d \in reaped}
  IN  ({"tx"} \X queued) \union ({"comp"} \X done) \union ({"owner"} \X owners)

\* A published descriptor is in the tx ring, in the kernel, in the
\* completion ring or back with the caller, and only in one of them: a slot
\* is never overwritten before the other side has read it, and no completion
\* is delivered twice or lost, although the counters wrap.
DescriptorOnePlace == \A i \in DOMAIN submitted :
                         Cardinality(DescPlaces(submitted[i])) = 1

\* The kernel sends what was published, in that order, and a packet reaches
\* the wire as consecutive descriptors that start after the end of the packet
\* before.  The exception is an xdp_tx_sg call that was
\* cut: its last descriptor announces a continuation, so the next packet is
\* glued to it.  A packet of eth_send_sctp never is the cut one.
PacketsFramed ==
  /\ sent = SubSeq(submitted, 1, Len(sent))
  /\ \A j \in 2 .. Len(submitted) :
     LET d == submitted[j]
         e == submitted[j - 1]
     IN  \/ d = [e EXCEPT !.i = @ + 1, !.contd = d.contd] /\ e.contd
         \/ d.i = 1 /\ (e.contd => e.via = "sg")

\* A packet of another length was offered after descriptor d.
Overtaken(d) ==
  \/ \E j \in DOMAIN submitted : /\ submitted[j].call > d.call
                                /\ submitted[j].via = "tx"
                                /\ submitted[j].len # d.len
  \/ txPc \in {"tx_check", "store", "publish"} /\ via = "tx" /\ built # d.len

\* The header block is shared by all packets of an association and is
\* rewritten while earlier packets may be queued.  When the kernel reads it
\* for a packet it holds that packet's length, unless a packet of another
\* length was offered in the meantime; a retransmission of the same packet
\* does no harm.
HeaderIntactUnlessOvertaken ==
  [][sent' # sent /\ OldestDesc.via = "tx" /\ OldestDesc.i = 1
     => ipLen = OldestDesc.len \/ Overtaken(OldestDesc)]_txVars

\* eth_send_sctp returns although nobody reaps completions, for as long as
\* no more than two rings of descriptors are outstanding.
Outstanding == Len(submitted) - Cardinality(reaped)
SendReturns == txPc = "tx_check" /\ Outstanding + want <= 2 * Size ~> txPc = "idle"
=============================================================================
