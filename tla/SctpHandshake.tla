--------------------------- MODULE SctpHandshake ---------------------------
(***************************************************************************)
(* The four-way handshake as if_ip_sctp dispatches it: the handlers        *)
(* sctp_process_sctp_*, the builders build_prefilled_mac_ip_sctp_* they    *)
(* call, and prepare_sctp_threads.  Several clients talk to the single     *)
(* association of a listening server over a network that loses, duplicates *)
(* and reorders packets.  A packet that sctp_check_checksums refuses is    *)
(* one that is lost.                                                       *)
(*                                                                         *)
(* A packet is built in a buffer taken from prefilled_ring; the buffer is  *)
(* then pushed to tx_ring and back to prefilled_ring, so it can be written *)
(* again while it waits in tx_ring.  What is transmitted is what the       *)
(* buffer holds by then.                                                   *)
(*                                                                         *)
(* The server keeps no state for an INIT: what it needs travels in the     *)
(* cookie, protected by an HMAC.  An HMAC is the cookie it was computed    *)
(* from.  Random tags and TSNs are distinct values.                        *)
(***************************************************************************)
EXTENDS Integers, Sequences, FiniteSets, Bags

CONSTANTS Clients, Server,
          Buffers,     \* the buffers of one endpoint's prefilled_ring
          TxSize,      \* size of tx_ring
          MaxInits,    \* bound: transmissions of a client's INIT
          MaxBuilds,   \* bound: packets the server builds
          MaxDups,     \* bound: packets the network duplicates
          MaxDamage,   \* bound: packets that arrive damaged
          NULL

ASSUME ServerAssumption == Server \notin Clients
ASSUME BuffersAssumption == IsFiniteSet(Buffers) /\ Buffers # {}
ASSUME TxSizeAssumption == TxSize \in Nat \ {0}
ASSUME NullAssumption == NULL \notin Clients \union {Server}
ASSUME BoundsAssumption == /\ MaxInits \in Nat /\ MaxBuilds \in Nat
                           /\ MaxDups \in Nat /\ MaxDamage \in Nat

EndPoints == Clients \union {Server}

VARIABLES status, verTag, initTag, tsn, dst, os,  \* of each association
          streams,             \* os the stream table was allocated for, or NULL
          pool, mem, tx,       \* prefilled_ring, buffer contents, tx_ring
          builds,              \* packets built so far
          net,                 \* bag of packets in flight
          inits, dups, damaged, lost,
          accepted,            \* history: cookies the server accepted
          allocFailed          \* endpoints whose last stream table failed

assoc == <<status, verTag, initTag, tsn, dst, os>>
rings == <<pool, mem, tx, builds>>
faults == <<inits, dups, damaged, lost>>
vars == <<status, verTag, initTag, tsn, dst, os, streams, pool, mem, tx, builds,
          net, inits, dups, damaged, lost, accepted, allocFailed>>

-----------------------------------------------------------------------------
(***************************************************************************)
(* Packets                                                                 *)
(***************************************************************************)
\* A random u32, made distinct: drawn by e, for this purpose, in this build.
Random(e, purpose, k) == <<e, purpose, k>>

InitPacket(c) == [type |-> "INIT", src |-> c, dst |-> Server,
                  tag |-> Random(c, "tag", 0), tsn |-> Random(c, "tsn", 0), os |-> c]

\* The State Cookie: the client's parameters, and a tag of its own.
Cookie(m, k) == [verTag |-> m.tag, initTag |-> Random(Server, "cookie", k),
                 tsn |-> m.tsn, src |-> m.src, os |-> m.os]

InitAckPacket(m, k) ==
  [type |-> "INIT_ACK", src |-> Server, dst |-> m.src,
   tag |-> Random(Server, "tag", k), tsn |-> Random(Server, "tsn", k),
   os |-> Server, cookie |-> Cookie(m, k), hmac |-> Cookie(m, k), whole |-> TRUE]

CookieEchoPacket(c, m) ==
  [type |-> "COOKIE_ECHO", src |-> c, dst |-> Server,
   cookie |-> m.cookie, hmac |-> m.hmac, whole |-> TRUE]

CookieAckPacket(to) == [type |-> "COOKIE_ACK", src |-> Server, dst |-> to,
                        whole |-> TRUE]

-----------------------------------------------------------------------------
\* The buffers in the order create_allocator pushed them.
AllocationOrder == CHOOSE order \in [1 .. Cardinality(Buffers) -> Buffers] :
                      {order[i] : i \in DOMAIN order} = Buffers

\* sctp_assoc_create, and the INIT of create_client.  The association of a
\* client is created in INIT_SENT; create_client then sets COOKIE_WAIT.
Init == /\ status \in [EndPoints -> {"LISTEN", "INIT_SENT", "COOKIE_WAIT"}]
        /\ \A e \in EndPoints : status[e] = "LISTEN" <=> e = Server
        /\ verTag = [e \in EndPoints |-> NULL]
        /\ initTag = [e \in EndPoints |-> NULL]
        /\ tsn = [e \in EndPoints |-> NULL]
        /\ dst = [e \in EndPoints |-> IF e = Server THEN NULL ELSE Server]
        /\ os = [e \in EndPoints |-> NULL]
        /\ streams = [e \in EndPoints |-> NULL]
        /\ pool = [e \in EndPoints |-> AllocationOrder]
        /\ mem = [e \in EndPoints |-> [b \in Buffers |-> NULL]]
        /\ tx = [e \in EndPoints |-> << >>]
        /\ builds = [e \in EndPoints |-> 0]
        /\ net = EmptyBag
        /\ inits = [c \in Clients |-> 0] /\ dups = 0 /\ damaged = 0 /\ lost = FALSE
        /\ accepted = {} /\ allocFailed = {}

-----------------------------------------------------------------------------
(***************************************************************************)
(* The builders: pop prefilled_ring, fill the buffer, push it to tx_ring   *)
(* (a full ring refuses it, which nobody notices) and to prefilled_ring.   *)
(* The ghost lost records that a packet was refused or overwritten.        *)
(***************************************************************************)
Queued(q, b, m, k) == IF Len(q) = TxSize THEN q
                      ELSE Append(q, [buf |-> b, built |-> m, nth |-> k])

\* fault: the buffer comes back at the front of the pool
BuildReusesLast(e, m) == LET b == Head(pool[e])
                         IN  /\ mem' = [mem EXCEPT ![e][b] = m]
                             /\ tx' = [tx EXCEPT ![e] = Queued(@, b, m, builds[e])]
                             /\ builds' = [builds EXCEPT ![e] = @ + 1]
                             /\ lost' = lost
                             /\ UNCHANGED pool

Build(e, m) == LET b == Head(pool[e])
                   overwrites == \E i \in DOMAIN tx[e] : tx[e][i].buf = b
               IN  /\ mem' = [mem EXCEPT ![e][b] = m]
                   /\ tx' = [tx EXCEPT ![e] = Queued(@, b, m, builds[e])]
                   /\ pool' = [pool EXCEPT ![e] = Append(Tail(@), b)]
                   /\ builds' = [builds EXCEPT ![e] = @ + 1]
                   /\ lost' = (lost \/ overwrites \/ Len(tx[e]) = TxSize)

\* prepare_sctp_threads: a table for the current os, or none when memory is
\* short; the old table stays then.
PrepareThreads(e, for) ==
  \/ /\ streams' = [streams EXCEPT ![e] = for]
     /\ allocFailed' = allocFailed \ {e}
  \/ /\ allocFailed' = allocFailed \union {e}
     /\ UNCHANGED streams

-----------------------------------------------------------------------------
(***************************************************************************)
(* if_ip_sctp and the handlers.  A packet the dispatch or a handler        *)
(* refuses is consumed without effect.                                     *)
(***************************************************************************)
Receive(m) == /\ BagIn(m, net)
              /\ net' = net (-) SetToBag({m})

\* fault: the HMAC is not compared
AcceptsAnyCookie(m) ==
  \/ m.type \in {"INIT", "COOKIE_ECHO"} /\ status[m.dst] = "LISTEN"
  \/ m.type = "INIT_ACK" /\ status[m.dst] = "INIT_SENT" /\ m.whole
  \/ m.type = "COOKIE_ACK" /\ status[m.dst] = "INIT_ACK_RECEIVED" /\ m.whole

\* fault: a second INIT ACK is accepted while the first cookie is in flight
AcceptsInitAckAgain(m) ==
  \/ m.type = "INIT" /\ status[m.dst] = "LISTEN"
  \/ /\ m.type = "INIT_ACK" /\ m.whole
     /\ status[m.dst] \in {"INIT_SENT", "INIT_ACK_RECEIVED"}
  \/ m.type = "COOKIE_ECHO" /\ status[m.dst] = "LISTEN" /\ m.whole /\ m.hmac = m.cookie
  \/ m.type = "COOKIE_ACK" /\ status[m.dst] = "INIT_ACK_RECEIVED" /\ m.whole

\* The status each packet type is accepted in; a cookie is checked against
\* its HMAC, the other lengths against the header's.
Accepts(m) ==
  \/ m.type = "INIT" /\ status[m.dst] = "LISTEN"
  \/ m.type = "INIT_ACK" /\ status[m.dst] = "INIT_SENT" /\ m.whole
  \/ m.type = "COOKIE_ECHO" /\ status[m.dst] = "LISTEN" /\ m.whole /\ m.hmac = m.cookie
  \/ m.type = "COOKIE_ACK" /\ status[m.dst] = "INIT_ACK_RECEIVED" /\ m.whole

Drop(m) == /\ Receive(m)
           /\ ~Accepts(m)
           /\ UNCHANGED <<assoc, streams, rings, faults, accepted, allocFailed>>

\* sctp_process_sctp_init: nothing of the INIT is kept.
ProcessInit(m) == /\ m.type = "INIT" /\ Receive(m) /\ Accepts(m)
                  /\ builds[Server] < MaxBuilds
                  /\ Build(Server, InitAckPacket(m, builds[Server]))
                  /\ UNCHANGED <<assoc, streams, inits, dups, damaged,
                                 accepted, allocFailed>>

ProcessInitAck(m) ==
  /\ m.type = "INIT_ACK" /\ Receive(m) /\ Accepts(m)
  /\ verTag' = [verTag EXCEPT ![m.dst] = m.tag]
  /\ os' = [os EXCEPT ![m.dst] = m.os]
  /\ tsn' = [tsn EXCEPT ![m.dst] = m.tsn]
  /\ status' = [status EXCEPT ![m.dst] = "INIT_ACK_RECEIVED"]
  /\ Build(m.dst, CookieEchoPacket(m.dst, m))
  /\ UNCHANGED <<initTag, dst, streams, inits, dups, damaged, accepted, allocFailed>>

\* fault: the stream table is sized before the cookie's os is stored
ProcessCookieEchoOldOs(m) ==
  /\ m.type = "COOKIE_ECHO" /\ Receive(m) /\ Accepts(m)
  /\ builds[Server] < MaxBuilds
  /\ verTag' = [verTag EXCEPT ![Server] = m.cookie.verTag]
  /\ initTag' = [initTag EXCEPT ![Server] = m.cookie.initTag]
  /\ os' = [os EXCEPT ![Server] = m.cookie.os]
  /\ tsn' = [tsn EXCEPT ![Server] = m.cookie.tsn]
  /\ dst' = [dst EXCEPT ![Server] = m.cookie.src]
  /\ Build(Server, CookieAckPacket(m.cookie.src))
  /\ PrepareThreads(Server, os[Server])
  /\ accepted' = accepted \union {m.cookie}
  /\ UNCHANGED <<status, inits, dups, damaged>>

\* The status stays LISTEN: the same or another cookie is accepted again.
ProcessCookieEcho(m) ==
  /\ m.type = "COOKIE_ECHO" /\ Receive(m) /\ Accepts(m)
  /\ builds[Server] < MaxBuilds
  /\ verTag' = [verTag EXCEPT ![Server] = m.cookie.verTag]
  /\ initTag' = [initTag EXCEPT ![Server] = m.cookie.initTag]
  /\ os' = [os EXCEPT ![Server] = m.cookie.os]
  /\ tsn' = [tsn EXCEPT ![Server] = m.cookie.tsn]
  /\ dst' = [dst EXCEPT ![Server] = m.cookie.src]
  /\ Build(Server, CookieAckPacket(m.cookie.src))
  /\ PrepareThreads(Server, m.cookie.os)
  /\ accepted' = accepted \union {m.cookie}
  /\ UNCHANGED <<status, inits, dups, damaged>>

ProcessCookieAck(m) ==
  /\ m.type = "COOKIE_ACK" /\ Receive(m) /\ Accepts(m)
  /\ status' = [status EXCEPT ![m.dst] = "ESTABLISHED"]
  /\ PrepareThreads(m.dst, os[m.dst])
  /\ UNCHANGED <<verTag, initTag, tsn, dst, os, rings, faults, accepted>>

-----------------------------------------------------------------------------
(***************************************************************************)
(* Sending: the client's INIT goes out from memory of its own and is       *)
(* repeated by the T1 timer; the rest goes through tx_ring                 *)
(***************************************************************************)
SendInit(c) == /\ inits[c] < MaxInits
               /\ inits' = [inits EXCEPT ![c] = @ + 1]
               /\ net' = net (+) SetToBag({InitPacket(c)})
               /\ UNCHANGED <<assoc, streams, rings, dups, damaged, lost,
                              accepted, allocFailed>>

Transmit(e) == /\ tx[e] # << >>
               /\ net' = net (+) SetToBag({mem[e][Head(tx[e]).buf]})
               /\ tx' = [tx EXCEPT ![e] = Tail(@)]
               /\ UNCHANGED <<assoc, streams, pool, mem, builds, faults,
                              accepted, allocFailed>>

-----------------------------------------------------------------------------
(***************************************************************************)
(* The network                                                             *)
(***************************************************************************)
\* The network loses a packet, or sctp_check_checksums refuses it before it
\* reaches if_ip_sctp (module Receive).
Lose(m) == /\ Receive(m)
           /\ lost' = TRUE
           /\ UNCHANGED <<assoc, streams, rings, inits, dups, damaged,
                          accepted, allocFailed>>

Duplicate(m) == /\ dups < MaxDups /\ BagIn(m, net)
                /\ net' = net (+) SetToBag({m})
                /\ dups' = dups + 1
                /\ UNCHANGED <<assoc, streams, rings, inits, damaged, lost,
                               accepted, allocFailed>>

\* A copy that passed the checksums and still is short, or has a cookie that
\* is not the one that was signed.
Damages(m) == {[m EXCEPT !.whole = FALSE]}
                \union IF m.type = "COOKIE_ECHO"
                       THEN {[m EXCEPT !.cookie.src = c] : c \in Clients \ {m.cookie.src}}
                       ELSE {}

Damage(m) == /\ damaged < MaxDamage /\ BagIn(m, net) /\ m.type # "INIT"
             /\ \E d \in Damages(m) : net' = net (+) SetToBag({d})
             /\ damaged' = damaged + 1
             /\ UNCHANGED <<assoc, streams, rings, inits, dups, lost,
                            accepted, allocFailed>>

-----------------------------------------------------------------------------
Handle(m) == \/ ProcessInit(m) \/ ProcessInitAck(m)
             \/ ProcessCookieEcho(m) \/ ProcessCookieAck(m) \/ Drop(m)

Deliver == \E m \in BagToSet(net) : Handle(m)

Next == \/ Deliver
        \/ \E m \in BagToSet(net) : Lose(m) \/ Duplicate(m) \/ Damage(m)
        \/ \E c \in Clients : SendInit(c)
        \/ \E e \in EndPoints : Transmit(e)

Spec == Init /\ [][Next]_vars

\* Both ends process what arrives and transmit what is queued; a client sends
\* its INIT.
FairSpec == /\ Spec /\ WF_vars(Deliver)
            /\ \A e \in EndPoints : WF_vars(Transmit(e))
            /\ \A c \in Clients : WF_vars(SendInit(c))

-----------------------------------------------------------------------------
(***************************************************************************)
(* Properties                                                              *)
(***************************************************************************)
\* The server's association always describes one client: everything it was
\* given by a cookie goes back to that client's own INIT, however cookies of
\* several clients, duplicates and damaged copies are interleaved.
AssociationOfOneClient ==
  LET c == dst[Server]
  IN  c # NULL => /\ inits[c] > 0
                  /\ verTag[Server] = InitPacket(c).tag
                  /\ tsn[Server] = InitPacket(c).tsn
                  /\ os[Server] = InitPacket(c).os

\* A client that reached ESTABLISHED was accepted by the server, and with
\* the cookie of the very INIT ACK whose tag the client uses, although the
\* server answers every copy of an INIT with another tag and cookie and no
\* handler compares the tag of a packet.
EstablishedIsAccepted ==
  \A c \in Clients : status[c] = "ESTABLISHED" =>
     \E k \in 0 .. MaxBuilds :
        /\ verTag[c] = Random(Server, "tag", k)
        /\ Cookie(InitPacket(c), k) \in accepted

\* A buffer waiting in tx_ring keeps the packet that was built in it until
\* as many packets as there are buffers were built after it: only then is it
\* taken from prefilled_ring again.
QueuedIntactUntilLapped ==
  \A e \in EndPoints : \A i \in DOMAIN tx[e] :
     LET q == tx[e][i]
     IN  mem[e][q.buf] = q.built \/ builds[e] > q.nth + Cardinality(Buffers)

\* The stream table has the size the association was told last, also when
\* another client's cookie replaced the first; the exception is a table that
\* could not be allocated, where the old one stays with the new sizes.
StreamsMatch == \A e \in EndPoints :
                   streams[e] # NULL /\ e \notin allocFailed
                   => streams[e] = os[e]

=============================================================================
