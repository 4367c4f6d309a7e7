------------------------ MODULE SctpHandshakeProofs ------------------------
(***************************************************************************)
(* Proofs about SctpHandshake, for any number of clients, buffers and      *)
(* packets: what the server and the clients believe of each other, and     *)
(* what a buffer in tx_ring holds, however the network behaves.            *)
(*                                                                         *)
(* The heart is Genuine: what every packet in flight, damaged copies too,  *)
(* says about the endpoints that had to act before it could exist.         *)
(***************************************************************************)
EXTENDS SctpHandshake, FiniteSetTheorems, SequenceTheorems, TLAPS

-----------------------------------------------------------------------------
(***************************************************************************)
(* The inductive invariant                                                 *)
(***************************************************************************)
Randoms == EndPoints \X {"tag", "tsn", "cookie"} \X Nat
Cookies == [verTag : Randoms, initTag : Randoms, tsn : Randoms,
            src : Clients, os : Clients]
Packets ==
  [type : {"INIT"}, src : Clients, dst : {Server}, tag : Randoms, tsn : Randoms, os : Clients]
    \union [type : {"INIT_ACK"}, src : {Server}, dst : Clients, tag : Randoms, tsn : Randoms,
            os : {Server}, cookie : Cookies, hmac : Cookies, whole : BOOLEAN]
    \union [type : {"COOKIE_ECHO"}, src : Clients, dst : {Server},
            cookie : Cookies, hmac : Cookies, whole : BOOLEAN]
    \union [type : {"COOKIE_ACK"}, src : {Server}, dst : Clients, whole : BOOLEAN]

Past == {"INIT_ACK_RECEIVED", "ESTABLISHED"}
NumBuffers == Cardinality(Buffers)
TxEntries == [buf : Buffers, built : Packets, nth : Nat]

\* Only the server listens.
AssocTypeOK ==
  /\ status \in [EndPoints -> {"LISTEN", "INIT_SENT", "COOKIE_WAIT"} \union Past]
  /\ \A e \in EndPoints : status[e] = "LISTEN" <=> e = Server
  /\ verTag \in [EndPoints -> Randoms \union {NULL}]
  /\ tsn \in [EndPoints -> Randoms \union {NULL}]
  /\ dst \in [EndPoints -> EndPoints \union {NULL}]
  /\ os \in [EndPoints -> EndPoints \union {NULL}]
  /\ streams \in [EndPoints -> EndPoints \union {NULL}]
  /\ inits \in [Clients -> Nat]

RingsTypeOK ==
  /\ pool \in [EndPoints -> Seq(Buffers)]
  /\ mem \in [EndPoints -> [Buffers -> Packets \union {NULL}]]
  /\ tx \in [EndPoints -> Seq(TxEntries)]
  /\ builds \in [EndPoints -> Nat]

\* Client c has taken the k-th answer of the server to an INIT of its own.
Took(c, k) == /\ inits[c] > 0 /\ status[c] \in Past
              /\ verTag[c] = Random(Server, "tag", k)

\* What had to happen before a packet can be in flight.
Genuine(m) ==
  /\ m \in Packets
  /\ m.type = "INIT" => m = InitPacket(m.src) /\ inits[m.src] > 0
  /\ m.type = "INIT_ACK" =>
       /\ inits[m.dst] > 0
       /\ \E k \in 0 .. MaxBuilds : /\ m.tag = Random(Server, "tag", k)
                                    /\ m.cookie = Cookie(InitPacket(m.dst), k)
                                    /\ m.hmac = m.cookie
  /\ m.type = "COOKIE_ECHO" =>
       \E k \in 0 .. MaxBuilds : Took(m.src, k) /\ m.hmac = Cookie(InitPacket(m.src), k)
  /\ m.type = "COOKIE_ACK" =>
       \E k \in 0 .. MaxBuilds : Took(m.dst, k) /\ Cookie(InitPacket(m.dst), k) \in accepted

NetGenuine == \A m \in BagToSet(net) : Genuine(m)

\* A waiting buffer holds a genuine packet, though not always the one built.
InTx == UNION {{mem[e][tx[e][i].buf] : i \in DOMAIN tx[e]} : e \in EndPoints}
TxGenuine == \A m \in InTx : Genuine(m)

\* Only an established client has streams, and its cookie was accepted.
ClientsOK ==
  \A c \in Clients :
     /\ status[c] = "ESTABLISHED" =>
          \E k \in 0 .. MaxBuilds : Took(c, k) /\ Cookie(InitPacket(c), k) \in accepted
     /\ streams[c] # NULL => status[c] = "ESTABLISHED"

\* prefilled_ring goes round: the buffer of the nth build is NumBuffers builds
\* away from its next use then, and one less with every build.
PoolOK ==
  \A e \in EndPoints :
     /\ Len(pool[e]) = NumBuffers
     /\ \A i, j \in 1 .. NumBuffers : pool[e][i] = pool[e][j] => i = j
     /\ \A i \in DOMAIN tx[e] :
          LET q == tx[e][i]
          IN  /\ q.nth < builds[e]
              /\ builds[e] <= q.nth + NumBuffers =>
                   /\ mem[e][q.buf] = q.built
                   /\ q.buf = pool[e][q.nth + NumBuffers - builds[e] + 1]

HandshakeInvariant ==
  /\ AssocTypeOK /\ RingsTypeOK
  /\ NetGenuine /\ TxGenuine
  /\ ClientsOK /\ PoolOK
  /\ dst[Server] \in Clients \union {NULL}
  /\ AssociationOfOneClient /\ StreamsMatch

-----------------------------------------------------------------------------
\* What the buffer of an entry of tx_ring holds waits in tx_ring.
LEMMA WaitsInTx ==
  ASSUME NEW d \in EndPoints, NEW i \in DOMAIN tx[d]
  PROVE  mem[d][tx[d][i].buf] \in InTx
<1> DEFINE M(x) == {mem[x][tx[x][j].buf] : j \in DOMAIN tx[x]}
<1>1. mem[d][tx[d][i].buf] \in M(d)
  OBVIOUS
<1>2. InTx = UNION {M(x) : x \in EndPoints}
  BY DEF InTx
<1> HIDE DEF M
<1> QED BY <1>1, <1>2

\* Sending adds one packet to what is in flight, receiving adds none.
LEMMA BagMembers ==
  ASSUME NEW B, NEW m
  PROVE  /\ BagToSet(B (+) SetToBag({m})) = BagToSet(B) \union {m}
         /\ BagToSet(B (-) SetToBag({m})) \subseteq BagToSet(B)
BY DEF BagToSet, SetToBag, (+), (-)

\* The packets have their types.
LEMMA CookieType ==
  ASSUME NEW c \in Clients, NEW k \in Nat
  PROVE  /\ InitPacket(c) \in Packets /\ InitPacket(c).src = c /\ InitPacket(c).type = "INIT"
         /\ Cookie(InitPacket(c), k) \in Cookies
         /\ Cookie(InitPacket(c), k).src = c /\ Cookie(InitPacket(c), k).os = c
         /\ Cookie(InitPacket(c), k).verTag = InitPacket(c).tag
         /\ Cookie(InitPacket(c), k).tsn = InitPacket(c).tsn
         /\ InitPacket(c).os = c
<1>1. Random(c, "tag", 0) \in Randoms /\ Random(c, "tsn", 0) \in Randoms
      /\ Random(Server, "cookie", k) \in Randoms
  BY DEF Randoms, Random, EndPoints
<1> QED BY <1>1 DEF InitPacket, Cookie, Packets, Cookies

\* sctp_handle_init answers a client's INIT with a packet of the model.
LEMMA InitAckType ==
  ASSUME NEW c \in Clients, NEW k \in Nat
  PROVE  InitAckPacket(InitPacket(c), k) \in Packets
<1>1. Random(Server, "tag", k) \in Randoms /\ Random(Server, "tsn", k) \in Randoms
  BY DEF Randoms, Random, EndPoints
<1> QED BY <1>1, CookieType DEF InitAckPacket, Packets

\* The buffers leave create_allocator in some order, each of them once.
LEMMA AllocationOrderFacts ==
  /\ NumBuffers \in Nat \ {0}
  /\ AllocationOrder \in Seq(Buffers) /\ Len(AllocationOrder) = NumBuffers
  /\ \A i, j \in 1 .. NumBuffers : AllocationOrder[i] = AllocationOrder[j] => i = j
<1>1. NumBuffers \in Nat /\ ExistsBijection(1 .. NumBuffers, Buffers)
  BY BuffersAssumption, FS_CardinalityType DEF NumBuffers
<1>2. NumBuffers # 0
  BY BuffersAssumption, FS_EmptySet DEF NumBuffers
<1>3. PICK f \in Bijection(1 .. NumBuffers, Buffers) : TRUE
  BY <1>1 DEF ExistsBijection
<1>4. f \in [1 .. NumBuffers -> Buffers] /\ {f[i] : i \in DOMAIN f} = Buffers
  BY <1>3 DEF Bijection, Surjection, Injection
<1>5. AllocationOrder \in [1 .. NumBuffers -> Buffers]
      /\ {AllocationOrder[i] : i \in DOMAIN AllocationOrder} = Buffers
  BY <1>4 DEF AllocationOrder, NumBuffers
<1>6. AllocationOrder \in Surjection(1 .. NumBuffers, Buffers)
  BY <1>5 DEF Surjection
<1>7. IsFiniteSet(1 .. NumBuffers) /\ Cardinality(1 .. NumBuffers) = NumBuffers
  BY <1>1, <1>2, FS_Interval
<1>8. AllocationOrder \in Injection(1 .. NumBuffers, Buffers)
  BY <1>6, <1>7, FS_SurjSameCardinalityImpliesInj DEF NumBuffers
<1>9. \A i, j \in 1 .. NumBuffers : AllocationOrder[i] = AllocationOrder[j] => i = j
  BY <1>5, <1>8 DEF Injection, IsInjective
<1> QED BY <1>1, <1>2, <1>5, <1>9

\* sctp_assoc_create and create_allocator establish the invariant.
LEMMA InitInvariant == Init => HandshakeInvariant
<1> SUFFICES ASSUME Init PROVE HandshakeInvariant
  OBVIOUS
<1>e. Server \in EndPoints /\ Clients \subseteq EndPoints /\ Server \notin Clients
  BY ServerAssumption DEF EndPoints
<1>1. AssocTypeOK
  BY <1>e DEF AssocTypeOK, Init
<1>2. RingsTypeOK
  BY AllocationOrderFacts DEF RingsTypeOK, Init
<1>3. NetGenuine
  BY DEF NetGenuine, Init, EmptyBag, SetToBag, BagToSet
<1>4. TxGenuine
  BY DEF TxGenuine, InTx, Init
<1>5. ClientsOK
  <2>1. \A c \in Clients : streams[c] = NULL /\ status[c] # "ESTABLISHED"
    BY <1>e DEF Init
  <2> QED BY <2>1 DEF ClientsOK
<1>6. PoolOK
  <2>1. \A e \in EndPoints : pool[e] = AllocationOrder /\ DOMAIN tx[e] = {}
    BY DEF Init
  <2> QED BY <2>1, AllocationOrderFacts DEF PoolOK
<1>7. dst[Server] = NULL
  BY <1>e DEF Init
<1>8. StreamsMatch
  BY DEF StreamsMatch, Init
<1> QED BY <1>1, <1>2, <1>3, <1>4, <1>5, <1>6, <1>7, <1>8
        DEF HandshakeInvariant, AssociationOfOneClient

-----------------------------------------------------------------------------
\* What no step takes back: an INIT that was sent, a tag a client has taken,
\* a cookie that was accepted.
Kept == /\ \A c \in Clients : inits[c] > 0 => inits'[c] > 0
        /\ \A c \in Clients : status[c] \in Past =>
              status'[c] \in Past /\ verTag'[c] = verTag[c]
        /\ accepted \subseteq accepted'

\* A packet that a client or the server built stays genuine while the
\* endpoints only move forward (Kept).
LEMMA GenuineKept ==
  ASSUME Kept
  PROVE  \A m : Genuine(m) => Genuine(m)'
<1> SUFFICES ASSUME NEW m, Genuine(m) PROVE Genuine(m)'
  OBVIOUS
<1>1. m \in Packets
  BY DEF Genuine
<1>2. /\ m.type = "INIT" => m.src \in Clients
      /\ m.type = "COOKIE_ECHO" => m.src \in Clients
      /\ m.type \in {"INIT_ACK", "COOKIE_ACK"} => m.dst \in Clients
  BY <1>1 DEF Packets
<1>3. \A c \in Clients, k \in 0 .. MaxBuilds : Took(c, k) => Took(c, k)'
  BY DEF Kept, Took
<1>4. m.type = "INIT" => m = InitPacket(m.src) /\ inits'[m.src] > 0
  BY <1>2 DEF Genuine, Kept
<1>5. m.type = "INIT_ACK" =>
        /\ inits'[m.dst] > 0
        /\ \E k \in 0 .. MaxBuilds : /\ m.tag = Random(Server, "tag", k)
                                     /\ m.cookie = Cookie(InitPacket(m.dst), k)
                                     /\ m.hmac = m.cookie
  BY <1>2 DEF Genuine, Kept
<1>6. m.type = "COOKIE_ECHO" =>
        \E k \in 0 .. MaxBuilds : Took(m.src, k)' /\ m.hmac = Cookie(InitPacket(m.src), k)
  BY <1>2, <1>3 DEF Genuine
<1>7. m.type = "COOKIE_ACK" =>
        \E k \in 0 .. MaxBuilds : Took(m.dst, k)' /\ Cookie(InitPacket(m.dst), k) \in accepted'
  BY <1>2, <1>3 DEF Genuine, Kept
<1> QED BY <1>1, <1>4, <1>5, <1>6, <1>7 DEF Genuine

\* The rest of the invariant, where a step leaves the associations alone.
LEMMA KeptWhenQuiet == UNCHANGED <<status, verTag, accepted, inits>> => Kept
BY DEF Kept

\* The builders: the oldest buffer of prefilled_ring is written and goes to
\* its end, so that every other one comes a place closer to the front.
LEMMA BuildRings ==
  ASSUME HandshakeInvariant, NEW e \in EndPoints, NEW m, Genuine(m)', Kept, Build(e, m)
  PROVE  RingsTypeOK' /\ TxGenuine' /\ PoolOK'
<1> DEFINE p == pool[e]
           b == Head(p)
           q == Append(Tail(p), b)
           N == NumBuffers
           r == [buf |-> b, built |-> m, nth |-> builds[e]]
<1>t. /\ pool \in [EndPoints -> Seq(Buffers)]
      /\ mem \in [EndPoints -> [Buffers -> Packets \union {NULL}]]
      /\ tx \in [EndPoints -> Seq(TxEntries)]
      /\ builds \in [EndPoints -> Nat] /\ builds[e] \in Nat
      /\ p \in Seq(Buffers) /\ Len(p) = N /\ N \in Nat \ {0} /\ m \in Packets
  BY AllocationOrderFacts DEF HandshakeInvariant, RingsTypeOK, PoolOK, Genuine
<1>1. /\ mem' = [mem EXCEPT ![e][b] = m]
      /\ tx' = [tx EXCEPT ![e] = Queued(tx[e], b, m, builds[e])]
      /\ pool' = [pool EXCEPT ![e] = q]
      /\ builds' = [builds EXCEPT ![e] = builds[e] + 1]
  BY <1>t DEF Build
<1>2. /\ b \in Buffers /\ b = p[1] /\ q \in Seq(Buffers) /\ Len(q) = N
      /\ q[N] = b /\ \A i \in 1 .. N - 1 : q[i] = p[i + 1]
  <2>1. p # << >>
    BY <1>t
  <2>2. /\ Tail(p) \in Seq(Buffers) /\ Len(Tail(p)) = N - 1 /\ b \in Buffers /\ b = p[1]
        /\ \A i \in 1 .. N - 1 : Tail(p)[i] = p[i + 1]
    BY <1>t, <2>1, HeadTailProperties
  <2> HIDE DEF p, b, N
  <2>3. /\ q \in Seq(Buffers) /\ Len(q) = (N - 1) + 1 /\ q[(N - 1) + 1] = b
        /\ \A i \in 1 .. N - 1 : q[i] = Tail(p)[i]
    BY <2>2, AppendProperties
  <2> QED BY <1>t, <2>2, <2>3
<1>3. r \in TxEntries
  BY <1>t, <1>2 DEF TxEntries
<1>4. Queued(tx[e], b, m, builds[e]) \in {tx[e], Append(tx[e], r)}
  BY DEF Queued
<1>5. tx[e] \in Seq(TxEntries) /\ Append(tx[e], r) \in Seq(TxEntries)
  BY <1>t, <1>3
<1>6. /\ tx'[e] \in Seq(TxEntries)
      /\ \A i \in DOMAIN tx'[e] : \/ i \in DOMAIN tx[e] /\ tx'[e][i] = tx[e][i]
                                  \/ tx'[e][i] = r
  <2>1. tx'[e] = tx[e] \/ tx'[e] = Append(tx[e], r)
    BY <1>t, <1>1, <1>4
  <2> HIDE DEF r
  <2>2. CASE tx'[e] = tx[e]
    BY <1>5, <2>2
  <2>3. CASE tx'[e] = Append(tx[e], r)
    BY <1>3, <1>5, <2>3
  <2> QED BY <2>1, <2>2, <2>3
<1>7. RingsTypeOK'
  BY <1>t, <1>1, <1>2, <1>6 DEF RingsTypeOK
<1>8. /\ mem'[e] \in [Buffers -> Packets \union {NULL}] /\ mem'[e][b] = m
      /\ \A x \in Buffers \ {b} : mem'[e][x] = mem[e][x]
      /\ pool'[e] = q /\ builds'[e] = builds[e] + 1
      /\ \A d \in EndPoints \ {e} : /\ mem'[d] = mem[d] /\ tx'[d] = tx[d]
                                    /\ pool'[d] = pool[d] /\ builds'[d] = builds[d]
  BY <1>t, <1>1, <1>2
<1>9. TxGenuine'
  <2> SUFFICES ASSUME NEW x \in InTx' PROVE Genuine(x)'
    BY DEF TxGenuine
  <2>1. x = m \/ x \in InTx
    <3>1. PICK d \in EndPoints : \E i \in DOMAIN tx'[d] : x = mem'[d][tx'[d][i].buf]
      BY DEF InTx
    <3>2. PICK i \in DOMAIN tx'[d] : x = mem'[d][tx'[d][i].buf]
      BY <3>1
    <3>3. CASE d # e
      <4>1. tx'[d] = tx[d] /\ mem'[d] = mem[d]
        BY <1>8, <3>3
      <4>2. i \in DOMAIN tx[d] /\ x = mem[d][tx[d][i].buf]
        BY <3>2, <4>1
      <4> QED BY <4>2, WaitsInTx
    <3>4. CASE d = e /\ tx'[d][i].buf = b
      BY <1>8, <3>2, <3>4
    <3>5. CASE d = e /\ tx'[d][i].buf # b
      <4>1. i \in DOMAIN tx[e] /\ tx'[e][i] = tx[e][i]
        BY <1>6, <3>5
      <4>2. tx[e][i] \in TxEntries
        BY <1>5, <4>1
      <4>3. tx[e][i].buf \in Buffers \ {b}
        BY <3>5, <4>1, <4>2 DEF TxEntries
      <4> HIDE DEF b
      <4>4. x = mem[e][tx[e][i].buf]
        <5>1. x = mem'[e][tx[e][i].buf]
          BY <3>2, <3>5, <4>1
        <5> QED BY <1>8, <4>3, <5>1
      <4> QED BY <4>1, <4>4, WaitsInTx
    <3> QED BY <3>3, <3>4, <3>5
  <2>2. CASE x \in InTx
    BY <2>2, GenuineKept DEF HandshakeInvariant, TxGenuine
  <2> QED BY <2>1, <2>2
<1>10. PoolOK'
  <2> SUFFICES ASSUME NEW d \in EndPoints
               PROVE  /\ Len(pool'[d]) = N
                      /\ \A i, j \in 1 .. N : pool'[d][i] = pool'[d][j] => i = j
                      /\ \A i \in DOMAIN tx'[d] :
                           /\ tx'[d][i].nth < builds'[d]
                           /\ builds'[d] <= tx'[d][i].nth + N =>
                                /\ mem'[d][tx'[d][i].buf] = tx'[d][i].built
                                /\ tx'[d][i].buf = pool'[d][tx'[d][i].nth + N - builds'[d] + 1]
    BY DEF PoolOK
  <2>o. /\ Len(pool[d]) = N
        /\ \A i, j \in 1 .. N : pool[d][i] = pool[d][j] => i = j
        /\ \A i \in DOMAIN tx[d] :
             /\ tx[d][i].nth < builds[d]
             /\ builds[d] <= tx[d][i].nth + N =>
                  /\ mem[d][tx[d][i].buf] = tx[d][i].built
                  /\ tx[d][i].buf = pool[d][tx[d][i].nth + N - builds[d] + 1]
    BY DEF HandshakeInvariant, PoolOK
  <2>1. CASE d # e
    BY <1>8, <2>o, <2>1
  <2>2. CASE d = e
    <3>1. Len(q) = N /\ \A i, j \in 1 .. N : q[i] = q[j] => i = j
      <4> SUFFICES ASSUME NEW i \in 1 .. N, NEW j \in 1 .. N, q[i] = q[j] PROVE i = j
        BY <1>2
      <4>1. \A k \in 1 .. N - 1 : k + 1 \in 2 .. N /\ q[k] = p[k + 1]
        BY <1>2, <1>t
      <4>2. 1 \in 1 .. N /\ (\A k \in 2 .. N : k \in 1 .. N /\ k # 1)
        BY <1>t
      <4>3. q[N] = p[1]
        BY <1>2
      <4>4. \A k, l \in 1 .. N : p[k] = p[l] => k = l
        BY <2>o, <2>2
      <4> HIDE DEF q, p, N
      <4>5. CASE i = N /\ j # N
        BY <1>t, <4>1, <4>2, <4>3, <4>4, <4>5
      <4>6. CASE i # N /\ j = N
        BY <1>t, <4>1, <4>2, <4>3, <4>4, <4>6
      <4>7. CASE i # N /\ j # N
        <5>1. i \in 1 .. N - 1 /\ j \in 1 .. N - 1
          BY <1>t, <4>7
        <5>2. i + 1 = j + 1
          BY <4>1, <4>2, <4>4, <5>1
        <5> QED BY <5>1, <5>2
      <4> QED BY <4>5, <4>6, <4>7
    <3>2. ASSUME NEW i \in DOMAIN tx'[e]
          PROVE  /\ tx'[e][i].nth < builds[e] + 1
                 /\ builds[e] + 1 <= tx'[e][i].nth + N =>
                      /\ mem'[e][tx'[e][i].buf] = tx'[e][i].built
                      /\ tx'[e][i].buf = q[tx'[e][i].nth + N - (builds[e] + 1) + 1]
      <4>1. CASE tx'[e][i] = r
        <5>1. r.nth = builds[e] /\ r.buf = b /\ r.built = m
          OBVIOUS
        <5>2. builds[e] + N - (builds[e] + 1) + 1 = N /\ builds[e] < builds[e] + 1
          BY <1>t
        <5> HIDE DEF r, b, q, N
        <5> QED BY <1>2, <1>8, <4>1, <5>1, <5>2
      <4>2. CASE i \in DOMAIN tx[e] /\ tx'[e][i] = tx[e][i]
        <5> DEFINE x == tx[e][i]
        <5>1. x \in TxEntries
          BY <1>5, <4>2
        <5>2. x.nth \in Nat /\ x.buf \in Buffers
          BY <5>1 DEF TxEntries
        <5>3. /\ x.nth < builds[e]
              /\ builds[e] <= x.nth + N =>
                   /\ mem[e][x.buf] = x.built
                   /\ x.buf = p[x.nth + N - builds[e] + 1]
          BY <2>o, <2>2, <4>2
        <5> HIDE DEF x
        <5>4. ASSUME builds[e] + 1 <= x.nth + N
              PROVE  /\ mem'[e][x.buf] = x.built
                     /\ x.buf = q[x.nth + N - (builds[e] + 1) + 1]
          <6> DEFINE k == x.nth + N - builds[e]
          <6>1. /\ k \in 1 .. N - 1 /\ k + 1 \in 2 .. N
                /\ x.nth + N - (builds[e] + 1) + 1 = k
                /\ x.nth + N - builds[e] + 1 = k + 1
            <7>1. builds[e] \in Nat /\ N \in Nat /\ x.nth \in Nat
              BY <1>t, <5>2
            <7>2. x.nth < builds[e] /\ builds[e] + 1 <= x.nth + N
              BY <5>3, <5>4
            <7> HIDE DEF N
            <7> QED BY <7>1, <7>2
          <6>2. mem[e][x.buf] = x.built /\ x.buf = p[k + 1]
            <7>1. builds[e] <= x.nth + N
              BY <1>t, <5>2, <5>4
            <7> HIDE DEF k
            <7> QED BY <5>3, <6>1, <7>1
          <6> HIDE DEF k
          <6>3. x.buf # b
            <7>1. 1 \in 1 .. N /\ k + 1 \in 1 .. N /\ k + 1 # 1
              BY <1>t, <6>1
            <7> QED BY <1>2, <2>o, <2>2, <6>2, <7>1
          <6>4. q[k] = p[k + 1]
            BY <1>2, <6>1
          <6> QED BY <1>8, <5>2, <6>1, <6>2, <6>3, <6>4
        <5>5. x.nth < builds[e] + 1
          BY <1>t, <5>2, <5>3
        <5> QED BY <4>2, <5>4, <5>5 DEF x
      <4> QED BY <1>6, <4>1, <4>2
    <3>3. pool'[d] = q /\ builds'[d] = builds[e] + 1 /\ tx'[d] = tx'[e] /\ mem'[d] = mem'[e]
      BY <1>8, <2>2
    <3> HIDE DEF p, b, q, N, r
    <3> QED BY <3>1, <3>2, <3>3
  <2> QED BY <2>1, <2>2
<1> QED BY <1>7, <1>9, <1>10

\* A step that at most adds one genuine packet to those in flight.
LEMMA NetKept ==
  ASSUME HandshakeInvariant, Kept, NEW m,
         BagToSet(net') \subseteq BagToSet(net) \union {m},
         m \in BagToSet(net) \/ Genuine(m)'
  PROVE  NetGenuine'
<1> SUFFICES ASSUME NEW x \in BagToSet(net') PROVE Genuine(x)'
  BY DEF NetGenuine, BagToSet
<1>1. x = m \/ x \in BagToSet(net)
  OBVIOUS
<1>2. CASE x \in BagToSet(net)
  BY <1>2, GenuineKept DEF HandshakeInvariant, NetGenuine
<1>3. CASE x = m /\ Genuine(m)'
  BY <1>3
<1> QED BY <1>1, <1>2, <1>3

\* A step that leaves the rings alone.
LEMMA RingsKept ==
  ASSUME HandshakeInvariant, Kept, UNCHANGED rings
  PROVE  RingsTypeOK' /\ TxGenuine' /\ PoolOK'
<1>1. UNCHANGED <<pool, mem, tx, builds>>
  BY DEF rings
<1>2. RingsTypeOK'
  BY <1>1 DEF HandshakeInvariant, RingsTypeOK
<1>3. TxGenuine'
  <2>1. InTx' = InTx
    BY <1>1 DEF InTx
  <2> QED BY <2>1, GenuineKept DEF HandshakeInvariant, TxGenuine
<1>4. PoolOK'
  BY <1>1 DEF HandshakeInvariant, PoolOK
<1> QED BY <1>2, <1>3, <1>4

\* The two packets an association's own step depends on are kept, too.
LEMMA AssocKept ==
  ASSUME HandshakeInvariant, Kept, UNCHANGED <<assoc, streams, allocFailed>>,
         inits' \in [Clients -> Nat]
  PROVE  /\ AssocTypeOK' /\ ClientsOK' /\ dst'[Server] \in Clients \union {NULL}
         /\ AssociationOfOneClient' /\ StreamsMatch'
<1>1. UNCHANGED <<status, verTag, initTag, tsn, dst, os, streams, allocFailed>>
  BY DEF assoc
<1>2. AssocTypeOK'
  BY <1>1 DEF HandshakeInvariant, AssocTypeOK
<1>3. ClientsOK'
  <2>1. \A c \in Clients, k \in 0 .. MaxBuilds : Took(c, k) => Took(c, k)'
    BY DEF Kept, Took
  <2> QED BY <1>1, <2>1 DEF HandshakeInvariant, ClientsOK, Kept
<1>4. dst'[Server] \in Clients \union {NULL}
  BY <1>1 DEF HandshakeInvariant
<1>5. AssociationOfOneClient'
  BY <1>1, <1>4 DEF HandshakeInvariant, AssociationOfOneClient, Kept
<1>6. StreamsMatch'
  BY <1>1 DEF HandshakeInvariant, StreamsMatch
<1> QED BY <1>2, <1>3, <1>4, <1>5, <1>6

\* A copy that is cut short, or whose cookie was changed, still has the HMAC
\* of the cookie that was signed.
LEMMA DamagedGenuine ==
  ASSUME NEW m, Genuine(m), m.type # "INIT", NEW d \in Damages(m)
  PROVE  Genuine(d)
<1>1. m \in Packets
  BY DEF Genuine
<1>2. CASE d = [m EXCEPT !.whole = FALSE]
  <2>1. d \in Packets /\ d.type = m.type /\ d.src = m.src /\ d.dst = m.dst
    BY <1>1, <1>2 DEF Packets
  <2>2. m.type = "INIT_ACK" => d.tag = m.tag /\ d.cookie = m.cookie /\ d.hmac = m.hmac
    BY <1>1, <1>2 DEF Packets
  <2>3. m.type = "COOKIE_ECHO" => d.hmac = m.hmac
    BY <1>1, <1>2 DEF Packets
  <2> QED BY <2>1, <2>2, <2>3 DEF Genuine
<1>3. ASSUME m.type = "COOKIE_ECHO", NEW c \in Clients, d = [m EXCEPT !.cookie.src = c]
      PROVE  Genuine(d)
  <2>1. m \in [type : {"COOKIE_ECHO"}, src : Clients, dst : {Server},
               cookie : Cookies, hmac : Cookies, whole : BOOLEAN]
    BY <1>1, <1>3 DEF Packets
  <2>2. [m.cookie EXCEPT !.src = c] \in Cookies
    BY <1>3, <2>1 DEF Cookies
  <2>3. d = [m EXCEPT !.cookie = [m.cookie EXCEPT !.src = c]]
    BY <1>3, <2>1 DEF Cookies
  <2>4. /\ d \in [type : {"COOKIE_ECHO"}, src : Clients, dst : {Server},
                  cookie : Cookies, hmac : Cookies, whole : BOOLEAN]
        /\ d.type = "COOKIE_ECHO" /\ d.src = m.src /\ d.hmac = m.hmac
    BY <2>1, <2>2, <2>3
  <2>5. d \in Packets
    BY <2>4 DEF Packets
  <2> QED BY <1>3, <2>4, <2>5 DEF Genuine
<1> QED BY <1>2, <1>3 DEF Damages

-----------------------------------------------------------------------------
(***************************************************************************)
(* The network, and the steps that send                                    *)
(***************************************************************************)
LEMMA InvDrop ==
  ASSUME HandshakeInvariant, NEW m, Drop(m) \/ Lose(m)
  PROVE  HandshakeInvariant'
<1>1. /\ BagIn(m, net) /\ net' = net (-) SetToBag({m})
      /\ UNCHANGED <<assoc, streams, rings, inits, accepted, allocFailed>>
  BY DEF Drop, Lose, Receive, faults
<1>2. Kept
  BY <1>1, KeptWhenQuiet DEF assoc
<1>3. NetGenuine'
  BY <1>1, <1>2, NetKept, BagMembers DEF BagIn
<1>4. inits' \in [Clients -> Nat]
  BY <1>1 DEF HandshakeInvariant, AssocTypeOK
<1> QED BY <1>1, <1>2, <1>3, <1>4, RingsKept, AssocKept DEF HandshakeInvariant

\* A network that delivers a packet twice or damages a copy of it breaks
\* nothing.
LEMMA InvDuplicate ==
  ASSUME HandshakeInvariant, NEW m, Duplicate(m) \/ Damage(m)
  PROVE  HandshakeInvariant'
<1>1. BagIn(m, net) /\ UNCHANGED <<assoc, streams, rings, inits, accepted, allocFailed>>
  BY DEF Duplicate, Damage
<1>2. Kept
  BY <1>1, KeptWhenQuiet DEF assoc
<1>3. Genuine(m)
  BY <1>1 DEF HandshakeInvariant, NetGenuine, BagIn
<1>4. NetGenuine'
  <2>1. CASE Duplicate(m)
    <3>1. net' = net (+) SetToBag({m})
      BY <2>1 DEF Duplicate
    <3> QED BY <1>1, <1>2, <3>1, NetKept, BagMembers DEF BagIn
  <2>2. CASE Damage(m)
    <3>1. PICK d \in Damages(m) : net' = net (+) SetToBag({d})
      BY <2>2 DEF Damage
    <3>2. m.type # "INIT"
      BY <2>2 DEF Damage
    <3>3. Genuine(d)'
      BY <1>2, <1>3, <3>2, DamagedGenuine, GenuineKept
    <3> QED BY <1>2, <3>1, <3>3, NetKept, BagMembers
  <2> QED BY <2>1, <2>2
<1>5. inits' \in [Clients -> Nat]
  BY <1>1 DEF HandshakeInvariant, AssocTypeOK
<1> QED BY <1>1, <1>2, <1>4, <1>5, RingsKept, AssocKept DEF HandshakeInvariant

\* create_client and the T1 timer.
LEMMA InvSendInit ==
  ASSUME HandshakeInvariant, NEW c \in Clients, SendInit(c)
  PROVE  HandshakeInvariant'
<1>1. /\ net' = net (+) SetToBag({InitPacket(c)})
      /\ inits' = [inits EXCEPT ![c] = inits[c] + 1] /\ inits \in [Clients -> Nat]
      /\ UNCHANGED <<assoc, streams, rings, accepted, allocFailed>>
  BY DEF SendInit, HandshakeInvariant, AssocTypeOK
<1>2. inits' \in [Clients -> Nat] /\ inits'[c] > 0 /\ Kept
  BY <1>1 DEF Kept, assoc
<1>3. Genuine(InitPacket(c))'
  <2>1. InitPacket(c) \in Packets /\ InitPacket(c).type = "INIT" /\ InitPacket(c).src = c
    BY CookieType
  <2> QED BY <1>2, <2>1 DEF Genuine
<1>4. NetGenuine'
  BY <1>1, <1>2, <1>3, NetKept, BagMembers
<1> QED BY <1>1, <1>2, <1>4, RingsKept, AssocKept DEF HandshakeInvariant

\* The transmitter takes the oldest entry of tx_ring.
LEMMA InvTransmit ==
  ASSUME HandshakeInvariant, NEW e \in EndPoints, Transmit(e)
  PROVE  HandshakeInvariant'
<1> DEFINE q == Head(tx[e])
           x == mem[e][q.buf]
<1>1. /\ tx[e] # << >> /\ net' = net (+) SetToBag({x})
      /\ tx' = [tx EXCEPT ![e] = Tail(tx[e])] /\ tx \in [EndPoints -> Seq(TxEntries)]
      /\ UNCHANGED <<assoc, streams, pool, mem, builds, inits, accepted, allocFailed>>
  BY DEF Transmit, HandshakeInvariant, RingsTypeOK, faults
<1>2. Kept
  BY <1>1, KeptWhenQuiet DEF assoc
<1>3. /\ 1 \in DOMAIN tx[e] /\ q = tx[e][1] /\ Tail(tx[e]) \in Seq(TxEntries)
      /\ \A i \in DOMAIN Tail(tx[e]) : i + 1 \in DOMAIN tx[e] /\ Tail(tx[e])[i] = tx[e][i + 1]
  BY <1>1, HeadTailProperties
<1>4. \A d \in EndPoints : \A i \in DOMAIN tx'[d] :
         \E j \in DOMAIN tx[d] : tx'[d][i] = tx[d][j]
  BY <1>1, <1>3
<1>5. NetGenuine'
  <2>1. x \in InTx
    BY <1>3 DEF InTx
  <2>2. \A y : y = x => Genuine(y)'
    BY <1>2, <2>1, GenuineKept DEF HandshakeInvariant, TxGenuine
  <2>3. PICK y : y = x
    OBVIOUS
  <2>4. Genuine(y)' /\ BagToSet(net') = BagToSet(net) \union {y}
    BY <1>1, <2>2, <2>3, BagMembers
  <2> QED BY <1>2, <2>4, NetKept
<1>6. RingsTypeOK'
  BY <1>1, <1>3 DEF HandshakeInvariant, RingsTypeOK
<1>7. TxGenuine'
  <2>1. InTx' \subseteq InTx
    BY <1>1, <1>4 DEF InTx
  <2> QED BY <1>2, <2>1, GenuineKept DEF HandshakeInvariant, TxGenuine
<1>8. PoolOK'
  <2>1. UNCHANGED <<pool, mem, builds>>
    BY <1>1
  <2>2. PoolOK
    BY DEF HandshakeInvariant
  <2>3. ASSUME NEW d \in EndPoints, NEW i \in DOMAIN tx'[d]
        PROVE  /\ tx'[d][i].nth < builds[d]
               /\ builds[d] <= tx'[d][i].nth + NumBuffers =>
                    /\ mem[d][tx'[d][i].buf] = tx'[d][i].built
                    /\ tx'[d][i].buf = pool[d][tx'[d][i].nth + NumBuffers - builds[d] + 1]
    <3>1. PICK j \in DOMAIN tx[d] : tx'[d][i] = tx[d][j]
      BY <1>4
    <3> QED BY <2>2, <3>1 DEF PoolOK
  <2> QED BY <2>1, <2>2, <2>3 DEF PoolOK
<1>9. inits' \in [Clients -> Nat]
  BY <1>1 DEF HandshakeInvariant, AssocTypeOK
<1> QED BY <1>1, <1>2, <1>5, <1>6, <1>7, <1>8, <1>9, AssocKept DEF HandshakeInvariant

-----------------------------------------------------------------------------
(***************************************************************************)
(* The handlers                                                            *)
(***************************************************************************)
\* sctp_process_sctp_init: the INIT ACK carries what the INIT said.
LEMMA InvProcessInit ==
  ASSUME HandshakeInvariant, NEW m, ProcessInit(m)
  PROVE  HandshakeInvariant'
<1> DEFINE k == builds[Server]
           c == m.src
<1>1. /\ BagIn(m, net) /\ net' = net (-) SetToBag({m}) /\ m.type = "INIT"
      /\ k < MaxBuilds /\ Build(Server, InitAckPacket(m, k))
      /\ UNCHANGED <<assoc, streams, inits, accepted, allocFailed>>
  BY DEF ProcessInit, Receive
<1>2. Kept
  BY <1>1, KeptWhenQuiet DEF assoc
<1>3. c \in Clients /\ m = InitPacket(c) /\ inits[c] > 0
  <2>1. Genuine(m)
    BY <1>1 DEF HandshakeInvariant, NetGenuine, BagIn
  <2> QED BY <1>1, <2>1 DEF Genuine, Packets
<1>4. k \in Nat /\ k \in 0 .. MaxBuilds /\ Server \in EndPoints
  <2>1. k \in Nat /\ Server \in EndPoints
    BY DEF HandshakeInvariant, RingsTypeOK, EndPoints
  <2> QED BY <1>1, <2>1, BoundsAssumption
<1>5. \A y : y = InitAckPacket(m, k) => Genuine(y)'
  <2> SUFFICES ASSUME NEW y, y = InitAckPacket(m, k) PROVE Genuine(y)'
    OBVIOUS
  <2> HIDE DEF k, c
  <2>1. PICK n \in Nat : n = k
    BY <1>4
  <2>2. y \in Packets
    BY <1>3, <1>4, InitAckType
  <2>3. /\ y.type = "INIT_ACK" /\ y.dst = c /\ y.tag = Random(Server, "tag", n)
        /\ y.cookie = Cookie(InitPacket(c), n) /\ y.hmac = y.cookie
    BY <1>3, <2>1, CookieType DEF InitAckPacket
  <2>4. inits'[y.dst] > 0
    BY <1>1, <1>3, <2>3
  <2> QED BY <1>4, <2>1, <2>2, <2>3, <2>4 DEF Genuine
<1>6. PICK y : y = InitAckPacket(m, k)
  OBVIOUS
<1>7. Genuine(y)' /\ Build(Server, y)
  BY <1>1, <1>5, <1>6
<1>8. RingsTypeOK' /\ TxGenuine' /\ PoolOK'
  BY <1>2, <1>4, <1>7, BuildRings
<1>9. NetGenuine'
  BY <1>1, <1>2, NetKept, BagMembers DEF BagIn
<1>10. inits' \in [Clients -> Nat]
  BY <1>1 DEF HandshakeInvariant, AssocTypeOK
<1> QED BY <1>1, <1>2, <1>8, <1>9, <1>10, AssocKept DEF HandshakeInvariant

\* sctp_process_sctp_init_ack: the client takes the tag and sends the cookie
\* back.
LEMMA InvProcessInitAck ==
  ASSUME HandshakeInvariant, NEW m, ProcessInitAck(m)
  PROVE  HandshakeInvariant'
<1> DEFINE c == m.dst
<1>e. Server \in EndPoints /\ Clients \subseteq EndPoints /\ Server \notin Clients
      /\ NULL \notin EndPoints
  BY ServerAssumption, NullAssumption DEF EndPoints
<1>1. /\ BagIn(m, net) /\ net' = net (-) SetToBag({m}) /\ m.type = "INIT_ACK"
      /\ status[c] = "INIT_SENT"
      /\ verTag' = [verTag EXCEPT ![c] = m.tag] /\ os' = [os EXCEPT ![c] = m.os]
      /\ tsn' = [tsn EXCEPT ![c] = m.tsn]
      /\ status' = [status EXCEPT ![c] = "INIT_ACK_RECEIVED"]
      /\ Build(c, CookieEchoPacket(c, m))
      /\ UNCHANGED <<dst, streams, inits, accepted, allocFailed>>
  BY DEF ProcessInitAck, Receive, Accepts
<1>2. Genuine(m) /\ m \in Packets
  BY <1>1 DEF HandshakeInvariant, NetGenuine, BagIn, Genuine
<1>3. /\ c \in Clients /\ m.tag \in Randoms /\ m.tsn \in Randoms /\ m.os \in EndPoints
      /\ m.cookie \in Cookies
  BY <1>1, <1>2 DEF Packets, EndPoints
<1>4. inits[c] > 0
  BY <1>1, <1>2 DEF Genuine
<1>5. PICK k \in 0 .. MaxBuilds : /\ m.tag = Random(Server, "tag", k)
                                  /\ m.cookie = Cookie(InitPacket(c), k)
                                  /\ m.hmac = m.cookie
  BY <1>1, <1>2 DEF Genuine
<1> HIDE DEF c
<1>t. AssocTypeOK
  BY DEF HandshakeInvariant
<1>6. Kept
  BY <1>e, <1>1, <1>3, <1>t DEF Kept, AssocTypeOK, Past
<1>7. AssocTypeOK'
  BY <1>e, <1>1, <1>3, <1>t DEF AssocTypeOK, Past
<1>8. status'[c] = "INIT_ACK_RECEIVED" /\ verTag'[c] = m.tag /\ Took(c, k)'
  BY <1>e, <1>1, <1>3, <1>4, <1>5, <1>t DEF AssocTypeOK, Took, Past
<1>9. ASSUME NEW y, y = CookieEchoPacket(c, m) PROVE Genuine(y)'
  <2>1. /\ y \in Packets /\ y.type = "COOKIE_ECHO" /\ y.src = c
        /\ y.hmac = Cookie(InitPacket(c), k)
    BY <1>3, <1>5, <1>9 DEF CookieEchoPacket, Packets
  <2> QED BY <1>8, <2>1 DEF Genuine
<1>10. RingsTypeOK' /\ TxGenuine' /\ PoolOK'
  BY <1>e, <1>1, <1>3, <1>6, <1>9, BuildRings
<1>11. NetGenuine'
  BY <1>1, <1>6, NetKept, BagMembers DEF BagIn
<1>12. ClientsOK'
  <2> SUFFICES ASSUME NEW d \in Clients
               PROVE  /\ status'[d] = "ESTABLISHED" =>
                           \E i \in 0 .. MaxBuilds :
                              Took(d, i)' /\ Cookie(InitPacket(d), i) \in accepted'
                      /\ streams'[d] # NULL => status'[d] = "ESTABLISHED"
    BY DEF ClientsOK
  <2>1. \A i \in 0 .. MaxBuilds : Took(d, i) => Took(d, i)'
    BY <1>6 DEF Kept, Took
  <2>2. streams[c] = NULL
    BY <1>1, <1>3 DEF HandshakeInvariant, ClientsOK
  <2>3. d # c => status'[d] = status[d]
    BY <1>e, <1>1, <1>t DEF AssocTypeOK
  <2> QED BY <1>1, <1>8, <2>1, <2>2, <2>3 DEF HandshakeInvariant, ClientsOK
<1>13. /\ dst'[Server] \in Clients \union {NULL}
       /\ verTag'[Server] = verTag[Server] /\ tsn'[Server] = tsn[Server]
       /\ os'[Server] = os[Server]
  BY <1>e, <1>1, <1>3, <1>t DEF HandshakeInvariant, AssocTypeOK
<1>14. AssociationOfOneClient'
  BY <1>1, <1>13 DEF HandshakeInvariant, AssociationOfOneClient
<1>15. StreamsMatch'
  <2>1. \A e \in EndPoints : streams'[e] # NULL => os'[e] = os[e]
    <3>1. streams[c] = NULL
      BY <1>1, <1>3 DEF HandshakeInvariant, ClientsOK
    <3> QED BY <1>1, <1>t, <3>1 DEF AssocTypeOK
  <2> QED BY <1>1, <2>1 DEF HandshakeInvariant, StreamsMatch
<1> QED BY <1>7, <1>10, <1>11, <1>12, <1>13, <1>14, <1>15 DEF HandshakeInvariant

\* sctp_process_sctp_cookie_echo: the cookie whose HMAC fits is the one the
\* server made for the client that sends it.
LEMMA InvProcessCookieEcho ==
  ASSUME HandshakeInvariant, NEW m, ProcessCookieEcho(m)
  PROVE  HandshakeInvariant'
<1> DEFINE c == m.src
<1>e. Server \in EndPoints /\ Clients \subseteq EndPoints /\ Server \notin Clients
      /\ NULL \notin EndPoints
  BY ServerAssumption, NullAssumption DEF EndPoints
<1>1. /\ BagIn(m, net) /\ net' = net (-) SetToBag({m}) /\ m.type = "COOKIE_ECHO"
      /\ m.hmac = m.cookie
      /\ verTag' = [verTag EXCEPT ![Server] = m.cookie.verTag]
      /\ os' = [os EXCEPT ![Server] = m.cookie.os]
      /\ tsn' = [tsn EXCEPT ![Server] = m.cookie.tsn]
      /\ dst' = [dst EXCEPT ![Server] = m.cookie.src]
      /\ Build(Server, CookieAckPacket(m.cookie.src))
      /\ PrepareThreads(Server, m.cookie.os)
      /\ accepted' = accepted \union {m.cookie}
      /\ UNCHANGED <<status, inits>>
  BY DEF ProcessCookieEcho, Receive, Accepts
<1>2. Genuine(m) /\ m \in Packets
  BY <1>1 DEF HandshakeInvariant, NetGenuine, BagIn, Genuine
<1>3. c \in Clients
  BY <1>1, <1>2 DEF Packets
<1>4. PICK k \in 0 .. MaxBuilds : Took(c, k) /\ m.hmac = Cookie(InitPacket(c), k)
  BY <1>1, <1>2 DEF Genuine
<1>k. k \in Nat
  BY BoundsAssumption
<1> HIDE DEF c
<1>5. /\ m.cookie = Cookie(InitPacket(c), k) /\ m.cookie \in Cookies
      /\ m.cookie.src = c /\ m.cookie.os = c
      /\ m.cookie.verTag = InitPacket(c).tag /\ m.cookie.tsn = InitPacket(c).tsn
      /\ InitPacket(c).os = c
  BY <1>k, <1>1, <1>3, <1>4, CookieType
<1>6. m.cookie.verTag \in Randoms /\ m.cookie.tsn \in Randoms
  BY <1>5 DEF Cookies
<1>t. AssocTypeOK
  BY DEF HandshakeInvariant
<1>7. /\ streams' \in [EndPoints -> EndPoints \union {NULL}]
      /\ \A e \in EndPoints \ {Server} : streams'[e] = streams[e]
                                        /\ (e \in allocFailed' <=> e \in allocFailed)
      /\ (Server \notin allocFailed' => streams'[Server] = c)
  BY <1>e, <1>1, <1>3, <1>5, <1>t DEF PrepareThreads, AssocTypeOK
<1>8. /\ verTag' \in [EndPoints -> Randoms \union {NULL}]
      /\ verTag'[Server] = m.cookie.verTag /\ tsn'[Server] = m.cookie.tsn
      /\ os'[Server] = c /\ dst'[Server] = c
      /\ \A d \in EndPoints \ {Server} : verTag'[d] = verTag[d] /\ os'[d] = os[d]
  BY <1>e, <1>1, <1>3, <1>5, <1>6, <1>t DEF AssocTypeOK
<1>9. Kept
  BY <1>e, <1>1, <1>8 DEF Kept
<1>10. AssocTypeOK'
  BY <1>e, <1>1, <1>3, <1>5, <1>6, <1>7, <1>8, <1>t DEF AssocTypeOK
<1>11. Took(c, k)' /\ Cookie(InitPacket(c), k) \in accepted'
  BY <1>1, <1>3, <1>4, <1>5, <1>9 DEF Took, Kept
<1>12. ASSUME NEW y, y = CookieAckPacket(c) PROVE Genuine(y)'
  <2>1. y \in Packets /\ y.type = "COOKIE_ACK" /\ y.dst = c
    BY <1>3, <1>12 DEF CookieAckPacket, Packets
  <2> QED BY <1>11, <2>1 DEF Genuine
<1>13. RingsTypeOK' /\ TxGenuine' /\ PoolOK'
  BY <1>e, <1>1, <1>5, <1>9, <1>12, BuildRings
<1>14. NetGenuine'
  BY <1>1, <1>9, NetKept, BagMembers DEF BagIn
<1>15. ClientsOK'
  <2> SUFFICES ASSUME NEW d \in Clients
               PROVE  /\ status'[d] = "ESTABLISHED" =>
                           \E i \in 0 .. MaxBuilds :
                              Took(d, i)' /\ Cookie(InitPacket(d), i) \in accepted'
                      /\ streams'[d] # NULL => status'[d] = "ESTABLISHED"
    BY DEF ClientsOK
  <2>1. \A i \in 0 .. MaxBuilds : Took(d, i) => Took(d, i)'
    BY <1>9 DEF Kept, Took
  <2>2. d \in EndPoints \ {Server}
    BY <1>e
  <2> QED BY <1>1, <1>7, <2>1, <2>2 DEF HandshakeInvariant, ClientsOK
<1>16. AssociationOfOneClient'
  <2>1. inits'[c] > 0
    BY <1>1, <1>4 DEF Took
  <2> QED BY <1>5, <1>8, <2>1 DEF AssociationOfOneClient
<1>17. StreamsMatch'
  <2> SUFFICES ASSUME NEW e \in EndPoints, streams'[e] # NULL, e \notin allocFailed'
               PROVE  streams'[e] = os'[e]
    BY DEF StreamsMatch
  <2>1. CASE e = Server
    <3>1. streams'[Server] = c /\ os'[Server] = c
      BY <1>7, <1>8, <2>1
    <3> QED BY <2>1, <3>1
  <2>2. CASE e # Server
    BY <1>7, <1>8, <2>2 DEF HandshakeInvariant, StreamsMatch
  <2> QED BY <2>1, <2>2
<1> QED BY <1>3, <1>8, <1>10, <1>13, <1>14, <1>15, <1>16, <1>17 DEF HandshakeInvariant

\* sctp_process_sctp_cookie_ack: only an accepted cookie is acknowledged.
LEMMA InvProcessCookieAck ==
  ASSUME HandshakeInvariant, NEW m, ProcessCookieAck(m)
  PROVE  HandshakeInvariant'
<1> DEFINE c == m.dst
<1>e. Server \in EndPoints /\ Clients \subseteq EndPoints /\ Server \notin Clients
      /\ NULL \notin EndPoints
  BY ServerAssumption, NullAssumption DEF EndPoints
<1>1. /\ BagIn(m, net) /\ net' = net (-) SetToBag({m}) /\ m.type = "COOKIE_ACK"
      /\ status[c] = "INIT_ACK_RECEIVED"
      /\ status' = [status EXCEPT ![c] = "ESTABLISHED"]
      /\ PrepareThreads(c, os[c])
      /\ UNCHANGED <<verTag, tsn, dst, os, rings, inits, accepted>>
  BY DEF ProcessCookieAck, Receive, Accepts, faults
<1>2. Genuine(m) /\ m \in Packets
  BY <1>1 DEF HandshakeInvariant, NetGenuine, BagIn, Genuine
<1>3. c \in Clients
  BY <1>1, <1>2 DEF Packets
<1>4. PICK k \in 0 .. MaxBuilds : Took(c, k) /\ Cookie(InitPacket(c), k) \in accepted
  BY <1>1, <1>2 DEF Genuine
<1> HIDE DEF c
<1>t. AssocTypeOK
  BY DEF HandshakeInvariant
<1>5. /\ streams' \in [EndPoints -> EndPoints \union {NULL}]
      /\ \A e \in EndPoints \ {c} : streams'[e] = streams[e]
                                    /\ (e \in allocFailed' <=> e \in allocFailed)
      /\ (c \notin allocFailed' => streams'[c] = os[c])
  BY <1>e, <1>1, <1>3, <1>t DEF PrepareThreads, AssocTypeOK
<1>6. status'[c] = "ESTABLISHED" /\ \A e \in EndPoints \ {c} : status'[e] = status[e]
  BY <1>e, <1>1, <1>3, <1>t DEF AssocTypeOK
<1>7. Kept
  BY <1>e, <1>1, <1>6 DEF Kept, Past
<1>8. AssocTypeOK'
  BY <1>e, <1>1, <1>3, <1>5, <1>t DEF AssocTypeOK, Past
<1>9. RingsTypeOK' /\ TxGenuine' /\ PoolOK'
  BY <1>1, <1>7, RingsKept
<1>10. NetGenuine'
  BY <1>1, <1>7, NetKept, BagMembers DEF BagIn
<1>11. ClientsOK'
  <2> SUFFICES ASSUME NEW d \in Clients
               PROVE  /\ status'[d] = "ESTABLISHED" =>
                           \E i \in 0 .. MaxBuilds :
                              Took(d, i)' /\ Cookie(InitPacket(d), i) \in accepted'
                      /\ streams'[d] # NULL => status'[d] = "ESTABLISHED"
    BY DEF ClientsOK
  <2>1. \A i \in 0 .. MaxBuilds : Took(d, i) => Took(d, i)'
    BY <1>7 DEF Kept, Took
  <2>2. CASE d = c
    BY <1>1, <1>4, <1>6, <2>1, <2>2
  <2>3. CASE d # c
    BY <1>e, <1>1, <1>5, <1>6, <2>1, <2>3 DEF HandshakeInvariant, ClientsOK
  <2> QED BY <2>2, <2>3
<1>12. dst'[Server] \in Clients \union {NULL} /\ AssociationOfOneClient'
  BY <1>1 DEF HandshakeInvariant, AssociationOfOneClient
<1>13. StreamsMatch'
  <2> SUFFICES ASSUME NEW e \in EndPoints, streams'[e] # NULL, e \notin allocFailed'
               PROVE  streams'[e] = os'[e]
    BY DEF StreamsMatch
  <2>1. CASE e = c
    BY <1>1, <1>5, <2>1
  <2>2. CASE e # c
    BY <1>1, <1>5, <2>2 DEF HandshakeInvariant, StreamsMatch
  <2> QED BY <2>1, <2>2
<1> QED BY <1>8, <1>9, <1>10, <1>11, <1>12, <1>13 DEF HandshakeInvariant

-----------------------------------------------------------------------------
\* Every handler, every transmission and everything the network does
\* preserves the invariant.
LEMMA NextInvariant == HandshakeInvariant /\ [Next]_vars => HandshakeInvariant'
<1> SUFFICES ASSUME HandshakeInvariant, [Next]_vars PROVE HandshakeInvariant'
  OBVIOUS
<1>1. CASE UNCHANGED vars
  <2>1. /\ UNCHANGED <<assoc, streams, rings, inits, accepted, allocFailed, net>>
        /\ UNCHANGED <<status, verTag, accepted, inits>>
    BY <1>1 DEF vars, assoc, rings
  <2>2. Kept
    BY <2>1, KeptWhenQuiet
  <2>3. NetGenuine'
    BY <2>1, <2>2, GenuineKept DEF HandshakeInvariant, NetGenuine, BagToSet
  <2>4. inits' \in [Clients -> Nat]
    BY <2>1 DEF HandshakeInvariant, AssocTypeOK
  <2> QED BY <2>1, <2>2, <2>3, <2>4, RingsKept, AssocKept DEF HandshakeInvariant
<1>2. ASSUME NEW m \in BagToSet(net), Handle(m) PROVE HandshakeInvariant'
  BY <1>2, InvProcessInit, InvProcessInitAck, InvProcessCookieEcho, InvProcessCookieAck,
     InvDrop DEF Handle
<1>3. ASSUME NEW m \in BagToSet(net), Lose(m) \/ Duplicate(m) \/ Damage(m)
      PROVE  HandshakeInvariant'
  BY <1>3, InvDrop, InvDuplicate
<1> QED BY <1>1, <1>2, <1>3, InvSendInit, InvTransmit DEF Next, Deliver

\* HandshakeInvariant, the invariant the theorems below rest on, holds of
\* every reachable state.
THEOREM HandshakeInvariantHolds == Spec => []HandshakeInvariant
BY InitInvariant, NextInvariant, PTL DEF Spec

\* The server's association describes one client, and what it says of it is
\* what that client's INIT said, for any number of clients, copies and
\* damaged packets.
THEOREM ServerKnowsOneClient == Spec => []AssociationOfOneClient
<1>1. HandshakeInvariant => AssociationOfOneClient
  BY DEF HandshakeInvariant
<1> QED BY <1>1, HandshakeInvariantHolds, PTL

\* A client that is ESTABLISHED was accepted by the server with the cookie
\* that came with the tag it uses.
THEOREM EstablishedWasAccepted == Spec => []EstablishedIsAccepted
<1>1. HandshakeInvariant => EstablishedIsAccepted
  BY DEF HandshakeInvariant, ClientsOK, Took, EstablishedIsAccepted
<1> QED BY <1>1, HandshakeInvariantHolds, PTL

\* prepare_sctp_threads: the stream table fits the sizes of the association,
\* unless its last allocation failed.
THEOREM StreamTablesMatch == Spec => []StreamsMatch
<1>1. HandshakeInvariant => StreamsMatch
  BY DEF HandshakeInvariant
<1> QED BY <1>1, HandshakeInvariantHolds, PTL

\* A buffer in tx_ring is not written before prefilled_ring has gone round.
THEOREM QueuedBuffersIntact == Spec => []QueuedIntactUntilLapped
<1>1. HandshakeInvariant => QueuedIntactUntilLapped
  <2> SUFFICES ASSUME HandshakeInvariant, NEW e \in EndPoints, NEW i \in DOMAIN tx[e]
               PROVE  \/ mem[e][tx[e][i].buf] = tx[e][i].built
                      \/ builds[e] > tx[e][i].nth + NumBuffers
    BY DEF QueuedIntactUntilLapped, NumBuffers
  <2>1. builds[e] \in Nat /\ NumBuffers \in Nat
    BY AllocationOrderFacts DEF HandshakeInvariant, RingsTypeOK
  <2>2. tx[e] \in Seq(TxEntries)
    BY DEF HandshakeInvariant, RingsTypeOK
  <2>3. tx[e][i].nth \in Nat
    <3>1. tx[e][i] \in TxEntries
      BY <2>2
    <3> QED BY <3>1 DEF TxEntries
  <2>4. builds[e] <= tx[e][i].nth + NumBuffers => mem[e][tx[e][i].buf] = tx[e][i].built
    BY DEF HandshakeInvariant, PoolOK
  <2> QED BY <2>1, <2>3, <2>4
<1> QED BY <1>1, HandshakeInvariantHolds, PTL
=============================================================================
