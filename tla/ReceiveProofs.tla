--------------------------- MODULE ReceiveProofs ---------------------------
(***************************************************************************)
(* Proofs about Receive, for any buffers, any size of the ring to the      *)
(* consumer and any number of packets sent, lost or damaged: packets are   *)
(* handed on in order and once, the loop loses no buffer, the checksums    *)
(* are those of the protocol, and the damage they cannot find is known.    *)
(***************************************************************************)
EXTENDS Receive, FiniteSetTheorems, SequenceTheorems, TLAPS

-----------------------------------------------------------------------------
(***************************************************************************)
(* The inductive invariant: buffers and the order of the packets           *)
(***************************************************************************)
IsSequence(q) == q \in Seq(ToSet(q))
Distinct(q) == \A i, j \in DOMAIN q : q[i] = q[j] => i = j

Labels == {"pop", "recv", "push", "exited"}

TypeOK == /\ receiver \in {"loop", "eth"} /\ pc \in Labels
          /\ buffer \in Buffers \union {NULL}
          /\ pool \in Seq(Buffers) /\ rb \in Seq(Buffers)
          /\ DOMAIN content = Buffers /\ content = [b \in Buffers |-> content[b]]
          /\ IsSequence(sent) /\ IsSequence(wire) /\ IsSequence(delivered)

\* The thread has a buffer between its pop and its push.
BufferOK == receiver = "loop" => (buffer # NULL <=> pc \in {"recv", "push"})

\* No buffer is in two places.
PlacesOK == receiver = "loop" => /\ Distinct(pool) /\ Distinct(rb)
                                 /\ ToSet(pool) \intersect ToSet(rb) = {}
                                 /\ buffer \notin ToSet(pool) \union ToSet(rb)

\* Nor is one lost.
NoneLost == receiver = "loop" =>
  /\ ToSet(pool) \union ToSet(rb) \union ({buffer} \ {NULL}) = Buffers
  /\ Len(pool) + Len(rb) + (IF buffer = NULL THEN 0 ELSE 1) = Cardinality(Buffers)

\* Without the loop nobody uses the ring.
RingIdle == receiver = "eth" => rb = << >> /\ pc = "pop"

\* The packets of q have increasing numbers; all of them are below n, all of
\* them are above n, all of them are below those of r.
Rising(q) == /\ \A i \in DOMAIN q : q[i].nth \in Nat
             /\ \A i, j \in DOMAIN q : i < j => q[i].nth < q[j].nth
Below(q, n) == \A i \in DOMAIN q : q[i].nth < n
Above(q, n) == \A i \in DOMAIN q : n < q[i].nth
Before(q, r) == \A i \in DOMAIN q : \A j \in DOMAIN r : q[i].nth < r[j].nth

\* The packets in the ring to the consumer.
Queued == [i \in DOMAIN rb |-> content[rb[i]]]

\* The packets handed on come before those in the ring, these before those
\* that wait at the socket, and all of them were sent.
OrderOK == /\ Rising(delivered) /\ Rising(Queued) /\ Rising(wire)
           /\ Before(delivered, Queued) /\ Before(delivered, wire) /\ Before(Queued, wire)
           /\ Below(delivered, Len(sent) + 1) /\ Below(Queued, Len(sent) + 1)
           /\ Below(wire, Len(sent) + 1)

\* The packet about to be pushed is between the ring and the socket.
PushOK == pc = "push" => LET n == content[buffer].nth
                         IN  /\ n \in Nat /\ n < Len(sent) + 1
                             /\ Below(delivered, n) /\ Below(Queued, n) /\ Above(wire, n)

ReceiveInvariant == /\ TypeOK /\ BufferOK /\ PlacesOK /\ NoneLost /\ RingIdle
                    /\ OrderOK /\ PushOK

-----------------------------------------------------------------------------
(***************************************************************************)
(* Sequences                                                               *)
(***************************************************************************)
\* A sequence is one over its own elements.
LEMMA SequenceOfItsOwn ==
  ASSUME NEW S, NEW q \in Seq(S)
  PROVE  IsSequence(q)
<1>1. q \in [1 .. Len(q) -> S] /\ Len(q) \in Nat
  OBVIOUS
<1>2. q \in [1 .. Len(q) -> ToSet(q)]
  BY <1>1 DEF ToSet
<1> QED BY <1>1, <1>2 DEF IsSequence

\* A sequence is a function.
LEMMA SequenceIsFunction ==
  ASSUME NEW q, IsSequence(q)
  PROVE  q = [i \in DOMAIN q |-> q[i]]
BY DEF IsSequence

\* What Append does to a sequence.
LEMMA AppendIs ==
  ASSUME NEW q, IsSequence(q), NEW e
  PROVE  /\ IsSequence(Append(q, e)) /\ Len(q) \in Nat /\ DOMAIN q = 1 .. Len(q)
         /\ Len(Append(q, e)) = Len(q) + 1 /\ DOMAIN Append(q, e) = 1 .. Len(q) + 1
         /\ \A i \in 1 .. Len(q) : Append(q, e)[i] = q[i]
         /\ Append(q, e)[Len(q) + 1] = e
<1> DEFINE T == ToSet(q) \union {e}
<1> HIDE DEF T
<1>1. q \in Seq(T) /\ e \in T
  BY DEF IsSequence, T
<1>2. Append(q, e) \in Seq(T)
  BY <1>1
<1>3. IsSequence(Append(q, e))
  BY <1>2, SequenceOfItsOwn
<1> QED BY <1>1, <1>2, <1>3

\* What Tail does to a sequence.
LEMMA TailIs ==
  ASSUME NEW q, IsSequence(q), q # << >>
  PROVE  /\ IsSequence(Tail(q)) /\ Len(q) \in Nat \ {0} /\ DOMAIN q = 1 .. Len(q)
         /\ Len(Tail(q)) = Len(q) - 1 /\ DOMAIN Tail(q) = 1 .. Len(q) - 1
         /\ \A i \in 1 .. Len(q) - 1 : Tail(q)[i] = q[i + 1]
         /\ Head(q) = q[1]
<1> DEFINE T == ToSet(q)
<1> HIDE DEF T
<1>1. q \in Seq(T)
  BY DEF IsSequence, T
<1>2. Tail(q) \in Seq(T)
  BY <1>1
<1>3. IsSequence(Tail(q))
  BY <1>2, SequenceOfItsOwn
<1> QED BY <1>1, <1>2, <1>3

\* Appending keeps elements apart if the new one is new.
LEMMA AppendDistinct ==
  ASSUME NEW q, IsSequence(q), NEW e, Distinct(q), e \notin ToSet(q)
  PROVE  Distinct(Append(q, e))
BY AppendIs DEF Distinct, ToSet

\* Appending adds the element.
LEMMA AppendSet ==
  ASSUME NEW q, IsSequence(q), NEW e
  PROVE  ToSet(Append(q, e)) = ToSet(q) \union {e}
<1>1. \A i \in DOMAIN Append(q, e) : Append(q, e)[i] \in ToSet(q) \union {e}
  BY AppendIs DEF ToSet
<1>2. \A i \in DOMAIN q : q[i] \in ToSet(Append(q, e))
  BY AppendIs DEF ToSet
<1>3. e \in ToSet(Append(q, e))
  BY AppendIs DEF ToSet
<1> QED BY <1>1, <1>2, <1>3 DEF ToSet

\* The tail of distinct elements.
LEMMA TailDistinct ==
  ASSUME NEW q, IsSequence(q), q # << >>, Distinct(q)
  PROVE  /\ Distinct(Tail(q)) /\ Head(q) \in ToSet(q)
         /\ ToSet(Tail(q)) = ToSet(q) \ {Head(q)}
<1>1. Distinct(Tail(q))
  BY TailIs DEF Distinct
<1>2. Head(q) \in ToSet(q)
  BY TailIs DEF ToSet
<1>3. \A i \in DOMAIN Tail(q) : Tail(q)[i] \in ToSet(q) /\ Tail(q)[i] # Head(q)
  BY TailIs DEF Distinct, ToSet
<1>4. \A i \in DOMAIN q : q[i] # Head(q) => q[i] \in ToSet(Tail(q))
  <2> SUFFICES ASSUME NEW i \in DOMAIN q, q[i] # Head(q) PROVE q[i] \in ToSet(Tail(q))
    OBVIOUS
  <2>1. i # 1 /\ i - 1 \in DOMAIN Tail(q) /\ Tail(q)[i - 1] = q[i]
    BY TailIs
  <2> QED BY <2>1 DEF ToSet
<1> QED BY <1>1, <1>2, <1>3, <1>4 DEF ToSet

-----------------------------------------------------------------------------
(***************************************************************************)
(* The order of packets                                                    *)
(***************************************************************************)
\* A packet above all of q goes at its end.
LEMMA RisingAppend ==
  ASSUME NEW q, IsSequence(q), NEW e, Rising(q), e.nth \in Nat, Below(q, e.nth)
  PROVE  Rising(Append(q, e))
BY AppendIs DEF Rising, Below

\* The rest of q is above its first packet, and still in order.
LEMMA RisingTail ==
  ASSUME NEW q, IsSequence(q), q # << >>, Rising(q)
  PROVE  Rising(Tail(q)) /\ Head(q).nth \in Nat /\ Above(Tail(q), Head(q).nth)
BY TailIs DEF Rising, Above

\* Below and Above, for one packet more.
LEMMA BelowAppend ==
  ASSUME NEW q, IsSequence(q), NEW e, NEW n, Below(q, n), e.nth < n
  PROVE  Below(Append(q, e), n)
BY AppendIs DEF Below

\* Below and Above, for one packet more.
LEMMA AboveAppend ==
  ASSUME NEW q, IsSequence(q), NEW e, NEW n, Above(q, n), n < e.nth
  PROVE  Above(Append(q, e), n)
BY AppendIs DEF Above

\* Below and Above, for one packet less.
LEMMA BoundsTail ==
  ASSUME NEW q, IsSequence(q), q # << >>, NEW n
  PROVE  /\ Below(q, n) => Below(Tail(q), n) /\ Head(q).nth < n
         /\ Above(q, n) => Above(Tail(q), n) /\ n < Head(q).nth
BY TailIs DEF Below, Above

\* Before, with a packet more or less on either side.
LEMMA BeforeAppend ==
  ASSUME NEW q, NEW r, IsSequence(q), IsSequence(r), Before(q, r), NEW e
  PROVE  /\ Below(q, e.nth) => Before(q, Append(r, e))
         /\ Above(r, e.nth) => Before(Append(q, e), r)
<1>1. Below(q, e.nth) => Before(q, Append(r, e))
  BY AppendIs DEF Before, Below
<1>2. Above(r, e.nth) => Before(Append(q, e), r)
  BY AppendIs DEF Before, Above
<1> QED BY <1>1, <1>2

\* Before, with a packet more or less on either side.
LEMMA BeforeTail ==
  ASSUME NEW q, NEW r, IsSequence(q), IsSequence(r), Before(q, r)
  PROVE  /\ q # << >> => Before(Tail(q), r) /\ Above(r, Head(q).nth)
         /\ r # << >> => Before(q, Tail(r)) /\ Below(q, Head(r).nth)
<1>1. q # << >> => Before(Tail(q), r) /\ Above(r, Head(q).nth)
  BY TailIs DEF Before, Above
<1>2. r # << >> => Before(q, Tail(r)) /\ Below(q, Head(r).nth)
  BY TailIs DEF Before, Below
<1> QED BY <1>1, <1>2

-----------------------------------------------------------------------------
(***************************************************************************)
(* Set-up                                                                  *)
(***************************************************************************)
\* The allocator starts with every buffer once.
LEMMA InOrderIs ==
  ASSUME NEW S, IsFiniteSet(S)
  PROVE  /\ InOrder(S) \in Seq(S) /\ Len(InOrder(S)) = Cardinality(S)
         /\ ToSet(InOrder(S)) = S /\ Distinct(InOrder(S))
<1> DEFINE c == Cardinality(S)
           q == InOrder(S)
<1>1. c \in Nat /\ ExistsBijection(1 .. c, S)
  BY FS_CardinalityType
<1>2. \E f \in [1 .. c -> S] : ToSet(f) = S
  <2>1. PICK f \in Bijection(1 .. c, S) : TRUE
    BY <1>1 DEF ExistsBijection
  <2>2. f \in [1 .. c -> S] /\ \A t \in S : \E s \in 1 .. c : f[s] = t
    BY <2>1 DEF Bijection, Surjection
  <2>3. ToSet(f) = S
    BY <2>2 DEF ToSet
  <2> QED BY <2>2, <2>3
<1>3. q \in [1 .. c -> S] /\ ToSet(q) = S
  BY <1>2 DEF InOrder
<1> HIDE DEF q
<1>4. q \in Seq(S) /\ Len(q) = c
  BY <1>1, <1>3
<1>5. q \in Surjection(1 .. c, S)
  BY <1>3 DEF Surjection, ToSet
<1>6. IsFiniteSet(1 .. c) /\ Cardinality(1 .. c) = c
  BY <1>1, FS_Interval
<1>7. q \in Injection(1 .. c, S)
  BY <1>5, <1>6, FS_SurjSameCardinalityImpliesInj
<1>8. Distinct(q)
  BY <1>3, <1>7 DEF Injection, IsInjective, Distinct
<1> QED BY <1>3, <1>4, <1>8 DEF q

\* Set-up establishes the invariant.
LEMMA InitReceiveInvariant ==
  ASSUME Init
  PROVE  ReceiveInvariant
<1> USE DEF Init
<1>1. /\ pool \in Seq(Buffers) /\ Len(pool) = Cardinality(Buffers)
      /\ ToSet(pool) = Buffers /\ Distinct(pool)
  BY BuffersAssumption, InOrderIs
<1>2. IsSequence(<< >>) /\ ToSet(<< >>) = {} /\ DOMAIN << >> = {} /\ Len(<< >>) = 0
  <2>1. << >> \in Seq({})
    OBVIOUS
  <2>2. IsSequence(<< >>)
    BY <2>1, SequenceOfItsOwn
  <2>3. DOMAIN << >> = {} /\ Len(<< >>) = 0
    OBVIOUS
  <2> QED BY <2>2, <2>3 DEF ToSet
<1>3. DOMAIN Queued = {}
  BY <1>2 DEF Queued
<1>4. TypeOK
  BY <1>1, <1>2 DEF TypeOK, Labels
<1>5. BufferOK
  BY DEF BufferOK
<1>6. PlacesOK
  BY <1>1, <1>2, BuffersAssumption DEF PlacesOK, Distinct
<1>7. NoneLost
  <2>1. Len(pool) \in Nat
    BY <1>1
  <2> QED BY <1>1, <1>2, <2>1 DEF NoneLost
<1>8. RingIdle
  BY DEF RingIdle
<1>9. OrderOK
  BY <1>2, <1>3 DEF OrderOK, Rising, Before, Below
<1>10. PushOK
  BY DEF PushOK
<1> QED BY <1>4, <1>5, <1>6, <1>7, <1>8, <1>9, <1>10 DEF ReceiveInvariant

-----------------------------------------------------------------------------
(***************************************************************************)
(* Sending                                                                 *)
(***************************************************************************)
\* A data packet ends in a Send.
LEMMA DataSends ==
  ASSUME NEW fld, NEW more, BuildData(fld, more)
  PROVE  \E d, right : Send(d, right)
BY DEF BuildData

\* Every builder ends in a Send.
LEMMA SendSomeSends ==
  ASSUME SendSome
  PROVE  \E d, right : Send(d, right)
<1>1. CASE \E kind \in Kinds, reset \in BOOLEAN : BuildRaw(kind, reset)
  BY <1>1 DEF BuildRaw
<1>2. CASE BuildPrefilledInit
  BY <1>2 DEF BuildPrefilledInit
<1>3. CASE SendXdpInit
  BY <1>3 DEF SendXdpInit
<1>4. CASE \E kind \in Kinds, dest \in Dests : BuildInPlace(kind, dest)
  BY <1>4 DEF BuildInPlace
<1>5. CASE \E shape \in DataShapes : BuildData(shape[1], shape[2])
  <2>1. PICK shape \in DataShapes : BuildData(shape[1], shape[2])
    BY <1>5
  <2> QED BY <2>1, DataSends
<1> QED BY <1>1, <1>2, <1>3, <1>4, <1>5 DEF SendSome

\* What a Send leaves at the socket: nothing new, or a packet with the number
\* of the one sent.
LEMMA SendIs ==
  ASSUME NEW d, NEW right, Send(d, right)
  PROVE  /\ sent' = Append(sent, [packet |-> d, right |-> right])
         /\ \/ wire' = wire
            \/ \E x : wire' = Append(wire, [nth |-> Len(sent) + 1, packet |-> x])
         /\ UNCHANGED <<receiver, pc, buffer, pool, content, rb, delivered>>
BY DEF Send, receiving

\* The packets in the ring form a sequence.
LEMMA QueuedIs ==
  ASSUME TypeOK
  PROVE  /\ IsSequence(Queued) /\ DOMAIN Queued = 1 .. Len(rb) /\ Len(rb) \in Nat
         /\ \A i \in 1 .. Len(rb) : Queued[i] = content[rb[i]]
<1> DEFINE T == {content[rb[i]] : i \in DOMAIN rb}
<1>1. DOMAIN rb = 1 .. Len(rb) /\ Len(rb) \in Nat
  BY DEF TypeOK
<1>2. Queued \in [1 .. Len(rb) -> T]
  BY <1>1 DEF Queued
<1> HIDE DEF T
<1>3. Queued \in Seq(T)
  BY <1>1, <1>2
<1>4. IsSequence(Queued)
  BY <1>3, SequenceOfItsOwn
<1> QED BY <1>1, <1>4 DEF Queued

\* The number of the packet sent is above all others.
LEMMA SendStep ==
  ASSUME ReceiveInvariant, SendSome
  PROVE  ReceiveInvariant'
<1> USE DEF ReceiveInvariant
<1>1. PICK d, right : Send(d, right)
  BY SendSomeSends
<1> DEFINE n == Len(sent) + 1
<1>2. IsSequence(sent') /\ Len(sent) \in Nat /\ Len(sent') = n
  <2>1. sent' = Append(sent, [packet |-> d, right |-> right])
    BY <1>1, SendIs
  <2>2. IsSequence(sent)
    BY DEF TypeOK
  <2> QED BY <2>1, <2>2, AppendIs
<1>3. UNCHANGED <<receiver, pc, buffer, pool, content, rb, delivered, Queued>>
  BY <1>1, SendIs DEF Queued
<1>4. Below(delivered, n) /\ Below(Queued, n) /\ Below(wire, n)
  BY DEF OrderOK
<1>5. IsSequence(wire') /\ Rising(wire') /\ Before(delivered, wire') /\ Before(Queued, wire')
      /\ Below(wire', n + 1) /\ (pc = "push" => Above(wire', content[buffer].nth))
  <2>1. CASE wire' = wire
    BY <2>1, <1>2 DEF TypeOK, OrderOK, PushOK, Rising, Below
  <2>2. CASE wire' # wire
    <3>1. PICK x : wire' = Append(wire, [nth |-> n, packet |-> x])
      BY <1>1, <2>2, SendIs
    <3> DEFINE e == [nth |-> n, packet |-> x]
    <3>2. wire' = Append(wire, e) /\ e.nth = n
      BY <3>1
    <3> HIDE DEF e
    <3>3. IsSequence(wire) /\ IsSequence(delivered) /\ IsSequence(Queued)
      BY QueuedIs DEF TypeOK
    <3>4. IsSequence(wire')
      BY <3>2, <3>3, AppendIs
    <3>5. Rising(wire')
      BY <1>2, <1>4, <3>2, <3>3, RisingAppend DEF OrderOK
    <3>6. Before(delivered, wire') /\ Before(Queued, wire')
      BY <1>4, <3>2, <3>3, BeforeAppend DEF OrderOK
    <3>7. Below(wire, n + 1)
      BY <1>2, <1>4 DEF Below, OrderOK, Rising
    <3>8. Below(wire', n + 1)
      BY <1>2, <3>2, <3>3, <3>7, BelowAppend
    <3>9. ASSUME pc = "push" PROVE Above(wire', content[buffer].nth)
      BY <3>2, <3>3, <3>9, AboveAppend DEF PushOK
    <3> QED BY <3>4, <3>5, <3>6, <3>8, <3>9
  <2> QED BY <2>1, <2>2
<1>6. Below(delivered, n + 1) /\ Below(Queued, n + 1)
  BY <1>2, <1>4 DEF Below, OrderOK, Rising
<1>7. TypeOK' /\ BufferOK' /\ PlacesOK' /\ NoneLost' /\ RingIdle'
  BY <1>2, <1>3, <1>5 DEF TypeOK, BufferOK, PlacesOK, NoneLost, RingIdle
<1>8. OrderOK'
  BY <1>2, <1>3, <1>5, <1>6 DEF OrderOK
<1>9. PushOK'
  BY <1>2, <1>3, <1>5 DEF PushOK
<1> QED BY <1>7, <1>8, <1>9

-----------------------------------------------------------------------------
(***************************************************************************)
(* The loop and the consumer                                               *)
(***************************************************************************)
\* A buffer over which the order does not depend: the ring, what it leads to,
\* the packets handed on and those at the socket are as before.
LEMMA OrderKept ==
  ASSUME OrderOK, UNCHANGED <<Queued, delivered, wire, sent>>
  PROVE  OrderOK'
BY DEF OrderOK

\* The thread takes a buffer out of the allocator.
LEMMA LoopPopStep ==
  ASSUME ReceiveInvariant, LoopPop
  PROVE  ReceiveInvariant'
<1> USE DEF ReceiveInvariant
<1>1. /\ receiver = "loop" /\ pc = "pop" /\ pool # << >> /\ pc' = "recv"
      /\ buffer' = Head(pool) /\ pool' = Tail(pool)
      /\ UNCHANGED <<sent, wire, receiver, content, rb, delivered>>
  BY DEF LoopPop, network
<1>2. UNCHANGED Queued
  BY <1>1 DEF Queued
<1>3. IsSequence(pool) /\ Len(pool) \in Nat /\ Len(rb) \in Nat
  BY SequenceOfItsOwn DEF TypeOK
<1>4. /\ Head(pool) \in ToSet(pool) /\ ToSet(pool') = ToSet(pool) \ {Head(pool)}
      /\ Distinct(pool')
  BY <1>1, <1>3, TailDistinct DEF PlacesOK
<1>5. Head(pool) \in Buffers /\ pool' \in Seq(Buffers) /\ Len(pool') = Len(pool) - 1
  BY <1>1 DEF TypeOK
<1>6. buffer = NULL /\ buffer' # NULL
  BY <1>1, <1>5, BuffersAssumption DEF BufferOK
<1>7. TypeOK'
  BY <1>1, <1>5 DEF TypeOK, Labels
<1>8. BufferOK'
  BY <1>1, <1>6 DEF BufferOK
<1>9. PlacesOK'
  BY <1>1, <1>4 DEF PlacesOK
<1>10. NoneLost'
  <2>1. ToSet(pool) \union ToSet(rb) = Buffers
    BY <1>1, <1>6 DEF NoneLost
  <2>2. ToSet(pool') \union ToSet(rb') \union ({buffer'} \ {NULL}) = Buffers
    BY <1>1, <1>4, <1>6, <2>1
  <2>3. Len(pool) + Len(rb) = Cardinality(Buffers)
    BY <1>1, <1>3, <1>6 DEF NoneLost
  <2>4. Len(pool') + Len(rb') + 1 = Cardinality(Buffers)
    BY <1>1, <1>3, <1>5, <2>3
  <2> QED BY <1>6, <2>2, <2>4 DEF NoneLost
<1>11. RingIdle' /\ PushOK'
  BY <1>1 DEF RingIdle, PushOK
<1>12. OrderOK'
  BY <1>1, <1>2, OrderKept
<1> QED BY <1>7, <1>8, <1>9, <1>10, <1>11, <1>12

\* The thread reads a packet into its buffer, which nobody else sees: it is
\* pushed next or read into again.
LEMMA LoopRecvStep ==
  ASSUME ReceiveInvariant, LoopRecv
  PROVE  ReceiveInvariant'
<1> USE DEF ReceiveInvariant
<1>1. /\ receiver = "loop" /\ pc = "recv" /\ wire # << >> /\ pc' \in {"push", "recv"}
      /\ content' = [content EXCEPT ![buffer] = Head(wire)] /\ wire' = Tail(wire)
      /\ UNCHANGED <<sent, receiver, buffer, pool, rb, delivered>>
  BY DEF LoopRecv
<1>2. buffer \in Buffers /\ buffer \notin ToSet(rb) /\ buffer # NULL
  BY <1>1 DEF TypeOK, BufferOK, PlacesOK
<1>3. content'[buffer] = Head(wire) /\ \A b \in Buffers \ {buffer} : content'[b] = content[b]
  BY <1>1, <1>2 DEF TypeOK
<1>4. UNCHANGED Queued
  <2>1. \A i \in DOMAIN rb : rb[i] \in Buffers \ {buffer}
    BY <1>2 DEF TypeOK, ToSet
  <2> QED BY <1>1, <1>3, <2>1 DEF Queued
<1>5. IsSequence(wire) /\ IsSequence(Queued) /\ IsSequence(delivered) /\ IsSequence(wire')
  BY <1>1, TailIs, QueuedIs DEF TypeOK
<1>6. Rising(wire') /\ Head(wire).nth \in Nat /\ Above(wire', Head(wire).nth)
  BY <1>1, <1>5, RisingTail DEF OrderOK
<1>7. Below(wire', Len(sent) + 1) /\ Head(wire).nth < Len(sent) + 1
  BY <1>1, <1>5, BoundsTail DEF OrderOK
<1>8. Before(delivered, wire') /\ Below(delivered, Head(wire).nth)
  BY <1>1, <1>5, BeforeTail DEF OrderOK
<1>9. Before(Queued, wire') /\ Below(Queued, Head(wire).nth)
  BY <1>1, <1>5, BeforeTail DEF OrderOK
<1>10. TypeOK'
  <2>1. DOMAIN content' = Buffers /\ content' = [b \in Buffers |-> content'[b]]
    BY <1>1, <1>2 DEF TypeOK
  <2> QED BY <1>1, <1>5, <2>1 DEF TypeOK, Labels
<1>11. BufferOK'
  BY <1>1, <1>2 DEF BufferOK
<1>12. PlacesOK' /\ NoneLost' /\ RingIdle'
  BY <1>1 DEF PlacesOK, NoneLost, RingIdle
<1>13. OrderOK'
  BY <1>1, <1>4, <1>6, <1>7, <1>8, <1>9 DEF OrderOK
<1>14. PushOK'
  BY <1>1, <1>3, <1>4, <1>6, <1>7, <1>8, <1>9 DEF PushOK
<1> QED BY <1>10, <1>11, <1>12, <1>13, <1>14

\* A thread that ends gives its buffer back.
LEMMA LoopExitStep ==
  ASSUME ReceiveInvariant, LoopExit
  PROVE  ReceiveInvariant'
<1> USE DEF ReceiveInvariant
<1>1. /\ receiver = "loop" /\ pc = "recv" /\ pc' = "exited"
      /\ pool' = Append(pool, buffer) /\ buffer' = NULL
      /\ UNCHANGED <<sent, wire, receiver, content, rb, delivered>>
  BY DEF LoopExit, network
<1>2. UNCHANGED Queued
  BY <1>1 DEF Queued
<1>3. buffer \in Buffers /\ buffer # NULL /\ buffer \notin ToSet(pool) \union ToSet(rb)
  BY <1>1 DEF TypeOK, BufferOK, PlacesOK
<1>4. IsSequence(pool) /\ Len(pool) \in Nat /\ Len(rb) \in Nat
  BY SequenceOfItsOwn DEF TypeOK
<1>5. pool' \in Seq(Buffers) /\ Len(pool') = Len(pool) + 1
  BY <1>1, <1>3 DEF TypeOK
<1>6. ToSet(pool') = ToSet(pool) \union {buffer} /\ Distinct(pool')
  BY <1>1, <1>3, <1>4, AppendSet, AppendDistinct DEF PlacesOK
<1>7. TypeOK'
  BY <1>1, <1>5 DEF TypeOK, Labels
<1>8. BufferOK' /\ RingIdle' /\ PushOK'
  BY <1>1 DEF BufferOK, RingIdle, PushOK
<1>9. PlacesOK'
  <2>1. NULL \notin ToSet(pool') \union ToSet(rb)
    BY <1>5, BuffersAssumption DEF TypeOK, ToSet
  <2> QED BY <1>1, <1>3, <1>6, <2>1 DEF PlacesOK
<1>10. NoneLost'
  <2>1. ToSet(pool') \union ToSet(rb') \union ({buffer'} \ {NULL}) = Buffers
    BY <1>1, <1>3, <1>6 DEF NoneLost
  <2>2. Len(pool) + Len(rb) + 1 = Cardinality(Buffers)
    BY <1>1, <1>3 DEF NoneLost
  <2>3. Len(pool') + Len(rb') + 0 = Cardinality(Buffers)
    BY <1>1, <1>4, <1>5, <2>2
  <2> QED BY <1>1, <2>1, <2>3 DEF NoneLost
<1>11. OrderOK'
  BY <1>1, <1>2, OrderKept
<1> QED BY <1>7, <1>8, <1>9, <1>10, <1>11

\* The thread hands its buffer to the ring.
LEMMA LoopPushStep ==
  ASSUME ReceiveInvariant, LoopPush
  PROVE  ReceiveInvariant'
<1> USE DEF ReceiveInvariant
<1>1. /\ receiver = "loop" /\ pc = "push" /\ pc' = "pop"
      /\ rb' = Append(rb, buffer) /\ buffer' = NULL
      /\ UNCHANGED <<sent, wire, receiver, pool, content, delivered>>
  BY DEF LoopPush, network
<1>2. buffer \in Buffers /\ buffer # NULL /\ buffer \notin ToSet(pool) \union ToSet(rb)
  BY <1>1 DEF TypeOK, BufferOK, PlacesOK
<1>3. IsSequence(rb) /\ Len(pool) \in Nat /\ Len(rb) \in Nat
  BY SequenceOfItsOwn DEF TypeOK
<1>4. rb' \in Seq(Buffers) /\ Len(rb') = Len(rb) + 1
  BY <1>1, <1>2 DEF TypeOK
<1>5. ToSet(rb') = ToSet(rb) \union {buffer} /\ Distinct(rb')
  BY <1>1, <1>2, <1>3, AppendSet, AppendDistinct DEF PlacesOK
<1> DEFINE e == content[buffer]
<1>6. TypeOK'
  BY <1>1, <1>4 DEF TypeOK, Labels
<1>7. Queued' = Append(Queued, e)
  <2>1. DOMAIN Queued' = 1 .. Len(rb) + 1
    BY <1>4, <1>6, QueuedIs DEF Queued, TypeOK
  <2>2. IsSequence(Queued) /\ DOMAIN Queued = 1 .. Len(rb)
    BY QueuedIs
  <2>3. Len(Queued) = Len(rb)
    BY <2>2, <1>3 DEF IsSequence
  <2>4. DOMAIN Append(Queued, e) = 1 .. Len(rb) + 1
    BY <2>2, <2>3, AppendIs
  <2>5. \A i \in 1 .. Len(rb) + 1 : Queued'[i] = Append(Queued, e)[i]
    <3>1. \A i \in 1 .. Len(rb) : rb'[i] = rb[i]
      BY <1>1, <1>3, AppendIs
    <3>2. rb'[Len(rb) + 1] = buffer
      BY <1>1, <1>3, AppendIs
    <3>3. \A i \in 1 .. Len(rb) : Append(Queued, e)[i] = Queued[i]
      BY <2>2, <2>3, AppendIs
    <3>4. Append(Queued, e)[Len(rb) + 1] = e
      BY <2>2, <2>3, AppendIs
    <3>5. \A i \in 1 .. Len(rb) + 1 : Queued'[i] = content[rb'[i]]
      BY <1>1, <2>1 DEF Queued
    <3>6. \A i \in 1 .. Len(rb) : Queued[i] = content[rb[i]]
      BY QueuedIs
    <3>7. \A i \in 1 .. Len(rb) : Queued'[i] = Append(Queued, e)[i]
      <4> SUFFICES ASSUME NEW i \in 1 .. Len(rb)
                   PROVE  Queued'[i] = Append(Queued, e)[i]
        OBVIOUS
      <4>1. i \in 1 .. Len(rb) + 1
        BY <1>3
      <4>2. Queued'[i] = content[rb'[i]]
        BY <3>5, <4>1
      <4> QED BY <3>1, <3>3, <3>6, <4>2
    <3>8. Queued'[Len(rb) + 1] = Append(Queued, e)[Len(rb) + 1]
      BY <1>3, <3>2, <3>4, <3>5
    <3> SUFFICES ASSUME NEW i \in 1 .. Len(rb) + 1
                 PROVE  Queued'[i] = Append(Queued, e)[i]
      OBVIOUS
    <3>9. i \in 1 .. Len(rb) \/ i = Len(rb) + 1
      BY <1>3
    <3> QED BY <3>7, <3>8, <3>9
  <2>6. Queued' = [i \in 1 .. Len(rb) + 1 |-> Queued'[i]]
    BY <2>1 DEF Queued
  <2>7. Append(Queued, e) = [i \in 1 .. Len(rb) + 1 |-> Append(Queued, e)[i]]
    <3>1. IsSequence(Append(Queued, e))
      BY <2>2, AppendIs
    <3> QED BY <2>4, <3>1 DEF IsSequence
  <2> QED BY <2>5, <2>6, <2>7
<1>8. /\ e.nth \in Nat /\ e.nth < Len(sent) + 1
      /\ Below(delivered, e.nth) /\ Below(Queued, e.nth) /\ Above(wire, e.nth)
  BY <1>1 DEF PushOK
<1>9. IsSequence(Queued) /\ IsSequence(delivered) /\ IsSequence(wire)
  BY QueuedIs DEF TypeOK
<1>10. OrderOK'
  <2> HIDE DEF e
  <2>1. Rising(Queued')
    BY <1>7, <1>8, <1>9, RisingAppend DEF OrderOK
  <2>2. Before(delivered, Queued') /\ Before(Queued', wire)
    BY <1>7, <1>8, <1>9, BeforeAppend DEF OrderOK
  <2>3. Below(Queued', Len(sent) + 1)
    BY <1>7, <1>8, <1>9, BelowAppend DEF OrderOK
  <2> QED BY <1>1, <2>1, <2>2, <2>3 DEF OrderOK
<1>11. BufferOK' /\ RingIdle' /\ PushOK'
  BY <1>1 DEF BufferOK, RingIdle, PushOK
<1>12. PlacesOK'
  <2>1. NULL \notin ToSet(pool) \union ToSet(rb')
    BY <1>4, BuffersAssumption DEF TypeOK, ToSet
  <2> QED BY <1>1, <1>2, <1>5, <2>1 DEF PlacesOK
<1>13. NoneLost'
  <2>1. ToSet(pool') \union ToSet(rb') \union ({buffer'} \ {NULL}) = Buffers
    BY <1>1, <1>2, <1>5 DEF NoneLost
  <2>2. Len(pool) + Len(rb) + 1 = Cardinality(Buffers)
    BY <1>1, <1>2 DEF NoneLost
  <2>3. Len(pool') + Len(rb') + 0 = Cardinality(Buffers)
    BY <1>1, <1>3, <1>4, <2>2
  <2> QED BY <1>1, <2>1, <2>3 DEF NoneLost
<1> QED BY <1>6, <1>10, <1>11, <1>12, <1>13

\* The consumer takes the oldest packet of the ring: it is handed on, and its
\* buffer is free for packets that come after.
LEMMA ConsumeStep ==
  ASSUME ReceiveInvariant, Consume
  PROVE  ReceiveInvariant'
<1> USE DEF ReceiveInvariant
<1> DEFINE b == Head(rb)
           e == content[b]
<1>1. /\ rb # << >> /\ delivered' = Append(delivered, e)
      /\ rb' = Tail(rb) /\ pool' = Append(pool, b)
      /\ UNCHANGED <<sent, wire, receiver, pc, buffer, content>>
  BY DEF Consume, network
<1>2. receiver = "loop"
  BY <1>1 DEF RingIdle, TypeOK
<1>3. IsSequence(rb) /\ IsSequence(pool) /\ Len(pool) \in Nat /\ Len(rb) \in Nat
  BY SequenceOfItsOwn DEF TypeOK
<1>4. /\ b \in ToSet(rb) /\ ToSet(rb') = ToSet(rb) \ {b} /\ Distinct(rb')
  BY <1>1, <1>2, <1>3, TailDistinct DEF PlacesOK
<1>5. /\ b \in Buffers /\ rb' \in Seq(Buffers) /\ Len(rb') = Len(rb) - 1
      /\ pool' \in Seq(Buffers) /\ Len(pool') = Len(pool) + 1
  BY <1>1 DEF TypeOK
<1>6. b \notin ToSet(pool) /\ b # buffer
  BY <1>2, <1>4 DEF PlacesOK
<1>7. ToSet(pool') = ToSet(pool) \union {b} /\ Distinct(pool')
  BY <1>1, <1>2, <1>3, <1>6, AppendSet, AppendDistinct DEF PlacesOK
<1>8. IsSequence(Queued) /\ DOMAIN Queued = 1 .. Len(rb) /\ IsSequence(delivered)
      /\ IsSequence(wire)
  BY QueuedIs DEF TypeOK
<1>9. IsSequence(delivered')
  BY <1>1, <1>8, AppendIs
<1>10. TypeOK'
  BY <1>1, <1>5, <1>9 DEF TypeOK
<1>11. Len(rb) \in Nat \ {0} /\ b = rb[1] /\ \A i \in 1 .. Len(rb) - 1 : rb'[i] = rb[i + 1]
  BY <1>1, <1>3, TailIs
<1>12. Queued # << >> /\ Head(Queued) = e /\ Queued' = Tail(Queued)
  <2>1. Queued # << >> /\ Len(Queued) = Len(rb)
    BY <1>8, <1>11 DEF IsSequence
  <2>2. Head(Queued) = Queued[1] /\ Queued[1] = e
    BY <1>8, <1>11, <2>1, TailIs, QueuedIs
  <2>3. IsSequence(Tail(Queued)) /\ DOMAIN Tail(Queued) = 1 .. Len(rb) - 1
        /\ \A i \in 1 .. Len(rb) - 1 : Tail(Queued)[i] = Queued[i + 1]
    BY <1>8, <2>1, TailIs
  <2>4. DOMAIN rb' = 1 .. Len(rb) - 1
    BY <1>5, <1>11
  <2>5. Queued' = [i \in 1 .. Len(rb) - 1 |-> content[rb'[i]]]
    BY <1>1, <2>4 DEF Queued
  <2>6. \A i \in 1 .. Len(rb) - 1 : Tail(Queued)[i] = content[rb'[i]]
    <3> SUFFICES ASSUME NEW i \in 1 .. Len(rb) - 1
                 PROVE  Tail(Queued)[i] = content[rb'[i]]
      OBVIOUS
    <3>1. i + 1 \in 1 .. Len(rb)
      BY <1>11
    <3>2. Queued[i + 1] = content[rb[i + 1]]
      BY <3>1, QueuedIs
    <3> QED BY <1>11, <2>3, <3>2
  <2>7. Tail(Queued) = [i \in 1 .. Len(rb) - 1 |-> Tail(Queued)[i]]
    BY <2>3, SequenceIsFunction
  <2> QED BY <2>1, <2>2, <2>5, <2>6, <2>7
<1> HIDE DEF e
<1>13. /\ Rising(Queued') /\ e.nth \in Nat /\ Above(Queued', e.nth)
  BY <1>8, <1>12, RisingTail DEF OrderOK
<1>14. Below(Queued', Len(sent) + 1) /\ e.nth < Len(sent) + 1
  BY <1>8, <1>12, BoundsTail DEF OrderOK
<1>15. Before(Queued', wire) /\ Above(wire, e.nth)
  BY <1>8, <1>12, BeforeTail DEF OrderOK
<1>16. Before(delivered, Queued') /\ Below(delivered, e.nth)
  BY <1>8, <1>12, BeforeTail DEF OrderOK
<1>17. IsSequence(Queued')
  BY <1>8, <1>12, TailIs
<1>18. OrderOK'
  <2>1. Rising(delivered')
    BY <1>1, <1>8, <1>13, <1>16, RisingAppend DEF OrderOK
  <2>2. Before(delivered', Queued')
    BY <1>1, <1>8, <1>13, <1>16, <1>17, BeforeAppend
  <2>3. Before(delivered', wire)
    BY <1>1, <1>8, <1>15, BeforeAppend DEF OrderOK
  <2>4. Below(delivered', Len(sent) + 1)
    BY <1>1, <1>8, <1>14, BelowAppend DEF OrderOK
  <2> QED BY <1>1, <1>13, <1>14, <1>15, <2>1, <2>2, <2>3, <2>4 DEF OrderOK
<1>19. PushOK'
  <2> SUFFICES ASSUME pc' = "push"
               PROVE  LET n == content[buffer].nth
                      IN  /\ n \in Nat /\ n < Len(sent) + 1
                          /\ Below(delivered', n) /\ Below(Queued', n) /\ Above(wire, n)
    BY <1>1 DEF PushOK
  <2> DEFINE n == content[buffer].nth
  <2>1. /\ n \in Nat /\ n < Len(sent) + 1
        /\ Below(delivered, n) /\ Below(Queued, n) /\ Above(wire, n)
    BY <1>1 DEF PushOK
  <2> HIDE DEF n
  <2>2. Below(Queued', n) /\ e.nth < n
    BY <1>8, <1>12, <2>1, BoundsTail
  <2>3. Below(delivered', n)
    BY <1>1, <1>8, <2>1, <2>2, BelowAppend
  <2> QED BY <2>1, <2>2, <2>3 DEF n
<1>20. BufferOK' /\ RingIdle'
  BY <1>1, <1>2 DEF BufferOK, RingIdle
<1>21. PlacesOK'
  BY <1>1, <1>2, <1>4, <1>6, <1>7 DEF PlacesOK
<1>22. NoneLost'
  <2>1. ToSet(pool') \union ToSet(rb') = ToSet(pool) \union ToSet(rb)
    BY <1>4, <1>7
  <2>2. Len(pool') + Len(rb') = Len(pool) + Len(rb)
    BY <1>3, <1>5
  <2> QED BY <1>1, <2>1, <2>2 DEF NoneLost
<1> QED BY <1>10, <1>18, <1>19, <1>20, <1>21, <1>22

\* A call of eth_receive_sctp: only the order is at stake.
LEMMA EthReceiveStep ==
  ASSUME ReceiveInvariant, EthReceive
  PROVE  ReceiveInvariant'
<1> USE DEF ReceiveInvariant
<1>1. /\ receiver = "eth" /\ pool # << >> /\ pool' = Tail(pool)
      /\ UNCHANGED <<sent, receiver, pc, rb>>
  BY DEF EthReceive
<1>2. rb = << >> /\ pc = "pop"
  BY <1>1 DEF RingIdle
<1>3. DOMAIN Queued = {} /\ DOMAIN Queued' = {}
  BY <1>1, <1>2 DEF Queued
<1>4. Head(pool) \in Buffers /\ pool' \in Seq(Buffers)
  BY <1>1 DEF TypeOK
<1>5. BufferOK' /\ PlacesOK' /\ NoneLost' /\ RingIdle' /\ PushOK'
  BY <1>1, <1>2 DEF BufferOK, PlacesOK, NoneLost, RingIdle, PushOK
<1>6. Rising(Queued') /\ Before(delivered', Queued') /\ Before(Queued', wire')
      /\ Below(Queued', Len(sent) + 1)
  BY <1>3 DEF Rising, Before, Below
<1>7. IsSequence(wire) /\ IsSequence(delivered)
  BY DEF TypeOK
<1>8. CASE UNCHANGED <<buffer, content, delivered, wire>>
  <2>1. TypeOK'
    BY <1>1, <1>4, <1>8 DEF TypeOK
  <2>2. OrderOK'
    BY <1>1, <1>6, <1>8 DEF OrderOK
  <2> QED BY <1>5, <2>1, <2>2
<1>9. CASE /\ wire # << >> /\ wire' = Tail(wire)
           /\ content' = [content EXCEPT ![Head(pool)] = Head(wire)]
           /\ IF Head(wire).packet.size < HdrSize
              THEN UNCHANGED <<buffer, delivered>>
              ELSE /\ buffer' = Head(pool)
                   /\ delivered' = Append(delivered, Head(wire))
  <2> DEFINE e == Head(wire)
  <2>1. delivered' = delivered \/ delivered' = Append(delivered, e)
    BY <1>9
  <2>2. IsSequence(wire') /\ IsSequence(delivered')
    <3>1. IsSequence(wire')
      BY <1>7, <1>9, TailIs
    <3>2. IsSequence(Append(delivered, e))
      BY <1>7, AppendIs
    <3> QED BY <1>7, <2>1, <3>1, <3>2
  <2>3. TypeOK'
    <3>1. DOMAIN content' = Buffers /\ content' = [b \in Buffers |-> content'[b]]
      BY <1>4, <1>9 DEF TypeOK
    <3>2. buffer' \in Buffers \union {NULL}
      BY <1>4, <1>9 DEF TypeOK
    <3> QED BY <1>1, <1>4, <2>2, <3>1, <3>2 DEF TypeOK
  <2> HIDE DEF e
  <2>4. Rising(wire') /\ e.nth \in Nat /\ Above(wire', e.nth)
    BY <1>7, <1>9, RisingTail DEF OrderOK, e
  <2>5. Below(wire', Len(sent) + 1) /\ e.nth < Len(sent) + 1
    BY <1>7, <1>9, BoundsTail DEF OrderOK, e
  <2>6. Before(delivered, wire') /\ Below(delivered, e.nth)
    BY <1>7, <1>9, BeforeTail DEF OrderOK, e
  <2>7. Rising(delivered')
    BY <1>7, <2>1, <2>4, <2>6, RisingAppend DEF OrderOK
  <2>8. Before(delivered', wire')
    BY <1>7, <2>1, <2>2, <2>4, <2>6, BeforeAppend
  <2>9. Below(delivered', Len(sent) + 1)
    BY <1>7, <2>1, <2>5, BelowAppend DEF OrderOK
  <2>10. OrderOK'
    BY <1>1, <1>6, <2>4, <2>5, <2>7, <2>8, <2>9 DEF OrderOK
  <2> QED BY <1>5, <2>3, <2>10
<1> QED BY <1>8, <1>9 DEF EthReceive

-----------------------------------------------------------------------------
(***************************************************************************)
(* The theorems                                                            *)
(***************************************************************************)
\* Nothing changes in a step in which nothing happens.
LEMMA StutterStep ==
  ASSUME ReceiveInvariant, UNCHANGED vars
  PROVE  ReceiveInvariant'
<1>1. UNCHANGED <<sent, wire, receiver, pc, buffer, pool, content, rb, delivered>>
  BY DEF vars, network, receiving
<1>2. UNCHANGED Queued
  BY <1>1 DEF Queued
<1> QED BY <1>1, <1>2 DEF ReceiveInvariant, TypeOK, BufferOK, PlacesOK, NoneLost, RingIdle,
                          OrderOK, PushOK

\* Whatever is sent, lost or damaged and however the thread, the consumer and
\* the callers of eth_receive_sctp take turns: no buffer of the loop is in two
\* places or in none, and the packets are in the order in which they were
\* sent along the way from the socket to the user.
THEOREM ReceiveInvariantHolds == Spec => []ReceiveInvariant
<1>1. Init => ReceiveInvariant
  BY InitReceiveInvariant
<1>2. ReceiveInvariant /\ [Next]_vars => ReceiveInvariant'
  BY SendStep, LoopPopStep, LoopRecvStep, LoopExitStep, LoopPushStep, ConsumeStep,
     EthReceiveStep, StutterStep DEF Next, Loop
<1> QED BY <1>1, <1>2, PTL DEF Spec

\* Packets come out of recv_sctp_packet and of eth_receive_sctp in the order
\* in which they were sent, each at most once, and every buffer of the loop is
\* in the allocator, with the thread or in the ring, in one of them only.
THEOREM AlwaysInOrderOnce == Spec => []InOrderOnce
<1>1. ReceiveInvariant => InOrderOnce
  BY DEF ReceiveInvariant, OrderOK, Rising, NoneLost, InOrderOnce
<1> QED BY <1>1, ReceiveInvariantHolds, PTL

-----------------------------------------------------------------------------
(***************************************************************************)
(* Folds over the four words of a header                                   *)
(***************************************************************************)
\* The greatest of some of four positions.
LEMMA GreatestOfFour ==
  ASSUME NEW s \in SUBSET (1 .. 4), s # {}
  PROVE  Max(s) \in s /\ \A y \in s : y <= Max(s)
<1>1. \E x \in s : \A y \in s : x >= y
  <2>1. CASE 4 \in s
    BY <2>1
  <2>2. CASE 4 \notin s /\ 3 \in s
    BY <2>2
  <2>3. CASE 4 \notin s /\ 3 \notin s /\ 2 \in s
    BY <2>3
  <2>4. CASE 4 \notin s /\ 3 \notin s /\ 2 \notin s
    <3>1. \A y \in s : y = 1
      BY <2>4
    <3>2. PICK x \in s : TRUE
      OBVIOUS
    <3> QED BY <3>1, <3>2
  <2> QED BY <2>1, <2>2, <2>3, <2>4
<1>2. Max(s) \in s /\ \A y \in s : Max(s) >= y
  BY <1>1 DEF Max
<1> QED BY <1>2

\* The positions are taken from the last to the first.
LEMMA FirstOfFour ==
  /\ Max(1 .. 4) = 4 /\ Max(1 .. 3) = 3 /\ Max(1 .. 2) = 2 /\ Max(1 .. 1) = 1
  /\ (1 .. 4) \ {4} = 1 .. 3 /\ (1 .. 3) \ {3} = 1 .. 2
  /\ (1 .. 2) \ {2} = 1 .. 1 /\ (1 .. 1) \ {1} = {}
<1>1. /\ Max(1 .. 4) = 4 /\ Max(1 .. 3) = 3 /\ Max(1 .. 2) = 2 /\ Max(1 .. 1) = 1
  <2>1. ASSUME NEW n \in 1 .. 4 PROVE Max(1 .. n) = n
    <3>1. 1 .. n \in SUBSET (1 .. 4) /\ n \in 1 .. n
      OBVIOUS
    <3>2. Max(1 .. n) \in 1 .. n /\ n <= Max(1 .. n)
      BY <3>1, GreatestOfFour
    <3> QED BY <3>2
  <2> QED BY <2>1
<1>2. /\ (1 .. 4) \ {4} = 1 .. 3 /\ (1 .. 3) \ {3} = 1 .. 2
      /\ (1 .. 2) \ {2} = 1 .. 1 /\ (1 .. 1) \ {1} = {}
  OBVIOUS
<1> QED BY <1>1, <1>2

\* The sum of four words.
LEMMA TotalOfFour ==
  ASSUME NEW a \in Int, NEW b \in Int, NEW c \in Int, NEW d \in Int, NEW start \in Int
  PROVE  Total(<<a, b, c, d>>, start) = start + a + b + c + d
<1> DEFINE q == <<a, b, c, d>>
           At(g, s) == IF s = {} THEN start ELSE g[s \ {Max(s)}] + q[Max(s)]
           IsIter(g) == g = [s \in SUBSET DOMAIN q |-> At(g, s)]
           iter == CHOOSE g : IsIter(g)
           In(i, s, x) == IF i \in s THEN x ELSE 0
           Of(s) == start + In(1, s, a) + In(2, s, b) + In(3, s, c) + In(4, s, d)
           w == [s \in SUBSET DOMAIN q |-> Of(s)]
<1>1. Total(q, start) = iter[DOMAIN q]
  BY DEF Total, FoldLeft, MapThenFoldSet
<1>2. DOMAIN q = 1 .. 4 /\ q[1] = a /\ q[2] = b /\ q[3] = c /\ q[4] = d
  OBVIOUS
<1> HIDE DEF q
<1>3. IsIter(w)
  <2> SUFFICES ASSUME NEW s \in SUBSET (1 .. 4)
               PROVE  Of(s) = At(w, s)
    <3> HIDE DEF Of, At
    <3> QED BY <1>2
  <2>1. CASE s = {}
    BY <2>1
  <2>2. CASE s # {}
    <3> DEFINE m == Max(s)
    <3>1. m \in s /\ (\A y \in s : y <= m) /\ m \in 1 .. 4
      BY <2>2, GreatestOfFour
    <3>2. w[s \ {m}] = Of(s \ {m})
      BY <1>2
    <3> HIDE DEF m, w
    <3>3. Of(s) = Of(s \ {m}) + q[m]
      <4>1. CASE m = 1
        BY <1>2, <3>1, <4>1
      <4>2. CASE m = 2
        BY <1>2, <3>1, <4>2
      <4>3. CASE m = 3
        BY <1>2, <3>1, <4>3
      <4>4. CASE m = 4
        BY <1>2, <3>1, <4>4
      <4> QED BY <3>1, <4>1, <4>2, <4>3, <4>4
    <3> QED BY <2>2, <3>2, <3>3 DEF m
  <2> QED BY <2>1, <2>2
<1> HIDE DEF w
<1>4. IsIter(iter)
  BY <1>3
<1> HIDE DEF iter
<1> DEFINE s0 == {}
           s1 == 1 .. 1
           s2 == 1 .. 2
           s3 == 1 .. 3
           s4 == 1 .. 4
<1>5. /\ Max(s4) = 4 /\ Max(s3) = 3 /\ Max(s2) = 2 /\ Max(s1) = 1
      /\ s4 \ {4} = s3 /\ s3 \ {3} = s2 /\ s2 \ {2} = s1 /\ s1 \ {1} = s0
  BY FirstOfFour
<1>6. /\ s1 # {} /\ s2 # {} /\ s3 # {} /\ s4 # {}
      /\ {s0, s1, s2, s3, s4} \subseteq SUBSET s4
  OBVIOUS
<1>7. ASSUME NEW s \in SUBSET s4
      PROVE  iter[s] = IF s = {} THEN start ELSE iter[s \ {Max(s)}] + q[Max(s)]
  BY <1>2, <1>4
<1>8. DOMAIN q = s4
  BY <1>2
<1> HIDE DEF s0, s1, s2, s3, s4, At, IsIter
<1>9. iter[s0] = start
  BY <1>6, <1>7 DEF s0
<1>10. iter[s1] = iter[s0] + q[1]
  BY <1>5, <1>6, <1>7
<1>11. iter[s2] = iter[s1] + q[2]
  BY <1>5, <1>6, <1>7
<1>12. iter[s3] = iter[s2] + q[3]
  BY <1>5, <1>6, <1>7
<1>13. iter[s4] = iter[s3] + q[4]
  BY <1>5, <1>6, <1>7
<1>14. iter[s4] = start + a + b + c + d
  BY <1>2, <1>9, <1>10, <1>11, <1>12, <1>13
<1> QED BY <1>1, <1>8, <1>14 DEF q

\* ip_checksum of four words.
LEMMA IpChecksumOfFour ==
  ASSUME NEW a \in Int, NEW b \in Int, NEW c \in Int, NEW d \in Int
  PROVE  IpChecksum(<<a, b, c, d>>) = Fold(Fold(Fold(Fold(0 + a) + b) + c) + d)
<1> DEFINE q == <<a, b, c, d>>
           At(g, s) == IF s = {} THEN 0 ELSE Fold(g[s \ {Max(s)}] + q[Max(s)])
           IsIter(g) == g = [s \in SUBSET DOMAIN q |-> At(g, s)]
           iter == CHOOSE g : IsIter(g)
           With(i, s, sum, x) == IF i \in s THEN Fold(sum + x) ELSE sum
           Of(s) == With(4, s, With(3, s, With(2, s, With(1, s, 0, a), b), c), d)
           w == [s \in SUBSET DOMAIN q |-> Of(s)]
<1>1. IpChecksum(q) = iter[DOMAIN q]
  BY DEF IpChecksum, FoldLeft, MapThenFoldSet
<1>2. DOMAIN q = 1 .. 4 /\ q[1] = a /\ q[2] = b /\ q[3] = c /\ q[4] = d
  OBVIOUS
<1> HIDE DEF q
<1>3. IsIter(w)
  <2> SUFFICES ASSUME NEW s \in SUBSET (1 .. 4)
               PROVE  Of(s) = At(w, s)
    <3> HIDE DEF Of, At
    <3> QED BY <1>2
  <2>1. CASE s = {}
    BY <2>1
  <2>2. CASE s # {}
    <3> DEFINE m == Max(s)
    <3>1. m \in s /\ (\A y \in s : y <= m) /\ m \in 1 .. 4
      BY <2>2, GreatestOfFour
    <3>2. w[s \ {m}] = Of(s \ {m})
      BY <1>2
    <3> HIDE DEF m, w
    <3>3. Of(s) = Fold(Of(s \ {m}) + q[m])
      <4>1. CASE m = 1
        BY <1>2, <3>1, <4>1
      <4>2. CASE m = 2
        BY <1>2, <3>1, <4>2
      <4>3. CASE m = 3
        BY <1>2, <3>1, <4>3
      <4>4. CASE m = 4
        BY <1>2, <3>1, <4>4
      <4> QED BY <3>1, <4>1, <4>2, <4>3, <4>4
    <3> QED BY <2>2, <3>2, <3>3 DEF m
  <2> QED BY <2>1, <2>2
<1> HIDE DEF w
<1>4. IsIter(iter)
  BY <1>3
<1> HIDE DEF iter
<1> DEFINE s0 == {}
           s1 == 1 .. 1
           s2 == 1 .. 2
           s3 == 1 .. 3
           s4 == 1 .. 4
<1>5. /\ Max(s4) = 4 /\ Max(s3) = 3 /\ Max(s2) = 2 /\ Max(s1) = 1
      /\ s4 \ {4} = s3 /\ s3 \ {3} = s2 /\ s2 \ {2} = s1 /\ s1 \ {1} = s0
  BY FirstOfFour
<1>6. /\ s1 # {} /\ s2 # {} /\ s3 # {} /\ s4 # {}
      /\ {s0, s1, s2, s3, s4} \subseteq SUBSET s4
  OBVIOUS
<1>7. ASSUME NEW s \in SUBSET s4
      PROVE  iter[s] = IF s = {} THEN 0 ELSE Fold(iter[s \ {Max(s)}] + q[Max(s)])
  BY <1>2, <1>4
<1>8. DOMAIN q = s4
  BY <1>2
<1> HIDE DEF s0, s1, s2, s3, s4, At, IsIter
<1>9. iter[s0] = 0
  BY <1>6, <1>7 DEF s0
<1>10. iter[s1] = Fold(iter[s0] + q[1])
  BY <1>5, <1>6, <1>7
<1>11. iter[s2] = Fold(iter[s1] + q[2])
  BY <1>5, <1>6, <1>7
<1>12. iter[s3] = Fold(iter[s2] + q[3])
  BY <1>5, <1>6, <1>7
<1>13. iter[s4] = Fold(iter[s3] + q[4])
  BY <1>5, <1>6, <1>7
<1>14. iter[s4] = Fold(Fold(Fold(Fold(0 + a) + b) + c) + d)
  BY <1>2, <1>9, <1>10, <1>11, <1>12, <1>13
<1> QED BY <1>1, <1>8, <1>14 DEF q

-----------------------------------------------------------------------------
(***************************************************************************)
(* Sums of words                                                           *)
(***************************************************************************)
Word == 0 .. W - 1

\* A word is a number below 2^16.
LEMMA WordIs == \A x : x \in Word <=> x \in Nat /\ x < W
<1>1. W \in Nat
  BY SMT DEF W
<1> QED BY <1>1 DEF Word

\* One carry comes back in at the low end.
LEMMA FoldOnce ==
  ASSUME NEW x \in Nat, x <= 2 * (W - 1)
  PROVE  /\ Fold(x) \in Nat /\ Fold(x) < W
         /\ x < W => Fold(x) = x
         /\ x >= W => Fold(x) = x - (W - 1)
<1>1. CASE x < W
  <2>1. x % W = x /\ x \div W = 0
    BY SMT, <1>1 DEF W
  <2> QED BY SMT, <1>1, <2>1 DEF Fold, W
<1>2. CASE x >= W
  <2>1. x % W = x - W /\ x \div W = 1
    BY SMT, <1>2 DEF W
  <2> QED BY SMT, <1>2, <2>1 DEF Fold, W
<1> QED BY SMT, <1>1, <1>2 DEF W

\* The word r is x up to a multiple of 65535, and zero only if x is.
Remainder(x, r) == /\ r \in Nat /\ r < W /\ (r = 0 => x = 0)
                   /\ \E k \in Nat : x = r + 65535 * k

\* A carry or none.
LEMMA FoldSum ==
  ASSUME NEW r \in Nat, NEW x \in Nat, r < W, x < W
  PROVE  LET f == Fold(r + x)
         IN  /\ f \in Nat /\ f < W /\ (f = 0 => r = 0 /\ x = 0)
             /\ \E k \in Nat : r + x = f + 65535 * k
<1> DEFINE y == r + x
<1>1. y \in Nat /\ y <= 2 * (W - 1)
  BY SMT DEF W
<1> HIDE DEF y
<1>2. /\ Fold(y) \in Nat /\ Fold(y) < W
      /\ y < W => Fold(y) = y
      /\ y >= W => Fold(y) = y - (W - 1)
  BY <1>1, FoldOnce
<1> DEFINE k == IF y < W THEN 0 ELSE 1
<1>3. k \in Nat /\ r + x = Fold(y) + 65535 * k
  BY SMT, <1>1, <1>2 DEF W, y
<1>4. Fold(y) = 0 => r = 0 /\ x = 0
  BY SMT, <1>2 DEF W, y
<1> HIDE DEF k
<1> QED BY SMT, <1>2, <1>3, <1>4 DEF y

\* ip_checksum is the sum up to a multiple of 65535, and zero only for zero.
LEMMA IpChecksumIs ==
  ASSUME NEW a \in Nat, NEW b \in Nat, NEW c \in Nat, NEW d \in Nat,
         a < W, b < W, c < W, d < W
  PROVE  Remainder(a + b + c + d, IpChecksum(<<a, b, c, d>>))
<1> DEFINE r1 == Fold(0 + a)
           r2 == Fold(r1 + b)
           r3 == Fold(r2 + c)
           r4 == Fold(r3 + d)
<1>1. IpChecksum(<<a, b, c, d>>) = r4
  BY IpChecksumOfFour
<1>2. r1 \in Nat /\ r1 < W /\ (r1 = 0 => a = 0) /\ \E k \in Nat : 0 + a = r1 + 65535 * k
  <2>1. 0 < W
    BY SMT DEF W
  <2> QED BY SMT, <2>1, FoldSum
<1> HIDE DEF r1
<1>3. /\ r2 \in Nat /\ r2 < W /\ (r2 = 0 => r1 = 0 /\ b = 0)
      /\ \E k \in Nat : r1 + b = r2 + 65535 * k
  BY SMT, <1>2, FoldSum
<1> HIDE DEF r2
<1>4. /\ r3 \in Nat /\ r3 < W /\ (r3 = 0 => r2 = 0 /\ c = 0)
      /\ \E k \in Nat : r2 + c = r3 + 65535 * k
  BY SMT, <1>3, FoldSum
<1> HIDE DEF r3
<1>5. /\ r4 \in Nat /\ r4 < W /\ (r4 = 0 => r3 = 0 /\ d = 0)
      /\ \E k \in Nat : r3 + d = r4 + 65535 * k
  BY SMT, <1>4, FoldSum
<1> HIDE DEF r4
<1>6. r4 = 0 => a + b + c + d = 0
  BY SMT, <1>2, <1>3, <1>4, <1>5
<1>7. \E k \in Nat : a + b + c + d = r4 + 65535 * k
  <2>1. PICK k1 \in Nat : 0 + a = r1 + 65535 * k1
    BY <1>2
  <2>2. PICK k2 \in Nat : r1 + b = r2 + 65535 * k2
    BY <1>3
  <2>3. PICK k3 \in Nat : r2 + c = r3 + 65535 * k3
    BY <1>4
  <2>4. PICK k4 \in Nat : r3 + d = r4 + 65535 * k4
    BY <1>5
  <2> DEFINE k == k1 + k2 + k3 + k4
  <2>5. k \in Nat /\ a + b + c + d = r4 + 65535 * k
    BY SMT, <1>2, <1>3, <1>4, <1>5, <2>1, <2>2, <2>3, <2>4
  <2> HIDE DEF k
  <2> QED BY SMT, <2>5
<1> QED BY SMT, <1>1, <1>5, <1>6, <1>7 DEF Remainder

\* So is what tcp_checksum folds at the end.
LEMMA TcpFoldIs ==
  ASSUME NEW x \in Nat, x <= 4 * (W - 1)
  PROVE  Remainder(x, Fold(Fold(x)))
<1> DEFINE k1 == x \div W
           y == Fold(x)
<1>1. k1 \in Nat /\ k1 <= 3 /\ x % W = x - 65536 * k1 /\ x % W >= 0 /\ x % W < 65536
  BY SMT DEF W
<1>2. y = x - 65535 * k1
  BY SMT, <1>1 DEF Fold
<1> HIDE DEF k1, y
<1>3. y \in Nat /\ y <= 65538 /\ (y = 0 => x = 0)
  BY SMT, <1>1, <1>2
<1>4. y <= 2 * (W - 1)
  BY SMT, <1>3 DEF W
<1>5. /\ Fold(y) \in Nat /\ Fold(y) < W
      /\ y < W => Fold(y) = y
      /\ y >= W => Fold(y) = y - (W - 1)
  BY <1>3, <1>4, FoldOnce
<1>6. Fold(y) = 0 => x = 0
  BY SMT, <1>3, <1>5 DEF W
<1>7. \E k \in Nat : x = Fold(y) + 65535 * k
  <2>1. CASE y < W
    <3>1. x = Fold(y) + 65535 * k1
      BY SMT, <1>1, <1>2, <1>3, <1>5, <2>1
    <3> QED BY SMT, <1>1, <3>1
  <2>2. CASE y >= W
    <3>1. k1 + 1 \in Nat /\ x = Fold(y) + 65535 * (k1 + 1)
      BY SMT, <1>1, <1>2, <1>3, <1>5, <2>2 DEF W
    <3> QED BY SMT, <3>1
  <2> QED BY SMT, <1>3, <2>1, <2>2 DEF W
<1> QED BY SMT, <1>5, <1>6, <1>7 DEF y, Remainder

\* Two such remainders of one sum are the same.
LEMMA SameRemainder ==
  ASSUME NEW x \in Nat, NEW r, NEW s, Remainder(x, r), Remainder(x, s)
  PROVE  r = s
<1> USE DEF Remainder
<1> PICK k \in Nat : x = r + 65535 * k
  OBVIOUS
<1> PICK l \in Nat : x = s + 65535 * l
  OBVIOUS
<1>1. x = 0 \/ (r >= 1 /\ s >= 1)
  BY SMT
<1>2. CASE x = 0
  BY SMT, <1>2 DEF W
<1>3. CASE r >= 1 /\ s >= 1
  <2>1. r - s = 65535 * (l - k) /\ l - k \in Int
    BY SMT
  <2>2. r - s < 65535 /\ s - r < 65535
    BY SMT, <1>3 DEF W
  <2>3. l - k = 0
    BY SMT, <2>1, <2>2
  <2> QED BY SMT, <2>1, <2>3
<1> QED BY <1>1, <1>2, <1>3

-----------------------------------------------------------------------------
(***************************************************************************)
(* The checksum of a header                                                *)
(***************************************************************************)
Headers == [id : Word, len : Word, dest : Word \X Word, check : Word]

\* What the checksum covers.
HeaderSum(ip) == ip.id + Htons(ip.len) + ip.dest[1] + ip.dest[2]

\* Bytes change places, a word stays a word.
LEMMA HtonsIs ==
  ASSUME NEW n \in Nat, n < W
  PROVE  Htons(n) \in Nat /\ Htons(n) < W /\ (n > 0 => Htons(n) > 0)
<1> DEFINE q == n \div 256
           r == n % 256
<1>1. q \in Nat /\ r \in Nat /\ r <= 255 /\ n = 256 * q + r
  BY SMT
<1>2. q <= 255
  BY SMT, <1>1 DEF W
<1>3. Htons(n) = r * 256 + q
  BY DEF Htons
<1> HIDE DEF q, r
<1> QED BY SMT, <1>1, <1>2, <1>3 DEF W

\* The words of a header.
LEMMA WordsOf ==
  ASSUME NEW ip \in Headers
  PROVE  /\ ip.id \in Nat /\ ip.id < W /\ ip.len \in Nat /\ ip.len < W
         /\ ip.check \in Nat /\ ip.check < W
         /\ Htons(ip.len) \in Nat /\ Htons(ip.len) < W
         /\ ip.dest[1] \in Nat /\ ip.dest[1] < W /\ ip.dest[2] \in Nat /\ ip.dest[2] < W
         /\ ip.dest = <<ip.dest[1], ip.dest[2]>>
         /\ HeaderSum(ip) \in Nat /\ HeaderSum(ip) <= 4 * (W - 1)
         /\ Words(ip) = <<ip.id, Htons(ip.len), ip.dest[1], ip.dest[2]>>
<1>1. /\ ip.id \in Word /\ ip.len \in Word /\ ip.check \in Word
      /\ ip.dest[1] \in Word /\ ip.dest[2] \in Word /\ ip.dest = <<ip.dest[1], ip.dest[2]>>
  BY DEF Headers
<1>2. /\ ip.id \in Nat /\ ip.id < W /\ ip.len \in Nat /\ ip.len < W
      /\ ip.check \in Nat /\ ip.check < W
      /\ ip.dest[1] \in Nat /\ ip.dest[1] < W /\ ip.dest[2] \in Nat /\ ip.dest[2] < W
  BY <1>1, WordIs
<1>3. Htons(ip.len) \in Nat /\ Htons(ip.len) < W
  BY <1>2, HtonsIs
<1>4. HeaderSum(ip) \in Nat /\ HeaderSum(ip) <= 4 * (W - 1)
  BY SMT, <1>2, <1>3 DEF HeaderSum, W
<1> QED BY <1>1, <1>2, <1>3, <1>4 DEF Words

\* All words of a header.
LEMMA TotalIs ==
  ASSUME NEW ip \in Headers, NEW start \in Nat
  PROVE  Total(Words(ip), start) = start + HeaderSum(ip)
<1> DEFINE a == ip.id
           b == Htons(ip.len)
           c == ip.dest[1]
           d == ip.dest[2]
<1>1. a \in Int /\ b \in Int /\ c \in Int /\ d \in Int /\ start \in Int
  BY SMT, WordsOf
<1>2. Words(ip) = <<a, b, c, d>> /\ HeaderSum(ip) = a + b + c + d
  BY WordsOf DEF HeaderSum
<1> HIDE DEF a, b, c, d
<1>3. Total(<<a, b, c, d>>, start) = start + a + b + c + d
  BY <1>1, TotalOfFour
<1> QED BY SMT, <1>1, <1>2, <1>3

\* The checksum of a header and its words add up to a multiple of 65535.
LEMMA FullCheckIs ==
  ASSUME NEW ip \in Headers
  PROVE  /\ FullCheck(ip) \in Nat /\ FullCheck(ip) < W
         /\ Remainder(HeaderSum(ip), W - 1 - FullCheck(ip))
<1> DEFINE r == IpChecksum(Words(ip))
<1>1. Remainder(HeaderSum(ip), r)
  <2> DEFINE a == ip.id
             b == Htons(ip.len)
             c == ip.dest[1]
             d == ip.dest[2]
  <2>1. /\ a \in Nat /\ b \in Nat /\ c \in Nat /\ d \in Nat
        /\ a < W /\ b < W /\ c < W /\ d < W
    BY WordsOf
  <2>2. r = IpChecksum(<<a, b, c, d>>) /\ HeaderSum(ip) = a + b + c + d
    BY WordsOf DEF HeaderSum
  <2> HIDE DEF a, b, c, d, r
  <2> QED BY SMT, <2>1, <2>2, IpChecksumIs
<1>2. FullCheck(ip) = W - 1 - r
  BY DEF FullCheck, Complement
<1> HIDE DEF r
<1>3. FullCheck(ip) \in Nat /\ FullCheck(ip) < W /\ r = W - 1 - FullCheck(ip)
  BY SMT, <1>1, <1>2 DEF W, Remainder
<1> QED BY <1>1, <1>3

\* tcp_checksum folds at the end and gives the same.
LEMMA TcpChecksumIs ==
  ASSUME NEW ip \in Headers
  PROVE  TcpChecksum(Words(ip), 0) = FullCheck(ip)
<1> DEFINE x == HeaderSum(ip)
           r == Fold(Fold(x))
           s == W - 1 - FullCheck(ip)
<1>1. x \in Nat /\ x <= 4 * (W - 1)
  BY WordsOf
<1>2. Total(Words(ip), 0) = x
  <2>1. Total(Words(ip), 0) = 0 + x
    BY TotalIs
  <2> QED BY SMT, <1>1, <2>1
<1> HIDE DEF x
<1>3. Remainder(x, r)
  BY <1>1, TcpFoldIs
<1>4. Remainder(x, s)
  BY FullCheckIs DEF x
<1> HIDE DEF r, s
<1>5. r = s
  BY <1>1, <1>3, <1>4, SameRemainder
<1>6. TcpChecksum(Words(ip), 0) = W - 1 - r
  BY <1>2 DEF TcpChecksum, Complement, r
<1> QED BY SMT, <1>5, <1>6, FullCheckIs DEF s, W

\* Which value is the checksum: the one that makes the sum a multiple of
\* 65535, and 0 of the two that do.
LEMMA CheckRule ==
  ASSUME NEW ip \in Headers, HeaderSum(ip) > 0, NEW c \in Nat, c < W
  PROVE  c = FullCheck(ip) <=> c < W - 1 /\ \E m \in Int : HeaderSum(ip) + c = 65535 * m
<1> DEFINE x == HeaderSum(ip)
           f == FullCheck(ip)
<1>1. x \in Nat /\ x > 0 /\ f \in Nat /\ f < W /\ f # W - 1
  BY SMT, WordsOf, FullCheckIs DEF Remainder, W
<1>2. PICK k \in Nat : x = (W - 1 - f) + 65535 * k
  BY FullCheckIs DEF Remainder
<1> HIDE DEF x, f
<1>3. ASSUME c = f PROVE c < W - 1 /\ \E m \in Int : x + c = 65535 * m
  <2> DEFINE m == k + 1
  <2>1. m \in Int /\ x + c = 65535 * m
    BY SMT, <1>1, <1>2, <1>3 DEF W
  <2> HIDE DEF m
  <2>2. c < W - 1
    BY SMT, <1>1, <1>3 DEF W
  <2> QED BY SMT, <2>1, <2>2
<1>4. ASSUME c < W - 1, \E m \in Int : x + c = 65535 * m PROVE c = f
  <2>1. PICK m \in Int : x + c = 65535 * m
    BY <1>4
  <2> DEFINE n == m - k - 1
  <2>2. n \in Int /\ c - f = 65535 * n
    BY SMT, <1>1, <1>2, <2>1 DEF W
  <2>3. c - f < 65535 /\ f - c < 65535
    BY SMT, <1>1, <1>4 DEF W
  <2> HIDE DEF n
  <2>4. n = 0
    BY SMT, <1>1, <2>2, <2>3
  <2> QED BY SMT, <1>1, <2>2, <2>4
<1> QED BY <1>3, <1>4 DEF x, f

\* Multiples of 65535.
LEMMA MultipleIs ==
  ASSUME NEW x \in Nat
  PROVE  x % (W - 1) = 0 <=> \E m \in Int : x = 65535 * m
<1>1. W - 1 = 65535
  BY SMT DEF W
<1> DEFINE q == x \div 65535
           r == x % 65535
<1>2. q \in Int /\ r \in Nat /\ r < 65535 /\ x = 65535 * q + r
  BY SMT
<1>3. x % (W - 1) = r
  BY SMT, <1>1
<1> HIDE DEF q, r
<1>4. ASSUME r = 0 PROVE \E m \in Int : x = 65535 * m
  <2>1. x = 65535 * q
    BY SMT, <1>2, <1>4
  <2> QED BY SMT, <1>2, <2>1
<1>5. ASSUME NEW m \in Int, x = 65535 * m PROVE r = 0
  <2>1. r = 65535 * (m - q)
    BY SMT, <1>2, <1>5
  <2>2. m - q = 0
    BY SMT, <1>2, <2>1
  <2> QED BY SMT, <2>1, <2>2
<1> QED BY SMT, <1>3, <1>4, <1>5

\* The checksum the receiver computes is the one RFC 1071 asks for.
LEMMA SumsUpIs ==
  ASSUME NEW ip \in Headers, ip.id > 0
  PROVE  /\ ip.check = FullCheck(ip) <=> SumsUp(Words(ip), ip.check) /\ ip.check # W - 1
         /\ FullCheck(ip) = TcpChecksum(Words(ip), 0)
<1> DEFINE c == ip.check
           x == HeaderSum(ip)
<1>1. c \in Nat /\ c < W /\ x \in Nat /\ x > 0
  BY SMT, WordsOf DEF HeaderSum
<1>2. Total(Words(ip), c) = x + c
  <2>1. Total(Words(ip), c) = c + x
    BY <1>1, TotalIs
  <2> QED BY SMT, <1>1, <2>1
<1>3. c = FullCheck(ip) <=> c < W - 1 /\ \E m \in Int : x + c = 65535 * m
  BY <1>1, CheckRule
<1> HIDE DEF c, x
<1>4. SumsUp(Words(ip), c) <=> \E m \in Int : x + c = 65535 * m
  <2> DEFINE y == x + c
  <2>1. y \in Nat /\ y > 0
    BY SMT, <1>1
  <2> HIDE DEF y
  <2>2. y % (W - 1) = 0 <=> \E m \in Int : y = 65535 * m
    BY <2>1, MultipleIs
  <2>3. Total(Words(ip), c) = y
    BY <1>2 DEF y
  <2>4. SumsUp(Words(ip), c) <=> y > 0 /\ y % (W - 1) = 0
    BY <2>3 DEF SumsUp
  <2> QED BY SMT, <2>1, <2>2, <2>4 DEF y
<1>5. c < W - 1 <=> c # W - 1
  BY SMT, <1>1 DEF W
<1> QED BY SMT, <1>3, <1>4, <1>5, TcpChecksumIs DEF c

-----------------------------------------------------------------------------
(***************************************************************************)
(* Updates of a checksum                                                   *)
(***************************************************************************)
\* A u16 that wraps or not.
LEMMA AddWraps ==
  ASSUME NEW x \in Nat, NEW n \in Nat, x < W, n < W
  PROVE  /\ (x + n) % W \in Nat /\ (x + n) % W < W
         /\ x + n < W => (x + n) % W = x + n
         /\ x + n >= W => (x + n) % W = x + n - W
BY SMT DEF W

\* A subtraction that wraps or not.
LEMMA AdjustIs ==
  ASSUME NEW c \in Nat, NEW len \in Nat, c < W, len < W
  PROVE  /\ Adjust(c, 0, len) \in Nat /\ Adjust(c, 0, len) < W
         /\ len <= c => Adjust(c, 0, len) = c - len
         /\ len > c => Adjust(c, 0, len) = c - len + W
BY SMT DEF Adjust, W

\* Quotient and remainder, also below zero.
LEMMA HighLow ==
  ASSUME NEW x \in Int
  PROVE  /\ x \div W \in Int /\ x % W \in Nat /\ x % W < W
         /\ x = W * (x \div W) + (x % W)
BY SMT DEF W

\* A checksum t that is c less a length and an address, but for the error of
\* the wraps, which is one or two at most.
TakesOff(t, c, len, d1, d2, e) ==
  /\ t \in Nat /\ t < W /\ e \in Int /\ e >= -2 /\ e <= 1
  /\ \E h \in Int : t + len + d1 + d2 = c + 65535 * h - e

\* What is taken off a checksum is added to the words it covers, but for
\* WrapError.
LEMMA TakeOffIs ==
  ASSUME NEW c \in Nat, NEW len \in Nat, NEW d1 \in Nat, NEW d2 \in Nat,
         c < W, len < W, d1 < W, d2 < W
  PROVE  TakesOff(TakeOff(c, len, <<d1, d2>>), c, len, d1, d2, WrapError(c, len, <<d1, d2>>))
<1> DEFINE low  == c - len - d2
           high == (low \div W) - d1
           sum  == (low % W) + (high % W)
           t    == sum % W
           e    == (high \div W) + (sum \div W)
<1>1. TakeOff(c, len, <<d1, d2>>) = t
  BY DEF TakeOff
<1>2. WrapError(c, len, <<d1, d2>>) = e
  BY DEF WrapError
<1>3. low \in Int
  BY SMT
<1> HIDE DEF low
<1>4. /\ low \div W \in Int /\ low % W \in Nat
      /\ low % W < W /\ low = W * (low \div W) + (low % W)
  BY <1>3, HighLow
<1>5. high \in Int
  BY SMT, <1>4
<1> HIDE DEF high
<1>6. /\ high \div W \in Int /\ high % W \in Nat
      /\ high % W < W /\ high = W * (high \div W) + (high % W)
  BY <1>5, HighLow
<1>7. sum \in Int
  BY SMT, <1>4, <1>6
<1> HIDE DEF sum
<1>8. /\ sum \div W \in Int /\ t \in Nat /\ t < W
      /\ sum = W * (sum \div W) + t
  BY <1>7, HighLow
<1> HIDE DEF t
<1> DEFINE hl == low \div W
           hh == high \div W
           hs == sum \div W
           al == low % W
           ah == high % W
<1>9. /\ hl \in Int /\ hh \in Int /\ hs \in Int /\ al \in Nat /\ ah \in Nat
      /\ al < W /\ ah < W
      /\ low = W * hl + al /\ high = W * hh + ah /\ sum = W * hs + t
      /\ high = hl - d1 /\ sum = al + ah /\ low = c - len - d2
      /\ e = hh + hs
  BY <1>4, <1>6, <1>8 DEF high, sum, low
<1> HIDE DEF hl, hh, hs, al, ah, e
<1>10. hl >= -2 /\ hl <= 0 /\ hs >= 0 /\ hs <= 1
  BY SMT, <1>8, <1>9 DEF W
<1>11. hh >= -2 /\ hh <= 0
  BY SMT, <1>9, <1>10 DEF W
<1> DEFINE h == 0 - hl - e
<1>12. h \in Int /\ t + len + d1 + d2 = c + 65535 * h - e
  BY SMT, <1>8, <1>9 DEF W
<1>13. e \in Int /\ e >= -2 /\ e <= 1
  BY SMT, <1>9, <1>10, <1>11
<1> HIDE DEF h
<1>14. TakesOff(t, c, len, d1, d2, e)
  BY <1>8, <1>12, <1>13 DEF TakesOff
<1> QED BY <1>1, <1>2, <1>14

-----------------------------------------------------------------------------
(***************************************************************************)
(* Packets                                                                 *)
(***************************************************************************)
Builders == {"raw", "prefilled", "in_place", "xdp", "data"}
Frames == [packet : Int, plen : Word]
Packets == [by : Builders, kind : Kinds \union {"data"}, ip : Headers, fld : Word,
            body : Nat, crc : [body : Nat, fld : Nat, over : Nat], size : Nat]

\* What is known of a packet with these fields, and when it passes.
Describes(d, by, kind, ip, fld, body, over, size) ==
  /\ d \in Packets /\ d.by = by /\ d.kind = kind /\ d.ip = ip /\ d.body = body
  /\ ChecksumsOk(d) <=> /\ size >= HdrSize /\ ip.check = FullCheck(ip)
                        /\ ip.len >= 36 /\ over = 12 + fld

\* A packet is one of Packets if its header and lengths are.
LEMMA DatagramIs ==
  ASSUME NEW by \in Builders, NEW kind \in Kinds \union {"data"}, NEW ip \in Headers,
         NEW fld \in Word, NEW body \in Nat, NEW over \in Nat, NEW size \in Nat
  PROVE  Describes(Datagram(by, kind, ip, fld, body, over, size),
                   by, kind, ip, fld, body, over, size)
<1> DEFINE d == Datagram(by, kind, ip, fld, body, over, size)
<1>1. fld \in Nat
  BY WordIs
<1>2. d \in Packets
  BY <1>1 DEF Datagram, Packets, Crc
<1>3. /\ d.by = by /\ d.kind = kind /\ d.ip = ip /\ d.body = body /\ d.fld = fld
      /\ d.size = size /\ d.crc = [body |-> body, fld |-> fld, over |-> over]
  BY DEF Datagram, Crc
<1> HIDE DEF d
<1>4. d.crc = Crc(d.body, d.fld, CmnSize + d.fld) <=> over = 12 + fld
  BY <1>1, <1>3 DEF Crc, CmnSize
<1>5. d.ip.len >= IpSize + CmnSize + FldSize <=> ip.len >= 36
  BY <1>3, WordsOf DEF IpSize, CmnSize, FldSize
<1>6. ChecksumsOk(d) <=> /\ size >= HdrSize /\ ip.check = FullCheck(ip)
                         /\ ip.len >= 36 /\ over = 12 + fld
  BY <1>3, <1>4, <1>5 DEF ChecksumsOk
<1> QED BY <1>2, <1>3, <1>6 DEF d, Describes

\* The checksum of a header does not depend on what is in its place.
LEMMA FullCheckOf ==
  ASSUME NEW id, NEW len, NEW dest, NEW c, NEW e
  PROVE  FullCheck(Ip(id, len, dest, c)) = FullCheck(Ip(id, len, dest, e))
BY DEF FullCheck, Words, Ip

\* A header with these fields.
HasFields(ip, id, len, dest, c) ==
  /\ ip \in Headers /\ ip.id = id /\ ip.len = len /\ ip.dest = dest /\ ip.check = c
  /\ HeaderSum(ip) = id + Htons(len) + dest[1] + dest[2]

\* A header that is put together is one.
LEMMA HeaderIs ==
  ASSUME NEW id \in Word, NEW len \in Word, NEW dest \in Word \X Word, NEW c \in Word
  PROVE  HasFields(Ip(id, len, dest, c), id, len, dest, c)
BY DEF Ip, Headers, HeaderSum, HasFields

\* frame->packet += n
LEMMA SkipIs ==
  ASSUME NEW f \in Frames, NEW n \in Nat
  PROVE  Skip(f, n) \in Frames /\ Skip(f, n).packet = f.packet + n /\ Skip(f, n).plen = f.plen
BY DEF Skip, Frames

\* packet -= n; *plen += n, which wraps or not
Prepended(g, f, n) ==
  /\ g \in Frames /\ g.packet = f.packet - n
  /\ f.plen \in Nat /\ f.plen < W /\ g.plen \in Nat /\ g.plen < W
  /\ f.plen + n < W => g.plen = f.plen + n
  /\ f.plen + n >= W => g.plen = f.plen + n - W

\* That is what Prepend does.
LEMMA PrependIs ==
  ASSUME NEW f \in Frames, NEW n \in Nat, n < 300
  PROVE  Prepended(Prepend(f, n), f, n)
<1>1. f.packet \in Int /\ f.plen \in Nat /\ f.plen < W
  BY WordIs DEF Frames
<1>2. n < W
  BY SMT DEF W
<1> DEFINE x == (f.plen + n) % W
<1>3. /\ x \in Nat /\ x < W
      /\ f.plen + n < W => x = f.plen + n
      /\ f.plen + n >= W => x = f.plen + n - W
  BY <1>1, <1>2, AddWraps
<1>4. Prepend(f, n) = [packet |-> f.packet - n, plen |-> x]
  BY DEF Prepend
<1> HIDE DEF x
<1>5. x \in Word
  BY <1>3, WordIs
<1>6. Prepend(f, n) \in Frames
  BY <1>1, <1>4, <1>5 DEF Frames
<1> QED BY <1>1, <1>3, <1>4, <1>6 DEF Prepended

\* The chunk of a raw packet: the room that is made and what is written.
LEMMA BuildChunkIs ==
  ASSUME NEW f \in Frames, NEW kind \in Kinds
  PROVE  LET c == BuildChunk(f, kind)
         IN  /\ c \in Frames
             /\ c.packet = f.packet + HdrSize + FldSize
                             + (IF kind = "cookie_echo" THEN FldSize ELSE 0)
<1> USE DEF HdrSize, FldSize, MacSize, IpSize, CmnSize, InitSize, ParamSize, CookieSize
<1>0. f.packet \in Int
  BY DEF Frames
<1>1. CASE kind = "init"
  <2>1. BuildChunk(f, kind) = Prepend(Skip(f, 46 + 4 + 16), 16)
    BY <1>1 DEF BuildChunk, BuildInit, InitHdrRaw
  <2>2. Skip(f, 66) \in Frames /\ Skip(f, 66).packet = f.packet + 66
    BY SkipIs
  <2>3. Prepend(Skip(f, 66), 16) \in Frames
        /\ Prepend(Skip(f, 66), 16).packet = Skip(f, 66).packet - 16
    <3>1. Prepended(Prepend(Skip(f, 66), 16), Skip(f, 66), 16)
      BY <2>2, PrependIs
    <3> QED BY <3>1 DEF Prepended
  <2> QED BY <1>0, <1>1, <2>1, <2>2, <2>3
<1>2. CASE kind = "init_ack"
  <2>1. BuildChunk(f, kind) = Prepend(Prepend(Skip(f, 126), 60), 16)
    BY <1>2 DEF BuildChunk, BuildInitAck, InitAckHdrRaw, CookieParamRaw
  <2>2. Skip(f, 126) \in Frames /\ Skip(f, 126).packet = f.packet + 126
    BY SkipIs
  <2> DEFINE g == Prepend(Skip(f, 126), 60)
  <2>3. g \in Frames /\ g.packet = Skip(f, 126).packet - 60
    <3>1. Prepended(g, Skip(f, 126), 60)
      BY <2>2, PrependIs
    <3> QED BY <3>1 DEF Prepended
  <2> HIDE DEF g
  <2>4. Prepend(g, 16) \in Frames /\ Prepend(g, 16).packet = g.packet - 16
    <3>1. Prepended(Prepend(g, 16), g, 16)
      BY <2>3, PrependIs
    <3> QED BY <3>1 DEF Prepended
  <2> QED BY <1>0, <1>2, <2>1, <2>2, <2>3, <2>4 DEF g
<1>3. CASE kind = "cookie_echo"
  <2>1. BuildChunk(f, kind) = Prepend(Skip(f, 46 + 4 + 4 + 56), 56)
    BY <1>3 DEF BuildChunk, BuildCookieEcho, CookieEchoHdrRaw
  <2>2. Skip(f, 110) \in Frames /\ Skip(f, 110).packet = f.packet + 110
    BY SkipIs
  <2>3. Prepend(Skip(f, 110), 56) \in Frames
        /\ Prepend(Skip(f, 110), 56).packet = Skip(f, 110).packet - 56
    <3>1. Prepended(Prepend(Skip(f, 110), 56), Skip(f, 110), 56)
      BY <2>2, PrependIs
    <3> QED BY <3>1 DEF Prepended
  <2> QED BY <1>0, <1>3, <2>1, <2>2, <2>3
<1>4. CASE kind = "cookie_ack"
  <2>1. BuildChunk(f, kind) = Skip(f, 50)
    BY <1>4 DEF BuildChunk, BuildCookieAck
  <2>2. Skip(f, 50) \in Frames /\ Skip(f, 50).packet = f.packet + 50
    BY SkipIs
  <2> QED BY <1>0, <1>4, <2>1, <2>2
<1> QED BY <1>1, <1>2, <1>3, <1>4 DEF Kinds

\* A raw packet: its checksums are right if plen does not wrap among its
\* headers, and only then.  The frame is back where it was but for the header
\* that a COOKIE ECHO makes too much room for.
LEMMA RawIs ==
  ASSUME NEW f \in Frames, NEW kind \in Kinds, NEW id \in Word, NEW dest \in Word \X Word,
         NEW body \in Nat
  PROVE  LET r == Raw(f, kind, id, dest, body)
         IN  /\ r.frame \in Frames
             /\ r.frame.packet = f.packet + (IF kind = "cookie_echo" THEN FldSize ELSE 0)
             /\ r.packet \in Packets /\ r.packet.by = "raw" /\ r.packet.kind = kind
             /\ r.packet.ip.id = id /\ r.packet.body = body
             /\ ChecksumsOk(r.packet) <=> RawFits(f, kind)
<1> USE DEF HdrSize, FldSize, MacSize, IpSize, CmnSize
<1> DEFINE chunk == BuildChunk(f, kind)
           fh  == Prepend(chunk, 4)
           cmn == Prepend(fh, 12)
           iph == Prepend(cmn, 20)
           mac == Prepend(iph, 14)
           fld == FldLen(chunk)
           ip0 == Ip(id, iph.plen, dest, 0)
           ip  == Ip(id, iph.plen, dest, FullCheck(ip0))
           d   == Datagram("raw", kind, ip, fld, body, cmn.plen, mac.plen)
<1>1. /\ chunk \in Frames
      /\ chunk.packet = f.packet + 50 + (IF kind = "cookie_echo" THEN 4 ELSE 0)
  BY BuildChunkIs DEF Frames
<1>2. Raw(f, kind, id, dest, body) = [frame |-> mac, packet |-> d]
  <2>1. IpRaw(cmn, id, dest) = ip
    BY DEF IpRaw, Ip, Prepend
  <2> QED BY <2>1 DEF Raw, CmnHdrRaw, FldHdrRaw, MacRaw
<1>3. RawFits(f, kind) <=> chunk.plen + 50 < W
  BY <1>1, WordIs DEF RawFits, Frames
<1>4. fld = fh.plen
  BY DEF FldLen, Prepend
<1> HIDE DEF chunk, fld
<1>5. /\ fh \in Frames /\ fh.packet = chunk.packet - 4
      /\ chunk.plen \in Nat /\ chunk.plen < W /\ fh.plen \in Nat /\ fh.plen < W
      /\ chunk.plen + 4 < W => fh.plen = chunk.plen + 4
      /\ chunk.plen + 4 >= W => fh.plen = chunk.plen + 4 - W
  <2>1. Prepended(fh, chunk, 4)
    BY <1>1, PrependIs
  <2> QED BY <2>1 DEF Prepended
<1> HIDE DEF fh
<1>6. /\ cmn \in Frames /\ cmn.packet = fh.packet - 12
      /\ cmn.plen \in Nat /\ cmn.plen < W
      /\ fh.plen + 12 < W => cmn.plen = fh.plen + 12
      /\ fh.plen + 12 >= W => cmn.plen = fh.plen + 12 - W
  <2>1. Prepended(cmn, fh, 12)
    BY <1>5, PrependIs
  <2> QED BY <2>1 DEF Prepended
<1> HIDE DEF cmn
<1>7. /\ iph \in Frames /\ iph.packet = cmn.packet - 20
      /\ iph.plen \in Nat /\ iph.plen < W
      /\ cmn.plen + 20 < W => iph.plen = cmn.plen + 20
      /\ cmn.plen + 20 >= W => iph.plen = cmn.plen + 20 - W
  <2>1. Prepended(iph, cmn, 20)
    BY <1>6, PrependIs
  <2> QED BY <2>1 DEF Prepended
<1> HIDE DEF iph
<1>8. /\ mac \in Frames /\ mac.packet = iph.packet - 14
      /\ mac.plen \in Nat /\ mac.plen < W
      /\ iph.plen + 14 < W => mac.plen = iph.plen + 14
      /\ iph.plen + 14 >= W => mac.plen = iph.plen + 14 - W
  <2>1. Prepended(mac, iph, 14)
    BY <1>7, PrependIs
  <2> QED BY <2>1 DEF Prepended
<1> HIDE DEF mac
<1>9. /\ ip \in Headers /\ ip.id = id /\ ip.len = iph.plen /\ ip.check = FullCheck(ip)
  <2>1. 0 \in Word /\ iph.plen \in Word
    <3>1. 0 < W
      BY SMT DEF W
    <3> QED BY <1>7, <3>1, WordIs
  <2>2. ip0 \in Headers
    BY <2>1, HeaderIs DEF HasFields
  <2>3. FullCheck(ip0) \in Word
    BY <2>2, FullCheckIs, WordIs
  <2>4. FullCheck(ip) = FullCheck(ip0)
    BY FullCheckOf
  <2> QED BY <2>1, <2>3, <2>4, HeaderIs DEF HasFields
<1> HIDE DEF ip
<1>10. /\ d \in Packets /\ d.by = "raw" /\ d.kind = kind /\ d.ip = ip /\ d.body = body
       /\ ChecksumsOk(d) <=> mac.plen >= 46 /\ iph.plen >= 36 /\ cmn.plen = 12 + fh.plen
  <2>1. fld \in Word /\ "raw" \in Builders /\ kind \in Kinds \union {"data"}
    BY <1>4, <1>5, WordIs DEF Builders
  <2>2. /\ d \in Packets /\ d.by = "raw" /\ d.kind = kind /\ d.ip = ip /\ d.body = body
        /\ ChecksumsOk(d) <=> /\ mac.plen >= HdrSize /\ ip.check = FullCheck(ip)
                              /\ ip.len >= 36 /\ cmn.plen = 12 + fld
    <3> HIDE DEF HdrSize, FldSize, MacSize, IpSize, CmnSize
    <3>1. cmn.plen \in Nat /\ mac.plen \in Nat
      BY <1>6, <1>8
    <3>2. Describes(d, "raw", kind, ip, fld, body, cmn.plen, mac.plen)
      BY <1>9, <2>1, <3>1, DatagramIs
    <3> QED BY <3>2 DEF Describes
  <2> QED BY <1>4, <1>9, <2>2
<1> HIDE DEF d
<1>11. mac.plen >= 46 /\ iph.plen >= 36 /\ cmn.plen = 12 + fh.plen <=> chunk.plen + 50 < W
  BY SMT, <1>5, <1>6, <1>7, <1>8 DEF W
<1>12. mac.packet = f.packet + (IF kind = "cookie_echo" THEN 4 ELSE 0)
  <2>1. f.packet \in Int /\ chunk.packet \in Int
    BY <1>1 DEF Frames
  <2> QED BY <1>1, <1>5, <1>6, <1>7, <1>8, <2>1
<1> QED BY <1>2, <1>3, <1>8, <1>9, <1>10, <1>11, <1>12

\* A header with another length and checksum.
LEMMA HeaderExcept ==
  ASSUME NEW p \in Headers, NEW l, NEW v, NEW n
  PROVE  /\ n = [p EXCEPT !.len = l, !.check = v] => n = Ip(p.id, l, p.dest, v)
         /\ n = [p EXCEPT !.check = v] => n = Ip(p.id, p.len, p.dest, v)
<1>1. p = [id |-> p.id, len |-> p.len, dest |-> p.dest, check |-> p.check]
  BY DEF Headers
<1> DEFINE a == p.id
           b == p.len
           c == p.dest
           d == p.check
<1> HIDE DEF a, b, c, d
<1>2. p = [id |-> a, len |-> b, dest |-> c, check |-> d]
  BY <1>1 DEF a, b, c, d
<1>3. [p EXCEPT !.len = l, !.check = v] = [id |-> a, len |-> l, dest |-> c, check |-> v]
  <2>1. [p EXCEPT !.len = l, !.check = v] = [[p EXCEPT !.len = l] EXCEPT !.check = v]
    OBVIOUS
  <2>2. [p EXCEPT !.len = l] = [id |-> a, len |-> l, dest |-> c, check |-> d]
    BY <1>2
  <2> DEFINE q == [p EXCEPT !.len = l]
  <2> HIDE DEF q
  <2>3. [q EXCEPT !.check = v] = [id |-> a, len |-> l, dest |-> c, check |-> v]
    <3>1. q = [id |-> a, len |-> l, dest |-> c, check |-> d]
      BY <2>2 DEF q
    <3> QED BY <3>1
  <2> QED BY <2>1, <2>3 DEF q
<1>4. [p EXCEPT !.check = v] = [id |-> a, len |-> b, dest |-> c, check |-> v]
  BY <1>2
<1> QED BY <1>3, <1>4 DEF Ip, a, b, c

\* The header of a prefilled packet.
LEMMA PrefillIs ==
  ASSUME NEW id \in Word, NEW dest \in Word \X Word
  PROVE  LET p == Prefill(id, dest)
         IN  /\ p \in Headers /\ p.id = id /\ p.len = 0 /\ p.dest = dest
             /\ p.check = FullCheck(p) /\ HeaderSum(p) = id + dest[1] + dest[2]
<1> DEFINE ip0 == Ip(id, 0, dest, 0)
           p   == Ip(id, 0, dest, FullCheck(ip0))
<1>1. Prefill(id, dest) = p
  BY DEF Prefill, Ip
<1>2. 0 \in Word
  <2>1. 0 < W
    BY SMT DEF W
  <2> QED BY <2>1, WordIs
<1>3. ip0 \in Headers
  BY <1>2, HeaderIs DEF HasFields
<1>4. FullCheck(ip0) \in Word
  BY <1>3, FullCheckIs, WordIs
<1>5. FullCheck(p) = FullCheck(ip0)
  BY FullCheckOf
<1>6. /\ p \in Headers /\ p.id = id /\ p.len = 0 /\ p.dest = dest /\ p.check = FullCheck(ip0)
      /\ HeaderSum(p) = id + Htons(0) + dest[1] + dest[2]
  BY <1>2, <1>4, HeaderIs DEF HasFields
<1>7. Htons(0) = 0
  BY DEF Htons
<1> HIDE DEF p
<1>8. HeaderSum(p) = id + dest[1] + dest[2]
  <2>1. id \in Nat /\ dest[1] \in Nat /\ dest[2] \in Nat
    BY WordIs
  <2> QED BY <1>6, <1>7, <2>1
<1> QED BY <1>1, <1>5, <1>6, <1>8

\* A header p with another length and checksum
Updated(n, p, l, v) == n = [p EXCEPT !.len = l, !.check = v]

\* Its fields.
LEMMA UpdatedIs ==
  ASSUME NEW p \in Headers, NEW l, NEW v, NEW n, Updated(n, p, l, v)
  PROVE  n = Ip(p.id, l, p.dest, v)
BY HeaderExcept DEF Updated

\* A packet of build_prefilled_sctp_init_hdr passes unless the length has to
\* borrow from the checksum.
LEMMA PrefilledInitIs ==
  ASSUME NEW id \in Word, id > 0, NEW dest \in Word \X Word, NEW body \in Nat
  PROVE  LET d == PrefilledInit(id, dest, body)
         IN  /\ d \in Packets /\ d.by = "prefilled" /\ d.ip.id = id /\ d.body = body
             /\ ChecksumsOk(d) <=> Htons(d.ip.len) <= Prefill(id, dest).check
<1> DEFINE p == Prefill(id, dest)
           L == Htons(52)
           c == p.check
           h == Ip(id, 52, dest, Adjust(c, 0, L))
           d == Datagram("prefilled", "init", h, 20, body, 32, 66)
<1>1. /\ p \in Headers /\ p.id = id /\ p.len = 0 /\ p.dest = dest
      /\ p.check = FullCheck(p) /\ HeaderSum(p) = id + dest[1] + dest[2]
  BY PrefillIs
<1>2. PrefilledInit(id, dest, body) = d
  <2> DEFINE n == [p EXCEPT !.len = 52, !.check = Adjust(@, 0, Htons(52))]
  <2>1. n = Ip(p.id, 52, p.dest, Adjust(p.check, 0, Htons(52)))
    <3> DEFINE v == Adjust(p.check, 0, Htons(52))
               l == 52
    <3> HIDE DEF p
    <3>1. n = [p EXCEPT !.len = l, !.check = v]
      OBVIOUS
    <3> HIDE DEF n, v, l
    <3>2. Updated(n, p, l, v)
      BY <3>1 DEF Updated
    <3>3. n = Ip(p.id, l, p.dest, v)
      BY <1>1, <3>2, UpdatedIs
    <3> QED BY <3>3 DEF v, l
  <2>2. PrefilledInit(id, dest, body) = Datagram("prefilled", "init", n, 20, body, 32, 66)
    BY DEF PrefilledInit, FldSize, InitSize, IpSize, CmnSize, MacSize
  <2> QED BY <1>1, <2>1, <2>2
<1>3. 52 \in Nat /\ 52 < W /\ 52 \in Word /\ 20 \in Word
  <2>1. 52 < W /\ 20 < W
    BY SMT DEF W
  <2> QED BY <2>1, WordIs
<1>4. L \in Nat /\ L < W /\ L > 0
  BY <1>3, HtonsIs
<1>5. c \in Nat /\ c < W /\ HeaderSum(p) \in Nat
  BY <1>1, WordsOf
<1>6. id \in Nat /\ dest[1] \in Nat /\ dest[2] \in Nat
  BY WordIs
<1>7. HeaderSum(p) > 0
  BY <1>1, <1>6
<1>8. c < W - 1 /\ \E m \in Int : HeaderSum(p) + c = 65535 * m
  BY <1>1, <1>5, <1>7, CheckRule
<1> HIDE DEF L, p
<1>9. /\ Adjust(c, 0, L) \in Nat /\ Adjust(c, 0, L) < W
      /\ L <= c => Adjust(c, 0, L) = c - L
      /\ L > c => Adjust(c, 0, L) = c - L + W
  BY <1>4, <1>5, AdjustIs
<1> DEFINE t == Adjust(c, 0, L)
<1>10. t \in Word
  BY <1>9, WordIs
<1>11. /\ h \in Headers /\ h.id = id /\ h.len = 52 /\ h.check = t
       /\ HeaderSum(h) = id + L + dest[1] + dest[2]
  BY <1>3, <1>10, HeaderIs DEF L, HasFields
<1> HIDE DEF h, t
<1>12. HeaderSum(h) > 0 /\ HeaderSum(h) = HeaderSum(p) + L
  BY <1>1, <1>4, <1>6, <1>11
<1>13. t = FullCheck(h) <=> t < W - 1 /\ \E m \in Int : HeaderSum(h) + t = 65535 * m
  BY <1>9, <1>11, <1>12, CheckRule DEF t
<1>14. PICK m \in Int : HeaderSum(p) + c = 65535 * m
  BY <1>8
<1>15. ASSUME L <= c PROVE t < W - 1 /\ \E k \in Int : HeaderSum(h) + t = 65535 * k
  <2>1. t < W - 1
    BY SMT, <1>4, <1>5, <1>8, <1>9, <1>15 DEF t, W
  <2>2. HeaderSum(h) + t = 65535 * m
    BY SMT, <1>4, <1>5, <1>9, <1>12, <1>14, <1>15 DEF t
  <2> QED BY SMT, <2>1, <2>2
<1>16. ASSUME L > c, NEW k \in Int, HeaderSum(h) + t = 65535 * k PROVE FALSE
  <2>1. HeaderSum(h) + t = 65535 * m + 65536
    BY SMT, <1>4, <1>5, <1>9, <1>12, <1>14, <1>16 DEF t, W
  <2> DEFINE n == k - m
  <2>2. n \in Int /\ 65535 * n = 65536
    BY SMT, <1>16, <2>1
  <2> HIDE DEF n
  <2> QED BY SMT, <2>2
<1>17. h.check = FullCheck(h) <=> L <= c
  BY SMT, <1>4, <1>5, <1>11, <1>13, <1>15, <1>16
<1>18. Describes(d, "prefilled", "init", h, 20, body, 32, 66)
  <2>1. "prefilled" \in Builders /\ "init" \in Kinds \union {"data"} /\ 32 \in Nat /\ 66 \in Nat
    BY DEF Builders, Kinds
  <2> QED BY <1>3, <1>11, <2>1, DatagramIs
<1> HIDE DEF d
<1>19. ChecksumsOk(d) <=> L <= c
  <2>1. 66 >= HdrSize /\ 52 >= 36 /\ 32 = 12 + 20
    BY DEF HdrSize, MacSize, IpSize, CmnSize
  <2> QED BY <1>11, <1>17, <1>18, <2>1 DEF Describes
<1> QED BY <1>2, <1>11, <1>18, <1>19 DEF Describes, L, p

\* The packet of eth_send_sctp never passes.
LEMMA XdpInitIs ==
  ASSUME NEW id \in Word, NEW dest \in Word \X Word, NEW body \in Nat
  PROVE  LET d == XdpInit(id, dest, body)
         IN  d \in Packets /\ d.by = "xdp" /\ d.ip.id = id /\ d.body = body /\ ~ChecksumsOk(d)
<1> DEFINE h == Ip(id, 52, dest, 0)
           d == Datagram("xdp", "init", h, 20, body, 0, 66)
           e == [d EXCEPT !.crc = Crc(0, 0, 0)]
<1>1. XdpInit(id, dest, body) = e
  <2> DEFINE n == [XdpHeader(id, dest) EXCEPT !.len = 52]
  <2>1. n = h
    BY DEF XdpHeader, Ip
  <2>2. XdpInit(id, dest, body)
          = [Datagram("xdp", "init", n, 20, body, 0, 66) EXCEPT !.crc = Crc(0, 0, 0)]
    BY DEF XdpInit, FldSize, InitSize, IpSize, CmnSize, MacSize
  <2> QED BY <2>1, <2>2
<1>2. 52 \in Word /\ 20 \in Word /\ 0 \in Word
  <2>1. 52 < W /\ 20 < W /\ 0 < W
    BY SMT DEF W
  <2> QED BY <2>1, WordIs
<1>3. h \in Headers /\ h.id = id
  BY <1>2, HeaderIs DEF HasFields
<1> HIDE DEF h
<1>4. Describes(d, "xdp", "init", h, 20, body, 0, 66)
  <2>1. "xdp" \in Builders /\ "init" \in Kinds \union {"data"} /\ 0 \in Nat /\ 66 \in Nat
    BY DEF Builders, Kinds
  <2> QED BY <1>2, <1>3, <2>1, DatagramIs
<1> HIDE DEF d
<1>5. d \in Packets /\ d.by = "xdp" /\ d.ip = h /\ d.body = body
  BY <1>4 DEF Describes
<1>6. /\ e \in Packets /\ e.by = "xdp" /\ e.ip = h /\ e.body = body /\ e.fld = d.fld
      /\ e.crc = Crc(0, 0, 0)
  BY <1>5 DEF Packets, Crc
<1>7. e.crc # Crc(e.body, e.fld, CmnSize + e.fld)
  <2>1. d.fld \in Word
    BY <1>5 DEF Packets
  <2>2. d.fld \in Nat
    BY <2>1, WordIs
  <2>3. 0 # CmnSize + e.fld
    BY <1>6, <2>2 DEF CmnSize
  <2>4. Crc(0, 0, 0).over = 0
        /\ Crc(e.body, e.fld, CmnSize + e.fld).over = CmnSize + e.fld
    BY DEF Crc
  <2> QED BY <1>6, <2>3, <2>4
<1> HIDE DEF e
<1> QED BY <1>1, <1>3, <1>6, <1>7 DEF ChecksumsOk

\* A data packet passes if its CRC goes over no more than its first chunk and
\* the length in its header is long enough: its IP checksum is always right.
LEMMA DataIs ==
  ASSUME NEW ip \in Headers, NEW fld \in Word, NEW more \in Nat, NEW body \in Nat
  PROVE  LET d == Data(ip, fld, more, body)
         IN  /\ d \in Packets /\ d.by = "data" /\ d.body = body
             /\ d.ip.id = ip.id /\ d.ip.dest = ip.dest
             /\ (ChecksumsOk(d) <=> more = 0 /\ ip.len >= IpSize + CmnSize + FldSize)
<1> DEFINE c == FullCheck(ip)
           h == Ip(ip.id, ip.len, ip.dest, c)
           over == CmnSize + fld + more
           size == HdrSize + fld + more
           d == Datagram("data", "data", h, fld, body, over, size)
<1>1. [ip EXCEPT !.check = TcpChecksum(Words(ip), 0)] = h
  BY TcpChecksumIs, HeaderExcept
<1>2. Data(ip, fld, more, body) = d
  BY <1>1 DEF Data
<1>3. c \in Word /\ ip.id \in Word /\ ip.len \in Word /\ ip.dest \in Word \X Word
  BY FullCheckIs, WordIs DEF Headers
<1>4. FullCheck(h) = c
  <2>1. ip = Ip(ip.id, ip.len, ip.dest, ip.check)
    BY DEF Headers, Ip
  <2> QED BY <2>1, FullCheckOf
<1> HIDE DEF c
<1>5. h \in Headers /\ h.id = ip.id /\ h.dest = ip.dest /\ h.len = ip.len /\ h.check = c
  <2>1. HasFields(h, ip.id, ip.len, ip.dest, c)
    BY <1>3, HeaderIs
  <2> QED BY <2>1 DEF HasFields
<1>6. fld \in Nat /\ over \in Nat /\ size \in Nat /\ size >= HdrSize
  BY WordIs DEF CmnSize, HdrSize, MacSize, IpSize
<1>7. over = 12 + fld <=> more = 0
  BY <1>6 DEF CmnSize
<1>8. IpSize + CmnSize + FldSize = 36
  BY DEF IpSize, CmnSize, FldSize
<1> HIDE DEF h, over, size
<1>9. Describes(d, "data", "data", h, fld, body, over, size)
  <2>1. "data" \in Builders /\ "data" \in Kinds \union {"data"}
    BY DEF Builders
  <2> QED BY <1>5, <1>6, <2>1, DatagramIs
<1> HIDE DEF d
<1> QED BY <1>2, <1>4, <1>5, <1>6, <1>7, <1>8, <1>9 DEF Describes

-----------------------------------------------------------------------------
\* The chunks of the in-place builders.
LEMMA ChunkSizeIs ==
  ASSUME NEW kind \in {"init_ack", "cookie_echo", "cookie_ack"}
  PROVE  ChunkSize(kind) \in Nat /\ ChunkSize(kind) >= 4 /\ ChunkSize(kind) <= 80
<1> USE DEF ChunkSize, FldSize, InitSize, ParamSize, CookieSize
<1>1. CASE kind = "init_ack"
  BY <1>1
<1>2. CASE kind = "cookie_echo"
  BY <1>2
<1>3. CASE kind = "cookie_ack"
  BY <1>3
<1> QED BY <1>1, <1>2, <1>3

\* The packet of an in-place builder: when it passes.
BuiltInPlace(d, ip, kind, dest, body) ==
  /\ d \in Packets /\ d.by = "in_place" /\ d.body = body /\ d.ip \in Headers
  /\ d.ip.id = ip.id /\ d.ip.dest = StoreDest(ip, kind, dest)
  /\ d.ip.check = TakeOff(ip.check, Htons(d.ip.len), Off(kind, dest))
  /\ ChecksumsOk(d) <=> d.ip.check = FullCheck(d.ip)

\* The in-place builders build such packets.
LEMMA InPlaceIs ==
  ASSUME NEW ip \in Headers, NEW kind \in {"init_ack", "cookie_echo", "cookie_ack"},
         NEW dest \in Word \X Word, NEW body \in Nat
  PROVE  BuiltInPlace(InPlace(ip, kind, dest, body), ip, kind, dest, body)
<1> DEFINE fld == ChunkSize(kind)
           len == 32 + fld
           st  == StoreDest(ip, kind, dest)
           off == Off(kind, dest)
           t   == TakeOff(ip.check, Htons(len), off)
           h   == Ip(ip.id, len, st, t)
           over == 12 + fld
           size == 14 + len
           d   == Datagram("in_place", kind, h, fld, body, over, size)
<1>1. fld \in Nat /\ fld >= 4 /\ fld <= 80
  BY ChunkSizeIs
<1>2. InPlace(ip, kind, dest, body) = d
  <2>1. IpSize + CmnSize + fld = len /\ CmnSize + fld = over /\ MacSize + len = size
    BY <1>1 DEF IpSize, CmnSize, MacSize
  <2> QED BY <2>1 DEF InPlace
<1> HIDE DEF fld
<1>3. len \in Nat /\ len < W /\ fld < W /\ len >= 36
  BY SMT, <1>1 DEF W
<1>4. len \in Word /\ fld \in Word
  BY <1>1, <1>3, WordIs
<1>5. over \in Nat /\ size \in Nat /\ size >= HdrSize
  BY <1>1 DEF HdrSize, MacSize, IpSize, CmnSize
<1> HIDE DEF len
<1>6. st \in Word \X Word /\ ip.id \in Word
  BY DEF StoreDest, Headers
<1>7. 0 \in Word
  <2>1. 0 < W
    BY SMT DEF W
  <2> QED BY <2>1, WordIs
<1>8. off \in Word \X Word
  BY <1>7 DEF Off
<1>9. t \in Word
  <2>1. Htons(len) \in Nat /\ Htons(len) < W /\ ip.check \in Nat /\ ip.check < W
    BY <1>3, HtonsIs, WordsOf
  <2>2. off = <<off[1], off[2]>> /\ off[1] \in Word /\ off[2] \in Word
    BY <1>8
  <2>3. off[1] \in Nat /\ off[1] < W /\ off[2] \in Nat /\ off[2] < W
    BY <2>2, WordIs
  <2> HIDE DEF off
  <2>4. TakesOff(TakeOff(ip.check, Htons(len), <<off[1], off[2]>>),
                 ip.check, Htons(len), off[1], off[2],
                 WrapError(ip.check, Htons(len), <<off[1], off[2]>>))
    BY <2>1, <2>3, TakeOffIs
  <2>5. t \in Nat /\ t < W
    BY <2>2, <2>4 DEF TakesOff
  <2> QED BY <2>5, WordIs
<1> HIDE DEF st, off, t
<1>10. h \in Headers /\ h.id = ip.id /\ h.len = len /\ h.dest = st /\ h.check = t
  <2>1. HasFields(h, ip.id, len, st, t)
    BY <1>4, <1>6, <1>9, HeaderIs
  <2> QED BY <2>1 DEF HasFields
<1> HIDE DEF h, over, size
<1>11. Describes(d, "in_place", kind, h, fld, body, over, size)
  <2>1. "in_place" \in Builders /\ kind \in Kinds \union {"data"}
    BY DEF Builders, Kinds
  <2> QED BY <1>4, <1>5, <1>10, <2>1, DatagramIs
<1> HIDE DEF d
<1>12. ChecksumsOk(d) <=> h.check = FullCheck(h)
  <2>1. over = 12 + fld
    BY DEF over
  <2> QED BY <1>3, <1>5, <1>10, <1>11, <2>1 DEF Describes
<1> QED BY <1>2, <1>10, <1>11, <1>12 DEF BuiltInPlace, Describes, t, st, off

\* Equal but for a multiple of 65535.
LEMMA AlikeIff ==
  ASSUME NEW x \in Int, NEW y \in Int
  PROVE  Alike(x, y) <=> \E m \in Int : x = y + 65535 * m
<1>1. W - 1 = 65535
  BY SMT DEF W
<1> DEFINE qx == x \div 65535
           qy == y \div 65535
           rx == x % 65535
           ry == y % 65535
<1>2. /\ qx \in Int /\ rx \in Nat /\ rx < 65535 /\ x = 65535 * qx + rx
      /\ qy \in Int /\ ry \in Nat /\ ry < 65535 /\ y = 65535 * qy + ry
  BY SMT
<1>3. Alike(x, y) <=> rx = ry
  BY <1>1 DEF Alike
<1> HIDE DEF qx, qy, rx, ry
<1>4. ASSUME rx = ry PROVE \E m \in Int : x = y + 65535 * m
  <2> DEFINE m == qx - qy
  <2>1. m \in Int /\ x = y + 65535 * m
    BY SMT, <1>2, <1>4
  <2> HIDE DEF m
  <2> QED BY <2>1
<1>5. ASSUME NEW m \in Int, x = y + 65535 * m PROVE rx = ry
  <2> DEFINE n == m + qy - qx
  <2>1. n \in Int /\ rx - ry = 65535 * n
    BY SMT, <1>2, <1>5
  <2> HIDE DEF n
  <2>2. n = 0
    BY SMT, <1>2, <2>1
  <2> QED BY SMT, <1>2, <2>1, <2>2
<1> QED BY <1>3, <1>4, <1>5

\* The checksum in a header is the template's, but for what a subtraction of
\* len and off is off by.
FromTemplate(check, id, tdest, len, off) ==
  /\ Alike(check, Prefill(id, tdest).check + WrapError(check, len, off))
  /\ TakeOff(check, len, off) # W - 1

\* A handshake packet built in any buffer passes the checks of recv_sctp_packet
\* exactly if the checksum it finds there is the template's, but for the error
\* of the subtraction: the words it adds are taken off, and a server's template
\* holds an address of ones, which count for nothing.
THEOREM InPlaceExact ==
  ASSUME NEW ip \in Headers, ip.id > 0, NEW tdest \in Word \X Word,
         NEW kind \in {"init_ack", "cookie_echo", "cookie_ack"},
         NEW dest \in Word \X Word, NEW body \in Nat,
         \/ tdest = <<W - 1, W - 1>> /\ kind # "cookie_echo"
         \/ ip.dest = tdest /\ kind = "cookie_echo"
  PROVE  ChecksumsOk(InPlace(ip, kind, dest, body))
         <=> FromTemplate(ip.check, ip.id, tdest,
                          Htons(InPlace(ip, kind, dest, body).ip.len), Off(kind, dest))
<1> DEFINE id == ip.id
           p == Prefill(id, tdest)
           v == p.check
           d == InPlace(ip, kind, dest, body)
           h == d.ip
           c == ip.check
           L == Htons(h.len)
           off == Off(kind, dest)
           t == h.check
           e == WrapError(c, L, off)
<1>1. /\ p \in Headers /\ p.id = id /\ p.check = FullCheck(p)
      /\ HeaderSum(p) = id + tdest[1] + tdest[2]
  <2>1. id \in Word
    BY DEF Headers
  <2> QED BY <2>1, PrefillIs
<1>2. /\ h \in Headers /\ h.id = id /\ h.dest = StoreDest(ip, kind, dest)
      /\ t = TakeOff(c, L, off) /\ (ChecksumsOk(d) <=> t = FullCheck(h))
  <2>1. BuiltInPlace(d, ip, kind, dest, body)
    BY InPlaceIs
  <2> HIDE DEF d
  <2> QED BY <2>1 DEF BuiltInPlace
<1>3. FromTemplate(c, id, tdest, L, off) <=> Alike(c, v + e) /\ t # W - 1
  BY <1>2 DEF FromTemplate
<1>4. /\ id \in Nat /\ id > 0 /\ tdest[1] \in Nat /\ tdest[2] \in Nat
      /\ dest[1] \in Nat /\ dest[2] \in Nat
  BY WordIs DEF Headers
<1> SUFFICES t = FullCheck(h) <=> Alike(c, v + e) /\ t # W - 1
  BY <1>2, <1>3
<1> HIDE DEF p, d, off
<1>5. /\ c \in Nat /\ c < W /\ L \in Nat /\ L < W /\ t \in Nat /\ t < W
      /\ v \in Nat /\ v < W
  BY <1>1, <1>2, WordsOf
<1>6. off \in Word \X Word
  <2>1. 0 \in Word
    <3>1. 0 < W
      BY SMT DEF W
    <3> QED BY <3>1, WordIs
  <2> QED BY <2>1 DEF Off, off
<1>7. /\ off = <<off[1], off[2]>>
      /\ off[1] \in Nat /\ off[1] < W /\ off[2] \in Nat /\ off[2] < W
  BY <1>6, WordIs
<1>8. e \in Int /\ \E g \in Int : t + L + off[1] + off[2] = c + 65535 * g - e
  <2> DEFINE o1 == off[1]
             o2 == off[2]
  <2>1. t = TakeOff(c, L, <<o1, o2>>) /\ e = WrapError(c, L, <<o1, o2>>)
    BY <1>2, <1>7
  <2>2. o1 \in Nat /\ o1 < W /\ o2 \in Nat /\ o2 < W
    BY <1>7
  <2> HIDE DEF o1, o2, c, L, t, e
  <2>3. TakesOff(t, c, L, o1, o2, e)
    BY <1>5, <2>1, <2>2, TakeOffIs
  <2>4. e \in Int /\ \E g \in Int : t + L + o1 + o2 = c + 65535 * g - e
    BY <2>3 DEF TakesOff
  <2> QED BY <2>4 DEF o1, o2
<1>9. PICK g \in Int : t + L + off[1] + off[2] = c + 65535 * g - e
  BY <1>8
<1>10. HeaderSum(p) > 0 /\ HeaderSum(h) > 0 /\ HeaderSum(p) \in Nat /\ HeaderSum(h) \in Nat
       /\ HeaderSum(h) = id + L + h.dest[1] + h.dest[2]
  BY SMT, <1>1, <1>2, <1>4, WordsOf DEF HeaderSum
<1>11. \E m \in Int : HeaderSum(p) + v = 65535 * m
  BY <1>1, <1>5, <1>10, CheckRule
<1>12. PICK m \in Int : HeaderSum(p) + v = 65535 * m
  BY <1>11
<1> HIDE DEF id, v, c, L, t, h, e
<1> DEFINE Whole  == \E k \in Int : HeaderSum(h) + t = 65535 * k
           Differ == \E k \in Int : HeaderSum(h) + t = 65535 * k + c - v - e
           Close == \E n \in Int : c = (v + e) + 65535 * n
<1> HIDE DEF Whole, Differ, Close
<1>13. Differ
  <2>1. CASE kind = "cookie_echo"
    <3>1. off[1] = 0 /\ off[2] = 0 /\ h.dest = tdest
      BY <1>2, <2>1 DEF Off, off, StoreDest
    <3> DEFINE k == m + g
    <3>2. k \in Int /\ HeaderSum(h) + t = 65535 * k + c - v - e
      BY SMT, <1>1, <1>4, <1>5, <1>8, <1>9, <1>10, <1>12, <3>1
    <3> HIDE DEF k
    <3> QED BY SMT, <3>2 DEF Differ
  <2>2. CASE kind # "cookie_echo"
    <3>1. off = dest /\ h.dest = dest /\ tdest = <<W - 1, W - 1>>
      BY <1>2, <2>2 DEF Off, off, StoreDest
    <3>2. tdest[1] = 65535 /\ tdest[2] = 65535
      BY SMT, <3>1 DEF W
    <3> DEFINE k == m + g - 2
    <3>3. k \in Int /\ HeaderSum(h) + t = 65535 * k + c - v - e
      BY SMT, <1>1, <1>4, <1>5, <1>8, <1>9, <1>10, <1>12, <3>1, <3>2
    <3> HIDE DEF k
    <3> QED BY SMT, <3>3 DEF Differ
  <2> QED BY <2>1, <2>2
<1>14. t = FullCheck(h) <=> t < W - 1 /\ Whole
  BY <1>2, <1>5, <1>10, CheckRule DEF h, t, Whole
<1>15. Whole <=> Close
  <2> DEFINE sum == HeaderSum(h) + t
  <2>1. PICK k \in Int : sum = 65535 * k + c - v - e
    BY <1>13 DEF Differ
  <2>2. sum \in Int
    BY SMT, <1>5, <1>10
  <2>3. Whole <=> \E q \in Int : sum = 65535 * q
    BY DEF Whole
  <2> HIDE DEF sum
  <2>4. ASSUME NEW q \in Int, sum = 65535 * q
        PROVE  Close
    <3> DEFINE n == q - k
    <3>1. n \in Int /\ c = (v + e) + 65535 * n
      BY SMT, <1>5, <1>8, <2>1, <2>2, <2>4
    <3> HIDE DEF n
    <3> QED BY SMT, <3>1 DEF Close
  <2>5. ASSUME NEW n \in Int, c = (v + e) + 65535 * n
        PROVE  \E q \in Int : sum = 65535 * q
    <3> DEFINE z == k + n
    <3>1. z \in Int /\ sum = 65535 * z
      BY SMT, <1>5, <1>8, <2>1, <2>2, <2>5
    <3> HIDE DEF z
    <3> QED BY SMT, <3>1
  <2>6. ASSUME Whole PROVE Close
    <3>1. PICK q \in Int : sum = 65535 * q
      BY <2>3, <2>6
    <3> QED BY <2>4, <3>1
  <2>7. ASSUME Close PROVE Whole
    <3>1. PICK n \in Int : c = (v + e) + 65535 * n
      BY <2>7 DEF Close
    <3> QED BY <2>3, <2>5, <3>1
  <2> QED BY <2>6, <2>7
<1>16. Alike(c, v + e) <=> Close
  <2> DEFINE y == v + e
  <2>1. c \in Int /\ y \in Int
    BY SMT, <1>5, <1>8
  <2> HIDE DEF y
  <2>2. Alike(c, y) <=> \E n \in Int : c = y + 65535 * n
    BY <2>1, AlikeIff
  <2> QED BY <2>2 DEF y, Close
<1>17. t < W - 1 <=> t # W - 1
  BY SMT, <1>5 DEF W
<1> QED BY <1>14, <1>15, <1>16, <1>17

\* The first handshake packet built in a prefilled buffer passes the checks of
\* recv_sctp_packet exactly if the wraps of the subtraction cancel: an error of
\* one or two is never made good.
THEOREM FirstInPlaceExact ==
  ASSUME NEW id \in Word, id > 0, NEW tdest \in Word \X Word,
         NEW kind \in {"init_ack", "cookie_echo", "cookie_ack"},
         NEW dest \in Word \X Word, NEW body \in Nat,
         tdest = <<W - 1, W - 1>> \/ kind = "cookie_echo"
  PROVE  LET p   == Prefill(id, tdest)
             L   == Htons(InPlace(p, kind, dest, body).ip.len)
             off == Off(kind, dest)
         IN  ChecksumsOk(InPlace(p, kind, dest, body))
             <=> WrapError(p.check, L, off) = 0 /\ TakeOff(p.check, L, off) # W - 1
<1> DEFINE p   == Prefill(id, tdest)
           L   == Htons(InPlace(p, kind, dest, body).ip.len)
           off == Off(kind, dest)
           c   == p.check
           e   == WrapError(c, L, off)
           t   == TakeOff(c, L, off)
<1>1. p \in Headers /\ p.id = id /\ p.dest = tdest
  BY PrefillIs
<1>2. ChecksumsOk(InPlace(p, kind, dest, body)) <=> FromTemplate(c, id, tdest, L, off)
  <2> DEFINE q == p
  <2>1. q \in Headers /\ q.id = id /\ q.dest = tdest /\ q.id > 0
    BY <1>1
  <2> HIDE DEF q
  <2>2. ChecksumsOk(InPlace(q, kind, dest, body))
        <=> FromTemplate(q.check, q.id, tdest,
                         Htons(InPlace(q, kind, dest, body).ip.len), off)
    BY <2>1, InPlaceExact
  <2> QED BY <2>1, <2>2 DEF q
<1>3. FromTemplate(c, id, tdest, L, off) <=> Alike(c, c + e) /\ t # W - 1
  BY DEF FromTemplate
<1>4. c \in Nat /\ c < W /\ L \in Nat /\ L < W
  <2>1. BuiltInPlace(InPlace(p, kind, dest, body), p, kind, dest, body)
    <3> HIDE DEF p
    <3> QED BY <1>1, InPlaceIs
  <2> DEFINE h == InPlace(p, kind, dest, body).ip
  <2>2. h \in Headers
    BY <2>1 DEF BuiltInPlace
  <2> HIDE DEF p, h
  <2>3. Htons(h.len) \in Nat /\ Htons(h.len) < W
    BY <2>2, WordsOf
  <2> QED BY <1>1, <2>3, WordsOf DEF h
<1>5. off \in Word \X Word
  <2>1. 0 \in Word
    <3>1. 0 < W
      BY SMT DEF W
    <3> QED BY <3>1, WordIs
  <2> QED BY <2>1 DEF Off
<1> HIDE DEF p, L, off, c
<1>6. e \in Int /\ e >= -2 /\ e <= 1
  <2> DEFINE o1 == off[1]
             o2 == off[2]
  <2>1. off = <<o1, o2>> /\ o1 \in Nat /\ o1 < W /\ o2 \in Nat /\ o2 < W
    BY <1>5, WordIs
  <2> HIDE DEF o1, o2
  <2>2. TakesOff(TakeOff(c, L, <<o1, o2>>), c, L, o1, o2, WrapError(c, L, <<o1, o2>>))
    BY <1>4, <2>1, TakeOffIs
  <2> QED BY <2>1, <2>2 DEF TakesOff
<1> HIDE DEF e, t
<1>7. Alike(c, c + e) <=> e = 0
  <2> DEFINE y == c + e
  <2>1. c \in Int /\ y \in Int
    BY SMT, <1>4, <1>6
  <2> HIDE DEF y
  <2>2. Alike(c, y) <=> \E m \in Int : c = y + 65535 * m
    BY <2>1, AlikeIff
  <2>3. ASSUME NEW m \in Int, c = y + 65535 * m PROVE e = 0
    <3> DEFINE n == 0 - m
    <3>1. n \in Int /\ e = 65535 * n
      BY SMT, <1>4, <1>6, <2>3 DEF y
    <3> HIDE DEF n
    <3> QED BY SMT, <1>6, <3>1
  <2>4. ASSUME e = 0 PROVE c = y + 65535 * 0
    BY SMT, <1>4, <2>4 DEF y
  <2>5. 0 \in Int
    OBVIOUS
  <2> QED BY <2>2, <2>3, <2>4, <2>5 DEF y
<1> QED BY <1>2, <1>3, <1>7 DEF p, L, off, c, e, t

-----------------------------------------------------------------------------
(***************************************************************************)
(* Damage                                                                  *)
(***************************************************************************)
\* Equal but for a multiple of 65535, the way it is used here.
LEMMA AlikeIs ==
  ASSUME NEW x \in Nat, NEW y \in Nat, NEW m \in Int, x = y + 65535 * m
  PROVE  Alike(x, y)
<1>1. x \in Int /\ y \in Int
  OBVIOUS
<1> QED BY <1>1, AlikeIff

\* Sums with the same checksum differ by a multiple of 65535.
LEMMA SameCheck ==
  ASSUME NEW p \in Headers, NEW q \in Headers, FullCheck(p) = FullCheck(q)
  PROVE  \E m \in Int : HeaderSum(p) = HeaderSum(q) + 65535 * m
<1> DEFINE r == W - 1 - FullCheck(p)
<1>1. Remainder(HeaderSum(p), r) /\ Remainder(HeaderSum(q), r)
  BY FullCheckIs
<1> HIDE DEF r
<1>2. r \in Nat /\ HeaderSum(p) \in Nat /\ HeaderSum(q) \in Nat
  BY <1>1, WordsOf DEF Remainder
<1>3. PICK k \in Nat : HeaderSum(p) = r + 65535 * k
  BY <1>1 DEF Remainder
<1>4. PICK n \in Nat : HeaderSum(q) = r + 65535 * n
  BY <1>1 DEF Remainder
<1> DEFINE m == k - n
<1>5. m \in Int /\ HeaderSum(p) = HeaderSum(q) + 65535 * m
  BY SMT, <1>2, <1>3, <1>4
<1> HIDE DEF m
<1> QED BY SMT, <1>5

\* The checksums of a packet whose fields are known.
LEMMA PassesIs ==
  ASSUME NEW d, ChecksumsOk(d)
  PROVE  /\ d.size >= 46 /\ d.ip.check = FullCheck(d.ip) /\ d.ip.len >= 36
         /\ d.crc.body = d.body /\ d.crc.fld = d.fld
BY DEF ChecksumsOk, Crc, HdrSize, MacSize, IpSize, CmnSize, FldSize

\* What the receiver may not tell from what was sent.
Same(got, was) ==
  /\ Alike(got.ip.id, was.ip.id) /\ Alike(got.ip.dest[2], was.ip.dest[2])
  /\ [got EXCEPT !.ip = was.ip] = was
  /\ got.ip.check = was.ip.check /\ got.ip.len = was.ip.len

\* A packet in which only words of the header differ.
LEMMA OtherHeader ==
  ASSUME NEW was \in Packets, NEW h \in Headers, NEW got,
         got = [was EXCEPT !.ip = h],
         ChecksumsOk(was), ChecksumsOk(got),
         h.check = was.ip.check, h.len = was.ip.len, h.dest[1] = was.ip.dest[1],
         h.id = was.ip.id \/ h.dest[2] = was.ip.dest[2]
  PROVE  Same(got, was)
<1> DEFINE g == was.ip
<1>1. g \in Headers
  BY DEF Packets
<1>2. got.ip = h /\ [got EXCEPT !.ip = g] = was
  BY DEF Packets
<1>3. FullCheck(h) = FullCheck(g)
  BY <1>2, PassesIs
<1> HIDE DEF g
<1>4. PICK m \in Int : HeaderSum(h) = HeaderSum(g) + 65535 * m
  BY <1>1, <1>3, SameCheck
<1>5. /\ h.id \in Nat /\ g.id \in Nat /\ h.dest[2] \in Nat /\ g.dest[2] \in Nat
      /\ g.dest[1] \in Nat /\ Htons(g.len) \in Nat
  BY <1>1, WordsOf
<1> DEFINE l == Htons(g.len)
           d1 == g.dest[1]
           hi == h.id
           gi == g.id
           h2 == h.dest[2]
           g2 == g.dest[2]
<1>6. HeaderSum(h) = hi + l + d1 + h2 /\ HeaderSum(g) = gi + l + d1 + g2
  BY DEF HeaderSum, g
<1>7. hi \in Nat /\ gi \in Nat /\ h2 \in Nat /\ g2 \in Nat /\ l \in Nat /\ d1 \in Nat
  BY <1>5
<1>8. hi = gi \/ h2 = g2
  BY DEF g
<1> HIDE DEF l, d1, hi, gi, h2, g2
<1>9. Alike(hi, gi) /\ Alike(h2, g2)
  <2>1. CASE hi = gi
    <3>1. h2 = g2 + 65535 * m
      BY SMT, <1>4, <1>6, <1>7, <2>1
    <3> QED BY <1>7, <2>1, <3>1, AlikeIs DEF Alike
  <2>2. CASE h2 = g2
    <3>1. hi = gi + 65535 * m
      BY SMT, <1>4, <1>6, <1>7, <2>2
    <3> QED BY <1>7, <2>2, <3>1, AlikeIs DEF Alike
  <2> QED BY <1>8, <2>1, <2>2
<1> QED BY <1>2, <1>9 DEF Same, g, hi, gi, h2, g2

\* Damage in one place of a packet that was right is found, or hits a word of
\* the header that counts for the same.
LEMMA DamageFound ==
  ASSUME NEW was \in Packets, was.body > 0, ChecksumsOk(was),
         NEW got \in {was} \union Damages(was), ChecksumsOk(got)
  PROVE  Same(got, was)
<1> DEFINE g == was.ip
<1>1. /\ g \in Headers /\ g = [id |-> g.id, len |-> g.len, dest |-> g.dest, check |-> g.check]
      /\ g.id \in Word /\ g.len \in Word /\ g.check \in Word
      /\ g.dest \in Word \X Word
  BY DEF Packets, Headers
<1>2. 0 \in Word /\ W - 1 \in Word
  <2>1. 0 < W /\ W - 1 \in Nat /\ W - 1 < W
    BY SMT DEF W
  <2> QED BY <2>1, WordIs
<1>3. CASE got = was
  <2>1. [was EXCEPT !.ip = was.ip] = was
    BY DEF Packets
  <2> QED BY <1>3, <2>1 DEF Same, Alike
<1>4. ASSUME NEW w \in {0, W - 1}, got = [was EXCEPT !.ip.id = w]
      PROVE  Same(got, was)
  <2> DEFINE h == [g EXCEPT !.id = w]
  <2>1. got = [was EXCEPT !.ip = h]
    BY <1>4
  <2>2. h \in Headers /\ h.len = g.len /\ h.dest = g.dest /\ h.check = g.check
    BY <1>1, <1>2 DEF Headers
  <2> HIDE DEF h
  <2> QED BY <2>1, <2>2, OtherHeader
<1>5. ASSUME NEW w \in {0, W - 1}, got = [was EXCEPT !.ip.dest[2] = w]
      PROVE  Same(got, was)
  <2> DEFINE h == [g EXCEPT !.dest[2] = w]
             e == [g.dest EXCEPT ![2] = w]
  <2>1. got = [was EXCEPT !.ip = h] /\ h = [g EXCEPT !.dest = e]
    BY <1>5
  <2>2. e \in Word \X Word /\ e[1] = g.dest[1]
    BY <1>1, <1>2
  <2> HIDE DEF e
  <2>3. h \in Headers /\ h.len = g.len /\ h.id = g.id /\ h.check = g.check /\ h.dest = e
    BY <1>1, <2>1, <2>2 DEF Headers
  <2> HIDE DEF h
  <2> QED BY <2>1, <2>2, <2>3, OtherHeader
<1>6. ASSUME got = [was EXCEPT !.ip.check = (@ + 1) % W] PROVE FALSE
  <2> DEFINE c == (g.check + 1) % W
             h == [g EXCEPT !.check = c]
  <2>1. got = [was EXCEPT !.ip = h]
    BY <1>6
  <2>2. c # g.check
    <3>1. g.check \in Nat /\ g.check < W
      BY <1>1, WordIs
    <3> QED BY SMT, <3>1 DEF W
  <2> HIDE DEF c
  <2>3. h = Ip(g.id, g.len, g.dest, c) /\ g = Ip(g.id, g.len, g.dest, g.check)
    BY <1>1, HeaderExcept DEF Ip
  <2>4. h.check = c
    BY <2>3 DEF Ip
  <2>5. FullCheck(h) = FullCheck(g)
    BY <2>3, FullCheckOf
  <2> HIDE DEF h
  <2>6. got.ip = h
    BY <2>1 DEF Packets
  <2> QED BY <2>2, <2>4, <2>5, <2>6, PassesIs
<1>7. ASSUME got = [was EXCEPT !.ip.len = 0] PROVE FALSE
  <2> DEFINE h == [g EXCEPT !.len = 0]
  <2>1. got = [was EXCEPT !.ip = h]
    BY <1>7
  <2>2. h.len = 0
    BY <1>1
  <2> HIDE DEF h
  <2>3. got.ip.len = 0
    BY <2>1, <2>2 DEF Packets
  <2> QED BY <2>3, PassesIs
<1>8. ASSUME got = [was EXCEPT !.fld = (@ + 1) % W] PROVE FALSE
  <2> DEFINE f == (was.fld + 1) % W
  <2>1. got = [was EXCEPT !.fld = f]
    BY <1>8
  <2>2. f # was.fld
    <3>1. was.fld \in Nat /\ was.fld < W
      BY WordIs DEF Packets
    <3> QED BY SMT, <3>1 DEF W
  <2> HIDE DEF f
  <2>3. got.fld = f /\ got.crc = was.crc
    BY <2>1 DEF Packets
  <2> QED BY <2>2, <2>3, PassesIs
<1>9. ASSUME got = [was EXCEPT !.body = 0] PROVE FALSE
  <2>1. got.body = 0 /\ got.crc = was.crc /\ was.body # 0
    BY <1>9 DEF Packets
  <2> QED BY <2>1, PassesIs
<1>10. ASSUME got = [was EXCEPT !.size = HdrSize - 1] PROVE FALSE
  <2>1. got.size = HdrSize - 1
    BY <1>10 DEF Packets
  <2>2. ~(HdrSize - 1 >= 46)
    BY DEF HdrSize, MacSize, IpSize, CmnSize
  <2> QED BY <2>1, <2>2, PassesIs
<1> QED BY <1>3, <1>4, <1>5, <1>6, <1>7, <1>8, <1>9, <1>10 DEF Damages

-----------------------------------------------------------------------------
(***************************************************************************)
(* The second invariant: what the sender keeps, what was sent, and that    *)
(* what comes along was sent or is damaged                                 *)
(***************************************************************************)
\* A client's buffers keep the destination of their template.
SenderOK ==
  /\ template \in [id : Ids, dest : Dests \union {AnyDest}]
  /\ frame \in Frames
  /\ ring \in Seq(Prefilled) /\ ring # << >>
  /\ header \in [Prefilled -> Headers]
  /\ \A b \in Prefilled : /\ header[b].id = template.id
                          /\ template.dest # AnyDest => header[b].dest = template.dest

\* A packet passes exactly if its builder says so.
Good(d, right) == /\ d \in Packets /\ d.ip.id > 0 /\ d.body > 0
                  /\ ChecksumsOk(d) <=> right

SentOK == \A k \in DOMAIN sent : Good(sent[k].packet, sent[k].right)

\* The COOKIE ECHOs of the raw builders
IsEcho(d) == d.by = "raw" /\ d.kind = "cookie_echo"

\* A packet from among those sent, maybe damaged; one that passed, too.
Genuine(e, list) ==
  e.nth \in DOMAIN list /\ e.packet \in {list[e.nth].packet} \union Damages(list[e.nth].packet)
Passed(e, list) == Genuine(e, list) /\ ChecksumsOk(e.packet)

FlowOK == /\ \A i \in DOMAIN wire : Genuine(wire[i], sent)
          /\ receiver = "loop" =>
               /\ \A i \in DOMAIN rb : Passed(content[rb[i]], sent)
               /\ \A i \in DOMAIN delivered : Passed(delivered[i], sent)
               /\ pc = "push" => Passed(content[buffer], sent)

-----------------------------------------------------------------------------
(***************************************************************************)
(* The builders                                                            *)
(***************************************************************************)
\* What the template holds.
LEMMA TemplateIs ==
  ASSUME SenderOK
  PROVE  /\ template.id \in Word /\ template.id > 0 /\ template.dest \in Word \X Word
         /\ \A dest \in Dests : dest \in Word \X Word
         /\ AnyDest = <<W - 1, W - 1>> /\ AnyDest \notin Dests
<1>1. template.id \in Ids /\ template.dest \in Dests \union {AnyDest}
  BY DEF SenderOK
<1>2. template.id \in 1 .. W - 1
  BY <1>1, IdsAssumption
<1>3. template.id \in Nat /\ template.id < W /\ template.id > 0
  <2>1. W \in Nat
    BY SMT DEF W
  <2> QED BY <1>2, <2>1
<1>4. Dests \subseteq Word \X Word /\ AnyDest = <<W - 1, W - 1>>
  BY DestsAssumption DEF Word
<1>5. W - 1 \in Word
  <2>1. W - 1 \in Nat /\ W - 1 < W
    BY SMT DEF W
  <2> QED BY <2>1, WordIs
<1>6. AnyDest \in Word \X Word
  BY <1>4, <1>5
<1>7. template.dest \in Word \X Word
  BY <1>1, <1>4, <1>6
<1> QED BY <1>3, <1>4, <1>7, WordIs, DestsAssumption

\* What every builder does: a packet of the sender is sent and the frame moves
\* if it is a COOKIE ECHO.
SendsGood ==
  \E d, right : /\ Send(d, right) /\ Good(d, right)
                /\ frame'.packet = frame.packet + (IF IsEcho(d) THEN FldSize ELSE 0)

\* A frame as it was.
LEMMA FrameStays ==
  ASSUME SenderOK, frame' = frame
  PROVE  frame'.packet = frame.packet + 0
BY DEF SenderOK, Frames

\* build_sctp_*_hdr
LEMMA RawGood ==
  ASSUME SenderOK, IsSequence(sent), NEW kind \in Kinds, NEW reset \in BOOLEAN,
         BuildRaw(kind, reset)
  PROVE  SenderOK' /\ SendsGood
<1> DEFINE f == IF reset THEN [frame EXCEPT !.plen = 0] ELSE frame
           id == template.id
           dest == template.dest
           body == Len(sent) + 1
           r == Raw(f, kind, id, dest, body)
           d == r.packet
           right == RawFits(f, kind)
<1>1. /\ frame' = r.frame /\ Send(d, right) /\ UNCHANGED <<ring, header>>
  BY DEF BuildRaw, Body
<1>2. id \in Word /\ id > 0 /\ dest \in Word \X Word
  BY TemplateIs
<1>3. body \in Nat /\ body > 0
  BY DEF IsSequence
<1>4. f \in Frames /\ f.packet = frame.packet
  <2>1. 0 \in Word
    <3>1. 0 < W
      BY SMT DEF W
    <3> QED BY <3>1, WordIs
  <2> QED BY <2>1 DEF SenderOK, Frames
<1> HIDE DEF f, id, dest, body
<1>5. /\ r.frame \in Frames
      /\ r.frame.packet = f.packet + (IF kind = "cookie_echo" THEN FldSize ELSE 0)
      /\ d \in Packets /\ d.by = "raw" /\ d.kind = kind
      /\ d.ip.id = id /\ d.body = body
      /\ ChecksumsOk(d) <=> right
  BY <1>2, <1>3, <1>4, RawIs
<1> HIDE DEF r
<1>6. Good(d, right)
  BY <1>2, <1>3, <1>5 DEF Good
<1>7. frame'.packet = frame.packet + (IF IsEcho(d) THEN FldSize ELSE 0)
  BY <1>1, <1>4, <1>5 DEF IsEcho
<1>8. SendsGood
  BY <1>1, <1>6, <1>7 DEF SendsGood
<1>9. UNCHANGED template
  BY <1>1 DEF Send
<1>10. SenderOK'
  BY <1>1, <1>5, <1>9 DEF SenderOK
<1> QED BY <1>8, <1>10

\* build_prefilled_sctp_init_hdr
LEMMA PrefilledGood ==
  ASSUME SenderOK, IsSequence(sent), BuildPrefilledInit
  PROVE  SenderOK' /\ SendsGood
<1> DEFINE id == template.id
           dest == template.dest
           body == Len(sent) + 1
           d == PrefilledInit(id, dest, body)
           right == Htons(d.ip.len) <= Prefill(id, dest).check
<1>1. Send(d, right) /\ UNCHANGED <<frame, ring, header>>
  BY DEF BuildPrefilledInit, Body, sender
<1>2. id \in Word /\ id > 0 /\ dest \in Word \X Word
  BY TemplateIs
<1>3. body \in Nat /\ body > 0
  BY DEF IsSequence
<1>4. UNCHANGED template
  BY <1>1 DEF Send
<1> HIDE DEF id, dest, body
<1>5. /\ d \in Packets /\ d.by = "prefilled" /\ d.ip.id = id /\ d.body = body
      /\ ChecksumsOk(d) <=> right
  BY <1>2, <1>3, PrefilledInitIs
<1> HIDE DEF d, right
<1>6. Good(d, right)
  BY <1>2, <1>3, <1>5 DEF Good
<1>7. SendsGood
  BY <1>1, <1>5, <1>6, FrameStays DEF SendsGood, IsEcho
<1>8. SenderOK'
  BY <1>1, <1>4 DEF SenderOK
<1> QED BY <1>7, <1>8

\* eth_send_sctp
LEMMA XdpGood ==
  ASSUME SenderOK, IsSequence(sent), SendXdpInit
  PROVE  SenderOK' /\ SendsGood
<1> DEFINE id == template.id
           dest == template.dest
           body == Len(sent) + 1
           d == XdpInit(id, dest, body)
<1>1. Send(d, FALSE) /\ UNCHANGED <<frame, ring, header>>
  BY DEF SendXdpInit, Body, sender
<1>2. id \in Word /\ id > 0 /\ dest \in Word \X Word
  BY TemplateIs
<1>3. body \in Nat /\ body > 0
  BY DEF IsSequence
<1>4. UNCHANGED template
  BY <1>1 DEF Send
<1> HIDE DEF id, dest, body
<1>5. d \in Packets /\ d.by = "xdp" /\ d.ip.id = id /\ d.body = body /\ ~ChecksumsOk(d)
  BY <1>2, <1>3, XdpInitIs
<1> HIDE DEF d
<1>6. Good(d, FALSE)
  BY <1>2, <1>3, <1>5 DEF Good
<1>7. SendsGood
  BY <1>1, <1>5, <1>6, FrameStays DEF SendsGood, IsEcho
<1>8. SenderOK'
  BY <1>1, <1>4 DEF SenderOK
<1> QED BY <1>7, <1>8

\* The buffer at the head of prefilled_ring goes to its end.
LEMMA RingTurns ==
  ASSUME SenderOK
  PROVE  LET b == Head(ring)
         IN  /\ b \in Prefilled /\ header[b] \in Headers /\ header[b].id = template.id
             /\ Append(Tail(ring), b) \in Seq(Prefilled) /\ Append(Tail(ring), b) # << >>
             /\ template.dest # AnyDest => header[b].dest = template.dest
<1>1. Head(ring) \in Prefilled /\ Tail(ring) \in Seq(Prefilled)
  BY DEF SenderOK
<1>2. /\ Append(Tail(ring), Head(ring)) \in Seq(Prefilled)
      /\ Append(Tail(ring), Head(ring)) # << >>
  <2> DEFINE b == Head(ring)
             q == Tail(ring)
  <2> HIDE DEF b, q
  <2>1. b \in Prefilled /\ q \in Seq(Prefilled)
    BY <1>1 DEF b, q
  <2>2. Append(q, b) \in Seq(Prefilled) /\ Len(Append(q, b)) # 0
    BY <2>1
  <2> DEFINE s == Append(q, b)
  <2>3. s # << >>
    <3>1. Len(s) # 0
      BY <2>2
    <3> HIDE DEF s
    <3>2. Len(<< >>) = 0
      OBVIOUS
    <3> QED BY <3>1, <3>2
  <2> QED BY <2>2, <2>3 DEF b, q
<1> QED BY <1>1, <1>2 DEF SenderOK

\* build_prefilled_mac_ip_sctp_*_hdr
LEMMA InPlaceGood ==
  ASSUME SenderOK, IsSequence(sent), NEW kind \in Kinds, NEW dest \in Dests,
         BuildInPlace(kind, dest)
  PROVE  SenderOK' /\ SendsGood
<1> DEFINE id == template.id
           tdest == template.dest
           body == Len(sent) + 1
           b == Head(ring)
           h == header[b]
           d == InPlace(h, kind, dest, body)
           right == FindsTemplateCheck(b, Htons(d.ip.len), Off(kind, dest))
<1>1. /\ header' = [header EXCEPT ![b] = d.ip]
      /\ ring' = Append(Tail(ring), b) /\ Send(d, right) /\ frame' = frame
      /\ \/ tdest = AnyDest /\ kind \in {"init_ack", "cookie_ack"}
         \/ tdest = dest /\ kind = "cookie_echo"
  BY DEF BuildInPlace, Body
<1>2. id \in Word /\ id > 0 /\ tdest \in Word \X Word /\ dest \in Word \X Word
      /\ AnyDest = <<W - 1, W - 1>> /\ AnyDest # dest
  BY TemplateIs
<1>3. body \in Nat /\ body > 0
  BY DEF IsSequence
<1>4. UNCHANGED template
  BY <1>1 DEF Send
<1>5. /\ b \in Prefilled /\ h \in Headers /\ h.id = id
      /\ ring' \in Seq(Prefilled) /\ ring' # << >>
      /\ tdest # AnyDest => h.dest = tdest
  BY <1>1, RingTurns
<1>6. kind \in {"init_ack", "cookie_echo", "cookie_ack"}
  BY <1>1
<1>7. right <=> FromTemplate(h.check, id, tdest, Htons(d.ip.len), Off(kind, dest))
  BY DEF FindsTemplateCheck, FromTemplate
<1> HIDE DEF id, tdest, body, b, h
<1>8. /\ d \in Packets /\ d.by = "in_place" /\ d.body = body /\ d.ip \in Headers
      /\ d.ip.id = h.id /\ d.ip.dest = StoreDest(h, kind, dest)
  <2>1. BuiltInPlace(d, h, kind, dest, body)
    BY <1>2, <1>3, <1>5, <1>6, InPlaceIs
  <2> HIDE DEF d
  <2> QED BY <2>1 DEF BuiltInPlace
<1>9. ChecksumsOk(d) <=> right
  <2>1. \/ tdest = <<W - 1, W - 1>> /\ kind # "cookie_echo"
        \/ h.dest = tdest /\ kind = "cookie_echo"
    BY <1>1, <1>2, <1>5
  <2>2. h.id > 0
    BY <1>2, <1>5
  <2>3. ChecksumsOk(d) <=> FromTemplate(h.check, h.id, tdest, Htons(d.ip.len), Off(kind, dest))
    BY <1>2, <1>3, <1>5, <1>6, <2>1, <2>2, InPlaceExact
  <2> QED BY <1>5, <1>7, <2>3
<1> HIDE DEF d, right
<1>10. Good(d, right)
  BY <1>2, <1>3, <1>5, <1>8, <1>9 DEF Good
<1>11. SendsGood
  BY <1>1, <1>8, <1>10, FrameStays DEF SendsGood, IsEcho
<1>12. tdest # AnyDest => d.ip.dest = tdest
  BY <1>1, <1>5, <1>8 DEF StoreDest
<1>13. SenderOK'
  <2>1. header' \in [Prefilled -> Headers]
    BY <1>1, <1>5, <1>8 DEF SenderOK
  <2>2. ASSUME NEW x \in Prefilled
        PROVE  /\ header'[x].id = template.id
               /\ template.dest # AnyDest => header'[x].dest = template.dest
    <3>1. CASE x = b
      <4>1. header'[x] = d.ip
        BY <1>1, <1>5, <3>1 DEF SenderOK
      <4> QED BY <1>5, <1>8, <1>12, <4>1 DEF id, tdest
    <3>2. CASE x # b
      <4>1. header'[x] = header[x]
        BY <1>1, <1>5, <3>2 DEF SenderOK
      <4> QED BY <4>1 DEF SenderOK
    <3> QED BY <3>1, <3>2
  <2> QED BY <1>1, <1>4, <1>5, <2>1, <2>2 DEF SenderOK
<1> QED BY <1>11, <1>13

\* build_prefilled_mac_ip_sctp_data_hdr
LEMMA DataGood ==
  ASSUME SenderOK, IsSequence(sent), NEW fld \in Word, NEW more \in Nat,
         BuildData(fld, more)
  PROVE  SenderOK' /\ SendsGood
<1> DEFINE id == template.id
           tdest == template.dest
           body == Len(sent) + 1
           b == Head(ring)
           h == header[b]
           d == Data(h, fld, more, body)
           right == more = 0 /\ h.len >= IpSize + CmnSize + FldSize
<1>1. /\ header' = [header EXCEPT ![b] = d.ip]
      /\ ring' = Append(Tail(ring), b) /\ Send(d, right) /\ frame' = frame
  BY DEF BuildData, Body
<1>2. id \in Word /\ id > 0 /\ tdest \in Word \X Word
  BY TemplateIs
<1>3. body \in Nat /\ body > 0
  BY DEF IsSequence
<1>4. UNCHANGED template
  BY <1>1 DEF Send
<1>5. /\ b \in Prefilled /\ h \in Headers /\ h.id = id
      /\ ring' \in Seq(Prefilled) /\ ring' # << >>
      /\ tdest # AnyDest => h.dest = tdest
  BY <1>1, RingTurns
<1> HIDE DEF id, tdest, body, b, h
<1>6. /\ d \in Packets /\ d.by = "data" /\ d.body = body
      /\ d.ip.id = h.id /\ d.ip.dest = h.dest
      /\ (ChecksumsOk(d) <=> right)
  BY <1>3, <1>5, DataIs
<1> HIDE DEF d, right
<1>7. d.ip \in Headers
  BY <1>6 DEF Packets
<1>8. Good(d, right)
  BY <1>2, <1>3, <1>5, <1>6 DEF Good
<1>9. SendsGood
  BY <1>1, <1>6, <1>8, FrameStays DEF SendsGood, IsEcho
<1>10. SenderOK'
  <2>1. header' \in [Prefilled -> Headers]
    BY <1>1, <1>5, <1>7 DEF SenderOK
  <2>2. ASSUME NEW x \in Prefilled
        PROVE  /\ header'[x].id = template.id
               /\ template.dest # AnyDest => header'[x].dest = template.dest
    <3>1. CASE x = b
      <4>1. header'[x] = d.ip
        BY <1>1, <1>5, <3>1 DEF SenderOK
      <4> QED BY <1>5, <1>6, <4>1 DEF id, tdest
    <3>2. CASE x # b
      <4>1. header'[x] = header[x]
        BY <1>1, <1>5, <3>2 DEF SenderOK
      <4> QED BY <4>1 DEF SenderOK
    <3> QED BY <3>1, <3>2
  <2> QED BY <1>1, <1>4, <1>5, <2>1, <2>2 DEF SenderOK
<1> QED BY <1>9, <1>10

\* Every builder.
LEMMA SendSomeGood ==
  ASSUME SenderOK, IsSequence(sent), SendSome
  PROVE  SenderOK' /\ SendsGood
<1>1. CASE \E kind \in Kinds, reset \in BOOLEAN : BuildRaw(kind, reset)
  BY <1>1, RawGood
<1>2. CASE BuildPrefilledInit
  BY <1>2, PrefilledGood
<1>3. CASE SendXdpInit
  BY <1>3, XdpGood
<1>4. CASE \E kind \in Kinds, dest \in Dests : BuildInPlace(kind, dest)
  BY <1>4, InPlaceGood
<1>5. CASE \E shape \in DataShapes : BuildData(shape[1], shape[2])
  <2>1. PICK shape \in DataShapes : BuildData(shape[1], shape[2])
    BY <1>5
  <2>2. /\ shape[1] \in Nat /\ shape[1] <= 1454
        /\ shape[2] \in Nat
    BY DEF DataShapes
  <2> DEFINE fld == shape[1]
             more == shape[2]
  <2> HIDE DEF fld, more
  <2>3. fld \in Word
    <3>1. fld \in Nat /\ fld < W
      BY SMT, <2>2 DEF W, fld
    <3> QED BY <3>1, WordIs
  <2>4. BuildData(fld, more) /\ more \in Nat
    BY <2>1, <2>2 DEF fld, more
  <2> QED BY <2>3, <2>4, DataGood
<1> QED BY <1>1, <1>2, <1>3, <1>4, <1>5 DEF SendSome

-----------------------------------------------------------------------------
(***************************************************************************)
(* Steps                                                                   *)
(***************************************************************************)
\* What came from the packets sent comes from them when there are more.
LEMMA GenuineStays ==
  ASSUME NEW list, IsSequence(list), NEW x, NEW e
  PROVE  /\ Genuine(e, list) => Genuine(e, Append(list, x))
         /\ Passed(e, list) => Passed(e, Append(list, x))
<1>1. Genuine(e, list) => Genuine(e, Append(list, x))
  <2> SUFFICES ASSUME Genuine(e, list) PROVE Genuine(e, Append(list, x))
    OBVIOUS
  <2>1. /\ DOMAIN list = 1 .. Len(list) /\ Len(list) \in Nat
        /\ DOMAIN Append(list, x) = 1 .. Len(list) + 1
        /\ \A i \in 1 .. Len(list) : Append(list, x)[i] = list[i]
    BY AppendIs
  <2>2. e.nth \in 1 .. Len(list)
    BY <2>1 DEF Genuine
  <2>3. e.nth \in DOMAIN Append(list, x) /\ Append(list, x)[e.nth] = list[e.nth]
    BY <2>1, <2>2
  <2> QED BY <2>3 DEF Genuine
<1> QED BY <1>1 DEF Passed

\* The packet that is sent, as it is or damaged.
LEMMA GenuineNew ==
  ASSUME NEW list, IsSequence(list), NEW d, NEW right, NEW x \in {d} \union Damages(d)
  PROVE  Genuine([nth |-> Len(list) + 1, packet |-> x],
                 Append(list, [packet |-> d, right |-> right]))
<1> DEFINE new == [packet |-> d, right |-> right]
<1>1. new.packet = d
  OBVIOUS
<1> HIDE DEF new
<1>2. /\ Len(list) \in Nat /\ DOMAIN Append(list, new) = 1 .. Len(list) + 1
      /\ Append(list, new)[Len(list) + 1] = new
  BY AppendIs
<1>3. Genuine([nth |-> Len(list) + 1, packet |-> x], Append(list, new))
  BY <1>1, <1>2 DEF Genuine
<1> QED BY <1>3 DEF new

\* All packets sent are good, one more included.
LEMMA SentStep ==
  ASSUME IsSequence(sent), SentOK, NEW d, NEW right, Good(d, right),
         sent' = Append(sent, [packet |-> d, right |-> right])
  PROVE  SentOK'
<1> DEFINE new == [packet |-> d, right |-> right]
<1>1. new.packet = d /\ new.right = right
  OBVIOUS
<1>2. sent' = Append(sent, new)
  OBVIOUS
<1> HIDE DEF new
<1>3. /\ Len(sent) \in Nat /\ DOMAIN sent = 1 .. Len(sent) /\ DOMAIN sent' = 1 .. Len(sent) + 1
      /\ \A i \in 1 .. Len(sent) : sent'[i] = sent[i]
      /\ sent'[Len(sent) + 1] = new
  BY <1>2, AppendIs
<1>4. ASSUME NEW k \in DOMAIN sent' PROVE Good(sent'[k].packet, sent'[k].right)
  <2>1. CASE k = Len(sent) + 1
    BY <1>1, <1>3, <2>1
  <2>2. CASE k # Len(sent) + 1
    <3>1. k \in 1 .. Len(sent)
      BY <1>3, <2>2
    <3> QED BY <1>3, <3>1 DEF SentOK
  <2> QED BY <2>1, <2>2
<1> QED BY <1>4 DEF SentOK

\* The frame moves when a COOKIE ECHO is counted.
LEMMA FrameStep ==
  ASSUME IsSequence(sent), FrameCreepsByEchoes, NEW d, NEW right,
         sent' = Append(sent, [packet |-> d, right |-> right]),
         frame'.packet = frame.packet + (IF IsEcho(d) THEN FldSize ELSE 0)
  PROVE  FrameCreepsByEchoes'
<1> DEFINE new == [packet |-> d, right |-> right]
           n == Len(sent) + 1
           S == {k \in DOMAIN sent : sent[k].packet.by = "raw"
                                       /\ sent[k].packet.kind = "cookie_echo"}
           T == {k \in DOMAIN sent' : sent'[k].packet.by = "raw"
                                       /\ sent'[k].packet.kind = "cookie_echo"}
<1>1. new.packet = d /\ sent' = Append(sent, new)
  OBVIOUS
<1> HIDE DEF new
<1>2. /\ Len(sent) \in Nat /\ DOMAIN sent = 1 .. Len(sent) /\ DOMAIN sent' = 1 .. n
      /\ \A i \in 1 .. Len(sent) : sent'[i] = sent[i]
      /\ sent'[n] = new
  BY <1>1, AppendIs
<1>3. n \notin S /\ \A k \in DOMAIN sent : k \in T <=> k \in S
  BY <1>2
<1>4. n \in T <=> IsEcho(d)
  BY <1>1, <1>2 DEF IsEcho
<1>5. T = IF IsEcho(d) THEN S \union {n} ELSE S
  <2>1. \A k : k \in T => k \in S \/ k = n
    BY <1>2, <1>3
  <2>2. S \subseteq T
    BY <1>3
  <2> QED BY <1>3, <1>4, <2>1, <2>2
<1>6. IsFiniteSet(S)
  <2>1. IsFiniteSet(1 .. Len(sent))
    BY <1>2, FS_Interval
  <2> QED BY <1>2, <2>1, FS_Subset
<1>7. frame.packet = FldSize * Cardinality(S)
  BY DEF FrameCreepsByEchoes
<1> HIDE DEF S, T, n
<1>8. Cardinality(S) \in Nat /\ Cardinality(S \union {n}) = Cardinality(S) + 1
  BY <1>3, <1>6, FS_AddElement, FS_CardinalityType
<1>9. frame'.packet = FldSize * Cardinality(T)
  <2> DEFINE c == Cardinality(S)
  <2>1. c \in Nat /\ frame.packet = 4 * c /\ Cardinality(S \union {n}) = c + 1
    BY <1>7, <1>8 DEF FldSize
  <2>2. CASE IsEcho(d)
    <3>1. frame'.packet = frame.packet + 4 /\ Cardinality(T) = c + 1
      BY <1>5, <2>1, <2>2 DEF FldSize
    <3> HIDE DEF c
    <3> QED BY <2>1, <3>1 DEF FldSize
  <2>3. CASE ~IsEcho(d)
    <3>1. frame'.packet = frame.packet + 0 /\ Cardinality(T) = c
      BY <1>5, <2>3
    <3> HIDE DEF c
    <3> QED BY <2>1, <3>1 DEF FldSize
  <2> QED BY <2>2, <2>3
<1> QED BY <1>9 DEF FrameCreepsByEchoes, T

\* The way of the packets after a Send.
LEMMA FlowSend ==
  ASSUME TypeOK, FlowOK, NEW d, NEW right, Send(d, right)
  PROVE  FlowOK'
<1> DEFINE new == [packet |-> d, right |-> right]
<1>1. /\ sent' = Append(sent, new)
      /\ \/ wire' = wire
         \/ \E x \in {d} \union Damages(d) :
               wire' = Append(wire, [nth |-> Len(sent) + 1, packet |-> x])
      /\ UNCHANGED <<receiver, pc, buffer, content, rb, delivered>>
  BY DEF Send, receiving
<1>2. IsSequence(sent) /\ IsSequence(wire)
  BY DEF TypeOK
<1>3. \A e : Genuine(e, sent) => Genuine(e, sent')
  BY <1>1, <1>2, GenuineStays
<1>4. \A e : Passed(e, sent) => Passed(e, sent')
  BY <1>1, <1>2, GenuineStays
<1>5. \A i \in DOMAIN wire' : Genuine(wire'[i], sent')
  <2>1. CASE wire' = wire
    BY <1>3, <2>1 DEF FlowOK
  <2>2. ASSUME NEW x \in {d} \union Damages(d),
               wire' = Append(wire, [nth |-> Len(sent) + 1, packet |-> x])
        PROVE  \A i \in DOMAIN wire' : Genuine(wire'[i], sent')
    <3> DEFINE e == [nth |-> Len(sent) + 1, packet |-> x]
    <3>1. Genuine(e, sent')
      BY <1>1, <1>2, GenuineNew
    <3>2. wire' = Append(wire, e)
      BY <2>2
    <3> HIDE DEF e
    <3>3. /\ Len(wire) \in Nat /\ DOMAIN wire = 1 .. Len(wire)
          /\ DOMAIN wire' = 1 .. Len(wire) + 1
          /\ \A i \in 1 .. Len(wire) : wire'[i] = wire[i]
          /\ wire'[Len(wire) + 1] = e
      BY <1>2, <3>2, AppendIs
    <3>4. ASSUME NEW i \in DOMAIN wire' PROVE Genuine(wire'[i], sent')
      <4>1. CASE i = Len(wire) + 1
        BY <3>1, <3>3, <4>1
      <4>2. CASE i # Len(wire) + 1
        <5>1. i \in 1 .. Len(wire)
          BY <3>3, <4>2
        <5>2. wire'[i] = wire[i] /\ Genuine(wire[i], sent)
          BY <3>3, <5>1 DEF FlowOK
        <5> QED BY <1>3, <5>2
      <4> QED BY <4>1, <4>2
    <3> QED BY <3>4
  <2> QED BY <1>1, <2>1, <2>2
<1> HIDE DEF new
<1> QED BY <1>1, <1>4, <1>5 DEF FlowOK

\* The packet that passes is what the loop reads next.
LEMMA FlowRecv ==
  ASSUME ReceiveInvariant, FlowOK, LoopRecv
  PROVE  FlowOK'
<1>1. /\ receiver = "loop" /\ pc = "recv" /\ wire # << >>
      /\ pc' = IF ChecksumsOk(Head(wire).packet) THEN "push" ELSE "recv"
      /\ content' = [content EXCEPT ![buffer] = Head(wire)] /\ wire' = Tail(wire)
      /\ UNCHANGED <<sent, receiver, buffer, rb, delivered>>
  BY DEF LoopRecv
<1>2. TypeOK /\ buffer \in Buffers /\ buffer \notin ToSet(rb)
  BY <1>1 DEF ReceiveInvariant, TypeOK, BufferOK, PlacesOK
<1>3. content'[buffer] = Head(wire) /\ \A b \in Buffers \ {buffer} : content'[b] = content[b]
  BY <1>1, <1>2 DEF TypeOK
<1>4. \A i \in DOMAIN rb : content'[rb[i]] = content[rb[i]]
  <2>1. \A i \in DOMAIN rb : rb[i] \in Buffers \ {buffer}
    BY <1>2 DEF TypeOK, ToSet
  <2> QED BY <1>3, <2>1
<1>5. /\ Len(wire) \in Nat \ {0} /\ DOMAIN wire = 1 .. Len(wire)
      /\ DOMAIN wire' = 1 .. Len(wire) - 1
      /\ \A i \in 1 .. Len(wire) - 1 : wire'[i] = wire[i + 1]
      /\ Head(wire) = wire[1]
  BY <1>1, <1>2, TailIs DEF TypeOK
<1>6. Genuine(Head(wire), sent) /\ \A i \in DOMAIN wire' : Genuine(wire'[i], sent)
  BY <1>5 DEF FlowOK
<1>7. pc' = "push" => Passed(content'[buffer], sent)
  BY <1>1, <1>3, <1>6 DEF Passed
<1> QED BY <1>1, <1>4, <1>6, <1>7 DEF FlowOK

\* The thread's packet goes into the ring.
LEMMA FlowPush ==
  ASSUME ReceiveInvariant, FlowOK, LoopPush
  PROVE  FlowOK'
<1>1. /\ receiver = "loop" /\ pc = "push" /\ pc' = "pop" /\ rb' = Append(rb, buffer)
      /\ UNCHANGED <<sent, wire, receiver, content, delivered>>
  BY DEF LoopPush, network
<1>2. IsSequence(rb)
  BY SequenceOfItsOwn DEF ReceiveInvariant, TypeOK
<1>3. /\ Len(rb) \in Nat /\ DOMAIN rb = 1 .. Len(rb) /\ DOMAIN rb' = 1 .. Len(rb) + 1
      /\ \A i \in 1 .. Len(rb) : rb'[i] = rb[i]
      /\ rb'[Len(rb) + 1] = buffer
  BY <1>1, <1>2, AppendIs
<1>4. ASSUME NEW i \in DOMAIN rb' PROVE Passed(content[rb'[i]], sent)
  <2>1. CASE i = Len(rb) + 1
    BY <1>1, <1>3, <2>1 DEF FlowOK
  <2>2. CASE i # Len(rb) + 1
    <3>1. i \in 1 .. Len(rb)
      BY <1>3, <2>2
    <3> QED BY <1>1, <1>3, <3>1 DEF FlowOK
  <2> QED BY <2>1, <2>2
<1> QED BY <1>1, <1>4 DEF FlowOK

\* The consumer takes a packet out of the ring.
LEMMA FlowConsume ==
  ASSUME ReceiveInvariant, FlowOK, Consume
  PROVE  FlowOK'
<1> DEFINE e == content[Head(rb)]
<1>1. /\ rb # << >> /\ delivered' = Append(delivered, e) /\ rb' = Tail(rb)
      /\ UNCHANGED <<sent, wire, receiver, pc, buffer, content>>
  BY DEF Consume, network
<1>2. IsSequence(rb) /\ IsSequence(delivered) /\ receiver = "loop"
  BY <1>1, SequenceOfItsOwn DEF ReceiveInvariant, TypeOK, RingIdle
<1>3. /\ Len(rb) \in Nat \ {0} /\ DOMAIN rb = 1 .. Len(rb) /\ DOMAIN rb' = 1 .. Len(rb) - 1
      /\ \A i \in 1 .. Len(rb) - 1 : rb'[i] = rb[i + 1]
      /\ Head(rb) = rb[1]
  BY <1>1, <1>2, TailIs
<1>4. Passed(e, sent) /\ \A i \in DOMAIN rb' : Passed(content[rb'[i]], sent)
  BY <1>2, <1>3 DEF FlowOK
<1> HIDE DEF e
<1>5. /\ Len(delivered) \in Nat /\ DOMAIN delivered = 1 .. Len(delivered)
      /\ DOMAIN delivered' = 1 .. Len(delivered) + 1
      /\ \A i \in 1 .. Len(delivered) : delivered'[i] = delivered[i]
      /\ delivered'[Len(delivered) + 1] = e
  BY <1>1, <1>2, AppendIs
<1>6. ASSUME NEW i \in DOMAIN delivered' PROVE Passed(delivered'[i], sent)
  <2>1. CASE i = Len(delivered) + 1
    BY <1>4, <1>5, <2>1
  <2>2. CASE i # Len(delivered) + 1
    <3>1. i \in 1 .. Len(delivered)
      BY <1>5, <2>2
    <3> QED BY <1>2, <1>5, <3>1 DEF FlowOK
  <2> QED BY <2>1, <2>2
<1> QED BY <1>1, <1>4, <1>6 DEF FlowOK

\* A call of eth_receive_sctp takes from the socket.
LEMMA FlowEth ==
  ASSUME ReceiveInvariant, FlowOK, EthReceive
  PROVE  FlowOK'
<1>1. /\ receiver = "eth" /\ UNCHANGED <<sent, receiver>>
      /\ \/ wire' = wire
         \/ wire # << >> /\ wire' = Tail(wire)
  BY DEF EthReceive
<1>2. \A i \in DOMAIN wire' : Genuine(wire'[i], sent)
  <2>1. CASE wire' = wire
    BY <2>1 DEF FlowOK
  <2>2. CASE wire # << >> /\ wire' = Tail(wire)
    <3>1. /\ Len(wire) \in Nat \ {0} /\ DOMAIN wire = 1 .. Len(wire)
          /\ DOMAIN wire' = 1 .. Len(wire) - 1
          /\ \A i \in 1 .. Len(wire) - 1 : wire'[i] = wire[i + 1]
      BY <2>2, TailIs DEF ReceiveInvariant, TypeOK
    <3> QED BY <3>1 DEF FlowOK
  <2> QED BY <1>1, <2>1, <2>2
<1> QED BY <1>1, <1>2 DEF FlowOK

PacketInvariant == ReceiveInvariant /\ SenderOK /\ SentOK /\ FrameCreepsByEchoes /\ FlowOK

\* Set-up: templates everywhere, nothing sent.
LEMMA InitPackets ==
  ASSUME Init
  PROVE  SenderOK /\ SentOK /\ FrameCreepsByEchoes /\ FlowOK
<1>1. template \in [id : Ids, dest : Dests \union {AnyDest}]
  BY DEF Init
<1>2. template.id \in 1 .. W - 1 /\ template.dest \in (0 .. W - 1) \X (0 .. W - 1)
  <2>1. template.id \in Ids /\ template.dest \in Dests \union {AnyDest}
    BY <1>1
  <2>2. W - 1 \in 0 .. W - 1
    <3>1. W \in Nat /\ W > 0
      BY SMT DEF W
    <3> QED BY <3>1
  <2>3. template.id \in 1 .. W - 1
    BY <2>1, IdsAssumption
  <2>4. AnyDest \in (0 .. W - 1) \X (0 .. W - 1)
    BY <2>2, DestsAssumption
  <2>5. template.dest \in (0 .. W - 1) \X (0 .. W - 1)
    BY <2>1, <2>4, DestsAssumption
  <2> QED BY <2>3, <2>5
<1>3. template.id \in Word /\ template.dest \in Word \X Word
  <2>1. W \in Nat
    BY SMT DEF W
  <2>2. template.id \in 0 .. W - 1
    BY <1>2, <2>1
  <2> QED BY <1>2, <2>2 DEF Word
<1>4. Prefill(template.id, template.dest) \in Headers
      /\ Prefill(template.id, template.dest).id = template.id
      /\ Prefill(template.id, template.dest).dest = template.dest
  BY <1>3, PrefillIs
<1>5. frame \in Frames /\ frame.packet = 0
  <2>1. 0 \in Word
    <3>1. 0 < W
      BY SMT DEF W
    <3> QED BY <3>1, WordIs
  <2> QED BY <2>1 DEF Init, Frames
<1>6. ring \in Seq(Prefilled) /\ ring # << >>
  <2>1. ring \in Seq(Prefilled) /\ ToSet(ring) = Prefilled
    BY InOrderIs, BuffersAssumption DEF Init
  <2>2. ring # << >>
    BY <2>1, BuffersAssumption DEF ToSet
  <2> QED BY <2>1, <2>2
<1>7. SenderOK
  <2> DEFINE p == Prefill(template.id, template.dest)
  <2>1. header = [b \in Prefilled |-> p]
    BY DEF Init
  <2>2. p \in Headers /\ p.id = template.id /\ p.dest = template.dest
    BY <1>4
  <2> HIDE DEF p
  <2>3. header \in [Prefilled -> Headers]
    BY <2>1, <2>2
  <2>4. \A b \in Prefilled : header[b].id = template.id /\ header[b].dest = template.dest
    BY <2>1, <2>2
  <2> QED BY <1>1, <1>5, <1>6, <2>3, <2>4 DEF SenderOK, p
<1>8. DOMAIN sent = {} /\ DOMAIN wire = {} /\ DOMAIN rb = {} /\ DOMAIN delivered = {}
      /\ pc = "pop"
  BY DEF Init
<1>9. SentOK /\ FlowOK
  BY <1>8 DEF SentOK, FlowOK
<1>10. FrameCreepsByEchoes
  <2> DEFINE S == {k \in DOMAIN sent : /\ sent[k].packet.by = "raw"
                                       /\ sent[k].packet.kind = "cookie_echo"}
  <2>1. S = {}
    BY <1>8
  <2>2. Cardinality(S) = 0
    BY <2>1, FS_EmptySet
  <2>3. FldSize * Cardinality(S) = 0
    BY <2>2 DEF FldSize
  <2> QED BY <1>5, <2>3 DEF FrameCreepsByEchoes
<1> QED BY <1>7, <1>9, <1>10

\* A step keeps what is known of packets and sender.
LEMMA PacketStep ==
  ASSUME PacketInvariant, [Next]_vars
  PROVE  SenderOK' /\ SentOK' /\ FrameCreepsByEchoes' /\ FlowOK'
<1> USE DEF PacketInvariant
<1>1. CASE SendSome
  <2>1. TypeOK /\ IsSequence(sent)
    BY DEF ReceiveInvariant, TypeOK
  <2>2. SenderOK' /\ SendsGood
    BY <1>1, <2>1, SendSomeGood
  <2>3. PICK d, right : /\ Send(d, right) /\ Good(d, right)
                        /\ frame'.packet = frame.packet + (IF IsEcho(d) THEN FldSize ELSE 0)
    BY <2>2 DEF SendsGood
  <2>4. sent' = Append(sent, [packet |-> d, right |-> right])
    BY <2>3, SendIs
  <2>5. SentOK'
    BY <2>1, <2>3, <2>4, SentStep
  <2>6. FrameCreepsByEchoes'
    BY <2>1, <2>3, <2>4, FrameStep
  <2>7. FlowOK'
    BY <2>1, <2>3, FlowSend
  <2> QED BY <2>2, <2>5, <2>6, <2>7
<1>2. ASSUME UNCHANGED <<frame, ring, header, template, sent>>
      PROVE  SenderOK' /\ SentOK' /\ FrameCreepsByEchoes'
  BY <1>2 DEF SenderOK, SentOK, FrameCreepsByEchoes
<1>3. CASE LoopPop
  BY <1>2, <1>3 DEF LoopPop, sender, network, FlowOK
<1>4. CASE LoopRecv
  BY <1>2, <1>4, FlowRecv DEF LoopRecv, sender
<1>5. CASE LoopPush
  BY <1>2, <1>5, FlowPush DEF LoopPush, sender, network
<1>6. CASE LoopExit
  BY <1>2, <1>6 DEF LoopExit, sender, network, FlowOK
<1>7. CASE Consume
  BY <1>2, <1>7, FlowConsume DEF Consume, sender, network
<1>8. CASE EthReceive
  BY <1>2, <1>8, FlowEth DEF EthReceive, sender
<1>9. CASE UNCHANGED vars
  BY <1>2, <1>9 DEF vars, sender, network, receiving, FlowOK
<1> QED BY <1>1, <1>3, <1>4, <1>5, <1>6, <1>7, <1>8, <1>9 DEF Next, Loop

-----------------------------------------------------------------------------
(***************************************************************************)
(* The theorems about packets                                              *)
(***************************************************************************)
\* Every packet sent is as its builder predicts, and every packet on its way
\* to the user is one that was sent, damaged in at most one place; in the loop
\* one that passed sctp_check_checksums.
THEOREM PacketInvariantHolds == Spec => []PacketInvariant
<1>1. Init => SenderOK /\ SentOK /\ FrameCreepsByEchoes /\ FlowOK
  BY InitPackets
<1>2. PacketInvariant /\ [Next]_vars => SenderOK' /\ SentOK' /\ FrameCreepsByEchoes' /\ FlowOK'
  BY PacketStep
<1> QED BY <1>1, <1>2, ReceiveInvariantHolds, PTL DEF Spec, PacketInvariant

\* The checks of recv_sctp_packet are those of the protocol for any header the
\* builders put together, and damage in one place of a packet that left with
\* right checksums does not reach the consumer, but for a word of the header
\* that counts for the same.
THEOREM AlwaysChecksSound == Spec => []ChecksSound
<1>1. PacketInvariant => SumIsInternetChecksum
  <2> SUFFICES ASSUME PacketInvariant, NEW k \in DOMAIN sent
               PROVE  LET ip == sent[k].packet.ip
                      IN  /\ ip.check = FullCheck(ip)
                               <=> SumsUp(Words(ip), ip.check) /\ ip.check # W - 1
                          /\ FullCheck(ip) = TcpChecksum(Words(ip), 0)
    BY DEF SumIsInternetChecksum
  <2>1. sent[k].packet.ip \in Headers /\ sent[k].packet.ip.id > 0
    BY DEF PacketInvariant, SentOK, Good, Packets
  <2> QED BY <2>1, SumsUpIs
<1>2. PacketInvariant => AcceptedAsSent
  <2> SUFFICES ASSUME PacketInvariant, receiver = "loop", NEW i \in DOMAIN delivered,
                      sent[delivered[i].nth].right
               PROVE  Same(delivered[i].packet, sent[delivered[i].nth].packet)
    BY DEF AcceptedAsSent, Same
  <2> DEFINE got == delivered[i].packet
             was == sent[delivered[i].nth].packet
  <2>1. /\ delivered[i].nth \in DOMAIN sent /\ got \in {was} \union Damages(was)
        /\ ChecksumsOk(got)
    BY DEF PacketInvariant, FlowOK, Passed, Genuine
  <2>2. was \in Packets /\ was.body > 0 /\ ChecksumsOk(was)
    BY <2>1 DEF PacketInvariant, SentOK, Good
  <2> HIDE DEF got, was
  <2>3. Same(got, was)
    BY <2>1, <2>2, DamageFound
  <2> QED BY <2>3 DEF got, was
<1> QED BY <1>1, <1>2, PacketInvariantHolds, PTL DEF ChecksSound

\* For any number of packets, templates and addresses: a packet of a raw builder
\* passes the receiver's checks exactly if plen does not wrap in it, an INIT of
\* build_prefilled_sctp_init_hdr exactly if its length needs no borrow, a
\* handshake packet built in place exactly if its buffer still holds the
\* template's checksum but for the error of the subtraction, a data packet
\* exactly if it is one unpadded chunk in a buffer whose header has a length
\* from a handshake packet, the INIT in umem never; and the frame creeps up its
\* buffer by a chunk header for each raw COOKIE ECHO.
THEOREM BuildersPredicted == Spec => []BuildersAsPredicted
<1>1. PacketInvariant => BuildersAsPredicted
  BY DEF PacketInvariant, SentOK, Good, BuildersAsPredicted, RawPasses,
         PrefilledInitPassesUnlessBorrow, InPlacePassesFromTemplate,
         DataPassesByAccident, UncheckedNeverPasses, PassesAsPredicted
<1> QED BY <1>1, PacketInvariantHolds, PTL
=============================================================================
