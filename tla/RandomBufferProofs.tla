------------------------- MODULE RandomBufferProofs -------------------------
(***************************************************************************)
(* Proofs about RandomBuffer, for every buffer size, set of widths and set *)
(* of threads: which interleavings of the unlocked functions are harmless. *)
(***************************************************************************)
EXTENDS RandomBuffer, TLAPS

-----------------------------------------------------------------------------
(***************************************************************************)
(* The inductive invariant                                                 *)
(***************************************************************************)
Labels == {"idle", "test", "load", "advance", "read", "reset", "fill"}
Unit == Nat \X Nat
Values == UNION {[0 .. n - 1 -> Unit \union {NULL}] : n \in 1 .. Size}
Draws == [of : {"buffer", "direct"}, value : Values, filled : BOOLEAN]

TypeOK == /\ head \in Nat /\ calls \in Nat /\ faults \in Nat
          /\ buffer \in [Places -> Unit]
          /\ pc \in [Threads -> Labels]
          /\ width \in [Threads -> 1 .. Size]
          /\ ptr \in [Threads -> Nat]
          /\ drawn \in Seq(Draws)
          /\ filled \in BOOLEAN /\ raced \in BOOLEAN /\ crossed \in BOOLEAN

\* Without a race, a thread that passed its test keeps the room it tested
\* for: others can only reset head.
RoomOK ==
  ~raced =>
     /\ head <= Size
     /\ \A t, u \in Threads :
          t # u => ~(pc[t] \in {"load", "advance"} /\ pc[u] \in {"load", "advance"})
     /\ \A t \in Threads :
          /\ pc[t] \in {"load", "advance"} => head + width[t] <= Size
          /\ pc[t] \in {"advance", "read"} => ptr[t] + width[t] <= Size
     /\ \A i \in DOMAIN drawn : NULL \notin Units(i)

\* After a complete fill the zeros of the start are gone.
FilledOK == filled => \A i \in Places : buffer[i][1] # 0

Calm == ~raced /\ ~crossed /\ faults = 0

\* Under the conditions of HandedOutOnce, the buffer is the result g of one
\* call; of those units the ones below head were handed out, or are about to
\* be read by one thread each.
HandedOutBelow(g) ==
  /\ \A i \in Places : buffer[i] = <<g, i>>
  /\ \A i \in DOMAIN drawn : \A u \in Units(i) :
        /\ u \in Unit /\ u[1] <= calls
        /\ u[1] = g => /\ u[2] < head \/ \E t \in Threads : pc[t] = "fill"
                       /\ \A t \in Threads : pc[t] = "read"
                             => u[2] < ptr[t] \/ u[2] >= ptr[t] + width[t]
  /\ \A t \in Threads : /\ pc[t] = "advance" => ptr[t] = head
                        /\ pc[t] = "read" => ptr[t] + width[t] <= head
  /\ \A t, u \in Threads :
        t # u => /\ pc[t] \in {"reset", "fill"} => pc[u] = "idle"
                 /\ pc[t] = "read" /\ pc[u] = "read" =>
                      ptr[t] + width[t] <= ptr[u] \/ ptr[u] + width[u] <= ptr[t]

FreshOK == Calm => \E g \in 0 .. calls : HandedOutBelow(g)

RandomInvariant == TypeOK /\ RoomOK /\ FilledOK /\ FreshOK /\ DrawsFresh

-----------------------------------------------------------------------------
\* What one more draw does to the history.
LEMMA AppendDrawn ==
  ASSUME TypeOK, NEW d \in Draws, drawn' = Append(drawn, d)
  PROVE  /\ drawn' \in Seq(Draws)
         /\ DOMAIN drawn' = DOMAIN drawn \union {Len(drawn) + 1}
         /\ Len(drawn) + 1 \notin DOMAIN drawn
         /\ \A i \in DOMAIN drawn : i < Len(drawn) + 1
         /\ \A i \in DOMAIN drawn : drawn'[i] = drawn[i] /\ Units(i)' = Units(i)
         /\ drawn'[Len(drawn) + 1] = d
         /\ \A k : k = Len(drawn) + 1 => Units(k)' = {d.value[j] : j \in DOMAIN d.value}
<1>1. drawn \in Seq(Draws)
  BY DEF TypeOK
<1>2. /\ drawn' \in Seq(Draws) /\ Len(drawn') = Len(drawn) + 1 /\ Len(drawn) \in Nat
      /\ drawn'[Len(drawn) + 1] = d
      /\ \A i \in 1 .. Len(drawn) : drawn'[i] = drawn[i]
  BY <1>1
<1>3. DOMAIN drawn = 1 .. Len(drawn) /\ DOMAIN drawn' = 1 .. Len(drawn) + 1
  BY <1>1, <1>2
<1>4. /\ DOMAIN drawn' = DOMAIN drawn \union {Len(drawn) + 1}
      /\ Len(drawn) + 1 \notin DOMAIN drawn
      /\ \A i \in DOMAIN drawn : i < Len(drawn) + 1
  BY <1>2, <1>3
<1>5. \A i \in DOMAIN drawn : drawn'[i] = drawn[i] /\ Units(i)' = Units(i)
  BY <1>2, <1>3 DEF Units
<1>6. \A k : k = Len(drawn) + 1 => Units(k)' = {d.value[j] : j \in DOMAIN d.value}
  BY <1>2 DEF Units
<1> QED BY <1>2, <1>4, <1>5, <1>6

\* The values that are drawn.
LEMMA ValueType ==
  ASSUME TypeOK, NEW t \in Threads
  PROVE  Value(t) \in Values /\ DOMAIN Value(t) = 0 .. width[t] - 1
<1>1. /\ width[t] \in 1 .. Size /\ ptr[t] \in Nat /\ buffer \in [Places -> Unit]
  BY DEF TypeOK
<1>2. Value(t) \in [0 .. width[t] - 1 -> Unit \union {NULL}]
  BY <1>1 DEF Value
<1> QED BY <1>1, <1>2 DEF Values

\* The value of a call of getrandom of its own has the form of a drawn value.
LEMMA DirectType ==
  ASSUME NEW n \in Widths, NEW c \in Nat
  PROVE  [i \in 0 .. n - 1 |-> <<c, i>>] \in Values
<1>1. n \in 1 .. Size /\ n \in Nat
  BY WidthsAssumption, SizeAssumption
<1>2. [i \in 0 .. n - 1 |-> <<c, i>>] \in [0 .. n - 1 -> Unit \union {NULL}]
  BY <1>1 DEF Unit
<1> QED BY <1>1, <1>2 DEF Values

\* The buffer starts with zeros, and nobody is drawing.
LEMMA InitInvariant == Init => RandomInvariant
<1> SUFFICES ASSUME Init PROVE RandomInvariant
  OBVIOUS
<1>1. TypeOK
  <2>1. buffer \in [Places -> Unit]
    BY SizeAssumption DEF Init, Places, Unit
  <2>2. width \in [Threads -> 1 .. Size]
    BY SizeAssumption DEF Init
  <2>3. pc \in [Threads -> Labels] /\ ptr \in [Threads -> Nat] /\ drawn \in Seq(Draws)
    BY DEF Init, Labels
  <2>4. filled \in BOOLEAN /\ raced \in BOOLEAN /\ crossed \in BOOLEAN
    BY DEF Init
  <2>5. head \in Nat /\ calls \in Nat /\ faults \in Nat
    BY DEF Init
  <2> QED BY <2>1, <2>2, <2>3, <2>4, <2>5 DEF TypeOK
<1>2. RoomOK
  BY SizeAssumption DEF Init, RoomOK
<1>3. FilledOK
  BY DEF Init, FilledOK
<1>4. FreshOK
  <2>1. HandedOutBelow(0)
    BY DEF HandedOutBelow, Init
  <2> QED BY <2>1 DEF FreshOK, Init
<1>5. DrawsFresh
  BY DEF DrawsFresh, HandedOutOnce, ZerosUntilFilled, Init
<1> QED BY <1>1, <1>2, <1>3, <1>4, <1>5 DEF RandomInvariant

\* Every step keeps the types.
LEMMA NextTypeOK ==
  ASSUME TypeOK, NEW t \in Threads, Step(t)
  PROVE  TypeOK'
<1>1. CASE Call(t)
  BY <1>1, WidthsAssumption DEF Call, Goto, Observe, TypeOK, Labels
<1>2. CASE Test(t)
  BY <1>2 DEF Test, Goto, Observe, TypeOK, Labels
<1>3. CASE LoadHead(t)
  BY <1>3 DEF LoadHead, Goto, TypeOK, Labels
<1>4. CASE AdvanceHead(t)
  BY <1>4 DEF AdvanceHead, Goto, TypeOK, Labels
<1>5. CASE Read(t)
  <2>1. [of |-> "buffer", value |-> Value(t), filled |-> filled] \in Draws
    BY ValueType DEF Draws, TypeOK
  <2>2. drawn' \in Seq(Draws)
    BY <1>5, <2>1, AppendDrawn DEF Read
  <2> QED BY <1>5, <2>2, SizeAssumption DEF Read, Goto, TypeOK, Labels
<1>6. CASE ResetHead(t)
  BY <1>6 DEF ResetHead, Goto, TypeOK, Labels
<1>7. CASE GetRandom(t)
  <2>1. PICK k \in 0 .. Size :
          /\ buffer' = [i \in Places |-> IF i < k THEN <<calls', i>> ELSE buffer[i]]
          /\ faults' = IF k < Size THEN faults + 1 ELSE faults
          /\ filled' = (filled \/ k = Size)
    BY <1>7 DEF GetRandom
  <2>2. calls' \in Nat /\ faults' \in Nat
    BY <1>7, <2>1 DEF GetRandom, TypeOK
  <2>3. buffer' \in [Places -> Unit]
    BY <2>1, <2>2, SizeAssumption DEF TypeOK, Places, Unit
  <2> QED BY <1>7, <2>1, <2>2, <2>3 DEF GetRandom, Goto, TypeOK, Labels
<1>8. CASE Direct(t)
  <2>1. PICK n \in Widths, ok \in BOOLEAN :
          /\ faults' = IF ok THEN faults ELSE faults + 1
          /\ drawn' = Append(drawn, [of |-> "direct", filled |-> filled,
                                     value |-> [i \in 0 .. n - 1 |->
                                                  <<IF ok THEN calls' ELSE 0, i>>]])
    BY <1>8 DEF Direct
  <2>2. calls' \in Nat /\ faults' \in Nat
    BY <1>8, <2>1 DEF Direct, TypeOK
  <2>3. [of |-> "direct", filled |-> filled,
         value |-> [i \in 0 .. n - 1 |-> <<IF ok THEN calls' ELSE 0, i>>]] \in Draws
    BY <2>2, DirectType DEF Draws, TypeOK
  <2>4. drawn' \in Seq(Draws)
    BY <2>1, <2>3, AppendDrawn
  <2> QED BY <1>8, <2>2, <2>4 DEF Direct, TypeOK
<1> QED BY <1>1, <1>2, <1>3, <1>4, <1>5, <1>6, <1>7, <1>8 DEF Step

-----------------------------------------------------------------------------
\* Without a race no thread can make another's room disappear.
LEMMA NextRoomOK ==
  ASSUME TypeOK, RoomOK, NEW t \in Threads, Step(t)
  PROVE  RoomOK'
<1> SUFFICES ASSUME ~raced' PROVE RoomOK'
  BY DEF RoomOK
<1>t. /\ head \in Nat /\ Size \in Nat /\ pc \in [Threads -> Labels]
      /\ width \in [Threads -> 1 .. Size] /\ ptr \in [Threads -> Nat]
      /\ drawn \in Seq(Draws)
  BY SizeAssumption DEF TypeOK
<1>r. ~raced
  BY DEF Step, Call, Test, LoadHead, AdvanceHead, Read, ResetHead, GetRandom, Direct, Observe
<1>o. /\ head <= Size
      /\ \A v, u \in Threads :
           v # u => ~(pc[v] \in {"load", "advance"} /\ pc[u] \in {"load", "advance"})
      /\ \A u \in Threads :
           /\ pc[u] \in {"load", "advance"} => head + width[u] <= Size
           /\ pc[u] \in {"advance", "read"} => ptr[u] + width[u] <= Size
      /\ \A i \in DOMAIN drawn : NULL \notin Units(i)
  BY <1>r DEF RoomOK
<1>1. CASE Call(t)
  <2>1. /\ UNCHANGED <<head, ptr, drawn>> /\ pc[t] = "idle" /\ pc' = [pc EXCEPT ![t] = "test"]
        /\ \A u \in Threads \ {t} : width'[u] = width[u]
    BY <1>1, <1>t DEF Call, Goto
  <2>2. \A i \in DOMAIN drawn' : NULL \notin Units(i)'
    BY <1>o, <2>1 DEF Units
  <2> QED BY <1>t, <1>o, <2>1, <2>2 DEF RoomOK
<1>2. CASE Test(t)
  <2>1. /\ UNCHANGED <<head, ptr, drawn, width>> /\ pc[t] = "test"
        /\ pc' = [pc EXCEPT ![t] = IF Enough(width[t]) THEN "load" ELSE "reset"]
    BY <1>2 DEF Test, Goto
  <2>2. \A v, u \in Threads :
           v # u => ~(pc'[v] \in {"load", "advance"} /\ pc'[u] \in {"load", "advance"})
    BY <1>2 DEF Test, Observe, Two
  <2>3. pc'[t] = "load" => head + width[t] <= Size
    BY <1>t, <1>o, <2>1 DEF Enough
  <2>4. \A i \in DOMAIN drawn' : NULL \notin Units(i)'
    BY <1>o, <2>1 DEF Units
  <2> QED BY <1>t, <1>o, <2>1, <2>2, <2>3, <2>4 DEF RoomOK
<1>3. CASE LoadHead(t)
  <2>1. /\ UNCHANGED <<head, drawn, width>> /\ pc[t] = "load"
        /\ pc' = [pc EXCEPT ![t] = "advance"] /\ ptr' = [ptr EXCEPT ![t] = head]
    BY <1>3 DEF LoadHead, Goto
  <2>2. \A i \in DOMAIN drawn' : NULL \notin Units(i)'
    BY <1>o, <2>1 DEF Units
  <2> QED BY <1>t, <1>o, <2>1, <2>2 DEF RoomOK
<1>4. CASE AdvanceHead(t)
  <2>1. /\ UNCHANGED <<ptr, drawn, width>> /\ pc[t] = "advance"
        /\ pc' = [pc EXCEPT ![t] = "read"] /\ head' = head + width[t]
    BY <1>4 DEF AdvanceHead, Goto
  <2>2. \A i \in DOMAIN drawn' : NULL \notin Units(i)'
    BY <1>o, <2>1 DEF Units
  <2>3. \A u \in Threads : pc'[u] \notin {"load", "advance"}
    BY <1>t, <1>o, <2>1
  <2>4. head' <= Size
    BY <1>o, <2>1
  <2>5. \A u \in Threads : pc'[u] = "read" => ptr[u] + width[u] <= Size
    BY <1>t, <1>o, <2>1
  <2> QED BY <2>1, <2>2, <2>3, <2>4, <2>5 DEF RoomOK
<1>5. CASE Read(t)
  <2> DEFINE d == [of |-> "buffer", value |-> Value(t), filled |-> filled]
  <2>1. /\ UNCHANGED head /\ pc[t] = "read" /\ drawn' = Append(drawn, d)
        /\ pc' = [pc EXCEPT ![t] = "idle"]
        /\ \A u \in Threads \ {t} : ptr'[u] = ptr[u] /\ width'[u] = width[u]
    BY <1>5, <1>t DEF Read, Goto
  <2>2. d \in Draws /\ d.value = Value(t)
    BY ValueType DEF Draws, TypeOK
  <2>3. \A j \in DOMAIN Value(t) : Value(t)[j] \in Unit
    BY <1>t, <1>o, <2>1 DEF Value, Places, TypeOK
  <2> HIDE DEF d
  <2>4. \A i \in DOMAIN drawn' : NULL \notin Units(i)'
    BY <1>o, <2>1, <2>2, <2>3, AppendDrawn, NullAssumption DEF Unit
  <2> QED BY <1>t, <1>o, <2>1, <2>4 DEF RoomOK
<1>6. CASE ResetHead(t)
  <2>1. /\ UNCHANGED <<ptr, drawn, width>> /\ pc[t] = "reset"
        /\ pc' = [pc EXCEPT ![t] = "fill"] /\ head' = 0
    BY <1>6 DEF ResetHead, Goto
  <2>2. \A i \in DOMAIN drawn' : NULL \notin Units(i)'
    BY <1>o, <2>1 DEF Units
  <2> QED BY <1>t, <1>o, <2>1, <2>2 DEF RoomOK
<1>7. CASE GetRandom(t)
  <2>1. /\ UNCHANGED <<head, ptr, drawn, width>> /\ pc[t] = "fill"
        /\ pc' = [pc EXCEPT ![t] = "test"]
    BY <1>7 DEF GetRandom, Goto
  <2>2. \A i \in DOMAIN drawn' : NULL \notin Units(i)'
    BY <1>o, <2>1 DEF Units
  <2> QED BY <1>t, <1>o, <2>1, <2>2 DEF RoomOK
<1>8. CASE Direct(t)
  <2>1. PICK n \in Widths, ok \in BOOLEAN :
          drawn' = Append(drawn, [of |-> "direct", filled |-> filled,
                                  value |-> [i \in 0 .. n - 1 |->
                                               <<IF ok THEN calls' ELSE 0, i>>]])
    BY <1>8 DEF Direct
  <2> DEFINE c == IF ok THEN calls' ELSE 0
             v == [i \in 0 .. n - 1 |-> <<c, i>>]
             d == [of |-> "direct", filled |-> filled, value |-> v]
  <2>2. calls' \in Nat /\ c \in Nat /\ UNCHANGED <<head, pc, ptr, width>>
    BY <1>8 DEF Direct, TypeOK
  <2>3. drawn' = Append(drawn, d)
    BY <2>1
  <2> HIDE DEF c
  <2>4. v \in Values
    BY <2>2, DirectType
  <2>5. \A j \in DOMAIN v : v[j] \in Unit
    BY <2>2, WidthsAssumption, SizeAssumption DEF Unit
  <2> HIDE DEF v
  <2>6. d \in Draws /\ d.value = v
    BY <2>4 DEF Draws, TypeOK
  <2> HIDE DEF d
  <2>7. \A i \in DOMAIN drawn' : NULL \notin Units(i)'
    BY <1>o, <2>3, <2>5, <2>6, AppendDrawn, NullAssumption DEF Unit
  <2> QED BY <1>o, <2>2, <2>7 DEF RoomOK
<1> QED BY <1>1, <1>2, <1>3, <1>4, <1>5, <1>6, <1>7, <1>8 DEF Step

\* A complete fill leaves no zeros, and nothing brings them back.
LEMMA NextFilledOK ==
  ASSUME TypeOK, FilledOK, NEW t \in Threads, Step(t)
  PROVE  FilledOK'
<1>1. CASE GetRandom(t)
  <2>1. PICK k \in 0 .. Size :
          /\ buffer' = [i \in Places |-> IF i < k THEN <<calls', i>> ELSE buffer[i]]
          /\ filled' = (filled \/ k = Size)
    BY <1>1 DEF GetRandom
  <2>2. calls' \in Nat /\ calls' # 0
    BY <1>1 DEF GetRandom, TypeOK
  <2>3. \A i \in Places : i < Size
    BY SizeAssumption DEF Places
  <2> QED BY <2>1, <2>2, <2>3 DEF FilledOK
<1>2. CASE ~GetRandom(t)
  <2>1. UNCHANGED <<buffer, filled>>
    BY <1>2 DEF Step, Call, Test, LoadHead, AdvanceHead, Read, ResetHead, Direct
  <2> QED BY <2>1 DEF FilledOK
<1> QED BY <1>1, <1>2

\* The histories only grow, so calm now means calm before.
LEMMA CalmBefore ==
  ASSUME TypeOK, NEW t \in Threads, Step(t), Calm'
  PROVE  Calm
<1>1. (raced => raced') /\ (crossed => crossed')
  <2>1. CASE Call(t) \/ Test(t)
    BY <2>1 DEF Call, Test, Observe
  <2>2. CASE ~(Call(t) \/ Test(t))
    BY <2>2 DEF Step, LoadHead, AdvanceHead, Read, ResetHead, GetRandom, Direct
  <2> QED BY <2>1, <2>2
<1>2. faults' = faults \/ faults' = faults + 1
  BY DEF Step, Call, Test, LoadHead, AdvanceHead, Read, ResetHead, GetRandom, Direct
<1> QED BY <1>1, <1>2 DEF Calm, TypeOK

\* The steps of a draw that hand out nothing.
LEMMA FreshSteps ==
  ASSUME TypeOK, RoomOK, NEW t \in Threads, Calm, Calm', NEW g \in 0 .. calls,
         HandedOutBelow(g),
         Call(t) \/ Test(t) \/ LoadHead(t) \/ AdvanceHead(t) \/ ResetHead(t)
  PROVE  HandedOutBelow(g)'
<1>t. /\ head \in Nat /\ Size \in Nat /\ pc \in [Threads -> Labels]
      /\ width \in [Threads -> 1 .. Size] /\ ptr \in [Threads -> Nat]
      /\ calls \in Nat /\ g \in Nat
      /\ \A v, u \in Threads :
           v # u => ~(pc[v] \in {"load", "advance"} /\ pc[u] \in {"load", "advance"})
  BY SizeAssumption DEF TypeOK, RoomOK, Calm
<1>u. UNCHANGED <<buffer, calls, drawn>> /\ \A i : Units(i)' = Units(i)
  BY DEF Call, Test, LoadHead, AdvanceHead, ResetHead, Units
<1>p. \A u \in Threads \ {t} : pc'[u] = pc[u] /\ width'[u] = width[u] /\ ptr'[u] = ptr[u]
  BY <1>t DEF Call, Test, LoadHead, AdvanceHead, ResetHead, Goto
<1>o. /\ \A i \in Places : buffer[i] = <<g, i>>
      /\ \A i \in DOMAIN drawn : \A u \in Units(i) :
            /\ u \in Unit /\ u[1] <= calls
            /\ u[1] = g => /\ u[2] < head \/ \E v \in Threads : pc[v] = "fill"
                           /\ \A v \in Threads : pc[v] = "read"
                                 => u[2] < ptr[v] \/ u[2] >= ptr[v] + width[v]
      /\ \A v \in Threads : /\ pc[v] = "advance" => ptr[v] = head
                            /\ pc[v] = "read" => ptr[v] + width[v] <= head
      /\ \A v, u \in Threads :
            v # u => /\ pc[v] \in {"reset", "fill"} => pc[u] = "idle"
                     /\ pc[v] = "read" /\ pc[u] = "read" =>
                          ptr[v] + width[v] <= ptr[u] \/ ptr[u] + width[u] <= ptr[v]
  BY DEF HandedOutBelow
<1>1. CASE Call(t)
  <2>1. /\ UNCHANGED <<head, ptr>> /\ pc[t] = "idle" /\ pc' = [pc EXCEPT ![t] = "test"]
    BY <1>1 DEF Call, Goto
  <2>2. \A v, u \in Threads : v # u => (pc'[v] \in {"reset", "fill"} => pc'[u] = "idle")
    <3>1. ~Two({"reset", "fill"}, {"test", "load", "advance", "read", "reset", "fill"})'
      BY <1>1 DEF Call, Observe, Calm
    <3>2. \A u \in Threads : pc'[u] \in Labels
      BY <1>t, <2>1 DEF Labels
    <3> QED BY <3>1, <3>2 DEF Two, Labels
  <2>3. \A v \in Threads : (pc'[v] = "fill" <=> pc[v] = "fill") /\ (pc'[v] = "read" <=> pc[v] = "read")
                           /\ (pc'[v] = "advance" <=> pc[v] = "advance")
                           /\ (pc[v] \in {"read", "advance"} => ptr'[v] = ptr[v] /\ width'[v] = width[v])
    BY <1>t, <1>p, <2>1
  <2> QED BY <1>u, <1>o, <2>1, <2>2, <2>3 DEF HandedOutBelow
<1>2. CASE Test(t)
  <2>1. /\ UNCHANGED <<head, ptr, width>> /\ pc[t] = "test"
        /\ pc' = [pc EXCEPT ![t] = IF Enough(width[t]) THEN "load" ELSE "reset"]
    BY <1>2 DEF Test, Goto
  <2>2. \A v, u \in Threads : v # u => (pc'[v] \in {"reset", "fill"} => pc'[u] = "idle")
    <3>1. ~Two({"reset", "fill"}, {"test", "load", "advance", "read", "reset", "fill"})'
      BY <1>2 DEF Test, Observe, Calm
    <3>2. \A u \in Threads : pc'[u] \in Labels
      BY <1>t, <2>1 DEF Labels
    <3> QED BY <3>1, <3>2 DEF Two, Labels
  <2>3. \A v \in Threads : (pc'[v] = "fill" <=> pc[v] = "fill") /\ (pc'[v] = "read" <=> pc[v] = "read")
                           /\ (pc'[v] = "advance" <=> pc[v] = "advance")
    BY <1>t, <1>p, <2>1
  <2> QED BY <1>u, <1>o, <2>1, <2>2, <2>3 DEF HandedOutBelow
<1>3. CASE LoadHead(t)
  <2>1. /\ UNCHANGED <<head, width>> /\ pc[t] = "load"
        /\ pc' = [pc EXCEPT ![t] = "advance"] /\ ptr' = [ptr EXCEPT ![t] = head]
    BY <1>3 DEF LoadHead, Goto
  <2>2. \A v \in Threads : /\ (pc'[v] = "fill" <=> pc[v] = "fill")
                           /\ (pc'[v] = "read" <=> pc[v] = "read")
                           /\ (pc'[v] = "reset" <=> pc[v] = "reset")
                           /\ (pc'[v] = "idle" <=> pc[v] = "idle")
                           /\ (pc[v] = "read" => ptr'[v] = ptr[v])
                           /\ (pc'[v] = "advance" => ptr'[v] = head)
    BY <1>t, <1>p, <1>o, <2>1
  <2> QED BY <1>u, <1>o, <2>1, <2>2 DEF HandedOutBelow
<1>4. CASE AdvanceHead(t)
  <2>1. /\ UNCHANGED <<ptr, width>> /\ pc[t] = "advance" /\ ptr[t] = head
        /\ pc' = [pc EXCEPT ![t] = "read"] /\ head' = head + width[t]
    BY <1>4, <1>o DEF AdvanceHead, Goto
  <2>2. \A v \in Threads : pc'[v] \notin {"advance", "fill"} /\ pc[v] \notin {"reset", "fill"}
                           /\ (pc'[v] = "read" => v = t \/ pc[v] = "read")
    BY <1>t, <1>p, <1>o, <2>1
  <2>3. \A v \in Threads : pc'[v] = "read" => ptr[v] + width[v] <= head'
    BY <1>t, <1>o, <2>1, <2>2
  <2>4. ASSUME NEW i \in DOMAIN drawn, NEW u \in Units(i), u[1] = g
        PROVE  /\ u[2] < head'
               /\ \A v \in Threads : pc'[v] = "read" => u[2] < ptr[v] \/ u[2] >= ptr[v] + width[v]
    <3>1. u[2] < head /\ u[2] \in Nat
      BY <1>o, <2>2, <2>4 DEF Unit
    <3> QED BY <1>t, <1>o, <2>1, <2>2, <2>4, <3>1
  <2>5. \A v, u \in Threads : v # u /\ pc'[v] = "read" /\ pc'[u] = "read" =>
                          ptr[v] + width[v] <= ptr[u] \/ ptr[u] + width[u] <= ptr[v]
    BY <1>o, <2>1, <2>2
  <2>6. \A v \in Threads : pc'[v] \notin {"reset", "fill"}
    BY <1>t, <1>p, <2>1, <2>2
  <2> QED BY <1>u, <1>o, <2>1, <2>2, <2>3, <2>4, <2>5, <2>6 DEF HandedOutBelow
<1>5. CASE ResetHead(t)
  <2>1. /\ UNCHANGED <<ptr, width>> /\ pc[t] = "reset"
        /\ pc' = [pc EXCEPT ![t] = "fill"] /\ head' = 0
    BY <1>5 DEF ResetHead, Goto
  <2>2. pc'[t] = "fill" /\ \A v \in Threads \ {t} : pc'[v] = "idle"
    BY <1>t, <1>p, <1>o, <2>1
  <2> QED BY <1>u, <1>o, <2>1, <2>2 DEF HandedOutBelow
<1> QED BY <1>1, <1>2, <1>3, <1>4, <1>5

\* The units a draw from the buffer takes.
LEMMA ReadUnits ==
  ASSUME TypeOK, RoomOK, NEW t \in Threads, Calm, NEW g \in 0 .. calls,
         HandedOutBelow(g), pc[t] = "read",
         NEW j \in DOMAIN Value(t)
  PROVE  /\ Value(t)[j] = <<g, ptr[t] + j>>
         /\ Value(t)[j] \in Unit
         /\ j \in Nat /\ j < width[t]
<1>1. /\ width[t] \in 1 .. Size /\ ptr[t] \in Nat /\ Size \in Nat /\ g \in Nat
      /\ ptr[t] + width[t] <= Size
  BY SizeAssumption DEF TypeOK, RoomOK, Calm
<1>2. DOMAIN Value(t) = 0 .. width[t] - 1
  BY ValueType
<1>3. j \in Nat /\ j < width[t] /\ ptr[t] + j \in Places
  BY <1>1, <1>2 DEF Places
<1>4. Value(t)[j] = buffer[ptr[t] + j]
  BY <1>2, <1>3 DEF Value
<1>5. buffer[ptr[t] + j] = <<g, ptr[t] + j>>
  BY <1>3 DEF HandedOutBelow
<1> QED BY <1>1, <1>3, <1>4, <1>5 DEF Unit

\* A draw from the buffer hands out its own place and no other's.
LEMMA FreshRead ==
  ASSUME TypeOK, RoomOK, NEW t \in Threads, Calm, NEW g \in 0 .. calls,
         HandedOutBelow(g), Read(t)
  PROVE  HandedOutBelow(g)'
<1> DEFINE d == [of |-> "buffer", value |-> Value(t), filled |-> filled]
<1>t. /\ head \in Nat /\ pc \in [Threads -> Labels]
      /\ width \in [Threads -> 1 .. Size] /\ ptr \in [Threads -> Nat]
      /\ calls \in Nat /\ g \in Nat /\ g <= calls /\ Size \in Nat
  BY SizeAssumption DEF TypeOK
<1>1. /\ UNCHANGED <<head, buffer, calls>> /\ pc[t] = "read" /\ drawn' = Append(drawn, d)
      /\ pc' = [pc EXCEPT ![t] = "idle"] /\ pc'[t] = "idle"
      /\ \A u \in Threads \ {t} : ptr'[u] = ptr[u] /\ width'[u] = width[u] /\ pc'[u] = pc[u]
  BY <1>t DEF Read, Goto
<1>2. d \in Draws /\ d.value = Value(t)
  BY ValueType DEF Draws, TypeOK
<1> HIDE DEF d
<1>o. /\ \A i \in Places : buffer[i] = <<g, i>>
      /\ \A i \in DOMAIN drawn : \A u \in Units(i) :
            /\ u \in Unit /\ u[1] <= calls
            /\ u[1] = g => /\ u[2] < head \/ \E v \in Threads : pc[v] = "fill"
                           /\ \A v \in Threads : pc[v] = "read"
                                 => u[2] < ptr[v] \/ u[2] >= ptr[v] + width[v]
      /\ \A v \in Threads : /\ pc[v] = "advance" => ptr[v] = head
                            /\ pc[v] = "read" => ptr[v] + width[v] <= head
      /\ \A v, u \in Threads :
            v # u => /\ pc[v] \in {"reset", "fill"} => pc[u] = "idle"
                     /\ pc[v] = "read" /\ pc[u] = "read" =>
                          ptr[v] + width[v] <= ptr[u] \/ ptr[u] + width[u] <= ptr[v]
  BY DEF HandedOutBelow
<1>3. ASSUME NEW i \in DOMAIN drawn, NEW u \in Units(i)
      PROVE  /\ u \in Unit /\ u[1] <= calls'
             /\ u[1] = g => /\ u[2] < head' \/ \E v \in Threads : pc'[v] = "fill"
                            /\ \A v \in Threads : pc'[v] = "read"
                                  => u[2] < ptr'[v] \/ u[2] >= ptr'[v] + width'[v]
  <2>1. \A v \in Threads : (pc'[v] = "fill" <=> pc[v] = "fill")
                           /\ (pc'[v] = "read" => v # t /\ pc[v] = "read")
    BY <1>1
  <2> QED BY <1>o, <1>1, <1>3, <2>1
<1>4. ASSUME NEW j \in DOMAIN Value(t)
      PROVE  LET u == Value(t)[j]
             IN  /\ u \in Unit /\ u[1] <= calls'
                 /\ u[2] < head'
                 /\ \A v \in Threads : pc'[v] = "read"
                       => u[2] < ptr'[v] \/ u[2] >= ptr'[v] + width'[v]
  <2>1. /\ Value(t)[j] = <<g, ptr[t] + j>> /\ Value(t)[j] \in Unit
        /\ j \in Nat /\ j < width[t]
    BY <1>1, <1>4, ReadUnits
  <2> DEFINE x == ptr[t] + j
  <2>2. /\ x \in Nat /\ ptr[t] <= x /\ x < ptr[t] + width[t] /\ x < head
    BY <1>t, <1>o, <1>1, <2>1
  <2>3. Value(t)[j][1] = g /\ Value(t)[j][2] = x
    BY <2>1
  <2> HIDE DEF x
  <2>4. \A v \in Threads : pc'[v] = "read" => x < ptr'[v] \/ x >= ptr'[v] + width'[v]
    <3> SUFFICES ASSUME NEW v \in Threads, pc'[v] = "read"
                 PROVE  x < ptr'[v] \/ x >= ptr'[v] + width'[v]
      OBVIOUS
    <3>1. v # t /\ pc[v] = "read" /\ ptr'[v] = ptr[v] /\ width'[v] = width[v]
      BY <1>1
    <3>2. ptr[t] + width[t] <= ptr[v] \/ ptr[v] + width[v] <= ptr[t]
      BY <3>1, <1>1, <1>o
    <3>3. ptr[t] \in Nat /\ ptr[v] \in Nat /\ width[t] \in Nat /\ width[v] \in Nat
      BY <1>t
    <3> QED BY <3>1, <3>2, <3>3, <2>2
  <2> QED BY <1>t, <1>1, <2>1, <2>2, <2>3, <2>4
<1>5. \A i \in DOMAIN drawn' : \A u \in Units(i)' :
         /\ u \in Unit /\ u[1] <= calls'
         /\ u[1] = g => /\ u[2] < head' \/ \E v \in Threads : pc'[v] = "fill"
                        /\ \A v \in Threads : pc'[v] = "read"
                              => u[2] < ptr'[v] \/ u[2] >= ptr'[v] + width'[v]
  <2>1. /\ DOMAIN drawn' = DOMAIN drawn \union {Len(drawn) + 1}
        /\ \A i \in DOMAIN drawn : Units(i)' = Units(i)
        /\ \A k : k = Len(drawn) + 1 => Units(k)' = {Value(t)[j] : j \in DOMAIN Value(t)}
    BY <1>1, <1>2, AppendDrawn
  <2> QED BY <1>3, <1>4, <2>1
<1>6. \A v \in Threads : /\ pc'[v] = "advance" => ptr'[v] = head'
                         /\ pc'[v] = "read" => ptr'[v] + width'[v] <= head'
  BY <1>1, <1>o
<1>7. \A v, u \in Threads :
          v # u => /\ pc'[v] \in {"reset", "fill"} => pc'[u] = "idle"
                   /\ pc'[v] = "read" /\ pc'[u] = "read" =>
                        ptr'[v] + width'[v] <= ptr'[u] \/ ptr'[u] + width'[u] <= ptr'[v]
  BY <1>1, <1>o
<1>8. \A i \in Places : buffer'[i] = <<g, i>>
  BY <1>1, <1>o
<1> QED BY <1>5, <1>6, <1>7, <1>8 DEF HandedOutBelow

\* A refill that works gives a buffer nothing was handed out of.
LEMMA FreshFill ==
  ASSUME TypeOK, NEW t \in Threads, Calm, Calm', NEW g \in 0 .. calls,
         HandedOutBelow(g), GetRandom(t)
  PROVE  \E h \in 0 .. calls' : HandedOutBelow(h)'
<1>t. /\ pc \in [Threads -> Labels] /\ calls \in Nat /\ faults \in Nat /\ Size \in Nat
  BY SizeAssumption DEF TypeOK
<1>1. /\ UNCHANGED <<head, width, ptr, drawn>> /\ pc[t] = "fill" /\ calls' = calls + 1
      /\ pc' = [pc EXCEPT ![t] = "test"]
  BY DEF GetRandom, Goto
<1>2. PICK k \in 0 .. Size :
        /\ buffer' = [i \in Places |-> IF i < k THEN <<calls', i>> ELSE buffer[i]]
        /\ faults' = IF k < Size THEN faults + 1 ELSE faults
  BY DEF GetRandom
<1>3. k = Size
  BY <1>t, <1>2 DEF Calm
<1> DEFINE h == calls + 1
<1>4. \A i \in Places : buffer'[i] = <<h, i>>
  <2>1. \A i \in Places : i < Size
    BY <1>t DEF Places
  <2> QED BY <1>1, <1>2, <1>3, <2>1
<1>5. pc'[t] = "test" /\ \A v \in Threads \ {t} : pc'[v] = "idle"
  <2>1. \A v \in Threads \ {t} : pc[v] = "idle"
    BY <1>1 DEF HandedOutBelow
  <2> QED BY <1>t, <1>1, <2>1
<1>6. \A i \in DOMAIN drawn' : \A u \in Units(i)' : u \in Unit /\ u[1] <= calls' /\ u[1] # h
  <2>1. \A i : Units(i)' = Units(i)
    BY <1>1 DEF Units
  <2>2. \A i \in DOMAIN drawn : \A u \in Units(i) : u \in Unit /\ u[1] <= calls
    BY DEF HandedOutBelow
  <2>3. \A u \in Unit : u[1] \in Nat
    BY DEF Unit
  <2> QED BY <1>t, <1>1, <2>1, <2>2, <2>3
<1>7. h \in 0 .. calls'
  BY <1>t, <1>1
<1> HIDE DEF h
<1>8. \A x : x = h => HandedOutBelow(x)'
  BY <1>4, <1>5, <1>6 DEF HandedOutBelow
<1> QED BY <1>7, <1>8

\* A value of a call of its own is no unit of the buffer.
LEMMA FreshDirect ==
  ASSUME TypeOK, NEW t \in Threads, Calm, Calm', NEW g \in 0 .. calls,
         HandedOutBelow(g), Direct(t)
  PROVE  /\ HandedOutBelow(g)'
         /\ \E d \in Draws :
               /\ drawn' = Append(drawn, d) /\ d.of = "direct"
               /\ \A j \in DOMAIN d.value : d.value[j] \in Unit /\ d.value[j][1] = calls + 1
<1>t. /\ calls \in Nat /\ faults \in Nat /\ g \in Nat /\ g <= calls
  BY DEF TypeOK
<1>1. /\ UNCHANGED <<head, buffer, width, ptr, pc>> /\ calls' = calls + 1
  BY DEF Direct
<1>2. PICK n \in Widths, ok \in BOOLEAN :
         /\ faults' = IF ok THEN faults ELSE faults + 1
         /\ drawn' = Append(drawn, [of |-> "direct", filled |-> filled,
                                    value |-> [i \in 0 .. n - 1 |->
                                                 <<IF ok THEN calls' ELSE 0, i>>]])
  BY DEF Direct
<1>3. ok
  BY <1>t, <1>2 DEF Calm
<1> DEFINE v == [i \in 0 .. n - 1 |-> <<calls + 1, i>>]
           d == [of |-> "direct", filled |-> filled, value |-> v]
<1>4. drawn' = Append(drawn, d)
  BY <1>1, <1>2, <1>3
<1>5. v \in Values
  BY <1>t, DirectType
<1>6. \A j \in DOMAIN v : v[j] \in Unit /\ v[j][1] = calls + 1
  BY <1>t, WidthsAssumption, SizeAssumption DEF Unit
<1> HIDE DEF v
<1>7. d \in Draws /\ d.value = v /\ d.of = "direct"
  BY <1>5 DEF Draws, TypeOK
<1> HIDE DEF d
<1>8. /\ DOMAIN drawn' = DOMAIN drawn \union {Len(drawn) + 1}
      /\ \A i \in DOMAIN drawn : Units(i)' = Units(i)
      /\ \A k : k = Len(drawn) + 1 => Units(k)' = {v[j] : j \in DOMAIN v}
  BY <1>4, <1>7, AppendDrawn
<1>9. HandedOutBelow(g)'
  <2>1. \A i \in DOMAIN drawn : \A u \in Units(i) :
            /\ u \in Unit /\ u[1] <= calls'
            /\ u[1] = g => /\ u[2] < head \/ \E w \in Threads : pc[w] = "fill"
                           /\ \A w \in Threads : pc[w] = "read"
                                 => u[2] < ptr[w] \/ u[2] >= ptr[w] + width[w]
    <3>1. \A u \in Unit : u[1] \in Nat
      BY DEF Unit
    <3>2. \A x \in Nat : x <= calls => x <= calls'
      BY <1>t, <1>1
    <3> QED BY <3>1, <3>2 DEF HandedOutBelow
  <2>2. \A j \in DOMAIN v : v[j] \in Unit /\ v[j][1] <= calls' /\ v[j][1] # g
    BY <1>t, <1>1, <1>6
  <2>3. \A i \in DOMAIN drawn' : \A u \in Units(i)' :
            /\ u \in Unit /\ u[1] <= calls'
            /\ u[1] = g => /\ u[2] < head \/ \E w \in Threads : pc[w] = "fill"
                           /\ \A w \in Threads : pc[w] = "read"
                                 => u[2] < ptr[w] \/ u[2] >= ptr[w] + width[w]
    BY <1>8, <2>1, <2>2
  <2> QED BY <1>1, <2>3 DEF HandedOutBelow
<1> QED BY <1>4, <1>6, <1>7, <1>9

\* What is handed out is fresh, and stays the only copy.
LEMMA NextFresh ==
  ASSUME RandomInvariant, NEW t \in Threads, Step(t)
  PROVE  FreshOK' /\ HandedOutOnce'
<1> SUFFICES ASSUME Calm' PROVE FreshOK' /\ HandedOutOnce'
  BY DEF FreshOK, HandedOutOnce, Calm
<1>1. TypeOK /\ RoomOK /\ Calm
  BY CalmBefore DEF RandomInvariant
<1>2. PICK g \in 0 .. calls : HandedOutBelow(g)
  BY <1>1 DEF RandomInvariant, FreshOK
<1>3. \A i, j \in DOMAIN drawn : i < j => Units(i) \intersect Units(j) = {}
  BY <1>1 DEF RandomInvariant, DrawsFresh, HandedOutOnce, Calm
<1>4. ASSUME NEW d \in Draws, drawn' = Append(drawn, d),
             \A i \in DOMAIN drawn : \A u \in Units(i) :
                \A j \in DOMAIN d.value : u # d.value[j]
      PROVE  HandedOutOnce'
  <2>1. /\ DOMAIN drawn' = DOMAIN drawn \union {Len(drawn) + 1}
        /\ \A i \in DOMAIN drawn : i < Len(drawn) + 1 /\ Units(i)' = Units(i) /\ i \in Nat
        /\ \A k : k = Len(drawn) + 1 => Units(k)' = {d.value[j] : j \in DOMAIN d.value}
        /\ Len(drawn) \in Nat
    BY <1>1, <1>4, AppendDrawn DEF TypeOK
  <2>2. ASSUME NEW i \in DOMAIN drawn', NEW j \in DOMAIN drawn', i < j
        PROVE  Units(i)' \intersect Units(j)' = {}
    <3>1. i \in DOMAIN drawn
      BY <2>1, <2>2
    <3>2. CASE j \in DOMAIN drawn
      BY <1>3, <2>1, <2>2, <3>1, <3>2
    <3>3. CASE j = Len(drawn) + 1
      BY <1>4, <2>1, <3>1, <3>3
    <3> QED BY <2>1, <3>2, <3>3
  <2> QED BY <2>2 DEF HandedOutOnce
<1>5. CASE Call(t) \/ Test(t) \/ LoadHead(t) \/ AdvanceHead(t) \/ ResetHead(t)
  <2>1. UNCHANGED <<drawn, calls>>
    BY <1>5 DEF Call, Test, LoadHead, AdvanceHead, ResetHead
  <2>2. HandedOutBelow(g)'
    BY <1>1, <1>2, <1>5, FreshSteps
  <2> QED BY <1>3, <2>1, <2>2 DEF FreshOK, HandedOutOnce, Units
<1>6. CASE Read(t)
  <2> DEFINE d == [of |-> "buffer", value |-> Value(t), filled |-> filled]
  <2>1. /\ UNCHANGED calls /\ pc[t] = "read" /\ drawn' = Append(drawn, d)
    BY <1>6 DEF Read
  <2>2. d \in Draws /\ d.value = Value(t)
    BY <1>1, ValueType DEF Draws, TypeOK
  <2> HIDE DEF d
  <2>3. ASSUME NEW i \in DOMAIN drawn, NEW u \in Units(i), NEW j \in DOMAIN Value(t)
        PROVE  u # Value(t)[j]
    <3>1. /\ Value(t)[j] = <<g, ptr[t] + j>> /\ j \in Nat /\ j < width[t]
      BY <1>1, <1>2, <2>1, ReadUnits
    <3>2. u[1] = g => u[2] < ptr[t] \/ u[2] >= ptr[t] + width[t]
      BY <1>2, <2>1 DEF HandedOutBelow
    <3>3. ptr[t] \in Nat /\ width[t] \in Nat
      BY <1>1, SizeAssumption DEF TypeOK
    <3>4. ~(ptr[t] + j < ptr[t]) /\ ~(ptr[t] + j >= ptr[t] + width[t])
      BY <3>1, <3>3
    <3> QED BY <3>1, <3>2, <3>4
  <2>4. HandedOutBelow(g)'
    BY <1>1, <1>2, <1>6, FreshRead
  <2> QED BY <1>4, <2>1, <2>2, <2>3, <2>4 DEF FreshOK
<1>7. CASE GetRandom(t)
  <2>1. UNCHANGED drawn
    BY <1>7 DEF GetRandom
  <2>2. FreshOK'
    BY <1>1, <1>2, <1>7, FreshFill DEF FreshOK
  <2> QED BY <1>3, <2>1, <2>2 DEF HandedOutOnce, Units
<1>8. CASE Direct(t)
  <2>1. HandedOutBelow(g)'
    BY <1>1, <1>2, <1>8, FreshDirect
  <2>2. PICK d \in Draws :
              /\ drawn' = Append(drawn, d)
              /\ \A j \in DOMAIN d.value : d.value[j] \in Unit /\ d.value[j][1] = calls + 1
    BY <1>1, <1>2, <1>8, FreshDirect
  <2>3. ASSUME NEW i \in DOMAIN drawn, NEW u \in Units(i), NEW j \in DOMAIN d.value
        PROVE  u # d.value[j]
    <3>1. u \in Unit /\ u[1] <= calls
      BY <1>2 DEF HandedOutBelow
    <3>2. calls \in Nat /\ u[1] \in Nat
      BY <1>1, <3>1 DEF TypeOK, Unit
    <3> QED BY <2>2, <3>1, <3>2
  <2>4. HandedOutOnce'
    BY <1>4, <2>2, <2>3
  <2>5. g \in 0 .. calls'
    BY <1>1, <1>8 DEF Direct, TypeOK
  <2> QED BY <2>1, <2>4, <2>5 DEF FreshOK
<1> QED BY <1>5, <1>6, <1>7, <1>8 DEF Step

\* The zeros of the start are drawn no more once the buffer was filled.
LEMMA NextZeros ==
  ASSUME RandomInvariant, NEW t \in Threads, Step(t)
  PROVE  ZerosUntilFilled'
<1>1. TypeOK /\ FilledOK /\ ZerosUntilFilled
  BY DEF RandomInvariant, DrawsFresh
<1>2. ASSUME NEW d \in Draws, drawn' = Append(drawn, d),
             d.of = "buffer" /\ d.filled =>
                \A j \in DOMAIN d.value : d.value[j] # NULL => d.value[j][1] # 0
      PROVE  ZerosUntilFilled'
  <2>1. /\ DOMAIN drawn' = DOMAIN drawn \union {Len(drawn) + 1}
        /\ \A i \in DOMAIN drawn : Units(i)' = Units(i) /\ drawn'[i] = drawn[i]
        /\ drawn'[Len(drawn) + 1] = d
        /\ \A k : k = Len(drawn) + 1 => Units(k)' = {d.value[j] : j \in DOMAIN d.value}
    BY <1>1, <1>2, AppendDrawn
  <2>2. ASSUME NEW i \in DOMAIN drawn', drawn'[i].of = "buffer", drawn'[i].filled,
               NEW u \in Units(i)', u # NULL
        PROVE  u[1] # 0
    <3>1. CASE i \in DOMAIN drawn
      BY <1>1, <2>1, <2>2, <3>1 DEF ZerosUntilFilled
    <3>2. CASE i = Len(drawn) + 1
      BY <1>2, <2>1, <2>2, <3>2
    <3> QED BY <2>1, <3>1, <3>2
  <2> QED BY <2>2 DEF ZerosUntilFilled
<1>3. CASE Read(t)
  <2> DEFINE d == [of |-> "buffer", value |-> Value(t), filled |-> filled]
  <2>1. drawn' = Append(drawn, d)
    BY <1>3 DEF Read
  <2>2. d \in Draws /\ d.value = Value(t) /\ d.filled = filled
    BY <1>1, ValueType DEF Draws, TypeOK
  <2> HIDE DEF d
  <2>3. ASSUME filled, NEW j \in DOMAIN Value(t), Value(t)[j] # NULL
        PROVE  Value(t)[j][1] # 0
    <3>1. j \in 0 .. width[t] - 1
      BY <1>1, <2>3, ValueType
    <3>2. ptr[t] + j \in Places /\ Value(t)[j] = buffer[ptr[t] + j]
      BY <2>3, <3>1 DEF Value
    <3> QED BY <1>1, <2>3, <3>2 DEF FilledOK
  <2> QED BY <1>2, <2>1, <2>2, <2>3
<1>4. CASE Direct(t)
  <2>1. PICK n \in Widths, ok \in BOOLEAN :
           drawn' = Append(drawn, [of |-> "direct", filled |-> filled,
                                   value |-> [i \in 0 .. n - 1 |->
                                                <<IF ok THEN calls' ELSE 0, i>>]])
    BY <1>4 DEF Direct
  <2> DEFINE c == IF ok THEN calls' ELSE 0
             v == [i \in 0 .. n - 1 |-> <<c, i>>]
             d == [of |-> "direct", filled |-> filled, value |-> v]
  <2>2. c \in Nat
    BY <1>1, <1>4 DEF Direct, TypeOK
  <2>3. drawn' = Append(drawn, d)
    BY <2>1
  <2> HIDE DEF c
  <2>4. v \in Values
    BY <2>2, DirectType
  <2> HIDE DEF v
  <2>5. d \in Draws /\ d.of # "buffer"
    BY <1>1, <2>4 DEF Draws, TypeOK
  <2> HIDE DEF d
  <2> QED BY <1>2, <2>3, <2>5
<1>5. CASE ~Read(t) /\ ~Direct(t)
  <2>1. UNCHANGED drawn
    BY <1>5 DEF Step, Call, Test, LoadHead, AdvanceHead, ResetHead, GetRandom
  <2> QED BY <1>1, <2>1 DEF ZerosUntilFilled, Units
<1> QED BY <1>3, <1>4, <1>5

-----------------------------------------------------------------------------
\* The invariant above is inductive.
LEMMA NextInvariant == RandomInvariant /\ [Next]_vars => RandomInvariant'
<1> SUFFICES ASSUME RandomInvariant, [Next]_vars PROVE RandomInvariant'
  OBVIOUS
<1>1. ASSUME NEW t \in Threads, Step(t) PROVE RandomInvariant'
  <2>1. TypeOK' /\ RoomOK' /\ FilledOK'
    BY <1>1, NextTypeOK, NextRoomOK, NextFilledOK DEF RandomInvariant
  <2>2. FreshOK' /\ HandedOutOnce' /\ ZerosUntilFilled'
    BY <1>1, NextFresh, NextZeros
  <2> QED BY <2>1, <2>2 DEF RandomInvariant, DrawsFresh
<1>2. CASE UNCHANGED vars
  <2>1. /\ UNCHANGED <<head, buffer, calls, pc, width, ptr, drawn, faults, filled, raced, crossed>>
        /\ \A i : Units(i)' = Units(i)
    BY <1>2 DEF vars, Units
  <2>2. TypeOK' /\ RoomOK' /\ FilledOK'
    BY <2>1 DEF RandomInvariant, TypeOK, RoomOK, FilledOK
  <2>3. \A g : HandedOutBelow(g)' <=> HandedOutBelow(g)
    BY <2>1 DEF HandedOutBelow
  <2>4. FreshOK'
    BY <2>1, <2>3 DEF RandomInvariant, FreshOK, Calm
  <2>5. HandedOutOnce' /\ ZerosUntilFilled'
    BY <2>1 DEF RandomInvariant, DrawsFresh, HandedOutOnce, ZerosUntilFilled
  <2> QED BY <2>2, <2>4, <2>5 DEF RandomInvariant, DrawsFresh
<1> QED BY <1>1, <1>2 DEF Next

\* RandomInvariant holds of every reachable state.
THEOREM RandomInvariantHolds == Spec => []RandomInvariant
BY InitInvariant, NextInvariant, PTL DEF Spec

\* For every size of the buffer, set of widths and number of threads: without
\* a race between a test and an advance, get_random_from_buffer_u16, _u32 and
\* _u64 read only what the buffer holds, refills by other threads included.
THEOREM ReadsStayInBuffer == Spec => []ReadsInBuffer
<1>1. RandomInvariant => ReadsInBuffer
  BY DEF RandomInvariant, RoomOK, ReadsInBuffer
<1> QED BY <1>1, RandomInvariantHolds, PTL

\* Under the named conditions no random unit is handed out twice, by whichever
\* function, and the zeros the buffer starts with are not drawn after a
\* complete refill.
THEOREM DrawsAreFresh == Spec => []DrawsFresh
<1>1. RandomInvariant => DrawsFresh
  BY DEF RandomInvariant
<1> QED BY <1>1, RandomInvariantHolds, PTL
=============================================================================
