--------------------------- MODULE T1ClientProofs ---------------------------
(***************************************************************************)
(* Proofs about the timer wheel and the loop of create_client on it, for   *)
(* every size of the wheel, set of nodes and timeouts: the lists of the    *)
(* wheel survive every insert and expiry, a timer is off its time by       *)
(* exactly what FireTiming says, and the client retransmits early only by  *)
(* the lag of its thread, and not without bound.                           *)
(***************************************************************************)
EXTENDS T1Client, FiniteSetTheorems, SequenceTheorems, WellFoundedInduction, TLAPS

-----------------------------------------------------------------------------
(***************************************************************************)
(* The inductive invariant of the wheel                                    *)
(***************************************************************************)
TypeOK == /\ timers \in [Slots -> Nodes \union {NULL}] /\ current \in Slots
          /\ next \in [Nodes -> Nodes \union {NULL}]
          /\ prev \in [Nodes -> Nodes \union {NULL}]
          /\ signal \in [Nodes -> Nat] /\ retries \in [Nodes -> Nat]
          /\ pc \in {"idle", "hung", "scan", "advance"}
          /\ first \in Nodes \union {NULL} /\ t \in Nodes \union {NULL}
          /\ res \in Seq(Nat)
          /\ due \in [Nodes -> Int]
          /\ at \in [Nodes -> Slots \union {NULL}]

Distinct(f) == \A i, j \in 1 .. Len(f) : f[i] = f[j] => i = j

\* The allocator holds the nodes that are not armed, and as many of them as
\* the tick has reported signals.
FreeOK == /\ free \in Seq(Nodes) /\ Distinct(free)
          /\ \A n \in Nodes : at[n] = NULL <=> \E i \in 1 .. Len(free) : free[i] = n
          /\ pc \in {"scan", "advance"} => Len(res) <= Len(free)

\* The place after place i of a circular list.
After(f, i) == IF i = Len(f) THEN 1 ELSE i + 1

\* f is the list of slot s, from its head.
IsList(s, f) ==
  /\ f \in Seq(Nodes) /\ Distinct(f)
  /\ \A n \in Nodes : at[n] = s <=> \E i \in 1 .. Len(f) : f[i] = n
  /\ timers[s] = IF f = << >> THEN NULL ELSE f[1]
  /\ \A i \in 1 .. Len(f) : /\ next[f[i]] = f[After(f, i)]
                            /\ prev[f[After(f, i)]] = f[i]

ListsOK == \A s \in Slots : \E f \in Seq(Nodes) : IsList(s, f)

\* Ticks until the slot of n comes up, and how far off its time n fires when
\* that is after retries[n] more turns.
Ahead(n) == IF at[n] >= current THEN at[n] - current ELSE at[n] - current + Max
Error(n) == due[n] - (Ahead(n) + 1 + Max * retries[n])

\* n has been counted down as often as its slot has come up, or has.
OnCourse(n) == Error(n) \in {0, -Max}
Counted(n) == Error(n) \in {0, Max}

\* The first lap of a tick: the nodes before t have been counted down.
FirstLap ==
  \E f \in Seq(Nodes) : \E k \in 1 .. Len(f) :
     /\ IsList(current, f) /\ f[1] = first /\ f[k] = t
     /\ \A i \in 1 .. Len(f) : IF i < k THEN Counted(f[i]) ELSE OnCourse(f[i])

\* The laps after the head of the slot has fired: the slot is drained, and a
\* node that was counted down has its time before it.
Draining == \A n \in Nodes : at[n] = current => OnCourse(n) \/ due[n] >= 1

TickOK ==
  /\ pc = "scan" => /\ t \in Nodes /\ first \in Nodes /\ at[t] = current
                    /\ IF Armed(first) THEN FirstLap ELSE Draining
  /\ pc = "advance" => \A n \in Nodes : at[n] = current => Counted(n)

InTick == pc \in {"scan", "advance"}
TimingOK == \A n \in Nodes : Armed(n) /\ (InTick => at[n] # current) => OnCourse(n)

WheelInvariant == TypeOK /\ FreeOK /\ ListsOK /\ TickOK /\ TimingOK

-----------------------------------------------------------------------------
(***************************************************************************)
(* The inductive invariant of the client                                   *)
(***************************************************************************)
ClientTypeOK == /\ cpc \in {"arm", "outer", "inner", "tick", "handle", "failed"}
                /\ t1 \in Nat \ {0} /\ retrans \in Nat /\ lag \in Nat
                /\ todo \in {0, 1} /\ since \in Nat /\ batch \in Nat
                /\ elapsed \in Nat /\ late \in Nat
                /\ pc # "hung" /\ (cpc = "tick" <=> InTick)

\* T1 is the one timer of the wheel, or has expired and is not armed again.
Waiting == \E n \in Nodes : /\ \A m \in Nodes : Armed(m) <=> m = n
                            /\ signal[n] = T1Expire
                            /\ due[n] = t1 - since
NoneArmed == \A n \in Nodes : ~Armed(n)
Expired == NoneArmed /\ res = <<T1Expire>>

T1OK == /\ cpc = "arm" => NoneArmed /\ since = 0 /\ retrans = 0
        /\ cpc \in {"outer", "inner", "failed"} => Waiting
        /\ cpc = "tick" =>
             \/ Waiting /\ res = << >> /\ (pc = "scan" => first = t)
             \/ Expired /\ pc = "advance" /\ since - t1 \in {-1, Max - 1}
        /\ cpc = "handle" =>
             IF todo = 0 THEN Waiting ELSE Expired /\ since - t1 \in {0, Max}

\* Steps of the current catch-up that T1 has seen.
Seen == batch - lag + (IF cpc = "handle" THEN 1 ELSE 0)

\* Beyond the limit every INIT has taken RtoMax of the steps being caught up.
LimitOK == /\ cpc \in {"arm", "outer", "failed"} => lag = 0
           /\ cpc \in {"tick", "handle"} => lag > 0
           /\ lag <= batch
           /\ retrans <= MaxRetrans => t1 = Timeout[retrans]
           /\ retrans > MaxRetrans => /\ t1 = RtoMax
                                      /\ RtoMax * (retrans - MaxRetrans - 1) + since <= Seen

\* The wheel and the clock: since T1 was armed the wheel has made the ticks of
\* the steps that have passed, of those it was behind then, and of none that it
\* is behind now.
ClockOK == elapsed + late = since + lag - (IF cpc = "handle" THEN 1 ELSE 0)

ClientInvariant == WheelInvariant /\ ClientTypeOK /\ T1OK /\ LimitOK /\ ClockOK

-----------------------------------------------------------------------------
(***************************************************************************)
(* Numbers, sequences and the constants                                    *)
(***************************************************************************)
\* What the assumptions say of the slots and of the null pointer.
LEMMA Constants ==
  /\ Max \in Nat \ {0} /\ 0 \in Slots /\ Slots \subseteq Nat
  /\ \A s \in Slots : s \in Int /\ 0 <= s /\ s < Max
  /\ NULL \notin Nodes /\ NULL \notin Slots /\ IsFiniteSet(Nodes)
BY MaxAssumption, NodesAssumption, NullAssumption DEF Slots

\* A number is its quotient and its remainder.
LEMMA QuotientRemainder ==
  ASSUME NEW m \in Nat \ {0}, NEW x \in Nat
  PROVE  x \div m \in Nat /\ x % m \in 0 .. m - 1 /\ x = m * (x \div m) + (x % m)
<1>1. x \div m \in Int /\ x % m \in 0 .. m - 1 /\ x = m * (x \div m) + (x % m)
  OBVIOUS
<1>2. x \div m >= 0
  OBVIOUS
<1> QED BY <1>1, <1>2

\* A set of natural numbers has a least element.
LEMMA LeastElement ==
  ASSUME NEW S \in SUBSET Nat, S # {}
  PROVE  \E x \in S : \A y \in S : x <= y
<1> DEFINE R == OpToRel(<, Nat)
<1>1. IsWellFoundedOn(R, Nat)
  BY NatLessThanWellFounded
<1>2. \A x, y \in Nat : x < y => <<x, y>> \in R
  BY DEF OpToRel
<1> HIDE DEF R
<1>3. PICK x \in S : \A y \in S : ~ (<<y, x>> \in R)
  BY <1>1, WFMin
<1>4. \A y \in S : ~(y < x) /\ y \in Nat /\ x \in Nat
  BY <1>2, <1>3
<1>5. \A y \in S : x <= y
  BY <1>4
<1> QED BY <1>3, <1>5

\* w[i] is F applied i times to x.
Iterates(F, x, N, w) == w = [i \in 0 .. N |-> IF i = 0 THEN x ELSE F[w[i - 1]]]

\* A function can be applied as often as one likes.
LEMMA IterateExists ==
  ASSUME NEW F, NEW x, NEW N \in Nat
  PROVE  \E w : Iterates(F, x, N, w)
<1> DEFINE G(m) == \E w : w = [i \in 0 .. m |-> IF i = 0 THEN x ELSE F[w[i - 1]]]
           S == {m \in Nat : ~G(m)}
<1>1. SUFFICES S = {}
  <2>1. G(N)
    BY <1>1
  <2> QED BY <2>1 DEF Iterates
<1>2. SUFFICES ASSUME S # {} PROVE FALSE
  OBVIOUS
<1> HIDE DEF G
<1>3. PICK m \in S : \A y \in S : m <= y
  <2>1. S \in SUBSET Nat
    OBVIOUS
  <2> QED BY <2>1, <1>2, LeastElement
<1>4. m \in Nat /\ ~G(m)
  BY <1>3
<1>5. CASE m = 0
  <2> DEFINE v == [i \in 0 .. 0 |-> x]
  <2>1. \A i \in 0 .. 0 : i = 0
    OBVIOUS
  <2>2. v = [i \in 0 .. 0 |-> IF i = 0 THEN x ELSE F[v[i - 1]]]
    BY <2>1
  <2>3. G(0)
    BY <2>2 DEF G
  <2> QED BY <2>3, <1>4, <1>5
<1>6. CASE m # 0
  <2>1. m - 1 \in Nat /\ ~(m <= m - 1)
    BY <1>4, <1>6
  <2>2. G(m - 1)
    BY <2>1, <1>3
  <2>3. PICK w : w = [i \in 0 .. m - 1 |-> IF i = 0 THEN x ELSE F[w[i - 1]]]
    BY <2>2 DEF G
  <2> DEFINE v == [i \in 0 .. m |-> IF i < m THEN w[i] ELSE F[w[m - 1]]]
             e(i) == IF i = 0 THEN x ELSE F[v[i - 1]]
  <2>4. \A i \in 0 .. m - 1 : w[i] = IF i = 0 THEN x ELSE F[w[i - 1]]
    BY <2>3
  <2>5. \A i \in 0 .. m : v[i] = IF i < m THEN w[i] ELSE F[w[m - 1]]
    OBVIOUS
  <2>6. v = [i \in 0 .. m |-> v[i]]
    OBVIOUS
  <2> HIDE DEF v
  <2>7. ASSUME NEW i \in 0 .. m PROVE v[i] = e(i)
    <3>1. CASE i = 0
      BY <3>1, <2>1, <2>4, <2>5
    <3>2. CASE i # 0 /\ i < m
      <4>1. /\ i \in 0 .. m - 1 /\ i - 1 \in 0 .. m /\ i - 1 < m /\ i - 1 \in 0 .. m - 1
        BY <3>2, <1>4
      <4>2. v[i] = w[i] /\ v[i - 1] = w[i - 1]
        BY <3>2, <4>1, <2>5
      <4> QED BY <3>2, <4>1, <4>2, <2>4
    <3>3. CASE i # 0 /\ ~(i < m)
      <4>1. i = m /\ m - 1 \in 0 .. m /\ m - 1 < m
        BY <3>3, <1>4, <1>6
      <4>2. v[i] = F[w[m - 1]] /\ v[m - 1] = w[m - 1]
        BY <3>3, <4>1, <2>5
      <4> QED BY <3>3, <4>1, <4>2
    <3> QED BY <3>1, <3>2, <3>3
  <2>8. v = [i \in 0 .. m |-> e(i)]
    BY <2>6, <2>7
  <2>9. G(m)
    BY <2>8 DEF G
  <2> QED BY <2>9, <1>4
<1> QED BY <1>5, <1>6

\* The places of a circular list.
LEMMA AfterInRange ==
  ASSUME NEW f \in Seq(Nodes), NEW i \in 1 .. Len(f)
  PROVE  /\ After(f, i) \in 1 .. Len(f) /\ f[After(f, i)] \in Nodes /\ f[i] \in Nodes
         /\ i # Len(f) => After(f, i) = i + 1
         /\ i = Len(f) => After(f, i) = 1
BY DEF After

-----------------------------------------------------------------------------
(***************************************************************************)
(* The lists of the wheel                                                  *)
(***************************************************************************)
\* The head of a slot is null exactly when its list is empty.
LEMMA HeadOfList ==
  ASSUME NEW s \in Slots, NEW f \in Seq(Nodes), IsList(s, f)
  PROVE  /\ timers[s] = NULL <=> Len(f) = 0
         /\ Len(f) # 0 => timers[s] = f[1] /\ f[1] \in Nodes
<1>1. f = << >> <=> Len(f) = 0
  BY EmptySeq
<1>2. Len(f) # 0 => f[1] \in Nodes
  OBVIOUS
<1> QED BY <1>1, <1>2, Constants DEF IsList

\* A list whose nodes, head and links are left alone stays one.
LEMMA OtherList ==
  ASSUME NEW s \in Slots, NEW f \in Seq(Nodes), IsList(s, f),
         timers'[s] = timers[s],
         \A n \in Nodes : at'[n] = s <=> at[n] = s,
         \A n \in Nodes : at[n] = s => next'[n] = next[n] /\ prev'[n] = prev[n]
  PROVE  IsList(s, f)'
<1>1. \A n \in Nodes : at'[n] = s <=> \E i \in 1 .. Len(f) : f[i] = n
  BY DEF IsList
<1>2. \A i \in 1 .. Len(f) : at[f[i]] = s /\ f[i] \in Nodes
  BY DEF IsList
<1>3. \A i \in 1 .. Len(f) : After(f, i) \in 1 .. Len(f)
  BY AfterInRange
<1>4. \A i \in 1 .. Len(f) : /\ next'[f[i]] = f[After(f, i)]
                            /\ prev'[f[After(f, i)]] = f[i]
  BY <1>2, <1>3 DEF IsList
<1> QED BY <1>1, <1>4 DEF IsList, After

\* insert_ringtimer makes the new node the last one of its slot.
LEMMA LinkAppends ==
  ASSUME TypeOK, NEW s \in Slots, NEW f \in Seq(Nodes), IsList(s, f),
         NEW n \in Nodes, at[n] = NULL, Link(n, s), at' = [at EXCEPT ![n] = s],
         NEW g \in Seq(Nodes), Len(g) = Len(f) + 1, g[Len(g)] = n,
         \A i \in 1 .. Len(f) : g[i] = f[i]
  PROVE  IsList(s, g)'
<1>1. /\ g \in Seq(Nodes) /\ Len(g) = Len(f) + 1 /\ g[Len(g)] = n /\ Len(f) \in Nat
      /\ \A i \in 1 .. Len(f) : g[i] = f[i]
  OBVIOUS
<1>2. \A i \in 1 .. Len(f) : f[i] # n /\ f[i] \in Nodes
  BY Constants DEF IsList
<1>3. \A i \in 1 .. Len(g) : i \in 1 .. Len(f) \/ i = Len(g)
  BY <1>1
<1>4. Distinct(g)
  BY <1>1, <1>2, <1>3 DEF Distinct, IsList
<1>5. \A m \in Nodes : at'[m] = s <=> \E i \in 1 .. Len(g) : g[i] = m
  <2> SUFFICES ASSUME NEW m \in Nodes
               PROVE  at'[m] = s <=> \E i \in 1 .. Len(g) : g[i] = m
    OBVIOUS
  <2>1. CASE m = n
    <3>1. at'[m] = s
      BY <2>1 DEF TypeOK
    <3>2. Len(g) \in 1 .. Len(g)
      BY <1>1
    <3> QED BY <3>1, <3>2, <2>1, <1>1
  <2>2. CASE m # n
    <3>1. at'[m] = at[m]
      BY <2>2 DEF TypeOK
    <3>2. at[m] = s <=> \E i \in 1 .. Len(f) : f[i] = m
      BY DEF IsList
    <3>3. (\E i \in 1 .. Len(f) : f[i] = m) <=> (\E i \in 1 .. Len(g) : g[i] = m)
      BY <2>2, <1>1, <1>3
    <3> QED BY <3>1, <3>2, <3>3
  <2> QED BY <2>1, <2>2
<1>6. g # << >> /\ (Len(f) # 0 => g[1] = f[1]) /\ (Len(f) = 0 => g[1] = n)
  BY <1>1
<1>7. CASE timers[s] = NULL
  <2>1. Len(f) = 0 /\ Len(g) = 1 /\ g[1] = n
    BY <1>7, <1>1, HeadOfList
  <2>2. timers'[s] = n /\ next'[n] = n /\ prev'[n] = n
    BY <1>7 DEF Link, TypeOK
  <2>3. \A i \in 1 .. Len(g) : i = 1 /\ After(g, i) = 1
    BY <2>1 DEF After
  <2>4. \A i \in 1 .. Len(g) : next'[g[i]] = g[After(g, i)] /\ prev'[g[After(g, i)]] = g[i]
    BY <2>1, <2>2, <2>3
  <2> QED BY <1>1, <1>4, <1>5, <1>6, <2>1, <2>2, <2>4 DEF IsList, After
<1>8. CASE timers[s] # NULL
  <2> DEFINE k == Len(f)
  <2>1. k \in Nat \ {0} /\ timers[s] = f[1] /\ 1 \in 1 .. k /\ k \in 1 .. k
    BY <1>8, HeadOfList
  <2>2. prev[f[1]] = f[k]
    BY <2>1 DEF IsList, After
  <2>3. /\ next' = [next EXCEPT ![f[k]] = n, ![n] = f[1]]
        /\ prev' = [prev EXCEPT ![n] = f[k], ![f[1]] = n]
        /\ timers' = timers
    BY <1>8, <2>1, <2>2 DEF Link
  <2>4. /\ next'[n] = f[1] /\ next'[f[k]] = n /\ prev'[n] = f[k] /\ prev'[f[1]] = n
        /\ \A m \in Nodes : m # n /\ m # f[k] => next'[m] = next[m]
        /\ \A m \in Nodes : m # n /\ m # f[1] => prev'[m] = prev[m]
    BY <2>1, <2>3, <1>2 DEF TypeOK
  <2>5. ASSUME NEW i \in 1 .. Len(g)
        PROVE  next'[g[i]] = g[After(g, i)] /\ prev'[g[After(g, i)]] = g[i]
    <3>1. CASE i = k + 1
      <4>1. After(g, i) = 1 /\ g[1] = f[1] /\ g[i] = n
        BY <3>1, <1>1, <2>1 DEF After
      <4> QED BY <4>1, <2>4
    <3>2. CASE i = k
      <4>1. After(g, i) = k + 1 /\ g[i] = f[k] /\ g[k + 1] = n
        BY <3>2, <1>1, <2>1 DEF After
      <4> QED BY <4>1, <2>4
    <3>3. CASE i \in 1 .. k - 1
      <4>1. After(g, i) = i + 1 /\ g[i] = f[i] /\ g[i + 1] = f[i + 1]
        BY <3>3, <1>1, <2>1 DEF After
      <4>2. /\ i \in 1 .. k /\ i + 1 \in 1 .. k /\ i # k /\ i + 1 # 1 /\ After(f, i) = i + 1
        BY <3>3, <2>1 DEF After
      <4>3. f[i] # f[k] /\ f[i + 1] # f[1]
        BY <4>2, <2>1 DEF IsList, Distinct
      <4>4. next[f[i]] = f[i + 1] /\ prev[f[i + 1]] = f[i]
        BY <4>2 DEF IsList
      <4> QED BY <4>1, <4>2, <4>3, <4>4, <2>4, <1>2
    <3> QED BY <3>1, <3>2, <3>3, <1>1, <2>1
  <2>6. timers'[s] = g[1]
    BY <2>1, <2>3, <1>6
  <2> QED BY <1>1, <1>4, <1>5, <1>6, <2>5, <2>6 DEF IsList, After
<1> QED BY <1>7, <1>8

\* The list f without its k-th node, and the place in f of its i-th node.
Place(k, i) == IF i < k THEN i ELSE i + 1
Without(f, k) == [i \in 1 .. Len(f) - 1 |-> f[Place(k, i)]]

IsWithout(f, k, g) ==
  /\ g \in Seq(Nodes) /\ Distinct(g) /\ Len(g) = Len(f) - 1
  /\ \A i \in 1 .. Len(f) - 1 : /\ g[i] = f[Place(k, i)]
                                /\ Place(k, i) \in 1 .. Len(f) /\ Place(k, i) # k
  /\ \A n \in Nodes : (\E i \in 1 .. Len(f) - 1 : g[i] = n)
                         <=> n # f[k] /\ \E i \in 1 .. Len(f) : f[i] = n

\* What is left when a node is taken out of a list.
LEMMA WithoutNode ==
  ASSUME NEW f \in Seq(Nodes), Distinct(f), NEW k \in 1 .. Len(f)
  PROVE  IsWithout(f, k, Without(f, k))
<1> DEFINE g == Without(f, k)
<1>1. Len(f) \in Nat /\ Len(f) - 1 \in Nat /\ \A i \in 1 .. Len(f) : f[i] \in Nodes
  OBVIOUS
<1>2. \A i \in 1 .. Len(f) - 1 : Place(k, i) \in 1 .. Len(f) /\ Place(k, i) # k
  BY <1>1 DEF Place
<1>3. \A i \in 1 .. Len(f) - 1 : g[i] = f[Place(k, i)]
  BY DEF Without
<1>4. g \in Seq(Nodes) /\ Len(g) = Len(f) - 1
  BY <1>1, <1>2 DEF Without
<1> HIDE DEF g
<1>5. Distinct(g)
  <2> SUFFICES ASSUME NEW i \in 1 .. Len(g), NEW j \in 1 .. Len(g), g[i] = g[j]
               PROVE  i = j
    BY DEF Distinct
  <2>1. Place(k, i) = Place(k, j)
    BY <1>2, <1>3, <1>4 DEF Distinct
  <2> QED BY <2>1, <1>1, <1>4 DEF Place
<1>6. ASSUME NEW n \in Nodes
      PROVE  (\E i \in 1 .. Len(f) - 1 : g[i] = n)
                <=> n # f[k] /\ \E i \in 1 .. Len(f) : f[i] = n
  <2>1. ASSUME NEW i \in 1 .. Len(f) - 1, g[i] = n
        PROVE  n # f[k] /\ \E j \in 1 .. Len(f) : f[j] = n
    BY <2>1, <1>2, <1>3 DEF Distinct
  <2>2. ASSUME NEW j \in 1 .. Len(f), f[j] = n, n # f[k]
        PROVE  \E i \in 1 .. Len(f) - 1 : g[i] = n
    <3> DEFINE i == IF j < k THEN j ELSE j - 1
    <3>1. j # k
      BY <2>2
    <3>2. i \in 1 .. Len(f) - 1 /\ Place(k, i) = j
      BY <3>1, <1>1 DEF Place
    <3> QED BY <3>2, <2>2, <1>3
  <2> QED BY <2>1, <2>2
<1> QED BY <1>2, <1>3, <1>4, <1>5, <1>6 DEF g, IsWithout

\* tick_ringtimer takes the node it fires out of the list.
LEMMA UnlinkRemoves ==
  ASSUME TypeOK, NEW s \in Slots, s = current, NEW f \in Seq(Nodes), IsList(s, f),
         NEW k \in 1 .. Len(f), f[k] = t, Unlink, at' = [at EXCEPT ![t] = NULL],
         NEW g \in Seq(Nodes), IsWithout(f, k, g)
  PROVE  IsList(s, g)'
<1> DEFINE L == Len(f)
<1>1. /\ g \in Seq(Nodes) /\ Distinct(g) /\ Len(g) = L - 1
      /\ \A i \in 1 .. L - 1 : /\ g[i] = f[Place(k, i)]
                               /\ Place(k, i) \in 1 .. L /\ Place(k, i) # k
      /\ \A n \in Nodes : (\E i \in 1 .. L - 1 : g[i] = n)
                             <=> n # f[k] /\ \E i \in 1 .. L : f[i] = n
  BY DEF IsWithout
<1>2. L \in Nat /\ L # 0 /\ t \in Nodes /\ timers[s] = f[1]
  BY HeadOfList
<1>3. \A i \in 1 .. L : f[i] \in Nodes
  OBVIOUS
<1>4. \A n \in Nodes : at'[n] = s <=> \E i \in 1 .. Len(g) : g[i] = n
  <2>1. \A n \in Nodes : at'[n] = s <=> n # f[k] /\ at[n] = s
    BY <1>2, Constants DEF TypeOK
  <2>2. \A n \in Nodes : at[n] = s <=> \E i \in 1 .. L : f[i] = n
    BY DEF IsList
  <2> QED BY <2>1, <2>2, <1>1
<1>5. CASE L = 1
  <2>1. next[t] = t
    BY <1>5 DEF IsList, After
  <2>2. timers'[s] = NULL
    BY <2>1 DEF Unlink, TypeOK
  <2>3. g = << >> /\ Len(g) = 0
    BY <1>5, <1>1, EmptySeq
  <2>4. \A i \in 1 .. Len(g) : FALSE
    BY <2>3
  <2> QED BY <1>1, <1>4, <2>2, <2>3, <2>4 DEF IsList, After
<1>6. CASE L >= 2
  <2> DEFINE p == IF k = 1 THEN L ELSE k - 1
             r == After(f, k)
  <2>1. p \in 1 .. L /\ r \in 1 .. L /\ After(f, p) = k /\ r # k
    BY <1>6, <1>2 DEF After
  <2>2. next[t] = f[r] /\ prev[t] = f[p]
    BY <2>1 DEF IsList
  <2>3. f[r] # t
    BY <2>1 DEF IsList, Distinct
  <2>4. /\ next' = [next EXCEPT ![f[p]] = f[r]] /\ prev' = [prev EXCEPT ![f[r]] = f[p]]
        /\ timers' = IF timers[s] = t THEN [timers EXCEPT ![s] = f[r]] ELSE timers
    BY <2>2, <2>3 DEF Unlink
  <2>5. /\ next'[f[p]] = f[r] /\ prev'[f[r]] = f[p]
        /\ \A n \in Nodes : n # f[p] => next'[n] = next[n]
        /\ \A n \in Nodes : n # f[r] => prev'[n] = prev[n]
    BY <2>1, <2>4, <1>3 DEF TypeOK
  <2>6. timers'[s] = g[1] /\ Len(g) # 0
    <3>1. 1 \in 1 .. L - 1 /\ g[1] = f[Place(k, 1)] /\ Len(g) # 0
      <4>1. L \in Nat
        BY <1>2
      <4> HIDE DEF L
      <4>2. 1 \in 1 .. L - 1 /\ L - 1 # 0
        BY <4>1, <1>6
      <4> QED BY <4>2, <1>1
    <3>2. CASE k = 1
      <4>1. r = 2 /\ Place(k, 1) = 2 /\ timers[s] = t
        <5>1. r = 2
          BY <3>2, <1>6, <1>2, AfterInRange
        <5>2. Place(k, 1) = 2
          BY <3>2 DEF Place
        <5> QED BY <5>1, <5>2, <3>2, <1>2
      <4> QED BY <4>1, <3>1, <2>4 DEF TypeOK
    <3>3. CASE k # 1
      <4>1. Place(k, 1) = 1
        BY <3>3 DEF Place
      <4>2. f[1] # t
        BY <3>3, <1>6 DEF IsList, Distinct
      <4> QED BY <4>1, <4>2, <3>1, <2>4, <1>2
    <3> QED BY <3>2, <3>3
  <2>7. ASSUME NEW i \in 1 .. Len(g)
        PROVE  next'[g[i]] = g[After(g, i)] /\ prev'[g[After(g, i)]] = g[i]
    <3> DEFINE j == After(g, i)
               a == Place(k, i)
               q == After(f, a)
    <3>1. i \in 1 .. L - 1 /\ j \in 1 .. L - 1 /\ j = IF i = L - 1 THEN 1 ELSE i + 1
      BY <1>1, <1>6 DEF After
    <3>2. /\ a \in 1 .. L /\ a # k /\ g[i] = f[a] /\ g[j] = f[Place(k, j)]
          /\ Place(k, j) \in 1 .. L
      BY <3>1, <1>1
    <3>3. q \in 1 .. L /\ q = IF a = L THEN 1 ELSE a + 1
      BY <3>2 DEF After
    <3>4. r = IF k = L THEN 1 ELSE k + 1
      BY DEF After
    <3>5. /\ a = p => Place(k, j) = r
          /\ a # p => Place(k, j) = q /\ q # r
      <4>1. p = IF k = 1 THEN L ELSE k - 1
        OBVIOUS
      <4>2. k \in 1 .. L
        OBVIOUS
      <4> HIDE DEF L, r, j, q, p
      <4>3. CASE i < k
        <5>1. a = i
          BY <4>3 DEF Place
        <5> HIDE DEF a
        <5> QED BY <5>1, <4>1, <4>2, <4>3, <3>1, <3>3, <3>4, <1>6, <1>2 DEF Place
      <4>4. CASE i >= k
        <5>1. a = i + 1
          BY <4>4 DEF Place
        <5> HIDE DEF a
        <5> QED BY <5>1, <4>1, <4>2, <4>4, <3>1, <3>3, <3>4, <1>6, <1>2 DEF Place
      <4> QED BY <4>2, <4>3, <4>4, <3>1
    <3>6. next[f[a]] = f[q] /\ prev[f[q]] = f[a]
      BY <3>2 DEF IsList
    <3>7. CASE a = p
      BY <3>7, <3>2, <3>5, <2>5
    <3>8. CASE a # p
      <4>1. f[a] # f[p] /\ f[q] # f[r]
        BY <3>8, <3>2, <3>3, <3>5, <2>1 DEF IsList, Distinct
      <4> QED BY <3>8, <4>1, <3>2, <3>3, <3>5, <3>6, <2>5, <1>3
    <3> QED BY <3>7, <3>8
  <2> QED BY <1>1, <1>4, <2>6, <2>7 DEF IsList, After
<1>7. L = 1 \/ L >= 2
  <2>1. L \in Nat /\ L # 0
    BY <1>2
  <2> HIDE DEF L
  <2> QED BY <2>1
<1> QED BY <1>5, <1>6, <1>7

\* An insert keeps the fields in range and every list of the wheel.
LEMMA LinkLists ==
  ASSUME TypeOK, ListsOK, NEW s \in Slots, NEW n \in Nodes, at[n] = NULL, Link(n, s),
         at' = [at EXCEPT ![n] = s]
  PROVE  /\ ListsOK'
         /\ timers' \in [Slots -> Nodes \union {NULL}]
         /\ next' \in [Nodes -> Nodes \union {NULL}]
         /\ prev' \in [Nodes -> Nodes \union {NULL}]
<1>1. PICK f \in Seq(Nodes) : IsList(s, f)
  BY DEF ListsOK
<1>2. /\ \A r \in Slots : r # s => timers'[r] = timers[r]
      /\ \A m \in Nodes : m # n /\ at[m] # s => next'[m] = next[m] /\ prev'[m] = prev[m]
  <2>1. CASE timers[s] = NULL
    BY <2>1 DEF Link, TypeOK
  <2>2. CASE timers[s] # NULL
    <3>1. /\ Len(f) # 0 /\ timers[s] = f[1] /\ 1 \in 1 .. Len(f) /\ Len(f) \in 1 .. Len(f)
          /\ f[1] \in Nodes /\ f[Len(f)] \in Nodes
      BY <2>2, <1>1, HeadOfList
    <3>2. prev[f[1]] = f[Len(f)] /\ at[f[1]] = s /\ at[f[Len(f)]] = s
      BY <3>1, <1>1 DEF IsList, After
    <3>3. /\ next' = [next EXCEPT ![f[Len(f)]] = n, ![n] = f[1]]
          /\ prev' = [prev EXCEPT ![n] = f[Len(f)], ![f[1]] = n]
          /\ timers' = timers
      BY <2>2, <3>1, <3>2 DEF Link
    <3>4. ASSUME NEW m \in Nodes, m # n, at[m] # s
          PROVE  next'[m] = next[m] /\ prev'[m] = prev[m]
      BY <3>1, <3>2, <3>3, <3>4 DEF TypeOK
    <3> QED BY <3>3, <3>4
  <2> QED BY <2>1, <2>2
<1>3. /\ \A m \in Nodes : m # n => at'[m] = at[m]
      /\ at'[n] = s
  BY DEF TypeOK
<1>4. ASSUME NEW r \in Slots
      PROVE  \E g \in Seq(Nodes) : IsList(r, g)'
  <2>1. CASE r = s
    <3> DEFINE h == Append(f, n)
    <3>1. /\ h \in Seq(Nodes) /\ Len(h) = Len(f) + 1 /\ h[Len(h)] = n
          /\ \A i \in 1 .. Len(f) : h[i] = f[i]
      OBVIOUS
    <3> HIDE DEF h
    <3>2. \E g \in Seq(Nodes) : /\ Len(g) = Len(f) + 1 /\ g[Len(g)] = n
                                /\ \A i \in 1 .. Len(f) : g[i] = f[i]
      BY <3>1
    <3>3. PICK g \in Seq(Nodes) : /\ Len(g) = Len(f) + 1 /\ g[Len(g)] = n
                                  /\ \A i \in 1 .. Len(f) : g[i] = f[i]
      BY <3>2
    <3>4. IsList(s, g)'
      BY <3>3, <1>1, LinkAppends
    <3> QED BY <3>4, <2>1
  <2>2. CASE r # s
    <3>1. PICK g \in Seq(Nodes) : IsList(r, g)
      BY DEF ListsOK
    <3>2. \A m \in Nodes : at'[m] = r <=> at[m] = r
      BY <2>2, <1>3, Constants
    <3>3. \A m \in Nodes : at[m] = r => next'[m] = next[m] /\ prev'[m] = prev[m]
      BY <2>2, <1>2, Constants
    <3>4. IsList(r, g)'
      BY <2>2, <3>1, <3>2, <3>3, <1>2, OtherList
    <3> QED BY <3>4
  <2> QED BY <2>1, <2>2
<1>5. ListsOK'
  BY <1>4 DEF ListsOK, Slots
<1>6. /\ timers' \in [Slots -> Nodes \union {NULL}]
      /\ next' \in [Nodes -> Nodes \union {NULL}]
      /\ prev' \in [Nodes -> Nodes \union {NULL}]
  <2>1. /\ timers \in [Slots -> Nodes \union {NULL}]
        /\ next \in [Nodes -> Nodes \union {NULL}]
        /\ prev \in [Nodes -> Nodes \union {NULL}]
    BY DEF TypeOK
  <2>2. CASE timers[s] = NULL
    BY <2>1, <2>2 DEF Link
  <2>3. CASE timers[s] # NULL
    <3> DEFINE a == timers[s]
               b == prev[a]
    <3>1. a \in Nodes
      BY <2>1, <2>3
    <3>2. b \in Nodes \union {NULL}
      BY <2>1, <3>1
    <3>3. /\ next' = [next EXCEPT ![b] = n, ![n] = a]
          /\ prev' = [prev EXCEPT ![n] = b, ![a] = n]
          /\ timers' = timers
      BY <2>3 DEF Link
    <3> HIDE DEF a, b
    <3> QED BY <2>1, <3>1, <3>2, <3>3
  <2> QED BY <2>2, <2>3
<1> QED BY <1>5, <1>6

\* So does taking out the node that fires.
LEMMA UnlinkLists ==
  ASSUME TypeOK, ListsOK, NEW s \in Slots, s = current, NEW f \in Seq(Nodes), IsList(s, f),
         NEW k \in 1 .. Len(f), f[k] = t, Unlink, at' = [at EXCEPT ![t] = NULL]
  PROVE  /\ ListsOK'
         /\ timers' \in [Slots -> Nodes \union {NULL}]
         /\ next' \in [Nodes -> Nodes \union {NULL}]
         /\ prev' \in [Nodes -> Nodes \union {NULL}]
<1>1. t \in Nodes /\ at[t] = s /\ next[t] \in Nodes /\ at[next[t]] = s
  <2>1. After(f, k) \in 1 .. Len(f) /\ next[t] = f[After(f, k)]
    BY AfterInRange DEF IsList
  <2>2. \A i \in 1 .. Len(f) : f[i] \in Nodes /\ at[f[i]] = s
    BY DEF IsList
  <2> QED BY <2>1, <2>2
<1>2. prev[t] \in Nodes /\ at[prev[t]] = s
  <2> DEFINE p == IF k = 1 THEN Len(f) ELSE k - 1
  <2>1. p \in 1 .. Len(f) /\ After(f, p) = k
    BY DEF After
  <2>2. prev[t] = f[p]
    BY <2>1 DEF IsList
  <2>3. \A i \in 1 .. Len(f) : f[i] \in Nodes /\ at[f[i]] = s
    BY DEF IsList
  <2> QED BY <2>1, <2>2, <2>3
<1>3. /\ \A r \in Slots : r # s => timers'[r] = timers[r]
      /\ \A m \in Nodes : at[m] # s => next'[m] = next[m] /\ prev'[m] = prev[m]
  <2>1. CASE next[t] = t
    BY <2>1 DEF Unlink, TypeOK, links
  <2>2. CASE next[t] # t
    <3> DEFINE a == next[t]
               b == prev[t]
    <3>1. /\ next' = [next EXCEPT ![b] = a] /\ prev' = [prev EXCEPT ![a] = b]
          /\ timers' = IF timers[s] = t THEN [timers EXCEPT ![s] = a] ELSE timers
      BY <2>2 DEF Unlink
    <3>2. a \in Nodes /\ at[a] = s /\ b \in Nodes /\ at[b] = s
      BY <1>1, <1>2
    <3> HIDE DEF a, b
    <3>3. \A r \in Slots : r # s => timers'[r] = timers[r]
      BY <3>1 DEF TypeOK
    <3>4. \A m \in Nodes : m # a /\ m # b => next'[m] = next[m] /\ prev'[m] = prev[m]
      BY <3>1 DEF TypeOK
    <3> QED BY <3>2, <3>3, <3>4
  <2> QED BY <2>1, <2>2
<1>4. \A m \in Nodes : m # t => at'[m] = at[m]
  BY DEF TypeOK
<1>5. at'[t] = NULL
  BY <1>1 DEF TypeOK
<1>6. ASSUME NEW r \in Slots
      PROVE  \E g \in Seq(Nodes) : IsList(r, g)'
  <2>1. CASE r = s
    <3>1. PICK g \in Seq(Nodes) : IsWithout(f, k, g)
      <4>1. Distinct(f)
        BY DEF IsList
      <4>2. IsWithout(f, k, Without(f, k))
        BY <4>1, WithoutNode
      <4>3. Without(f, k) \in Seq(Nodes)
        BY <4>2 DEF IsWithout
      <4> QED BY <4>2, <4>3
    <3>2. IsList(s, g)'
      BY <3>1, UnlinkRemoves
    <3> QED BY <3>2, <2>1
  <2>2. CASE r # s
    <3>1. PICK g \in Seq(Nodes) : IsList(r, g)
      BY DEF ListsOK
    <3>2. \A m \in Nodes : at'[m] = r <=> at[m] = r
      BY <2>2, <1>1, <1>4, <1>5, Constants
    <3>3. \A m \in Nodes : at[m] = r => next'[m] = next[m] /\ prev'[m] = prev[m]
      BY <2>2, <1>3
    <3>4. IsList(r, g)'
      BY <2>2, <3>1, <3>2, <3>3, <1>3, OtherList
    <3> QED BY <3>4
  <2> QED BY <2>1, <2>2
<1>7. ListsOK'
  BY <1>6 DEF ListsOK, Slots
<1>8. /\ timers' \in [Slots -> Nodes \union {NULL}]
      /\ next' \in [Nodes -> Nodes \union {NULL}]
      /\ prev' \in [Nodes -> Nodes \union {NULL}]
  BY <1>1 DEF Unlink, TypeOK, links
<1> QED BY <1>7, <1>8

-----------------------------------------------------------------------------
(***************************************************************************)
(* The times of the timers                                                 *)
(***************************************************************************)
\* The error of an armed timer is a number; the slot of the tick is 0 ahead.
LEMMA ErrorOfArmed ==
  ASSUME TypeOK, NEW n \in Nodes, Armed(n)
  PROVE  /\ at[n] \in Slots /\ Ahead(n) \in 0 .. Max - 1
         /\ Max * retries[n] \in Nat /\ due[n] \in Int /\ Error(n) \in Int
         /\ at[n] = current => Ahead(n) = 0
<1>1. at[n] \in Slots /\ current \in Slots /\ retries[n] \in Nat /\ due[n] \in Int
  BY DEF TypeOK, Armed
<1>2. /\ Max \in Nat /\ at[n] \in Int /\ 0 <= at[n] /\ at[n] < Max
      /\ current \in Int /\ 0 <= current /\ current < Max
  BY <1>1, Constants
<1>3. Ahead(n) \in 0 .. Max - 1 /\ (at[n] = current => Ahead(n) = 0)
  BY <1>2 DEF Ahead
<1>4. Max * retries[n] \in Nat
  BY <1>1, <1>2
<1> QED BY <1>1, <1>3, <1>4 DEF Error

\* A timer that a step leaves alone stays as far off its time as it was.
LEMMA SameCourse ==
  ASSUME NEW n \in Nodes, at'[n] = at[n], current' = current, due'[n] = due[n],
         retries'[n] = retries[n]
  PROVE  (OnCourse(n)' <=> OnCourse(n)) /\ (Counted(n)' <=> Counted(n))
BY DEF OnCourse, Counted, Error, Ahead

\* Insert: slot and turns of the new timer are those of its time, or one turn
\* more when the slot is before the current one.
LEMMA InsertedOnCourse ==
  ASSUME TypeOK, NEW time \in Nat \ {0}, NEW n \in Nodes, NEW slot \in Nat,
         slot = current + (time - 1), current' = current,
         at'[n] = slot % Max, retries'[n] = Retries(slot), due'[n] = time
  PROVE  OnCourse(n)'
<1> DEFINE q == slot \div Max
           r == slot % Max
<1>1. /\ Max \in Nat \ {0} /\ current \in Nat /\ current < Max
  BY Constants DEF TypeOK
<1>2. q \in Nat /\ r \in 0 .. Max - 1 /\ slot = Max * q + r
  BY <1>1, QuotientRemainder
<1>3. at'[n] = r /\ retries'[n] = q
  BY DEF Retries
<1> HIDE DEF q, r
<1>4. Max * q \in Nat
  BY <1>1, <1>2
<1>5. Error(n)' = time - ((IF r >= current THEN r - current ELSE r - current + Max) + 1 + Max * q)
  BY <1>3 DEF Error, Ahead
<1>6. Error(n)' \in {0, -Max}
  BY <1>1, <1>2, <1>4, <1>5
<1> QED BY <1>6 DEF OnCourse

-----------------------------------------------------------------------------
(***************************************************************************)
(* Every step keeps the wheel's invariant                                  *)
(***************************************************************************)
\* insert_ringtimer keeps the invariant, whatever signal and time it is given.
LEMMA InvInsert ==
  ASSUME WheelInvariant, NEW sig \in Nat, NEW time \in Nat \ {0}, Insert(sig, time)
  PROVE  WheelInvariant'
<1> DEFINE n == free[1]
           slot == current + (time - 1)
           s == slot % Max
<1>1. TypeOK /\ FreeOK /\ ListsOK /\ TickOK /\ TimingOK
  BY DEF WheelInvariant
<1>2. pc = "idle" /\ pc' = "idle" /\ current' = current /\ first' = first /\ t' = t /\ res' = res
  BY DEF Insert
<1>3. /\ free \in Seq(Nodes) /\ free # << >> /\ Head(free) = n /\ free' = Tail(free)
      /\ Len(free) \in Nat /\ Len(free) # 0
  BY <1>1, EmptySeq DEF Insert, FreeOK
<1>4. n \in Nodes /\ at[n] = NULL
  BY <1>1, <1>3 DEF FreeOK
<1>5. /\ Link(n, s) /\ at' = [at EXCEPT ![n] = s] /\ due' = [due EXCEPT ![n] = time]
      /\ signal' = [signal EXCEPT ![n] = sig]
      /\ retries' = [retries EXCEPT ![n] = Retries(slot)]
  BY <1>3 DEF Insert
<1>6. slot \in Nat /\ s \in Slots /\ Retries(slot) \in Nat
  <2>1. slot \in Nat
    BY <1>1, Constants DEF TypeOK
  <2> HIDE DEF slot
  <2> QED BY <2>1, Constants, QuotientRemainder DEF Retries, Slots
<1> HIDE DEF n, slot, s
<1>7. /\ \A m \in Nodes : m # n => /\ at'[m] = at[m] /\ due'[m] = due[m]
                                  /\ retries'[m] = retries[m]
      /\ at'[n] = s /\ due'[n] = time /\ retries'[n] = Retries(slot)
  BY <1>1, <1>4, <1>5 DEF TypeOK
<1>8. /\ ListsOK'
      /\ timers' \in [Slots -> Nodes \union {NULL}]
      /\ next' \in [Nodes -> Nodes \union {NULL}]
      /\ prev' \in [Nodes -> Nodes \union {NULL}]
  BY <1>1, <1>4, <1>5, <1>6, LinkLists
<1>9. TypeOK'
  <2>1. at' \in [Nodes -> Slots \union {NULL}] /\ due' \in [Nodes -> Int]
    <3>1. at \in [Nodes -> Slots \union {NULL}] /\ due \in [Nodes -> Int] /\ time \in Int
      BY <1>1 DEF TypeOK
    <3>2. at' \in [Nodes -> Slots \union {NULL}]
      BY <3>1, <1>5, <1>6
    <3>3. due' \in [Nodes -> Int]
      BY <3>1, <1>5
    <3> QED BY <3>2, <3>3
  <2>2. signal' \in [Nodes -> Nat] /\ retries' \in [Nodes -> Nat]
    BY <1>1, <1>5, <1>6 DEF TypeOK
  <2> QED BY <2>1, <2>2, <1>1, <1>2, <1>8 DEF TypeOK, Slots
<1>10. FreeOK'
  <2>1. /\ free' \in Seq(Nodes) /\ Len(free') = Len(free) - 1
        /\ \A i \in 1 .. Len(free) - 1 : free'[i] = free[i + 1]
    BY <1>3
  <2>2. Distinct(free')
    BY <2>1, <1>1, <1>3 DEF FreeOK, Distinct
  <2>3. ASSUME NEW m \in Nodes
        PROVE  at'[m] = NULL <=> \E i \in 1 .. Len(free') : free'[i] = m
    <3>1. CASE m = n
      <4>1. at'[m] # NULL
        BY <3>1, <1>6, <1>7, Constants
      <4>2. \A i \in 1 .. Len(free') : i + 1 \in 1 .. Len(free) /\ 1 \in 1 .. Len(free)
        BY <2>1, <1>3
      <4>3. \A i \in 1 .. Len(free') : free'[i] # n
        BY <4>2, <2>1, <1>1, <1>3 DEF FreeOK, Distinct, n
      <4> QED BY <4>1, <4>3, <3>1
    <3>2. CASE m # n
      <4>1. at'[m] = at[m]
        BY <3>2, <1>7
      <4>2. at[m] = NULL <=> \E i \in 1 .. Len(free) : free[i] = m
        BY <1>1 DEF FreeOK
      <4>3. ASSUME NEW i \in 1 .. Len(free), free[i] = m
            PROVE  \E j \in 1 .. Len(free') : free'[j] = m
        <5>1. i # 1
          BY <4>3, <3>2 DEF n
        <5>2. i - 1 \in 1 .. Len(free') /\ free'[i - 1] = free[i]
          BY <5>1, <2>1, <1>3
        <5> QED BY <5>2, <4>3
      <4>4. ASSUME NEW j \in 1 .. Len(free'), free'[j] = m
            PROVE  \E i \in 1 .. Len(free) : free[i] = m
        <5>1. j + 1 \in 1 .. Len(free) /\ free'[j] = free[j + 1]
          BY <2>1, <1>3
        <5> QED BY <5>1, <4>4
      <4> QED BY <4>1, <4>2, <4>3, <4>4
    <3> QED BY <3>1, <3>2
  <2> QED BY <2>1, <2>2, <2>3, <1>2 DEF FreeOK, Distinct
<1>11. TickOK'
  BY <1>2 DEF TickOK
<1>12. TimingOK'
  <2> SUFFICES ASSUME NEW m \in Nodes, Armed(m)' PROVE OnCourse(m)'
    BY DEF TimingOK
  <2>1. CASE m = n
    BY <2>1, <1>1, <1>2, <1>6, <1>7, InsertedOnCourse DEF s, slot
  <2>2. CASE m # n
    <3>1. Armed(m)
      BY <2>2, <1>7 DEF Armed
    <3>2. OnCourse(m)
      BY <3>1, <1>1, <1>2 DEF TimingOK, InTick
    <3> QED BY <3>2, <2>2, <1>2, <1>7, SameCourse
  <2> QED BY <2>1, <2>2
<1> QED BY <1>8, <1>9, <1>10, <1>11, <1>12 DEF WheelInvariant

\* As many distinct nodes as the list has members.
LEMMA IntervalSize ==
  ASSUME NEW k \in Nat
  PROVE  IsFiniteSet(1 .. k) /\ Cardinality(1 .. k) = k
<1>1. 1 \in Int /\ k \in Int
  OBVIOUS
<1>2. IsFiniteSet(1 .. k) /\ Cardinality(1 .. k) = IF 1 > k THEN 0 ELSE k - 1 + 1
  BY <1>1, FS_Interval
<1> QED BY <1>2

\* create_ringtimer establishes the invariant.
LEMMA InitInvariant == Init => WheelInvariant
<1> SUFFICES ASSUME Init PROVE WheelInvariant
  OBVIOUS
<1>1. TypeOK
  BY Constants DEF Init, TypeOK
<1>2. FreeOK
  <2> DEFINE k == Cardinality(Nodes)
  <2>1. k \in Nat
    BY Constants, FS_CardinalityType
  <2>2. /\ free \in [1 .. k -> Nodes] /\ pc = "idle"
        /\ \A n \in Nodes : \E i \in DOMAIN free : free[i] = n
        /\ \A n \in Nodes : at[n] = NULL
    BY DEF Init
  <2> HIDE DEF k
  <2>3. free \in Seq(Nodes) /\ Len(free) = k
    BY <2>1, <2>2
  <2>4. \A n \in Nodes : \E i \in 1 .. k : free[i] = n
    BY <2>2
  <2>5. free \in Surjection(1 .. k, Nodes)
    BY <2>2, <2>4 DEF Surjection
  <2>6. free \in Injection(1 .. k, Nodes)
    BY <2>1, <2>5, IntervalSize, FS_SurjSameCardinalityImpliesInj DEF k
  <2>7. Distinct(free)
    BY <2>2, <2>3, <2>6 DEF Injection, IsInjective, Distinct
  <2> QED BY <2>2, <2>3, <2>4, <2>7 DEF FreeOK
<1>3. ListsOK
  <2> SUFFICES ASSUME NEW s \in Slots PROVE \E f \in Seq(Nodes) : IsList(s, f)
    BY DEF ListsOK
  <2>1. << >> \in Seq(Nodes) /\ Len(<< >>) = 0
    OBVIOUS
  <2>2. timers[s] = NULL /\ \A n \in Nodes : at[n] # s
    BY Constants DEF Init
  <2>3. \A i \in 1 .. Len(<< >>) : FALSE
    BY <2>1
  <2>4. IsList(s, << >>)
    BY <2>1, <2>2, <2>3 DEF IsList, Distinct
  <2> QED BY <2>1, <2>4
<1>4. TickOK /\ TimingOK
  BY DEF Init, TickOK, TimingOK, Armed
<1> QED BY <1>1, <1>2, <1>3, <1>4 DEF WheelInvariant

\* A step that moves no node leaves the lists as they are.
LEMMA SameLists ==
  ASSUME timers' = timers, next' = next, prev' = prev, at' = at
  PROVE  /\ \A s \in Slots : \A f \in Seq(Nodes) : IsList(s, f)' <=> IsList(s, f)
         /\ ListsOK => ListsOK'
<1>1. \A s \in Slots : \A f \in Seq(Nodes) : IsList(s, f)' <=> IsList(s, f)
  BY DEF IsList, After
<1> QED BY <1>1 DEF ListsOK, Slots

\* Polling an empty allocator changes nothing but the control.
LEMMA InvInsertHangs == WheelInvariant /\ InsertHangs => WheelInvariant'
<1> SUFFICES ASSUME WheelInvariant, InsertHangs PROVE WheelInvariant'
  OBVIOUS
<1>1. TypeOK /\ FreeOK /\ ListsOK /\ TickOK /\ TimingOK
  BY DEF WheelInvariant
<1>2. /\ pc = "idle" /\ pc' = "hung" /\ timers' = timers /\ next' = next /\ prev' = prev
      /\ at' = at /\ current' = current /\ due' = due /\ retries' = retries /\ free' = free
      /\ signal' = signal /\ first' = first /\ t' = t /\ res' = res
  BY DEF InsertHangs, wheel, links
<1>3. TypeOK'
  BY <1>1, <1>2 DEF TypeOK, Slots
<1>4. FreeOK'
  BY <1>1, <1>2 DEF FreeOK, Distinct
<1>5. ListsOK'
  BY <1>1, <1>2, SameLists
<1>6. TickOK'
  BY <1>2 DEF TickOK
<1>7. TimingOK'
  BY <1>1, <1>2 DEF TimingOK, InTick, Armed, OnCourse, Error, Ahead
<1> QED BY <1>3, <1>4, <1>5, <1>6, <1>7 DEF WheelInvariant

\* A tick starts its first lap at the head of the slot.
LEMMA InvTickBegin == WheelInvariant /\ TickBegin => WheelInvariant'
<1> SUFFICES ASSUME WheelInvariant, TickBegin PROVE WheelInvariant'
  OBVIOUS
<1>1. TypeOK /\ FreeOK /\ ListsOK /\ TickOK /\ TimingOK
  BY DEF WheelInvariant
<1>2. /\ pc = "idle" /\ timers' = timers /\ next' = next /\ prev' = prev
      /\ at' = at /\ current' = current /\ due' = due /\ retries' = retries /\ free' = free
      /\ signal' = signal /\ res' = << >>
      /\ first' = timers[current] /\ t' = timers[current]
      /\ pc' = IF timers[current] = NULL THEN "advance" ELSE "scan"
  BY DEF TickBegin, wheel, links
<1>3. TypeOK'
  <2>1. timers[current] \in Nodes \union {NULL} /\ res' \in Seq(Nat)
    BY <1>1, <1>2 DEF TypeOK
  <2>2. pc' \in {"idle", "hung", "scan", "advance"}
    BY <1>2
  <2> QED BY <2>1, <2>2, <1>1, <1>2 DEF TypeOK, Slots
<1>4. FreeOK'
  <2>1. Len(res') = 0 /\ Len(free) \in Nat
    BY <1>1, <1>2 DEF FreeOK
  <2> QED BY <2>1, <1>1, <1>2 DEF FreeOK, Distinct
<1>5. ListsOK'
  BY <1>1, <1>2, SameLists
<1>6. \A n \in Nodes : (Armed(n)' <=> Armed(n)) /\ (OnCourse(n)' <=> OnCourse(n))
  BY <1>2, SameCourse DEF Armed
<1>7. \A n \in Nodes : Armed(n) => OnCourse(n)
  BY <1>1, <1>2 DEF TimingOK, InTick
<1>8. TimingOK'
  BY <1>6, <1>7 DEF TimingOK
<1>9. TickOK'
  <2>1. PICK f \in Seq(Nodes) : IsList(current, f)
    BY <1>1 DEF ListsOK, TypeOK
  <2>2. current \in Slots
    BY <1>1 DEF TypeOK
  <2>3. \A n \in Nodes : at[n] = current <=> \E i \in 1 .. Len(f) : f[i] = n
    BY <2>1 DEF IsList
  <2>4. CASE timers[current] = NULL
    <3>1. Len(f) = 0
      BY <2>1, <2>2, <2>4, HeadOfList
    <3>2. \A n \in Nodes : at'[n] # current'
      BY <3>1, <2>3, <1>2
    <3> QED BY <2>4, <3>2, <1>2 DEF TickOK
  <2>5. CASE timers[current] # NULL
    <3>1. Len(f) # 0 /\ timers[current] = f[1] /\ f[1] \in Nodes /\ 1 \in 1 .. Len(f)
      BY <2>1, <2>2, <2>5, HeadOfList
    <3>2. \A i \in 1 .. Len(f) : f[i] \in Nodes /\ at[f[i]] = current /\ Armed(f[i])
      BY <2>2, <2>3, Constants DEF Armed
    <3>3. \A i \in 1 .. Len(f) : OnCourse(f[i])'
      BY <3>2, <1>6, <1>7
    <3>4. IsList(current, f)'
      BY <2>1, <1>2 DEF IsList, After
    <3>5. f[1] = first' /\ f[1] = t' /\ pc' = "scan"
      BY <3>1, <2>5, <1>2
    <3>6. \A i \in 1 .. Len(f) : ~(i < 1)
      OBVIOUS
    <3>7. FirstLap'
      BY <3>1, <3>3, <3>4, <3>5, <3>6 DEF FirstLap
    <3>8. t' \in Nodes /\ first' \in Nodes /\ at'[t'] = current' /\ Armed(first)'
      BY <3>1, <3>2, <3>5, <1>2 DEF Armed
    <3> QED BY <3>5, <3>7, <3>8 DEF TickOK
  <2> QED BY <2>4, <2>5
<1> QED BY <1>3, <1>4, <1>5, <1>8, <1>9 DEF WheelInvariant

\* The end of a tick brings every timer of another slot one tick nearer, and
\* the counted timers of this slot a turn away.
LEMMA InvTickEnd == WheelInvariant /\ TickEnd => WheelInvariant'
<1> SUFFICES ASSUME WheelInvariant, TickEnd PROVE WheelInvariant'
  OBVIOUS
<1>1. TypeOK /\ FreeOK /\ ListsOK /\ TickOK /\ TimingOK
  BY DEF WheelInvariant
<1>2. /\ pc = "advance" /\ pc' = "idle" /\ timers' = timers /\ next' = next /\ prev' = prev
      /\ at' = at /\ retries' = retries /\ free' = free /\ signal' = signal /\ res' = res
      /\ current' = (current + 1) % Max /\ first' = NULL /\ t' = NULL
      /\ due' = [n \in Nodes |-> IF Armed(n) THEN due[n] - 1 ELSE 0]
  BY DEF TickEnd, links
<1>3. /\ Max \in Nat \ {0} /\ current \in Int /\ 0 <= current /\ current < Max
      /\ current \in Slots
  BY <1>1, Constants DEF TypeOK
<1>4. current' = IF current = Max - 1 THEN 0 ELSE current + 1
  <2> DEFINE c == current
  <2>1. c \in Nat /\ c < Max /\ current' = (c + 1) % Max
    BY <1>2, <1>3
  <2> HIDE DEF c
  <2>2. (c + 1) % Max = IF c = Max - 1 THEN 0 ELSE c + 1
    <3>1. CASE c = Max - 1
      BY <3>1, <2>1, <1>3
    <3>2. CASE c # Max - 1
      <4>1. c + 1 \in 0 .. Max - 1
        BY <3>2, <2>1, <1>3
      <4> QED BY <4>1, <3>2, <1>3
    <3> QED BY <3>1, <3>2
  <2> QED BY <2>1, <2>2 DEF c
<1>5. current' \in Slots
  BY <1>3, <1>4 DEF Slots
<1>6. TypeOK'
  <2>1. due' \in [Nodes -> Int]
    BY <1>1, <1>2 DEF TypeOK
  <2> QED BY <2>1, <1>1, <1>2, <1>5 DEF TypeOK, Slots
<1>7. FreeOK'
  BY <1>1, <1>2 DEF FreeOK, Distinct
<1>8. ListsOK'
  BY <1>1, <1>2, SameLists
<1>9. TickOK'
  BY <1>2 DEF TickOK
<1>10. TimingOK'
  <2> SUFFICES ASSUME NEW n \in Nodes, Armed(n)' PROVE OnCourse(n)'
    BY DEF TimingOK
  <2> DEFINE m == Max * retries[n]
             a == at[n]
             d == due[n]
  <2>1. Armed(n)
    BY <1>2 DEF Armed
  <2>2. a \in Slots /\ m \in Nat /\ d \in Int /\ a \in Int /\ 0 <= a /\ a < Max
    BY <2>1, <1>1, ErrorOfArmed, Constants
  <2>3. Error(n) = d - ((IF a >= current THEN a - current ELSE a - current + Max) + 1 + m)
    BY DEF Error, Ahead
  <2>4. Error(n)' = (d - 1) - ((IF a >= current' THEN a - current' ELSE a - current' + Max)
                                  + 1 + m)
    <3>1. due'[n] = d - 1 /\ at'[n] = a /\ retries'[n] = retries[n]
      BY <2>1, <1>2
    <3> QED BY <3>1 DEF Error, Ahead
  <2>5. IF a = current THEN Error(n) \in {0, Max} ELSE Error(n) \in {0, -Max}
    <3>1. CASE a = current
      <4>1. Counted(n)
        BY <3>1, <1>1, <1>2 DEF TickOK
      <4> QED BY <4>1, <3>1 DEF Counted
    <3>2. CASE a # current
      <4>1. OnCourse(n)
        BY <3>2, <2>1, <1>1 DEF TimingOK
      <4> QED BY <4>1, <3>2 DEF OnCourse
    <3> QED BY <3>1, <3>2
  <2> HIDE DEF m, a, d
  <2>6. Error(n)' = IF a = current THEN Error(n) - Max ELSE Error(n)
    <3>1. CASE current = Max - 1
      BY <3>1, <2>2, <2>3, <2>4, <1>3, <1>4
    <3>2. CASE current # Max - 1
      BY <3>2, <2>2, <2>3, <2>4, <1>3, <1>4
    <3> QED BY <3>1, <3>2
  <2>7. Error(n)' \in {0, -Max}
    BY <2>5, <2>6, <1>3
  <2> QED BY <2>7 DEF OnCourse
<1> QED BY <1>6, <1>7, <1>8, <1>9, <1>10 DEF WheelInvariant

\* A node that is counted down has made up the turn it was ahead.
LEMMA KeepCounts ==
  ASSUME TypeOK, NEW n \in Nodes, Armed(n), retries[n] # 0,
         at'[n] = at[n], current' = current, due'[n] = due[n], retries'[n] = retries[n] - 1
  PROVE  /\ OnCourse(n) => Counted(n)'
         /\ OnCourse(n) => due[n] >= 1
<1> DEFINE r == retries[n]
<1>1. /\ Max \in Nat \ {0} /\ r \in Nat /\ r >= 1 /\ Max * r \in Nat /\ due[n] \in Int
      /\ Ahead(n) \in 0 .. Max - 1
  <2>1. Max \in Nat \ {0}
    BY Constants
  <2>2. Max * r \in Nat /\ due[n] \in Int /\ Ahead(n) \in 0 .. Max - 1
    BY ErrorOfArmed
  <2>3. r \in Nat /\ r # 0
    BY DEF TypeOK
  <2> QED BY <2>1, <2>2, <2>3
<1>2. Max * (r - 1) = Max * r - Max
  BY <1>1
<1>3. Max * r >= Max
  BY <1>1, <1>2
<1>4. Ahead(n)' = Ahead(n)
  BY DEF Ahead
<1>5. Error(n)' = due[n] - (Ahead(n) + 1 + Max * (r - 1))
  BY <1>4 DEF Error
<1>6. Error(n) = due[n] - (Ahead(n) + 1 + Max * r)
  BY DEF Error
<1> DEFINE x == Max * r
           a == Ahead(n)
           d == due[n]
           e == Error(n)
<1>7. x \in Nat /\ x >= Max /\ a \in Nat /\ d \in Int /\ Max \in Nat /\ e = d - (a + 1 + x)
      /\ Error(n)' = d - (a + 1 + (x - Max))
  BY <1>1, <1>2, <1>3, <1>5, <1>6
<1> HIDE DEF x, a, d, e
<1>8. e \in {0, -Max} => Error(n)' \in {0, Max} /\ d >= 1
  BY <1>7
<1> QED BY <1>8 DEF OnCourse, Counted, e, d

\* The scan stands at some place of the list f of its slot.
ScanAt(f) ==
  \E k \in 1 .. Len(f) :
     /\ IsList(current, f) /\ f[k] = t
     /\ Armed(first) => /\ f[1] = first
                        /\ \A i \in 1 .. Len(f) : IF i < k THEN Counted(f[i])
                                                           ELSE OnCourse(f[i])

\* In the first lap and while the slot is drained the scan is in its list.
LEMMA ScanPlace ==
  ASSUME WheelInvariant, pc = "scan"
  PROVE  \E f \in Seq(Nodes) : ScanAt(f)
<1>1. TypeOK /\ ListsOK /\ TickOK
  BY DEF WheelInvariant
<1>2. CASE Armed(first)
  BY <1>1, <1>2 DEF TickOK, FirstLap, ScanAt
<1>3. CASE ~Armed(first)
  <2>1. PICK f \in Seq(Nodes) : IsList(current, f)
    BY <1>1 DEF ListsOK, TypeOK
  <2>2. PICK k \in 1 .. Len(f) : f[k] = t
    BY <2>1, <1>1 DEF IsList, TickOK
  <2> QED BY <2>1, <2>2, <1>3 DEF ScanAt
<1> QED BY <1>2, <1>3

\* A timer that waits is counted down, and the scan goes on.
LEMMA InvTickKeep == WheelInvariant /\ TickKeep => WheelInvariant'
<1> SUFFICES ASSUME WheelInvariant, TickKeep PROVE WheelInvariant'
  OBVIOUS
<1>1. TypeOK /\ FreeOK /\ ListsOK /\ TickOK /\ TimingOK
  BY DEF WheelInvariant
<1>2. /\ pc = "scan" /\ timers' = timers /\ next' = next /\ prev' = prev
      /\ at' = at /\ current' = current /\ due' = due /\ free' = free
      /\ signal' = signal /\ res' = res /\ first' = first
      /\ retries[t] # 0 /\ retries' = [retries EXCEPT ![t] = @ - 1]
      /\ t' = next[t] /\ pc' = IF next[t] = first THEN "advance" ELSE "scan"
  BY DEF TickKeep, Advance, wheel, links
<1>3. t \in Nodes /\ first \in Nodes /\ at[t] = current /\ current \in Slots /\ Armed(t)
  BY <1>1, <1>2, Constants DEF TickOK, TypeOK, Armed
<1>4. /\ retries'[t] = retries[t] - 1 /\ retries[t] \in Nat /\ retries[t] - 1 \in Nat
      /\ \A n \in Nodes : n # t => retries'[n] = retries[n]
  BY <1>1, <1>2, <1>3 DEF TypeOK
<1>5. PICK f \in Seq(Nodes) : ScanAt(f)
  BY <1>2, ScanPlace
<1>6. PICK k \in 1 .. Len(f) :
         /\ IsList(current, f) /\ f[k] = t
         /\ Armed(first) => /\ f[1] = first
                            /\ \A i \in 1 .. Len(f) : IF i < k THEN Counted(f[i])
                                                               ELSE OnCourse(f[i])
  BY <1>5 DEF ScanAt
<1> DEFINE j == After(f, k)
<1>7. /\ j \in 1 .. Len(f) /\ next[t] = f[j]
      /\ \A i \in 1 .. Len(f) : f[i] \in Nodes /\ at[f[i]] = current
      /\ (k # Len(f) => j = k + 1) /\ (k = Len(f) => j = 1)
  BY <1>6, AfterInRange DEF IsList
<1>8. TypeOK'
  <2>1. retries' \in [Nodes -> Nat] /\ t' \in Nodes /\ pc' \in {"scan", "advance"}
    BY <1>1, <1>2, <1>3, <1>4, <1>7 DEF TypeOK
  <2> QED BY <2>1, <1>1, <1>2 DEF TypeOK, Slots
<1>9. FreeOK'
  BY <1>1, <1>2 DEF FreeOK, Distinct
<1>10. ListsOK'
  BY <1>1, <1>2, SameLists
<1>11. \A n \in Nodes : /\ Armed(n)' <=> Armed(n)
                        /\ n # t => /\ OnCourse(n)' <=> OnCourse(n)
                                    /\ Counted(n)' <=> Counted(n)
  BY <1>2, <1>4, SameCourse DEF Armed
<1>12. PICK u \in Nodes : u = t
  BY <1>3
<1>13. (OnCourse(u) => Counted(u)') /\ (OnCourse(u) => due[u] >= 1)
  <2>1. /\ Armed(u) /\ retries[u] # 0 /\ at'[u] = at[u] /\ due'[u] = due[u]
        /\ retries'[u] = retries[u] - 1
    BY <1>2, <1>3, <1>4, <1>12
  <2> QED BY <2>1, <1>1, <1>2, KeepCounts
<1>14. TimingOK'
  <2> SUFFICES ASSUME NEW n \in Nodes, Armed(n)', at'[n] # current' PROVE OnCourse(n)'
    BY <1>2 DEF TimingOK, InTick
  <2>1. n # t /\ Armed(n) /\ at[n] # current
    BY <1>2, <1>3, <1>11
  <2> QED BY <2>1, <1>1, <1>11 DEF TimingOK
<1>15. t' \in Nodes /\ at'[t'] = current' /\ first' \in Nodes
  BY <1>2, <1>3, <1>7
<1>16. CASE Armed(first)
  <2>1. /\ f[1] = first /\ Armed(first)'
        /\ \A i \in 1 .. Len(f) : IF i < k THEN Counted(f[i]) ELSE OnCourse(f[i])
    BY <1>2, <1>6, <1>16 DEF Armed
  <2>2. \A i \in 1 .. Len(f) : i # k => f[i] # u
    BY <1>6, <1>12 DEF IsList, Distinct
  <2>3. \A i \in 1 .. Len(f) : i < k => Counted(f[i])'
    BY <2>1, <2>2, <1>7, <1>11, <1>12
  <2>4. Counted(f[k])'
    BY <2>1, <1>6, <1>12, <1>13
  <2>5. \A i \in 1 .. Len(f) : i > k => OnCourse(f[i])'
    BY <2>1, <2>2, <1>7, <1>11, <1>12
  <2>6. CASE k = Len(f)
    <3>1. pc' = "advance"
      BY <2>1, <2>6, <1>2, <1>7
    <3>2. ASSUME NEW n \in Nodes, at'[n] = current' PROVE Counted(n)'
      <4>1. PICK i \in 1 .. Len(f) : f[i] = n
        BY <3>2, <1>2, <1>6 DEF IsList
      <4>2. i < k \/ i = k
        BY <2>6
      <4> QED BY <4>1, <4>2, <2>3, <2>4
    <3>3. TickOK'
      BY <3>1, <3>2 DEF TickOK
    <3> QED BY <3>3, <1>8, <1>9, <1>10, <1>14 DEF WheelInvariant
  <2>7. CASE k # Len(f)
    <3>1. j = k + 1 /\ j # 1 /\ 1 \in 1 .. Len(f)
      BY <2>7, <1>7
    <3>2. next[t] # first /\ t' = f[j]
      BY <3>1, <2>1, <1>2, <1>6, <1>7 DEF IsList, Distinct
    <3>3. pc' = "scan"
      BY <3>2, <1>2
    <3>4. IsList(current, f)'
      BY <1>2, <1>6 DEF IsList, After
    <3>5. \A i \in 1 .. Len(f) : IF i < j THEN Counted(f[i])' ELSE OnCourse(f[i])'
      <4> SUFFICES ASSUME NEW i \in 1 .. Len(f)
                   PROVE  IF i < j THEN Counted(f[i])' ELSE OnCourse(f[i])'
        OBVIOUS
      <4>1. (i < j /\ (i < k \/ i = k)) \/ (~(i < j) /\ i > k)
        BY <3>1
      <4> QED BY <4>1, <2>3, <2>4, <2>5
    <3>6. FirstLap'
      <4> HIDE DEF j
      <4> QED BY <3>2, <3>4, <3>5, <2>1, <1>2, <1>7 DEF FirstLap
    <3>7. TickOK'
      BY <3>3, <3>6, <2>1, <1>15 DEF TickOK
    <3> QED BY <3>7, <1>8, <1>9, <1>10, <1>14 DEF WheelInvariant
  <2> QED BY <2>6, <2>7
<1>17. CASE ~Armed(first)
  <2>1. next[t] # first /\ ~Armed(first)'
    BY <1>2, <1>3, <1>7, <1>17, Constants DEF Armed
  <2>2. pc' = "scan"
    BY <2>1, <1>2
  <2>3. \A n \in Nodes : at[n] = current => OnCourse(n) \/ due[n] >= 1
    BY <1>1, <1>2, <1>17 DEF TickOK, Draining
  <2>4. ASSUME NEW n \in Nodes, at'[n] = current' PROVE OnCourse(n)' \/ due'[n] >= 1
    <3>1. CASE n = u
      BY <3>1, <2>3, <2>4, <1>2, <1>13
    <3>2. CASE n # u
      BY <3>2, <2>3, <2>4, <1>2, <1>11, <1>12
    <3> QED BY <3>1, <3>2
  <2>5. Draining'
    BY <2>4 DEF Draining
  <2>6. TickOK'
    BY <2>1, <2>2, <2>5, <1>15 DEF TickOK
  <2> QED BY <2>6, <1>8, <1>9, <1>10, <1>14 DEF WheelInvariant
<1> QED BY <1>16, <1>17

\* A timer that fires leaves its slot; if it was the first one the scan goes
\* on to drain the slot.
LEMMA InvTickFire == WheelInvariant /\ TickFire => WheelInvariant'
<1> SUFFICES ASSUME WheelInvariant, TickFire PROVE WheelInvariant'
  OBVIOUS
<1>1. TypeOK /\ FreeOK /\ ListsOK /\ TickOK /\ TimingOK
  BY DEF WheelInvariant
<1>2. /\ pc = "scan" /\ current' = current /\ due' = due /\ retries' = retries
      /\ signal' = signal /\ first' = first /\ Unlink
      /\ res' = Append(res, signal[t]) /\ free' = Append(free, t)
      /\ at' = [at EXCEPT ![t] = NULL]
      /\ IF next[t] = t THEN pc' = "advance" /\ t' = t
         ELSE t' = next[t] /\ pc' = IF next[t] = first THEN "advance" ELSE "scan"
  BY DEF TickFire, Advance
<1>3. t \in Nodes /\ first \in Nodes /\ at[t] = current /\ current \in Slots
  BY <1>1, <1>2 DEF TickOK, TypeOK
<1>4. PICK u \in Nodes : u = t
  BY <1>3
<1>5. PICK s \in Slots : s = current
  BY <1>3
<1>6. /\ at'[u] = NULL /\ \A n \in Nodes : n # u => at'[n] = at[n]
      /\ \A n \in Nodes : at'[n] = s <=> n # u /\ at[n] = s
      /\ \A n \in Nodes : Armed(n)' <=> Armed(n) /\ n # u
  BY <1>1, <1>2, <1>4, Constants DEF TypeOK, Armed
<1>7. \A n \in Nodes : n # u => /\ OnCourse(n)' <=> OnCourse(n)
                                /\ Counted(n)' <=> Counted(n)
  BY <1>2, <1>6, SameCourse
<1>8. PICK f \in Seq(Nodes) : ScanAt(f)
  BY <1>2, ScanPlace
<1>9. PICK k \in 1 .. Len(f) :
         /\ IsList(s, f) /\ f[k] = t
         /\ Armed(first) => /\ f[1] = first
                            /\ \A i \in 1 .. Len(f) : IF i < k THEN Counted(f[i])
                                                               ELSE OnCourse(f[i])
  BY <1>5, <1>8 DEF ScanAt
<1>10. /\ ListsOK'
       /\ timers' \in [Slots -> Nodes \union {NULL}]
       /\ next' \in [Nodes -> Nodes \union {NULL}]
       /\ prev' \in [Nodes -> Nodes \union {NULL}]
  BY <1>1, <1>2, <1>5, <1>9, UnlinkLists
<1> DEFINE j == After(f, k)
<1>11. /\ j \in 1 .. Len(f) /\ next[t] = f[j] /\ Distinct(f) /\ Len(f) \in Nat
       /\ \A i \in 1 .. Len(f) : f[i] \in Nodes /\ at[f[i]] = s
       /\ (k # Len(f) => j = k + 1) /\ (k = Len(f) => j = 1)
       /\ \A n \in Nodes : at[n] = s <=> \E i \in 1 .. Len(f) : f[i] = n
  BY <1>9, AfterInRange DEF IsList
<1>12. \A i \in 1 .. Len(f) : i # k => f[i] # u
  BY <1>4, <1>9, <1>11 DEF Distinct
<1> HIDE DEF j
<1>13. TypeOK'
  <2>1. at' \in [Nodes -> Slots \union {NULL}]
    BY <1>1, <1>2 DEF TypeOK
  <2>2. res' \in Seq(Nat)
    BY <1>1, <1>2, <1>3 DEF TypeOK
  <2>3. t' \in Nodes /\ pc' \in {"idle", "hung", "scan", "advance"}
    BY <1>2, <1>3, <1>11
  <2> QED BY <2>1, <2>2, <2>3, <1>1, <1>2, <1>10 DEF TypeOK, Slots
<1>14. FreeOK'
  <2>1. /\ free \in Seq(Nodes) /\ Len(free) \in Nat /\ Distinct(free)
        /\ \A n \in Nodes : at[n] = NULL <=> \E i \in 1 .. Len(free) : free[i] = n
        /\ Len(res) <= Len(free)
    BY <1>1, <1>2 DEF FreeOK
  <2>2. /\ free' \in Seq(Nodes) /\ Len(free') = Len(free) + 1 /\ free'[Len(free) + 1] = u
        /\ \A i \in 1 .. Len(free) : free'[i] = free[i]
    BY <2>1, <1>2, <1>3, <1>4
  <2>3. \A i \in 1 .. Len(free') : i \in 1 .. Len(free) \/ i = Len(free) + 1
    BY <2>1, <2>2
  <2>4. \A i \in 1 .. Len(free) : free[i] # u
    BY <2>1, <1>3, <1>4, Constants
  <2>5. Distinct(free')
    BY <2>1, <2>2, <2>3, <2>4 DEF Distinct
  <2>6. ASSUME NEW n \in Nodes
        PROVE  at'[n] = NULL <=> \E i \in 1 .. Len(free') : free'[i] = n
    <3>1. CASE n = u
      <4>1. Len(free) + 1 \in 1 .. Len(free')
        BY <2>1, <2>2
      <4> QED BY <3>1, <4>1, <2>2, <1>6
    <3>2. CASE n # u
      <4>1. at[n] = NULL <=> \E i \in 1 .. Len(free) : free[i] = n
        BY <2>1
      <4>2. \A i \in 1 .. Len(free) : i \in 1 .. Len(free')
        BY <2>1, <2>2
      <4>3. (\E i \in 1 .. Len(free') : free'[i] = n) <=> (\E i \in 1 .. Len(free) : free[i] = n)
        BY <3>2, <4>2, <2>2, <2>3
      <4> QED BY <3>2, <4>1, <4>3, <1>6
    <3> QED BY <3>1, <3>2
  <2>7. Len(res') <= Len(free')
    <3>1. Len(res') = Len(res) + 1 /\ Len(res) \in Nat
      BY <1>1, <1>2, <1>3 DEF TypeOK
    <3> QED BY <3>1, <2>1, <2>2
  <2> QED BY <2>2, <2>5, <2>6, <2>7 DEF FreeOK, Distinct
<1>15. TimingOK'
  <2> SUFFICES ASSUME NEW n \in Nodes, Armed(n)', at'[n] # current' PROVE OnCourse(n)'
    BY <1>2 DEF TimingOK, InTick
  <2>1. n # u /\ Armed(n) /\ at[n] # current
    BY <1>2, <1>6
  <2> QED BY <2>1, <1>1, <1>7 DEF TimingOK
<1>16. SUFFICES TickOK'
  BY <1>10, <1>13, <1>14, <1>15 DEF WheelInvariant
<1>17. CASE next[t] = t
  <2>1. j = k
    BY <1>17, <1>9, <1>11 DEF Distinct
  <2>2. Len(f) = 1 /\ k = 1
    <3>1. k \in Nat /\ (k # Len(f) => j = k + 1) /\ (k = Len(f) => j = 1)
      BY <1>11
    <3>2. k = Len(f)
      BY <3>1, <2>1
    <3> QED BY <3>1, <3>2, <2>1
  <2>3. \A n \in Nodes : at'[n] # current'
    BY <2>2, <1>2, <1>4, <1>5, <1>6, <1>9, <1>11
  <2>4. pc' = "advance"
    BY <1>17, <1>2
  <2> QED BY <2>3, <2>4 DEF TickOK
<1>18. CASE next[t] # t
  <2>1. j # k /\ f[j] # u /\ t' = f[j] /\ f[j] \in Nodes
    BY <1>18, <1>2, <1>4, <1>9, <1>11
  <2>2. t' \in Nodes /\ at'[t'] = current' /\ first' \in Nodes
    BY <2>1, <1>2, <1>3, <1>5, <1>6, <1>11
  <2>3. pc' = IF next[t] = first THEN "advance" ELSE "scan"
    BY <1>18, <1>2
  <2>4. CASE Armed(first) /\ first # u
    <3>1. /\ f[1] = first /\ Armed(first)' /\ k # 1
          /\ \A i \in 1 .. Len(f) : IF i < k THEN Counted(f[i]) ELSE OnCourse(f[i])
      BY <2>4, <1>2, <1>3, <1>4, <1>6, <1>9
    <3>2. \A i \in 1 .. Len(f) : i < k => Counted(f[i])'
      BY <3>1, <1>7, <1>11, <1>12
    <3>3. \A i \in 1 .. Len(f) : i > k => OnCourse(f[i])'
      BY <3>1, <1>7, <1>11, <1>12
    <3>4. CASE k = Len(f)
      <4>1. pc' = "advance"
        BY <3>1, <3>4, <2>3, <1>11
      <4>2. ASSUME NEW n \in Nodes, at'[n] = current' PROVE Counted(n)'
        <5>1. n # u /\ at[n] = s
          BY <4>2, <1>2, <1>5, <1>6
        <5>2. PICK i \in 1 .. Len(f) : f[i] = n
          BY <5>1, <1>11
        <5>3. i < k
          BY <5>1, <5>2, <3>4, <1>4, <1>9
        <5> QED BY <5>2, <5>3, <3>2
      <4> QED BY <4>1, <4>2 DEF TickOK
    <3>5. CASE k # Len(f)
      <4>1. j = k + 1 /\ j # 1 /\ 1 \in 1 .. Len(f)
        BY <3>5, <1>11
      <4>2. next[t] # first
        BY <4>1, <3>1, <1>11 DEF Distinct
      <4>3. pc' = "scan"
        BY <4>2, <2>3
      <4>4. PICK g \in Seq(Nodes) : IsWithout(f, k, g)
        <5>1. IsWithout(f, k, Without(f, k))
          BY <1>11, WithoutNode
        <5>2. Without(f, k) \in Seq(Nodes)
          BY <5>1 DEF IsWithout
        <5> QED BY <5>1, <5>2
      <4>5. IsList(s, g)'
        BY <4>4, <1>1, <1>2, <1>5, <1>9, UnlinkRemoves
      <4>6. /\ Len(g) = Len(f) - 1
            /\ \A i \in 1 .. Len(g) : g[i] = f[Place(k, i)] /\ Place(k, i) \in 1 .. Len(f)
        BY <4>4 DEF IsWithout
      <4>7. k \in 1 .. Len(g) /\ g[k] = f[j] /\ g[1] = f[1]
        <5>1. k \in 1 .. Len(g) /\ 1 \in 1 .. Len(g)
          BY <4>1, <4>6, <3>5, <1>11
        <5>2. Place(k, k) = j /\ Place(k, 1) = 1
          BY <4>1, <3>1 DEF Place
        <5> QED BY <5>1, <5>2, <4>6
      <4>8. ASSUME NEW i \in 1 .. Len(g)
            PROVE  IF i < k THEN Counted(g[i])' ELSE OnCourse(g[i])'
        <5>1. CASE i < k
          <6>1. Place(k, i) = i
            BY <5>1 DEF Place
          <6>2. Counted(f[i])' /\ g[i] = f[i]
            BY <6>1, <5>1, <4>6, <3>2
          <6> QED BY <6>2, <5>1
        <5>2. CASE ~(i < k)
          <6>1. Place(k, i) = i + 1 /\ i + 1 > k
            BY <5>2 DEF Place
          <6>2. OnCourse(f[i + 1])' /\ g[i] = f[i + 1]
            BY <6>1, <4>6, <3>3
          <6> QED BY <6>2, <5>2
        <5> QED BY <5>1, <5>2
      <4>9. IsList(current, g)'
        BY <4>5, <1>2, <1>5 DEF IsList, After
      <4>10. g[1] = first' /\ g[k] = t'
        BY <4>7, <3>1, <2>1, <1>2
      <4>11. FirstLap'
        BY <4>7, <4>8, <4>9, <4>10 DEF FirstLap
      <4> QED BY <4>3, <4>11, <3>1, <2>2 DEF TickOK
    <3> QED BY <3>4, <3>5
  <2>5. CASE ~(Armed(first) /\ first # u)
    <3>1. ~Armed(first)' /\ next[t] # first
      <4>1. CASE first = u
        BY <4>1, <2>1, <1>2, <1>6, <1>11 DEF Armed
      <4>2. CASE ~Armed(first)
        BY <4>2, <2>1, <1>2, <1>3, <1>6, <1>11, Constants DEF Armed
      <4> QED BY <4>1, <4>2, <2>5
    <3>2. pc' = "scan"
      BY <3>1, <2>3
    <3>3. ASSUME NEW n \in Nodes, at[n] = s, n # u PROVE OnCourse(n) \/ due[n] >= 1
      <4>1. CASE first = u
        <5>1. Armed(first) /\ 1 \in 1 .. Len(f)
          BY <4>1, <1>3, <1>4, Constants DEF Armed
        <5>2. k = 1
          BY <5>1, <4>1, <1>4, <1>9, <1>11 DEF Distinct
        <5>3. PICK i \in 1 .. Len(f) : f[i] = n
          BY <3>3, <1>11
        <5>4. ~(i < k)
          BY <5>2
        <5> QED BY <5>1, <5>3, <5>4, <1>9
      <4>2. CASE ~Armed(first)
        BY <3>3, <4>2, <1>1, <1>2, <1>5 DEF TickOK, Draining
      <4> QED BY <4>1, <4>2, <2>5
    <3>4. Draining'
      <4> SUFFICES ASSUME NEW n \in Nodes, at'[n] = current'
                   PROVE  OnCourse(n)' \/ due'[n] >= 1
        BY DEF Draining
      <4>1. at[n] = s /\ n # u
        BY <1>2, <1>5, <1>6
      <4> QED BY <4>1, <3>3, <1>2, <1>7
    <3> QED BY <3>1, <3>2, <3>4, <2>2 DEF TickOK
  <2> QED BY <2>4, <2>5
<1> QED BY <1>17, <1>18

\* Every step of the wheel keeps its invariant.
LEMMA NextInvariant == WheelInvariant /\ [Next]_timerVars => WheelInvariant'
<1> SUFFICES ASSUME WheelInvariant, [Next]_timerVars PROVE WheelInvariant'
  OBVIOUS
<1>1. ASSUME NEW sig \in Signals, NEW time \in Times, Insert(sig, time)
      PROVE  WheelInvariant'
  <2>1. sig \in Nat /\ time \in Nat \ {0}
    BY SignalsAssumption, TimesAssumption
  <2> QED BY <2>1, <1>1, InvInsert
<1>2. ASSUME UNCHANGED timerVars PROVE WheelInvariant'
  <2>1. TypeOK /\ FreeOK /\ ListsOK /\ TickOK /\ TimingOK
    BY DEF WheelInvariant
  <2>2. /\ timers' = timers /\ next' = next /\ prev' = prev /\ at' = at /\ current' = current
        /\ due' = due /\ retries' = retries /\ free' = free /\ signal' = signal
        /\ res' = res /\ first' = first /\ t' = t /\ pc' = pc
    BY <1>2 DEF timerVars
  <2>3. TypeOK' /\ FreeOK'
    BY <2>1, <2>2 DEF TypeOK, FreeOK, Distinct, Slots
  <2>4. ListsOK'
    BY <2>1, <2>2, SameLists
  <2>5. FirstLap => FirstLap'
    BY <2>2 DEF FirstLap, IsList, After, Counted, OnCourse, Error, Ahead
  <2>6. Draining => Draining'
    BY <2>2 DEF Draining, OnCourse, Error, Ahead
  <2>7. TickOK' /\ TimingOK'
    <3>1. \A n \in Nodes : /\ Armed(n)' <=> Armed(n)
                           /\ OnCourse(n)' <=> OnCourse(n)
                           /\ Counted(n)' <=> Counted(n)
      BY <2>2, SameCourse DEF Armed
    <3>2. Armed(first)' <=> Armed(first)
      BY <2>2 DEF Armed
    <3>3. TickOK'
      BY <3>1, <3>2, <2>1, <2>2, <2>5, <2>6 DEF TickOK
    <3>4. TimingOK'
      BY <3>1, <2>1, <2>2 DEF TimingOK, InTick
    <3> QED BY <3>3, <3>4
  <2> QED BY <2>3, <2>4, <2>7 DEF WheelInvariant
<1> QED BY <1>1, <1>2, InvInsertHangs, InvTickBegin, InvTickFire, InvTickKeep, InvTickEnd
        DEF Next, Tick

\* WheelInvariant holds in every reachable state of the wheel.
THEOREM WheelInvariantHolds == Spec => []WheelInvariant
BY InitInvariant, NextInvariant, PTL DEF Spec

-----------------------------------------------------------------------------
(***************************************************************************)
(* When timers fire                                                        *)
(***************************************************************************)
\* The timer that a step takes out of the wheel is the one the scan is at; it
\* is on its course, or in a slot that is being drained.
LEMMA FiredTimer ==
  ASSUME WheelInvariant, [Next]_timerVars, NEW n \in Nodes, Armed(n), ~Armed(n)'
  PROVE  TickFire /\ n = t
<1>1. TypeOK
  BY DEF WheelInvariant
<1>2. ASSUME NEW sig \in Signals, NEW time \in Times, Insert(sig, time) PROVE FALSE
  <2> DEFINE s == (current + (time - 1)) % Max
  <2>1. at' = [at EXCEPT ![Head(free)] = s]
    BY <1>2 DEF Insert
  <2>2. s # NULL
    <3>1. current + (time - 1) \in Nat
      BY <1>1, TimesAssumption, Constants DEF TypeOK
    <3>2. s \in Slots
      BY <3>1, Constants, QuotientRemainder DEF Slots
    <3> QED BY <3>2, Constants
  <2> HIDE DEF s
  <2> QED BY <2>1, <2>2, <1>1 DEF TypeOK, Armed
<1>3. ~(UNCHANGED at)
  BY DEF Armed
<1>4. TickFire
  BY <1>2, <1>3 DEF Next, Tick, InsertHangs, TickBegin, TickKeep, TickEnd, timerVars
<1>5. at' = [at EXCEPT ![t] = NULL]
  BY <1>4 DEF TickFire
<1>6. n = t
  BY <1>1, <1>5 DEF TypeOK, Armed
<1> QED BY <1>4, <1>6

\* A timer fires when it is due or exactly one turn of the wheel later; it
\* fires before it is due only after the head of its slot has fired in the
\* same tick.
THEOREM TimersFireInTime == Spec => FireTiming
<1>1. WheelInvariant /\ [Next]_timerVars
        => [\A n \in Nodes : Armed(n) /\ ~Armed(n)'
              => \/ due[n] \in {1, 1 - Max}
                 \/ due[n] > 1 - Max /\ at[first] = NULL]_timerVars
  <2> SUFFICES ASSUME WheelInvariant, [Next]_timerVars,
                      NEW n \in Nodes, Armed(n), ~Armed(n)'
               PROVE  \/ due[n] \in {1, 1 - Max}
                      \/ due[n] > 1 - Max /\ at[first] = NULL
    OBVIOUS
  <2>1. TypeOK /\ TickOK
    BY DEF WheelInvariant
  <2>2. n = t /\ pc = "scan" /\ retries[n] = 0
    BY FiredTimer DEF TickFire
  <2>3. at[n] = current /\ Ahead(n) = 0 /\ due[n] \in Int /\ Max \in Nat \ {0}
    BY <2>1, <2>2, ErrorOfArmed, Constants DEF TickOK
  <2>4. Error(n) = due[n] - (0 + 1 + Max * 0)
    BY <2>2, <2>3 DEF Error
  <2>5. OnCourse(n) => due[n] \in {1, 1 - Max}
    BY <2>3, <2>4 DEF OnCourse
  <2>6. CASE Armed(first)
    <3>1. PICK f \in Seq(Nodes) : \E k \in 1 .. Len(f) :
             /\ f[k] = t
             /\ \A i \in 1 .. Len(f) : IF i < k THEN Counted(f[i]) ELSE OnCourse(f[i])
      BY <2>1, <2>2, <2>6 DEF TickOK, FirstLap
    <3>2. PICK k \in 1 .. Len(f) :
             /\ f[k] = t
             /\ \A i \in 1 .. Len(f) : IF i < k THEN Counted(f[i]) ELSE OnCourse(f[i])
      BY <3>1
    <3>3. OnCourse(f[k])
      <4>1. ~(k < k)
        OBVIOUS
      <4> QED BY <4>1, <3>2
    <3> QED BY <3>2, <3>3, <2>2, <2>5
  <2>7. CASE ~Armed(first)
    <3>1. OnCourse(n) \/ due[n] >= 1
      BY <2>1, <2>2, <2>3, <2>7 DEF TickOK, Draining
    <3>2. due[n] >= 1 => due[n] > 1 - Max
      BY <2>3
    <3> QED BY <3>1, <3>2, <2>5, <2>7 DEF Armed
  <2> QED BY <2>6, <2>7
<1> QED BY <1>1, WheelInvariantHolds, PTL DEF Spec, FireTiming

-----------------------------------------------------------------------------
(***************************************************************************)
(* What walking a slot finds                                               *)
(***************************************************************************)
\* A list without repetitions has as many nodes as it is long.
LEMMA DistinctCount ==
  ASSUME NEW f \in Seq(Nodes), Distinct(f), NEW T \in SUBSET Nodes,
         \A n \in Nodes : n \in T <=> \E i \in 1 .. Len(f) : f[i] = n
  PROVE  Cardinality(T) = Len(f) /\ Len(f) <= Cardinality(Nodes) /\ Cardinality(Nodes) \in Nat
<1>1. Len(f) \in Nat /\ f \in [1 .. Len(f) -> T]
  <2>1. /\ Len(f) \in Nat /\ DOMAIN f = 1 .. Len(f) /\ f = [i \in 1 .. Len(f) |-> f[i]]
        /\ \A i \in 1 .. Len(f) : f[i] \in Nodes
    OBVIOUS
  <2>2. \A i \in 1 .. Len(f) : f[i] \in T
    BY <2>1
  <2> QED BY <2>1, <2>2
<1>2. \A n \in T : \E i \in 1 .. Len(f) : f[i] = n
  OBVIOUS
<1>3. \A i, j \in 1 .. Len(f) : f[i] = f[j] => i = j
  BY DEF Distinct
<1>4. f \in Bijection(1 .. Len(f), T)
  BY <1>1, <1>2, <1>3 DEF Bijection, Injection, Surjection, IsInjective
<1>5. IsFiniteSet(1 .. Len(f)) /\ Cardinality(1 .. Len(f)) = Len(f)
  BY <1>1, IntervalSize
<1>6. ExistsBijection(1 .. Len(f), T)
  BY <1>4 DEF ExistsBijection
<1>7. Cardinality(T) = Len(f)
  BY <1>5, <1>6, FS_Bijection
<1>8. Cardinality(T) <= Cardinality(Nodes) /\ Cardinality(Nodes) \in Nat
  BY Constants, FS_Subset, FS_CardinalityType
<1> QED BY <1>7, <1>8

\* Walk(s) follows next from the head of the slot.
LEMMA WalkFollows ==
  ASSUME NEW s \in Slots
  PROVE  \A i \in 0 .. Cardinality(Nodes) :
            Walk(s)[i] = IF i = 0 THEN timers[s] ELSE next[Walk(s)[i - 1]]
<1> DEFINE E(w) == w = [i \in 0 .. Cardinality(Nodes) |->
                          IF i = 0 THEN timers[s] ELSE next[w[i - 1]]]
<1>1. Walk(s) = CHOOSE w : E(w)
  BY DEF Walk
<1>2. Cardinality(Nodes) \in Nat
  BY Constants, FS_CardinalityType
<1>3. \E w : E(w)
  <2> DEFINE C == Cardinality(Nodes)
             x == timers[s]
  <2>1. C \in Nat
    BY <1>2
  <2> HIDE DEF C, x
  <2>2. \E w : Iterates(next, x, C, w)
    BY <2>1, IterateExists
  <2> QED BY <2>2 DEF C, x, Iterates
<1> HIDE DEF E
<1>4. E(Walk(s))
  BY <1>1, <1>3, Zenon
<1> DEFINE h == Walk(s)
<1>5. h = [i \in 0 .. Cardinality(Nodes) |-> IF i = 0 THEN timers[s] ELSE next[h[i - 1]]]
  BY <1>4 DEF E
<1> HIDE DEF h
<1>6. \A i \in 0 .. Cardinality(Nodes) : h[i] = IF i = 0 THEN timers[s] ELSE next[h[i - 1]]
  BY <1>5
<1> QED BY <1>6 DEF h

\* The walk meets the nodes of the list in order, and then its head again.
LEMMA WalkFindsList ==
  ASSUME NEW s \in Slots, NEW f \in Seq(Nodes), IsList(s, f), Len(f) # 0,
         Len(f) <= Cardinality(Nodes), Cardinality(Nodes) \in Nat
  PROVE  /\ \A i \in 0 .. Len(f) - 1 : Walk(s)[i] = f[i + 1]
         /\ Walk(s)[Len(f)] = f[1]
<1> DEFINE h == Walk(s)
           k == Len(f)
           C == Cardinality(Nodes)
           S == {i \in 0 .. k - 1 : h[i] # f[i + 1]}
<1>1. \A i \in 0 .. C : h[i] = IF i = 0 THEN timers[s] ELSE next[h[i - 1]]
  BY WalkFollows
<1>2. k \in Nat \ {0} /\ k <= C /\ C \in Nat /\ timers[s] = f[1]
  BY HeadOfList
<1>3. \A i \in 1 .. k : next[f[i]] = f[After(f, i)]
  BY DEF IsList
<1> HIDE DEF h
<1>4. S = {}
  <2> SUFFICES ASSUME S # {} PROVE FALSE
    OBVIOUS
  <2>1. S \in SUBSET Nat
    BY <1>2
  <2>2. PICK m \in S : \A y \in S : m <= y
    BY <2>1, LeastElement
  <2>3. m \in 0 .. k - 1 /\ h[m] # f[m + 1] /\ m \in 0 .. C /\ m \in Nat
    BY <2>2, <1>2
  <2>4. CASE m = 0
    BY <2>3, <2>4, <1>1, <1>2
  <2>5. CASE m # 0
    <3>1. m - 1 \in 0 .. k - 1 /\ ~(m <= m - 1) /\ m \in 1 .. k /\ m # k /\ m - 1 + 1 = m
      <4>1. k \in Nat /\ m \in 0 .. k - 1 /\ m \in Nat
        BY <2>3, <1>2
      <4> HIDE DEF k
      <4> QED BY <4>1, <2>5
    <3>2. h[m - 1] = f[m]
      BY <3>1, <2>2
    <3>3. After(f, m) = m + 1
      BY <3>1 DEF After
    <3>4. h[m] = next[h[m - 1]]
      BY <2>3, <2>5, <1>1
    <3> QED BY <3>1, <3>2, <3>3, <3>4, <2>3, <1>3
  <2> QED BY <2>4, <2>5
<1>5. \A i \in 0 .. k - 1 : h[i] = f[i + 1]
  BY <1>4
<1>6. h[k] = f[1]
  <2>1. k \in 0 .. C /\ k - 1 \in 0 .. k - 1 /\ k - 1 + 1 = k /\ k \in 1 .. k
    BY <1>2
  <2>2. h[k - 1] = f[k]
    BY <2>1, <1>5
  <2>3. h[k] = next[h[k - 1]]
    BY <2>1, <1>1, <1>2
  <2>4. After(f, k) = 1
    BY DEF After
  <2> QED BY <2>1, <2>2, <2>3, <2>4, <1>3
<1> QED BY <1>5, <1>6 DEF h

\* The invariant says all that WheelConsistent does.
LEMMA InvariantConsistent == WheelInvariant => WheelConsistent
<1> SUFFICES ASSUME WheelInvariant PROVE WheelConsistent
  OBVIOUS
<1>1. TypeOK /\ FreeOK /\ ListsOK
  BY DEF WheelInvariant
<1>2. ListsWellFormed
  <2> SUFFICES ASSUME NEW s \in Slots
               PROVE  LET k == Cardinality(ArmedAt(s)) IN
                        /\ (timers[s] = NULL) <=> (k = 0)
                        /\ k > 0 => /\ {Walk(s)[i] : i \in 0 .. k - 1} = ArmedAt(s)
                                    /\ Walk(s)[k] = timers[s]
                                    /\ \A n \in ArmedAt(s) : prev[next[n]] = n
    BY DEF ListsWellFormed
  <2>1. PICK f \in Seq(Nodes) : IsList(s, f)
    BY <1>1 DEF ListsOK
  <2> DEFINE k == Len(f)
  <2>2. /\ Distinct(f) /\ k \in Nat
        /\ \A n \in Nodes : n \in ArmedAt(s) <=> \E i \in 1 .. k : f[i] = n
        /\ \A i \in 1 .. k : /\ f[i] \in Nodes /\ next[f[i]] = f[After(f, i)]
                             /\ prev[f[After(f, i)]] = f[i]
    BY <2>1 DEF IsList, ArmedAt
  <2>3. ArmedAt(s) \in SUBSET Nodes
    BY DEF ArmedAt
  <2>4. Cardinality(ArmedAt(s)) = k /\ k <= Cardinality(Nodes) /\ Cardinality(Nodes) \in Nat
    BY <2>2, <2>3, DistinctCount
  <2>5. (timers[s] = NULL) <=> (k = 0)
    BY <2>1, HeadOfList
  <2>6. ASSUME k > 0
        PROVE  /\ {Walk(s)[i] : i \in 0 .. k - 1} = ArmedAt(s)
               /\ Walk(s)[k] = timers[s]
               /\ \A n \in ArmedAt(s) : prev[next[n]] = n
    <3>1. /\ \A i \in 0 .. k - 1 : Walk(s)[i] = f[i + 1]
          /\ Walk(s)[k] = f[1] /\ timers[s] = f[1]
      BY <2>1, <2>4, <2>6, WalkFindsList, HeadOfList
    <3>2. \A i \in 0 .. k - 1 : i + 1 \in 1 .. k
      BY <2>2
    <3>3. \A i \in 1 .. k : i - 1 \in 0 .. k - 1 /\ i - 1 + 1 = i
      BY <2>2
    <3> DEFINE W(i) == Walk(s)[i]
    <3> HIDE DEF W
    <3>4. \A i \in 0 .. k - 1 : W(i) = f[i + 1]
      BY <3>1 DEF W
    <3> HIDE DEF k
    <3>5. \A n \in ArmedAt(s) : \E i \in 0 .. k - 1 : W(i) = n
      <4> SUFFICES ASSUME NEW n \in ArmedAt(s) PROVE \E i \in 0 .. k - 1 : W(i) = n
        OBVIOUS
      <4>1. PICK i \in 1 .. k : f[i] = n
        BY <2>2, <2>3
      <4>2. i - 1 \in 0 .. k - 1 /\ W(i - 1) = n
        BY <4>1, <3>3, <3>4
      <4> QED BY <4>2
    <3>6. \A i \in 0 .. k - 1 : W(i) \in ArmedAt(s)
      BY <3>2, <3>4, <2>2
    <3>7. {W(i) : i \in 0 .. k - 1} = ArmedAt(s)
      BY <3>5, <3>6
    <3>8. \A n \in ArmedAt(s) : prev[next[n]] = n
      BY <2>2, <2>3
    <3> QED BY <3>1, <3>7, <3>8 DEF W
  <2> QED BY <2>4, <2>5, <2>6
<1>3. NodesConserved
  <2> DEFINE T == {n \in Nodes : ~Armed(n)}
  <2>1. /\ free \in Seq(Nodes) /\ Distinct(free) /\ DOMAIN free = 1 .. Len(free)
        /\ \A n \in Nodes : n \in T <=> \E i \in 1 .. Len(free) : free[i] = n
        /\ \A i \in 1 .. Len(free) : free[i] \in Nodes
    BY <1>1 DEF FreeOK, Armed
  <2>2. T \in SUBSET Nodes
    OBVIOUS
  <2> HIDE DEF T
  <2>3. Cardinality(T) = Len(free)
    BY <2>1, <2>2, DistinctCount
  <2>4. {free[i] : i \in DOMAIN free} = T
    BY <2>1, <2>2
  <2> QED BY <2>3, <2>4 DEF NodesConserved, T
<1>4. SignalsBounded
  BY <1>1 DEF FreeOK, SignalsBounded
<1> QED BY <1>2, <1>3, <1>4 DEF WheelConsistent

\* Every list of the wheel is one ring of exactly the timers armed in its slot,
\* linked alike in both directions, no node is lost or in two places, and no
\* timer is reported twice, through any inserts and ticks and in their middle.
THEOREM WheelStaysConsistent == Spec => []WheelConsistent
BY InvariantConsistent, WheelInvariantHolds, PTL

-----------------------------------------------------------------------------
(***************************************************************************)
(* The timeouts of the client                                              *)
(***************************************************************************)
\* What the assumptions say of the timeouts.
LEMMA ClientConstants ==
  /\ RtoMin \in Nat \ {0} /\ RtoMax \in Nat \ {0} /\ MaxRetrans \in Nat /\ Lags \subseteq Nat
  /\ \A x \in Nat \ {0} : Backoff(x) \in Nat \ {0}
BY RtoAssumption, RetransAssumption, LagsAssumption DEF Backoff, Smaller

\* Timeout doubles from RtoMin, capped at RtoMax.
LEMMA TimeoutDoubles ==
  /\ Timeout[0] = RtoMin
  /\ \A k \in 0 .. MaxRetrans : Timeout[k + 1] = Backoff(Timeout[k])
<1> DEFINE N == MaxRetrans + 1
           D == Nat \ {0}
           F == [x \in D |-> Backoff(x)]
           B(w) == w = [k \in 0 .. N |-> IF k = 0 THEN RtoMin ELSE Backoff(w[k - 1])]
<1>1. N \in Nat /\ RtoMin \in D
  BY ClientConstants
<1>2. \A x \in D : F[x] = Backoff(x) /\ F[x] \in D
  BY ClientConstants
<1> HIDE DEF N, F, D
<1>3. PICK w : Iterates(F, RtoMin, N, w)
  BY <1>1, IterateExists
<1>4. \A i \in 0 .. N : w[i] = IF i = 0 THEN RtoMin ELSE F[w[i - 1]]
  BY <1>3 DEF Iterates
<1>5. w = [i \in 0 .. N |-> w[i]]
  BY <1>3 DEF Iterates
<1> DEFINE S == {i \in 0 .. N : w[i] \notin D}
<1>6. S = {}
  <2> SUFFICES ASSUME S # {} PROVE FALSE
    OBVIOUS
  <2>1. S \in SUBSET Nat
    BY <1>1
  <2>2. PICK m \in S : \A y \in S : m <= y
    BY <2>1, LeastElement
  <2>3. m \in 0 .. N /\ w[m] \notin D
    BY <2>2
  <2>4. CASE m = 0
    BY <2>3, <2>4, <1>1, <1>4
  <2>5. CASE m # 0
    <3>1. m - 1 \in 0 .. N /\ ~(m <= m - 1)
      BY <2>3, <2>5, <1>1
    <3>2. w[m - 1] \in D
      BY <3>1, <2>2
    <3>3. w[m] = F[w[m - 1]]
      BY <2>3, <2>5, <1>4
    <3> QED BY <3>2, <3>3, <2>3, <1>2
  <2> QED BY <2>4, <2>5
<1>7. \A i \in 0 .. N : w[i] = IF i = 0 THEN RtoMin ELSE Backoff(w[i - 1])
  <2> SUFFICES ASSUME NEW i \in 0 .. N
               PROVE  w[i] = IF i = 0 THEN RtoMin ELSE Backoff(w[i - 1])
    OBVIOUS
  <2>1. CASE i = 0
    BY <2>1, <1>4
  <2>2. CASE i # 0
    <3>1. i - 1 \in 0 .. N
      BY <2>2, <1>1
    <3>2. w[i - 1] \in D
      BY <3>1, <1>6
    <3> QED BY <2>2, <3>2, <1>2, <1>4
  <2> QED BY <2>1, <2>2
<1>8. B(w)
  BY <1>5, <1>7
<1> DEFINE h == Timeout
<1>9. h = CHOOSE v : B(v)
  BY DEF Timeout, N
<1> HIDE DEF B, h
<1>10. B(h)
  BY <1>8, <1>9, Zenon
<1>11. \A i \in 0 .. N : h[i] = IF i = 0 THEN RtoMin ELSE Backoff(h[i - 1])
  BY <1>10 DEF B
<1>12. h[0] = RtoMin
  <2>1. 0 \in 0 .. N
    BY <1>1
  <2> QED BY <2>1, <1>11
<1>13. ASSUME NEW k \in 0 .. MaxRetrans PROVE h[k + 1] = Backoff(h[k])
  <2>1. k + 1 \in 0 .. N /\ k + 1 # 0 /\ k + 1 - 1 = k
    BY ClientConstants DEF N
  <2> QED BY <2>1, <1>11
<1> QED BY <1>12, <1>13 DEF h

-----------------------------------------------------------------------------
(***************************************************************************)
(* Every step keeps the client's invariant                                 *)
(***************************************************************************)
\* A tick that meets the only timer of the wheel finds it alone in its slot.
LEMMA OnlyTimer ==
  ASSUME WheelInvariant, pc = "scan", NEW n \in Nodes, \A m \in Nodes : Armed(m) <=> m = n
  PROVE  t = n /\ next[t] = t
<1>1. PICK f \in Seq(Nodes) : ScanAt(f)
  BY ScanPlace
<1>2. PICK k \in 1 .. Len(f) : IsList(current, f) /\ f[k] = t
  BY <1>1 DEF ScanAt
<1>3. current \in Slots
  BY DEF WheelInvariant, TypeOK
<1>4. \A i \in 1 .. Len(f) : f[i] \in Nodes /\ at[f[i]] = current
  BY <1>2 DEF IsList
<1>5. \A i \in 1 .. Len(f) : f[i] = n
  BY <1>3, <1>4, Constants DEF Armed
<1>6. After(f, k) \in 1 .. Len(f) /\ next[t] = f[After(f, k)]
  BY <1>2, AfterInRange DEF IsList
<1> QED BY <1>2, <1>5, <1>6

\* An insert into a wheel without timers makes T1 its only one.
LEMMA InsertArms ==
  ASSUME WheelInvariant, NoneArmed, NEW time \in Nat \ {0}, Insert(T1Expire, time)
  PROVE  \E n \in Nodes : /\ \A m \in Nodes : Armed(m)' <=> m = n
                          /\ signal'[n] = T1Expire /\ due'[n] = time
<1>1. TypeOK /\ FreeOK
  BY DEF WheelInvariant
<1>2. free \in Seq(Nodes) /\ free # << >> /\ Head(free) \in Nodes
  BY <1>1 DEF Insert, FreeOK
<1> DEFINE slot == current + (time - 1)
           s == slot % Max
<1>3. s \in Slots /\ s # NULL
  <2>1. slot \in Nat
    BY <1>1, Constants DEF TypeOK
  <2> HIDE DEF slot
  <2> QED BY <2>1, Constants, QuotientRemainder DEF Slots
<1>4. PICK n \in Nodes : n = Head(free)
  BY <1>2
<1>5. /\ at' = [at EXCEPT ![n] = s] /\ signal' = [signal EXCEPT ![n] = T1Expire]
      /\ due' = [due EXCEPT ![n] = time]
  BY <1>4 DEF Insert
<1> HIDE DEF s
<1>6. \A m \in Nodes : Armed(m)' <=> m = n
  BY <1>1, <1>3, <1>5 DEF TypeOK, Armed, NoneArmed
<1>7. signal'[n] = T1Expire /\ due'[n] = time
  BY <1>1, <1>5 DEF TypeOK
<1> QED BY <1>6, <1>7

\* The client starts with an empty wheel and the first timeout.
LEMMA ClientInitInvariant == ClientInit => ClientInvariant
<1> SUFFICES ASSUME ClientInit PROVE ClientInvariant
  OBVIOUS
<1>1. WheelInvariant
  BY InitInvariant DEF ClientInit
<1>2. /\ cpc = "arm" /\ t1 = RtoMin /\ retrans = 0 /\ lag = 0 /\ todo = 0 /\ since = 0
      /\ elapsed = 0 /\ late = 0 /\ batch = 0 /\ pc = "idle" /\ \A n \in Nodes : at[n] = NULL
  BY DEF ClientInit, Init
<1>3. ClientTypeOK
  BY <1>2, ClientConstants DEF ClientTypeOK, InTick
<1>4. T1OK
  BY <1>2 DEF T1OK, NoneArmed, Armed
<1>5. LimitOK
  <2>1. ~(retrans > MaxRetrans)
    BY <1>2, ClientConstants
  <2> QED BY <2>1, <1>2, TimeoutDoubles DEF LimitOK
<1>6. ClockOK
  BY <1>2 DEF ClockOK
<1> QED BY <1>1, <1>3, <1>4, <1>5, <1>6 DEF ClientInvariant

\* The first insert_ringtimer arms T1 with the first timeout.
LEMMA InvArm == ClientInvariant /\ Arm => ClientInvariant'
<1> SUFFICES ASSUME ClientInvariant, Arm PROVE ClientInvariant'
  OBVIOUS
<1>1. WheelInvariant /\ ClientTypeOK /\ T1OK /\ LimitOK /\ ClockOK
  BY DEF ClientInvariant
<1>2. /\ cpc = "arm" /\ cpc' = "outer" /\ Insert(T1Expire, t1) /\ t1' = t1 /\ retrans' = retrans
      /\ lag' = lag /\ todo' = todo /\ since' = since /\ batch' = batch /\ pc' = pc
      /\ elapsed' = elapsed /\ late' = late
  BY DEF Arm, Insert
<1>3. /\ t1 \in Nat \ {0} /\ T1Expire \in Nat /\ NoneArmed /\ since = 0 /\ lag = 0
  BY <1>1, <1>2 DEF ClientTypeOK, T1OK, LimitOK, T1Expire
<1>4. WheelInvariant'
  BY <1>1, <1>2, <1>3, InvInsert
<1>5. ClientTypeOK'
  BY <1>1, <1>2 DEF ClientTypeOK, InTick
<1>6. Waiting'
  <2>1. PICK n \in Nodes : /\ \A m \in Nodes : Armed(m)' <=> m = n
                           /\ signal'[n] = T1Expire /\ due'[n] = t1
    BY <1>1, <1>2, <1>3, InsertArms
  <2>2. due'[n] = t1' - since'
    BY <2>1, <1>2, <1>3
  <2> QED BY <2>1, <2>2 DEF Waiting, T1Expire
<1>7. T1OK'
  BY <1>2, <1>6 DEF T1OK
<1>8. LimitOK'
  BY <1>1, <1>2 DEF LimitOK, Seen
<1>9. ClockOK'
  BY <1>1, <1>2 DEF ClockOK
<1> QED BY <1>4, <1>5, <1>7, <1>8, <1>9 DEF ClientInvariant

\* A step that leaves the wheel alone leaves T1 as it is.
LEMMA SameWheel ==
  ASSUME UNCHANGED timerVars
  PROVE  /\ WheelInvariant => WheelInvariant'
         /\ t1' = t1 /\ since' = since => (Waiting => Waiting')
         /\ (NoneArmed => NoneArmed') /\ pc' = pc /\ res' = res /\ first' = first /\ t' = t
         /\ Expired => Expired'
<1>1. at' = at /\ signal' = signal /\ due' = due /\ pc' = pc /\ res' = res /\ first' = first /\ t' = t
  BY DEF timerVars
<1>2. WheelInvariant => WheelInvariant'
  BY NextInvariant
<1>3. t1' = t1 /\ since' = since => (Waiting => Waiting')
  BY <1>1 DEF Waiting, Armed, T1Expire
<1>4. NoneArmed => NoneArmed'
  BY <1>1 DEF NoneArmed, Armed
<1>5. Expired => Expired'
  BY <1>1, <1>4 DEF Expired, T1Expire
<1> QED BY <1>1, <1>2, <1>3, <1>4, <1>5

\* The outer loop looks at the limit, then at the clock.
LEMMA InvOuter ==
  ASSUME ClientInvariant, NEW k \in Lags, Outer(k)
  PROVE  ClientInvariant'
<1>1. WheelInvariant /\ ClientTypeOK /\ T1OK /\ LimitOK /\ ClockOK
  BY DEF ClientInvariant
<1>2. /\ cpc = "outer" /\ UNCHANGED timerVars /\ t1' = t1 /\ retrans' = retrans
      /\ todo' = todo /\ since' = since /\ late' = late
      /\ IF retrans > MaxRetrans
         THEN cpc' = "failed" /\ lag' = lag /\ elapsed' = elapsed /\ batch' = batch
         ELSE cpc' = "inner" /\ lag' = lag + k /\ elapsed' = elapsed + k /\ batch' = lag + k
  BY DEF Outer
<1>3. WheelInvariant' /\ pc' = pc /\ Waiting'
  BY <1>1, <1>2, SameWheel DEF T1OK
<1>4. /\ k \in Nat /\ lag \in Nat /\ lag + k \in Nat /\ elapsed \in Nat /\ elapsed + k \in Nat
      /\ late \in Nat /\ since \in Nat
  BY <1>1, ClientConstants DEF ClientTypeOK
<1>5. ClientTypeOK'
  BY <1>1, <1>2, <1>3, <1>4 DEF ClientTypeOK, InTick
<1>6. T1OK'
  BY <1>2, <1>3 DEF T1OK
<1>7. LimitOK'
  BY <1>1, <1>2, <1>4 DEF LimitOK, Seen
<1>8. ClockOK'
  <2>1. elapsed + late = since + lag
    BY <1>1, <1>2, <1>4 DEF ClockOK
  <2>2. elapsed' + late' = since' + lag' /\ cpc' # "handle"
    BY <2>1, <1>2, <1>4
  <2>3. since' + lag' = since' + lag' - 0
    BY <1>2, <1>4
  <2> QED BY <2>2, <2>3 DEF ClockOK
<1> QED BY <1>3, <1>5, <1>6, <1>7, <1>8 DEF ClientInvariant

\* The inner loop ends when it has caught up.
LEMMA InvInnerEnd == ClientInvariant /\ InnerEnd => ClientInvariant'
<1> SUFFICES ASSUME ClientInvariant, InnerEnd PROVE ClientInvariant'
  OBVIOUS
<1>1. WheelInvariant /\ ClientTypeOK /\ T1OK /\ LimitOK /\ ClockOK
  BY DEF ClientInvariant
<1>2. /\ cpc = "inner" /\ lag = 0 /\ cpc' = "outer" /\ UNCHANGED timerVars /\ t1' = t1
      /\ retrans' = retrans /\ lag' = lag /\ todo' = todo /\ since' = since /\ batch' = batch
      /\ elapsed' = elapsed /\ late' = late
  BY DEF InnerEnd
<1>3. WheelInvariant' /\ pc' = pc /\ Waiting'
  BY <1>1, <1>2, SameWheel DEF T1OK
<1>4. ClientTypeOK'
  BY <1>1, <1>2, <1>3 DEF ClientTypeOK, InTick
<1>5. T1OK'
  BY <1>2, <1>3 DEF T1OK
<1>6. LimitOK'
  BY <1>1, <1>2 DEF LimitOK, Seen
<1>7. ClockOK'
  BY <1>1, <1>2 DEF ClockOK
<1> QED BY <1>3, <1>4, <1>5, <1>6, <1>7 DEF ClientInvariant

\* One step of the catch-up is over, its expiry handled.
LEMMA InvHandled == ClientInvariant /\ Handled => ClientInvariant'
<1> SUFFICES ASSUME ClientInvariant, Handled PROVE ClientInvariant'
  OBVIOUS
<1>1. WheelInvariant /\ ClientTypeOK /\ T1OK /\ LimitOK /\ ClockOK
  BY DEF ClientInvariant
<1>2. /\ cpc = "handle" /\ todo = 0 /\ lag' = lag - 1 /\ cpc' = "inner" /\ UNCHANGED timerVars
      /\ t1' = t1 /\ retrans' = retrans /\ todo' = todo /\ since' = since /\ batch' = batch
      /\ elapsed' = elapsed /\ late' = late
  BY DEF Handled
<1>3. WheelInvariant' /\ pc' = pc /\ Waiting'
  BY <1>1, <1>2, SameWheel DEF T1OK
<1>4. lag \in Nat /\ lag > 0 /\ batch \in Nat /\ lag <= batch
  BY <1>1, <1>2 DEF ClientTypeOK, LimitOK
<1>5. ClientTypeOK'
  BY <1>1, <1>2, <1>3, <1>4 DEF ClientTypeOK, InTick
<1>6. T1OK'
  BY <1>2, <1>3 DEF T1OK
<1>7. LimitOK'
  <2>1. Seen' = Seen
    BY <1>2, <1>4 DEF Seen
  <2>2. lag' <= batch'
    BY <1>2, <1>4
  <2> QED BY <2>1, <2>2, <1>1, <1>2 DEF LimitOK
<1>8. ClockOK'
  <2>1. since \in Nat
    BY <1>1 DEF ClientTypeOK
  <2>2. since + lag - 1 = since' + lag' - 0
    BY <2>1, <1>2, <1>4
  <2> QED BY <2>2, <1>1, <1>2 DEF ClockOK
<1> QED BY <1>3, <1>5, <1>6, <1>7, <1>8 DEF ClientInvariant

\* A tick begins, with T1 alone in the wheel.
LEMMA InvInnerTick == ClientInvariant /\ InnerTick => ClientInvariant'
<1> SUFFICES ASSUME ClientInvariant, InnerTick PROVE ClientInvariant'
  OBVIOUS
<1>1. WheelInvariant /\ ClientTypeOK /\ T1OK /\ LimitOK /\ ClockOK
  BY DEF ClientInvariant
<1>2. /\ cpc = "inner" /\ lag > 0 /\ cpc' = "tick" /\ TickBegin
      /\ t1' = t1 /\ retrans' = retrans /\ lag' = lag /\ todo' = todo /\ since' = since
      /\ batch' = batch /\ elapsed' = elapsed /\ late' = late
  BY DEF InnerTick
<1>3. /\ res' = << >> /\ first' = t' /\ pc' \in {"scan", "advance"}
      /\ at' = at /\ signal' = signal /\ due' = due
  BY <1>2 DEF TickBegin
<1>4. WheelInvariant'
  BY <1>1, <1>2, InvTickBegin
<1>5. Waiting'
  BY <1>1, <1>2, <1>3 DEF T1OK, Waiting, Armed, T1Expire
<1>6. ClientTypeOK'
  BY <1>1, <1>2, <1>3 DEF ClientTypeOK, InTick
<1>7. T1OK'
  BY <1>2, <1>3, <1>5 DEF T1OK
<1>8. LimitOK'
  BY <1>1, <1>2 DEF LimitOK, Seen
<1>9. ClockOK'
  BY <1>1, <1>2 DEF ClockOK
<1> QED BY <1>4, <1>6, <1>7, <1>8, <1>9 DEF ClientInvariant

\* T1 fires on its time or a turn of the wheel later, or is counted down.
LEMMA InvClientScan == ClientInvariant /\ ClientScan => ClientInvariant'
<1> SUFFICES ASSUME ClientInvariant, ClientScan PROVE ClientInvariant'
  OBVIOUS
<1>1. WheelInvariant /\ ClientTypeOK /\ T1OK /\ LimitOK /\ ClockOK
  BY DEF ClientInvariant
<1>2. /\ cpc = "tick" /\ cpc' = cpc /\ t1' = t1 /\ retrans' = retrans /\ lag' = lag
      /\ todo' = todo /\ since' = since /\ batch' = batch /\ (TickFire \/ TickKeep)
      /\ elapsed' = elapsed /\ late' = late
  BY DEF ClientScan, clientVars
<1>3. pc = "scan" /\ first' = first
  BY <1>2 DEF TickFire, TickKeep
<1>4. Waiting /\ res = << >> /\ first = t
  BY <1>1, <1>2, <1>3 DEF T1OK
<1>5. PICK n \in Nodes : /\ \A m \in Nodes : Armed(m) <=> m = n
                         /\ signal[n] = T1Expire /\ due[n] = t1 - since
  BY <1>4 DEF Waiting
<1>6. t = n /\ next[t] = t
  BY <1>1, <1>3, <1>5, OnlyTimer
<1>7. pc' = "advance"
  BY <1>2, <1>4, <1>6 DEF TickFire, TickKeep, Advance
<1>8. WheelInvariant'
  BY <1>1, <1>2, InvTickFire, InvTickKeep
<1>9. ClientTypeOK'
  BY <1>1, <1>2, <1>3, <1>7 DEF ClientTypeOK, InTick
<1>10. LimitOK' /\ ClockOK'
  BY <1>1, <1>2 DEF LimitOK, Seen, ClockOK
<1>11. CASE TickKeep
  <2>1. at' = at /\ signal' = signal /\ due' = due /\ res' = res
    BY <1>11 DEF TickKeep
  <2>2. Waiting'
    BY <2>1, <1>2, <1>4 DEF Waiting, Armed, T1Expire
  <2>3. T1OK'
    BY <2>1, <2>2, <1>2, <1>4, <1>7 DEF T1OK
  <2> QED BY <2>3, <1>8, <1>9, <1>10 DEF ClientInvariant
<1>12. CASE TickFire
  <2>1. TypeOK /\ TickOK
    BY <1>1 DEF WheelInvariant
  <2>2. at' = [at EXCEPT ![t] = NULL] /\ res' = Append(res, signal[t]) /\ retries[t] = 0
    BY <1>12 DEF TickFire
  <2>3. NoneArmed'
    BY <2>1, <2>2, <1>5, <1>6 DEF NoneArmed, Armed, TypeOK
  <2>4. res' = <<T1Expire>>
    BY <2>2, <1>4, <1>5, <1>6
  <2>5. Expired'
    BY <2>3, <2>4 DEF Expired, T1Expire
  <2>6. since - t1 \in {-1, Max - 1}
    <3>1. Armed(n) /\ at[n] = current
      BY <2>1, <1>3, <1>5, <1>6 DEF TickOK
    <3>2. Ahead(n) = 0 /\ due[n] \in Int /\ Max \in Nat \ {0}
      BY <2>1, <3>1, ErrorOfArmed, Constants
    <3>3. OnCourse(n)
      <4>1. PICK f \in Seq(Nodes) : ScanAt(f)
        BY <1>1, <1>3, ScanPlace
      <4>2. PICK k \in 1 .. Len(f) :
               /\ f[k] = t
               /\ \A i \in 1 .. Len(f) : IF i < k THEN Counted(f[i]) ELSE OnCourse(f[i])
        BY <4>1, <3>1, <1>4, <1>6 DEF ScanAt
      <4>3. ~(k < k)
        OBVIOUS
      <4> QED BY <4>2, <4>3, <1>6
    <3>4. Error(n) = due[n] - (0 + 1 + Max * 0)
      BY <2>2, <3>2, <1>6 DEF Error
    <3>5. due[n] \in {1, 1 - Max}
      BY <3>2, <3>3, <3>4 DEF OnCourse
    <3>6. t1 \in Int /\ since \in Int
      BY <1>1 DEF ClientTypeOK
    <3> QED BY <3>2, <3>5, <3>6, <1>5
  <2>7. T1OK'
    BY <2>5, <2>6, <1>2, <1>7 DEF T1OK
  <2> QED BY <2>7, <1>8, <1>9, <1>10 DEF ClientInvariant
<1> QED BY <1>2, <1>11, <1>12

\* The end of a tick: one tick more for T1, or its expiry reported.
LEMMA InvClientTickEnd == ClientInvariant /\ ClientTickEnd => ClientInvariant'
<1> SUFFICES ASSUME ClientInvariant, ClientTickEnd PROVE ClientInvariant'
  OBVIOUS
<1>1. WheelInvariant /\ ClientTypeOK /\ T1OK /\ LimitOK /\ ClockOK
  BY DEF ClientInvariant
<1>2. /\ cpc = "tick" /\ cpc' = "handle" /\ TickEnd /\ todo' = Len(res) /\ since' = since + 1
      /\ t1' = t1 /\ retrans' = retrans /\ lag' = lag /\ batch' = batch
      /\ elapsed' = elapsed /\ late' = late
  BY DEF ClientTickEnd
<1>3. /\ pc = "advance" /\ pc' = "idle" /\ at' = at /\ signal' = signal /\ res' = res
      /\ due' = [n \in Nodes |-> IF Armed(n) THEN due[n] - 1 ELSE 0]
  BY <1>2 DEF TickEnd
<1>4. WheelInvariant'
  BY <1>1, <1>2, InvTickEnd
<1>5. /\ since \in Nat /\ t1 \in Nat \ {0} /\ lag \in Nat /\ lag > 0 /\ batch \in Nat
      /\ lag <= batch /\ Max \in Nat \ {0}
  BY <1>1, <1>2, Constants DEF ClientTypeOK, LimitOK
<1>6. LimitOK'
  <2>1. Seen \in Int /\ Seen' = Seen + 1
    BY <1>2, <1>5 DEF Seen
  <2>2. retrans > MaxRetrans => RtoMax * (retrans - MaxRetrans - 1) + since' <= Seen'
    <3> SUFFICES ASSUME retrans > MaxRetrans
                 PROVE  RtoMax * (retrans - MaxRetrans - 1) + since' <= Seen'
      OBVIOUS
    <3> DEFINE x == RtoMax * (retrans - MaxRetrans - 1)
    <3>1. x + since <= Seen
      BY <1>1 DEF LimitOK
    <3>2. x \in Int
      BY <1>1, ClientConstants DEF ClientTypeOK
    <3> HIDE DEF x
    <3>3. x + since' <= Seen'
      BY <3>1, <3>2, <2>1, <1>2, <1>5
    <3> QED BY <3>3 DEF x
  <2> QED BY <2>2, <1>1, <1>2, <1>5 DEF LimitOK
<1>7. ClockOK'
  <2>1. since + lag - 0 = since' + lag' - 1
    BY <1>2, <1>5
  <2> QED BY <2>1, <1>1, <1>2 DEF ClockOK
<1>8. CASE Waiting /\ res = << >>
  <2>1. PICK n \in Nodes : /\ \A m \in Nodes : Armed(m) <=> m = n
                           /\ signal[n] = T1Expire /\ due[n] = t1 - since
    BY <1>8 DEF Waiting
  <2>2. due'[n] = t1' - since'
    BY <2>1, <1>2, <1>3, <1>5
  <2>3. Waiting'
    BY <2>1, <2>2, <1>3 DEF Waiting, Armed, T1Expire
  <2>4. todo' = 0 /\ since' \in Nat
    BY <1>2, <1>5, <1>8
  <2>5. ClientTypeOK'
    BY <2>4, <1>1, <1>2, <1>3 DEF ClientTypeOK, InTick
  <2>6. T1OK'
    BY <2>3, <2>4, <1>2 DEF T1OK
  <2> QED BY <2>5, <2>6, <1>4, <1>6, <1>7 DEF ClientInvariant
<1>9. CASE Expired /\ since - t1 \in {-1, Max - 1}
  <2>1. todo' = 1 /\ since' \in Nat
    BY <1>2, <1>5, <1>9 DEF Expired
  <2>2. Expired'
    BY <1>3, <1>9 DEF Expired, NoneArmed, Armed, T1Expire
  <2>3. since' - t1' \in {0, Max}
    BY <1>2, <1>5, <1>9
  <2>4. ClientTypeOK'
    BY <2>1, <1>1, <1>2, <1>3 DEF ClientTypeOK, InTick
  <2>5. T1OK'
    BY <2>1, <2>2, <2>3, <1>2 DEF T1OK
  <2> QED BY <2>4, <2>5, <1>4, <1>6, <1>7 DEF ClientInvariant
<1> QED BY <1>1, <1>2, <1>8, <1>9 DEF T1OK

\* SCTP_T1_INIT_EXPIRE: T1 is armed with the doubled timeout, and counted.
LEMMA InvExpire == ClientInvariant /\ Expire => ClientInvariant'
<1> SUFFICES ASSUME ClientInvariant, Expire PROVE ClientInvariant'
  OBVIOUS
<1>1. WheelInvariant /\ ClientTypeOK /\ T1OK /\ LimitOK /\ ClockOK
  BY DEF ClientInvariant
<1>2. /\ cpc = "handle" /\ cpc' = cpc /\ todo > 0 /\ todo' = todo - 1 /\ t1' = Backoff(t1)
      /\ Insert(T1Expire, Backoff(t1)) /\ retrans' = retrans + 1 /\ since' = 0
      /\ elapsed' = 0 /\ late' = lag - 1 /\ lag' = lag /\ batch' = batch /\ pc' = pc
  BY DEF Expire, Insert
<1>3. /\ todo = 1 /\ t1 \in Nat \ {0} /\ since \in Nat /\ retrans \in Nat /\ lag \in Nat
      /\ batch \in Nat /\ lag <= batch /\ Max \in Nat \ {0} /\ T1Expire \in Nat
      /\ RtoMax \in Nat \ {0} /\ MaxRetrans \in Nat /\ Backoff(t1) \in Nat \ {0}
  BY <1>1, <1>2, Constants, ClientConstants DEF ClientTypeOK, LimitOK, T1Expire
<1>4. NoneArmed /\ since - t1 \in {0, Max}
  BY <1>1, <1>2, <1>3 DEF T1OK, Expired
<1>5. WheelInvariant'
  BY <1>1, <1>2, <1>3, InvInsert
<1>6. Waiting'
  <2>1. PICK n \in Nodes : /\ \A m \in Nodes : Armed(m)' <=> m = n
                           /\ signal'[n] = T1Expire /\ due'[n] = Backoff(t1)
    BY <1>1, <1>2, <1>3, <1>4, InsertArms
  <2>2. due'[n] = t1' - since'
    BY <2>1, <1>2, <1>3
  <2> QED BY <2>1, <2>2 DEF Waiting, T1Expire
<1>7. ClientTypeOK'
  <2>1. lag > 0
    BY <1>1, <1>2 DEF LimitOK
  <2>2. elapsed' \in Nat /\ late' \in Nat
    BY <2>1, <1>2, <1>3
  <2> QED BY <2>2, <1>1, <1>2, <1>3 DEF ClientTypeOK, InTick
<1>8. T1OK'
  BY <1>2, <1>3, <1>6 DEF T1OK
<1>9. LimitOK'
  <2>1. Seen' = Seen /\ Seen \in Nat
    BY <1>2, <1>3 DEF Seen
  <2>2. CASE retrans > MaxRetrans
    <3> DEFINE y == retrans - MaxRetrans - 1
               x == RtoMax * y
               z == RtoMax * (retrans' - MaxRetrans - 1)
    <3>1. t1 = RtoMax /\ x + since <= Seen
      BY <2>2, <1>1 DEF LimitOK
    <3>2. t1' = RtoMax
      BY <3>1, <1>2, <1>3 DEF Backoff, Smaller
    <3>3. y \in Nat /\ retrans' - MaxRetrans - 1 = y + 1
      BY <2>2, <1>2, <1>3
    <3>4. RtoMax * (y + 1) = RtoMax * y + RtoMax /\ RtoMax * y \in Nat
      BY <3>3, <1>3
    <3>5. since >= RtoMax
      BY <3>1, <1>3, <1>4
    <3>6. z = x + RtoMax /\ x \in Nat
      BY <3>3, <3>4
    <3> HIDE DEF x, z
    <3>7. z + since' <= Seen'
      BY <3>1, <3>5, <3>6, <2>1, <1>2, <1>3
    <3>8. ~(retrans' <= MaxRetrans)
      BY <2>2, <1>2, <1>3
    <3> QED BY <3>2, <3>7, <3>8, <1>1, <1>2 DEF LimitOK, z
  <2>3. CASE ~(retrans > MaxRetrans)
    <3>1. retrans \in 0 .. MaxRetrans /\ t1 = Timeout[retrans]
      BY <2>3, <1>1, <1>3 DEF LimitOK
    <3>2. t1' = Timeout[retrans + 1]
      BY <3>1, <1>2, TimeoutDoubles
    <3>3. CASE retrans = MaxRetrans
      <4>1. t1' = RtoMax
        BY <3>2, <3>3, BackoffAssumption
      <4>2. retrans' - MaxRetrans - 1 = 0 /\ ~(retrans' <= MaxRetrans)
        BY <3>3, <1>2, <1>3
      <4>3. RtoMax * (retrans' - MaxRetrans - 1) + since' <= Seen'
        BY <4>2, <2>1, <1>2, <1>3
      <4> QED BY <4>1, <4>2, <4>3, <1>1, <1>2 DEF LimitOK
    <3>4. CASE retrans # MaxRetrans
      <4>1. ~(retrans' > MaxRetrans)
        BY <3>1, <3>4, <1>2, <1>3
      <4> QED BY <4>1, <3>2, <1>1, <1>2 DEF LimitOK
    <3> QED BY <3>3, <3>4
  <2> QED BY <2>2, <2>3
<1>10. ClockOK'
  BY <1>2, <1>3 DEF ClockOK
<1> QED BY <1>5, <1>7, <1>8, <1>9, <1>10 DEF ClientInvariant

\* Every step of the client keeps its invariant.
LEMMA ClientNextInvariant == ClientInvariant /\ [ClientNext]_allVars => ClientInvariant'
<1> SUFFICES ASSUME ClientInvariant, [ClientNext]_allVars PROVE ClientInvariant'
  OBVIOUS
<1>1. ASSUME UNCHANGED allVars PROVE ClientInvariant'
  <2>1. WheelInvariant /\ ClientTypeOK /\ T1OK /\ LimitOK /\ ClockOK
    BY DEF ClientInvariant
  <2>2. /\ UNCHANGED timerVars /\ cpc' = cpc /\ t1' = t1 /\ retrans' = retrans
        /\ lag' = lag /\ todo' = todo /\ since' = since /\ batch' = batch
        /\ elapsed' = elapsed /\ late' = late
    BY <1>1 DEF allVars, clientVars
  <2>3. /\ WheelInvariant' /\ (Waiting => Waiting') /\ (NoneArmed => NoneArmed')
        /\ (Expired => Expired') /\ pc' = pc /\ res' = res /\ first' = first /\ t' = t
    BY <2>1, <2>2, SameWheel
  <2>4. ClientTypeOK' /\ LimitOK' /\ ClockOK'
    BY <2>1, <2>2, <2>3 DEF ClientTypeOK, InTick, LimitOK, Seen, ClockOK
  <2>5. T1OK'
    BY <2>1, <2>2, <2>3 DEF T1OK
  <2> QED BY <2>3, <2>4, <2>5 DEF ClientInvariant
<1> QED BY <1>1, InvArm, InvOuter, InvInnerEnd, InvInnerTick, InvClientScan,
           InvClientTickEnd, InvExpire, InvHandled DEF ClientNext, ClientStep

\* ClientInvariant holds in every reachable state of the client, and with it
\* the wheel's invariant in every state of the client's wheel.
THEOREM ClientInvariantHolds == ClientSpec => []ClientInvariant
BY ClientInitInvariant, ClientNextInvariant, PTL DEF ClientSpec

-----------------------------------------------------------------------------
(***************************************************************************)
(* What the client does                                                    *)
(***************************************************************************)
\* The INIT is retransmitted when the clock has made the steps of t1_timer or
\* one turn of the wheel more, counted in clock time from the step the wheel was
\* at when T1 was armed to the step it is at: early by at most the steps the
\* thread was behind at the arming, and not at all if it was up to date.
THEOREM EarlyOnlyByLag == ClientSpec => T1EarlyOnlyByLag
<1>1. ClientInvariant /\ [ClientNext]_allVars
        => [retrans' > retrans
              => elapsed + late - (lag - 1) \in {t1, t1 + Max}]_allVars
  <2> SUFFICES ASSUME ClientInvariant, [ClientNext]_allVars, retrans' > retrans
               PROVE  elapsed + late - (lag - 1) \in {t1, t1 + Max}
    OBVIOUS
  <2>1. ClientTypeOK /\ T1OK /\ ClockOK
    BY DEF ClientInvariant
  <2>2. retrans' # retrans
    BY <2>1 DEF ClientTypeOK
  <2>3. Expire
    BY <2>2 DEF ClientNext, ClientStep, Arm, Outer, InnerEnd, InnerTick, ClientScan,
                ClientTickEnd, Handled, allVars, clientVars
  <2>4. since - t1 \in {0, Max}
    BY <2>1, <2>3 DEF Expire, T1OK
  <2>5. /\ elapsed \in Nat /\ late \in Nat /\ lag \in Nat /\ since \in Nat
        /\ t1 \in Nat /\ Max \in Nat
    BY <2>1, Constants DEF ClientTypeOK
  <2>6. elapsed + late = since + lag - 1
    BY <2>1, <2>3 DEF Expire, ClockOK
  <2>7. elapsed + late - (lag - 1) = since
    BY <2>5, <2>6
  <2>8. since \in {t1, t1 + Max}
    BY <2>4, <2>5
  <2> QED BY <2>7, <2>8
<1> QED BY <1>1, ClientInvariantHolds, PTL DEF ClientSpec, T1EarlyOnlyByLag

\* At most one INIT more than SCTP_ASSOC_MAX_RETRANS is sent after the first,
\* and further ones only in a catch-up that spans further timeouts of RtoMax.
THEOREM RetransmissionsBounded == ClientSpec => []RetransBounded
<1>1. ClientInvariant => RetransBounded
  <2> SUFFICES ASSUME ClientInvariant PROVE RetransBounded
    OBVIOUS
  <2>1. ClientTypeOK /\ LimitOK
    BY DEF ClientInvariant
  <2> DEFINE q == batch \div RtoMax
             r == batch % RtoMax
             y == retrans - MaxRetrans - 1
  <2>2. /\ retrans \in Nat /\ lag \in Nat /\ batch \in Nat /\ since \in Nat /\ lag <= batch
        /\ RtoMax \in Nat \ {0} /\ MaxRetrans \in Nat
    BY <2>1, ClientConstants DEF ClientTypeOK, LimitOK
  <2>3. q \in Nat /\ r \in 0 .. RtoMax - 1 /\ batch = RtoMax * q + r
    BY <2>2, QuotientRemainder
  <2>4. CASE retrans > MaxRetrans
    <3>1. y \in Nat /\ RtoMax * y + since <= Seen /\ RtoMax * y \in Nat
      BY <2>1, <2>2, <2>4 DEF LimitOK
    <3>2. Seen <= batch
      <4>1. cpc = "handle" => lag > 0
        BY <2>1 DEF LimitOK
      <4> QED BY <4>1, <2>2 DEF Seen
    <3>3. RtoMax * y <= batch /\ Seen \in Int
      BY <3>1, <3>2, <2>2 DEF Seen
    <3> HIDE DEF q, r, y
    <3>4. y <= q
      <4> SUFFICES ASSUME y >= q + 1 PROVE FALSE
        BY <3>1, <2>3
      <4>1. RtoMax * y >= RtoMax * (q + 1)
        BY <3>1, <2>2, <2>3
      <4>2. RtoMax * (q + 1) = RtoMax * q + RtoMax /\ RtoMax * q \in Nat
        BY <2>2, <2>3
      <4> QED BY <4>1, <4>2, <3>1, <3>3, <2>2, <2>3
    <3>5. retrans <= MaxRetrans + 1 + q
      BY <3>4, <2>2, <2>3 DEF y
    <3> QED BY <3>5 DEF RetransBounded, q
  <2>5. CASE ~(retrans > MaxRetrans)
    <3> HIDE DEF q
    <3>1. retrans <= MaxRetrans + 1 + q
      BY <2>2, <2>3, <2>5
    <3> QED BY <3>1 DEF RetransBounded, q
  <2> QED BY <2>4, <2>5
<1> QED BY <1>1, ClientInvariantHolds, PTL

\* insert_ringtimer never polls an empty allocator for ever on behalf of the
\* client, not even with a single node; a tick reports at most one signal, and
\* the switch over the signals never meets one it does not know.
THEOREM ClientNeverStarves ==
  ASSUME Nodes # {}
  PROVE  ClientSpec => []ClientServed
<1>1. ClientInvariant => ClientServed
  <2> SUFFICES ASSUME ClientInvariant PROVE ClientServed
    OBVIOUS
  <2>1. WheelInvariant /\ ClientTypeOK /\ T1OK
    BY DEF ClientInvariant
  <2>2. WheelConsistent
    BY <2>1, InvariantConsistent
  <2>3. NoneArmed => free # << >>
    <3> SUFFICES ASSUME NoneArmed PROVE free # << >>
      OBVIOUS
    <3>1. PICK n \in Nodes : TRUE
      OBVIOUS
    <3>2. at[n] = NULL
      BY DEF NoneArmed, Armed
    <3>3. \E i \in 1 .. Len(free) : free[i] = n
      BY <3>2, <2>1 DEF WheelInvariant, FreeOK
    <3> QED BY <3>3
  <2>4. cpc = "handle" /\ todo > 0 => todo = 1 /\ Expired
    BY <2>1 DEF ClientTypeOK, T1OK
  <2>5. cpc = "tick" => Len(res) <= 1
    <3>1. cpc = "tick" => res = << >> \/ res = <<T1Expire>>
      BY <2>1 DEF T1OK, Expired
    <3>2. Len(<< >>) <= 1 /\ Len(<<T1Expire>>) <= 1
      OBVIOUS
    <3> QED BY <3>1, <3>2
  <2> QED BY <2>1, <2>2, <2>3, <2>4, <2>5 DEF ClientServed, T1OK, Expired
<1> QED BY <1>1, ClientInvariantHolds, PTL
=============================================================================
