--------------------------- MODULE StartupProofs ---------------------------
(***************************************************************************)
(* Proofs about NetSetup, EnvInit and Startup, for names of every length   *)
(* the kernel allows, any indices of the links of others and any number of *)
(* failing requests.                                                       *)
(***************************************************************************)
EXTENDS Startup, FiniteSetTheorems, SequenceTheorems, TLAPS

-----------------------------------------------------------------------------
(***************************************************************************)
(* The inductive invariant: the kernel's links                             *)
(***************************************************************************)
LinkSet == [name : Ends \union {"other"}, up : BOOLEAN, addrs : SUBSET Ends, gone : BOOLEAN]

\* Indices are given out in order, and never 0.
LinksTypeOK == /\ nameLen \in [Ends -> 1 .. 15]
               /\ links \in [DOMAIN links -> LinkSet]
               /\ nextIndex \in Nat \ {0}
               /\ \A i \in DOMAIN links : i \in Nat /\ 0 < i /\ i < nextIndex

ProcsTypeOK == /\ line \in [Procs -> Nat \ {0}]
               /\ index \in [Procs -> Nat \union {NoIndex}]
               /\ noSocket \subseteq Nat

\* There is at most one link for each end, and both or none.
PairOK == /\ \A n \in Ends : \A i, j \in Named(n) : i = j
          /\ Named("client") = {} <=> Named("server") = {}

\* Indices by which an end may be addressed although it does not exist.
WrongIndices == {GetLinkLen(n) : n \in Ends}

\* What get_ifid returns is the index of an end, or the length of a request,
\* or nothing.
IndexOK == \A p \in Procs : index[p] # NoIndex =>
              \/ index[p] \in {0} \union WrongIndices
              \/ index[p] \in DOMAIN links /\ links[index[p]].name \in Ends

\* In main it is never the other end, as nobody else creates links.
MainIndexOK == index[Main] # NoIndex /\ line[Main] <= Len(MainScript) =>
                  /\ Op(Main).op # "create"
                  /\ Present(index[Main])
                     => links[index[Main]].name \in {"other", Op(Main).name}

\* An end has its own address or none.
AddrsOK == \A i \in DOMAIN links : links[i].name \in Ends => links[i].addrs \subseteq {links[i].name}

\* No request of the second pass failed and nobody cleaned up.
Undisturbed == /\ \A k \in noSocket : k <= Len(Pass)
               /\ \A i \in DOMAIN links : ~links[i].gone

\* What an operation of main should have brought about.
Done(op) == \A i \in Named(op.name) : /\ op.op = "up" => links[i].up
                                      /\ op.op = "bind" => op.addr \in links[i].addrs

\* The second pass finds both ends, addresses the right ones, and what it has
\* done stays.
SecondPassOK == Undisturbed /\ line[Main] > Len(Pass) + 1 =>
                  /\ \A n \in Ends : Named(n) # {}
                  /\ \A k \in Len(Pass) + 2 .. Len(MainScript) :
                        k < line[Main] => Done(MainScript[k])
                  /\ index[Main] # NoIndex /\ line[Main] <= Len(MainScript)
                     => index[Main] \in Named(Op(Main).name)

NetInvariant == /\ LinksTypeOK /\ ProcsTypeOK /\ PairOK /\ IndexOK /\ MainIndexOK
                /\ AddrsOK /\ SecondPassOK /\ RequestsSound

-----------------------------------------------------------------------------
(***************************************************************************)
(* The inductive invariant: the threads                                    *)
(***************************************************************************)
\* What the first k steps of kpnet_env_init acquire.
Got(k) == {Steps[j].gets : j \in 1 .. k} \ {NULL}
Environment == Got(Len(Steps))

AfterEnv == {"ready", "gateway", "dev", "mac", "loop", "cleanup", "ended", "undefined"}

ThreadTypeOK == /\ thread \in Callers \union {NULL, "refused"}
                /\ ifindex \in [Callers -> Nat \union {NULL}]
                /\ assocPtr \in [Callers -> BOOLEAN]
                /\ pc \in [Callers -> AfterEnv \union {"acquire", "undo", "failed"}]
                /\ at \in [Callers -> 1 .. Len(Steps)]
                /\ todo \in [Callers -> Seq(Resources)]
                /\ held = [c \in Callers |-> held[c]]

\* A thread is started when main is through; until then nothing happens.
ThreadOK == /\ thread # NULL => line[Main] > Len(MainScript)
            /\ \A c \in Callers : ifindex[c] # NULL => thread = c

\* The caller has run the first k operations of its error path.
Undone(c, k) ==
  LET u == Steps[at[c]].undo
  IN  /\ Len(todo[c]) = Len(u) - k
      /\ \A j \in 1 .. Len(todo[c]) : todo[c][j] = u[k + j]
      /\ held[c] = Got(at[c] - 1) \ {u[j] : j \in 1 .. k}

\* What a caller holds on the way up and on the error path.
HeldOK(c) == /\ pc[c] = "acquire" => held[c] = Got(at[c] - 1)
             /\ pc[c] = "undo" => \E k \in 0 .. Len(Steps[at[c]].undo) : Undone(c, k)
             /\ pc[c] = "failed" => Undone(c, Len(Steps[at[c]].undo))

\* What it holds once the environment is set up, and whether sctp_assoc_create
\* has returned.
AssocOK(c) ==
  LET more == held[c] \ Environment
  IN  /\ pc[c] \notin {"loop", "cleanup", "ended", "undefined"} => ~assocPtr[c]
      /\ pc[c] \in AfterEnv => Environment \subseteq held[c]
      /\ pc[c] = "ready" => more = {}
      /\ pc[c] \in AfterEnv /\ ~assocPtr[c] => more \subseteq {"assoc"}
      /\ pc[c] = "loop" => c = "client"
      /\ pc[c] \in AfterEnv /\ assocPtr[c] => {"allocator_64", "bundling"} \subseteq more
      /\ pc[c] = "ended" /\ assocPtr[c] /\ "assoc" \in more => c = "server"

OwnLink(c) == ifindex[c] \in DOMAIN links /\ links[ifindex[c]].name = Iname(c)

\* The socket is on the right link, or on one that only the absence of the
\* right one could make it take; from eth_open on it is on the right one.
LinkOK(c) ==
  /\ ifindex[c] # NULL => ifindex[c] = 0 \/ OwnLink(c) \/ Named(Iname(c)) = {}
  /\ pc[c] = "acquire" /\ at[c] > XdpBind => ifindex[c] \in DOMAIN links
  /\ pc[c] = "acquire" /\ at[c] > EthIndex => OwnLink(c)
  /\ pc[c] \in {"ready", "gateway", "dev", "mac", "loop"} => OwnLink(c)

CallerOK(c) == HeldOK(c) /\ AssocOK(c) /\ LinkOK(c)

StartInvariant ==
  NetInvariant /\ ThreadTypeOK /\ ThreadOK /\ \A c \in Callers : CallerOK(c)

-----------------------------------------------------------------------------
(***************************************************************************)
(* The scripts of the two processes                                        *)
(***************************************************************************)
\* Where the elements of two sequences are in the two together.
LEMMA Together ==
  ASSUME NEW S, NEW q \in Seq(S), NEW r \in Seq(S)
  PROVE  /\ q \o r \in Seq(S) /\ Len(q \o r) = Len(q) + Len(r)
         /\ \A i \in 1 .. Len(q) : (q \o r)[i] = q[i]
         /\ \A i \in 1 .. Len(r) : (q \o r)[Len(q) + i] = r[i]
<1> DEFINE t == q \o r
           m == Len(q)
           n == Len(r)
<1>1. t \in Seq(S) /\ Len(t) = m + n /\ m \in Nat /\ n \in Nat
  BY ConcatProperties, LenProperties
<1>2. \A i \in 1 .. m + n : t[i] = IF i <= m THEN q[i] ELSE r[i - m]
  BY ConcatProperties
<1> HIDE DEF t, m, n
<1>3. \A i \in 1 .. m : i \in 1 .. m + n /\ i <= m
  BY <1>1
<1>4. \A i \in 1 .. n : m + i \in 1 .. m + n /\ ~(m + i <= m) /\ (m + i) - m = i
  BY <1>1
<1>5. \A i \in 1 .. m : t[i] = q[i]
  BY <1>2, <1>3
<1>6. \A i \in 1 .. n : t[m + i] = r[i]
  BY <1>2, <1>4
<1> QED BY <1>1, <1>5, <1>6 DEF t, m, n

\* The operations of main, line by line.
LEMMA MainOps ==
  /\ Len(Pass) = 5 /\ Len(MainScript) = 10
  /\ MainScript[1] = Create /\ MainScript[2] = Up("client") /\ MainScript[3] = Up("server")
  /\ MainScript[4] = Bind("client") /\ MainScript[5] = Bind("server")
  /\ MainScript[6] = Create /\ MainScript[7] = Up("client") /\ MainScript[8] = Up("server")
  /\ MainScript[9] = Bind("client") /\ MainScript[10] = Bind("server")
<1>1. /\ Pass \in Seq({Create, Up("client"), Up("server"), Bind("client"), Bind("server")})
      /\ Len(Pass) = 5
      /\ Pass[1] = Create /\ Pass[2] = Up("client") /\ Pass[3] = Up("server")
      /\ Pass[4] = Bind("client") /\ Pass[5] = Bind("server")
  BY DEF Pass
<1>2. /\ Len(Pass \o Pass) = 5 + 5
      /\ \A i \in 1 .. 5 : (Pass \o Pass)[i] = Pass[i] /\ (Pass \o Pass)[5 + i] = Pass[i]
  <2> DEFINE S == {Create, Up("client"), Up("server"), Bind("client"), Bind("server")}
  <2>1. Pass \in Seq(S) /\ Len(Pass) = 5
    BY <1>1
  <2> HIDE DEF S
  <2>2. ASSUME NEW q \in Seq(S), Len(q) = 5
        PROVE  /\ Len(q \o q) = 5 + 5
               /\ \A i \in 1 .. 5 : (q \o q)[i] = q[i] /\ (q \o q)[5 + i] = q[i]
    <3> DEFINE u == q \o q
    <3>1. /\ Len(u) = Len(q) + Len(q)
          /\ \A i \in 1 .. Len(q) : u[i] = q[i]
          /\ \A i \in 1 .. Len(q) : u[Len(q) + i] = q[i]
      BY Together
    <3> HIDE DEF u
    <3>2. /\ Len(u) = 5 + 5
          /\ \A i \in 1 .. 5 : u[i] = q[i] /\ u[5 + i] = q[i]
      BY <2>2, <3>1
    <3> QED BY <3>2 DEF u
  <2> QED BY <2>1, <2>2
<1>3. (Pass \o Pass)[1] = Pass[1] /\ (Pass \o Pass)[2] = Pass[2] /\ (Pass \o Pass)[3] = Pass[3]
      /\ (Pass \o Pass)[4] = Pass[4] /\ (Pass \o Pass)[5] = Pass[5]
      /\ (Pass \o Pass)[6] = Pass[1] /\ (Pass \o Pass)[7] = Pass[2]
      /\ (Pass \o Pass)[8] = Pass[3] /\ (Pass \o Pass)[9] = Pass[4]
      /\ (Pass \o Pass)[10] = Pass[5]
  BY <1>2
<1> QED BY <1>1, <1>2, <1>3 DEF MainScript

\* Which operations a process may be at.
LEMMA OpFacts ==
  ASSUME ProcsTypeOK, NEW p \in Procs, line[p] <= Len(Script(p))
  PROVE  /\ Op(p).op = "create" => p = Main /\ line[p] \in {1, 6}
         /\ Op(p).op # "create" => Op(p).name \in Ends
         /\ Op(p).op \in {"up", "bind"} => p = Main
         /\ Op(p).op = "bind" => Op(p).addr = Op(p).name
         /\ Op(p).op = "delete" => p # Main
         /\ p = Main => line[p] \in 1 .. 10 /\ Op(p) = MainScript[line[p]]
         /\ p = Main /\ line[p] = 6 => Op(p).op = "create"
<1>1. line[p] \in Nat \ {0}
  BY DEF ProcsTypeOK
<1>2. CASE p = Main
  <2>1. line[p] \in 1 .. 10 /\ Op(p) = MainScript[line[p]]
    <3>1. Script(p) = MainScript
      BY <1>2 DEF Script
    <3> QED BY <1>1, <3>1, MainOps DEF Op
  <2>2. \/ line[p] \in {1, 6} /\ Op(p) = Create
        \/ line[p] \in {2, 7} /\ Op(p) = Up("client")
        \/ line[p] \in {3, 8} /\ Op(p) = Up("server")
        \/ line[p] \in {4, 9} /\ Op(p) = Bind("client")
        \/ line[p] \in {5, 10} /\ Op(p) = Bind("server")
    <3>1. line[p] \in {1, 2, 3, 4, 5, 6, 7, 8, 9, 10}
      BY <2>1
    <3> QED BY <2>1, <3>1, MainOps
  <2> QED BY <1>2, <2>1, <2>2 DEF Create, Up, Bind, Ends
<1>3. CASE p # Main
  <2>1. Op(p) = CleanScript[line[p]] /\ line[p] <= Len(CleanScript)
    BY <1>3 DEF Op, Script
  <2>2. Op(p) = Delete("client") \/ Op(p) = Delete("server")
    <3>1. Len(CleanScript) = 2 /\ CleanScript[1] = Delete("client") /\ CleanScript[2] = Delete("server")
      BY DEF CleanScript
    <3>2. line[p] = 1 \/ line[p] = 2
      BY <1>1, <2>1, <3>1
    <3> QED BY <2>1, <3>1, <3>2
  <2> QED BY <1>3, <2>2 DEF Delete, Ends
<1> QED BY <1>2, <1>3

-----------------------------------------------------------------------------
(***************************************************************************)
(* Requests                                                                *)
(***************************************************************************)
\* AttributesInside, of one request.
AttrEnd(r, i) == r.attrs[i].at + r.attrs[i].len
WellFormed(r) ==
  /\ r.len <= 4096
  /\ \A i \in DOMAIN r.attrs :
        /\ r.attrs[i].at % 4 = 0
        /\ AttrEnd(r, i) <= IF r.attrs[i].inside = 0 THEN r.len
                            ELSE AttrEnd(r, r.attrs[i].inside)
        /\ \A j \in DOMAIN r.attrs :
              r.attrs[j].inside = r.attrs[i].inside /\ r.attrs[i].at < r.attrs[j].at
              => AttrEnd(r, i) <= r.attrs[j].at

\* Padding reaches the next multiple of four.
LEMMA PaddedLength ==
  ASSUME NEW n \in Nat
  PROVE  Align(n) \in Nat /\ n <= Align(n) /\ Align(n) <= n + 3 /\ Align(n) % 4 = 0
BY DEF Align

\* The attribute lists of the smaller requests.
LEMMA SmallRequests ==
  ASSUME nameLen \in [Ends -> 1 .. 15]
  PROVE  /\ WellFormed(Request("NONE", 0, << >>))
         /\ \A type : WellFormed(SetLink(type))
         /\ WellFormed(NewAddr)
         /\ \A n \in Ends : WellFormed(GetLink(n))
<1>1. WellFormed(Request("NONE", 0, << >>))
  BY DEF WellFormed, Request
<1>2. ASSUME NEW type PROVE WellFormed(SetLink(type))
  BY DEF WellFormed, Request, SetLink, Align, NlmsgLength, IfInfo
<1>3. WellFormed(NewAddr)
  <2> DEFINE attrs == <<Attr(24, 8, 0), Attr(32, 8, 0)>>
             r == Request("NEWADDR", 40, attrs)
  <2>1. NewAddr = r
    BY DEF NewAddr, Align, NlmsgLength, IfAddr, RtaLength
  <2>2. DOMAIN attrs = {1, 2} /\ attrs[1] = Attr(24, 8, 0) /\ attrs[2] = Attr(32, 8, 0)
    OBVIOUS
  <2>3. r.len = 40 /\ r.attrs = attrs
    BY DEF Request
  <2> HIDE DEF attrs, r
  <2>4. /\ attrs[1].at = 24 /\ attrs[1].len = 8 /\ attrs[1].inside = 0
        /\ attrs[2].at = 32 /\ attrs[2].len = 8 /\ attrs[2].inside = 0
    BY <2>2 DEF Attr
  <2>5. AttrEnd(r, 1) = 32 /\ AttrEnd(r, 2) = 40
    BY <2>3, <2>4 DEF AttrEnd
  <2>6. \A k \in DOMAIN attrs : k = 1 \/ k = 2
    BY <2>2
  <2>7. 24 % 4 = 0 /\ 32 % 4 = 0
    OBVIOUS
  <2>8. \A k \in DOMAIN attrs : /\ attrs[k].at % 4 = 0 /\ attrs[k].inside = 0
                             /\ AttrEnd(r, k) <= 40 /\ AttrEnd(r, k) = attrs[k].at + 8
    BY <2>4, <2>5, <2>6, <2>7
  <2>9. \A k, l \in DOMAIN attrs : attrs[k].at < attrs[l].at => AttrEnd(r, k) <= attrs[l].at
    BY <2>4, <2>5, <2>6
  <2>10. r.len <= 4096
    BY <2>3
  <2>11. WellFormed(r)
    BY <2>3, <2>8, <2>9, <2>10 DEF WellFormed
  <2> QED BY <2>1, <2>11
<1>4. ASSUME NEW n \in Ends PROVE WellFormed(GetLink(n))
  <2> DEFINE a == Attr(32, 5 + nameLen[n], 0)
             r == Request("GETLINK", 37 + nameLen[n], <<a>>)
  <2>1. nameLen[n] \in 1 .. 15
    OBVIOUS
  <2>2. GetLink(n) = r
    BY <2>1 DEF GetLink, GetLinkLen, NlmsgLength, IfInfo, RtaLength
  <2>3. /\ r.len = 37 + nameLen[n] /\ DOMAIN r.attrs = {1} /\ r.attrs[1].at = 32
        /\ r.attrs[1].len = 5 + nameLen[n] /\ r.attrs[1].inside = 0
    BY DEF Request, Attr
  <2> HIDE DEF r
  <2>4. WellFormed(r)
    BY <2>1, <2>3 DEF WellFormed, AttrEnd
  <2> QED BY <2>2, <2>4
<1> QED BY <1>1, <1>2, <1>3, <1>4

\* The request of create_veth_pair, with its four levels of nesting.
LEMMA NewLinkWellFormed ==
  ASSUME nameLen \in [Ends -> 1 .. 15]
  PROVE  WellFormed(NewLink)
<1> DEFINE x == nameLen["client"]
           y == nameLen["server"]
           i == Align(37 + x)
           p == Align(5 + y)
           v == Align(20 + p)
           d == Align(4 + v)
           f == 16 + d
           attrs == << Attr(32, 5 + x, 0), Attr(i, f, 0), Attr(i + 4, 9, 2),
                    Attr(i + 16, 4 + v, 2), Attr(i + 20, 20 + p, 4),
                    Attr(i + 40, 5 + y, 5) >>
           r == Request("NEWLINK", Align(i + 16) + Align(f) - 4, attrs)
<1>1. x \in 1 .. 15 /\ y \in 1 .. 15
  BY DEF Ends
<1> HIDE DEF x, y
<1>2. i \in Nat /\ 37 + x <= i /\ i <= 40 + x /\ i % 4 = 0
  BY <1>1, PaddedLength
<1>3. p \in Nat /\ 5 + y <= p /\ p <= 8 + y /\ p % 4 = 0
  BY <1>1, PaddedLength
<1> HIDE DEF i, p
<1>4. v \in Nat /\ v = 20 + p
  BY <1>3 DEF Align
<1> HIDE DEF v
<1>5. d \in Nat /\ d = 24 + p
  BY <1>3, <1>4 DEF Align
<1> HIDE DEF d
<1>6. f \in Nat /\ Align(f) = 40 + p /\ Align(i + 16) = i + 16 /\ f = 40 + p
  BY <1>2, <1>3, <1>5 DEF Align
<1> HIDE DEF f
<1>7. NewLink = r
  <2>1. /\ RtaLength(x + 1) = 5 + x /\ NlmsgLength(IfInfo) = 32 /\ 32 + (5 + x) = 37 + x
        /\ RtaLength(0) = 4 /\ RtaLength(5) = 9 /\ Align(9) = 12
        /\ RtaLength(y + 1) = 5 + y /\ RtaLength(IfInfo) = 20 /\ Align(IfInfo) = 16
    BY <1>1 DEF RtaLength, NlmsgLength, IfInfo, Align
  <2>2. /\ (i + 4) + 12 = i + 16 /\ (i + 16) + 4 = i + 20 /\ (i + 20) + 4 + 16 = i + 40
        /\ i + 4 + 12 = i + 16 /\ 4 + 12 + d = 16 + d
    BY <1>2, <1>5
  <2> QED BY <2>1, <2>2 DEF NewLink, x, y, i, p, v, d, f
<1>8. /\ DOMAIN attrs = {1, 2, 3, 4, 5, 6}
      /\ attrs[1] = Attr(32, 5 + x, 0) /\ attrs[2] = Attr(i, f, 0) /\ attrs[3] = Attr(i + 4, 9, 2)
      /\ attrs[4] = Attr(i + 16, 4 + v, 2) /\ attrs[5] = Attr(i + 20, 20 + p, 4)
      /\ attrs[6] = Attr(i + 40, 5 + y, 5)
  OBVIOUS
<1>9. r.len = i + 52 + p /\ r.attrs = attrs
  BY <1>2, <1>3, <1>6 DEF Request
<1> HIDE DEF attrs, r
<1>10. /\ attrs[1].at = 32 /\ attrs[1].len = 5 + x /\ attrs[1].inside = 0
       /\ attrs[2].at = i /\ attrs[2].len = 40 + p /\ attrs[2].inside = 0
       /\ attrs[3].at = i + 4 /\ attrs[3].len = 9 /\ attrs[3].inside = 2
       /\ attrs[4].at = i + 16 /\ attrs[4].len = 24 + p /\ attrs[4].inside = 2
       /\ attrs[5].at = i + 20 /\ attrs[5].len = 20 + p /\ attrs[5].inside = 4
       /\ attrs[6].at = i + 40 /\ attrs[6].len = 5 + y /\ attrs[6].inside = 5
  <2>1. f = 40 + p /\ 4 + v = 24 + p
    BY <1>3, <1>4, <1>6
  <2> QED BY <1>8, <2>1 DEF Attr
<1>11. r.len <= 4096
  BY <1>1, <1>2, <1>3, <1>9
<1>12. \A k \in DOMAIN attrs : k = 1 \/ k = 2 \/ k = 3 \/ k = 4 \/ k = 5 \/ k = 6
  BY <1>8
<1>13. /\ 32 % 4 = 0 /\ (i + 4) % 4 = 0 /\ (i + 16) % 4 = 0 /\ (i + 20) % 4 = 0
       /\ (i + 40) % 4 = 0
  BY <1>2
<1>14. /\ AttrEnd(r, 1) = 37 + x /\ AttrEnd(r, 2) = i + 40 + p /\ AttrEnd(r, 3) = i + 13
       /\ AttrEnd(r, 4) = i + 40 + p /\ AttrEnd(r, 5) = i + 40 + p
       /\ AttrEnd(r, 6) = i + 45 + y
  BY <1>1, <1>2, <1>3, <1>9, <1>10 DEF AttrEnd
<1>15. \A k \in DOMAIN attrs : attrs[k].at % 4 = 0
  BY <1>2, <1>10, <1>12, <1>13
<1>16. \A k \in DOMAIN attrs : AttrEnd(r, k) <= IF attrs[k].inside = 0 THEN r.len
                                             ELSE AttrEnd(r, attrs[k].inside)
  <2>1. /\ AttrEnd(r, 1) <= r.len /\ AttrEnd(r, 2) <= r.len
        /\ AttrEnd(r, 3) <= AttrEnd(r, 2) /\ AttrEnd(r, 4) <= AttrEnd(r, 2)
        /\ AttrEnd(r, 5) <= AttrEnd(r, 4) /\ AttrEnd(r, 6) <= AttrEnd(r, 5)
    BY <1>1, <1>2, <1>3, <1>9, <1>14
  <2>2. 2 # 0 /\ 4 # 0 /\ 5 # 0
    OBVIOUS
  <2> QED BY <1>10, <1>12, <2>1, <2>2, Zenon
<1>17. ASSUME NEW k \in DOMAIN attrs, NEW l \in DOMAIN attrs, attrs[l].inside = attrs[k].inside,
              attrs[k].at < attrs[l].at
       PROVE  AttrEnd(r, k) <= attrs[l].at
  <2>1. attrs[k].at # attrs[l].at /\ ~(attrs[l].at < attrs[k].at)
    <3>1. attrs[k].at \in Int /\ attrs[l].at \in Int
      BY <1>2, <1>10, <1>12
    <3> QED BY <1>17, <3>1
  <2>2. attrs[1].at < attrs[2].at /\ attrs[3].at < attrs[4].at
    BY <1>1, <1>2, <1>10
  <2>3. 2 # 0 /\ 4 # 0 /\ 5 # 0 /\ 2 # 4 /\ 2 # 5 /\ 4 # 5
    OBVIOUS
  <2>4. /\ k \in {1, 2} <=> attrs[k].inside = 0
        /\ l \in {1, 2} <=> attrs[l].inside = 0
        /\ k \in {3, 4} <=> attrs[k].inside = 2
        /\ l \in {3, 4} <=> attrs[l].inside = 2
        /\ k = 5 <=> attrs[k].inside = 4
        /\ l = 5 <=> attrs[l].inside = 4
    BY <1>10, <1>12, <2>3
  <2>5. k # l
    BY <2>1
  <2>6. (k = 1 /\ l = 2) \/ (k = 3 /\ l = 4)
    <3>1. CASE k \in {1, 2}
      BY <1>17, <2>1, <2>2, <2>4, <2>5, <3>1
    <3>2. CASE k \in {3, 4}
      BY <1>17, <2>1, <2>2, <2>4, <2>5, <3>2
    <3>3. CASE k \in {5, 6}
      BY <1>12, <1>17, <2>3, <2>4, <2>5, <3>3
    <3> QED BY <1>12, <3>1, <3>2, <3>3
  <2>7. AttrEnd(r, 1) <= attrs[2].at /\ AttrEnd(r, 3) <= attrs[4].at
    BY <1>1, <1>2, <1>10, <1>14
  <2> QED BY <2>6, <2>7
<1>18. WellFormed(r)
  <2>1. r.attrs = attrs
    BY <1>9
  <2> QED BY <1>11, <1>15, <1>16, <1>17, <2>1 DEF WellFormed
<1> QED BY <1>7, <1>18

\* The property speaks of the request composed last.
LEMMA AttributesOfRequest == WellFormed(request) => AttributesInside
BY DEF WellFormed, AttrEnd, AttributesInside

-----------------------------------------------------------------------------
(***************************************************************************)
(* What the kernel does with the links                                     *)
(***************************************************************************)
\* Nothing but state and addresses of link i has changed, and they grew.
Touched(i) ==
  /\ DOMAIN links' = DOMAIN links /\ links' \in [DOMAIN links -> LinkSet]
  /\ \A j \in DOMAIN links :
        /\ links'[j].name = links[j].name /\ links'[j].gone = links[j].gone
        /\ links[j].up => links'[j].up
        /\ links[j].addrs \subseteq links'[j].addrs
        /\ j # i \/ ~Present(i) => links'[j] = links[j]

\* The answer of the kernel to up_if.
LEMMA SetUpTouches ==
  ASSUME LinksTypeOK, NEW i, SetUp(i)
  PROVE  /\ Touched(i)
         /\ Present(i) => links'[i].up /\ links'[i].addrs = links[i].addrs
<1>1. CASE ~Present(i)
  <2>1. links' = links
    BY <1>1 DEF SetUp
  <2> QED BY <1>1, <2>1 DEF Touched, LinksTypeOK
<1>2. CASE Present(i)
  <2>1. i \in DOMAIN links /\ links' = [links EXCEPT ![i].up = TRUE]
    BY <1>2 DEF SetUp, Present
  <2>2. \A j \in DOMAIN links : links[j] \in LinkSet
    BY DEF LinksTypeOK
  <2>3. /\ DOMAIN links' = DOMAIN links
        /\ \A j \in DOMAIN links : j # i => links'[j] = links[j]
        /\ links'[i] = [links[i] EXCEPT !.up = TRUE]
    BY <2>1
  <2>4. /\ links'[i] \in LinkSet /\ links'[i].name = links[i].name
        /\ links'[i].gone = links[i].gone /\ links'[i].addrs = links[i].addrs /\ links'[i].up
    BY <2>1, <2>2, <2>3 DEF LinkSet
  <2>5. links' \in [DOMAIN links -> LinkSet]
    BY <2>1, <2>2, <2>3, <2>4
  <2> QED BY <1>2, <2>3, <2>4, <2>5 DEF Touched
<1> QED BY <1>1, <1>2

\* The answer of the kernel to bind_if.
LEMMA AddAddrTouches ==
  ASSUME LinksTypeOK, NEW i, NEW a \in Ends, AddAddr(i, a)
  PROVE  /\ Touched(i)
         /\ Present(i) => links'[i].addrs = links[i].addrs \union {a}
<1>1. CASE ~Present(i)
  <2>1. links' = links
    BY <1>1 DEF AddAddr
  <2> QED BY <1>1, <2>1 DEF Touched, LinksTypeOK
<1>2. CASE Present(i)
  <2>1. i \in DOMAIN links /\ links' = [links EXCEPT ![i].addrs = @ \union {a}]
    BY <1>2 DEF AddAddr, Present
  <2>2. \A j \in DOMAIN links : links[j] \in LinkSet
    BY DEF LinksTypeOK
  <2>3. /\ DOMAIN links' = DOMAIN links
        /\ \A j \in DOMAIN links : j # i => links'[j] = links[j]
        /\ links'[i] = [links[i] EXCEPT !.addrs = @ \union {a}]
    BY <2>1
  <2>4. /\ links'[i] \in LinkSet /\ links'[i].name = links[i].name
        /\ links'[i].gone = links[i].gone /\ links'[i].addrs = links[i].addrs \union {a}
        /\ links'[i].up = links[i].up
    BY <2>1, <2>2, <2>3 DEF LinkSet
  <2>5. links' \in [DOMAIN links -> LinkSet]
    BY <2>1, <2>2, <2>3, <2>4
  <2> QED BY <1>2, <2>3, <2>4, <2>5 DEF Touched
<1> QED BY <1>1, <1>2

\* Such a step leaves the ends as they are.
LEMMA TouchedNames ==
  ASSUME NEW i, Touched(i)
  PROVE  /\ \A j : Present(j)' <=> Present(j)
         /\ \A n : Named(n)' = Named(n)
<1>1. \A j : Present(j)' <=> Present(j)
  BY DEF Touched, Present
<1>2. ASSUME NEW n, NEW j PROVE j \in Named(n)' <=> j \in Named(n)
  BY <1>1 DEF Touched, Named
<1> QED BY <1>1, <1>2

\* The answer of the kernel to delete_if.
LEMMA RemoveEffect ==
  ASSUME LinksTypeOK, PairOK, NEW i, Remove(i)
  PROVE  /\ DOMAIN links' = DOMAIN links /\ links' \in [DOMAIN links -> LinkSet]
         /\ \A j \in DOMAIN links :
               /\ links'[j].name = links[j].name /\ links'[j].addrs = links[j].addrs
               /\ links[j].gone => links'[j].gone
               /\ j # i /\ links[j].name \notin Ends => links'[j] = links[j]
         /\ Present(i) => links'[i].gone
         /\ ~Present(i) => links' = links
         /\ \A j : Present(j)' => Present(j)
         /\ \A n : Named(n)' \subseteq Named(n)
         /\ PairOK'
<1>1. CASE ~Present(i)
  <2>1. links' = links
    BY <1>1 DEF Remove
  <2>2. \A n : Named(n)' = Named(n)
    BY <2>1 DEF Named, Present
  <2> QED BY <1>1, <2>1, <2>2 DEF LinksTypeOK, PairOK, Present
<1>2. CASE Present(i)
  <2>1. i \in DOMAIN links
    BY <1>2 DEF Present
  <2>2. /\ DOMAIN links' = DOMAIN links
        /\ \A j \in DOMAIN links :
             links'[j] = [links[j] EXCEPT !.gone = @ \/ j = i \/ {links[i].name, links[j].name} = Ends]
    BY <1>2 DEF Remove
  <2>3. \A j \in DOMAIN links : links[j] \in LinkSet
    BY DEF LinksTypeOK
  <2>4. ASSUME NEW j \in DOMAIN links
        PROVE  /\ links'[j] \in LinkSet
               /\ links'[j].name = links[j].name /\ links'[j].addrs = links[j].addrs
               /\ links'[j].gone <=> links[j].gone \/ j = i \/ {links[i].name, links[j].name} = Ends
    <3> DEFINE b == links[j].gone \/ j = i \/ {links[i].name, links[j].name} = Ends
    <3>1. b \in BOOLEAN
      OBVIOUS
    <3>2. links'[j] = [links[j] EXCEPT !.gone = b]
      BY <2>2, <2>4
    <3> HIDE DEF b
    <3>3. /\ [links[j] EXCEPT !.gone = b] \in LinkSet
          /\ [links[j] EXCEPT !.gone = b].name = links[j].name
          /\ [links[j] EXCEPT !.gone = b].addrs = links[j].addrs
          /\ [links[j] EXCEPT !.gone = b].gone = b
      BY <2>3, <2>4, <3>1 DEF LinkSet
    <3>4. /\ links'[j] \in LinkSet
          /\ links'[j].name = links[j].name /\ links'[j].addrs = links[j].addrs
          /\ links'[j].gone = b
      BY <3>2, <3>3
    <3> QED BY <3>4 DEF b
  <2>5. ASSUME NEW j \in DOMAIN links, j # i, links[j].name \notin Ends
        PROVE  links'[j] = links[j]
    <3>1. {links[i].name, links[j].name} # Ends
      BY <2>5
    <3>2. links'[j] = [links[j] EXCEPT !.gone = @ \/ FALSE]
      BY <2>2, <2>5, <3>1
    <3> QED BY <2>3, <3>2 DEF LinkSet
  <2>6. links' \in [DOMAIN links -> LinkSet]
    <3>1. links' = [j \in DOMAIN links |-> links'[j]]
      BY <1>2, <2>2 DEF Remove
    <3> QED BY <2>4, <3>1
  <2>7. \A j : Present(j)' => Present(j)
    BY <2>2, <2>4 DEF Present
  <2>8. \A n : Named(n)' \subseteq Named(n)
    BY <2>2, <2>4, <2>7 DEF Named
  <2>9. Named("client")' = {} <=> Named("server")' = {}
    <3>1. CASE links[i].name \in Ends
      <4>1. ASSUME NEW n \in Ends, NEW j \in Named(n)' PROVE FALSE
        <5>1. j \in DOMAIN links /\ links[j].name = n /\ j \in Named(n) /\ ~links'[j].gone
          BY <2>2, <2>4, <2>8, <4>1 DEF Named, Present
        <5>2. CASE n = links[i].name
          <6>1. i \in Named(n)
            BY <1>2, <2>1, <5>2 DEF Named
          <6>2. i = j
            BY <4>1, <5>1, <6>1 DEF PairOK
          <6> QED BY <2>4, <5>1, <6>2
        <5>3. CASE n # links[i].name
          <6>1. {links[i].name, links[j].name} = Ends
            BY <3>1, <4>1, <5>1, <5>3 DEF Ends
          <6> QED BY <2>4, <5>1, <6>1
        <5> QED BY <5>2, <5>3
      <4> QED BY <4>1 DEF Ends
    <3>2. CASE links[i].name \notin Ends
      <4>1. ASSUME NEW n \in Ends, NEW j \in Named(n) PROVE j \in Named(n)'
        <5>1. j \in DOMAIN links /\ links[j].name = n /\ ~links[j].gone
          BY <4>1 DEF Named, Present
        <5>2. j # i /\ {links[i].name, links[j].name} # Ends
          BY <3>2, <4>1, <5>1
        <5> QED BY <2>2, <2>4, <5>1, <5>2 DEF Named, Present
      <4>2. \A n \in Ends : Named(n)' = Named(n)
        BY <2>8, <4>1
      <4>3. Named("client")' = Named("client") /\ Named("server")' = Named("server")
        BY <4>2 DEF Ends
      <4> QED BY <4>3 DEF PairOK
    <3> QED BY <3>1, <3>2
  <2>10. PairOK'
    BY <2>8, <2>9 DEF PairOK
  <2> QED BY <1>2, <2>1, <2>2, <2>4, <2>5, <2>6, <2>7, <2>8, <2>10
<1> QED BY <1>1, <1>2

\* The answer of the kernel to create_veth_pair: afterwards there is a pair.
LEMMA AddPairEffect ==
  ASSUME LinksTypeOK, PairOK, AddPair
  PROVE  /\ links' \in [DOMAIN links' -> LinkSet] /\ nextIndex' \in Nat \ {0}
         /\ DOMAIN links \subseteq DOMAIN links'
         /\ \A j \in DOMAIN links' : j \in Nat /\ 0 < j /\ j < nextIndex'
         /\ \A j \in DOMAIN links : links'[j] = links[j]
         /\ \A j \in DOMAIN links' \ DOMAIN links :
               links'[j] = Link("client") \/ links'[j] = Link("server")
         /\ PairOK' /\ \A n \in Ends : Named(n)' # {}
<1>1. CASE Named("client") \union Named("server") # {}
  <2>1. links' = links /\ nextIndex' = nextIndex
    BY <1>1 DEF AddPair
  <2>2. \A n : Named(n)' = Named(n)
    BY <2>1 DEF Named, Present
  <2>3. \A n \in Ends : Named(n) # {}
    BY <1>1 DEF PairOK, Ends
  <2>4. PairOK'
    BY <2>2 DEF PairOK
  <2> QED BY <2>1, <2>2, <2>3, <2>4 DEF LinksTypeOK
<1>2. CASE Named("client") \union Named("server") = {}
  <2> DEFINE s == nextIndex
             c == nextIndex + 1
  <2>1. s \in Nat \ {0} /\ c = s + 1 /\ s \notin DOMAIN links /\ c \notin DOMAIN links /\ s # c
    BY DEF LinksTypeOK
  <2>2. /\ DOMAIN links' = DOMAIN links \union {s, c} /\ nextIndex' = s + 2
        /\ \A j \in DOMAIN links \union {s, c} :
              links'[j] = IF j = s THEN Link("server") ELSE IF j = c THEN Link("client") ELSE links[j]
        /\ links' = [j \in DOMAIN links \union {s, c} |-> links'[j]]
    BY <1>2 DEF AddPair
  <2> HIDE DEF s, c
  <2>3. /\ links'[s] = Link("server") /\ links'[c] = Link("client")
        /\ \A j \in DOMAIN links : links'[j] = links[j]
    BY <2>1, <2>2
  <2>4. /\ Link("server") \in LinkSet /\ Link("client") \in LinkSet
        /\ Link("server").name = "server" /\ Link("client").name = "client"
        /\ ~Link("server").gone /\ ~Link("client").gone
    BY DEF Link, LinkSet, Ends
  <2>5. \A j \in DOMAIN links : links[j] \in LinkSet
    BY DEF LinksTypeOK
  <2>6. \A j \in DOMAIN links \union {s, c} : links'[j] \in LinkSet
    BY <2>3, <2>4, <2>5
  <2>7. links' \in [DOMAIN links' -> LinkSet]
    BY <2>2, <2>6
  <2>8. \A j \in DOMAIN links' : j \in Nat /\ 0 < j /\ j < nextIndex'
    <3>1. \A j \in DOMAIN links : j \in Nat /\ 0 < j /\ j < s
      BY DEF LinksTypeOK, s
    <3>2. s > 0
      BY DEF s, LinksTypeOK
    <3> QED BY <2>1, <2>2, <3>1, <3>2
  <2>9. \A j \in DOMAIN links : links[j].name \in Ends => ~Present(j)
    BY <1>2 DEF Named, Ends
  <2>10. ASSUME NEW j PROVE /\ j \in Named("server")' <=> j = s
                            /\ j \in Named("client")' <=> j = c
    <3>1. CASE j \in DOMAIN links
      <4>1. links'[j].name \in Ends => ~Present(j)'
        BY <2>2, <2>3, <2>9, <3>1 DEF Present
      <4> QED BY <2>1, <3>1, <4>1 DEF Named, Ends
    <3>2. CASE j \notin DOMAIN links
      BY <2>1, <2>2, <2>3, <2>4, <3>2 DEF Named, Present
    <3> QED BY <3>1, <3>2
  <2>11. Named("server")' = {s} /\ Named("client")' = {c}
    BY <2>10
  <2>12. PairOK' /\ \A n \in Ends : Named(n)' # {}
    BY <2>11 DEF PairOK, Ends
  <2>13. nextIndex' \in Nat \ {0} /\ DOMAIN links \subseteq DOMAIN links'
    BY <2>1, <2>2
  <2>14. \A j \in DOMAIN links' \ DOMAIN links :
               links'[j] = Link("client") \/ links'[j] = Link("server")
    BY <2>2, <2>3
  <2> QED BY <2>3, <2>7, <2>8, <2>12, <2>13, <2>14
<1> QED BY <1>1, <1>2

\* What get_ifid finds in the reply of the kernel.
LEMMA ReplyIndex ==
  ASSUME LinksTypeOK, NEW n \in Ends
  PROVE  /\ IndexInReply(n) \in Nat
         /\ Named(n) # {} => IndexInReply(n) \in Named(n)
         /\ Named(n) = {} => IndexInReply(n) = GetLinkLen(n) /\ GetLinkLen(n) \in WrongIndices
<1>1. CASE Named(n) # {}
  <2>1. IndexInReply(n) \in Named(n)
    BY <1>1 DEF IndexInReply
  <2> QED BY <1>1, <2>1 DEF Named, LinksTypeOK
<1>2. CASE Named(n) = {}
  <2>1. GetLinkLen(n) \in Nat
    BY DEF GetLinkLen, LinksTypeOK, NlmsgLength, RtaLength, IfInfo
  <2> QED BY <1>2, <2>1 DEF IndexInReply, WrongIndices
<1> QED BY <1>1, <1>2

-----------------------------------------------------------------------------
(***************************************************************************)
(* The steps of the two processes preserve the invariant of the links      *)
(***************************************************************************)
\* A process that is at one of its lines, and what that line is.
LEMMA RunningOp ==
  ASSUME ProcsTypeOK, NEW p \in Procs, Running(p)
  PROVE  /\ line[p] \in Nat \ {0} /\ line[p] <= Len(Script(p))
         /\ Op(p).op = "create" => p = Main /\ line[p] \in {1, 6}
         /\ Op(p).op # "create" => Op(p).name \in Ends
         /\ Op(p).op \in {"up", "bind"} => p = Main
         /\ Op(p).op = "bind" => Op(p).addr = Op(p).name
         /\ Op(p).op = "delete" => p # Main
         /\ p = Main => line[p] \in 1 .. 10 /\ Op(p) = MainScript[line[p]]
         /\ p = Main /\ line[p] = 6 => Op(p).op = "create"
<1>1. line[p] <= Len(Script(p))
  BY DEF Running
<1>2. line[p] \in Nat \ {0}
  BY DEF ProcsTypeOK
<1> QED BY <1>1, <1>2, OpFacts

\* Going on to the next line.
LEMMA AdvanceTypes ==
  ASSUME ProcsTypeOK, NEW p \in Procs, Advance(p), noSocket' \subseteq Nat
  PROVE  /\ ProcsTypeOK'
         /\ line'[p] = line[p] + 1 /\ index'[p] = NoIndex
         /\ \A q \in Procs : q # p => line'[q] = line[q] /\ index'[q] = index[q]
<1>1. line \in [Procs -> Nat \ {0}] /\ index \in [Procs -> Nat \union {NoIndex}]
  BY DEF ProcsTypeOK
<1>2. line' = [line EXCEPT ![p] = @ + 1] /\ index' = [index EXCEPT ![p] = NoIndex]
  BY DEF Advance
<1>3. /\ line'[p] = line[p] + 1 /\ index'[p] = NoIndex
      /\ \A q \in Procs : q # p => line'[q] = line[q] /\ index'[q] = index[q]
  BY <1>1, <1>2
<1>4. line[p] + 1 \in Nat \ {0}
  BY <1>1
<1>5. line' \in [Procs -> Nat \ {0}]
  BY <1>1, <1>2, <1>4
<1>6. index' \in [Procs -> Nat \union {NoIndex}]
  BY <1>1, <1>2
<1> QED BY <1>3, <1>5, <1>6 DEF ProcsTypeOK

\* The indices that address a missing end depend on the names only.
LEMMA SameWrongIndices == UNCHANGED nameLen => WrongIndices' = WrongIndices
BY DEF WrongIndices, GetLinkLen

\* Indices of other processes stay what they were when links keep their names.
LEMMA IndexStays ==
  ASSUME LinksTypeOK, IndexOK, UNCHANGED nameLen,
         DOMAIN links \subseteq DOMAIN links',
         \A j \in DOMAIN links : links'[j].name = links[j].name,
         NEW p \in Procs, index'[p] # NoIndex, index'[p] = index[p]
  PROVE  \/ index'[p] \in {0} \union WrongIndices'
         \/ index'[p] \in DOMAIN links' /\ links'[index'[p]].name \in Ends
BY SameWrongIndices DEF IndexOK

\* create_veth_pair preserves the invariant of the links.
LEMMA CreateStep ==
  ASSUME NetInvariant, NEW p \in Procs, CreateVethPair(p)
  PROVE  /\ NetInvariant'
         /\ p = Main /\ line[Main] <= Len(MainScript)
         /\ DOMAIN links \subseteq DOMAIN links'
         /\ \A j \in DOMAIN links : links'[j].name = links[j].name
<1> USE DEF NetInvariant
<1>1. /\ Running(p) /\ Op(p).op = "create" /\ request' = NewLink
      /\ (Received /\ AddPair) \/ NotReceived(p)
      /\ Advance(p) /\ nameLen' = nameLen
  BY DEF CreateVethPair
<1>2. p = Main /\ line[p] \in {1, 6}
  BY <1>1, RunningOp
<1>3. /\ links' \in [DOMAIN links' -> LinkSet] /\ nextIndex' \in Nat \ {0}
      /\ DOMAIN links \subseteq DOMAIN links'
      /\ \A j \in DOMAIN links' : j \in Nat /\ 0 < j /\ j < nextIndex'
      /\ \A j \in DOMAIN links : links'[j] = links[j]
      /\ \A j \in DOMAIN links' \ DOMAIN links :
            links'[j] = Link("client") \/ links'[j] = Link("server")
      /\ PairOK'
      /\ noSocket \subseteq noSocket' /\ noSocket' \subseteq Nat
      /\ line[p] \in noSocket' \/ \A n \in Ends : Named(n)' # {}
  <2>1. CASE Received /\ AddPair
    <3>1. noSocket' = noSocket
      BY <2>1 DEF Received
    <3> QED BY <2>1, <3>1, AddPairEffect DEF ProcsTypeOK
  <2>2. CASE NotReceived(p)
    <3>1. links' = links /\ nextIndex' = nextIndex /\ noSocket' = noSocket \union {line[p]}
      BY <2>2 DEF NotReceived
    <3>2. PairOK'
      BY <3>1 DEF PairOK, Named, Present
    <3> QED BY <3>1, <3>2 DEF LinksTypeOK, ProcsTypeOK
  <2> QED BY <1>1, <2>1, <2>2
<1>4. /\ ProcsTypeOK' /\ line'[Main] = line[Main] + 1 /\ index'[Main] = NoIndex
      /\ \A q \in Procs : q # Main => index'[q] = index[q]
  BY <1>1, <1>2, <1>3, AdvanceTypes
<1>5. LinksTypeOK'
  BY <1>1, <1>3 DEF LinksTypeOK
<1>6. IndexOK'
  <2>1. \A j \in DOMAIN links : links'[j].name = links[j].name
    BY <1>3
  <2>2. ASSUME NEW q \in Procs, index'[q] # NoIndex
        PROVE  \/ index'[q] \in {0} \union WrongIndices'
               \/ index'[q] \in DOMAIN links' /\ links'[index'[q]].name \in Ends
    <3>1. index'[q] = index[q]
      BY <1>4, <2>2
    <3> QED BY <1>1, <1>3, <2>1, <2>2, <3>1, IndexStays
  <2> QED BY <2>2 DEF IndexOK
<1>7. MainIndexOK'
  BY <1>4 DEF MainIndexOK
<1>8. /\ Link("client").name = "client" /\ Link("client").addrs = {}
      /\ Link("server").name = "server" /\ Link("server").addrs = {}
  BY DEF Link
<1>9. AddrsOK'
  BY <1>3, <1>8 DEF AddrsOK
<1>10. SecondPassOK'
  <2>1. SUFFICES ASSUME Undisturbed', line'[Main] > 6
                 PROVE  /\ \A n \in Ends : Named(n)' # {}
                        /\ \A k \in 7 .. 10 : ~(k < line'[Main])
    BY <1>4, MainOps DEF SecondPassOK
  <2>2. line[Main] = 6 /\ line'[Main] = 7
    BY <1>2, <1>4, <2>1
  <2>3. line[p] \notin noSocket'
    BY <1>2, <2>1, <2>2, MainOps DEF Undisturbed
  <2> QED BY <1>3, <2>2, <2>3
<1>11. RequestsSound'
  <2>1. WellFormed(NewLink)
    BY NewLinkWellFormed DEF LinksTypeOK
  <2>2. AttributesInside'
    BY <1>1, <2>1, AttributesOfRequest DEF WellFormed, AttrEnd, AttributesInside
  <2>3. ForeignLinksIntact'
    <3>1. \A n : GetLinkLen(n)' = GetLinkLen(n)
      BY <1>1 DEF GetLinkLen
    <3>2. ForeignLinksIntact
      BY DEF RequestsSound
    <3> QED BY <1>3, <1>8, <3>1, <3>2 DEF ForeignLinksIntact
  <2> QED BY <2>2, <2>3 DEF RequestsSound
<1>12. line[Main] <= Len(MainScript)
  BY <1>2, MainOps
<1> QED BY <1>2, <1>3, <1>4, <1>5, <1>6, <1>7, <1>9, <1>10, <1>11, <1>12

\* The index a process acts on is not that of a link of others, but for the
\* exceptions of the property.
LEMMA OthersNotAddressed ==
  ASSUME LinksTypeOK, IndexOK, NEW p \in Procs, index[p] # NoIndex,
         NEW j \in DOMAIN links, links[j].name = "other", j \notin WrongIndices
  PROVE  j # index[p]
<1>1. j # 0
  BY DEF LinksTypeOK
<1>2. "other" \notin Ends
  BY DEF Ends
<1> QED BY <1>1, <1>2 DEF IndexOK

\* up_if and bind_if, when main has an index and the kernel has done something
\* or nothing to the link with that index.
LEMMA TouchStep ==
  ASSUME NetInvariant, Running(Main), index[Main] # NoIndex, Op(Main).op \in {"up", "bind"},
         Touched(index[Main]), UNCHANGED <<nameLen, nextIndex>>, Advance(Main),
         noSocket \subseteq noSocket', noSocket' \subseteq Nat,
         \/ line[Main] \in noSocket' /\ links' = links
         \/ Present(index[Main]) =>
              LET i == index[Main]
              IN  /\ Op(Main).op = "up" => links'[i].up /\ links'[i].addrs = links[i].addrs
                  /\ Op(Main).op = "bind" => links'[i].addrs = links[i].addrs \union {Op(Main).addr},
         WellFormed(request')
  PROVE  NetInvariant'
<1> USE DEF NetInvariant
<1> DEFINE i == index[Main]
           op == Op(Main)
<1>1. Main \in Procs
  BY DEF Procs
<1>2. /\ line[Main] \in 1 .. 10 /\ op = MainScript[line[Main]] /\ op.name \in Ends
      /\ op.op = "bind" => op.addr = op.name
      /\ line[Main] # 6
  <2>1. op.op # "create"
    OBVIOUS
  <2> QED BY <1>1, <2>1, RunningOp
<1>3. /\ ProcsTypeOK' /\ line'[Main] = line[Main] + 1 /\ index'[Main] = NoIndex
      /\ \A q \in Procs : q # Main => index'[q] = index[q]
  BY <1>1, AdvanceTypes
<1>4. /\ \A j : Present(j)' <=> Present(j)
      /\ \A n : Named(n)' = Named(n)
  BY TouchedNames
<1>5. /\ DOMAIN links' = DOMAIN links /\ links' \in [DOMAIN links -> LinkSet]
      /\ \A j \in DOMAIN links :
            /\ links'[j].name = links[j].name /\ links'[j].gone = links[j].gone
            /\ links[j].up => links'[j].up
            /\ links[j].addrs \subseteq links'[j].addrs
            /\ j # i \/ ~Present(i) => links'[j] = links[j]
  BY DEF Touched
<1>6. LinksTypeOK'
  BY <1>5 DEF LinksTypeOK
<1>7. PairOK'
  BY <1>4 DEF PairOK
<1>8. IndexOK'
  <2>1. ASSUME NEW q \in Procs, index'[q] # NoIndex
        PROVE  \/ index'[q] \in {0} \union WrongIndices'
               \/ index'[q] \in DOMAIN links' /\ links'[index'[q]].name \in Ends
    <3>1. index'[q] = index[q]
      BY <1>3, <2>1
    <3> QED BY <1>5, <2>1, <3>1, IndexStays
  <2> QED BY <2>1 DEF IndexOK
<1>9. MainIndexOK'
  BY <1>3 DEF MainIndexOK
<1>10. Present(i) => links[i].name \in {"other", op.name}
  <2>1. line[Main] <= Len(MainScript)
    BY <1>2, MainOps
  <2> QED BY <2>1 DEF MainIndexOK
<1>11. AddrsOK'
  <2>1. ASSUME NEW j \in DOMAIN links', links'[j].name \in Ends
        PROVE  links'[j].addrs \subseteq {links'[j].name}
    <3>1. j \in DOMAIN links /\ links'[j].name = links[j].name
      BY <1>5, <2>1
    <3>2. links[j].addrs \subseteq {links[j].name}
      BY <2>1, <3>1 DEF AddrsOK
    <3>3. CASE links'[j] = links[j]
      BY <3>2, <3>3
    <3>4. CASE links'[j] # links[j]
      <4>1. j = i /\ Present(i) /\ links' # links
        BY <1>5, <3>1, <3>4
      <4>2. links[j].name = op.name
        BY <1>10, <2>1, <3>1, <4>1 DEF Ends
      <4>3. /\ op.op = "up" => links'[j].addrs = links[j].addrs
            /\ op.op = "bind" => links'[j].addrs = links[j].addrs \union {op.addr}
        BY <4>1
      <4>4. CASE op.op = "up"
        BY <3>1, <3>2, <4>3, <4>4
      <4>5. CASE op.op = "bind"
        BY <1>2, <3>1, <3>2, <4>2, <4>3, <4>5
      <4> QED BY <4>4, <4>5
    <3> QED BY <3>3, <3>4
  <2> QED BY <2>1 DEF AddrsOK
<1>12. SecondPassOK'
  <2>1. SUFFICES ASSUME Undisturbed', line'[Main] > 6
                 PROVE  /\ \A n \in Ends : Named(n)' # {}
                        /\ \A k \in 7 .. 10 : k < line'[Main] => Done(MainScript[k])'
    BY <1>3, MainOps DEF SecondPassOK
  <2>2. line[Main] > 6
    BY <1>2, <1>3, <2>1
  <2>3. Undisturbed
    BY <1>5, <2>1 DEF Undisturbed
  <2>4. /\ \A n \in Ends : Named(n) # {}
        /\ \A k \in 7 .. 10 : k < line[Main] => Done(MainScript[k])
        /\ i \in Named(op.name)
    <3>1. line[Main] <= Len(MainScript)
      BY <1>2, MainOps
    <3> QED BY <2>2, <2>3, <3>1, MainOps DEF SecondPassOK
  <2>5. line[Main] \notin noSocket'
    BY <1>2, <2>1, <2>2, MainOps DEF Undisturbed
  <2>6. Present(i) /\ i \in DOMAIN links
    BY <2>4 DEF Named
  <2>7. ASSUME NEW k \in 7 .. 10, k < line'[Main]
        PROVE  Done(MainScript[k])'
    <3>1. CASE k < line[Main]
      <4>1. Done(MainScript[k])
        BY <2>4, <3>1
      <4>2. \A j \in Named(MainScript[k].name) :
              j \in DOMAIN links /\ (links[j].up => links'[j].up)
              /\ links[j].addrs \subseteq links'[j].addrs
        BY <1>5 DEF Named
      <4> QED BY <1>4, <4>1, <4>2 DEF Done
    <3>2. CASE k = line[Main]
      <4>1. op = MainScript[k] /\ MainScript[k].name \in Ends
        BY <1>2, <3>2
      <4>2. i \in Named(MainScript[k].name)
        BY <2>4, <4>1
      <4>3. \A j \in Named(MainScript[k].name) : j = i
        BY <4>1, <4>2 DEF PairOK
      <4>4. /\ MainScript[k].op = "up" => links'[i].up
            /\ MainScript[k].op = "bind" => MainScript[k].addr \in links'[i].addrs
        BY <2>5, <2>6, <4>1
      <4> QED BY <1>4, <4>3, <4>4 DEF Done
    <3> QED BY <1>2, <1>3, <2>7, <3>1, <3>2
  <2> QED BY <1>4, <2>4, <2>7
<1>13. RequestsSound'
  <2>1. AttributesInside'
    BY DEF WellFormed, AttrEnd, AttributesInside
  <2>2. \A n : GetLinkLen(n)' = GetLinkLen(n)
    BY DEF GetLinkLen
  <2>3. ForeignLinksIntact
    BY DEF RequestsSound
  <2>4. ASSUME NEW j \in DOMAIN links', links'[j].name = "other", j \notin WrongIndices
        PROVE  links'[j] = Link("other")
    <3>1. j \in DOMAIN links /\ links[j].name = "other"
      BY <1>5, <2>4
    <3>2. j # i
      BY <1>1, <2>4, <3>1, OthersNotAddressed
    <3> QED BY <1>5, <2>3, <2>4, <3>1, <3>2 DEF ForeignLinksIntact, WrongIndices
  <2>5. ForeignLinksIntact'
    BY <2>2, <2>4 DEF ForeignLinksIntact, WrongIndices
  <2> QED BY <2>1, <2>5 DEF RequestsSound
<1> QED BY <1>3, <1>6, <1>7, <1>8, <1>9, <1>11, <1>12, <1>13

\* The links keep index and name, and an end that does not exist is created by
\* main only.
Keeps == /\ DOMAIN links \subseteq DOMAIN links'
         /\ \A j \in DOMAIN links : links'[j].name = links[j].name
         /\ line[Main] > Len(MainScript) => \A n \in Ends : Named(n) = {} => Named(n)' = {}
         /\ line'[Main] >= line[Main]

\* up_if preserves the invariant of the links.
LEMMA UpStep ==
  ASSUME NetInvariant, NEW p \in Procs, UpIf(p)
  PROVE  NetInvariant' /\ Keeps
<1> USE DEF NetInvariant
<1>1. /\ Running(p) /\ Op(p).op = "up" /\ index[p] # NoIndex /\ request' = SetLink("NEWLINK")
      /\ \/ Received /\ SetUp(index[p]) /\ nextIndex' = nextIndex
         \/ NotReceived(p)
      /\ Advance(p) /\ nameLen' = nameLen
  BY DEF UpIf
<1>2. p = Main /\ line[p] \in Nat
  BY <1>1, RunningOp
<1>3. WellFormed(request')
  BY <1>1, SmallRequests DEF LinksTypeOK
<1>4. /\ Touched(index[Main]) /\ nextIndex' = nextIndex
      /\ noSocket \subseteq noSocket' /\ noSocket' \subseteq Nat
      /\ \/ line[Main] \in noSocket' /\ links' = links
         \/ Present(index[Main]) =>
              /\ links'[index[Main]].up
              /\ links'[index[Main]].addrs = links[index[Main]].addrs
  <2>1. CASE Received /\ SetUp(index[p]) /\ nextIndex' = nextIndex
    <3>1. noSocket' = noSocket
      BY <2>1 DEF Received
    <3> QED BY <1>2, <2>1, <3>1, SetUpTouches DEF ProcsTypeOK
  <2>2. CASE NotReceived(p)
    <3>1. links' = links /\ nextIndex' = nextIndex /\ noSocket' = noSocket \union {line[p]}
      BY <2>2 DEF NotReceived
    <3> QED BY <1>2, <3>1 DEF ProcsTypeOK, Touched, LinksTypeOK
  <2> QED BY <1>1, <2>1, <2>2
<1>5. NetInvariant'
  <2>1. Op(Main).op \in {"up", "bind"} /\ Op(Main).op # "bind"
    BY <1>1, <1>2
  <2> QED BY <1>1, <1>2, <1>3, <1>4, <2>1, TouchStep
<1>6. line'[Main] = line[Main] + 1
  BY <1>1, <1>2, <1>4, AdvanceTypes
<1>7. Keeps
  BY <1>2, <1>4, <1>6, TouchedNames DEF Keeps, Touched
<1> QED BY <1>5, <1>7

\* bind_if preserves the invariant of the links.
LEMMA BindStep ==
  ASSUME NetInvariant, NEW p \in Procs, BindIf(p)
  PROVE  NetInvariant' /\ Keeps
<1> USE DEF NetInvariant
<1>1. /\ Running(p) /\ Op(p).op = "bind" /\ index[p] # NoIndex /\ request' = NewAddr
      /\ \/ Received /\ AddAddr(index[p], Op(p).addr) /\ nextIndex' = nextIndex
         \/ NotReceived(p)
      /\ Advance(p) /\ nameLen' = nameLen
  BY DEF BindIf
<1>2. p = Main /\ line[p] \in Nat /\ Op(p).addr \in Ends
  BY <1>1, RunningOp
<1>3. WellFormed(request')
  BY <1>1, SmallRequests DEF LinksTypeOK
<1>4. /\ Touched(index[Main]) /\ nextIndex' = nextIndex
      /\ noSocket \subseteq noSocket' /\ noSocket' \subseteq Nat
      /\ \/ line[Main] \in noSocket' /\ links' = links
         \/ Present(index[Main]) =>
              links'[index[Main]].addrs = links[index[Main]].addrs \union {Op(Main).addr}
  <2>1. CASE Received /\ AddAddr(index[p], Op(p).addr) /\ nextIndex' = nextIndex
    <3>1. noSocket' = noSocket
      BY <2>1 DEF Received
    <3> QED BY <1>2, <2>1, <3>1, AddAddrTouches DEF ProcsTypeOK
  <2>2. CASE NotReceived(p)
    <3>1. links' = links /\ nextIndex' = nextIndex /\ noSocket' = noSocket \union {line[p]}
      BY <2>2 DEF NotReceived
    <3> QED BY <1>2, <3>1 DEF ProcsTypeOK, Touched, LinksTypeOK
  <2> QED BY <1>1, <2>1, <2>2
<1>5. NetInvariant'
  <2>1. Op(Main).op \in {"up", "bind"} /\ Op(Main).op # "up"
    BY <1>1, <1>2
  <2> QED BY <1>1, <1>2, <1>3, <1>4, <2>1, TouchStep
<1>6. line'[Main] = line[Main] + 1
  BY <1>1, <1>2, <1>4, AdvanceTypes
<1>7. Keeps
  BY <1>2, <1>4, <1>6, TouchedNames DEF Keeps, Touched
<1> QED BY <1>5, <1>7

\* delete_if of the other process preserves the invariant of the links.
LEMMA DeleteStep ==
  ASSUME NetInvariant, NEW p \in Procs, DeleteIf(p)
  PROVE  NetInvariant' /\ Keeps
<1> USE DEF NetInvariant
<1> DEFINE i == index[p]
<1>1. /\ Running(p) /\ Op(p).op = "delete" /\ index[p] # NoIndex /\ request' = SetLink("DELLINK")
      /\ noSocket' = noSocket /\ Remove(i) /\ nextIndex' = nextIndex
      /\ Advance(p) /\ nameLen' = nameLen
  BY DEF DeleteIf, Received
<1>2. p # Main
  BY <1>1, RunningOp
<1>3. Main \in Procs
  BY DEF Procs
<1>4. /\ DOMAIN links' = DOMAIN links /\ links' \in [DOMAIN links -> LinkSet]
      /\ \A j \in DOMAIN links :
            /\ links'[j].name = links[j].name /\ links'[j].addrs = links[j].addrs
            /\ links[j].gone => links'[j].gone
            /\ j # i /\ links[j].name \notin Ends => links'[j] = links[j]
      /\ Present(i) => links'[i].gone
      /\ ~Present(i) => links' = links
      /\ \A j : Present(j)' => Present(j)
      /\ \A n : Named(n)' \subseteq Named(n)
      /\ PairOK'
  BY <1>1, RemoveEffect
<1>5. /\ ProcsTypeOK' /\ line'[p] = line[p] + 1 /\ index'[p] = NoIndex
      /\ line'[Main] = line[Main] /\ index'[Main] = index[Main]
      /\ \A q \in Procs : q # p => index'[q] = index[q]
  <2>1. noSocket' \subseteq Nat
    BY <1>1 DEF ProcsTypeOK
  <2> QED BY <1>1, <1>2, <1>3, <2>1, AdvanceTypes
<1>6. LinksTypeOK'
  BY <1>1, <1>4 DEF LinksTypeOK
<1>7. IndexOK'
  <2>1. ASSUME NEW q \in Procs, index'[q] # NoIndex
        PROVE  \/ index'[q] \in {0} \union WrongIndices'
               \/ index'[q] \in DOMAIN links' /\ links'[index'[q]].name \in Ends
    <3>1. index'[q] = index[q]
      BY <1>5, <2>1
    <3> QED BY <1>1, <1>4, <2>1, <3>1, IndexStays
  <2> QED BY <2>1 DEF IndexOK
<1>8. Op(Main)' = Op(Main)
  BY <1>5 DEF Op, Script
<1>9. MainIndexOK'
  <2>1. Present(index[Main]) => links'[index[Main]].name = links[index[Main]].name
    BY <1>4 DEF Present
  <2> QED BY <1>4, <1>5, <1>8, <2>1 DEF MainIndexOK
<1>10. AddrsOK'
  BY <1>4 DEF AddrsOK
<1>11. SecondPassOK'
  <2>1. CASE Undisturbed'
    <3>1. ~Present(i)
      BY <1>4, <2>1 DEF Undisturbed, Present
    <3>2. links' = links
      BY <1>4, <3>1
    <3>3. Undisturbed
      BY <1>1, <2>1, <3>2 DEF Undisturbed
    <3>4. /\ \A n : Named(n)' = Named(n)
          /\ \A k : Done(MainScript[k])' = Done(MainScript[k])
      BY <3>2 DEF Named, Done, Present
    <3> QED BY <1>5, <1>8, <3>3, <3>4 DEF SecondPassOK
  <2>2. CASE ~Undisturbed'
    BY <2>2 DEF SecondPassOK
  <2> QED BY <2>1, <2>2
<1>12. RequestsSound'
  <2>1. WellFormed(request')
    BY <1>1, SmallRequests DEF LinksTypeOK
  <2>2. AttributesInside'
    BY <2>1 DEF WellFormed, AttrEnd, AttributesInside
  <2>3. \A n : GetLinkLen(n)' = GetLinkLen(n)
    BY <1>1 DEF GetLinkLen
  <2>4. ForeignLinksIntact
    BY DEF RequestsSound
  <2>5. ASSUME NEW j \in DOMAIN links', links'[j].name = "other", j \notin WrongIndices
        PROVE  links'[j] = Link("other")
    <3>1. j \in DOMAIN links /\ links[j].name = "other"
      BY <1>4, <2>5
    <3>2. j # i
      BY <1>1, <2>5, <3>1, OthersNotAddressed
    <3>3. "other" \notin Ends
      BY DEF Ends
    <3> QED BY <1>4, <2>4, <2>5, <3>1, <3>2, <3>3 DEF ForeignLinksIntact, WrongIndices
  <2>6. ForeignLinksIntact'
    BY <2>3, <2>5 DEF ForeignLinksIntact, WrongIndices
  <2> QED BY <2>2, <2>6 DEF RequestsSound
<1>13. Keeps
  <2>1. line[Main] \in Nat
    BY <1>3 DEF ProcsTypeOK
  <2> QED BY <1>4, <1>5, <2>1 DEF Keeps
<1> QED BY <1>4, <1>5, <1>6, <1>7, <1>9, <1>10, <1>11, <1>12, <1>13

\* get_ifid preserves the invariant of the links.
LEMMA GetIfidStep ==
  ASSUME NetInvariant, NEW p \in Procs, GetIfid(p)
  PROVE  NetInvariant' /\ Keeps
<1> USE DEF NetInvariant
<1> DEFINE n == Op(p).name
<1>1. /\ Running(p) /\ Op(p).op # "create" /\ index[p] = NoIndex /\ request' = GetLink(n)
      /\ nameLen' = nameLen /\ links' = links /\ nextIndex' = nextIndex /\ line' = line
  BY DEF GetIfid
<1>2. Main \in Procs
  BY DEF Procs
<1>3. n \in Ends /\ line[p] \in Nat
  BY <1>1, RunningOp
<1>4. index \in [Procs -> Nat \union {NoIndex}] /\ noSocket \subseteq Nat
  BY DEF ProcsTypeOK
<1>5. /\ \A q \in Procs : q # p => index'[q] = index[q]
      /\ index' \in [Procs -> Nat \union {NoIndex}]
      /\ noSocket \subseteq noSocket' /\ noSocket' \subseteq Nat
      /\ \/ index'[p] = IndexInReply(n)
         \/ index'[p] = 0 /\ line[p] \in noSocket'
         \/ index'[p] = NoIndex
  <2>1. CASE index' = [index EXCEPT ![p] = IndexInReply(n)] /\ noSocket' = noSocket
    <3>1. IndexInReply(n) \in Nat
      BY <1>3, ReplyIndex
    <3> QED BY <1>4, <2>1, <3>1
  <2>2. CASE index' = [index EXCEPT ![p] = 0] /\ noSocket' = noSocket \union {line[p]}
    BY <1>3, <1>4, <2>2
  <2>3. CASE index' = index /\ noSocket' = noSocket
    BY <1>1, <1>4, <2>3
  <2> QED BY <2>1, <2>2, <2>3 DEF GetIfid, Received
<1>6. ProcsTypeOK'
  BY <1>1, <1>5 DEF ProcsTypeOK
<1>7. LinksTypeOK'
  BY <1>1 DEF LinksTypeOK
<1>8. \A m : Named(m)' = Named(m)
  BY <1>1 DEF Named, Present
<1>9. PairOK'
  BY <1>8 DEF PairOK
<1>10. AddrsOK'
  BY <1>1 DEF AddrsOK
<1>11. /\ Named(n) # {} => IndexInReply(n) \in Named(n)
       /\ Named(n) = {} => IndexInReply(n) \in WrongIndices
  BY <1>3, ReplyIndex
<1>12. IndexOK'
  <2>1. ASSUME NEW q \in Procs, index'[q] # NoIndex
        PROVE  \/ index'[q] \in {0} \union WrongIndices'
               \/ index'[q] \in DOMAIN links' /\ links'[index'[q]].name \in Ends
    <3>1. CASE q # p
      <4>1. index'[q] = index[q]
        BY <1>5, <3>1
      <4> QED BY <1>1, <2>1, <4>1, IndexStays
    <3>2. CASE q = p
      <4>1. WrongIndices' = WrongIndices
        BY <1>1, SameWrongIndices
      <4> QED BY <1>1, <1>3, <1>5, <1>11, <2>1, <3>2, <4>1 DEF Named
    <3> QED BY <3>1, <3>2
  <2> QED BY <2>1 DEF IndexOK
<1>13. Op(Main)' = Op(Main)
  BY <1>1 DEF Op, Script
<1>14. \A j : Present(j)' <=> Present(j)
  BY <1>1 DEF Present
<1>15. MainIndexOK'
  <2>1. CASE p # Main
    <3>1. index'[Main] = index[Main]
      BY <1>2, <1>5, <2>1
    <3> QED BY <1>1, <1>13, <1>14, <3>1 DEF MainIndexOK
  <2>2. CASE p = Main
    <3>1. ASSUME index'[Main] # NoIndex, Present(index'[Main])
          PROVE  links[index'[Main]].name \in {"other", n}
      <4>1. index'[Main] \in DOMAIN links
        BY <3>1 DEF Present
      <4>2. index'[Main] = IndexInReply(n)
        BY <1>5, <2>2, <3>1, <4>1 DEF LinksTypeOK
      <4>3. CASE Named(n) # {}
        BY <1>11, <4>2, <4>3 DEF Named
      <4>4. CASE Named(n) = {}
        <5>1. Named("client") = {} /\ Named("server") = {}
          BY <1>3, <4>4 DEF PairOK, Ends
        <5>2. links[index'[Main]].name \notin Ends
          BY <3>1, <4>1, <5>1 DEF Named, Ends
        <5>3. links[index'[Main]].name \in Ends \union {"other"}
          BY <4>1 DEF LinksTypeOK, LinkSet
        <5> QED BY <5>2, <5>3
      <4> QED BY <4>3, <4>4
    <3> QED BY <1>1, <1>13, <1>14, <2>2, <3>1 DEF MainIndexOK
  <2> QED BY <2>1, <2>2
<1>16. SecondPassOK'
  <2>1. ASSUME Undisturbed', line[Main] > 6
        PROVE  /\ Undisturbed
               /\ index'[Main] # NoIndex /\ line[Main] <= 10 => index'[Main] \in Named(Op(Main).name)
               /\ \A m \in Ends : Named(m) # {}
               /\ \A k \in 7 .. 10 : k < line[Main] => Done(MainScript[k])
    <3>1. Undisturbed
      BY <1>1, <1>5, <2>1 DEF Undisturbed
    <3>2. /\ index[Main] # NoIndex /\ line[Main] <= 10 => index[Main] \in Named(Op(Main).name)
          /\ \A m \in Ends : Named(m) # {}
          /\ \A k \in 7 .. 10 : k < line[Main] => Done(MainScript[k])
      BY <2>1, <3>1, MainOps DEF SecondPassOK
    <3>3. CASE p # Main
      <4>1. index'[Main] = index[Main]
        BY <1>2, <1>5, <3>3
      <4> QED BY <3>1, <3>2, <4>1
    <3>4. CASE p = Main
      <4>1. line[p] \notin noSocket'
        BY <1>3, <2>1, <3>4, MainOps DEF Undisturbed
      <4> QED BY <1>3, <1>5, <1>11, <3>1, <3>2, <3>4, <4>1
    <3> QED BY <3>3, <3>4
  <2>2. \A k : Done(MainScript[k])' = Done(MainScript[k])
    BY <1>1 DEF Done, Named, Present
  <2> QED BY <1>1, <1>8, <1>13, <2>1, <2>2, MainOps DEF SecondPassOK
<1>17. RequestsSound'
  <2>1. WellFormed(request')
    BY <1>1, <1>3, SmallRequests DEF LinksTypeOK
  <2>2. AttributesInside'
    BY <2>1 DEF WellFormed, AttrEnd, AttributesInside
  <2>3. ForeignLinksIntact'
    BY <1>1 DEF RequestsSound, ForeignLinksIntact, GetLinkLen
  <2> QED BY <2>2, <2>3 DEF RequestsSound
<1>18. Keeps
  <2>1. line[Main] \in Nat
    BY <1>2 DEF ProcsTypeOK
  <2> QED BY <1>1, <1>8, <2>1 DEF Keeps
<1> QED BY <1>6, <1>7, <1>9, <1>10, <1>12, <1>15, <1>16, <1>17, <1>18

\* Every request of the two processes preserves the invariant of the links.
LEMMA NetStepInvariant ==
  ASSUME NetInvariant, NEW p \in Procs, NetStep(p)
  PROVE  NetInvariant' /\ Keeps
<1>1. ASSUME CreateVethPair(p) PROVE NetInvariant' /\ Keeps
  <2>1. /\ NetInvariant' /\ p = Main /\ line[Main] <= Len(MainScript)
        /\ DOMAIN links \subseteq DOMAIN links'
        /\ \A j \in DOMAIN links : links'[j].name = links[j].name
    BY <1>1, CreateStep
  <2>2. line[Main] \in Nat /\ line'[Main] = line[Main] + 1
    BY <1>1, <2>1 DEF NetInvariant, ProcsTypeOK, CreateVethPair, Advance
  <2> QED BY <2>1, <2>2, MainOps DEF Keeps
<1> QED BY <1>1, UpStep, BindStep, DeleteStep, GetIfidStep DEF NetStep

\* The invariant of the links holds at the start.
LEMMA NetInitInvariant == NetInit => NetInvariant
<1> SUFFICES ASSUME NetInit PROVE NetInvariant
  OBVIOUS
<1>1. PICK foreign \in SUBSET ForeignIndices, n \in FirstIndices :
        /\ \A i \in foreign : i < n
        /\ links = [i \in {Loopback} \union foreign |-> Link("other")]
        /\ nextIndex = n
  BY DEF NetInit
<1>2. Link("other") \in LinkSet /\ Link("other").name = "other" /\ "other" \notin Ends
  BY DEF Link, LinkSet, Ends
<1>3. LinksTypeOK
  <2>1. nameLen \in [Ends -> 1 .. 15]
    BY NameLensAssumption DEF NetInit
  <2>2. n \in Nat /\ n > 1 /\ \A i \in foreign : i \in Nat /\ i > 1
    BY <1>1, IndexAssumption
  <2>3. DOMAIN links = {1} \union foreign /\ links \in [DOMAIN links -> LinkSet]
    BY <1>1, <1>2 DEF Loopback
  <2> QED BY <1>1, <2>1, <2>2, <2>3 DEF LinksTypeOK
<1>4. /\ line \in [Procs -> Nat \ {0}] /\ line[Main] = 1
      /\ \A p \in Procs : index[p] = NoIndex /\ index \in [Procs -> Nat \union {NoIndex}]
      /\ index[Main] = NoIndex
      /\ noSocket = {}
  <2>1. PICK c \in {1, Len(CleanScript) + 1} : line = [p \in Procs |-> IF p = Main THEN 1 ELSE c]
    BY DEF NetInit
  <2>2. Len(CleanScript) = 2
    BY DEF CleanScript
  <2>3. c \in Nat \ {0}
    BY <2>1, <2>2
  <2>4. index = [p \in Procs |-> NoIndex] /\ noSocket = {}
    BY DEF NetInit
  <2> QED BY <2>1, <2>3, <2>4 DEF Procs
<1>5. ProcsTypeOK
  BY <1>4 DEF ProcsTypeOK, Procs
<1>6. \A i \in DOMAIN links : links[i] = Link("other")
  BY <1>1
<1>7. \A m \in Ends : Named(m) = {}
  BY <1>2, <1>6 DEF Named
<1>8. PairOK
  BY <1>7 DEF PairOK, Ends
<1>9. IndexOK /\ MainIndexOK
  BY <1>4 DEF IndexOK, MainIndexOK
<1>10. AddrsOK
  BY <1>2, <1>6 DEF AddrsOK
<1>11. SecondPassOK
  BY <1>4, MainOps DEF SecondPassOK
<1>12. RequestsSound
  <2>1. WellFormed(request)
    BY <1>3, SmallRequests DEF NetInit, LinksTypeOK
  <2> QED BY <1>6, <2>1, AttributesOfRequest DEF RequestsSound, ForeignLinksIntact
<1> QED BY <1>3, <1>5, <1>8, <1>9, <1>10, <1>11, <1>12 DEF NetInvariant

-----------------------------------------------------------------------------
(***************************************************************************)
(* The steps of kpnet_env_init and their error paths                       *)
(***************************************************************************)
\* The labels in the order they are run through, of xdp_open and of eth_open.
XdpOrder == <<"completion_ring_mmap", "fill_ring_mmap", "tx_ring_mmap", "rx_ring_mmap",
              "umem", "fd", "xdp", "stack", "env">>
EthOrder == <<"eth_fd", "eth", "stack", "env">>

\* u is what q has from its mth element on.
IsSuffix(u, q, m) == /\ u \in Seq(Resources) /\ Len(u) = Len(q) + 1 - m
                     /\ \A j \in 1 .. Len(u) : u[j] = q[m - 1 + j]

\* A jump to the kth label of xdp_open runs through the rest of the order.
LEMMA XdpUndoSuffix ==
  ASSUME NEW k \in 1 .. 7
  PROVE  IsSuffix(XdpUndo(k), XdpOrder, k)
<1>1. /\ XdpLabels \in Seq(Resources) /\ Len(XdpLabels) = 7
      /\ EnvLabels \in Seq(Resources) /\ Len(EnvLabels) = 2
      /\ EnvLabels[1] = "stack" /\ EnvLabels[2] = "env"
      /\ XdpLabels[1] = "completion_ring_mmap" /\ XdpLabels[2] = "fill_ring_mmap"
      /\ XdpLabels[3] = "tx_ring_mmap" /\ XdpLabels[4] = "rx_ring_mmap"
      /\ XdpLabels[5] = "umem" /\ XdpLabels[6] = "fd" /\ XdpLabels[7] = "xdp"
  BY DEF XdpLabels, EnvLabels, Resources
<1>2. /\ Len(XdpOrder) = 9 /\ XdpOrder[8] = EnvLabels[1] /\ XdpOrder[9] = EnvLabels[2]
      /\ \A j \in 1 .. 7 : XdpOrder[j] = XdpLabels[j]
  <2>1. /\ Len(XdpOrder) = 9 /\ XdpOrder[8] = "stack" /\ XdpOrder[9] = "env"
        /\ XdpOrder[1] = "completion_ring_mmap" /\ XdpOrder[2] = "fill_ring_mmap"
        /\ XdpOrder[3] = "tx_ring_mmap" /\ XdpOrder[4] = "rx_ring_mmap"
        /\ XdpOrder[5] = "umem" /\ XdpOrder[6] = "fd" /\ XdpOrder[7] = "xdp"
    BY DEF XdpOrder
  <2>2. \A j \in 1 .. 7 : j = 1 \/ j = 2 \/ j = 3 \/ j = 4 \/ j = 5 \/ j = 6 \/ j = 7
    OBVIOUS
  <2> QED BY <1>1, <2>1, <2>2
<1> DEFINE q == SubSeq(XdpLabels, k, 7)
<1>3. q \in Seq(Resources) /\ Len(q) = 8 - k /\ \A j \in 1 .. 8 - k : q[j] = XdpLabels[k - 1 + j]
  <2>1. \A j \in k .. 7 : XdpLabels[j] \in Resources
    <3>1. \A j \in k .. 7 : j \in 1 .. Len(XdpLabels)
      BY <1>1
    <3>2. XdpLabels \in Seq(Resources)
      BY <1>1
    <3> QED BY <3>1, <3>2, ElementOfSeq
  <2>2. /\ q \in Seq(Resources) /\ Len(q) = IF k <= 7 THEN 7 - k + 1 ELSE 0
        /\ \A j \in 1 .. 7 - k + 1 : q[j] = XdpLabels[k + j - 1]
    BY <2>1, SubSeqProperties
  <2>3. Len(q) = 8 - k /\ 7 - k + 1 = 8 - k
    BY <2>2
  <2>4. \A j \in 1 .. 8 - k : k + j - 1 = k - 1 + j
    OBVIOUS
  <2> QED BY <2>1, <2>2, <2>3, <2>4
<1> DEFINE u == q \o EnvLabels
<1>4. XdpUndo(k) = u
  BY <1>1 DEF XdpUndo
<1> HIDE DEF q
<1>5. /\ u \in Seq(Resources) /\ Len(u) = Len(q) + Len(EnvLabels)
      /\ \A j \in 1 .. Len(q) : u[j] = q[j]
      /\ \A j \in 1 .. Len(EnvLabels) : u[Len(q) + j] = EnvLabels[j]
  <2>1. q \in Seq(Resources) /\ EnvLabels \in Seq(Resources)
    BY <1>1, <1>3
  <2> QED BY <2>1, Together
<1> HIDE DEF u
<1>6. Len(u) = 10 - k
  BY <1>1, <1>3, <1>5
<1>7. ASSUME NEW j \in 1 .. 10 - k PROVE u[j] = XdpOrder[k - 1 + j]
  <2>1. CASE j \in 1 .. 8 - k
    <3>1. u[j] = XdpLabels[k - 1 + j]
      BY <1>3, <1>5, <2>1
    <3>2. k - 1 + j \in 1 .. 7
      BY <2>1
    <3> QED BY <1>2, <3>1, <3>2
  <2>2. CASE j = 9 - k
    <3>1. u[8 - k + 1] = EnvLabels[1]
      BY <1>1, <1>3, <1>5
    <3>2. j = 8 - k + 1 /\ k - 1 + j = 8
      BY <2>2
    <3> QED BY <1>2, <3>1, <3>2
  <2>3. CASE j = 10 - k
    <3>1. u[8 - k + 2] = EnvLabels[2]
      BY <1>1, <1>3, <1>5
    <3>2. j = 8 - k + 2 /\ k - 1 + j = 9
      BY <2>3
    <3> QED BY <1>2, <3>1, <3>2
  <2> QED BY <2>1, <2>2, <2>3
<1>8. \A j \in 1 .. Len(u) : u[j] = XdpOrder[k - 1 + j]
  BY <1>6, <1>7
<1>9. u \in Seq(Resources) /\ Len(u) = Len(XdpOrder) + 1 - k
  BY <1>2, <1>5, <1>6
<1> QED BY <1>4, <1>8, <1>9, Zenon DEF IsSuffix

\* The error paths of eth_open, and those before xdp_open.
LEMMA OtherSuffixes ==
  /\ IsSuffix(<< >>, XdpOrder, 10) /\ IsSuffix(<<"env">>, XdpOrder, 9)
  /\ IsSuffix(<<"stack", "env">>, XdpOrder, 8) /\ IsSuffix(EnvLabels, EthOrder, 3)
  /\ IsSuffix(EthClose(FALSE) \o EnvLabels, EthOrder, 2)
  /\ IsSuffix(EthClose(TRUE) \o EnvLabels, EthOrder, 1)
<1>1. Len(XdpOrder) = 9 /\ XdpOrder[8] = "stack" /\ XdpOrder[9] = "env"
  BY DEF XdpOrder
<1>2. /\ Len(EthOrder) = 4 /\ EthOrder[1] = "eth_fd" /\ EthOrder[2] = "eth"
      /\ EthOrder[3] = "stack" /\ EthOrder[4] = "env"
  BY DEF EthOrder
<1>3. EnvLabels = <<"stack", "env">>
  BY DEF EnvLabels
<1>4. ASSUME NEW r \in Resources
      PROVE  <<r>> \in Seq(Resources) /\ Len(<<r>>) = 1 /\ <<r>>[1] = r
  OBVIOUS
<1>5. "eth" \in Resources /\ "eth_fd" \in Resources /\ "stack" \in Resources /\ "env" \in Resources
  BY DEF Resources
<1>6. EnvLabels \in Seq(Resources) /\ Len(EnvLabels) = 2 /\ EnvLabels[1] = "stack" /\ EnvLabels[2] = "env"
  BY <1>3, <1>5
<1>7. IsSuffix(<< >>, XdpOrder, 10)
  BY <1>1 DEF IsSuffix
<1>8. IsSuffix(<<"env">>, XdpOrder, 9)
  BY <1>1, <1>5 DEF IsSuffix
<1>9. IsSuffix(EnvLabels, XdpOrder, 8) /\ IsSuffix(EnvLabels, EthOrder, 3)
  <2>1. \A j \in 1 .. 2 : EnvLabels[j] = XdpOrder[8 - 1 + j] /\ EnvLabels[j] = EthOrder[3 - 1 + j]
    <3>1. \A j \in 1 .. 2 : j = 1 \/ j = 2
      OBVIOUS
    <3>2. 8 - 1 + 1 = 8 /\ 8 - 1 + 2 = 9 /\ 3 - 1 + 1 = 3 /\ 3 - 1 + 2 = 4
      OBVIOUS
    <3> QED BY <1>1, <1>2, <1>6, <3>1, <3>2
  <2> QED BY <1>1, <1>2, <1>6, <2>1 DEF IsSuffix
<1>10. IsSuffix(EthClose(FALSE) \o EnvLabels, EthOrder, 2)
  <2> DEFINE u == <<"eth">> \o EnvLabels
  <2>1. EthClose(FALSE) \o EnvLabels = u
    <3>1. << >> \o <<"eth">> = <<"eth">>
      BY <1>4, <1>5, ConcatEmptySeq
    <3> QED BY <3>1 DEF EthClose
  <2>2. /\ u \in Seq(Resources) /\ Len(u) = 1 + 2
        /\ \A j \in 1 .. 1 : u[j] = <<"eth">>[j]
        /\ \A j \in 1 .. 2 : u[1 + j] = EnvLabels[j]
    <3> DEFINE e == <<"eth">>
    <3>1. e \in Seq(Resources) /\ EnvLabels \in Seq(Resources) /\ Len(e) = 1 /\ Len(EnvLabels) = 2
      BY <1>4, <1>5, <1>6
    <3> HIDE DEF e
    <3>2. /\ e \o EnvLabels \in Seq(Resources) /\ Len(e \o EnvLabels) = Len(e) + Len(EnvLabels)
          /\ \A j \in 1 .. Len(e) : (e \o EnvLabels)[j] = e[j]
          /\ \A j \in 1 .. Len(EnvLabels) : (e \o EnvLabels)[Len(e) + j] = EnvLabels[j]
      BY <3>1, Together
    <3> QED BY <3>1, <3>2, Zenon DEF e
  <2> HIDE DEF u
  <2>3. u[1] = "eth" /\ u[2] = "stack" /\ u[3] = "env" /\ Len(u) = 3
    BY <1>6, <2>2
  <2>4. \A j \in 1 .. 3 : j = 1 \/ j = 2 \/ j = 3
    OBVIOUS
  <2>5. IsSuffix(u, EthOrder, 2)
    BY <1>2, <2>2, <2>3, <2>4 DEF IsSuffix
  <2> QED BY <2>1, <2>5
<1>11. IsSuffix(EthClose(TRUE) \o EnvLabels, EthOrder, 1)
  <2> DEFINE e == <<"eth_fd">> \o <<"eth">>
             u == e \o EnvLabels
  <2>1. EthClose(TRUE) \o EnvLabels = u
    BY DEF EthClose
  <2>2. /\ e \in Seq(Resources) /\ Len(e) = 1 + 1
        /\ \A j \in 1 .. 1 : e[j] = <<"eth_fd">>[j]
        /\ \A j \in 1 .. 1 : e[1 + j] = <<"eth">>[j]
    BY <1>4, <1>5, Together
  <2> HIDE DEF e
  <2>3. e[1] = "eth_fd" /\ e[2] = "eth" /\ Len(e) = 2
    BY <2>2
  <2>4. /\ u \in Seq(Resources) /\ Len(u) = 2 + 2
        /\ \A j \in 1 .. 2 : u[j] = e[j]
        /\ \A j \in 1 .. 2 : u[2 + j] = EnvLabels[j]
    <3>1. e \in Seq(Resources) /\ EnvLabels \in Seq(Resources)
      BY <1>6, <2>2
    <3>2. /\ u \in Seq(Resources) /\ Len(u) = Len(e) + Len(EnvLabels)
          /\ \A j \in 1 .. Len(e) : u[j] = e[j]
          /\ \A j \in 1 .. Len(EnvLabels) : u[Len(e) + j] = EnvLabels[j]
      BY <3>1, Together
    <3> HIDE DEF u
    <3> QED BY <1>6, <2>3, <3>2
  <2> HIDE DEF u
  <2>5. u[1] = "eth_fd" /\ u[2] = "eth" /\ u[3] = "stack" /\ u[4] = "env" /\ Len(u) = 4
    BY <1>6, <2>3, <2>4
  <2>6. \A j \in 1 .. 4 : j = 1 \/ j = 2 \/ j = 3 \/ j = 4
    OBVIOUS
  <2>7. IsSuffix(u, EthOrder, 1)
    BY <1>2, <2>4, <2>5, <2>6 DEF IsSuffix
  <2> QED BY <2>1, <2>7
<1> QED BY <1>3, <1>7, <1>8, <1>9, <1>10, <1>11

StepSet == [gets : Resources \union {NULL}, undo : Seq(Resources)]

\* The steps of xdp_open, one by one.
LEMMA XdpStepsTable ==
  /\ XdpSteps \in Seq(StepSet) /\ Len(XdpSteps) = 14
  /\ XdpSteps[1] = Step("xdp", XdpUndo(7)) /\ XdpSteps[2] = Step("fd", XdpUndo(7))
  /\ XdpSteps[3] = Step("umem", XdpUndo(6))
  /\ \A i \in 1 .. 6 : XdpSteps[3 + i] = Step(NULL, XdpUndo(5))
  /\ XdpSteps[10] = Step("rx_ring_mmap", XdpUndo(4)) /\ XdpSteps[11] = Step("tx_ring_mmap", XdpUndo(3))
  /\ XdpSteps[12] = Step("fill_ring_mmap", XdpUndo(2))
  /\ XdpSteps[13] = Step("completion_ring_mmap", XdpUndo(1)) /\ XdpSteps[14] = Step(NULL, XdpUndo(1))
<1> DEFINE x1 == Step("xdp", XdpUndo(7))
           x2 == Step("fd", XdpUndo(7))
           x3 == Step("umem", XdpUndo(6))
           x4 == Step(NULL, XdpUndo(5))
           x5 == Step("rx_ring_mmap", XdpUndo(4))
           x6 == Step("tx_ring_mmap", XdpUndo(3))
           x7 == Step("fill_ring_mmap", XdpUndo(2))
           x8 == Step("completion_ring_mmap", XdpUndo(1))
           x9 == Step(NULL, XdpUndo(1))
           a == <<x1, x2, x3>>
           b == [i \in 1 .. 6 |-> x4]
           c == <<x5, x6, x7, x8, x9>>
<1>1. \A k \in 1 .. 7 : XdpUndo(k) \in Seq(Resources)
  BY XdpUndoSuffix DEF IsSuffix
<1>2. /\ x1 \in StepSet /\ x2 \in StepSet /\ x3 \in StepSet /\ x4 \in StepSet /\ x5 \in StepSet
      /\ x6 \in StepSet /\ x7 \in StepSet /\ x8 \in StepSet /\ x9 \in StepSet
  <2>1. \A r \in Resources \union {NULL}, u \in Seq(Resources) : Step(r, u) \in StepSet
    BY DEF Step, StepSet
  <2>2. /\ "xdp" \in Resources /\ "fd" \in Resources /\ "umem" \in Resources
        /\ "rx_ring_mmap" \in Resources /\ "tx_ring_mmap" \in Resources
        /\ "fill_ring_mmap" \in Resources /\ "completion_ring_mmap" \in Resources
    BY DEF Resources
  <2>3. /\ 1 \in 1 .. 7 /\ 2 \in 1 .. 7 /\ 3 \in 1 .. 7 /\ 4 \in 1 .. 7 /\ 5 \in 1 .. 7
        /\ 6 \in 1 .. 7 /\ 7 \in 1 .. 7
    OBVIOUS
  <2> QED BY <1>1, <2>1, <2>2, <2>3, Zenon
<1>3. XdpSteps = (a \o b) \o c
  BY DEF XdpSteps
<1> HIDE DEF x1, x2, x3, x4, x5, x6, x7, x8, x9
<1>4. a \in Seq(StepSet) /\ Len(a) = 3 /\ a[1] = x1 /\ a[2] = x2 /\ a[3] = x3
  BY <1>2
<1>5. b \in Seq(StepSet) /\ Len(b) = 6 /\ \A i \in 1 .. 6 : b[i] = x4
  <2>1. b \in [1 .. 6 -> StepSet]
    BY <1>2
  <2> QED BY <2>1, SeqDef
<1>6. /\ c \in Seq(StepSet) /\ Len(c) = 5 /\ c[1] = x5 /\ c[2] = x6 /\ c[3] = x7
      /\ c[4] = x8 /\ c[5] = x9
  BY <1>2
<1> HIDE DEF a, b, c
<1> DEFINE d == a \o b
<1>7. /\ d \in Seq(StepSet) /\ Len(d) = 3 + 6
      /\ \A i \in 1 .. 3 : d[i] = a[i]
      /\ \A i \in 1 .. 6 : d[3 + i] = b[i]
  <2>1. a \in Seq(StepSet) /\ b \in Seq(StepSet)
    BY <1>4, <1>5
  <2>2. /\ d \in Seq(StepSet) /\ Len(d) = Len(a) + Len(b)
        /\ \A i \in 1 .. Len(a) : d[i] = a[i]
        /\ \A i \in 1 .. Len(b) : d[Len(a) + i] = b[i]
    BY <2>1, Together
  <2>3. Len(a) = 3 /\ Len(b) = 6
    BY <1>4, <1>5
  <2> HIDE DEF d
  <2> QED BY <2>2, <2>3
<1> HIDE DEF d
<1> DEFINE e == d \o c
<1>8. /\ e \in Seq(StepSet) /\ Len(e) = 9 + 5
      /\ \A i \in 1 .. 9 : e[i] = d[i]
      /\ \A i \in 1 .. 5 : e[9 + i] = c[i]
  <2>1. d \in Seq(StepSet) /\ c \in Seq(StepSet)
    BY <1>6, <1>7
  <2>2. /\ e \in Seq(StepSet) /\ Len(e) = Len(d) + Len(c)
        /\ \A i \in 1 .. Len(d) : e[i] = d[i]
        /\ \A i \in 1 .. Len(c) : e[Len(d) + i] = c[i]
    BY <2>1, Together
  <2>3. Len(d) = 9 /\ Len(c) = 5
    BY <1>6, <1>7
  <2> HIDE DEF e
  <2> QED BY <2>2, <2>3
<1> HIDE DEF e
<1>9. e[1] = x1 /\ e[2] = x2 /\ e[3] = x3 /\ \A i \in 1 .. 6 : e[3 + i] = x4
  BY <1>4, <1>5, <1>7, <1>8
<1>10. Len(e) = 14 /\ e[10] = x5 /\ e[11] = x6 /\ e[12] = x7 /\ e[13] = x8 /\ e[14] = x9
  BY <1>6, <1>8
<1>11. XdpSteps = e
  BY <1>3 DEF d, e
<1> QED BY <1>8, <1>9, <1>10, <1>11 DEF x1, x2, x3, x4, x5, x6, x7, x8, x9

\* The steps of eth_open, one by one.
LEMMA EthStepsTable ==
  /\ EthSteps \in Seq(StepSet) /\ Len(EthSteps) = 6
  /\ EthSteps[1] = Step("eth", EnvLabels)
  /\ EthSteps[2] = Step("eth_fd", EthClose(FALSE) \o EnvLabels)
  /\ \A i \in 1 .. 4 : EthSteps[2 + i] = Step(NULL, EthClose(TRUE) \o EnvLabels)
<1> DEFINE x1 == Step("eth", EnvLabels)
           x2 == Step("eth_fd", EthClose(FALSE) \o EnvLabels)
           x3 == Step(NULL, EthClose(TRUE) \o EnvLabels)
           a == <<x1, x2>>
           b == [i \in 1 .. 4 |-> x3]
<1>1. x1 \in StepSet /\ x2 \in StepSet /\ x3 \in StepSet
  <2>1. \A r \in Resources \union {NULL}, u \in Seq(Resources) : Step(r, u) \in StepSet
    BY DEF Step, StepSet
  <2>2. "eth" \in Resources /\ "eth_fd" \in Resources
    BY DEF Resources
  <2>3. /\ EnvLabels \in Seq(Resources) /\ EthClose(FALSE) \o EnvLabels \in Seq(Resources)
        /\ EthClose(TRUE) \o EnvLabels \in Seq(Resources)
    BY OtherSuffixes DEF IsSuffix
  <2> QED BY <2>1, <2>2, <2>3, Zenon
<1>2. EthSteps = a \o b
  BY DEF EthSteps
<1> HIDE DEF x1, x2, x3
<1>3. a \in Seq(StepSet) /\ Len(a) = 2 /\ a[1] = x1 /\ a[2] = x2
  BY <1>1
<1>4. b \in Seq(StepSet) /\ Len(b) = 4 /\ \A i \in 1 .. 4 : b[i] = x3
  <2>1. b \in [1 .. 4 -> StepSet]
    BY <1>1
  <2> QED BY <2>1, SeqDef
<1> HIDE DEF a, b
<1> DEFINE d == a \o b
<1>5. /\ d \in Seq(StepSet) /\ Len(d) = 2 + 4
      /\ \A i \in 1 .. 2 : d[i] = a[i]
      /\ \A i \in 1 .. 4 : d[2 + i] = b[i]
  <2>1. a \in Seq(StepSet) /\ b \in Seq(StepSet)
    BY <1>3, <1>4
  <2>2. /\ d \in Seq(StepSet) /\ Len(d) = Len(a) + Len(b)
        /\ \A i \in 1 .. Len(a) : d[i] = a[i]
        /\ \A i \in 1 .. Len(b) : d[Len(a) + i] = b[i]
    BY <2>1, Together
  <2>3. Len(a) = 2 /\ Len(b) = 4
    BY <1>3, <1>4
  <2> HIDE DEF d
  <2> QED BY <2>2, <2>3
<1> HIDE DEF d
<1>6. d \in Seq(StepSet) /\ Len(d) = 6 /\ d[1] = x1 /\ d[2] = x2 /\ \A i \in 1 .. 4 : d[2 + i] = x3
  BY <1>3, <1>4, <1>5
<1>7. EthSteps = d
  BY <1>2 DEF d
<1> QED BY <1>6, <1>7 DEF x1, x2, x3

\* All steps of kpnet_env_init: what each acquires and where its error path
\* enters the labels.
LEMMA StepsTable ==
  /\ Steps \in Seq(StepSet) /\ Len(Steps) = 23
  /\ Len(StackSteps) = 2 /\ Len(XdpSteps) = 14 /\ XdpBind = 17 /\ EthIndex = 20
  /\ Steps[1].gets = "env" /\ IsSuffix(Steps[1].undo, XdpOrder, 10)
  /\ Steps[2].gets = "stack" /\ IsSuffix(Steps[2].undo, XdpOrder, 9)
  /\ Steps[3].gets = "addrs" /\ IsSuffix(Steps[3].undo, XdpOrder, 8)
  /\ Steps[4].gets = "xdp" /\ IsSuffix(Steps[4].undo, XdpOrder, 7)
  /\ Steps[5].gets = "fd" /\ IsSuffix(Steps[5].undo, XdpOrder, 7)
  /\ Steps[6].gets = "umem" /\ IsSuffix(Steps[6].undo, XdpOrder, 6)
  /\ Steps[13].gets = "rx_ring_mmap" /\ IsSuffix(Steps[13].undo, XdpOrder, 4)
  /\ Steps[14].gets = "tx_ring_mmap" /\ IsSuffix(Steps[14].undo, XdpOrder, 3)
  /\ Steps[15].gets = "fill_ring_mmap" /\ IsSuffix(Steps[15].undo, XdpOrder, 2)
  /\ Steps[16].gets = "completion_ring_mmap" /\ IsSuffix(Steps[16].undo, XdpOrder, 1)
  /\ Steps[17].gets = NULL /\ IsSuffix(Steps[17].undo, XdpOrder, 1)
  /\ Steps[18].gets = "eth" /\ IsSuffix(Steps[18].undo, EthOrder, 3)
  /\ Steps[19].gets = "eth_fd" /\ IsSuffix(Steps[19].undo, EthOrder, 2)
  /\ \A a \in 7 .. 12 : Steps[a].gets = NULL /\ IsSuffix(Steps[a].undo, XdpOrder, 5)
  /\ \A a \in 20 .. 23 : Steps[a].gets = NULL /\ IsSuffix(Steps[a].undo, EthOrder, 1)
<1> DEFINE a == <<Step("env", << >>)>>
           b == StackSteps
           d == a \o b
           e == d \o XdpSteps
           f == e \o EthSteps
<1>1. \A r, u : Step(r, u).gets = r /\ Step(r, u).undo = u
  BY DEF Step
<1>2. a \in Seq(StepSet) /\ Len(a) = 1 /\ a[1] = Step("env", << >>)
  <2>1. Step("env", << >>) \in StepSet
    <3>1. << >> \in Seq(Resources) /\ "env" \in Resources
      BY DEF Resources
    <3> QED BY <3>1 DEF Step, StepSet
  <2> HIDE DEF StepSet
  <2> QED BY <2>1
<1>3. /\ b \in Seq(StepSet) /\ Len(b) = 2 /\ b[1] = Step("stack", <<"env">>)
      /\ b[2] = Step("addrs", <<"stack", "env">>)
  <2>1. Step("stack", <<"env">>) \in StepSet /\ Step("addrs", <<"stack", "env">>) \in StepSet
    <3>1. /\ <<"env">> \in Seq(Resources) /\ <<"stack", "env">> \in Seq(Resources)
          /\ "stack" \in Resources /\ "addrs" \in Resources
      BY DEF Resources
    <3> HIDE DEF Resources
    <3> QED BY <3>1 DEF Step, StepSet
  <2> QED BY <2>1 DEF StackSteps
<1>4. XdpSteps \in Seq(StepSet) /\ Len(XdpSteps) = 14 /\ EthSteps \in Seq(StepSet) /\ Len(EthSteps) = 6
  BY XdpStepsTable, EthStepsTable
<1>5. Steps = f
  BY DEF Steps
<1> HIDE DEF a, b
<1>6. /\ d \in Seq(StepSet) /\ Len(d) = 3
      /\ \A i \in 1 .. 1 : d[i] = a[i]
      /\ \A i \in 1 .. 2 : d[1 + i] = b[i]
  <2>1. a \in Seq(StepSet) /\ b \in Seq(StepSet)
    BY <1>2, <1>3
  <2>2. /\ d \in Seq(StepSet) /\ Len(d) = Len(a) + Len(b)
        /\ \A i \in 1 .. Len(a) : d[i] = a[i]
        /\ \A i \in 1 .. Len(b) : d[Len(a) + i] = b[i]
    BY <2>1, Together
  <2>3. Len(a) = 1 /\ Len(b) = 2
    BY <1>2, <1>3
  <2> HIDE DEF d
  <2> QED BY <2>2, <2>3
<1> HIDE DEF d
<1>7. /\ e \in Seq(StepSet) /\ Len(e) = 17
      /\ \A i \in 1 .. 3 : e[i] = d[i]
      /\ \A i \in 1 .. 14 : e[3 + i] = XdpSteps[i]
  <2>1. d \in Seq(StepSet) /\ XdpSteps \in Seq(StepSet)
    BY <1>4, <1>6
  <2>2. /\ e \in Seq(StepSet) /\ Len(e) = Len(d) + Len(XdpSteps)
        /\ \A i \in 1 .. Len(d) : e[i] = d[i]
        /\ \A i \in 1 .. Len(XdpSteps) : e[Len(d) + i] = XdpSteps[i]
    BY <2>1, Together
  <2>3. Len(d) = 3 /\ Len(XdpSteps) = 14
    BY <1>4, <1>6
  <2> HIDE DEF e
  <2> QED BY <2>2, <2>3
<1> HIDE DEF e
<1>8. /\ f \in Seq(StepSet) /\ Len(f) = 23
      /\ \A i \in 1 .. 17 : f[i] = e[i]
      /\ \A i \in 1 .. 6 : f[17 + i] = EthSteps[i]
  <2>1. e \in Seq(StepSet) /\ EthSteps \in Seq(StepSet)
    BY <1>4, <1>7
  <2>2. /\ f \in Seq(StepSet) /\ Len(f) = Len(e) + Len(EthSteps)
        /\ \A i \in 1 .. Len(e) : f[i] = e[i]
        /\ \A i \in 1 .. Len(EthSteps) : f[Len(e) + i] = EthSteps[i]
    BY <2>1, Together
  <2>3. Len(e) = 17 /\ Len(EthSteps) = 6
    BY <1>4, <1>7
  <2> HIDE DEF f
  <2> QED BY <2>2, <2>3
<1> HIDE DEF f
<1>9. /\ f[1] = Step("env", << >>) /\ f[2] = Step("stack", <<"env">>)
      /\ f[3] = Step("addrs", <<"stack", "env">>)
  <2>1. d[1] = a[1] /\ d[2] = b[1] /\ d[3] = b[2]
    BY <1>6
  <2>2. f[1] = e[1] /\ f[2] = e[2] /\ f[3] = e[3] /\ e[1] = d[1] /\ e[2] = d[2] /\ e[3] = d[3]
    BY <1>7, <1>8
  <2> QED BY <1>2, <1>3, <2>1, <2>2
<1>10. \A i \in 1 .. 14 : f[3 + i] = XdpSteps[i]
  <2>1. \A i \in 1 .. 14 : 3 + i \in 1 .. 17
    OBVIOUS
  <2> QED BY <1>7, <1>8, <2>1
<1>11. /\ f[4] = XdpSteps[1] /\ f[5] = XdpSteps[2] /\ f[6] = XdpSteps[3]
       /\ f[13] = XdpSteps[10] /\ f[14] = XdpSteps[11] /\ f[15] = XdpSteps[12]
       /\ f[16] = XdpSteps[13] /\ f[17] = XdpSteps[14]
  BY <1>10
<1>12. \A i \in 7 .. 12 : f[i] = Step(NULL, XdpUndo(5))
  <2>1. \A i \in 7 .. 12 : i - 3 \in 1 .. 14 /\ 3 + (i - 3) = i /\ i - 6 \in 1 .. 6 /\ 3 + (i - 6) = i - 3
    OBVIOUS
  <2>2. \A i \in 7 .. 12 : f[i] = XdpSteps[i - 3]
    BY <1>10, <2>1
  <2>3. \A i \in 7 .. 12 : XdpSteps[i - 3] = Step(NULL, XdpUndo(5))
    BY <2>1, XdpStepsTable
  <2> QED BY <2>2, <2>3
<1>13. f[18] = EthSteps[1] /\ f[19] = EthSteps[2]
  BY <1>8
<1>14. \A i \in 20 .. 23 : f[i] = Step(NULL, EthClose(TRUE) \o EnvLabels)
  <2>1. \A i \in 20 .. 23 : i - 17 \in 1 .. 6 /\ 17 + (i - 17) = i /\ i - 19 \in 1 .. 4 /\ 2 + (i - 19) = i - 17
    OBVIOUS
  <2>2. \A i \in 20 .. 23 : f[i] = EthSteps[i - 17]
    BY <1>8, <2>1
  <2>3. \A i \in 20 .. 23 : EthSteps[i - 17] = Step(NULL, EthClose(TRUE) \o EnvLabels)
    BY <2>1, EthStepsTable
  <2> QED BY <2>2, <2>3
<1>15. /\ IsSuffix(XdpUndo(1), XdpOrder, 1) /\ IsSuffix(XdpUndo(2), XdpOrder, 2)
       /\ IsSuffix(XdpUndo(3), XdpOrder, 3) /\ IsSuffix(XdpUndo(4), XdpOrder, 4)
       /\ IsSuffix(XdpUndo(5), XdpOrder, 5) /\ IsSuffix(XdpUndo(6), XdpOrder, 6)
       /\ IsSuffix(XdpUndo(7), XdpOrder, 7)
  BY XdpUndoSuffix
<1>16. XdpBind = 17 /\ EthIndex = 20
  BY <1>3, <1>4 DEF XdpBind, EthIndex, b
<1>17. Len(StackSteps) = 2
  BY <1>3 DEF b
<1>18. /\ f[1].gets = "env" /\ IsSuffix(f[1].undo, XdpOrder, 10)
       /\ f[2].gets = "stack" /\ IsSuffix(f[2].undo, XdpOrder, 9)
       /\ f[3].gets = "addrs" /\ IsSuffix(f[3].undo, XdpOrder, 8)
  BY <1>1, <1>9, OtherSuffixes
<1>19. /\ f[4].gets = "xdp" /\ IsSuffix(f[4].undo, XdpOrder, 7)
       /\ f[5].gets = "fd" /\ IsSuffix(f[5].undo, XdpOrder, 7)
       /\ f[6].gets = "umem" /\ IsSuffix(f[6].undo, XdpOrder, 6)
       /\ f[13].gets = "rx_ring_mmap" /\ IsSuffix(f[13].undo, XdpOrder, 4)
       /\ f[14].gets = "tx_ring_mmap" /\ IsSuffix(f[14].undo, XdpOrder, 3)
  BY <1>1, <1>11, <1>15, XdpStepsTable
<1>20. /\ f[15].gets = "fill_ring_mmap" /\ IsSuffix(f[15].undo, XdpOrder, 2)
       /\ f[16].gets = "completion_ring_mmap" /\ IsSuffix(f[16].undo, XdpOrder, 1)
       /\ f[17].gets = NULL /\ IsSuffix(f[17].undo, XdpOrder, 1)
  BY <1>1, <1>11, <1>15, XdpStepsTable
<1>21. /\ f[18].gets = "eth" /\ IsSuffix(f[18].undo, EthOrder, 3)
       /\ f[19].gets = "eth_fd" /\ IsSuffix(f[19].undo, EthOrder, 2)
  <2> DEFINE u == EthClose(FALSE) \o EnvLabels
  <2>1. f[18] = Step("eth", EnvLabels) /\ f[19] = Step("eth_fd", u)
    BY <1>13, EthStepsTable
  <2>2. IsSuffix(EnvLabels, EthOrder, 3) /\ IsSuffix(u, EthOrder, 2)
    BY OtherSuffixes
  <2> HIDE DEF u
  <2> QED BY <1>1, <2>1, <2>2
<1>22. \A i \in 7 .. 12 : f[i].gets = NULL /\ IsSuffix(f[i].undo, XdpOrder, 5)
  BY <1>1, <1>12, <1>15
<1>23. \A i \in 20 .. 23 : f[i].gets = NULL /\ IsSuffix(f[i].undo, EthOrder, 1)
  <2> DEFINE u == EthClose(TRUE) \o EnvLabels
  <2>1. \A i \in 20 .. 23 : f[i] = Step(NULL, u)
    BY <1>14
  <2>2. IsSuffix(u, EthOrder, 1)
    BY OtherSuffixes
  <2> HIDE DEF u
  <2> QED BY <1>1, <2>1, <2>2
<1> QED BY <1>4, <1>5, <1>8, <1>16, <1>17, <1>18, <1>19, <1>20, <1>21, <1>22, <1>23

\* What one more step acquires.
LEMMA GotNext ==
  ASSUME NEW k \in 1 .. 23
  PROVE  Got(k) = Got(k - 1) \union ({Steps[k].gets} \ {NULL})
<1>1. 1 .. k = (1 .. k - 1) \union {k}
  OBVIOUS
<1> QED BY <1>1 DEF Got

\* What is acquired up to each step.
LEMMA GotTable ==
  /\ Got(0) = {} /\ Got(1) = {"env"} /\ Got(2) = {"env", "stack"}
  /\ Got(3) = {"env", "stack", "addrs"} /\ Got(4) = Got(3) \union {"xdp"}
  /\ Got(5) = Got(3) \union {"xdp", "fd"}
  /\ \A a \in 6 .. 12 : Got(a) = Got(3) \union {"xdp", "fd", "umem"}
  /\ Got(13) = Got(6) \union {"rx_ring_mmap"} /\ Got(14) = Got(6) \union {"rx_ring_mmap", "tx_ring_mmap"}
  /\ Got(15) = Got(6) \union {"rx_ring_mmap", "tx_ring_mmap", "fill_ring_mmap"}
  /\ Got(16) = Got(6) \union {"rx_ring_mmap", "tx_ring_mmap", "fill_ring_mmap", "completion_ring_mmap"}
  /\ Got(17) = Got(16) /\ Got(18) = Got(16) \union {"eth"}
  /\ \A a \in 19 .. 23 : Got(a) = Got(16) \union {"eth", "eth_fd"}
<1>1. /\ NULL # "env" /\ NULL # "stack" /\ NULL # "addrs" /\ NULL # "xdp" /\ NULL # "fd"
      /\ NULL # "umem" /\ NULL # "rx_ring_mmap" /\ NULL # "tx_ring_mmap"
      /\ NULL # "fill_ring_mmap" /\ NULL # "completion_ring_mmap" /\ NULL # "eth" /\ NULL # "eth_fd"
  BY NullAssumption DEF Resources
<1>2. Got(0) = {}
  BY DEF Got
<1>3. \A k \in 1 .. 23 : Got(k) = Got(k - 1) \union ({Steps[k].gets} \ {NULL})
  BY GotNext
<1>4. \A k \in 1 .. 23 : Steps[k].gets = NULL => Got(k) = Got(k - 1)
  BY <1>3
<1>5. \A k \in 1 .. 23 : Steps[k].gets # NULL => Got(k) = Got(k - 1) \union {Steps[k].gets}
  BY <1>3
<1>6. Got(1) = Got(0) \union {"env"} /\ Got(2) = Got(1) \union {"stack"} /\ Got(3) = Got(2) \union {"addrs"}
  BY <1>1, <1>5, StepsTable, SMTT(30)
<1>7. Got(4) = Got(3) \union {"xdp"} /\ Got(5) = Got(4) \union {"fd"} /\ Got(6) = Got(5) \union {"umem"}
  BY <1>1, <1>5, StepsTable, SMTT(30)
<1>8. /\ Got(7) = Got(6) /\ Got(8) = Got(7) /\ Got(9) = Got(8) /\ Got(10) = Got(9)
      /\ Got(11) = Got(10) /\ Got(12) = Got(11) /\ Got(17) = Got(16)
  BY <1>4, StepsTable
<1>9. /\ Got(13) = Got(12) \union {"rx_ring_mmap"} /\ Got(14) = Got(13) \union {"tx_ring_mmap"}
      /\ Got(15) = Got(14) \union {"fill_ring_mmap"} /\ Got(16) = Got(15) \union {"completion_ring_mmap"}
  BY <1>1, <1>5, StepsTable
<1>10. Got(18) = Got(17) \union {"eth"} /\ Got(19) = Got(18) \union {"eth_fd"}
  BY <1>1, <1>5, StepsTable, SMTT(30)
<1>11. Got(20) = Got(19) /\ Got(21) = Got(20) /\ Got(22) = Got(21) /\ Got(23) = Got(22)
  BY <1>4, StepsTable
<1>12. \A a \in 6 .. 12 : Got(a) = Got(6)
  <2>1. \A a \in 6 .. 12 : a = 6 \/ a = 7 \/ a = 8 \/ a = 9 \/ a = 10 \/ a = 11 \/ a = 12
    OBVIOUS
  <2> QED BY <1>8, <2>1, Zenon
<1>13. \A a \in 19 .. 23 : Got(a) = Got(19)
  <2>1. \A a \in 19 .. 23 : a = 19 \/ a = 20 \/ a = 21 \/ a = 22 \/ a = 23
    OBVIOUS
  <2> QED BY <1>11, <2>1, Zenon
<1>14. Got(13) = Got(6) \union {"rx_ring_mmap"}
  BY <1>8, <1>9
<1> QED BY <1>2, <1>6, <1>7, <1>8, <1>9, <1>10, <1>12, <1>13, <1>14

\* The labels from the mth on.
Rest(q, m) == {q[l] : l \in m .. Len(q)}

\* What the failure of step a leaves acquired.
Leak(a) == (IF a > 3 THEN {"addrs"} ELSE {}) \union (IF a > 17 THEN XdpResources ELSE {})

\* Step a jumps to the mth label of q: the first thing given back is held or
\* is what the step itself should have acquired, the others are held.
ErrorPath(a, q, m) ==
  /\ m \in 1 .. Len(q) + 1 /\ IsSuffix(Steps[a].undo, q, m)
  /\ Rest(q, m + 1) \subseteq Got(a - 1)
  /\ m <= Len(q) => q[m] \in Got(a - 1) \union {Steps[a].gets}
  /\ Got(a - 1) \ Rest(q, m) = Leak(a)

\* The labels and what follows each.
LEMMA OrderTable ==
  /\ Len(XdpOrder) = 9 /\ XdpOrder[1] = "completion_ring_mmap" /\ XdpOrder[2] = "fill_ring_mmap"
  /\ XdpOrder[3] = "tx_ring_mmap" /\ XdpOrder[4] = "rx_ring_mmap" /\ XdpOrder[5] = "umem"
  /\ XdpOrder[6] = "fd" /\ XdpOrder[7] = "xdp" /\ XdpOrder[8] = "stack" /\ XdpOrder[9] = "env"
  /\ Len(EthOrder) = 4 /\ EthOrder[1] = "eth_fd" /\ EthOrder[2] = "eth"
  /\ EthOrder[3] = "stack" /\ EthOrder[4] = "env"
BY DEF XdpOrder, EthOrder

\* The same, as sets.
LEMMA RestTable ==
  /\ Rest(XdpOrder, 11) = {} /\ Rest(XdpOrder, 10) = {} /\ Rest(XdpOrder, 9) = {"env"}
  /\ Rest(XdpOrder, 8) = {"stack", "env"} /\ Rest(XdpOrder, 7) = {"xdp", "stack", "env"}
  /\ Rest(XdpOrder, 6) = {"fd", "xdp", "stack", "env"}
  /\ Rest(XdpOrder, 5) = {"umem", "fd", "xdp", "stack", "env"}
  /\ Rest(XdpOrder, 4) = Rest(XdpOrder, 5) \union {"rx_ring_mmap"}
  /\ Rest(XdpOrder, 3) = Rest(XdpOrder, 5) \union {"rx_ring_mmap", "tx_ring_mmap"}
  /\ Rest(XdpOrder, 2) = Rest(XdpOrder, 5) \union {"rx_ring_mmap", "tx_ring_mmap", "fill_ring_mmap"}
  /\ Rest(XdpOrder, 1) = Rest(XdpOrder, 2) \union {"completion_ring_mmap"}
  /\ Rest(EthOrder, 4) = {"env"} /\ Rest(EthOrder, 3) = {"stack", "env"}
  /\ Rest(EthOrder, 2) = {"eth", "stack", "env"} /\ Rest(EthOrder, 1) = {"eth_fd", "eth", "stack", "env"}
<1>1. ASSUME NEW q, NEW k \in Nat, Len(q) = k, NEW m \in 1 .. k
      PROVE  Rest(q, m) = {q[m]} \union Rest(q, m + 1)
  <2>1. m .. k = {m} \union (m + 1 .. k)
    OBVIOUS
  <2> QED BY <1>1, <2>1 DEF Rest
<1>2. Rest(XdpOrder, 11) = {} /\ Rest(XdpOrder, 10) = {} /\ Rest(EthOrder, 5) = {}
  BY OrderTable DEF Rest
<1>3. \A m \in 1 .. 9 : Rest(XdpOrder, m) = {XdpOrder[m]} \union Rest(XdpOrder, m + 1)
  BY <1>1, OrderTable
<1>4. \A m \in 1 .. 4 : Rest(EthOrder, m) = {EthOrder[m]} \union Rest(EthOrder, m + 1)
  BY <1>1, OrderTable
<1>5. /\ Rest(XdpOrder, 9) = {XdpOrder[9]} \union Rest(XdpOrder, 10)
      /\ Rest(XdpOrder, 8) = {XdpOrder[8]} \union Rest(XdpOrder, 9)
      /\ Rest(XdpOrder, 7) = {XdpOrder[7]} \union Rest(XdpOrder, 8)
      /\ Rest(XdpOrder, 6) = {XdpOrder[6]} \union Rest(XdpOrder, 7)
      /\ Rest(XdpOrder, 5) = {XdpOrder[5]} \union Rest(XdpOrder, 6)
      /\ Rest(XdpOrder, 4) = {XdpOrder[4]} \union Rest(XdpOrder, 5)
      /\ Rest(XdpOrder, 3) = {XdpOrder[3]} \union Rest(XdpOrder, 4)
      /\ Rest(XdpOrder, 2) = {XdpOrder[2]} \union Rest(XdpOrder, 3)
      /\ Rest(XdpOrder, 1) = {XdpOrder[1]} \union Rest(XdpOrder, 2)
  BY <1>3
<1>6. /\ Rest(EthOrder, 4) = {EthOrder[4]} \union Rest(EthOrder, 5)
      /\ Rest(EthOrder, 3) = {EthOrder[3]} \union Rest(EthOrder, 4)
      /\ Rest(EthOrder, 2) = {EthOrder[2]} \union Rest(EthOrder, 3)
      /\ Rest(EthOrder, 1) = {EthOrder[1]} \union Rest(EthOrder, 2)
  BY <1>4
<1>7. /\ Rest(XdpOrder, 9) = {"env"}
      /\ Rest(XdpOrder, 8) = {"stack", "env"} /\ Rest(XdpOrder, 7) = {"xdp", "stack", "env"}
      /\ Rest(XdpOrder, 6) = {"fd", "xdp", "stack", "env"}
      /\ Rest(XdpOrder, 5) = {"umem", "fd", "xdp", "stack", "env"}
  BY <1>2, <1>5, OrderTable
<1>8. /\ Rest(XdpOrder, 4) = Rest(XdpOrder, 5) \union {"rx_ring_mmap"}
      /\ Rest(XdpOrder, 3) = Rest(XdpOrder, 5) \union {"rx_ring_mmap", "tx_ring_mmap"}
      /\ Rest(XdpOrder, 2) = Rest(XdpOrder, 5) \union {"rx_ring_mmap", "tx_ring_mmap", "fill_ring_mmap"}
      /\ Rest(XdpOrder, 1) = Rest(XdpOrder, 2) \union {"completion_ring_mmap"}
  BY <1>5, OrderTable
<1>9. /\ Rest(EthOrder, 4) = {"env"} /\ Rest(EthOrder, 3) = {"stack", "env"}
      /\ Rest(EthOrder, 2) = {"eth", "stack", "env"} /\ Rest(EthOrder, 1) = {"eth_fd", "eth", "stack", "env"}
  BY <1>2, <1>6, OrderTable
<1> QED BY <1>2, <1>7, <1>8, <1>9

\* Every step has such an error path.
LEMMA ErrorPaths ==
  ASSUME NEW a \in 1 .. 23
  PROVE  \E q \in {XdpOrder, EthOrder} : \E m \in Nat : ErrorPath(a, q, m)
<1>1. XdpResources = {"completion_ring_mmap", "fill_ring_mmap", "tx_ring_mmap", "rx_ring_mmap",
                      "umem", "fd", "xdp"}
  <2>1. /\ DOMAIN XdpLabels = {1, 2, 3, 4, 5, 6, 7}
        /\ XdpLabels[1] = "completion_ring_mmap" /\ XdpLabels[2] = "fill_ring_mmap"
        /\ XdpLabels[3] = "tx_ring_mmap" /\ XdpLabels[4] = "rx_ring_mmap"
        /\ XdpLabels[5] = "umem" /\ XdpLabels[6] = "fd" /\ XdpLabels[7] = "xdp"
    BY DEF XdpLabels
  <2>2. XdpResources = {XdpLabels[i] : i \in {1, 2, 3, 4, 5, 6, 7}}
    BY <2>1 DEF XdpResources
  <2> HIDE DEF XdpResources
  <2>3. XdpResources = {XdpLabels[1], XdpLabels[2], XdpLabels[3], XdpLabels[4], XdpLabels[5],
                        XdpLabels[6], XdpLabels[7]}
    BY <2>2
  <2> QED BY <2>1, <2>3
<1>2. CASE a = 1
  <2>1. IsSuffix(Steps[a].undo, XdpOrder, 10)
    BY <1>2, StepsTable
  <2>2. Leak(a) = {}
    BY <1>2 DEF Leak
  <2>3. Rest(XdpOrder, 11) \subseteq Got(a - 1) /\ Got(a - 1) \ Rest(XdpOrder, 10) = Leak(a)
    BY <1>1, <1>2, <2>2, GotTable, RestTable
  <2>4. 10 <= Len(XdpOrder) => XdpOrder[10] \in Got(a - 1) \union {Steps[a].gets}
    BY <1>2, GotTable, OrderTable, StepsTable
  <2>5. 10 \in 1 .. Len(XdpOrder) + 1 /\ 10 + 1 = 11
    BY OrderTable
  <2>6. ErrorPath(a, XdpOrder, 10)
    BY <2>1, <2>3, <2>4, <2>5 DEF ErrorPath
  <2> QED BY <2>6
<1>3. CASE a = 2
  <2>1. IsSuffix(Steps[a].undo, XdpOrder, 9)
    BY <1>3, StepsTable
  <2>2. Leak(a) = {}
    BY <1>3 DEF Leak
  <2>3. Rest(XdpOrder, 10) \subseteq Got(a - 1) /\ Got(a - 1) \ Rest(XdpOrder, 9) = Leak(a)
    BY <1>1, <1>3, <2>2, GotTable, RestTable
  <2>4. 9 <= Len(XdpOrder) => XdpOrder[9] \in Got(a - 1) \union {Steps[a].gets}
    BY <1>3, GotTable, OrderTable, StepsTable
  <2>5. 9 \in 1 .. Len(XdpOrder) + 1 /\ 9 + 1 = 10
    BY OrderTable
  <2>6. ErrorPath(a, XdpOrder, 9)
    BY <2>1, <2>3, <2>4, <2>5 DEF ErrorPath
  <2> QED BY <2>6
<1>4. CASE a = 3
  <2>1. IsSuffix(Steps[a].undo, XdpOrder, 8)
    BY <1>4, StepsTable
  <2>2. Leak(a) = {}
    BY <1>4 DEF Leak
  <2>3. Rest(XdpOrder, 9) \subseteq Got(a - 1) /\ Got(a - 1) \ Rest(XdpOrder, 8) = Leak(a)
    BY <1>1, <1>4, <2>2, GotTable, RestTable
  <2>4. 8 <= Len(XdpOrder) => XdpOrder[8] \in Got(a - 1) \union {Steps[a].gets}
    BY <1>4, GotTable, OrderTable, StepsTable
  <2>5. 8 \in 1 .. Len(XdpOrder) + 1 /\ 8 + 1 = 9
    BY OrderTable
  <2>6. ErrorPath(a, XdpOrder, 8)
    BY <2>1, <2>3, <2>4, <2>5 DEF ErrorPath
  <2> QED BY <2>6
<1>5. CASE a = 4
  <2>1. IsSuffix(Steps[a].undo, XdpOrder, 7)
    BY <1>5, StepsTable
  <2>2. Leak(a) = {"addrs"}
    BY <1>5 DEF Leak
  <2>3. Rest(XdpOrder, 8) \subseteq Got(a - 1) /\ Got(a - 1) \ Rest(XdpOrder, 7) = Leak(a)
    BY <1>1, <1>5, <2>2, GotTable, RestTable
  <2>4. 7 <= Len(XdpOrder) => XdpOrder[7] \in Got(a - 1) \union {Steps[a].gets}
    BY <1>5, GotTable, OrderTable, StepsTable
  <2>5. 7 \in 1 .. Len(XdpOrder) + 1 /\ 7 + 1 = 8
    BY OrderTable
  <2>6. ErrorPath(a, XdpOrder, 7)
    BY <2>1, <2>3, <2>4, <2>5 DEF ErrorPath
  <2> QED BY <2>6
<1>6. CASE a = 5
  <2>1. IsSuffix(Steps[a].undo, XdpOrder, 7)
    BY <1>6, StepsTable
  <2>2. Leak(a) = {"addrs"}
    BY <1>6 DEF Leak
  <2>3. Rest(XdpOrder, 8) \subseteq Got(a - 1) /\ Got(a - 1) \ Rest(XdpOrder, 7) = Leak(a)
    BY <1>1, <1>6, <2>2, GotTable, RestTable
  <2>4. 7 <= Len(XdpOrder) => XdpOrder[7] \in Got(a - 1) \union {Steps[a].gets}
    BY <1>6, GotTable, OrderTable, StepsTable
  <2>5. 7 \in 1 .. Len(XdpOrder) + 1 /\ 7 + 1 = 8
    BY OrderTable
  <2>6. ErrorPath(a, XdpOrder, 7)
    BY <2>1, <2>3, <2>4, <2>5 DEF ErrorPath
  <2> QED BY <2>6
<1>7. CASE a = 6
  <2>1. IsSuffix(Steps[a].undo, XdpOrder, 6)
    BY <1>7, StepsTable
  <2>2. Leak(a) = {"addrs"}
    BY <1>7 DEF Leak
  <2>3. Rest(XdpOrder, 7) \subseteq Got(a - 1) /\ Got(a - 1) \ Rest(XdpOrder, 6) = Leak(a)
    BY <1>1, <1>7, <2>2, GotTable, RestTable
  <2>4. 6 <= Len(XdpOrder) => XdpOrder[6] \in Got(a - 1) \union {Steps[a].gets}
    BY <1>7, GotTable, OrderTable, StepsTable
  <2>5. 6 \in 1 .. Len(XdpOrder) + 1 /\ 6 + 1 = 7
    BY OrderTable
  <2>6. ErrorPath(a, XdpOrder, 6)
    BY <2>1, <2>3, <2>4, <2>5 DEF ErrorPath
  <2> QED BY <2>6
<1>8. CASE a \in 7 .. 12
  <2>1. IsSuffix(Steps[a].undo, XdpOrder, 5)
    BY <1>8, StepsTable
  <2>2. Leak(a) = {"addrs"}
    BY <1>8 DEF Leak
  <2>3. Rest(XdpOrder, 6) \subseteq Got(a - 1) /\ Got(a - 1) \ Rest(XdpOrder, 5) = Leak(a)
    BY <1>1, <1>8, <2>2, GotTable, RestTable
  <2>4. 5 <= Len(XdpOrder) => XdpOrder[5] \in Got(a - 1) \union {Steps[a].gets}
    BY <1>8, GotTable, OrderTable, StepsTable, SMTT(30)
  <2>5. 5 \in 1 .. Len(XdpOrder) + 1 /\ 5 + 1 = 6
    BY OrderTable
  <2>6. ErrorPath(a, XdpOrder, 5)
    BY <2>1, <2>3, <2>4, <2>5 DEF ErrorPath
  <2> QED BY <2>6
<1>9. CASE a = 13
  <2>1. IsSuffix(Steps[a].undo, XdpOrder, 4)
    BY <1>9, StepsTable
  <2>2. Leak(a) = {"addrs"}
    BY <1>9 DEF Leak
  <2>3. Rest(XdpOrder, 5) \subseteq Got(a - 1) /\ Got(a - 1) \ Rest(XdpOrder, 4) = Leak(a)
    BY <1>1, <1>9, <2>2, GotTable, RestTable
  <2>4. 4 <= Len(XdpOrder) => XdpOrder[4] \in Got(a - 1) \union {Steps[a].gets}
    BY <1>9, GotTable, OrderTable, StepsTable
  <2>5. 4 \in 1 .. Len(XdpOrder) + 1 /\ 4 + 1 = 5
    BY OrderTable
  <2>6. ErrorPath(a, XdpOrder, 4)
    BY <2>1, <2>3, <2>4, <2>5 DEF ErrorPath
  <2> QED BY <2>6
<1>10. CASE a = 14
  <2>1. IsSuffix(Steps[a].undo, XdpOrder, 3)
    BY <1>10, StepsTable
  <2>2. Leak(a) = {"addrs"}
    BY <1>10 DEF Leak
  <2>3. Rest(XdpOrder, 4) \subseteq Got(a - 1) /\ Got(a - 1) \ Rest(XdpOrder, 3) = Leak(a)
    BY <1>1, <1>10, <2>2, GotTable, RestTable
  <2>4. 3 <= Len(XdpOrder) => XdpOrder[3] \in Got(a - 1) \union {Steps[a].gets}
    BY <1>10, GotTable, OrderTable, StepsTable
  <2>5. 3 \in 1 .. Len(XdpOrder) + 1 /\ 3 + 1 = 4
    BY OrderTable
  <2>6. ErrorPath(a, XdpOrder, 3)
    BY <2>1, <2>3, <2>4, <2>5 DEF ErrorPath
  <2> QED BY <2>6
<1>11. CASE a = 15
  <2>1. IsSuffix(Steps[a].undo, XdpOrder, 2)
    BY <1>11, StepsTable
  <2>2. Leak(a) = {"addrs"}
    BY <1>11 DEF Leak
  <2>3. Rest(XdpOrder, 3) \subseteq Got(a - 1) /\ Got(a - 1) \ Rest(XdpOrder, 2) = Leak(a)
    BY <1>1, <1>11, <2>2, GotTable, RestTable
  <2>4. 2 <= Len(XdpOrder) => XdpOrder[2] \in Got(a - 1) \union {Steps[a].gets}
    BY <1>11, GotTable, OrderTable, StepsTable
  <2>5. 2 \in 1 .. Len(XdpOrder) + 1 /\ 2 + 1 = 3
    BY OrderTable
  <2>6. ErrorPath(a, XdpOrder, 2)
    BY <2>1, <2>3, <2>4, <2>5 DEF ErrorPath
  <2> QED BY <2>6
<1>12. CASE a = 16
  <2>1. IsSuffix(Steps[a].undo, XdpOrder, 1)
    BY <1>12, StepsTable
  <2>2. Leak(a) = {"addrs"}
    BY <1>12 DEF Leak
  <2>3. Rest(XdpOrder, 2) \subseteq Got(a - 1) /\ Got(a - 1) \ Rest(XdpOrder, 1) = Leak(a)
    BY <1>1, <1>12, <2>2, GotTable, RestTable
  <2>4. 1 <= Len(XdpOrder) => XdpOrder[1] \in Got(a - 1) \union {Steps[a].gets}
    BY <1>12, GotTable, OrderTable, StepsTable
  <2>5. 1 \in 1 .. Len(XdpOrder) + 1 /\ 1 + 1 = 2
    BY OrderTable
  <2>6. ErrorPath(a, XdpOrder, 1)
    BY <2>1, <2>3, <2>4, <2>5 DEF ErrorPath
  <2> QED BY <2>6
<1>13. CASE a = 17
  <2>1. IsSuffix(Steps[a].undo, XdpOrder, 1)
    BY <1>13, StepsTable
  <2>2. Leak(a) = {"addrs"}
    BY <1>13 DEF Leak
  <2>3. Rest(XdpOrder, 2) \subseteq Got(a - 1) /\ Got(a - 1) \ Rest(XdpOrder, 1) = Leak(a)
    BY <1>1, <1>13, <2>2, GotTable, RestTable
  <2>4. 1 <= Len(XdpOrder) => XdpOrder[1] \in Got(a - 1) \union {Steps[a].gets}
    BY <1>13, GotTable, OrderTable, StepsTable
  <2>5. 1 \in 1 .. Len(XdpOrder) + 1 /\ 1 + 1 = 2
    BY OrderTable
  <2>6. ErrorPath(a, XdpOrder, 1)
    BY <2>1, <2>3, <2>4, <2>5 DEF ErrorPath
  <2> QED BY <2>6
<1>14. CASE a = 18
  <2>1. IsSuffix(Steps[a].undo, EthOrder, 3)
    BY <1>14, StepsTable
  <2>2. Leak(a) = {"addrs"} \union XdpResources
    BY <1>14 DEF Leak
  <2>3. Rest(EthOrder, 4) \subseteq Got(a - 1) /\ Got(a - 1) \ Rest(EthOrder, 3) = Leak(a)
    BY <1>1, <1>14, <2>2, GotTable, RestTable
  <2>4. 3 <= Len(EthOrder) => EthOrder[3] \in Got(a - 1) \union {Steps[a].gets}
    BY <1>14, GotTable, OrderTable, StepsTable
  <2>5. 3 \in 1 .. Len(EthOrder) + 1 /\ 3 + 1 = 4
    BY OrderTable
  <2>6. ErrorPath(a, EthOrder, 3)
    BY <2>1, <2>3, <2>4, <2>5 DEF ErrorPath
  <2> QED BY <2>6
<1>15. CASE a = 19
  <2>1. IsSuffix(Steps[a].undo, EthOrder, 2)
    BY <1>15, StepsTable
  <2>2. Leak(a) = {"addrs"} \union XdpResources
    BY <1>15 DEF Leak
  <2>3. Rest(EthOrder, 3) \subseteq Got(a - 1) /\ Got(a - 1) \ Rest(EthOrder, 2) = Leak(a)
    BY <1>1, <1>15, <2>2, GotTable, RestTable
  <2>4. 2 <= Len(EthOrder) => EthOrder[2] \in Got(a - 1) \union {Steps[a].gets}
    BY <1>15, GotTable, OrderTable, StepsTable
  <2>5. 2 \in 1 .. Len(EthOrder) + 1 /\ 2 + 1 = 3
    BY OrderTable
  <2>6. ErrorPath(a, EthOrder, 2)
    BY <2>1, <2>3, <2>4, <2>5 DEF ErrorPath
  <2> QED BY <2>6
<1>16. CASE a \in 20 .. 23
  <2>1. IsSuffix(Steps[a].undo, EthOrder, 1)
    BY <1>16, StepsTable
  <2>2. Leak(a) = {"addrs"} \union XdpResources
    BY <1>16 DEF Leak
  <2>3. Rest(EthOrder, 2) \subseteq Got(a - 1) /\ Got(a - 1) \ Rest(EthOrder, 1) = Leak(a)
    BY <1>1, <1>16, <2>2, GotTable, RestTable
  <2>4. 1 <= Len(EthOrder) => EthOrder[1] \in Got(a - 1) \union {Steps[a].gets}
    BY <1>16, GotTable, OrderTable, StepsTable, SMTT(30)
  <2>5. 1 \in 1 .. Len(EthOrder) + 1 /\ 1 + 1 = 2
    BY OrderTable
  <2>6. ErrorPath(a, EthOrder, 1)
    BY <2>1, <2>3, <2>4, <2>5 DEF ErrorPath
  <2> QED BY <2>6
<1> QED BY <1>2, <1>3, <1>4, <1>5, <1>6, <1>7, <1>8, <1>9, <1>10, <1>11, <1>12, <1>13, <1>14, <1>15, <1>16

\* The labels of an order are different, and the structure a resource is read
\* from comes later.
LEMMA OwnersLast ==
  ASSUME NEW q \in {XdpOrder, EthOrder}
  PROVE  /\ Len(q) \in Nat
         /\ \A i, j \in 1 .. Len(q) : q[i] = q[j] => i = j
         /\ \A j \in 1 .. Len(q) : Owner(q[j]) = NULL \/ \E l \in j + 1 .. Len(q) : Owner(q[j]) = q[l]
<1>1. /\ Owner("env") = NULL /\ Owner("stack") = "env" /\ Owner("xdp") = "env" /\ Owner("eth") = "env"
      /\ Owner("eth_fd") = "eth" /\ Owner("fd") = "xdp" /\ Owner("umem") = "xdp"
      /\ Owner("rx_ring_mmap") = "xdp" /\ Owner("tx_ring_mmap") = "xdp"
      /\ Owner("fill_ring_mmap") = "xdp" /\ Owner("completion_ring_mmap") = "xdp"
  BY DEF Owner
<1>2. CASE q = XdpOrder
  <2>1. \A j \in 1 .. 9 : j = 1 \/ j = 2 \/ j = 3 \/ j = 4 \/ j = 5 \/ j = 6 \/ j = 7 \/ j = 8 \/ j = 9
    OBVIOUS
  <2>2. \A i, j \in 1 .. 9 : XdpOrder[i] = XdpOrder[j] => i = j
    BY <2>1, OrderTable
  <2>3. \A j \in 1 .. 6 : Owner(XdpOrder[j]) = XdpOrder[7] /\ 7 \in j + 1 .. 9
    BY <1>1, <2>1, OrderTable
  <2>4. \A j \in 7 .. 8 : Owner(XdpOrder[j]) = XdpOrder[9] /\ 9 \in j + 1 .. 9
    BY <1>1, OrderTable
  <2>5. Owner(XdpOrder[9]) = NULL
    BY <1>1, OrderTable
  <2>6. \A j \in 1 .. 9 : j \in 1 .. 6 \/ j \in 7 .. 8 \/ j = 9
    OBVIOUS
  <2> QED BY <1>2, <2>2, <2>3, <2>4, <2>5, <2>6, OrderTable
<1>3. CASE q = EthOrder
  <2>1. \A j \in 1 .. 4 : j = 1 \/ j = 2 \/ j = 3 \/ j = 4
    OBVIOUS
  <2>2. \A i, j \in 1 .. 4 : EthOrder[i] = EthOrder[j] => i = j
    BY <2>1, OrderTable
  <2>3. /\ Owner(EthOrder[1]) = EthOrder[2] /\ 2 \in 1 + 1 .. 4
        /\ Owner(EthOrder[2]) = EthOrder[4] /\ 4 \in 2 + 1 .. 4
        /\ Owner(EthOrder[3]) = EthOrder[4] /\ 4 \in 3 + 1 .. 4
        /\ Owner(EthOrder[4]) = NULL
    BY <1>1, OrderTable
  <2> QED BY <1>3, <2>1, <2>2, <2>3, OrderTable
<1> QED BY <1>2, <1>3

\* After k releases the next one is sound.
LEMMA NextRelease ==
  ASSUME NEW a \in 1 .. 23, NEW k \in Nat, k < Len(Steps[a].undo)
  PROVE  LET u == Steps[a].undo
             h == Got(a - 1) \ {u[j] : j \in 1 .. k}
         IN  /\ u[k + 1] \in h \/ u[k + 1] = Steps[a].gets
             /\ Owner(u[k + 1]) \in h \union {NULL}
<1> DEFINE u == Steps[a].undo
           h == Got(a - 1) \ {u[j] : j \in 1 .. k}
<1>1. PICK q \in {XdpOrder, EthOrder} : \E m \in Nat : ErrorPath(a, q, m)
  BY ErrorPaths
<1>2. PICK m \in Nat : ErrorPath(a, q, m)
  BY <1>1
<1>3. /\ Len(q) \in Nat /\ m \in 1 .. Len(q) + 1 /\ Len(u) = Len(q) + 1 - m
      /\ \A j \in 1 .. Len(u) : u[j] = q[m - 1 + j]
  BY <1>2, OwnersLast DEF ErrorPath, IsSuffix
<1>4. /\ \A i, j \in 1 .. Len(q) : q[i] = q[j] => i = j
      /\ \A j \in 1 .. Len(q) : Owner(q[j]) = NULL \/ \E l \in j + 1 .. Len(q) : Owner(q[j]) = q[l]
  BY OwnersLast
<1>5. m + k \in 1 .. Len(q) /\ u[k + 1] = q[m + k] /\ k < Len(u)
  <2>1. k + 1 \in 1 .. Len(u) /\ m - 1 + (k + 1) = m + k
    BY <1>3
  <2> QED BY <1>3, <2>1, SMTT(30)
<1>6. \A l \in m + k .. Len(q) : q[l] \notin {u[j] : j \in 1 .. k}
  <2>1. ASSUME NEW l \in m + k .. Len(q), NEW j \in 1 .. k, q[l] = u[j] PROVE FALSE
    <3>1. u[j] = q[m - 1 + j]
      BY <1>3, <1>5
    <3>2. m - 1 + j \in 1 .. Len(q) /\ l \in 1 .. Len(q) /\ m - 1 + j # l
      BY <1>3, <1>5
    <3> QED BY <1>4, <2>1, <3>1, <3>2
  <2> QED BY <2>1
<1>7. \A l \in m + 1 .. Len(q) : q[l] \in Got(a - 1)
  BY <1>2 DEF ErrorPath, Rest
<1>8. \A l \in m + k .. Len(q) : l # m => q[l] \in h
  <2>1. \A l \in m + k .. Len(q) : l # m => l \in m + 1 .. Len(q)
    BY <1>3
  <2> QED BY <1>6, <1>7, <2>1
<1>9. u[k + 1] \in h \/ u[k + 1] = Steps[a].gets
  <2>1. CASE k = 0
    <3>1. q[m] \in Got(a - 1) \union {Steps[a].gets} /\ m + k = m
      BY <1>2, <1>3, <1>5, <2>1 DEF ErrorPath
    <3>2. m \in m + k .. Len(q)
      BY <1>3, <1>5, <2>1
    <3> QED BY <1>5, <1>6, <3>1, <3>2
  <2>2. CASE k # 0
    <3>1. m + k \in m + k .. Len(q) /\ m + k # m
      BY <1>3, <1>5, <2>2
    <3> QED BY <1>5, <1>8, <3>1
  <2> QED BY <2>1, <2>2
<1>10. Owner(u[k + 1]) \in h \union {NULL}
  <2>1. CASE Owner(q[m + k]) = NULL
    BY <1>5, <2>1
  <2>2. ASSUME NEW l \in m + k + 1 .. Len(q), Owner(q[m + k]) = q[l]
        PROVE  Owner(u[k + 1]) \in h
    <3>1. l \in m + k .. Len(q) /\ l # m
      BY <1>3, <1>5
    <3> QED BY <1>5, <1>8, <2>2, <3>1
  <2> QED BY <1>4, <1>5, <2>1, <2>2
<1> QED BY <1>9, <1>10

\* What is held when the error path is through.
LEMMA ErrorPathLeaves ==
  ASSUME NEW a \in 1 .. 23
  PROVE  LET u == Steps[a].undo
         IN  Got(a - 1) \ {u[j] : j \in 1 .. Len(u)} = Leak(a)
<1> DEFINE u == Steps[a].undo
<1>1. PICK q \in {XdpOrder, EthOrder} : \E m \in Nat : ErrorPath(a, q, m)
  BY ErrorPaths
<1>2. PICK m \in Nat : ErrorPath(a, q, m)
  BY <1>1
<1>3. /\ Len(q) \in Nat /\ m \in 1 .. Len(q) + 1 /\ Len(u) = Len(q) + 1 - m
      /\ \A j \in 1 .. Len(u) : u[j] = q[m - 1 + j]
  BY <1>2, OwnersLast DEF ErrorPath, IsSuffix
<1>4. ASSUME NEW j \in 1 .. Len(u) PROVE u[j] \in Rest(q, m)
  <2>1. m - 1 + j \in m .. Len(q)
    BY <1>3
  <2> QED BY <1>3, <2>1 DEF Rest
<1>5. ASSUME NEW l \in m .. Len(q) PROVE q[l] \in {u[j] : j \in 1 .. Len(u)}
  <2>1. l - m + 1 \in 1 .. Len(u) /\ m - 1 + (l - m + 1) = l
    BY <1>3
  <2> QED BY <1>3, <2>1
<1>6. {u[j] : j \in 1 .. Len(u)} = Rest(q, m)
  BY <1>4, <1>5 DEF Rest
<1>7. Got(a - 1) \ Rest(q, m) = Leak(a)
  BY <1>2 DEF ErrorPath
<1> QED BY <1>6, <1>7

-----------------------------------------------------------------------------
(***************************************************************************)
(* The steps of the threads preserve the invariant                         *)
(***************************************************************************)
\* A thread leaves the links alone.
LEMMA NetUnchanged ==
  ASSUME NetInvariant, UNCHANGED netVars
  PROVE  NetInvariant' /\ \A n : Named(n)' = Named(n)
<1> USE DEF NetInvariant, netVars
<1>1. \A n : Named(n)' = Named(n)
  BY DEF Named, Present
<1>2. LinksTypeOK' /\ ProcsTypeOK'
  BY DEF LinksTypeOK, ProcsTypeOK
<1>3. PairOK'
  BY <1>1 DEF PairOK
<1>4. IndexOK'
  BY SameWrongIndices DEF IndexOK
<1>5. Op(Main)' = Op(Main)
  BY DEF Op, Script
<1>6. MainIndexOK'
  BY <1>5 DEF MainIndexOK, Present
<1>7. AddrsOK'
  BY DEF AddrsOK
<1>8. SecondPassOK'
  <2>1. \A k : Done(MainScript[k])' = Done(MainScript[k])
    BY <1>1 DEF Done
  <2>2. Undisturbed' = Undisturbed
    BY DEF Undisturbed
  <2> QED BY <1>1, <1>5, <2>1, <2>2 DEF SecondPassOK
<1>9. RequestsSound'
  BY DEF RequestsSound, AttributesInside, ForeignLinksIntact, GetLinkLen
<1> QED BY <1>1, <1>2, <1>3, <1>4, <1>6, <1>7, <1>8, <1>9

\* What a caller holds depends on its own variables only.
Same(d) == /\ pc'[d] = pc[d] /\ at'[d] = at[d] /\ todo'[d] = todo[d] /\ held'[d] = held[d]
           /\ assocPtr'[d] = assocPtr[d] /\ ifindex'[d] = ifindex[d]

\* The parts of the invariant about a caller that does not move.
LEMMA CallerUnmoved ==
  ASSUME NEW d, Same(d), CallerOK(d)
  PROVE  /\ HeldOK(d)' /\ AssocOK(d)'
         /\ UNCHANGED netVars => LinkOK(d)'
<1>1. \A k : Undone(d, k)' <=> Undone(d, k)
  BY DEF Undone, Same
<1>2. HeldOK(d)'
  BY <1>1 DEF HeldOK, CallerOK, Same
<1>3. AssocOK(d)'
  BY DEF AssocOK, CallerOK, Same
<1>4. ASSUME UNCHANGED netVars PROVE LinkOK(d)'
  <2>1. \A n : Named(n)' = Named(n)
    BY <1>4 DEF Named, Present, netVars
  <2>2. OwnLink(d)' <=> OwnLink(d)
    BY <1>4 DEF OwnLink, Same, netVars
  <2>3. Iname(d)' = Iname(d) /\ links' = links
    BY <1>4 DEF Iname, netVars
  <2> QED BY <2>1, <2>2, <2>3 DEF LinkOK, CallerOK, Same
<1> QED BY <1>2, <1>3, <1>4

\* What remains to be shown of a step of caller c.
LEMMA OneCallerMoves ==
  ASSUME StartInvariant, NEW c \in Callers, UNCHANGED netVars,
         \A d \in Callers : d # c => Same(d),
         ThreadTypeOK', ThreadOK', HeldOK(c)', AssocOK(c)', LinkOK(c)'
  PROVE  StartInvariant'
<1>1. NetInvariant'
  BY NetUnchanged DEF StartInvariant
<1>2. ASSUME NEW d \in Callers PROVE CallerOK(d)'
  <2>1. CASE d = c
    BY <2>1 DEF CallerOK
  <2>2. CASE d # c
    BY <2>2, CallerUnmoved DEF CallerOK, StartInvariant
  <2> QED BY <2>1, <2>2
<1> QED BY <1>1, <1>2 DEF StartInvariant

\* The requests of main and of the other process preserve the invariant: once
\* there is a thread, nobody creates links any more.
LEMMA ConfigureStep ==
  ASSUME StartInvariant, NEW p \in Procs, Configure(p)
  PROVE  StartInvariant'
<1>1. /\ NetStep(p) /\ UNCHANGED <<pc, at, todo, held, thread, ifindex, assocPtr>>
  BY DEF Configure, vars
<1>2. NetInvariant' /\ Keeps
  BY <1>1, NetStepInvariant DEF StartInvariant
<1>3. ThreadTypeOK'
  BY <1>1 DEF ThreadTypeOK, StartInvariant
<1>4. line[Main] \in Nat /\ line'[Main] \in Nat /\ Len(MainScript) = 10
  BY <1>2, MainOps DEF StartInvariant, NetInvariant, ProcsTypeOK, Procs
<1>5. ThreadOK'
  BY <1>1, <1>2, <1>4 DEF ThreadOK, StartInvariant, Keeps
<1>6. ASSUME NEW c \in Callers PROVE CallerOK(c)'
  <2>1. CallerOK(c) /\ Same(c)
    BY <1>1 DEF StartInvariant, Same
  <2>2. HeldOK(c)' /\ AssocOK(c)'
    BY <2>1, CallerUnmoved
  <2>3. OwnLink(c) => OwnLink(c)'
    BY <1>1, <1>2 DEF OwnLink, Keeps, Iname
  <2>4. ifindex[c] # NULL /\ Named(Iname(c)) = {} => Named(Iname(c))' = {}
    <3>1. ASSUME ifindex[c] # NULL PROVE line[Main] > Len(MainScript)
      <4>1. thread = c /\ c # NULL
        BY <3>1, CallersAssumption DEF StartInvariant, ThreadOK
      <4> QED BY <4>1 DEF StartInvariant, ThreadOK
    <3>2. Iname(c) \in Ends
      BY CallersAssumption DEF Iname
    <3> QED BY <1>2, <3>1, <3>2 DEF Keeps
  <2>5. LinkOK(c)'
    <3>1. ifindex[c] \in DOMAIN links => ifindex[c] \in DOMAIN links'
      BY <1>2 DEF Keeps
    <3> QED BY <2>1, <2>3, <2>4, <3>1 DEF LinkOK, CallerOK, Same
  <2> QED BY <2>2, <2>5 DEF CallerOK
<1> QED BY <1>2, <1>3, <1>5, <1>6 DEF StartInvariant

\* pthread_create preserves the invariant.
LEMMA StartThreadStep ==
  ASSUME StartInvariant, StartThread
  PROVE  StartInvariant'
<1>1. /\ thread = NULL /\ line[Main] > Len(MainScript) /\ thread' \in Callers \union {"refused"}
      /\ UNCHANGED netVars /\ UNCHANGED <<pc, at, todo, held, ifindex, assocPtr>>
  BY DEF StartThread, vars
<1>2. NetInvariant'
  BY <1>1, NetUnchanged DEF StartInvariant
<1>3. ThreadTypeOK'
  BY <1>1 DEF ThreadTypeOK, StartInvariant
<1>4. \A c \in Callers : ifindex[c] = NULL
  BY <1>1, CallersAssumption DEF StartInvariant, ThreadOK
<1>5. ThreadOK'
  BY <1>1, <1>4 DEF ThreadOK, netVars
<1>6. ASSUME NEW c \in Callers PROVE CallerOK(c)'
  <2>1. CallerOK(c) /\ Same(c)
    BY <1>1 DEF StartInvariant, Same
  <2> QED BY <1>1, <2>1, CallerUnmoved DEF CallerOK
<1> QED BY <1>2, <1>3, <1>5, <1>6 DEF StartInvariant

\* get_ifid in xdp_open preserves the invariant.
LEMMA XdpIfindexStep ==
  ASSUME StartInvariant, NEW c \in Callers, XdpIfindex(c)
  PROVE  StartInvariant'
<1>1. /\ thread = c /\ pc[c] = "acquire" /\ at[c] = XdpBind /\ ifindex[c] = NULL
      /\ UNCHANGED netVars /\ UNCHANGED <<pc, at, todo, held, thread, assocPtr>>
  BY DEF XdpIfindex, vars
<1>2. PICK i \in {IndexInReply(Iname(c)), 0} : ifindex' = [ifindex EXCEPT ![c] = i]
  BY DEF XdpIfindex
<1>3. ThreadTypeOK /\ ThreadOK /\ LinksTypeOK /\ CallerOK(c)
  BY DEF StartInvariant, NetInvariant
<1>4. Iname(c) \in Ends
  BY CallersAssumption DEF Iname
<1>5. i \in Nat /\ (i = 0 \/ i \in Named(Iname(c)) \/ Named(Iname(c)) = {})
  BY <1>2, <1>3, <1>4, ReplyIndex
<1>6. /\ ifindex \in [Callers -> Nat \union {NULL}] /\ ifindex'[c] = i
      /\ ifindex' \in [Callers -> Nat \union {NULL}]
      /\ \A d \in Callers : d # c => ifindex'[d] = ifindex[d]
  BY <1>2, <1>3, <1>5 DEF ThreadTypeOK
<1>7. ThreadTypeOK'
  BY <1>1, <1>3, <1>6 DEF ThreadTypeOK
<1>8. ThreadOK'
  BY <1>1, <1>3, <1>6 DEF ThreadOK, netVars
<1>9. \A d \in Callers : d # c => Same(d)
  BY <1>1, <1>6 DEF Same
<1>10. HeldOK(c)' /\ AssocOK(c)'
  <2>1. \A k : Undone(c, k)' <=> Undone(c, k)
    BY <1>1 DEF Undone
  <2> QED BY <1>1, <1>3, <2>1 DEF HeldOK, AssocOK, CallerOK
<1>11. LinkOK(c)'
  <2>1. Named(Iname(c))' = Named(Iname(c)) /\ Iname(c)' = Iname(c) /\ links' = links
    BY <1>1 DEF Named, Present, Iname, netVars
  <2>2. i \in Named(Iname(c)) => OwnLink(c)'
    BY <1>6, <2>1 DEF OwnLink, Named
  <2>3. ~(at'[c] > XdpBind) /\ ~(at'[c] > EthIndex)
    BY <1>1, StepsTable
  <2>4. pc'[c] = "acquire"
    BY <1>1
  <2> QED BY <1>5, <1>6, <2>1, <2>2, <2>3, <2>4 DEF LinkOK
<1> QED BY <1>1, <1>7, <1>8, <1>9, <1>10, <1>11, OneCallerMoves

\* A successful call of the set-up preserves the invariant.
LEMMA AcquireStep ==
  ASSUME StartInvariant, NEW c \in Callers, Acquire(c), CanAcquire(c),
         UNCHANGED <<netVars, thread, ifindex, assocPtr>>
  PROVE  StartInvariant'
<1>1. ThreadTypeOK /\ ThreadOK /\ LinksTypeOK /\ CallerOK(c)
  BY DEF StartInvariant, NetInvariant
<1>2. /\ pc \in [Callers -> AfterEnv \union {"acquire", "undo", "failed"}]
      /\ at \in [Callers -> 1 .. 23] /\ held = [d \in Callers |-> held[d]] /\ at[c] \in 1 .. 23
  BY <1>1, StepsTable DEF ThreadTypeOK
<1>3. /\ pc[c] = "acquire" /\ todo' = todo
      /\ held' = [held EXCEPT ![c] = @ \union ({Steps[at[c]].gets} \ {NULL})]
      /\ UNCHANGED netVars /\ UNCHANGED <<thread, ifindex, assocPtr>>
  BY DEF Acquire
<1>4. /\ held'[c] = Got(at[c]) /\ held' = [d \in Callers |-> held'[d]]
      /\ \A d \in Callers : d # c => held'[d] = held[d]
  <2>1. held[c] = Got(at[c] - 1)
    BY <1>1, <1>3 DEF CallerOK, HeldOK
  <2>2. held'[c] = held[c] \union ({Steps[at[c]].gets} \ {NULL})
    BY <1>2, <1>3
  <2> QED BY <1>2, <1>3, <2>1, <2>2, GotNext
<1>5. ~assocPtr[c]
  BY <1>1, <1>3 DEF CallerOK, AssocOK
<1>6. /\ at[c] >= 17 => ifindex[c] \in DOMAIN links
      /\ at[c] >= 20 => OwnLink(c)
  <2>1. /\ at[c] > 17 => ifindex[c] \in DOMAIN links
        /\ at[c] > 20 => OwnLink(c)
        /\ ifindex[c] # NULL => ifindex[c] = 0 \/ OwnLink(c) \/ Named(Iname(c)) = {}
    BY <1>1, <1>3, StepsTable DEF CallerOK, LinkOK
  <2>2. /\ at[c] = 17 => ifindex[c] \in DOMAIN links
        /\ at[c] = 20 => Named(Iname(c)) # {}
    BY StepsTable DEF CanAcquire, Present
  <2>3. ifindex[c] \in DOMAIN links => ifindex[c] # NULL /\ ifindex[c] # 0
    BY <1>1, NullAssumption DEF LinksTypeOK
  <2> QED BY <1>2, <2>1, <2>2, <2>3
<1>7. OwnLink(c)' <=> OwnLink(c)
  BY <1>3 DEF OwnLink, Iname, netVars
<1>8. Iname(c)' = Iname(c) /\ links' = links /\ Named(Iname(c))' = Named(Iname(c))
  BY <1>3 DEF Named, Present, Iname, netVars
<1>9. ThreadOK'
  BY <1>1, <1>3 DEF ThreadOK, netVars
<1>10. ifindex'[c] # NULL => ifindex'[c] = 0 \/ OwnLink(c)' \/ Named(Iname(c))' = {}
  BY <1>1, <1>3, <1>7, <1>8 DEF CallerOK, LinkOK
<1>11. CASE at[c] = Len(Steps)
  <2>1. at[c] = 23 /\ at' = at /\ pc' = [pc EXCEPT ![c] = "ready"]
    BY <1>11, StepsTable DEF Acquire
  <2>2. /\ pc'[c] = "ready" /\ \A d \in Callers : d # c => pc'[d] = pc[d]
        /\ pc' \in [Callers -> AfterEnv \union {"acquire", "undo", "failed"}]
    BY <1>2, <2>1 DEF AfterEnv
  <2>3. ThreadTypeOK'
    BY <1>1, <1>3, <1>4, <2>1, <2>2 DEF ThreadTypeOK
  <2>4. \A d \in Callers : d # c => Same(d)
    BY <1>3, <1>4, <2>1, <2>2 DEF Same
  <2>5. HeldOK(c)'
    BY <2>2 DEF HeldOK
  <2>6. AssocOK(c)'
    <3>1. held'[c] = Environment
      BY <1>4, <2>1, StepsTable DEF Environment
    <3> QED BY <1>3, <1>5, <2>2, <3>1 DEF AssocOK
  <2>7. LinkOK(c)'
    BY <1>6, <1>7, <1>10, <2>1, <2>2 DEF LinkOK
  <2> QED BY <1>3, <1>9, <2>3, <2>4, <2>5, <2>6, <2>7, OneCallerMoves
<1>12. CASE at[c] # Len(Steps)
  <2>1. at[c] # 23 /\ pc' = pc /\ at' = [at EXCEPT ![c] = @ + 1]
    BY <1>12, StepsTable DEF Acquire
  <2>2. /\ at'[c] = at[c] + 1 /\ \A d \in Callers : d # c => at'[d] = at[d]
        /\ at' \in [Callers -> 1 .. 23]
    BY <1>2, <2>1
  <2>3. ThreadTypeOK'
    BY <1>1, <1>3, <1>4, <2>1, <2>2, StepsTable DEF ThreadTypeOK
  <2>4. \A d \in Callers : d # c => Same(d)
    BY <1>3, <1>4, <2>1, <2>2 DEF Same
  <2>5. HeldOK(c)'
    <3>1. at'[c] - 1 = at[c] /\ pc'[c] = "acquire"
      BY <1>2, <1>3, <2>1, <2>2
    <3> QED BY <1>4, <3>1 DEF HeldOK
  <2>6. AssocOK(c)'
    BY <1>3, <1>5, <2>1 DEF AssocOK, AfterEnv
  <2>7. LinkOK(c)'
    <3>1. /\ at'[c] > XdpBind => ifindex'[c] \in DOMAIN links'
          /\ at'[c] > EthIndex => OwnLink(c)'
      BY <1>2, <1>3, <1>6, <1>7, <1>8, <2>2, StepsTable
    <3> QED BY <1>3, <1>10, <2>1, <3>1 DEF LinkOK
  <2> QED BY <1>3, <1>9, <2>3, <2>4, <2>5, <2>6, <2>7, OneCallerMoves
<1> QED BY <1>11, <1>12

Working == {"ready", "gateway", "dev", "mac", "loop"}

\* After the set-up the socket stays where it is.
LEMMA LinkStays ==
  ASSUME NEW c \in Callers, LinkOK(c), UNCHANGED netVars, ifindex'[c] = ifindex[c],
         pc'[c] # "acquire", pc'[c] \in Working => pc[c] \in Working
  PROVE  LinkOK(c)'
<1>1. OwnLink(c)' <=> OwnLink(c)
  BY DEF OwnLink, Iname, netVars
<1>2. Iname(c)' = Iname(c) /\ Named(Iname(c))' = Named(Iname(c))
  BY DEF Named, Present, Iname, netVars
<1> QED BY <1>1, <1>2 DEF LinkOK, Working

\* An error path is a sequence of resources.
LEMMA UndoSequence ==
  ASSUME ThreadTypeOK, NEW c \in Callers
  PROVE  /\ at[c] \in 1 .. 23
         /\ Steps[at[c]].undo \in Seq(Resources) /\ Len(Steps[at[c]].undo) \in Nat
<1>1. at[c] \in 1 .. 23
  BY StepsTable DEF ThreadTypeOK
<1>2. Steps[at[c]] \in StepSet
  BY <1>1, StepsTable, ElementOfSeq
<1>3. Steps[at[c]].undo \in Seq(Resources)
  BY <1>2 DEF StepSet
<1> QED BY <1>1, <1>3, LenProperties

\* A failed call preserves the invariant: nothing of its error path is done.
LEMMA FailStep ==
  ASSUME StartInvariant, NEW c \in Callers, Fail(c), UNCHANGED <<netVars, thread, ifindex, assocPtr>>
  PROVE  StartInvariant'
<1>1. ThreadTypeOK /\ ThreadOK /\ CallerOK(c)
  BY DEF StartInvariant
<1>2. /\ pc \in [Callers -> AfterEnv \union {"acquire", "undo", "failed"}]
      /\ todo \in [Callers -> Seq(Resources)] /\ at[c] \in 1 .. 23
  BY <1>1, StepsTable DEF ThreadTypeOK
<1>3. /\ pc[c] = "acquire" /\ pc' = [pc EXCEPT ![c] = "undo"]
      /\ todo' = [todo EXCEPT ![c] = Steps[at[c]].undo] /\ at' = at /\ held' = held
      /\ UNCHANGED netVars /\ UNCHANGED <<thread, ifindex, assocPtr>>
  BY DEF Fail
<1>4. /\ pc'[c] = "undo" /\ pc' \in [Callers -> AfterEnv \union {"acquire", "undo", "failed"}]
      /\ \A d \in Callers : d # c => pc'[d] = pc[d]
  BY <1>2, <1>3
<1>5. Steps[at[c]].undo \in Seq(Resources)
  BY <1>1, UndoSequence
<1>6. /\ todo'[c] = Steps[at[c]].undo /\ todo' \in [Callers -> Seq(Resources)]
      /\ \A d \in Callers : d # c => todo'[d] = todo[d]
  BY <1>2, <1>3, <1>5
<1>7. ThreadTypeOK'
  BY <1>1, <1>3, <1>4, <1>6 DEF ThreadTypeOK
<1>8. ThreadOK'
  BY <1>1, <1>3 DEF ThreadOK, netVars
<1>9. \A d \in Callers : d # c => Same(d)
  BY <1>3, <1>4, <1>6 DEF Same
<1>10. HeldOK(c)'
  <2> DEFINE u == Steps[at[c]].undo
  <2>1. Len(u) \in Nat /\ held[c] = Got(at[c] - 1)
    BY <1>1, <1>3, <1>5, LenProperties DEF CallerOK, HeldOK
  <2>2. {u[j] : j \in 1 .. 0} = {}
    OBVIOUS
  <2>3. Undone(c, 0)'
    <3>1. Len(todo'[c]) = Len(u) - 0 /\ \A j \in 1 .. Len(todo'[c]) : todo'[c][j] = u[0 + j]
      BY <1>6, <2>1
    <3>2. held'[c] = Got(at'[c] - 1) \ {u[j] : j \in 1 .. 0}
      BY <1>3, <2>1, <2>2
    <3> QED BY <1>3, <3>1, <3>2 DEF Undone
  <2>4. 0 \in 0 .. Len(Steps[at'[c]].undo)
    BY <1>3, <2>1
  <2> QED BY <1>4, <2>3, <2>4 DEF HeldOK
<1>11. AssocOK(c)'
  BY <1>1, <1>3, <1>4 DEF CallerOK, AssocOK, AfterEnv
<1>12. LinkOK(c)'
  BY <1>1, <1>3, <1>4, LinkStays DEF CallerOK, Working
<1> QED BY <1>3, <1>7, <1>8, <1>9, <1>10, <1>11, <1>12, OneCallerMoves

\* What is left of an error path, and what the next release does.
LEMMA PathGoesOn ==
  ASSUME NEW c \in Callers, ThreadTypeOK, HeldOK(c), pc[c] = "undo", todo[c] # << >>
  PROVE  \E k \in Nat : /\ k < Len(Steps[at[c]].undo) /\ Undone(c, k)
                        /\ Head(todo[c]) = Steps[at[c]].undo[k + 1]
                        /\ Tail(todo[c]) \in Seq(Resources)
                        /\ Len(Tail(todo[c])) = Len(todo[c]) - 1
                        /\ \A j \in 1 .. Len(todo[c]) - 1 : Tail(todo[c])[j] = todo[c][j + 1]
<1> DEFINE u == Steps[at[c]].undo
           s == todo[c]
<1>1. PICK k \in 0 .. Len(u) : Undone(c, k)
  BY DEF HeldOK
<1>2. s \in Seq(Resources) /\ s # << >>
  BY DEF ThreadTypeOK
<1>3. Len(s) \in Nat /\ Len(s) = Len(u) - k /\ \A j \in 1 .. Len(s) : s[j] = u[k + j]
  BY <1>1, <1>2, LenProperties DEF Undone
<1> HIDE DEF s, u
<1>4. /\ Len(s) # 0 /\ Head(s) = s[1] /\ Tail(s) \in Seq(Resources)
      /\ Len(Tail(s)) = Len(s) - 1
      /\ \A j \in 1 .. Len(Tail(s)) : Tail(s)[j] = s[j + 1]
  BY <1>2, HeadTailProperties, EmptySeq
<1>5. Len(u) \in Nat
  BY UndoSequence DEF u
<1>6. k \in Nat /\ k < Len(u) /\ 1 \in 1 .. Len(s)
  BY <1>3, <1>4, <1>5
<1>7. Head(s) = u[k + 1]
  BY <1>3, <1>4, <1>6
<1>8. /\ k \in Nat /\ k < Len(u) /\ Undone(c, k) /\ Head(s) = u[k + 1]
      /\ Tail(s) \in Seq(Resources) /\ Len(Tail(s)) = Len(s) - 1
      /\ \A j \in 1 .. Len(s) - 1 : Tail(s)[j] = s[j + 1]
  BY <1>1, <1>4, <1>6, <1>7
<1> QED BY <1>8 DEF s, u

\* One release of an error path preserves the invariant.
LEMMA ReleaseStep ==
  ASSUME StartInvariant, NEW c \in Callers, Release(c), UNCHANGED <<netVars, thread, ifindex, assocPtr>>
  PROVE  StartInvariant'
<1>1. ThreadTypeOK /\ ThreadOK /\ CallerOK(c)
  BY DEF StartInvariant
<1>2. /\ pc[c] = "undo" /\ todo[c] # << >> /\ held' = [held EXCEPT ![c] = @ \ {Head(todo[c])}]
      /\ todo' = [todo EXCEPT ![c] = Tail(@)] /\ pc' = pc /\ at' = at
      /\ UNCHANGED netVars /\ UNCHANGED <<thread, ifindex, assocPtr>>
  BY DEF Release
<1> DEFINE u == Steps[at[c]].undo
           s == todo[c]
<1>3. PICK k \in Nat : /\ k < Len(u) /\ Undone(c, k) /\ Head(s) = u[k + 1]
                       /\ Tail(s) \in Seq(Resources) /\ Len(Tail(s)) = Len(s) - 1
                       /\ \A j \in 1 .. Len(s) - 1 : Tail(s)[j] = s[j + 1]
  BY <1>1, <1>2, PathGoesOn DEF CallerOK
<1>4. /\ todo'[c] = Tail(s) /\ todo' \in [Callers -> Seq(Resources)]
      /\ \A d \in Callers : d # c => todo'[d] = todo[d]
  BY <1>1, <1>2, <1>3 DEF ThreadTypeOK
<1>5. /\ held'[c] = held[c] \ {u[k + 1]} /\ held' = [d \in Callers |-> held'[d]]
      /\ \A d \in Callers : d # c => held'[d] = held[d]
  BY <1>1, <1>2, <1>3 DEF ThreadTypeOK
<1>6. ThreadTypeOK'
  BY <1>1, <1>2, <1>4, <1>5 DEF ThreadTypeOK
<1>7. ThreadOK'
  BY <1>1, <1>2 DEF ThreadOK, netVars
<1>8. \A d \in Callers : d # c => Same(d)
  BY <1>2, <1>4, <1>5 DEF Same
<1>9. /\ Len(s) = Len(u) - k /\ \A j \in 1 .. Len(s) : s[j] = u[k + j]
      /\ held[c] = Got(at[c] - 1) \ {u[j] : j \in 1 .. k}
  BY <1>3 DEF Undone
<1>10. Len(u) \in Nat
  BY <1>1, UndoSequence
<1>11. HeldOK(c)'
  <2>1. Len(todo'[c]) = Len(u) - (k + 1)
    BY <1>3, <1>4, <1>9, <1>10
  <2>2. ASSUME NEW j \in 1 .. Len(todo'[c]) PROVE todo'[c][j] = u[(k + 1) + j]
    <3>0. Len(todo'[c]) = Len(s) - 1 /\ Len(s) \in Nat /\ Len(s) > 0
      BY <1>3, <1>9, <1>10, <2>1
    <3>1. j \in 1 .. Len(s) - 1 /\ j + 1 \in 1 .. Len(s) /\ k + (j + 1) = (k + 1) + j
      BY <3>0
    <3>2. todo'[c][j] = s[j + 1]
      BY <1>3, <1>4, <3>1
    <3> QED BY <1>9, <3>1, <3>2
  <2>3. held'[c] = Got(at[c] - 1) \ {u[j] : j \in 1 .. k + 1}
    <3>1. 1 .. k + 1 = (1 .. k) \union {k + 1}
      OBVIOUS
    <3>2. {u[j] : j \in 1 .. k + 1} = {u[j] : j \in 1 .. k} \union {u[k + 1]}
      BY <3>1
    <3> QED BY <1>5, <1>9, <3>2
  <2>4. Undone(c, k + 1)'
    BY <1>2, <2>1, <2>2, <2>3 DEF Undone
  <2>5. k + 1 \in 0 .. Len(Steps[at'[c]].undo)
    BY <1>2, <1>3, <1>10
  <2>6. pc'[c] = "undo"
    BY <1>2
  <2> QED BY <2>4, <2>5, <2>6 DEF HeldOK
<1>12. AssocOK(c)'
  BY <1>1, <1>2 DEF CallerOK, AssocOK, AfterEnv
<1>13. LinkOK(c)'
  BY <1>1, <1>2, LinkStays DEF CallerOK, Working
<1> QED BY <1>2, <1>6, <1>7, <1>8, <1>11, <1>12, <1>13, OneCallerMoves

\* The end of an error path preserves the invariant.
LEMMA ReturnStep ==
  ASSUME StartInvariant, NEW c \in Callers, Return(c), UNCHANGED <<netVars, thread, ifindex, assocPtr>>
  PROVE  StartInvariant'
<1>1. ThreadTypeOK /\ ThreadOK /\ CallerOK(c)
  BY DEF StartInvariant
<1>2. /\ pc[c] = "undo" /\ todo[c] = << >> /\ pc' = [pc EXCEPT ![c] = "failed"]
      /\ UNCHANGED netVars /\ UNCHANGED <<at, todo, held, thread, ifindex, assocPtr>>
  BY DEF Return
<1>3. /\ pc'[c] = "failed" /\ pc' \in [Callers -> AfterEnv \union {"acquire", "undo", "failed"}]
      /\ \A d \in Callers : d # c => pc'[d] = pc[d]
  BY <1>1, <1>2 DEF ThreadTypeOK
<1>4. ThreadTypeOK'
  BY <1>1, <1>2, <1>3 DEF ThreadTypeOK
<1>5. ThreadOK'
  BY <1>1, <1>2 DEF ThreadOK, netVars
<1>6. \A d \in Callers : d # c => Same(d)
  BY <1>2, <1>3 DEF Same
<1>7. HeldOK(c)'
  <2> DEFINE u == Steps[at[c]].undo
  <2>1. PICK k \in 0 .. Len(u) : Undone(c, k)
    BY <1>1, <1>2 DEF CallerOK, HeldOK
  <2>2. Len(u) \in Nat
    BY <1>1, UndoSequence
  <2>3. Len(todo[c]) = 0
    BY <1>2
  <2>4. k = Len(u)
    BY <2>1, <2>2, <2>3 DEF Undone
  <2>5. Undone(c, Len(u))'
    BY <1>2, <2>1, <2>4 DEF Undone
  <2> QED BY <1>2, <1>3, <2>5 DEF HeldOK
<1>8. AssocOK(c)'
  BY <1>1, <1>2, <1>3 DEF CallerOK, AssocOK, AfterEnv
<1>9. LinkOK(c)'
  BY <1>1, <1>2, <1>3, LinkStays DEF CallerOK, Working
<1> QED BY <1>2, <1>4, <1>5, <1>6, <1>7, <1>8, <1>9, OneCallerMoves

\* The resources of an association are not those of the environment.
LEMMA EnvironmentTable ==
  /\ Environment = Got(16) \union {"eth", "eth_fd"}
  /\ "assoc" \notin Environment /\ "allocator_64" \notin Environment /\ "bundling" \notin Environment
<1>1. Environment = Got(23)
  BY StepsTable DEF Environment
<1>2. Got(23) = Got(16) \union {"eth", "eth_fd"}
  BY GotTable
<1>3. Got(16) = {"env", "stack", "addrs", "xdp", "fd", "umem", "rx_ring_mmap", "tx_ring_mmap",
                 "fill_ring_mmap", "completion_ring_mmap"}
  BY GotTable
<1> QED BY <1>1, <1>2, <1>3

\* After the set-up a thread only moves on, and what it holds changes.
LEMMA ThreadMoves ==
  ASSUME StartInvariant, NEW c \in Callers, UNCHANGED <<netVars, at, todo, thread, ifindex>>,
         NEW l \in AfterEnv, NEW h, NEW a \in BOOLEAN,
         pc' = [pc EXCEPT ![c] = l], held' = [held EXCEPT ![c] = h],
         assocPtr' = [assocPtr EXCEPT ![c] = a],
         l \in Working => pc[c] \in Working,
         AssocOK(c)'
  PROVE  StartInvariant'
<1>1. ThreadTypeOK /\ ThreadOK /\ CallerOK(c)
  BY DEF StartInvariant
<1>2. /\ pc'[c] = l /\ pc' \in [Callers -> AfterEnv \union {"acquire", "undo", "failed"}]
      /\ \A d \in Callers : d # c => pc'[d] = pc[d]
  BY <1>1 DEF ThreadTypeOK
<1>3. held' = [d \in Callers |-> held'[d]] /\ \A d \in Callers : d # c => held'[d] = held[d]
  BY <1>1 DEF ThreadTypeOK
<1>4. /\ assocPtr' \in [Callers -> BOOLEAN]
      /\ \A d \in Callers : d # c => assocPtr'[d] = assocPtr[d]
  BY <1>1 DEF ThreadTypeOK
<1>5. ThreadTypeOK'
  BY <1>1, <1>2, <1>3, <1>4 DEF ThreadTypeOK
<1>6. ThreadOK'
  BY <1>1 DEF ThreadOK, netVars
<1>7. \A d \in Callers : d # c => Same(d)
  BY <1>2, <1>3, <1>4 DEF Same
<1>8. HeldOK(c)'
  BY <1>2 DEF HeldOK, AfterEnv
<1>9. LinkOK(c)'
  BY <1>1, <1>2, LinkStays DEF CallerOK, AfterEnv, Working
<1> QED BY <1>5, <1>6, <1>7, <1>8, <1>9, OneCallerMoves

\* sctp_assoc_create, the client's loop and the end of a thread preserve the
\* invariant.
LEMMA AssocSteps ==
  ASSUME StartInvariant, NEW c \in Callers,
         \/ AssocAlloc(c) \/ AssocMac(c, "gateway", Iname(c), "dev") \/ AssocMac(c, "dev", Peer(c), "mac")
         \/ AssocReady(c) \/ GiveUp(c) \/ Cleanup(c)
  PROVE  StartInvariant'
<1>1. ThreadTypeOK /\ AssocOK(c)
  BY DEF StartInvariant, CallerOK
<1>2. /\ c \in DOMAIN pc /\ c \in DOMAIN held /\ c \in DOMAIN assocPtr /\ assocPtr[c] \in BOOLEAN
  BY <1>1 DEF ThreadTypeOK
<1>3. held = [held EXCEPT ![c] = held[c]] /\ assocPtr = [assocPtr EXCEPT ![c] = assocPtr[c]]
  BY <1>1 DEF ThreadTypeOK
<1>4. CASE AssocAlloc(c)
  <2>1. pc[c] = "ready" /\ UNCHANGED <<netVars, at, todo, thread, ifindex>> /\ assocPtr' = assocPtr
    BY <1>4 DEF AssocAlloc
  <2>2. PICK l \in {"cleanup", "gateway"}, rs \in {{}, {"assoc"}} :
          pc' = [pc EXCEPT ![c] = l] /\ held' = [held EXCEPT ![c] = held[c] \union rs]
    BY <1>3, <1>4 DEF AssocAlloc, Goto, Keep
  <2>3. pc'[c] = l /\ held'[c] = held[c] \union rs
    BY <1>2, <2>2
  <2>4. AssocOK(c)'
    BY <1>1, <2>1, <2>2, <2>3 DEF AssocOK, AfterEnv
  <2>5. l \in AfterEnv /\ pc[c] \in Working
    BY <2>1, <2>2 DEF AfterEnv, Working
  <2> QED BY <1>2, <1>3, <2>1, <2>2, <2>4, <2>5, ThreadMoves
<1>5. ASSUME NEW from \in {"gateway", "dev"}, NEW n, NEW to \in {"dev", "mac"}, AssocMac(c, from, n, to)
      PROVE  StartInvariant'
  <2>1. /\ pc[c] = from /\ UNCHANGED <<netVars, at, todo, thread, ifindex>>
        /\ held' = held /\ assocPtr' = assocPtr
    BY <1>5 DEF AssocMac
  <2>2. PICK l \in {"dev", "mac", "cleanup"} : pc' = [pc EXCEPT ![c] = l]
    BY <1>5 DEF AssocMac, Goto
  <2>3. pc'[c] = l
    BY <1>2, <2>2
  <2>4. AssocOK(c)'
    BY <1>1, <2>1, <2>2, <2>3 DEF AssocOK, AfterEnv
  <2>5. l \in AfterEnv /\ pc[c] \in Working
    BY <2>1, <2>2 DEF AfterEnv, Working
  <2> QED BY <1>2, <1>3, <2>1, <2>2, <2>4, <2>5, ThreadMoves
<1>6. CASE AssocReady(c)
  <2>1. /\ pc[c] = "mac" /\ UNCHANGED <<netVars, at, todo, thread, ifindex>>
        /\ assocPtr' = [assocPtr EXCEPT ![c] = TRUE]
    BY <1>6 DEF AssocReady
  <2>2. PICK l \in {"loop", "cleanup"},
             rs \in {{"allocator_64", "bundling", "events", "timer"}, {"allocator_64", "bundling"}} :
          /\ pc' = [pc EXCEPT ![c] = l] /\ held' = [held EXCEPT ![c] = held[c] \union rs]
          /\ l = "loop" => c = "client"
    BY <1>6 DEF AssocReady, Goto, Keep
  <2>3. pc'[c] = l /\ held'[c] = held[c] \union rs /\ assocPtr'[c] = TRUE
    BY <1>2, <2>1, <2>2
  <2>4. "allocator_64" \in rs /\ "bundling" \in rs
    BY <2>2
  <2>5. Environment \subseteq held[c]
    BY <1>1, <2>1 DEF AssocOK, AfterEnv
  <2>6. AssocOK(c)'
    BY <2>2, <2>3, <2>4, <2>5, EnvironmentTable DEF AssocOK
  <2>7. l \in AfterEnv /\ pc[c] \in Working
    BY <2>1, <2>2 DEF AfterEnv, Working
  <2> QED BY <2>1, <2>2, <2>6, <2>7, ThreadMoves
<1>7. CASE GiveUp(c)
  <2>1. /\ pc[c] = "loop" /\ UNCHANGED <<netVars, at, todo, thread, ifindex>>
        /\ held' = held /\ assocPtr' = assocPtr /\ pc' = [pc EXCEPT ![c] = "cleanup"]
    BY <1>7 DEF GiveUp, Goto
  <2>2. pc'[c] = "cleanup"
    BY <1>2, <2>1
  <2>3. AssocOK(c)'
    BY <1>1, <2>1, <2>2 DEF AssocOK, AfterEnv
  <2>4. "cleanup" \in AfterEnv /\ pc[c] \in Working
    BY <2>1 DEF AfterEnv, Working
  <2> QED BY <1>2, <1>3, <2>1, <2>3, <2>4, ThreadMoves
<1>8. CASE Cleanup(c)
  <2>1. /\ pc[c] = "cleanup" /\ UNCHANGED <<netVars, at, todo, thread, ifindex>>
        /\ assocPtr' = assocPtr
    BY <1>8 DEF Cleanup
  <2>2. CASE pc' = [pc EXCEPT ![c] = "ended"] /\ held' = [held EXCEPT ![c] = @ \ Freed(c)]
    <3>1. pc'[c] = "ended" /\ held'[c] = held[c] \ Freed(c) /\ held' = [held EXCEPT ![c] = held[c] \ Freed(c)]
      BY <1>2, <2>2
    <3>2. Freed(c) \subseteq {"assoc"} /\ (c = "client" /\ assocPtr[c] => Freed(c) = {"assoc"})
      BY DEF Freed
    <3>3. c = "client" \/ c = "server"
      BY CallersAssumption DEF Ends
    <3>4. AssocOK(c)'
      BY <1>1, <2>1, <3>1, <3>2, <3>3, EnvironmentTable DEF AssocOK, AfterEnv
    <3>5. "ended" \in AfterEnv /\ "ended" \notin Working
      BY DEF AfterEnv, Working
    <3> QED BY <1>2, <1>3, <2>1, <2>2, <3>1, <3>4, <3>5, ThreadMoves
  <2>3. CASE pc' = [pc EXCEPT ![c] = "undefined"] /\ held' = held
    <3>1. pc'[c] = "undefined"
      BY <1>2, <2>3
    <3>2. AssocOK(c)'
      BY <1>1, <2>1, <2>3, <3>1 DEF AssocOK, AfterEnv
    <3>3. "undefined" \in AfterEnv /\ "undefined" \notin Working
      BY DEF AfterEnv, Working
    <3> QED BY <1>2, <1>3, <2>1, <2>3, <3>2, <3>3, ThreadMoves
  <2> QED BY <1>8, <2>2, <2>3 DEF Cleanup, Goto
<1> QED BY <1>4, <1>5, <1>6, <1>7, <1>8

-----------------------------------------------------------------------------
(***************************************************************************)
(* The theorems                                                            *)
(***************************************************************************)
\* The invariant holds when main starts.
LEMMA StartInitInvariant == StartInit => StartInvariant
<1> SUFFICES ASSUME StartInit PROVE StartInvariant
  OBVIOUS
<1>1. NetInvariant
  BY NetInitInvariant DEF StartInit
<1>2. /\ thread = NULL /\ ifindex = [c \in Callers |-> NULL] /\ assocPtr = [c \in Callers |-> FALSE]
      /\ pc = [c \in Callers |-> "acquire"] /\ at = [c \in Callers |-> 1]
      /\ todo = [c \in Callers |-> << >>] /\ held = [c \in Callers |-> {}]
  BY DEF StartInit, Init
<1>3. ThreadTypeOK
  <2>1. 1 \in 1 .. Len(Steps)
    BY StepsTable
  <2>2. << >> \in Seq(Resources)
    OBVIOUS
  <2> QED BY <1>2, <2>1, <2>2 DEF ThreadTypeOK, AfterEnv
<1>4. ThreadOK
  BY <1>2 DEF ThreadOK
<1>5. ASSUME NEW c \in Callers PROVE CallerOK(c)
  <2>1. /\ pc[c] = "acquire" /\ at[c] = 1 /\ held[c] = {} /\ assocPtr[c] = FALSE /\ ifindex[c] = NULL
    BY <1>2
  <2>2. Got(1 - 1) = {}
    BY DEF Got
  <2>3. HeldOK(c)
    BY <2>1, <2>2 DEF HeldOK
  <2>4. AssocOK(c)
    BY <2>1 DEF AssocOK, AfterEnv
  <2>5. ~(1 > XdpBind) /\ ~(1 > EthIndex)
    BY StepsTable
  <2>6. LinkOK(c)
    BY <2>1, <2>5 DEF LinkOK
  <2> QED BY <2>3, <2>4, <2>6 DEF CallerOK
<1> QED BY <1>1, <1>3, <1>4, <1>5 DEF StartInvariant

\* Every step of a thread preserves the invariant.
LEMMA ThreadStepInvariant ==
  ASSUME StartInvariant, NEW c \in Callers, ThreadStep(c)
  PROVE  StartInvariant'
<1>1. CASE XdpIfindex(c)
  BY <1>1, XdpIfindexStep
<1>2. CASE EnvStep(c)
  <2>1. UNCHANGED <<netVars, thread, ifindex, assocPtr>>
    BY <1>2 DEF EnvStep
  <2>2. CASE Acquire(c) /\ CanAcquire(c)
    BY <2>1, <2>2, AcquireStep
  <2>3. CASE Fail(c)
    BY <2>1, <2>3, FailStep
  <2>4. CASE Release(c)
    BY <2>1, <2>4, ReleaseStep
  <2>5. CASE Return(c)
    BY <2>1, <2>5, ReturnStep
  <2> QED BY <1>2, <2>2, <2>3, <2>4, <2>5 DEF EnvStep
<1>3. CASE \/ AssocAlloc(c) \/ AssocMac(c, "gateway", Iname(c), "dev")
           \/ AssocMac(c, "dev", Peer(c), "mac")
           \/ AssocReady(c) \/ GiveUp(c) \/ Cleanup(c)
  BY <1>3, AssocSteps
<1> QED BY <1>1, <1>2, <1>3 DEF ThreadStep

\* Every step preserves the invariant.
LEMMA StartNextInvariant == StartInvariant /\ [StartNext]_startVars => StartInvariant'
<1> SUFFICES ASSUME StartInvariant, [StartNext]_startVars PROVE StartInvariant'
  OBVIOUS
<1>1. ASSUME NEW p \in Procs, Configure(p) PROVE StartInvariant'
  BY <1>1, ConfigureStep
<1>2. CASE StartThread
  BY <1>2, StartThreadStep
<1>3. ASSUME NEW c \in Callers, ThreadStep(c) PROVE StartInvariant'
  BY <1>3, ThreadStepInvariant
<1>4. CASE UNCHANGED startVars
  <2>1. /\ UNCHANGED netVars
        /\ UNCHANGED <<pc, at, todo, held, thread, ifindex, assocPtr>>
    BY <1>4 DEF startVars, vars
  <2>2. NetInvariant'
    BY <2>1, NetUnchanged DEF StartInvariant
  <2>3. ThreadTypeOK' /\ ThreadOK'
    BY <2>1 DEF StartInvariant, ThreadTypeOK, ThreadOK, netVars
  <2>4. ASSUME NEW c \in Callers PROVE CallerOK(c)'
    <3>1. CallerOK(c) /\ Same(c)
      BY <2>1 DEF StartInvariant, Same
    <3> QED BY <2>1, <3>1, CallerUnmoved DEF CallerOK
  <2> QED BY <2>2, <2>3, <2>4 DEF StartInvariant
<1> QED BY <1>1, <1>2, <1>3, <1>4 DEF StartNext

\* The links, the two processes, the error paths and the threads are as the
\* inductive invariant says, from main to the end of the thread.
THEOREM StartInvariantHolds == StartSpec => []StartInvariant
<1> QED BY StartInitInvariant, StartNextInvariant, PTL DEF StartSpec

\* What the set-up asks of the kernel is well formed whatever the lengths of
\* the names, and leaves the links of others alone, except by the lengths of
\* the requests that get_ifid takes for indices.
THEOREM RequestsAreSound == StartSpec => []RequestsSound
<1>1. StartInvariant => RequestsSound
  BY DEF StartInvariant, NetInvariant
<1> QED BY <1>1, StartInvariantHolds, PTL

\* The second run of the same set-up repairs whatever the first left undone.
LEMMA RepairedInvariant == NetInvariant => SecondPassRepairs
<1> SUFFICES ASSUME NetInvariant, line[Main] > Len(MainScript), Undisturbed, NEW n \in Ends
             PROVE  \E i \in Named(n) : links[i].up /\ links[i].addrs = {n}
  BY DEF SecondPassRepairs, Undisturbed
<1>1. line[Main] \in Nat /\ line[Main] > 10
  BY MainOps DEF NetInvariant, ProcsTypeOK, Procs
<1>2. /\ \A m \in Ends : Named(m) # {}
      /\ \A k \in 7 .. 10 : k < line[Main] => Done(MainScript[k])
  <2>1. Len(Pass) + 2 = 7 /\ line[Main] > Len(Pass) + 1
    BY <1>1, MainOps
  <2> QED BY <2>1, MainOps DEF NetInvariant, SecondPassOK
<1>3. PICK i \in Named(n) : TRUE
  BY <1>2
<1>4. Done(MainScript[7]) /\ Done(MainScript[8]) /\ Done(MainScript[9]) /\ Done(MainScript[10])
  BY <1>1, <1>2
<1>5. Done(Up(n)) /\ Done(Bind(n))
  BY <1>4, MainOps DEF Ends
<1>6. /\ Up(n).op = "up" /\ Up(n).name = n
      /\ Bind(n).op = "bind" /\ Bind(n).name = n /\ Bind(n).addr = n
  BY DEF Up, Bind
<1>7. links[i].up /\ n \in links[i].addrs
  BY <1>5, <1>6 DEF Done
<1>8. links[i].name = n /\ i \in DOMAIN links
  BY DEF Named
<1>9. links[i].addrs \subseteq {n}
  BY <1>8 DEF NetInvariant, AddrsOK
<1> QED BY <1>7, <1>9

\* When main is through and nothing disturbed its second pass, both ends exist,
\* are up and have their own address only, whatever the first pass met.
THEOREM SecondPassAlwaysRepairs == StartSpec => []SecondPassRepairs
<1>1. StartInvariant => SecondPassRepairs
  BY RepairedInvariant DEF StartInvariant
<1> QED BY <1>1, StartInvariantHolds, PTL

\* An environment that is set up has its AF_XDP socket on its own interface.
THEOREM AlwaysReadyOnOwnLink == StartSpec => []ReadyOnOwnLink
<1>1. StartInvariant => ReadyOnOwnLink
  BY DEF StartInvariant, CallerOK, LinkOK, OwnLink, ReadyOnOwnLink
<1> QED BY <1>1, StartInvariantHolds, PTL

\* What a failed set-up and an ended thread leave behind.
LEMMA LeftBehind == StartInvariant => LeaksOnlyStackAndXdp /\ EndsHoldingEnvironment
<1> SUFFICES ASSUME StartInvariant PROVE LeaksOnlyStackAndXdp /\ EndsHoldingEnvironment
  OBVIOUS
<1>1. ThreadTypeOK /\ \A c \in Callers : HeldOK(c) /\ AssocOK(c)
  BY DEF StartInvariant, CallerOK
<1>2. ASSUME NEW c \in Callers, pc[c] = "failed" PROVE held[c] = Leak(at[c])
  <2>1. at[c] \in 1 .. 23
    BY <1>1, UndoSequence
  <2>2. Undone(c, Len(Steps[at[c]].undo))
    BY <1>1, <1>2 DEF HeldOK
  <2> QED BY <2>1, <2>2, ErrorPathLeaves DEF Undone
<1>3. LeaksOnlyStackAndXdp
  <2>1. ASSUME NEW c \in Callers
        PROVE  /\ at[c] - 1 - Len(StackSteps) > 0 <=> at[c] > 3
               /\ at[c] - 1 - Len(StackSteps) > Len(XdpSteps) <=> at[c] > 17
    <3>1. at[c] \in 1 .. 23
      BY <1>1, UndoSequence
    <3>2. Len(StackSteps) = 2 /\ Len(XdpSteps) = 14
      BY StepsTable
    <3> QED BY <3>1, <3>2
  <2> QED BY <1>2, <2>1 DEF LeaksOnlyStackAndXdp, Leak
<1>4. {Steps[i].gets : i \in DOMAIN Steps} \ {NULL} = Environment
  <2>1. DOMAIN Steps = 1 .. Len(Steps)
    BY StepsTable
  <2> QED BY <2>1 DEF Environment, Got
<1>5. EndsHoldingEnvironment
  BY <1>1, <1>4 DEF EndsHoldingEnvironment, AssocOK, AfterEnv
<1> QED BY <1>3, <1>5

\* A step that shortens an error path releases what is held, through a
\* structure that is held.
LEMMA ReleaseSound ==
  ASSUME StartInvariant, StartNext, NEW c \in Callers, todo'[c] # todo[c], pc[c] = "undo"
  PROVE  LET r == Head(todo[c])
         IN  /\ r \in held[c] \/ r = Steps[at[c]].gets
             /\ Owner(r) \in held[c] \union {NULL}
<1>1. ThreadTypeOK /\ HeldOK(c)
  BY DEF StartInvariant, CallerOK
<1>2. todo[c] # << >>
  <2>1. PICK d \in Callers : Fail(d) \/ Release(d)
    BY DEF StartNext, Configure, StartThread, vars, ThreadStep, XdpIfindex, EnvStep, Acquire, Return,
           AssocAlloc, AssocMac, AssocReady, GiveUp, Cleanup
  <2>2. todo \in [Callers -> Seq(Resources)]
    BY <1>1 DEF ThreadTypeOK
  <2>3. d = c
    BY <2>1, <2>2 DEF Fail, Release
  <2> QED BY <2>1, <2>3 DEF Fail, Release
<1> DEFINE u == Steps[at[c]].undo
<1>3. PICK k \in Nat : k < Len(u) /\ Undone(c, k) /\ Head(todo[c]) = u[k + 1]
  BY <1>1, <1>2, PathGoesOn
<1>4. held[c] = Got(at[c] - 1) \ {u[j] : j \in 1 .. k}
  BY <1>3 DEF Undone
<1>5. at[c] \in 1 .. 23
  BY <1>1, UndoSequence
<1>6. /\ u[k + 1] \in held[c] \/ u[k + 1] = Steps[at[c]].gets
      /\ Owner(u[k + 1]) \in held[c] \union {NULL}
  BY <1>3, <1>4, <1>5, NextRelease
<1> QED BY <1>3, <1>6

\* Every error path of the set-up gives back soundly, and it and the end of a
\* thread, where cleanup is not undefined, leave behind exactly what the code
\* forgets.
THEOREM PathsAlwaysReleaseSoundly == StartSpec => PathsReleaseSoundly
<1>1. StartInvariant /\ [StartNext]_startVars =>
        [\A c \in Callers : todo'[c] # todo[c] /\ pc[c] = "undo" =>
            LET r == Head(todo[c])
            IN  /\ r \in held[c] \/ r = Steps[at[c]].gets
                /\ Owner(r) \in held[c] \union {NULL}]_vars
  BY ReleaseSound DEF startVars
<1>2. StartInvariant => LeaksOnlyStackAndXdp /\ EndsHoldingEnvironment
  BY LeftBehind
<1> QED BY <1>1, <1>2, StartInvariantHolds, PTL DEF StartSpec, PathsReleaseSoundly, ReleasesSoundly
=============================================================================
