------------------------------ MODULE NetSetup ------------------------------
(***************************************************************************)
(* Setting up the two ends of a veth pair over rtnetlink, as main does it: *)
(* create_veth_pair, then up_if and bind_if on the index get_ifid returns, *)
(* all of it twice.  A second process may run the clean-up that main has   *)
(* in comments, delete_if (get_ifid (name)).                               *)
(*                                                                         *)
(* No helper looks at what the kernel answers.  get_ifid reads the index   *)
(* from its fixed place in the reply; when the reply is an error message,  *)
(* that place holds the length of the request.                             *)
(***************************************************************************)
EXTENDS Integers, Sequences, FiniteSets

CONSTANTS Main, Cleaner,  \* the two processes
          NameLens,       \* lengths of interface names (10 in if_packet.h)
          ForeignIndices, \* indices that links of others may have
          FirstIndices,   \* the index the kernel gives next, at the start
          MaxFaults,      \* bound: requests that fail on the way
          NoIndex         \* no answer yet

ASSUME NameLensAssumption == NameLens \subseteq 1 .. 15
ASSUME IndexAssumption == /\ ForeignIndices \subseteq Nat \ (0 .. 1)
                          /\ FirstIndices \subseteq Nat \ (0 .. 1)
                          /\ NoIndex \notin Nat

Procs == {Main, Cleaner}
Ends == {"client", "server"}        \* CLIENT_INAME and SERVER_INAME
Loopback == 1                       \* index of lo

VARIABLES nameLen,   \* length of each end's name
          links,     \* the kernel's links: index -> [name, up, addrs, gone]
          nextIndex, \* the kernel never uses an index again
          line,      \* each process's position in its script
          index,     \* what get_ifid returned for the call under way, or NoIndex
          request,   \* the request that was composed last
          noSocket,  \* script lines of main at which netlink_open failed
          unsent     \* <<process, line>> at which send failed

netVars == <<nameLen, links, nextIndex, line, index, request, noSocket, unsent>>

-----------------------------------------------------------------------------
(***************************************************************************)
(* Requests: a length, and attributes with their offset, their length and  *)
(* the attribute they are nested in (0: the message)                       *)
(***************************************************************************)
Align(n) == ((n + 3) \div 4) * 4
NlmsgLength(n) == 16 + n
RtaLength(n) == 4 + n
IfInfo == 16                        \* sizeof (struct ifinfomsg)
IfAddr == 8                         \* sizeof (struct ifaddrmsg)

Request(type, len, attrs) == [type |-> type, len |-> len, attrs |-> attrs]
Attr(at, len, inside) == [at |-> at, len |-> len, inside |-> inside]

\* get_ifid and get_iftype: IFLA_IFNAME after the ifinfomsg
GetLinkLen(n) == NlmsgLength(IfInfo) + RtaLength(nameLen[n] + 1)
GetLink(n) == Request("GETLINK", GetLinkLen(n),
                      <<Attr(NlmsgLength(IfInfo), RtaLength(nameLen[n] + 1), 0)>>)

SetLink(type) == Request(type, Align(NlmsgLength(IfInfo)), << >>)

NewAddr == LET a == NlmsgLength(IfAddr)
               b == Align(a + Align(RtaLength(4)))
           IN  Request("NEWADDR", b + Align(RtaLength(4)),
                       <<Attr(a, RtaLength(4), 0), Attr(b, RtaLength(4), 0)>>)

\* fault: IFLA_LINKINFO does not grow with the peer nested in it
NewLinkPeerOutside ==
  LET name   == RtaLength(nameLen["client"] + 1)
      infoAt == Align(NlmsgLength(IfInfo) + name)
      kindAt == infoAt + RtaLength(0)
      kind   == RtaLength(5)
      dataAt == kindAt + Align(kind)
      peerAt == dataAt + RtaLength(0)
      peer   == RtaLength(nameLen["server"] + 1)
      veth   == RtaLength(IfInfo) + Align(peer)
      data   == RtaLength(0) + Align(veth)
      info   == RtaLength(0) + Align(kind)
  IN  Request("NEWLINK", Align(infoAt + RtaLength(0) + Align(kind))
                           + Align(info) - RtaLength(0),
              << Attr(NlmsgLength(IfInfo), name, 0), Attr(infoAt, info, 0),
                 Attr(kindAt, kind, 2), Attr(dataAt, data, 2),
                 Attr(peerAt, veth, 4),
                 Attr(peerAt + RtaLength(0) + Align(IfInfo), peer, 5) >>)

\* create_veth_pair: the name, and in IFLA_LINKINFO the kind "veth" and, two
\* levels down, the peer with its own ifinfomsg and name
NewLink ==
  LET name   == RtaLength(nameLen["client"] + 1)
      infoAt == Align(NlmsgLength(IfInfo) + name)
      kindAt == infoAt + RtaLength(0)
      kind   == RtaLength(5)
      dataAt == kindAt + Align(kind)
      peerAt == dataAt + RtaLength(0)
      peer   == RtaLength(nameLen["server"] + 1)
      veth   == RtaLength(IfInfo) + Align(peer)
      data   == RtaLength(0) + Align(veth)
      info   == RtaLength(0) + Align(kind) + Align(data)
  IN  Request("NEWLINK", Align(infoAt + RtaLength(0) + Align(kind))
                           + Align(info) - RtaLength(0),
              << Attr(NlmsgLength(IfInfo), name, 0), Attr(infoAt, info, 0),
                 Attr(kindAt, kind, 2), Attr(dataAt, data, 2),
                 Attr(peerAt, veth, 4),
                 Attr(peerAt + RtaLength(0) + Align(IfInfo), peer, 5) >>)

-----------------------------------------------------------------------------
(***************************************************************************)
(* The kernel                                                              *)
(***************************************************************************)
Link(name) == [name |-> name, up |-> FALSE, addrs |-> {}, gone |-> FALSE]

Present(i) == i \in DOMAIN links /\ ~links[i].gone
Named(n) == {i \in DOMAIN links : links[i].name = n /\ Present(i)}

\* NLM_F_EXCL: nothing is created over a name in use.  The peer comes first.
AddPair == IF Named("client") \union Named("server") # {}
           THEN UNCHANGED <<links, nextIndex>>
           ELSE /\ links' = [i \in DOMAIN links \union {nextIndex, nextIndex + 1} |->
                               IF i = nextIndex THEN Link("server")
                               ELSE IF i = nextIndex + 1 THEN Link("client")
                               ELSE links[i]]
                /\ nextIndex' = nextIndex + 2

SetUp(i) == links' = IF Present(i) THEN [links EXCEPT ![i].up = TRUE] ELSE links

AddAddr(i, a) == links' = IF Present(i)
                          THEN [links EXCEPT ![i].addrs = @ \union {a}] ELSE links

\* Both ends of a pair go together.
Remove(i) == links' = IF ~Present(i) THEN links
                      ELSE [j \in DOMAIN links |->
                              [links[j] EXCEPT
                                 !.gone = @ \/ j = i \/ {links[i].name, links[j].name} = Ends]]

-----------------------------------------------------------------------------
(***************************************************************************)
(* The processes                                                           *)
(***************************************************************************)
Create == [op |-> "create"]
Up(n) == [op |-> "up", name |-> n]
Bind(n) == [op |-> "bind", name |-> n, addr |-> n]
Delete(n) == [op |-> "delete", name |-> n]

Pass == <<Create, Up("client"), Up("server"), Bind("client"), Bind("server")>>

\* fault: the second pass takes the pair for granted
MainScriptNoCreate == Pass \o Tail(Pass)

MainScript == Pass \o Pass
CleanScript == <<Delete("client"), Delete("server")>>
Script(p) == IF p = Main THEN MainScript ELSE CleanScript

Running(p) == line[p] <= Len(Script(p)) /\ <<p, line[p]>> \notin unsent
Op(p) == Script(p)[line[p]]

NetInit ==
  /\ nameLen \in [Ends -> NameLens]
  /\ \E foreign \in SUBSET ForeignIndices, n \in FirstIndices :
        /\ \A i \in foreign : i < n
        /\ links = [i \in {Loopback} \union foreign |-> Link("other")]
        /\ nextIndex = n
  /\ \E c \in {1, Len(CleanScript) + 1} :        \* with or without a clean-up
        line = [p \in Procs |-> IF p = Main THEN 1 ELSE c]
  /\ index = [p \in Procs |-> NoIndex]
  /\ request = Request("NONE", 0, << >>)
  /\ noSocket = {} /\ unsent = {}

Faults == Cardinality(noSocket) + Cardinality(unsent)

\* netlink_open, send and netlink_close around one request.  When there is no
\* socket, or send fails, the kernel does not see the request and nobody
\* notices.
Advance(p) == /\ line' = [line EXCEPT ![p] = @ + 1]
              /\ index' = [index EXCEPT ![p] = NoIndex]

NotReceived(p) ==
  /\ Faults < MaxFaults /\ p = Main
  /\ noSocket' = noSocket \union {line[p]}
  /\ UNCHANGED <<links, nextIndex, unsent>>

Received == UNCHANGED <<noSocket, unsent>>

CreateVethPair(p) ==
  /\ Running(p) /\ Op(p).op = "create"
  /\ request' = NewLink
  /\ \/ Received /\ AddPair
     \/ NotReceived(p)
  /\ Advance(p) /\ UNCHANGED nameLen

\* fault: the index is taken from where an error repeats nlmsg_seq, which is 1
IndexOfError(n) == IF Named(n) # {} THEN CHOOSE i \in Named(n) : TRUE ELSE 1

\* ifi_index of the reply; of an NLMSG_ERROR it is nlmsg_len of the request
\* that the error message repeats.
IndexInReply(n) == IF Named(n) # {} THEN CHOOSE i \in Named(n) : TRUE
                   ELSE GetLinkLen(n)

\* fault: nothing is sent for an interface that does not exist
GetIfidSilent(p) ==
  /\ Running(p) /\ Op(p).op # "create" /\ index[p] = NoIndex
  /\ Named(Op(p).name) # {}
  /\ request' = GetLink(Op(p).name)
  /\ index' = [index EXCEPT ![p] = IndexInReply(Op(p).name)]
  /\ Received
  /\ UNCHANGED <<nameLen, links, nextIndex, line>>

\* get_ifid.  Without a socket the reply stays all zeros.  When only send
\* fails, recv waits for a reply that nobody sends.
GetIfid(p) ==
  /\ Running(p) /\ Op(p).op # "create" /\ index[p] = NoIndex
  /\ request' = GetLink(Op(p).name)
  /\ \/ /\ index' = [index EXCEPT ![p] = IndexInReply(Op(p).name)]
        /\ Received
     \/ /\ Faults < MaxFaults /\ p = Main
        /\ index' = [index EXCEPT ![p] = 0]
        /\ noSocket' = noSocket \union {line[p]}
        /\ UNCHANGED unsent
     \/ /\ Faults < MaxFaults /\ p = Main
        /\ unsent' = unsent \union {<<p, line[p]>>}
        /\ UNCHANGED <<index, noSocket>>
  /\ UNCHANGED <<nameLen, links, nextIndex, line>>

UpIf(p) == /\ Running(p) /\ Op(p).op = "up" /\ index[p] # NoIndex
           /\ request' = SetLink("NEWLINK")
           /\ \/ Received /\ SetUp(index[p]) /\ UNCHANGED nextIndex
              \/ NotReceived(p)
           /\ Advance(p) /\ UNCHANGED nameLen

BindIf(p) == /\ Running(p) /\ Op(p).op = "bind" /\ index[p] # NoIndex
             /\ request' = NewAddr
             /\ \/ Received /\ AddAddr(index[p], Op(p).addr) /\ UNCHANGED nextIndex
                \/ NotReceived(p)
             /\ Advance(p) /\ UNCHANGED nameLen

DeleteIf(p) == /\ Running(p) /\ Op(p).op = "delete" /\ index[p] # NoIndex
               /\ request' = SetLink("DELLINK")
               /\ Received /\ Remove(index[p]) /\ UNCHANGED nextIndex
               /\ Advance(p) /\ UNCHANGED nameLen

NetStep(p) == CreateVethPair(p) \/ GetIfid(p) \/ UpIf(p) \/ BindIf(p) \/ DeleteIf(p)

-----------------------------------------------------------------------------
(***************************************************************************)
(* Properties                                                              *)
(***************************************************************************)
\* Every request create_veth_pair, bind_if and get_ifid compose is well
\* formed whatever the lengths of the names: attributes are aligned, do not
\* overlap, lie inside the one they are nested in, and the message covers
\* them and fits in its buffer of 4096 bytes.
AttributesInside ==
  LET as == request.attrs
      End(i) == IF i = 0 THEN request.len ELSE as[i].at + as[i].len
  IN  /\ request.len <= 4096
      /\ \A i \in DOMAIN as :
            /\ as[i].at % 4 = 0
            /\ as[i].at + as[i].len <= End(as[i].inside)
            /\ \A j \in DOMAIN as :
                  as[j].inside = as[i].inside /\ as[i].at < as[j].at
                  => as[i].at + as[i].len <= as[j].at

\* The set-up and the clean-up leave the links of others alone, also when an
\* end does not exist (yet, or any more) or a request is lost: with the
\* exception of a link whose index is the length of the request by which
\* get_ifid asked for the missing end.
ForeignLinksIntact ==
  \A i \in DOMAIN links :
     links[i].name = "other" /\ i \notin {GetLinkLen(n) : n \in Ends}
     => links[i] = Link("other")

\* What the set-up asks of the kernel is well formed and is about its own
\* links.
RequestsSound == AttributesInside /\ ForeignLinksIntact

\* Doing everything twice repairs whatever went wrong in the first pass: when
\* main is through, no request of the second pass failed and nobody cleaned
\* up, both ends exist, are up and have their own address, and no other.
SecondPassRepairs ==
  /\ line[Main] > Len(MainScript)
  /\ \A k \in noSocket : k <= Len(Pass)
  /\ \A i \in DOMAIN links : ~links[i].gone
  => \A n \in Ends : \E i \in Named(n) : links[i].up /\ links[i].addrs = {n}

\* main gets through its set-up, whichever requests are refused, unless a
\* request of get_ifid was not sent: then it waits for the reply for ever.
SetupEnds == <>(line[Main] > Len(MainScript) \/ unsent # {})
=============================================================================
