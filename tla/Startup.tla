------------------------------ MODULE Startup ------------------------------
(***************************************************************************)
(* A process from main to the end of its endpoint thread: NetSetup, then   *)
(* the thread of create_client or create_server, which sets up its         *)
(* environment (EnvInit), creates the association (sctp_assoc_create) and  *)
(* ends in the cleanup label.                                              *)
(*                                                                         *)
(* Between the set-up and the thread stands the kernel: xdp_open asks it   *)
(* for the index of its interface by get_ifid, eth_open by an ioctl,       *)
(* sctp_assoc_create for two MAC addresses.                                *)
(***************************************************************************)
EXTENDS NetSetup, EnvInit

ASSUME CallersAssumption == Callers \subseteq Ends /\ NULL \notin Ends

VARIABLES thread,    \* the caller main has started as a thread, or NULL
          ifindex,   \* sxdp_ifindex of each caller's AF_XDP socket, or NULL
          assocPtr   \* whether the caller's variable assoc is not NULL

startVars == <<netVars, vars, thread, ifindex, assocPtr>>

StartInit == /\ NetInit /\ Init
             /\ thread = NULL
             /\ ifindex = [c \in Callers |-> NULL]
             /\ assocPtr = [c \in Callers |-> FALSE]

\* The set-up of main, and the clean-up of the other process.
Configure(p) == NetStep(p) /\ UNCHANGED <<vars, thread, ifindex, assocPtr>>

\* pthread_create, or main returns.  A process runs one of the two endpoints
\* (the client: the call that would start the server is a comment).
StartThread == /\ thread = NULL /\ line[Main] > Len(MainScript)
               /\ thread' \in Callers \union {"refused"}
               /\ UNCHANGED <<netVars, vars, ifindex, assocPtr>>

-----------------------------------------------------------------------------
(***************************************************************************)
(* kpnet_env_init, where it depends on the links                           *)
(***************************************************************************)
Iname(c) == c                        \* CLIENT_INAME, SERVER_INAME
Peer(c) == CHOOSE n \in Ends : n # c

XdpBind == 1 + Len(StackSteps) + Len(XdpSteps)
EthIndex == XdpBind + 3              \* ioctl (SIOCGIFINDEX)

\* sockaddr.sxdp_ifindex = get_ifid (device); 0 when there is no socket.
XdpIfindex(c) ==
  /\ thread = c /\ pc[c] = "acquire" /\ at[c] = XdpBind /\ ifindex[c] = NULL
  /\ \E i \in {IndexInReply(Iname(c)), 0} : ifindex' = [ifindex EXCEPT ![c] = i]
  /\ UNCHANGED <<netVars, vars, thread, assocPtr>>

\* fault: eth_open goes on without an interface of that name
CanAcquireAnyEth(c) ==
  at[c] = XdpBind => ifindex[c] # NULL /\ Present(ifindex[c])

\* bind needs a link with that index, the ioctl one with that name.
CanAcquire(c) == /\ at[c] = XdpBind => ifindex[c] # NULL /\ Present(ifindex[c])
                 /\ at[c] = EthIndex => Named(Iname(c)) # {}

EnvStep(c) == /\ thread = c
              /\ \/ Acquire(c) /\ CanAcquire(c)
                 \/ Fail(c) /\ (at[c] = XdpBind => ifindex[c] # NULL)
                 \/ Release(c)
                 \/ Return(c)
              /\ UNCHANGED <<netVars, thread, ifindex, assocPtr>>

-----------------------------------------------------------------------------
(***************************************************************************)
(* sctp_assoc_create.  Its error returns give nothing back.                *)
(***************************************************************************)
Goto(c, l) == pc' = [pc EXCEPT ![c] = l]
Keep(c, rs) == held' = [held EXCEPT ![c] = @ \union rs]

\* malloc and the three blocks of the slab
AssocAlloc(c) ==
  /\ pc[c] = "ready"
  /\ \/ Goto(c, "cleanup") /\ UNCHANGED held
     \/ Goto(c, "cleanup") /\ Keep(c, {"assoc"})
     \/ Goto(c, "gateway") /\ Keep(c, {"assoc"})
  /\ UNCHANGED <<netVars, at, todo, thread, ifindex, assocPtr>>

\* get_ifmac (gw_ifname, ...), then (dev_ifname, ...): of get_iftype it wants
\* the six bytes of IFLA_ADDRESS.  An error message is taken to have none: it
\* repeats the process id where the first attribute would be, and only one
\* id in four million looks like a MAC address.
GetIfmac(c, n) == Named(n) # {}

AssocMac(c, from, n, to) ==
  /\ pc[c] = from
  /\ \/ GetIfmac(c, n) /\ Goto(c, to)
     \/ Goto(c, "cleanup")
  /\ UNCHANGED <<netVars, at, todo, held, thread, ifindex, assocPtr>>

\* The allocator and the ring of the association; the client goes on with
\* its timer and its loop (T1Client), the server is through.
AssocReady(c) ==
  /\ pc[c] = "mac"
  /\ assocPtr' = [assocPtr EXCEPT ![c] = TRUE]
  /\ IF c = "client"
     THEN Goto(c, "loop") /\ Keep(c, {"allocator_64", "bundling", "events", "timer"})
     ELSE Goto(c, "cleanup") /\ Keep(c, {"allocator_64", "bundling"})
  /\ UNCHANGED <<netVars, at, todo, thread, ifindex>>

\* INIT ERROR: handshake_retrans exceeded its limit
GiveUp(c) == /\ pc[c] = "loop"
             /\ Goto(c, "cleanup")
             /\ UNCHANGED <<netVars, at, todo, held, thread, ifindex, assocPtr>>

Freed(c) == IF c = "client" /\ assocPtr[c] THEN {"assoc"} ELSE {}

\* fault: the environment's own eth is closed
CleanupClosesEth(c) ==
  /\ pc[c] = "cleanup"
  /\ Goto(c, "ended")
  /\ held' = [held EXCEPT ![c] = @ \ (Freed(c) \union {"eth", "eth_fd"})]
  /\ UNCHANGED <<netVars, at, todo, thread, ifindex, assocPtr>>

\* eth_close (eth) and free (frame) on two variables that were never set:
\* nothing happens if they happen to be NULL, anything if they are not.
Cleanup(c) ==
  /\ pc[c] = "cleanup"
  /\ \/ Goto(c, "ended") /\ held' = [held EXCEPT ![c] = @ \ Freed(c)]
     \/ Goto(c, "undefined") /\ UNCHANGED held
  /\ UNCHANGED <<netVars, at, todo, thread, ifindex, assocPtr>>

ThreadStep(c) == \/ XdpIfindex(c) \/ EnvStep(c)
                 \/ AssocAlloc(c)
                 \/ AssocMac(c, "gateway", Iname(c), "dev")
                 \/ AssocMac(c, "dev", Peer(c), "mac")
                 \/ AssocReady(c) \/ GiveUp(c) \/ Cleanup(c)

StartNext == \/ \E p \in Procs : Configure(p)
             \/ StartThread
             \/ \E c \in Callers : ThreadStep(c)

StartSpec == StartInit /\ [][StartNext]_startVars

\* main runs.
StartFair == StartSpec /\ WF_startVars(Configure(Main))

-----------------------------------------------------------------------------
(***************************************************************************)
(* Properties                                                              *)
(***************************************************************************)
\* An environment that is set up has its AF_XDP socket on the interface it
\* was asked for.  get_ifid may have returned the index of another link, to
\* which bind then succeeds; but only for a name that does not exist, and
\* over that eth_open fails.
ReadyOnOwnLink ==
  \A c \in Callers :
     pc[c] \in {"ready", "gateway", "dev", "mac", "loop"}
     => links[ifindex[c]].name = Iname(c)

\* What a thread leaves behind when it ends and its uninitialised variables
\* happened to be NULL: the whole environment, and the association with what
\* hangs on it, of which only the client frees the outermost structure, and
\* only when sctp_assoc_create returned it.
EndsHoldingEnvironment ==
  \A c \in Callers : pc[c] = "ended" =>
     LET env == {Steps[i].gets : i \in DOMAIN Steps} \ {NULL}
         more == held[c] \ env
     IN  /\ env \subseteq held[c]
         /\ assocPtr[c] => {"allocator_64", "bundling"} \subseteq more
         /\ ~assocPtr[c] => more \subseteq {"assoc"}
         /\ "assoc" \in more /\ assocPtr[c] => c = "server"

\* Every error path of the set-up gives back soundly: no label releases twice
\* or through a freed structure, and what is left behind, there and at the end
\* of a thread, is exactly what the three parts say.  A thread whose cleanup
\* frees what was never set has no end to speak of ("undefined") and is left
\* out.
PathsReleaseSoundly ==
  ReleasesSoundly /\ [](LeaksOnlyStackAndXdp /\ EndsHoldingEnvironment)
=============================================================================
