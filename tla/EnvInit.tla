------------------------------ MODULE EnvInit ------------------------------
(***************************************************************************)
(* Setting up the environment of an endpoint: kpnet_env_init, with         *)
(* create_umem_stack, xdp_open, eth_open and eth_close.  Every call that   *)
(* can fail is a step; a failure jumps to the labels that give back what   *)
(* was acquired, in the order the code runs through them.                  *)
(*                                                                         *)
(* A resource is named for the field that holds it.  Owner says which      *)
(* structure that field is in: to give a resource back the code reads it   *)
(* from there.                                                             *)
(***************************************************************************)
EXTENDS Integers, Sequences

CONSTANTS Callers,   \* the threads of create_client and create_server
          NULL       \* no resource

\* The fields, by their names.
Resources == {"env", "stack", "addrs", "xdp", "fd", "umem", "rx_ring_mmap", "tx_ring_mmap",
              "fill_ring_mmap", "completion_ring_mmap", "eth", "eth_fd"}

ASSUME NullAssumption == NULL \notin Resources /\ NULL \notin Nat

VARIABLES pc,        \* per caller: "acquire", "undo", "ready" or "failed"
          at,        \* the step of kpnet_env_init it has reached
          todo,      \* what the rest of the error path gives back
          held       \* resources it has acquired and not given back

vars == <<pc, at, todo, held>>

-----------------------------------------------------------------------------
\* A step acquires a resource, or none; on failure it gives back `undo'.
Step(gets, undo) == [gets |-> gets, undo |-> undo]

\* fault: env is freed before the stack that is read from it
EnvLabelsSwapped == <<"env", "stack">>

\* err_eth and err_xdp, then err_stack.  err_eth closes nothing of xdp, and
\* the stack is freed without its addrs.
EnvLabels == <<"stack", "env">>

StackSteps == << Step("stack", <<"env">>),
                 Step("addrs", <<"stack", "env">>) >>

\* The error labels of xdp_open, from err_bind down to err_malloc.
XdpLabels == <<"completion_ring_mmap", "fill_ring_mmap", "tx_ring_mmap",
               "rx_ring_mmap", "umem", "fd", "xdp">>

\* fault: the jump goes to the label below the right one
XdpUndoNext(k) == SubSeq(XdpLabels, k + 1, Len(XdpLabels)) \o EnvLabels

\* Jump to the k-th label and fall through the rest, then err_xdp.
XdpUndo(k) == SubSeq(XdpLabels, k, Len(XdpLabels)) \o EnvLabels

\* malloc, socket, mmap; XDP_UMEM_REG, the four ring sizes and the offsets;
\* the four mappings; bind
XdpSteps == << Step("xdp", XdpUndo(7)), Step("fd", XdpUndo(7)),
               Step("umem", XdpUndo(6)) >>
            \o [i \in 1 .. 6 |-> Step(NULL, XdpUndo(5))]
            \o << Step("rx_ring_mmap", XdpUndo(4)),
                  Step("tx_ring_mmap", XdpUndo(3)),
                  Step("fill_ring_mmap", XdpUndo(2)),
                  Step("completion_ring_mmap", XdpUndo(1)),
                  Step(NULL, XdpUndo(1)) >>

\* eth_close closes the descriptor, if socket gave one, and frees eth.
EthClose(hasFd) == (IF hasFd THEN <<"eth_fd">> ELSE << >>) \o <<"eth">>

\* calloc, socket; ioctl, bind and the two fcntls.  A failed setsockopt is
\* only reported.
EthSteps == << Step("eth", EnvLabels),
               Step("eth_fd", EthClose(FALSE) \o EnvLabels) >>
            \o [i \in 1 .. 4 |-> Step(NULL, EthClose(TRUE) \o EnvLabels)]

\* kpnet_env_init from malloc to return env
Steps == <<Step("env", << >>)>> \o StackSteps \o XdpSteps \o EthSteps

-----------------------------------------------------------------------------
Init == /\ pc = [c \in Callers |-> "acquire"]
        /\ at = [c \in Callers |-> 1]
        /\ todo = [c \in Callers |-> << >>]
        /\ held = [c \in Callers |-> {}]

\* The call succeeds.
Acquire(c) ==
  /\ pc[c] = "acquire"
  /\ held' = [held EXCEPT ![c] = @ \union ({Steps[at[c]].gets} \ {NULL})]
  /\ IF at[c] = Len(Steps)
     THEN pc' = [pc EXCEPT ![c] = "ready"] /\ UNCHANGED at
     ELSE at' = [at EXCEPT ![c] = @ + 1] /\ UNCHANGED pc
  /\ UNCHANGED todo

\* The call fails.
Fail(c) == /\ pc[c] = "acquire"
           /\ pc' = [pc EXCEPT ![c] = "undo"]
           /\ todo' = [todo EXCEPT ![c] = Steps[at[c]].undo]
           /\ UNCHANGED <<at, held>>

\* One free, munmap or close of the error path.
Release(c) == /\ pc[c] = "undo"
              /\ todo[c] # << >>
              /\ held' = [held EXCEPT ![c] = @ \ {Head(todo[c])}]
              /\ todo' = [todo EXCEPT ![c] = Tail(@)]
              /\ UNCHANGED <<pc, at>>

\* return NULL
Return(c) == /\ pc[c] = "undo"
             /\ todo[c] = << >>
             /\ pc' = [pc EXCEPT ![c] = "failed"]
             /\ UNCHANGED <<at, todo, held>>

Next == \E c \in Callers : Acquire(c) \/ Fail(c) \/ Release(c) \/ Return(c)

Spec == Init /\ [][Next]_vars

-----------------------------------------------------------------------------
(***************************************************************************)
(* Properties                                                              *)
(***************************************************************************)
XdpResources == {XdpLabels[i] : i \in DOMAIN XdpLabels}

\* The structure whose field holds resource r.
Owner(r) == CASE r = "env" -> NULL
              [] r \in {"stack", "xdp", "eth"} -> "env"
              [] r = "addrs" -> "stack"
              [] r = "eth_fd" -> "eth"
              [] OTHER -> "xdp"

\* A caller whose set-up failed has given back all it acquired, whichever
\* call failed, with two exceptions: the addresses of the chunk stack, whose
\* owner is freed without them, and the whole AF_XDP socket when eth_open
\* failed (err_eth: TODO! xdp_close).
LeaksOnlyStackAndXdp ==
  \A c \in Callers : pc[c] = "failed" =>
     LET failed == at[c] - 1 - Len(StackSteps)      \* counted from xdp_open
     IN  held[c] = (IF failed > 0 THEN {"addrs"} ELSE {})
                   \union (IF failed > Len(XdpSteps) THEN XdpResources ELSE {})

\* The error paths give back nothing twice and nothing through a structure
\* that is already freed.  What they give back is held, or is what the failed
\* call itself should have returned: free (NULL) and munmap (MAP_FAILED).
ReleasesSoundly ==
  [][\A c \in Callers : todo'[c] # todo[c] /\ pc[c] = "undo" =>
        LET r == Head(todo[c])
        IN  /\ r \in held[c] \/ r = Steps[at[c]].gets
            /\ Owner(r) \in held[c] \union {NULL}]_vars
=============================================================================
