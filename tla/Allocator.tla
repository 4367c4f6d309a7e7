----------------------------- MODULE Allocator -----------------------------
(***************************************************************************)
(* create_allocator: a ring buffer filled with as many memory blocks as it *)
(* has cells.  Allocating is pop_ringbuf followed by a read of the         *)
(* returned cell's packet; freeing is push_ringbuf, whose result every     *)
(* caller ignores.                                                         *)
(*                                                                         *)
(* pop_ringbuf releases the cell before its caller has read the block out  *)
(* of it.  What keeps two owners from getting the same block is that one   *)
(* thread only allocates: recv_sctp_packet for the receive buffers, the    *)
(* client thread for the timer nodes.  Any thread may free a block that    *)
(* was handed to it.                                                       *)
(***************************************************************************)
EXTENDS Ringbuf, FiniteSets

CONSTANT Popper   \* the thread that allocates

ASSUME PopperAssumption == Popper \in Threads
VARIABLE held   \* blocks each thread has a pointer to

allocVars == <<vars, held>>

\* The blocks are numbered: block c is the one create_allocator allocates
\* c-th, and there are as many as cells.
BlocksFillRing == Items = Cells

\* The ring after the Size pushes of create_allocator.
AllocInit == /\ head = Size /\ tail = 0
             /\ seq = [c \in Cells |-> c + 1]
             /\ packet = [c \in Cells |-> c]
             /\ plen = [c \in Cells |-> c]
             /\ pc = [t \in Threads |-> "idle"]
             /\ pos = [t \in Threads |-> 0]
             /\ arg = [t \in Threads |-> NULL]
             /\ pushed = [i \in 1 .. Size |-> Entry(i - 1, i - 1)]
             /\ popped = << >>
             /\ held = [t \in Threads |-> {}]

\* fault: every thread allocates
AllocAnyThread(t) == PopStart(t) /\ UNCHANGED held

\* cell = pop_ringbuf (allocator), retried by the caller while it is NULL
Alloc(t) == t = Popper /\ PopStart(t) /\ UNCHANGED held

\* buffer = cell->packet
ReadBlock(t) == /\ ReadPacket(t)
                /\ held' = [held EXCEPT ![t] = @ \union {packet[Cell(pos[t])]}]

\* fault: the pointer survives the free
FreeKeepsPointer(t, b) == b \in held[t] /\ PushStart(t, b) /\ UNCHANGED held

\* push_ringbuf (allocator, b, ...): the caller forgets b as it calls
Free(t, b) == /\ b \in held[t]
              /\ PushStart(t, b)
              /\ held' = [held EXCEPT ![t] = @ \ {b}]

\* push_ringbuf (rb, buffer, size): a received packet goes to its consumer
Handoff(t, u, b) == /\ t # u
                    /\ pc[t] = "idle"
                    /\ b \in held[t]
                    /\ held' = [held EXCEPT ![t] = @ \ {b}, ![u] = @ \union {b}]
                    /\ UNCHANGED vars

RingStep(t) == /\ \/ PushStep(t)
                  \/ PopLoadSeq(t) \/ PopCas(t) \/ PopReload(t)
                  \/ PopRelease(t) \/ ReadPlen(t)
               /\ UNCHANGED held

AllocNext == \E t \in Threads :
                \/ Alloc(t)
                \/ ReadBlock(t)
                \/ RingStep(t)
                \/ \E b \in Items : Free(t, b)
                \/ \E u \in Threads, b \in Items : Handoff(t, u, b)

AllocSpec == AllocInit /\ [][AllocNext]_allocVars

\* A thread that started a call goes on with it.
AllocFair == /\ AllocSpec
             /\ \A t \in Threads : WF_allocVars(RingStep(t) \/ ReadBlock(t))

-----------------------------------------------------------------------------
(***************************************************************************)
(* Properties                                                              *)
(***************************************************************************)
\* Where block b is: in the ring (from the CAS on head to the CAS on tail),
\* popped and not read yet, in the hands of a thread, or on its way back.
Queued(b) == {p \in tail .. head - 1 : pushed[p + 1].packet = b}
Unread(b) == {t \in Threads : /\ pc[t] \in {"pop_release", "read_packet"}
                              /\ popped[pos[t] + 1].packet = b}
Owned(b) == {t \in Threads : b \in held[t]}
Going(b) == {t \in Threads : /\ pc[t] \in {"push_seq", "push_cas", "push_reload"}
                             /\ arg[t] = b}

Places(b) == ({"queued"} \X Queued(b)) \union ({"unread"} \X Unread(b))
               \union ({"owned"} \X Owned(b)) \union ({"going"} \X Going(b))

\* A block has one place at any time: no two owners, never both free and in
\* use.  It is not lost when it is freed, although nobody looks at the result
\* of push_ringbuf; and the block a caller reads out of a cell that is already
\* released is the one it popped, although others free blocks meanwhile.
OnePlace == \A b \in Items : Cardinality(Places(b)) = 1
=============================================================================
