------------------------------ MODULE Ringbuf ------------------------------
(***************************************************************************)
(* The lock-free ring of push_ringbuf.c and pop_ringbuf.c, one action per  *)
(* access to shared memory, for any number of threads that push and pop.   *)
(*                                                                         *)
(* A cell's sequence number says what may happen to it: a push at position *)
(* p needs seq = p, a pop at position p needs seq = p + 1.  The u64        *)
(* positions are naturals (2^64 operations are out of reach); `& mask' is  *)
(* `% Size', which is the same thing when Size is a power of two.          *)
(* An item stands for one argument pair of push_ringbuf: cell.packet = v   *)
(* is v's buffer and cell.plen = v is v's length, so that a cell whose two *)
(* fields come from different pushes is visible.                           *)
(***************************************************************************)
EXTENDS Integers, Sequences

CONSTANTS Size,     \* rb->size
          Threads,  \* callers of push_ringbuf and pop_ringbuf
          Items,    \* what is pushed
          NULL,     \* the content of a cell that was never written
          MaxPos    \* bound: no push is started once head has reached it

\* `pos & mask' is `pos % size' only for powers of two.  A ring of one cell
\* is excluded: there "free for the next push" (seq = pos + mask + 1) and
\* "published" (seq = pos + 1) are the same number.
ASSUME SizeAssumption == /\ Size \in Nat \ {0, 1}
                         /\ \E k \in 1 .. Size : Size = 2 ^ k
ASSUME NullAssumption == NULL \notin Items
ASSUME MaxPosAssumption == MaxPos \in Nat

VARIABLES head, tail,          \* rb->head, rb->tail
          seq, packet, plen,   \* rb->cells[i].seq, .packet, .plen
          pc, pos, arg,        \* per thread: control, local pos, argument
          pushed, popped       \* histories: claims of head, claims of tail

shared == <<head, tail, seq, packet, plen>>
history == <<pushed, popped>>
vars == <<head, tail, seq, packet, plen, pc, pos, arg, pushed, popped>>

Cells == 0 .. Size - 1
Cell(p) == p % Size

\* A cell's two data fields, as one record.
Entry(v, l) == [packet |-> v, plen |-> l]
Entries == [packet : Items \union {NULL}, plen : Items \union {NULL}]

PushLabels == {"push_seq", "push_cas", "push_reload",
               "push_packet", "push_plen", "push_publish"}
PopLabels == {"pop_seq", "pop_cas", "pop_reload", "pop_release",
              "read_packet", "read_plen"}
Labels == {"idle"} \union PushLabels \union PopLabels

\* Threads that own a position: between winning the CAS on head and the
\* store that publishes the cell, and between winning the CAS on tail and
\* the store that releases it.
Writing(t) == pc[t] \in {"push_packet", "push_plen", "push_publish"}
Releasing(t) == pc[t] = "pop_release"
Reading(t) == pc[t] \in {"read_packet", "read_plen"}

-----------------------------------------------------------------------------
(***************************************************************************)
(* create_ringbuf                                                          *)
(***************************************************************************)
Init == /\ head = 0 /\ tail = 0
        /\ seq = [c \in Cells |-> c]
        /\ packet = [c \in Cells |-> NULL]
        /\ plen = [c \in Cells |-> NULL]
        /\ pc = [t \in Threads |-> "idle"]
        /\ pos = [t \in Threads |-> 0]
        /\ arg = [t \in Threads |-> NULL]
        /\ pushed = << >> /\ popped = << >>

-----------------------------------------------------------------------------
(***************************************************************************)
(* Faulty variants of the operators below, for checking that the           *)
(* properties notice them.                                                 *)
(***************************************************************************)
Goto(t, from, to) == pc[t] = from /\ pc' = [pc EXCEPT ![t] = to]

\* a free cell (diff = 0) is reported as full
PushVerdictEqualIsFull(s, p) == IF s <= p THEN "idle" ELSE "push_reload"

\* head is stored without comparing
PushCasNoCompare(t) == /\ Goto(t, "push_cas", "push_packet")
                       /\ head' = pos[t] + 1
                       /\ pushed' = Append(pushed, Entry(arg[t], arg[t]))
                       /\ UNCHANGED <<tail, seq, packet, plen, pos, arg, popped>>

\* the retry keeps the stale position
PushReloadKeepsPos(t) == /\ Goto(t, "push_reload", "push_seq")
                         /\ UNCHANGED <<shared, pos, arg, history>>

\* the cell is published before its plen is written
PushPacketPublishes(t) == /\ Goto(t, "push_packet", "push_plen")
                          /\ packet' = [packet EXCEPT ![Cell(pos[t])] = arg[t]]
                          /\ seq' = [seq EXCEPT ![Cell(pos[t])] = pos[t] + 1]
                          /\ UNCHANGED <<head, tail, plen, pos, arg, history>>

\* a claimed but unpublished cell is popped
PopVerdictUnpublished(s, p) == IF s \in {p, p + 1} THEN "pop_cas"
                               ELSE IF s < p THEN "idle"
                               ELSE "pop_reload"

\* a lost race is reported as empty
PopVerdictLostIsEmpty(s, p) == IF s = p + 1 THEN "pop_cas" ELSE "idle"

\* the released cell gets pos + mask
PopReleaseShort(t) == /\ Goto(t, "pop_release", "read_packet")
                      /\ seq' = [seq EXCEPT ![Cell(pos[t])] = pos[t] + Size - 1]
                      /\ UNCHANGED <<head, tail, packet, plen, pos, arg, history>>

-----------------------------------------------------------------------------
(***************************************************************************)
(* push_ringbuf                                                            *)
(***************************************************************************)
\* pos = load (head)
PushStart(t, v) == /\ head < MaxPos
                   /\ Goto(t, "idle", "push_seq")
                   /\ pos' = [pos EXCEPT ![t] = head]
                   /\ arg' = [arg EXCEPT ![t] = v]
                   /\ UNCHANGED <<shared, history>>

\* What push_ringbuf does next, from the loaded seq: diff = seq - pos.
PushVerdict(s, p) == IF s = p THEN "push_cas"
                     ELSE IF s < p THEN "idle"        \* return -1: full
                     ELSE "push_reload"

PushLoadSeq(t) == /\ Goto(t, "push_seq", PushVerdict(seq[Cell(pos[t])], pos[t]))
                  /\ UNCHANGED <<shared, pos, arg, history>>

\* compare_exchange_weak (head, pos, pos + 1): on the x86 the build targets it
\* fails only when head differs from pos.
PushCas(t) == \/ /\ head = pos[t]
                 /\ Goto(t, "push_cas", "push_packet")
                 /\ head' = pos[t] + 1
                 /\ pushed' = Append(pushed, Entry(arg[t], arg[t]))
                 /\ UNCHANGED <<tail, seq, packet, plen, pos, arg, popped>>
              \/ /\ head # pos[t]
                 /\ Goto(t, "push_cas", "push_reload")
                 /\ UNCHANGED <<shared, pos, arg, history>>

\* pos = load (head) after a lost race
PushReload(t) == /\ Goto(t, "push_reload", "push_seq")
                 /\ pos' = [pos EXCEPT ![t] = head]
                 /\ UNCHANGED <<shared, arg, history>>

PushPacket(t) == /\ Goto(t, "push_packet", "push_plen")
                 /\ packet' = [packet EXCEPT ![Cell(pos[t])] = arg[t]]
                 /\ UNCHANGED <<head, tail, seq, plen, pos, arg, history>>

PushPlen(t) == /\ Goto(t, "push_plen", "push_publish")
               /\ plen' = [plen EXCEPT ![Cell(pos[t])] = arg[t]]
               /\ UNCHANGED <<head, tail, seq, packet, pos, arg, history>>

\* store (seq, pos + 1), return 0
PushPublish(t) == /\ Goto(t, "push_publish", "idle")
                  /\ seq' = [seq EXCEPT ![Cell(pos[t])] = pos[t] + 1]
                  /\ UNCHANGED <<head, tail, packet, plen, pos, arg, history>>

-----------------------------------------------------------------------------
(***************************************************************************)
(* pop_ringbuf, and the caller's reads of the cell it returns              *)
(***************************************************************************)
\* pos = load (tail)
PopStart(t) == /\ Goto(t, "idle", "pop_seq")
               /\ pos' = [pos EXCEPT ![t] = tail]
               /\ UNCHANGED <<shared, arg, history>>

\* What pop_ringbuf does next: diff = seq - (pos + 1).
PopVerdict(s, p) == IF s = p + 1 THEN "pop_cas"
                    ELSE IF s < p + 1 THEN "idle"     \* return NULL: empty
                    ELSE "pop_reload"

PopLoadSeq(t) == /\ Goto(t, "pop_seq", PopVerdict(seq[Cell(pos[t])], pos[t]))
                 /\ UNCHANGED <<shared, pos, arg, history>>

\* compare_exchange (tail, pos, pos + 1)
PopCas(t) == \/ /\ tail = pos[t]
                /\ Goto(t, "pop_cas", "pop_release")
                /\ tail' = pos[t] + 1
                /\ popped' = Append(popped, Entry(packet[Cell(pos[t])],
                                                  plen[Cell(pos[t])]))
                /\ UNCHANGED <<head, seq, packet, plen, pos, arg, pushed>>
             \/ /\ tail # pos[t]
                /\ Goto(t, "pop_cas", "pop_reload")
                /\ UNCHANGED <<shared, pos, arg, history>>

\* pos = load (tail) after a lost race
PopReload(t) == /\ Goto(t, "pop_reload", "pop_seq")
                /\ pos' = [pos EXCEPT ![t] = tail]
                /\ UNCHANGED <<shared, arg, history>>

\* store (seq, pos + mask + 1), return cell.  From here on the cell belongs
\* to the next push although the caller has not read it yet.
PopRelease(t) == /\ Goto(t, "pop_release", "read_packet")
                 /\ seq' = [seq EXCEPT ![Cell(pos[t])] = pos[t] + Size]
                 /\ UNCHANGED <<head, tail, packet, plen, pos, arg, history>>

\* The caller dereferences the returned cell: cell->packet, then cell->plen.
\* What it reads is packet[Cell(pos[t])] and plen[Cell(pos[t])] at that time.
ReadPacket(t) == /\ Goto(t, "read_packet", "read_plen")
                 /\ UNCHANGED <<shared, pos, arg, history>>

ReadPlen(t) == /\ Goto(t, "read_plen", "idle")
               /\ UNCHANGED <<shared, pos, arg, history>>

-----------------------------------------------------------------------------
PushStep(t) == \/ PushLoadSeq(t) \/ PushCas(t) \/ PushReload(t)
               \/ PushPacket(t) \/ PushPlen(t) \/ PushPublish(t)

PopStep(t) == \/ PopLoadSeq(t) \/ PopCas(t) \/ PopReload(t)
              \/ PopRelease(t) \/ ReadPacket(t) \/ ReadPlen(t)

Step(t) == PushStep(t) \/ PopStep(t)

Call(t) == PopStart(t) \/ \E v \in Items : PushStart(t, v)

Next == \E t \in Threads : Call(t) \/ Step(t)

Spec == Init /\ [][Next]_vars

-----------------------------------------------------------------------------
(***************************************************************************)
(* Properties                                                              *)
(***************************************************************************)
\* Every variable has its type; the positions never exceed the claims made.
TypeOK == /\ head \in Nat /\ tail \in Nat
          /\ seq \in [Cells -> Nat]
          /\ packet \in [Cells -> Items \union {NULL}]
          /\ plen \in [Cells -> Items \union {NULL}]
          /\ pc \in [Threads -> Labels]
          /\ pos \in [Threads -> Nat]
          /\ arg \in [Threads -> Items \union {NULL}]
          /\ pushed \in Seq(Entries) /\ popped \in Seq(Entries)

\* Exclusive access, the reason for the sequence numbers: two threads that
\* are between their CAS and their store of seq never have the same cell,
\* whether both push, both pop, or one pushes and the other pops.
CellOwnership == \A t, u \in Threads :
                    /\ t # u
                    /\ Writing(t) \/ Releasing(t)
                    /\ Writing(u) \/ Releasing(u)
                    => Cell(pos[t]) # Cell(pos[u])

\* pop_ringbuf releases the cell before its caller reads it, so the caller
\* may read a later push.  It reads the item it popped, both fields of it,
\* for as long as fewer than Size further positions have been claimed by
\* pushes; only a push that laps the ring can overwrite the cell.
ReadIntactUntilLapped ==
  \A t \in Threads :
     Reading(t) /\ head <= pos[t] + Size
     => Entry(packet[Cell(pos[t])], plen[Cell(pos[t])]) = popped[pos[t] + 1]

\* push_ringbuf returns -1 only when the ring is full: Size items are queued,
\* or the oldest of them was claimed by a pop that has not released it yet.
\* pop_ringbuf returns NULL only when the ring is empty, or when the oldest
\* item was claimed by a push that has not published it yet.
AnswersJustified ==
  [][\A t \in Threads : pc'[t] = "idle" =>
       /\ pc[t] = "push_seq" =>
            \/ head - tail = Size
            \/ \E u \in Threads : Releasing(u) /\ pos[u] = head - Size
       /\ pc[t] = "pop_seq" =>
            \/ head = tail
            \/ \E u \in Threads : Writing(u) /\ pos[u] = tail]_vars

\* Linearizability: the CAS on head puts and the CAS on tail takes, and in
\* that order the ring is a FIFO queue of Size entries: nothing is lost,
\* duplicated, reordered, or assembled from two pushes.
Fifo == INSTANCE BoundedFifo WITH Elements <- Entries, Capacity <- Size,
                                  in <- pushed, out <- popped
FifoRefinement == Fifo!Spec

\* Every call returns: the retry loops end once the competing calls do.
CallsReturn == \A t \in Threads : pc[t] # "idle" ~> pc[t] = "idle"
-----------------------------------------------------------------------------
(***************************************************************************)
(* The inductive invariant behind the properties                           *)
(***************************************************************************)
Content(c) == Entry(packet[c], plen[c])

\* At most Size positions are between tail and head.
Window == /\ tail <= head /\ head <= tail + Size
          /\ Len(pushed) = head /\ Len(popped) = tail

\* A claimed position is published with its item, or still being written.
ClaimedCells == \A p \in tail .. head - 1 :
                   \/ seq[Cell(p)] = p
                   \/ seq[Cell(p)] = p + 1 /\ Content(Cell(p)) = pushed[p + 1]

\* A free position is ready for its push, or waits for its pop's release.
FreeCells == \A p \in head .. tail + Size - 1 :
                seq[Cell(p)] \in {p, p + 1 - Size}

\* A push that won its CAS: its position is its own until it publishes.
WriterOK(t) ==
  Writing(t) =>
     /\ tail <= pos[t] /\ pos[t] < head
     /\ seq[Cell(pos[t])] = pos[t]
     /\ pushed[pos[t] + 1] = Entry(arg[t], arg[t])
     /\ pc[t] # "push_packet" => packet[Cell(pos[t])] = arg[t]
     /\ pc[t] = "push_publish" => plen[Cell(pos[t])] = arg[t]

\* A pop that won its CAS: nobody can push to its cell before it releases.
ReleaserOK(t) ==
  Releasing(t) =>
     /\ pos[t] < tail /\ head <= pos[t] + Size
     /\ seq[Cell(pos[t])] = pos[t] + 1
     /\ Content(Cell(pos[t])) = popped[pos[t] + 1]

\* A caller that reads a popped cell: intact until a push laps it.
ReaderOK(t) ==
  Reading(t) =>
     /\ pos[t] < tail
     /\ head <= pos[t] + Size => Content(Cell(pos[t])) = popped[pos[t] + 1]

\* A thread before its CAS: if the counter still is what it loaded, so is seq.
\* This is why comparing head (or tail) alone is enough.
CasOK(t) ==
  /\ pc[t] \in PushLabels => arg[t] \in Items
  /\ pc[t] \in {"push_seq", "push_cas", "push_reload"} => pos[t] <= head
  /\ pc[t] \in {"pop_seq", "pop_cas", "pop_reload"} => pos[t] <= tail
  /\ pc[t] = "push_cas" /\ pos[t] = head => seq[Cell(pos[t])] = pos[t]
  /\ pc[t] = "pop_cas" /\ pos[t] = tail => seq[Cell(pos[t])] = pos[t] + 1

\* Two writers, or two releasers, have different positions.
DistinctPositions ==
  \A t, u \in Threads :
     /\ t # u
     /\ (Writing(t) /\ Writing(u)) \/ (Releasing(t) /\ Releasing(u))
     => pos[t] # pos[u]

\* The state of every cell, of every thread inside a call, and of the
\* histories fit together; this is what each atomic access preserves.
RingInvariant == /\ TypeOK
                 /\ Window
                 /\ ClaimedCells
                 /\ FreeCells
                 /\ \A t \in Threads :
                       WriterOK(t) /\ ReleaserOK(t) /\ ReaderOK(t) /\ CasOK(t)
                 /\ DistinctPositions
=============================================================================
