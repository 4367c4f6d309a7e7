------------------------------ MODULE XdpUmem ------------------------------
(***************************************************************************)
(* The receive side of the AF_XDP socket and the memory it shares with the *)
(* slab allocator: umem_stack_pop/push, xdp_fill, xdp_rx, slab_alloc_64b   *)
(* and slab_free_64b.  One user thread; the kernel runs concurrently and   *)
(* takes chunks from the fill ring to the rx ring.                         *)
(***************************************************************************)
EXTENDS XdpRing

CONSTANTS Chunks,   \* the chunks of the umem
          Lines,    \* 64-byte blocks of a chunk
          MaxN      \* largest max_n passed to xdp_fill and xdp_rx

ASSUME LinesAssumption == Lines \in Nat \ {0}
ASSUME MaxNAssumption == MaxN \in Nat
ASSUME ChunksAssumption == IsFiniteSet(Chunks) /\ NULL \notin Chunks

VARIABLES stack,                    \* umem_stack: addrs[0 .. top - 1]
          fill, rx,                 \* the rings: [prod, cons, slot]
          kernel,                   \* chunks the kernel is filling
          app,                      \* received chunks the caller works on
          pc, n, out,               \* the call in progress: label, n, addresses
          freeList, link, cur, inUse  \* slab: free_list, *(u0 **)ptr, cur_pos

rings == <<fill, rx>>
slab == <<freeList, link, cur, inUse>>
vars == <<stack, fill, rx, kernel, app, pc, n, out, freeList, link, cur, inUse>>

Blocks == Chunks \X (0 .. Lines - 1)

\* No block is at the null pointer.
ASSUME NullAssumption == NULL \notin Blocks

-----------------------------------------------------------------------------
\* create_umem_stack, xdp_open and the state_alloc of kpnet_env_init.
Init == /\ stack \in [1 .. Cardinality(Chunks) -> Chunks]
        /\ Elems(stack) = Chunks
        /\ fill = EmptyRing /\ rx = EmptyRing
        /\ kernel = {} /\ app = {}
        /\ pc = "idle" /\ n = 0 /\ out = << >>
        /\ freeList = NULL /\ cur = <<NULL, Lines>>
        /\ link = [b \in Blocks |-> NULL]
        /\ inUse = {}

\* umem_stack_pop on a stack that is not empty
PopChunk == SubSeq(stack, 1, Len(stack) - 1)
Top == stack[Len(stack)]

-----------------------------------------------------------------------------
(***************************************************************************)
(* xdp_fill: read the counters, store n addresses, publish                 *)
(***************************************************************************)
FillBegin(m) == /\ pc = "idle"
                /\ n' = Smaller(FreeEntries(fill), m)
                /\ pc' = IF n' = 0 THEN "idle" ELSE "fill_store"
                /\ UNCHANGED <<stack, rings, kernel, app, out, slab>>

\* fault: what was asked for is published, not what was stored
FillStoreUncut ==
  LET k == Smaller(n, Len(stack))
      addrs == [i \in 1 .. k |-> stack[Len(stack) + 1 - i]]
  IN  /\ pc = "fill_store"
      /\ fill' = Store(fill, addrs)
      /\ out' = addrs
      /\ stack' = SubSeq(stack, 1, Len(stack) - k)
      /\ pc' = "fill_publish"
      /\ UNCHANGED <<rx, kernel, app, n, slab>>

\* The loop; a stack that runs out cuts n short.
FillStore ==
  LET k == Smaller(n, Len(stack))
      addrs == [i \in 1 .. k |-> stack[Len(stack) + 1 - i]]
  IN  /\ pc = "fill_store"
      /\ fill' = Store(fill, addrs)
      /\ out' = addrs
      /\ stack' = SubSeq(stack, 1, Len(stack) - k)
      /\ n' = k
      /\ pc' = "fill_publish"
      /\ UNCHANGED <<rx, kernel, app, slab>>

FillPublish == /\ pc = "fill_publish"
               /\ fill' = Produce(fill, n)
               /\ out' = << >> /\ n' = 0
               /\ pc' = "idle"
               /\ UNCHANGED <<stack, rx, kernel, app, slab>>

-----------------------------------------------------------------------------
(***************************************************************************)
(* xdp_rx: read the counters, copy n descriptors, give the slots back      *)
(***************************************************************************)
RxBegin(m) == /\ pc = "idle"
              /\ n' = Smaller(Count(rx), m)
              /\ pc' = IF n' = 0 THEN "idle" ELSE "rx_copy"
              /\ UNCHANGED <<stack, rings, kernel, app, out, slab>>

RxCopy == /\ pc = "rx_copy"
          /\ out' = Entries(rx, rx.cons, n)
          /\ pc' = "rx_publish"
          /\ UNCHANGED <<stack, rings, kernel, app, n, slab>>

RxPublish == /\ pc = "rx_publish"
             /\ rx' = Consume(rx, n)
             /\ app' = app \union Elems(out)
             /\ out' = << >> /\ n' = 0
             /\ pc' = "idle"
             /\ UNCHANGED <<stack, fill, kernel, slab>>

\* umem_stack_push: the caller is done with a received chunk.  A full stack
\* drops it.
Recycle(c) == /\ pc = "idle"
              /\ c \in app
              /\ app' = app \ {c}
              /\ stack' = IF Len(stack) = Cardinality(Chunks)
                          THEN stack ELSE Append(stack, c)
              /\ UNCHANGED <<rings, kernel, pc, n, out, slab>>

-----------------------------------------------------------------------------
(***************************************************************************)
(* slab_alloc_64b and slab_free_64b, with the free list threaded through   *)
(* the freed blocks                                                        *)
(***************************************************************************)
SlabReuse == /\ pc = "idle"
             /\ freeList # NULL
             /\ freeList' = link[freeList]
             /\ inUse' = inUse \union {freeList}
             /\ link' = [link EXCEPT ![freeList] = NULL]   \* the caller's now
             /\ UNCHANGED <<stack, rings, kernel, app, pc, n, out, cur>>

Carve(at) == /\ cur' = <<at[1], at[2] + 1>>
             /\ inUse' = inUse \union {at}

SlabCarve == /\ pc = "idle"
             /\ freeList = NULL /\ cur[2] < Lines
             /\ Carve(cur)
             /\ UNCHANGED <<stack, rings, kernel, app, pc, n, out, freeList, link>>

\* A new chunk from the stack the fill ring uses too.
SlabGrow == /\ pc = "idle"
            /\ freeList = NULL /\ cur[2] >= Lines /\ stack # << >>
            /\ stack' = PopChunk
            /\ Carve(<<Top, 0>>)
            /\ UNCHANGED <<rings, kernel, app, pc, n, out, freeList, link>>

\* fault: the block is not linked to the rest of the free list
SlabFreeUnlinked(b) == /\ pc = "idle"
                       /\ b \in inUse
                       /\ link' = [link EXCEPT ![b] = NULL]
                       /\ freeList' = b
                       /\ inUse' = inUse \ {b}
                       /\ UNCHANGED <<stack, rings, kernel, app, pc, n, out, cur>>

SlabFree(b) == /\ pc = "idle"
               /\ b \in inUse
               /\ link' = [link EXCEPT ![b] = freeList]
               /\ freeList' = b
               /\ inUse' = inUse \ {b}
               /\ UNCHANGED <<stack, rings, kernel, app, pc, n, out, cur>>

-----------------------------------------------------------------------------
(***************************************************************************)
(* The kernel: takes chunks off the fill ring, returns them filled on rx   *)
(***************************************************************************)
KernelTake == /\ Count(fill) > 0
              /\ kernel' = kernel \union {fill.slot[Slot(fill.cons)]}
              /\ fill' = Consume(fill, 1)
              /\ UNCHANGED <<stack, rx, app, pc, n, out, slab>>

KernelReceive(c) == /\ c \in kernel
                    /\ Count(rx) < Size
                    /\ kernel' = kernel \ {c}
                    /\ rx' = Produce(Store(rx, <<c>>), 1)
                    /\ UNCHANGED <<stack, fill, app, pc, n, out, slab>>

-----------------------------------------------------------------------------
Next == \/ \E m \in 0 .. MaxN : FillBegin(m) \/ RxBegin(m)
        \/ FillStore \/ FillPublish \/ RxCopy \/ RxPublish
        \/ \E c \in Chunks : Recycle(c) \/ KernelReceive(c)
        \/ SlabReuse \/ SlabCarve \/ SlabGrow
        \/ \E b \in Blocks : SlabFree(b)
        \/ KernelTake

Spec == Init /\ [][Next]_vars

-----------------------------------------------------------------------------
(***************************************************************************)
(* Properties                                                              *)
(***************************************************************************)
\* The free list, followed for as many blocks as there are.
FreeChain ==
  LET walk[i \in 0 .. Cardinality(Blocks)] ==
        IF i = 0 THEN freeList
        ELSE LET b == walk[i - 1] IN IF b = NULL THEN NULL ELSE link[b]
  IN  walk

FreeBlocks == {FreeChain[i] : i \in 0 .. Cardinality(Blocks)} \ {NULL}

\* Chunks the slab allocator has taken, and the blocks not carved from them.
SlabChunks == {b[1] : b \in inUse \union FreeBlocks}
Uncarved == {<<cur[1], k>> : k \in cur[2] .. Lines - 1}

\* Everywhere chunk c is; slabs are the chunks of the slab allocator.
Places(c, slabs) ==
  LET stacked == {i \in DOMAIN stack : stack[i] = c}
      filling == {i \in DOMAIN out : pc = "fill_publish" /\ out[i] = c}
      filled  == {s \in Pending(fill) : fill.slot[s] = c}
      arrived == {s \in Pending(rx) : rx.slot[s] = c}
      owners  == {o \in {"kernel", "app", "slab"} :
                    \/ o = "kernel" /\ c \in kernel
                    \/ o = "app" /\ c \in app
                    \/ o = "slab" /\ c \in slabs}
  IN  ({"stack"} \X stacked) \union ({"filling"} \X filling)
        \union ({"fill"} \X filled) \union ({"rx"} \X arrived)
        \union ({"owner"} \X owners)

\* A chunk of the umem is in one place at any time, whatever the kernel does
\* between the reads of the counters and the publishing of them: none is
\* lost, and the kernel never writes to a chunk that holds slab blocks, that
\* the caller reads, or that is offered to it twice.
ChunkOnePlace == LET slabs == SlabChunks
                 IN  \A c \in Chunks : Cardinality(Places(c, slabs)) = 1

\* Each block of a slab chunk is in use, free, or not carved yet, and only
\* one of these; the free list reaches every free block and ends.
SlabPartition ==
  LET free == FreeBlocks
      slabs == SlabChunks
  IN  /\ FreeChain[Cardinality(Blocks)] = NULL
      /\ inUse \intersect free = {}
      /\ (inUse \union free) \intersect Uncarved = {}
      /\ inUse \union free \union Uncarved = {b \in Blocks : b[1] \in slabs}
=============================================================================
