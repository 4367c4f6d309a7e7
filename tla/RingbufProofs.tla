--------------------------- MODULE RingbufProofs ---------------------------
(***************************************************************************)
(* Proofs about Ringbuf and Allocator, for every ring size, set of threads *)
(* and set of items: RingInvariant is inductive, and the exclusive access, *)
(* the intact reads and the refinement of a bounded FIFO queue follow from *)
(* it.  AllocInvariant, on top of it, says where every block of the        *)
(* allocator is.                                                           *)
(***************************************************************************)
EXTENDS Allocator, FiniteSetTheorems, TLAPS

\* The size of a ring as a number: at least two cells.
LEMMA SizeType == Size \in Nat /\ Size >= 2
BY SizeAssumption

\* pos & mask is the index of a cell.
LEMMA CellType == \A p \in Nat : Cell(p) \in Cells
BY SizeType DEF Cell, Cells

\* The first Size positions are the cells themselves, as create_ringbuf
\* numbers them.
LEMMA CellOfCell == \A c \in Cells : c \in Nat /\ Cell(c) = c
BY SizeType DEF Cell, Cells

\* A number has one remainder modulo Size.  The provers need it spelled out
\* because Size is a parameter.
LEMMA RemainderUnique ==
  ASSUME NEW a \in Nat, NEW b \in Nat,
         NEW r \in 0 .. Size - 1, NEW m \in 0 .. Size - 1,
         Size * a + r = Size * b + m
  PROVE  r = m
<1>1. CASE a >= b + 1
  <2>1. Size * a >= Size * (b + 1)
    BY <1>1, SizeType
  <2>2. Size * (b + 1) = Size * b + Size
    BY SizeType
  <2> QED BY <2>1, <2>2, SizeType
<1>2. CASE b >= a + 1
  <2>1. Size * b >= Size * (a + 1)
    BY <1>2, SizeType
  <2>2. Size * (a + 1) = Size * a + Size
    BY SizeType
  <2> QED BY <2>1, <2>2, SizeType
<1>3. CASE a = b
  BY <1>3, SizeType
<1> QED BY <1>1, <1>2, <1>3

\* A position and the one a lap later have the same cell: what pop_ringbuf
\* relies on when it stores pos + mask + 1.
LEMMA CellPeriod == \A p \in Nat : Cell(p + Size) = Cell(p)
<1>1. TAKE p \in Nat
<1> DEFINE a == p \div Size
           r == p % Size
           b == (p + Size) \div Size
           m == (p + Size) % Size
<1>2. a \in Nat /\ r \in 0 .. Size - 1 /\ p = Size * a + r
  BY SizeType
<1>3. b \in Nat /\ m \in 0 .. Size - 1 /\ p + Size = Size * b + m
  BY SizeType
<1>4. a + 1 \in Nat /\ Size * (a + 1) + r = Size * b + m
  <2>1. Size * (a + 1) = Size * a + Size
    BY <1>2, SizeType
  <2> QED BY <2>1, <1>2, <1>3, SizeType
<1> HIDE DEF a, r, b, m
<1>5. r = m
  BY <1>2, <1>3, <1>4, RemainderUnique
<1> QED BY <1>5 DEF Cell, r, m

\* Positions less than a lap apart have different cells.
LEMMA CellInjective ==
  \A p, q \in Nat : Cell(p) = Cell(q) /\ p <= q /\ q < p + Size => p = q
<1>1. SUFFICES ASSUME NEW p \in Nat, NEW q \in Nat,
                      p % Size = q % Size, p <= q, q < p + Size
               PROVE  p = q
  BY DEF Cell
<1> DEFINE a == p \div Size
           b == q \div Size
           r == p % Size
<1>2. a \in Nat /\ b \in Nat /\ r \in 0 .. Size - 1
      /\ p = Size * a + r /\ q = Size * b + r
  BY <1>1, SizeType
<1>3. CASE b >= a + 1
  <2>1. Size * b >= Size * (a + 1)
    BY <1>2, <1>3, SizeType
  <2>2. Size * (a + 1) = Size * a + Size
    BY <1>2, SizeType
  <2> QED BY <2>1, <2>2, <1>1, <1>2, SizeType
<1>4. CASE b <= a
  <2>1. Size * b <= Size * a
    BY <1>2, <1>4, SizeType
  <2> QED BY <2>1, <1>1, <1>2, SizeType
<1> QED BY <1>2, <1>3, <1>4

\* The position r cells into lap k has cell r.
LEMMA CellOfSum == \A k \in Nat, r \in Cells : Size * k + r \in Nat /\ Cell(Size * k + r) = r
<1>1. TAKE k \in Nat, r \in Cells
<1> DEFINE p == Size * k + r
           b == p \div Size
           m == p % Size
<1>2. p \in Nat /\ r \in 0 .. Size - 1
  BY SizeType DEF Cells
<1> HIDE DEF p
<1>3. b \in Nat /\ m \in 0 .. Size - 1 /\ p = Size * b + m
  BY <1>2, SizeType
<1> HIDE DEF b, m
<1>4. r = m
  BY <1>2, <1>3, RemainderUnique DEF p
<1> QED BY <1>2, <1>4 DEF Cell, p, m

\* Any lap's worth of consecutive positions visits every cell.
LEMMA CellInWindow ==
  \A n \in Nat, c \in Cells : \E q \in n .. n + Size - 1 : q \in Nat /\ Cell(q) = c
<1>1. TAKE n \in Nat, c \in Cells
<1> DEFINE a == n \div Size
           m == n % Size
<1>2. a \in Nat /\ m \in 0 .. Size - 1 /\ n = Size * a + m
  BY SizeType
<1> HIDE DEF a, m
<1>3. c \in 0 .. Size - 1 /\ a + 1 \in Nat
  BY <1>2 DEF Cells
<1>4. CASE m <= c
  <2>1. Size * a + c \in n .. n + Size - 1
    BY <1>2, <1>3, <1>4, SizeType
  <2> QED BY <2>1, <1>2, CellOfSum
<1>5. CASE c < m
  <2>1. Size * (a + 1) = Size * a + Size
    BY <1>2, SizeType
  <2>2. Size * (a + 1) + c \in n .. n + Size - 1
    BY <1>2, <1>3, <1>5, <2>1, SizeType
  <2> QED BY <2>2, <1>3, CellOfSum
<1> QED BY <1>2, <1>3, <1>4, <1>5
-----------------------------------------------------------------------------
\* A cell's two fields make an entry of the abstract queue.
LEMMA EntryType == \A v, l \in Items \union {NULL} : Entry(v, l) \in Entries
BY DEF Entry, Entries

\* create_ringbuf establishes the invariant.
LEMMA InitInvariant == Init => RingInvariant
<1> SUFFICES ASSUME Init PROVE RingInvariant
  OBVIOUS
<1> USE DEF Init
<1>1. TypeOK
  BY SizeType DEF TypeOK, Cells, Labels
<1>2. Window
  BY SizeType DEF Window
<1>3. ClaimedCells
  BY SizeType DEF ClaimedCells
<1>4. FreeCells
  BY SizeType, CellOfCell DEF FreeCells, Cells
<1>5. DistinctPositions
  BY DEF DistinctPositions, Writing, Releasing
<1>6. \A t \in Threads : WriterOK(t) /\ ReleaserOK(t) /\ ReaderOK(t) /\ CasOK(t)
  BY DEF WriterOK, ReleaserOK, ReaderOK, CasOK,
         Writing, Releasing, Reading, PushLabels
<1> QED BY <1>1, <1>2, <1>3, <1>4, <1>5, <1>6 DEF RingInvariant

\* What appending to a history does.
LEMMA AppendFacts ==
  ASSUME NEW S, NEW s \in Seq(S), NEW x \in S
  PROVE  /\ Append(s, x) \in Seq(S)
         /\ Len(Append(s, x)) = Len(s) + 1
         /\ \A i \in 1 .. Len(s) : Append(s, x)[i] = s[i]
         /\ Append(s, x)[Len(s) + 1] = x
OBVIOUS

\* The facts about counters that every step below uses.
LEMMA Positions ==
  ASSUME RingInvariant
  PROVE  /\ head \in Nat /\ tail \in Nat
         /\ tail <= head /\ head <= tail + Size
         /\ Len(pushed) = head /\ Len(popped) = tail
         /\ \A u \in Threads : pos[u] \in Nat
         /\ \A c \in Cells : seq[c] \in Nat
BY DEF RingInvariant, TypeOK, Window

\* A push that wins the CAS on head preserves the invariant: the cell it
\* claims was free (CasOK), so the window grows by a position whose seq is
\* still its own number.
LEMMA InvPushClaim ==
  ASSUME NEW t \in Threads, RingInvariant, PushCas(t), head = pos[t]
  PROVE  RingInvariant'
<1> DEFINE e == Entry(arg[t], arg[t])
<1>1. /\ pc[t] = "push_cas" /\ pc' = [pc EXCEPT ![t] = "push_packet"]
      /\ head' = head + 1
      /\ UNCHANGED <<tail, seq, packet, plen, pos, arg, popped>>
  BY DEF PushCas, Goto
<1>2. TypeOK /\ Window /\ ClaimedCells /\ FreeCells /\ DistinctPositions
      /\ \A u \in Threads : WriterOK(u) /\ ReleaserOK(u) /\ ReaderOK(u) /\ CasOK(u)
  BY DEF RingInvariant
<1>3. arg[t] \in Items /\ seq[Cell(head)] = head
  BY <1>1, <1>2 DEF CasOK, PushLabels
<1>4. e \in Entries
  BY <1>3, EntryType
<1>5. /\ pushed' \in Seq(Entries)
      /\ Len(pushed') = head + 1
      /\ \A i \in 1 .. head : pushed'[i] = pushed[i]
      /\ pushed'[head + 1] = e
  <2>1. pushed' = Append(pushed, e)
    BY DEF PushCas
  <2>2. pushed \in Seq(Entries) /\ Len(pushed) = head
    BY <1>2 DEF TypeOK, Window
  <2> HIDE DEF e
  <2> QED BY <2>1, <2>2, <1>4, AppendFacts
<1> HIDE DEF e
<1>6. TypeOK'
  BY <1>1, <1>2, <1>5 DEF TypeOK, Labels, PushLabels
<1>7. head < tail + Size
  <2>1. SUFFICES ASSUME head = tail + Size PROVE FALSE
    BY Positions, SizeType
  <2>2. Cell(head) = Cell(tail)
    BY <2>1, CellPeriod, Positions
  <2>3. seq[Cell(tail)] \in {tail, tail + 1}
    BY <1>2, <2>1, SizeType, Positions DEF ClaimedCells
  <2> QED BY <1>3, <2>1, <2>2, <2>3, SizeType, Positions
<1>8. Window'
  BY <1>1, <1>2, <1>5, <1>7, SizeType DEF TypeOK, Window
<1>9. ClaimedCells'
  <2>1. SUFFICES ASSUME NEW p \in tail .. head
                 PROVE  \/ seq[Cell(p)] = p
                        \/ seq[Cell(p)] = p + 1 /\ Content(Cell(p)) = pushed'[p + 1]
    <3>1. head' - 1 = head /\ tail' = tail
      BY <1>1, Positions
    <3> QED BY <1>1, <2>1, <3>1 DEF ClaimedCells, Content
  <2>2. CASE p = head
    BY <1>3, <2>2
  <2>3. CASE p # head
    <3>1. p \in tail .. head - 1 /\ p + 1 \in 1 .. head
      BY <1>2, <2>3 DEF TypeOK
    <3> QED BY <1>2, <1>5, <3>1 DEF ClaimedCells
  <2> QED BY <2>2, <2>3
<1>10. FreeCells'
  BY <1>1, <1>2, SizeType DEF TypeOK, Window, FreeCells
<1>11. ASSUME NEW u \in Threads PROVE WriterOK(u)'
  <2>1. CASE u = t
    BY <1>1, <1>2, <1>3, <1>5, <2>1 DEF TypeOK, Window, WriterOK, Writing, e
  <2>2. CASE u # t
    <3>1. SUFFICES ASSUME Writing(u) PROVE WriterOK(u)'
      BY <1>1, <1>2, <2>2 DEF TypeOK, WriterOK, Writing
    <3>2. pos[u] + 1 \in 1 .. head
      BY <1>2, <3>1 DEF TypeOK, WriterOK
    <3>3. pos[u] < head'
      BY <1>1, <1>2, <3>1, Positions DEF WriterOK
    <3>4. pushed'[pos[u] + 1] = pushed[pos[u] + 1]
      BY <1>5, <3>2
    <3>5. pc'[u] = pc[u]
      BY <1>1, <1>2, <2>2 DEF TypeOK
    <3> QED BY <1>1, <1>2, <3>1, <3>3, <3>4, <3>5 DEF WriterOK
  <2> QED BY <2>1, <2>2
<1>12. ASSUME NEW u \in Threads PROVE ReleaserOK(u)'
  <2>1. SUFFICES ASSUME Releasing(u) PROVE ReleaserOK(u)'
    BY <1>1, <1>2 DEF TypeOK, ReleaserOK, Releasing
  <2>2. pos[u] < tail /\ head <= pos[u] + Size /\ seq[Cell(pos[u])] = pos[u] + 1
        /\ Content(Cell(pos[u])) = popped[pos[u] + 1]
    BY <1>2, <2>1 DEF ReleaserOK
  <2>3. head # pos[u] + Size
    BY <1>3, <2>2, CellPeriod, SizeType, Positions
  <2>4. head' <= pos[u] + Size
    <3>1. head' = head + 1 /\ head \in Nat /\ pos[u] + Size \in Nat
      BY <1>1, SizeType, Positions
    <3> QED BY <2>2, <2>3, <3>1
  <2> QED BY <1>1, <2>2, <2>4 DEF ReleaserOK, Content
<1>13. ASSUME NEW u \in Threads PROVE ReaderOK(u)'
  BY <1>1, <1>2, SizeType DEF TypeOK, ReaderOK, Reading, Content
<1>14. ASSUME NEW u \in Threads PROVE CasOK(u)'
  BY <1>1, <1>2 DEF TypeOK, CasOK, PushLabels
<1>15. DistinctPositions'
  BY <1>1, <1>2 DEF TypeOK, DistinctPositions, WriterOK, Writing, Releasing
<1> QED BY <1>6, <1>8, <1>9, <1>10, <1>11, <1>12, <1>13, <1>14, <1>15 DEF RingInvariant

\* A step that touches only the thread's own variables preserves the
\* invariant if its new label does not own a cell and its own CasOK and
\* ReaderOK hold afterwards.
LEMMA InvQuiet ==
  ASSUME RingInvariant, NEW t \in Threads,
         NEW l \in Labels, NEW p \in Nat, NEW a \in Items \union {NULL},
         pc' = [pc EXCEPT ![t] = l],
         pos' = [pos EXCEPT ![t] = p],
         arg' = [arg EXCEPT ![t] = a],
         UNCHANGED <<shared, history>>,
         l \notin {"push_packet", "push_plen", "push_publish", "pop_release"},
         CasOK(t)', ReaderOK(t)'
  PROVE  RingInvariant'
<1>1. TypeOK /\ Window /\ ClaimedCells /\ FreeCells /\ DistinctPositions
      /\ \A u \in Threads : WriterOK(u) /\ ReleaserOK(u) /\ ReaderOK(u) /\ CasOK(u)
  BY DEF RingInvariant
<1>2. UNCHANGED <<head, tail, seq, packet, plen, pushed, popped>>
  BY DEF shared, history
<1>3. TypeOK'
  BY <1>1, <1>2 DEF TypeOK
<1>4. Window' /\ ClaimedCells' /\ FreeCells'
  BY <1>1, <1>2 DEF Window, ClaimedCells, FreeCells, Content
<1>5. pc'[t] = l
  BY <1>1 DEF TypeOK
<1>6. \A u \in Threads \ {t} : pc'[u] = pc[u] /\ pos'[u] = pos[u] /\ arg'[u] = arg[u]
  BY <1>1 DEF TypeOK
<1>7. ASSUME NEW u \in Threads \ {t}
      PROVE  WriterOK(u)' /\ ReleaserOK(u)' /\ ReaderOK(u)' /\ CasOK(u)'
  BY <1>1, <1>2, <1>6 DEF WriterOK, ReleaserOK, ReaderOK, CasOK, Writing, Releasing,
                          Reading, Content
<1>8. WriterOK(t)' /\ ReleaserOK(t)'
  BY <1>5 DEF WriterOK, ReleaserOK, Writing, Releasing
<1>9. DistinctPositions'
  BY <1>1, <1>5, <1>6 DEF DistinctPositions, Writing, Releasing
<1> QED BY <1>3, <1>4, <1>7, <1>8, <1>9 DEF RingInvariant

\* The loads, the failed CASes and the caller's reads preserve the invariant.
LEMMA QuietSteps ==
  ASSUME RingInvariant, NEW t \in Threads,
         \/ \E v \in Items : PushStart(t, v)
         \/ PushLoadSeq(t)
         \/ PushCas(t) /\ head # pos[t]
         \/ PushReload(t)
         \/ PopStart(t)
         \/ PopLoadSeq(t)
         \/ PopCas(t) /\ tail # pos[t]
         \/ PopReload(t)
         \/ ReadPacket(t)
         \/ ReadPlen(t)
  PROVE  RingInvariant'
<1>1. TypeOK /\ ReaderOK(t) /\ CasOK(t)
  BY DEF RingInvariant
<1>2. pc[t] \in Labels /\ pos[t] \in Nat /\ arg[t] \in Items \union {NULL}
      /\ pc = [pc EXCEPT ![t] = pc[t]] /\ pos = [pos EXCEPT ![t] = pos[t]]
      /\ arg = [arg EXCEPT ![t] = arg[t]]
  BY <1>1 DEF TypeOK
<1>3. ASSUME NEW v \in Items, PushStart(t, v) PROVE RingInvariant'
  <2>1. pc'[t] = "push_seq" /\ pos'[t] = head /\ arg'[t] = v /\ head' = head
    BY <1>1, <1>3 DEF PushStart, Goto, TypeOK, shared
  <2>2. CasOK(t)' /\ ReaderOK(t)'
    BY <2>1, Positions DEF CasOK, ReaderOK, Reading, PushLabels
  <2> QED BY <1>3, <2>2, InvQuiet, Positions DEF PushStart, Goto, Labels, PushLabels
<1>4. CASE PushLoadSeq(t)
  <2> DEFINE l == PushVerdict(seq[Cell(pos[t])], pos[t])
  <2>1. pc'[t] = l /\ pos' = pos /\ arg' = arg /\ head' = head /\ seq' = seq
        /\ pc[t] = "push_seq"
    BY <1>1, <1>4 DEF PushLoadSeq, Goto, TypeOK, shared
  <2>2. l \in {"push_cas", "idle", "push_reload"}
        /\ (l = "push_cas" => seq[Cell(pos[t])] = pos[t])
    BY DEF PushVerdict
  <2>3. CasOK(t)' /\ ReaderOK(t)'
    BY <1>1, <2>1, <2>2 DEF CasOK, ReaderOK, Reading, PushLabels
  <2>4. l \in Labels
    BY <2>2 DEF Labels, PushLabels
  <2>5. pc' = [pc EXCEPT ![t] = l] /\ UNCHANGED <<shared, history>>
    BY <1>4 DEF PushLoadSeq, Goto
  <2>6. pos' = [pos EXCEPT ![t] = pos[t]] /\ arg' = [arg EXCEPT ![t] = arg[t]]
    BY <1>2, <2>1
  <2>7. l \notin {"push_packet", "push_plen", "push_publish", "pop_release"}
    BY <2>2
  <2> HIDE DEF l
  <2> QED BY <1>2, <2>3, <2>4, <2>5, <2>6, <2>7, InvQuiet
<1>5. CASE PushCas(t) /\ head # pos[t]
  <2>1. pc'[t] = "push_reload" /\ pc[t] = "push_cas" /\ pos' = pos /\ arg' = arg
        /\ head' = head
    BY <1>1, <1>5 DEF PushCas, Goto, TypeOK, shared
  <2>2. CasOK(t)' /\ ReaderOK(t)'
    BY <1>1, <2>1 DEF CasOK, ReaderOK, Reading, PushLabels
  <2>3. pc' = [pc EXCEPT ![t] = "push_reload"] /\ UNCHANGED <<shared, history>>
    BY <1>5 DEF PushCas, Goto
  <2> QED BY <1>2, <2>1, <2>2, <2>3, InvQuiet DEF Labels, PushLabels
<1>6. CASE PushReload(t)
  <2>1. pc'[t] = "push_seq" /\ pc[t] = "push_reload" /\ pos'[t] = head /\ arg' = arg
        /\ head' = head
    BY <1>1, <1>6 DEF PushReload, Goto, TypeOK, shared
  <2>2. CasOK(t)' /\ ReaderOK(t)'
    BY <1>1, <2>1, Positions DEF CasOK, ReaderOK, Reading, PushLabels
  <2> QED BY <1>2, <1>6, <2>1, <2>2, InvQuiet, Positions
          DEF PushReload, Goto, Labels, PushLabels
<1>7. CASE PopStart(t)
  <2>1. pc'[t] = "pop_seq" /\ pos'[t] = tail /\ arg' = arg /\ tail' = tail
    BY <1>1, <1>7 DEF PopStart, Goto, TypeOK, shared
  <2>2. CasOK(t)' /\ ReaderOK(t)'
    BY <2>1, Positions DEF CasOK, ReaderOK, Reading, PushLabels
  <2> QED BY <1>2, <1>7, <2>1, <2>2, InvQuiet, Positions
          DEF PopStart, Goto, Labels, PopLabels
<1>8. CASE PopLoadSeq(t)
  <2> DEFINE l == PopVerdict(seq[Cell(pos[t])], pos[t])
  <2>1. pc'[t] = l /\ pos' = pos /\ arg' = arg /\ tail' = tail /\ seq' = seq
        /\ pc[t] = "pop_seq"
    BY <1>1, <1>8 DEF PopLoadSeq, Goto, TypeOK, shared
  <2>2. l \in {"pop_cas", "idle", "pop_reload"}
        /\ (l = "pop_cas" => seq[Cell(pos[t])] = pos[t] + 1)
    BY DEF PopVerdict
  <2>3. CasOK(t)' /\ ReaderOK(t)'
    BY <1>1, <2>1, <2>2 DEF CasOK, ReaderOK, Reading, PushLabels
  <2>4. l \in Labels
    BY <2>2 DEF Labels, PopLabels
  <2>5. pc' = [pc EXCEPT ![t] = l] /\ UNCHANGED <<shared, history>>
    BY <1>8 DEF PopLoadSeq, Goto
  <2>6. pos' = [pos EXCEPT ![t] = pos[t]] /\ arg' = [arg EXCEPT ![t] = arg[t]]
    BY <1>2, <2>1
  <2>7. l \notin {"push_packet", "push_plen", "push_publish", "pop_release"}
    BY <2>2
  <2> HIDE DEF l
  <2> QED BY <1>2, <2>3, <2>4, <2>5, <2>6, <2>7, InvQuiet
<1>9. CASE PopCas(t) /\ tail # pos[t]
  <2>1. pc'[t] = "pop_reload" /\ pc[t] = "pop_cas" /\ pos' = pos /\ arg' = arg
        /\ tail' = tail
    BY <1>1, <1>9 DEF PopCas, Goto, TypeOK, shared
  <2>2. CasOK(t)' /\ ReaderOK(t)'
    BY <1>1, <2>1 DEF CasOK, ReaderOK, Reading, PushLabels
  <2>3. pc' = [pc EXCEPT ![t] = "pop_reload"] /\ UNCHANGED <<shared, history>>
    BY <1>9 DEF PopCas, Goto
  <2> QED BY <1>2, <2>1, <2>2, <2>3, InvQuiet DEF Labels, PopLabels
<1>10. CASE PopReload(t)
  <2>1. pc'[t] = "pop_seq" /\ pc[t] = "pop_reload" /\ pos'[t] = tail /\ arg' = arg
        /\ tail' = tail
    BY <1>1, <1>10 DEF PopReload, Goto, TypeOK, shared
  <2>2. CasOK(t)' /\ ReaderOK(t)'
    BY <1>1, <2>1, Positions DEF CasOK, ReaderOK, Reading, PushLabels
  <2> QED BY <1>2, <1>10, <2>1, <2>2, InvQuiet, Positions
          DEF PopReload, Goto, Labels, PopLabels
<1>11. CASE ReadPacket(t)
  <2>1. pc'[t] = "read_plen" /\ pc[t] = "read_packet" /\ UNCHANGED <<shared, pos, arg, history>>
    BY <1>1, <1>11 DEF ReadPacket, Goto, TypeOK
  <2>2. CasOK(t)' /\ ReaderOK(t)'
    BY <1>1, <2>1 DEF CasOK, ReaderOK, Reading, PushLabels, Content, shared, history
  <2>3. pc' = [pc EXCEPT ![t] = "read_plen"]
    BY <1>11 DEF ReadPacket, Goto
  <2> QED BY <1>2, <2>1, <2>2, <2>3, InvQuiet DEF Labels, PopLabels
<1>12. CASE ReadPlen(t)
  <2>1. pc'[t] = "idle" /\ UNCHANGED <<shared, pos, arg, history>>
    BY <1>1, <1>12 DEF ReadPlen, Goto, TypeOK
  <2>2. CasOK(t)' /\ ReaderOK(t)'
    BY <2>1 DEF CasOK, ReaderOK, Reading, PushLabels
  <2>3. pc' = [pc EXCEPT ![t] = "idle"]
    BY <1>12 DEF ReadPlen, Goto
  <2> QED BY <1>2, <2>1, <2>2, <2>3, InvQuiet DEF Labels
<1> QED BY <1>3, <1>4, <1>5, <1>6, <1>7, <1>8, <1>9, <1>10, <1>11, <1>12

\* A pop that wins the CAS on tail preserves the invariant: it becomes the
\* releaser of a published cell.
LEMMA InvPopClaim ==
  ASSUME NEW t \in Threads, RingInvariant, PopCas(t), tail = pos[t]
  PROVE  RingInvariant'
<1> DEFINE e == Content(Cell(tail))
<1>1. /\ pc[t] = "pop_cas" /\ pc' = [pc EXCEPT ![t] = "pop_release"]
      /\ tail' = tail + 1
      /\ UNCHANGED <<head, seq, packet, plen, pos, arg, pushed>>
  BY DEF PopCas, Goto
<1>2. TypeOK /\ Window /\ ClaimedCells /\ FreeCells /\ DistinctPositions
      /\ \A u \in Threads : WriterOK(u) /\ ReleaserOK(u) /\ ReaderOK(u) /\ CasOK(u)
  BY DEF RingInvariant
<1>3. seq[Cell(tail)] = tail + 1
  BY <1>1, <1>2 DEF CasOK
<1>4. tail < head
  <2>1. SUFFICES ASSUME tail = head PROVE FALSE
    BY Positions
  <2>2. seq[Cell(tail)] \in {tail, tail + 1 - Size}
    BY <1>2, <2>1, SizeType, Positions DEF FreeCells
  <2> QED BY <1>3, <2>2, SizeType, Positions
<1>5. e \in Entries
  <2>1. Cell(tail) \in Cells
    BY CellType, Positions
  <2>2. packet[Cell(tail)] \in Items \union {NULL} /\ plen[Cell(tail)] \in Items \union {NULL}
    BY <1>2, <2>1 DEF TypeOK
  <2> QED BY <2>2, EntryType DEF Content
<1>6. /\ popped' \in Seq(Entries)
      /\ Len(popped') = tail + 1
      /\ \A i \in 1 .. tail : popped'[i] = popped[i]
      /\ popped'[tail + 1] = e
  <2>1. popped' = Append(popped, e)
    BY DEF PopCas, Content
  <2>2. popped \in Seq(Entries) /\ Len(popped) = tail
    BY <1>2 DEF TypeOK, Window
  <2> HIDE DEF e
  <2> QED BY <2>1, <2>2, <1>5, AppendFacts
<1> HIDE DEF e
<1>7. TypeOK'
  BY <1>1, <1>2, <1>6 DEF TypeOK, Labels, PopLabels
<1>8. Window'
  BY <1>1, <1>2, <1>4, <1>6, SizeType, Positions DEF Window
<1>9. ClaimedCells'
  BY <1>1, <1>2, Positions DEF ClaimedCells, Content
<1>10. FreeCells'
  <2>1. SUFFICES ASSUME NEW p \in head .. tail + Size
                 PROVE  seq[Cell(p)] \in {p, p + 1 - Size}
    BY <1>1, SizeType, Positions DEF FreeCells
  <2>2. CASE p = tail + Size
    <3>1. Cell(p) = Cell(tail)
      BY <2>2, CellPeriod, Positions
    <3>2. p + 1 - Size = tail + 1
      BY <2>2, SizeType, Positions
    <3> QED BY <1>3, <3>1, <3>2
  <2>3. CASE p # tail + Size
    <3>1. p \in head .. tail + Size - 1
      BY <2>3, SizeType, Positions
    <3> QED BY <1>2, <3>1 DEF FreeCells
  <2> QED BY <2>2, <2>3
<1>11. ASSUME NEW u \in Threads PROVE WriterOK(u)'
  <2>1. SUFFICES ASSUME Writing(u), u # t PROVE WriterOK(u)'
    BY <1>1, <1>2 DEF TypeOK, WriterOK, Writing
  <2>2. pos[u] # tail
    BY <1>2, <1>3, <2>1, Positions DEF WriterOK
  <2>3. tail' <= pos[u]
    BY <1>1, <1>2, <2>1, <2>2, Positions DEF WriterOK
  <2>4. pc'[u] = pc[u]
    BY <1>1, <1>2, <2>1 DEF TypeOK
  <2> QED BY <1>1, <1>2, <2>1, <2>3, <2>4 DEF WriterOK
<1>12. ASSUME NEW u \in Threads PROVE ReleaserOK(u)'
  <2>1. CASE u = t
    <3>1. pos[u] < tail' /\ head <= pos[u] + Size
      BY <1>1, <2>1, Positions
    <3> QED BY <1>1, <1>3, <1>6, <2>1, <3>1 DEF ReleaserOK, Content, e
  <2>2. CASE u # t
    <3>1. SUFFICES ASSUME Releasing(u) PROVE ReleaserOK(u)'
      BY <1>1, <1>2, <2>2 DEF TypeOK, ReleaserOK, Releasing
    <3>2. pos[u] + 1 \in 1 .. tail /\ pos[u] < tail'
      BY <1>1, <1>2, <3>1, Positions DEF ReleaserOK
    <3>3. popped'[pos[u] + 1] = popped[pos[u] + 1]
      BY <1>6, <3>2
    <3> QED BY <1>1, <1>2, <3>1, <3>2, <3>3 DEF ReleaserOK, Content
  <2> QED BY <2>1, <2>2
<1>13. ASSUME NEW u \in Threads PROVE ReaderOK(u)'
  <2>1. SUFFICES ASSUME Reading(u) PROVE ReaderOK(u)'
    BY <1>1, <1>2 DEF TypeOK, ReaderOK, Reading
  <2>2. pos[u] + 1 \in 1 .. tail /\ pos[u] < tail'
    BY <1>1, <1>2, <2>1, Positions DEF ReaderOK
  <2>3. popped'[pos[u] + 1] = popped[pos[u] + 1]
    BY <1>6, <2>2
  <2> QED BY <1>1, <1>2, <2>1, <2>2, <2>3 DEF ReaderOK, Content
<1>14. ASSUME NEW u \in Threads PROVE CasOK(u)'
  BY <1>1, <1>2, Positions DEF TypeOK, CasOK, PushLabels
<1>15. DistinctPositions'
  BY <1>1, <1>2, Positions DEF TypeOK, DistinctPositions, ReleaserOK, Writing, Releasing
<1> QED BY <1>7, <1>8, <1>9, <1>10, <1>11, <1>12, <1>13, <1>14, <1>15 DEF RingInvariant

\* The store of seq that ends push_ringbuf preserves the invariant: the cell
\* holds both fields of the item, and its owner leaves.
LEMMA InvPublish ==
  ASSUME NEW t \in Threads, RingInvariant, PushPublish(t)
  PROVE  RingInvariant'
<1> DEFINE c == Cell(pos[t])
<1>1. /\ pc[t] = "push_publish" /\ pc' = [pc EXCEPT ![t] = "idle"]
      /\ seq' = [seq EXCEPT ![c] = pos[t] + 1]
      /\ UNCHANGED <<head, tail, packet, plen, pos, arg, pushed, popped>>
  BY DEF PushPublish, Goto, history
<1>2. TypeOK /\ Window /\ ClaimedCells /\ FreeCells /\ DistinctPositions
      /\ \A u \in Threads : WriterOK(u) /\ ReleaserOK(u) /\ ReaderOK(u) /\ CasOK(u)
  BY DEF RingInvariant
<1>3. /\ tail <= pos[t] /\ pos[t] < head /\ pos[t] \in Nat
      /\ seq[c] = pos[t]
      /\ Content(c) = pushed[pos[t] + 1]
  BY <1>1, <1>2, Positions DEF WriterOK, Writing, Content
<1>4. c \in Cells
  BY <1>3, CellType
<1>5. seq'[c] = pos[t] + 1 /\ \A d \in Cells \ {c} : seq'[d] = seq[d]
  BY <1>1, <1>2, <1>4 DEF TypeOK
<1>6. TypeOK'
  BY <1>1, <1>2, <1>3, <1>4 DEF TypeOK, Labels
<1>7. Window'
  BY <1>1, <1>2 DEF Window
<1>8. ASSUME NEW p \in Nat, tail <= p, p < tail + Size, p # pos[t]
      PROVE  Cell(p) # c /\ seq'[Cell(p)] = seq[Cell(p)]
  <2>1. Cell(p) # c
    <3>1. CASE p <= pos[t]
      BY <1>3, <1>8, <3>1, CellInjective, SizeType, Positions
    <3>2. CASE pos[t] <= p
      BY <1>3, <1>8, <3>2, CellInjective, SizeType, Positions
    <3> QED BY <1>3, <3>1, <3>2
  <2> QED BY <1>5, <1>8, <2>1, CellType
<1> HIDE DEF c
<1>9. ClaimedCells'
  <2>1. SUFFICES ASSUME NEW p \in tail .. head - 1
                 PROVE  \/ seq'[Cell(p)] = p
                        \/ seq'[Cell(p)] = p + 1 /\ Content(Cell(p)) = pushed[p + 1]
    BY <1>1 DEF ClaimedCells, Content
  <2>2. CASE p = pos[t]
    BY <1>3, <1>5, <2>2 DEF c
  <2>3. CASE p # pos[t]
    <3>1. p \in Nat /\ tail <= p /\ p < tail + Size
      BY Positions, SizeType
    <3> QED BY <1>2, <1>8, <2>3, <3>1 DEF ClaimedCells
  <2> QED BY <2>2, <2>3
<1>10. FreeCells'
  <2>1. SUFFICES ASSUME NEW p \in head .. tail + Size - 1
                 PROVE  seq'[Cell(p)] \in {p, p + 1 - Size}
    BY <1>1 DEF FreeCells
  <2>2. p \in Nat /\ tail <= p /\ p < tail + Size /\ p # pos[t]
    BY <1>3, Positions, SizeType
  <2> QED BY <1>2, <1>8, <2>2 DEF FreeCells
<1>11. ASSUME NEW u \in Threads PROVE WriterOK(u)'
  <2>1. SUFFICES ASSUME Writing(u), u # t PROVE WriterOK(u)'
    BY <1>1, <1>2 DEF TypeOK, WriterOK, Writing
  <2>2. tail <= pos[u] /\ pos[u] < head /\ pos[u] # pos[t]
    BY <1>1, <1>2, <2>1 DEF WriterOK, DistinctPositions, Writing
  <2>3. seq'[Cell(pos[u])] = seq[Cell(pos[u])]
    BY <1>8, <2>2, Positions, SizeType
  <2>4. pc'[u] = pc[u]
    BY <1>1, <1>2, <2>1 DEF TypeOK
  <2> QED BY <1>1, <1>2, <2>1, <2>3, <2>4 DEF WriterOK
<1>12. ASSUME NEW u \in Threads PROVE ReleaserOK(u)'
  <2>1. SUFFICES ASSUME Releasing(u) PROVE ReleaserOK(u)'
    BY <1>1, <1>2 DEF TypeOK, ReleaserOK, Releasing
  <2>2. pos[u] < tail /\ head <= pos[u] + Size
    BY <1>2, <2>1 DEF ReleaserOK
  <2>3. Cell(pos[u]) # c
    BY <1>3, <2>2, CellInjective, Positions, SizeType DEF c
  <2>4. seq'[Cell(pos[u])] = seq[Cell(pos[u])]
    BY <1>5, <2>3, CellType, Positions
  <2> QED BY <1>1, <1>2, <2>1, <2>4 DEF ReleaserOK, Content
<1>13. ASSUME NEW u \in Threads PROVE ReaderOK(u)'
  BY <1>1, <1>2 DEF TypeOK, ReaderOK, Reading, Content
<1>14. ASSUME NEW u \in Threads PROVE CasOK(u)'
  <2>1. CASE u = t
    BY <1>1, <1>2, <2>1 DEF TypeOK, CasOK, PushLabels
  <2>2. CASE u # t
    <3>1. pc'[u] = pc[u]
      BY <1>1, <1>2, <2>2 DEF TypeOK
    <3>2. ASSUME pc[u] = "push_cas", pos[u] = head
          PROVE  seq'[Cell(pos[u])] = seq[Cell(pos[u])]
      <4>1. seq[Cell(head)] = head
        BY <1>2, <3>2 DEF CasOK
      <4>2. Cell(head) # c
        BY <1>3, <4>1, Positions
      <4> QED BY <1>5, <3>2, <4>2, CellType, Positions
    <3>3. ASSUME pc[u] = "pop_cas", pos[u] = tail
          PROVE  seq'[Cell(pos[u])] = seq[Cell(pos[u])]
      <4>1. seq[Cell(tail)] = tail + 1
        BY <1>2, <3>3 DEF CasOK
      <4>2. tail # pos[t]
        BY <1>3, <4>1, Positions DEF c
      <4> QED BY <1>8, <3>3, <4>2, Positions, SizeType
    <3> QED BY <1>1, <1>2, <3>1, <3>2, <3>3 DEF CasOK
  <2> QED BY <2>1, <2>2
<1>15. DistinctPositions'
  BY <1>1, <1>2 DEF TypeOK, DistinctPositions, Writing, Releasing
<1> QED BY <1>6, <1>7, <1>9, <1>10, <1>11, <1>12, <1>13, <1>14, <1>15 DEF RingInvariant

\* The store of seq in pop_ringbuf preserves the invariant: the cell becomes
\* free for the position one lap later; its content stays for the reader.
LEMMA InvRelease ==
  ASSUME NEW t \in Threads, RingInvariant, PopRelease(t)
  PROVE  RingInvariant'
<1> DEFINE c == Cell(pos[t])
<1>1. /\ pc[t] = "pop_release" /\ pc' = [pc EXCEPT ![t] = "read_packet"]
      /\ seq' = [seq EXCEPT ![c] = pos[t] + Size]
      /\ UNCHANGED <<head, tail, packet, plen, pos, arg, pushed, popped>>
  BY DEF PopRelease, Goto, history
<1>2. TypeOK /\ Window /\ ClaimedCells /\ FreeCells /\ DistinctPositions
      /\ \A u \in Threads : WriterOK(u) /\ ReleaserOK(u) /\ ReaderOK(u) /\ CasOK(u)
  BY DEF RingInvariant
<1>3. /\ pos[t] < tail /\ head <= pos[t] + Size /\ pos[t] \in Nat
      /\ seq[c] = pos[t] + 1
      /\ Content(c) = popped[pos[t] + 1]
  BY <1>1, <1>2, Positions DEF ReleaserOK, Releasing
<1>4. c \in Cells /\ c = Cell(pos[t] + Size)
  BY <1>3, CellType, CellPeriod
<1>5. seq'[c] = pos[t] + Size /\ \A d \in Cells \ {c} : seq'[d] = seq[d]
  BY <1>1, <1>2, <1>4 DEF TypeOK
<1>6. TypeOK'
  BY <1>1, <1>2, <1>3, <1>4, SizeType DEF TypeOK, Labels, PopLabels
<1>7. Window'
  BY <1>1, <1>2 DEF Window
<1>8. ASSUME NEW p \in Nat, tail <= p, p < tail + Size, p # pos[t] + Size
      PROVE  Cell(p) # c /\ seq'[Cell(p)] = seq[Cell(p)]
  <2>1. Cell(p) # c
    <3>1. CASE p <= pos[t] + Size
      BY <1>3, <1>4, <1>8, <3>1, CellInjective, SizeType, Positions
    <3>2. CASE pos[t] + Size <= p
      BY <1>3, <1>4, <1>8, <3>2, CellInjective, SizeType, Positions
    <3> QED BY <1>3, <3>1, <3>2, SizeType
  <2> QED BY <1>5, <1>8, <2>1, CellType
<1> HIDE DEF c
<1>9. ClaimedCells'
  <2>1. SUFFICES ASSUME NEW p \in tail .. head - 1
                 PROVE  \/ seq'[Cell(p)] = p
                        \/ seq'[Cell(p)] = p + 1 /\ Content(Cell(p)) = pushed[p + 1]
    BY <1>1 DEF ClaimedCells, Content
  <2>2. p \in Nat /\ tail <= p /\ p < tail + Size /\ p # pos[t] + Size
    BY <1>3, Positions, SizeType
  <2> QED BY <1>2, <1>8, <2>2 DEF ClaimedCells
<1>10. FreeCells'
  <2>1. SUFFICES ASSUME NEW p \in head .. tail + Size - 1
                 PROVE  seq'[Cell(p)] \in {p, p + 1 - Size}
    BY <1>1 DEF FreeCells
  <2>2. CASE p = pos[t] + Size
    BY <1>4, <1>5, <2>2
  <2>3. CASE p # pos[t] + Size
    <3>1. p \in Nat /\ tail <= p /\ p < tail + Size
      BY Positions, SizeType
    <3> QED BY <1>2, <1>8, <2>3, <3>1 DEF FreeCells
  <2> QED BY <2>2, <2>3
<1>11. ASSUME NEW u \in Threads PROVE WriterOK(u)'
  <2>1. SUFFICES ASSUME Writing(u), u # t PROVE WriterOK(u)'
    BY <1>1, <1>2 DEF TypeOK, WriterOK, Writing
  <2>2. tail <= pos[u] /\ pos[u] < head
    BY <1>2, <2>1 DEF WriterOK
  <2>3. seq'[Cell(pos[u])] = seq[Cell(pos[u])]
    <3>1. pos[u] \in Nat /\ pos[u] < tail + Size /\ pos[u] # pos[t] + Size
      BY <1>3, <2>2, Positions, SizeType
    <3> QED BY <1>8, <2>2, <3>1
  <2>4. pc'[u] = pc[u]
    BY <1>1, <1>2, <2>1 DEF TypeOK
  <2> QED BY <1>1, <1>2, <2>1, <2>3, <2>4 DEF WriterOK
<1>12. ASSUME NEW u \in Threads PROVE ReleaserOK(u)'
  <2>1. SUFFICES ASSUME Releasing(u), u # t PROVE ReleaserOK(u)'
    BY <1>1, <1>2 DEF TypeOK, ReleaserOK, Releasing
  <2>2. pos[u] < tail /\ head <= pos[u] + Size /\ pos[u] # pos[t]
    BY <1>1, <1>2, <2>1 DEF ReleaserOK, DistinctPositions, Releasing
  <2>3. Cell(pos[u]) # c
    <3>1. CASE pos[u] <= pos[t]
      BY <1>3, <2>2, <3>1, CellInjective, Positions, SizeType DEF c
    <3>2. CASE pos[t] <= pos[u]
      BY <1>3, <2>2, <3>2, CellInjective, Positions, SizeType DEF c
    <3> QED BY <1>3, <3>1, <3>2, Positions
  <2>4. seq'[Cell(pos[u])] = seq[Cell(pos[u])]
    BY <1>5, <2>3, CellType, Positions
  <2> QED BY <1>1, <1>2, <2>1, <2>4 DEF ReleaserOK, Content
<1>13. ASSUME NEW u \in Threads PROVE ReaderOK(u)'
  <2>1. CASE u = t
    BY <1>1, <1>3, <2>1 DEF ReaderOK, Content, c
  <2>2. CASE u # t
    <3>1. pc'[u] = pc[u]
      BY <1>1, <1>2, <2>2 DEF TypeOK
    <3> QED BY <1>1, <1>2, <3>1 DEF ReaderOK, Reading, Content
  <2> QED BY <2>1, <2>2
<1>14. ASSUME NEW u \in Threads PROVE CasOK(u)'
  <2>1. CASE u = t
    BY <1>1, <1>2, <2>1 DEF TypeOK, CasOK, PushLabels
  <2>2. CASE u # t
    <3>1. pc'[u] = pc[u]
      BY <1>1, <1>2, <2>2 DEF TypeOK
    <3>2. ASSUME pc[u] = "push_cas", pos[u] = head
          PROVE  seq'[Cell(pos[u])] = pos[u]
      <4>1. seq[Cell(head)] = head
        BY <1>2, <3>2 DEF CasOK
      <4>2. Cell(head) # c
        <5>1. SUFFICES ASSUME Cell(head) = c PROVE FALSE
          OBVIOUS
        <5>2. head = pos[t] + 1
          BY <1>3, <4>1, <5>1
        <5> QED BY <1>3, <5>1, <5>2, CellInjective, SizeType, Positions DEF c
      <4> QED BY <1>5, <3>2, <4>1, <4>2, CellType, Positions
    <3>3. ASSUME pc[u] = "pop_cas", pos[u] = tail
          PROVE  seq'[Cell(pos[u])] = pos[u] + 1
      <4>1. seq[Cell(tail)] = tail + 1
        BY <1>2, <3>3 DEF CasOK
      <4>2. Cell(tail) # c
        BY <1>3, <4>1, Positions
      <4> QED BY <1>5, <3>3, <4>1, <4>2, CellType, Positions
    <3> QED BY <1>1, <1>2, <3>1, <3>2, <3>3 DEF CasOK
  <2> QED BY <2>1, <2>2
<1>15. DistinctPositions'
  BY <1>1, <1>2 DEF TypeOK, DistinctPositions, Writing, Releasing
<1> QED BY <1>6, <1>7, <1>9, <1>10, <1>11, <1>12, <1>13, <1>14, <1>15 DEF RingInvariant

\* The two data stores of push_ringbuf preserve the invariant: no releaser,
\* other writer, published position or reader short of a lap has that cell.
LEMMA InvStore ==
  ASSUME NEW t \in Threads, RingInvariant, PushPacket(t) \/ PushPlen(t)
  PROVE  RingInvariant'
<1> DEFINE c == Cell(pos[t])
<1>1. /\ UNCHANGED <<head, tail, seq, pos, arg, pushed, popped>>
      /\ \/ /\ pc[t] = "push_packet" /\ pc' = [pc EXCEPT ![t] = "push_plen"]
            /\ packet' = [packet EXCEPT ![c] = arg[t]] /\ plen' = plen
         \/ /\ pc[t] = "push_plen" /\ pc' = [pc EXCEPT ![t] = "push_publish"]
            /\ plen' = [plen EXCEPT ![c] = arg[t]] /\ packet' = packet
  BY DEF PushPacket, PushPlen, Goto, history
<1>2. TypeOK /\ Window /\ ClaimedCells /\ FreeCells /\ DistinctPositions
      /\ \A u \in Threads : WriterOK(u) /\ ReleaserOK(u) /\ ReaderOK(u) /\ CasOK(u)
  BY DEF RingInvariant
<1>3. /\ tail <= pos[t] /\ pos[t] < head /\ pos[t] \in Nat
      /\ seq[c] = pos[t]
  BY <1>1, <1>2, Positions DEF WriterOK, Writing
<1>4. c \in Cells /\ arg[t] \in Items
  BY <1>1, <1>2, <1>3, CellType DEF CasOK, PushLabels
<1>5. \A d \in Cells \ {c} : packet'[d] = packet[d] /\ plen'[d] = plen[d]
  BY <1>1, <1>2 DEF TypeOK
<1>6. TypeOK'
  BY <1>1, <1>2, <1>4 DEF TypeOK, Labels, PushLabels
<1>7. Window' /\ FreeCells'
  BY <1>1, <1>2 DEF Window, FreeCells
<1>8. ASSUME NEW p \in Nat, p < head, head <= p + Size, p # pos[t]
      PROVE  Cell(p) # c /\ Content(Cell(p))' = Content(Cell(p))
  <2>1. Cell(p) # c
    <3>1. CASE p <= pos[t]
      BY <1>3, <1>8, <3>1, CellInjective, SizeType, Positions
    <3>2. CASE pos[t] <= p
      BY <1>3, <1>8, <3>2, CellInjective, SizeType, Positions
    <3> QED BY <1>3, <3>1, <3>2
  <2> QED BY <1>1, <1>5, <1>8, <2>1, CellType DEF Content
<1> HIDE DEF c
<1>9. ClaimedCells'
  <2>1. SUFFICES ASSUME NEW p \in tail .. head - 1
                 PROVE  \/ seq[Cell(p)] = p
                        \/ seq[Cell(p)] = p + 1 /\ Content(Cell(p))' = pushed[p + 1]
    BY <1>1 DEF ClaimedCells
  <2>2. CASE p = pos[t]
    BY <1>3, <2>2 DEF c
  <2>3. CASE p # pos[t]
    <3>1. p \in Nat /\ p < head /\ head <= p + Size
      BY Positions, SizeType
    <3> QED BY <1>2, <1>8, <2>3, <3>1 DEF ClaimedCells
  <2> QED BY <2>2, <2>3
<1>10. ASSUME NEW u \in Threads \ {t} PROVE pc'[u] = pc[u]
  BY <1>1, <1>2 DEF TypeOK
<1>11. ASSUME NEW u \in Threads PROVE WriterOK(u)'
  <2>1. CASE u = t
    <3>1. CASE pc[t] = "push_packet"
      <4>1. pc'[t] = "push_plen" /\ packet'[c] = arg[t]
        BY <1>1, <1>2, <1>4, <3>1 DEF TypeOK
      <4> QED BY <1>1, <1>2, <2>1, <3>1, <4>1 DEF WriterOK, Writing, c
    <3>2. CASE pc[t] = "push_plen"
      <4>1. pc'[t] = "push_publish" /\ plen'[c] = arg[t] /\ packet' = packet
        BY <1>1, <1>2, <1>4, <3>2 DEF TypeOK
      <4> QED BY <1>1, <1>2, <2>1, <3>2, <4>1 DEF WriterOK, Writing, c
    <3> QED BY <1>1, <3>1, <3>2
  <2>2. CASE u # t
    <3>1. SUFFICES ASSUME Writing(u) PROVE WriterOK(u)'
      BY <1>10, <2>2 DEF WriterOK, Writing
    <3>2. tail <= pos[u] /\ pos[u] < head /\ pos[u] # pos[t] /\ pos[u] \in Nat
      BY <1>1, <1>2, <2>2, <3>1, Positions DEF WriterOK, DistinctPositions, Writing
    <3>3. Cell(pos[u]) # c /\ Cell(pos[u]) \in Cells
      BY <1>8, <3>2, CellType, Positions, SizeType
    <3> QED BY <1>1, <1>2, <1>5, <1>10, <2>2, <3>1, <3>3 DEF WriterOK
  <2> QED BY <2>1, <2>2
<1>12. ASSUME NEW u \in Threads PROVE ReleaserOK(u)'
  <2>1. SUFFICES ASSUME Releasing(u) PROVE ReleaserOK(u)'
    BY <1>1, <1>2 DEF TypeOK, ReleaserOK, Releasing
  <2>2. pos[u] < tail /\ head <= pos[u] + Size
    BY <1>2, <2>1 DEF ReleaserOK
  <2>3. Content(Cell(pos[u]))' = Content(Cell(pos[u]))
    <3>1. pos[u] \in Nat /\ pos[u] < head /\ pos[u] # pos[t] /\ pos'[u] = pos[u]
      BY <1>1, <1>3, <2>2, Positions
    <3> QED BY <1>8, <2>2, <3>1 DEF Content
  <2> QED BY <1>1, <1>2, <2>1, <2>3 DEF ReleaserOK
<1>13. ASSUME NEW u \in Threads PROVE ReaderOK(u)'
  <2>1. SUFFICES ASSUME Reading(u) PROVE ReaderOK(u)'
    BY <1>1, <1>2 DEF TypeOK, ReaderOK, Reading
  <2>2. pos[u] < tail
    BY <1>2, <2>1 DEF ReaderOK
  <2>3. head <= pos[u] + Size => Content(Cell(pos[u]))' = Content(Cell(pos[u]))
    <3>1. pos[u] \in Nat /\ pos[u] < head /\ pos[u] # pos[t] /\ pos'[u] = pos[u]
      BY <1>1, <1>3, <2>2, Positions
    <3> QED BY <1>8, <2>2, <3>1 DEF Content
  <2> QED BY <1>1, <1>2, <2>1, <2>3 DEF ReaderOK
<1>14. ASSUME NEW u \in Threads PROVE CasOK(u)'
  BY <1>1, <1>2 DEF TypeOK, CasOK, PushLabels
<1>15. DistinctPositions'
  <2>1. \A u \in Threads : pos'[u] = pos[u] /\ (Writing(u)' => Writing(u))
                           /\ (Releasing(u)' => Releasing(u))
    <3>1. ASSUME NEW u \in Threads
          PROVE  (Writing(u)' => Writing(u)) /\ (Releasing(u)' => Releasing(u))
      BY <1>1, <1>2 DEF TypeOK, Writing, Releasing
    <3> QED BY <1>1, <3>1
  <2> QED BY <1>2, <2>1 DEF DistinctPositions
<1> QED BY <1>6, <1>7, <1>9, <1>11, <1>12, <1>13, <1>14, <1>15 DEF RingInvariant

\* Every atomic access of every thread preserves the invariant.
LEMMA NextInvariant == RingInvariant /\ [Next]_vars => RingInvariant'
<1> SUFFICES ASSUME RingInvariant, [Next]_vars PROVE RingInvariant'
  OBVIOUS
<1>1. CASE UNCHANGED vars
  <2>1. TypeOK' /\ Window' /\ ClaimedCells' /\ FreeCells'
    BY <1>1 DEF vars, RingInvariant, TypeOK, Window, ClaimedCells, FreeCells, Content
  <2>2. ASSUME NEW t \in Threads PROVE WriterOK(t)' /\ ReleaserOK(t)'
    BY <1>1 DEF vars, RingInvariant, WriterOK, ReleaserOK, Content, Writing, Releasing
  <2>3. ASSUME NEW t \in Threads PROVE ReaderOK(t)' /\ CasOK(t)'
    BY <1>1 DEF vars, RingInvariant, ReaderOK, CasOK, Content, Reading
  <2>4. DistinctPositions'
    BY <1>1 DEF vars, RingInvariant, DistinctPositions, Writing, Releasing
  <2> QED BY <2>1, <2>2, <2>3, <2>4 DEF RingInvariant
<1>2. ASSUME NEW t \in Threads, Call(t) \/ Step(t) PROVE RingInvariant'
  <2>1. CASE Call(t) \/ PushLoadSeq(t) \/ PushReload(t) \/ PopLoadSeq(t)
             \/ PopReload(t) \/ ReadPacket(t) \/ ReadPlen(t)
    BY <2>1, QuietSteps DEF Call
  <2>2. CASE PushCas(t)
    BY <2>2, QuietSteps, InvPushClaim
  <2>3. CASE PopCas(t)
    BY <2>3, QuietSteps, InvPopClaim
  <2>4. CASE PushPacket(t) \/ PushPlen(t)
    BY <2>4, InvStore
  <2>5. CASE PushPublish(t)
    BY <2>5, InvPublish
  <2>6. CASE PopRelease(t)
    BY <2>6, InvRelease
  <2> QED BY <1>2, <2>1, <2>2, <2>3, <2>4, <2>5, <2>6 DEF Step, PushStep, PopStep
<1> QED BY <1>1, <1>2 DEF Next

\* For every number of threads and every ring size, cells, threads and
\* histories always fit together as RingInvariant says.
THEOREM RingInvariantHolds == Spec => []RingInvariant
BY InitInvariant, NextInvariant, PTL DEF Spec

\* Type correctness of push_ringbuf and pop_ringbuf: counters and sequence
\* numbers never become negative and cells hold only pushed items.
THEOREM TypeCorrect == Spec => []TypeOK
<1>1. RingInvariant => TypeOK
  BY DEF RingInvariant
<1> QED BY <1>1, RingInvariantHolds, PTL

\* Between its CAS and its store of seq a call of push_ringbuf or pop_ringbuf
\* has its cell to itself, for any number of concurrent calls.
THEOREM ExclusiveCells == Spec => []CellOwnership
<1>1. RingInvariant => CellOwnership
  <2> SUFFICES ASSUME RingInvariant, NEW t \in Threads, NEW u \in Threads, t # u,
                      Writing(t) \/ Releasing(t), Writing(u) \/ Releasing(u)
               PROVE  Cell(pos[t]) # Cell(pos[u])
    BY DEF CellOwnership
  <2>2. \A v \in Threads : WriterOK(v) /\ ReleaserOK(v)
    BY DEF RingInvariant
  <2>3. pos[t] # pos[u]
    BY <2>2, Positions DEF RingInvariant, DistinctPositions, WriterOK, ReleaserOK
  <2>4. pos[t] < head /\ head <= pos[t] + Size /\ pos[u] < head /\ head <= pos[u] + Size
    BY <2>2, Positions, SizeType DEF WriterOK, ReleaserOK
  <2>5. CASE pos[t] <= pos[u]
    BY <2>3, <2>4, <2>5, CellInjective, Positions, SizeType
  <2>6. CASE pos[u] <= pos[t]
    BY <2>3, <2>4, <2>6, CellInjective, Positions, SizeType
  <2> QED BY <2>5, <2>6, Positions
<1> QED BY <1>1, RingInvariantHolds, PTL

\* The caller of pop_ringbuf reads both fields of the item it popped as long
\* as no push has lapped the ring, although the cell is already released.
THEOREM ReadIntact == Spec => []ReadIntactUntilLapped
<1>1. RingInvariant => ReadIntactUntilLapped
  BY DEF RingInvariant, ReaderOK, ReadIntactUntilLapped, Content
<1> QED BY <1>1, RingInvariantHolds, PTL

\* Whoever keeps a cell from its next use is on the way: a claimed position
\* that is not published has its push, and a free position that is not ready
\* has the pop that will release it.
CallsPending ==
  /\ \A p \in tail .. head - 1 : seq[Cell(p)] = p
        => \E u \in Threads : Writing(u) /\ pos[u] = p
  /\ \A p \in head .. tail + Size - 1 : seq[Cell(p)] = p + 1 - Size
        => \E u \in Threads : Releasing(u) /\ pos[u] = p - Size

\* No call is pending on an empty ring.
LEMMA InitPending == Init => CallsPending
<1> SUFFICES ASSUME Init PROVE CallsPending
  OBVIOUS
<1>1. \A p \in 0 .. Size - 1 : seq[Cell(p)] = p
  BY CellOfCell DEF Init, Cells
<1>2. \A p \in head .. tail + Size - 1 : seq[Cell(p)] # p + 1 - Size
  <2> TAKE p \in head .. tail + Size - 1
  <2>1. p \in 0 .. Size - 1
    BY SizeType DEF Init
  <2>2. seq[Cell(p)] = p
    BY <1>1, <2>1
  <2> QED BY <2>1, <2>2, SizeType
<1>3. tail .. head - 1 = {}
  BY DEF Init
<1> QED BY <1>2, <1>3 DEF CallsPending

\* A step that leaves the counters and sequence numbers alone, and every
\* writer and releaser at its position, preserves CallsPending.
LEMMA PendingQuiet ==
  ASSUME CallsPending, UNCHANGED <<head, tail, seq>>,
         \A u \in Threads : Writing(u) => Writing(u)' /\ pos'[u] = pos[u],
         \A u \in Threads : Releasing(u) => Releasing(u)' /\ pos'[u] = pos[u]
  PROVE  CallsPending'
BY DEF CallsPending

\* Every access preserves CallsPending: a winner of a CAS is the call its
\* position waits for, and stops being it with the store of seq.
LEMMA NextPending == RingInvariant /\ CallsPending /\ [Next]_vars => CallsPending'
<1> SUFFICES ASSUME RingInvariant, CallsPending, [Next]_vars PROVE CallsPending'
  OBVIOUS
<1>t. /\ pc \in [Threads -> Labels] /\ pos \in [Threads -> Nat] /\ seq \in [Cells -> Nat]
      /\ ClaimedCells /\ FreeCells
      /\ \A u \in Threads : WriterOK(u) /\ ReleaserOK(u) /\ CasOK(u)
  BY DEF RingInvariant, TypeOK
<1>1. CASE UNCHANGED vars
  BY <1>1, PendingQuiet DEF vars, Writing, Releasing
<1>2. ASSUME NEW t \in Threads, Call(t) \/ Step(t) PROVE CallsPending'
  <2>1. CASE Call(t) \/ PushLoadSeq(t) \/ PushReload(t) \/ PopLoadSeq(t)
             \/ PopReload(t) \/ ReadPacket(t) \/ ReadPlen(t)
             \/ (PushCas(t) /\ head # pos[t]) \/ (PopCas(t) /\ tail # pos[t])
             \/ PushPacket(t) \/ PushPlen(t)
    <3>1. UNCHANGED <<head, tail, seq>>
      BY <2>1 DEF Call, PushStart, PushLoadSeq, PushReload, PopStart, PopLoadSeq,
         PopReload, ReadPacket, ReadPlen, PushCas, PopCas, PushPacket, PushPlen, shared
    <3>2. \A u \in Threads \ {t} : pc'[u] = pc[u] /\ pos'[u] = pos[u]
      BY <1>t, <2>1 DEF Call, PushStart, PushLoadSeq, PushReload, PopStart, PopLoadSeq,
         PopReload, ReadPacket, ReadPlen, PushCas, PopCas, PushPacket, PushPlen, Goto
    <3>3. ~Releasing(t) /\ (Writing(t) => Writing(t)' /\ pos'[t] = pos[t])
      BY <1>t, <2>1 DEF Call, PushStart, PushLoadSeq, PushReload, PopStart, PopLoadSeq,
         PopReload, ReadPacket, ReadPlen, PushCas, PopCas, PushPacket, PushPlen, Goto,
         Writing, Releasing
    <3> QED BY <3>1, <3>2, <3>3, PendingQuiet DEF Writing, Releasing
  <2>2. CASE PushCas(t) /\ head = pos[t]
    <3>1. /\ head' = head + 1 /\ UNCHANGED <<tail, seq, pos>>
          /\ Writing(t)' /\ ~Writing(t) /\ ~Releasing(t)
          /\ \A u \in Threads \ {t} : pc'[u] = pc[u]
      BY <1>t, <2>2 DEF PushCas, Goto, Writing, Releasing
    <3>2. ASSUME NEW p \in tail' .. head' - 1, seq'[Cell(p)] = p
          PROVE  \E u \in Threads : Writing(u)' /\ pos'[u] = p
      <4>1. CASE p = head
        BY <2>2, <3>1, <4>1
      <4>2. CASE p # head
        <5>1. p \in tail .. head - 1 /\ seq[Cell(p)] = p
          BY <3>1, <3>2, <4>2, Positions
        <5>2. PICK u \in Threads : Writing(u) /\ pos[u] = p
          BY <5>1 DEF CallsPending
        <5> QED BY <3>1, <5>2 DEF Writing
      <4> QED BY <4>1, <4>2
    <3>3. ASSUME NEW p \in head' .. tail' + Size - 1, seq'[Cell(p)] = p + 1 - Size
          PROVE  \E u \in Threads : Releasing(u)' /\ pos'[u] = p - Size
      <4>1. p \in head .. tail + Size - 1 /\ seq[Cell(p)] = p + 1 - Size
        BY <3>1, <3>3, Positions, SizeType
      <4>2. PICK u \in Threads : Releasing(u) /\ pos[u] = p - Size
        BY <4>1 DEF CallsPending
      <4> QED BY <3>1, <4>2 DEF Releasing
    <3> QED BY <3>2, <3>3 DEF CallsPending
  <2>3. CASE PopCas(t) /\ tail = pos[t]
    <3>1. /\ tail' = tail + 1 /\ UNCHANGED <<head, seq, pos>>
          /\ Releasing(t)' /\ ~Writing(t) /\ ~Releasing(t)
          /\ \A u \in Threads \ {t} : pc'[u] = pc[u]
      BY <1>t, <2>3 DEF PopCas, Goto, Writing, Releasing
    <3>2. ASSUME NEW p \in head' .. tail' + Size - 1, seq'[Cell(p)] = p + 1 - Size
          PROVE  \E u \in Threads : Releasing(u)' /\ pos'[u] = p - Size
      <4>1. CASE p = tail + Size
        BY <2>3, <3>1, <4>1, Positions, SizeType
      <4>2. CASE p # tail + Size
        <5>1. p \in head .. tail + Size - 1 /\ seq[Cell(p)] = p + 1 - Size
          BY <3>1, <3>2, <4>2, Positions, SizeType
        <5>2. PICK u \in Threads : Releasing(u) /\ pos[u] = p - Size
          BY <5>1 DEF CallsPending
        <5> QED BY <3>1, <5>2 DEF Releasing
      <4> QED BY <4>1, <4>2
    <3>3. ASSUME NEW p \in tail' .. head' - 1, seq'[Cell(p)] = p
          PROVE  \E u \in Threads : Writing(u)' /\ pos'[u] = p
      BY <3>1, <3>3, Positions DEF CallsPending, Writing
    <3> QED BY <3>2, <3>3 DEF CallsPending
  <2>4. CASE PushPublish(t)
    <3> DEFINE c == Cell(pos[t])
    <3>1. /\ UNCHANGED <<head, tail, pos>> /\ seq' = [seq EXCEPT ![c] = pos[t] + 1]
          /\ Writing(t) /\ ~Releasing(t)
          /\ \A u \in Threads \ {t} : pc'[u] = pc[u]
      BY <1>t, <2>4 DEF PushPublish, Goto, Writing, Releasing
    <3>2. tail <= pos[t] /\ pos[t] < head /\ pos[t] \in Nat /\ c \in Cells
      BY <1>t, <3>1, CellType DEF WriterOK
    <3>3. ASSUME NEW p \in tail .. tail + Size - 1, p # pos[t]
          PROVE  p \in Nat /\ Cell(p) # c
      BY <3>2, <3>3, CellInjective, Positions, SizeType
    <3>4. ASSUME NEW p \in tail' .. head' - 1, seq'[Cell(p)] = p
          PROVE  \E u \in Threads : Writing(u)' /\ pos'[u] = p
      <4>1. p # pos[t]
        BY <1>t, <3>1, <3>2, <3>4
      <4>2. p \in tail .. tail + Size - 1
        BY <3>1, Positions, SizeType
      <4>3. seq[Cell(p)] = p
        BY <1>t, <3>1, <3>3, <3>4, <4>1, <4>2
      <4>4. PICK u \in Threads : Writing(u) /\ pos[u] = p
        BY <3>1, <4>3 DEF CallsPending
      <4> QED BY <3>1, <4>1, <4>4 DEF Writing
    <3>5. ASSUME NEW p \in head' .. tail' + Size - 1, seq'[Cell(p)] = p + 1 - Size
          PROVE  \E u \in Threads : Releasing(u)' /\ pos'[u] = p - Size
      <4>1. p # pos[t] /\ p \in tail .. tail + Size - 1
        BY <3>1, <3>2, Positions, SizeType
      <4>2. seq[Cell(p)] = p + 1 - Size
        BY <1>t, <3>1, <3>3, <3>5, <4>1
      <4>3. PICK u \in Threads : Releasing(u) /\ pos[u] = p - Size
        BY <3>1, <4>2 DEF CallsPending
      <4> QED BY <3>1, <4>3 DEF Releasing
    <3> QED BY <3>4, <3>5 DEF CallsPending
  <2>5. CASE PopRelease(t)
    <3> DEFINE c == Cell(pos[t])
    <3>1. /\ UNCHANGED <<head, tail, pos>> /\ seq' = [seq EXCEPT ![c] = pos[t] + Size]
          /\ Releasing(t) /\ ~Writing(t)
          /\ \A u \in Threads \ {t} : pc'[u] = pc[u]
      BY <1>t, <2>5 DEF PopRelease, Goto, Writing, Releasing
    <3>2. pos[t] < tail /\ head <= pos[t] + Size /\ pos[t] \in Nat /\ c \in Cells
          /\ c = Cell(pos[t] + Size)
      BY <1>t, <3>1, CellType, CellPeriod DEF ReleaserOK
    <3>3. ASSUME NEW p \in tail .. tail + Size - 1, p # pos[t] + Size
          PROVE  p \in Nat /\ Cell(p) # c
      <4>1. p \in Nat /\ pos[t] + Size \in Nat
        BY <3>2, Positions, SizeType
      <4>2. CASE p <= pos[t] + Size
        BY <3>2, <3>3, <4>1, <4>2, CellInjective, Positions, SizeType
      <4>3. CASE pos[t] + Size <= p
        BY <3>2, <3>3, <4>1, <4>3, CellInjective, Positions, SizeType
      <4> QED BY <4>1, <4>2, <4>3, SizeType
    <3>4. ASSUME NEW p \in tail' .. head' - 1, seq'[Cell(p)] = p
          PROVE  \E u \in Threads : Writing(u)' /\ pos'[u] = p
      <4>1. p \in tail .. tail + Size - 1 /\ p # pos[t] + Size
        BY <3>1, <3>2, Positions, SizeType
      <4>2. seq[Cell(p)] = p
        BY <1>t, <3>1, <3>3, <3>4, <4>1
      <4>3. PICK u \in Threads : Writing(u) /\ pos[u] = p
        BY <3>1, <4>2 DEF CallsPending
      <4> QED BY <3>1, <4>3 DEF Writing
    <3>5. ASSUME NEW p \in head' .. tail' + Size - 1, seq'[Cell(p)] = p + 1 - Size
          PROVE  \E u \in Threads : Releasing(u)' /\ pos'[u] = p - Size
      <4>1. p \in tail .. tail + Size - 1
        BY <3>1, Positions, SizeType
      <4>2. p # pos[t] + Size
        BY <1>t, <3>1, <3>2, <3>5, SizeType
      <4>3. seq[Cell(p)] = p + 1 - Size
        BY <1>t, <3>1, <3>3, <3>5, <4>1, <4>2
      <4>4. PICK u \in Threads : Releasing(u) /\ pos[u] = p - Size
        BY <3>1, <4>3 DEF CallsPending
      <4>5. u # t
        BY <3>2, <4>2, <4>4, SizeType
      <4> QED BY <3>1, <4>4, <4>5 DEF Releasing
    <3> QED BY <3>4, <3>5 DEF CallsPending
  <2> QED BY <1>2, <2>1, <2>2, <2>3, <2>4, <2>5 DEF Step, PushStep, PopStep
<1> QED BY <1>1, <1>2 DEF Next

\* A sequence number never falls behind its position by more than a lap: a
\* thread whose position was overtaken reads a larger one, and tries again.
LEMMA SeqNotBehind ==
  ASSUME RingInvariant
  PROVE  /\ \A p \in 0 .. head - 1 : seq[Cell(p)] >= p
         /\ \A p \in 0 .. tail - 1 : seq[Cell(p)] >= p + 1
<1>1. ASSUME NEW p \in 0 .. tail - 1 PROVE seq[Cell(p)] >= p + 1
  <2>1. p \in Nat /\ Cell(p) \in Cells
    BY Positions, CellType
  <2>2. PICK q \in tail .. tail + Size - 1 : q \in Nat /\ Cell(q) = Cell(p)
    BY <2>1, CellInWindow, Positions
  <2>3. q >= p + Size
    BY <2>1, <2>2, CellInjective, Positions, SizeType
  <2>4. seq[Cell(q)] \in {q, q + 1, q + 1 - Size}
    BY <2>1, Positions DEF RingInvariant, ClaimedCells, FreeCells
  <2> QED BY <2>1, <2>2, <2>3, <2>4, Positions, SizeType
<1>2. ASSUME NEW p \in tail .. head - 1 PROVE seq[Cell(p)] >= p
  BY Positions DEF RingInvariant, ClaimedCells
<1>3. \A p \in 0 .. head - 1 : p \in Nat /\ seq[Cell(p)] \in Nat
  BY CellType, Positions DEF RingInvariant, TypeOK
<1> QED BY <1>1, <1>2, <1>3, Positions

\* push_ringbuf says full, and pop_ringbuf says empty, only when the ring is,
\* or while the call that keeps the cell is unfinished, for any number of
\* threads and however old the position is that the answer was decided on.
THEOREM AnswersAreJustified == Spec => AnswersJustified
<1> DEFINE A == \A t \in Threads : pc'[t] = "idle" =>
       /\ pc[t] = "push_seq" =>
            \/ head - tail = Size
            \/ \E u \in Threads : Releasing(u) /\ pos[u] = head - Size
       /\ pc[t] = "pop_seq" =>
            \/ head = tail
            \/ \E u \in Threads : Writing(u) /\ pos[u] = tail
<1>1. RingInvariant /\ CallsPending /\ [Next]_vars => [A]_vars
  <2> SUFFICES ASSUME RingInvariant, CallsPending, [Next]_vars, NEW t \in Threads,
                      pc'[t] = "idle"
               PROVE  /\ pc[t] = "push_seq" =>
                           \/ head - tail = Size
                           \/ \E u \in Threads : Releasing(u) /\ pos[u] = head - Size
                      /\ pc[t] = "pop_seq" =>
                           \/ head = tail
                           \/ \E u \in Threads : Writing(u) /\ pos[u] = tail
    OBVIOUS
  <2>t. pc \in [Threads -> Labels] /\ CasOK(t) /\ ClaimedCells /\ FreeCells
    BY DEF RingInvariant, TypeOK
  <2>1. ASSUME pc[t] = "push_seq"
        PROVE  \/ head - tail = Size
               \/ \E u \in Threads : Releasing(u) /\ pos[u] = head - Size
    <3>1. PushLoadSeq(t)
      BY <2>t, <2>1 DEF Next, vars, Call, Step, PushStep, PopStep, PushStart, PushLoadSeq,
         PushCas, PushReload, PushPacket, PushPlen, PushPublish, PopStart, PopLoadSeq,
         PopCas, PopReload, PopRelease, ReadPacket, ReadPlen, Goto
    <3>2. seq[Cell(pos[t])] < pos[t]
      BY <2>t, <2>1, <3>1, Positions, CellType DEF PushLoadSeq, PushVerdict, Goto
    <3>3. pos[t] = head
      <4>1. pos[t] \in Nat /\ pos[t] <= head /\ seq[Cell(pos[t])] \in Nat
        BY <2>t, <2>1, Positions, CellType DEF CasOK
      <4> QED BY <3>2, <4>1, SeqNotBehind, Positions
    <3>4. CASE head < tail + Size
      <4>1. seq[Cell(head)] = head + 1 - Size
        BY <2>t, <3>2, <3>3, <3>4, Positions, SizeType DEF FreeCells
      <4>2. head \in head .. tail + Size - 1
        BY <3>4, Positions, SizeType
      <4> QED BY <4>1, <4>2 DEF CallsPending
    <3> QED BY <3>4, Positions, SizeType
  <2>2. ASSUME pc[t] = "pop_seq"
        PROVE  \/ head = tail
               \/ \E u \in Threads : Writing(u) /\ pos[u] = tail
    <3>1. PopLoadSeq(t)
      BY <2>t, <2>2 DEF Next, vars, Call, Step, PushStep, PopStep, PushStart, PushLoadSeq,
         PushCas, PushReload, PushPacket, PushPlen, PushPublish, PopStart, PopLoadSeq,
         PopCas, PopReload, PopRelease, ReadPacket, ReadPlen, Goto
    <3>2. seq[Cell(pos[t])] < pos[t] + 1
      BY <2>t, <2>2, <3>1, Positions, CellType DEF PopLoadSeq, PopVerdict, Goto
    <3>3. pos[t] = tail
      BY <2>t, <2>2, <3>2, SeqNotBehind, Positions, CellType DEF CasOK
    <3>4. CASE tail < head
      <4>1. seq[Cell(tail)] = tail
        BY <2>t, <3>2, <3>3, <3>4, Positions, SizeType DEF ClaimedCells
      <4> QED BY <3>4, <4>1, Positions, SizeType DEF CallsPending
    <3> QED BY <3>4, Positions
  <2> QED BY <2>1, <2>2
<1>2. Spec => []CallsPending
  BY InitPending, NextPending, RingInvariantHolds, PTL DEF Spec
<1> QED BY <1>1, <1>2, RingInvariantHolds, PTL DEF Spec, AnswersJustified

\* An empty ring is an empty queue.
LEMMA InitRefines == Init => Fifo!Init
BY DEF Init, Fifo!Init

\* The successful CAS on head is a put, the successful CAS on tail is a get of
\* the oldest entry, and every other access leaves the queue alone.
LEMMA StepRefines ==
  RingInvariant /\ [Next]_vars => [Fifo!Next]_<<pushed, popped>>
<1> SUFFICES ASSUME RingInvariant, [Next]_vars
             PROVE  [Fifo!Next]_<<pushed, popped>>
  OBVIOUS
<1>1. CASE UNCHANGED vars
  BY <1>1 DEF vars
<1>2. ASSUME NEW t \in Threads, Call(t) \/ Step(t)
      PROVE  [Fifo!Next]_<<pushed, popped>>
  <2>1. CASE PushCas(t) /\ head = pos[t]
    <3>1. Window' /\ arg[t] \in Items
      BY <1>2, <2>1, InvPushClaim DEF RingInvariant, CasOK, PushLabels, PushCas, Goto
    <3>2. pushed' = Append(pushed, Entry(arg[t], arg[t])) /\ popped' = popped
          /\ head' = head + 1 /\ tail' = tail
      BY <2>1 DEF PushCas
    <3>3. Len(pushed) - Len(popped) < Size
      BY <3>1, <3>2, Positions, SizeType DEF Window
    <3>4. Entry(arg[t], arg[t]) \in Entries
      BY <3>1, EntryType
    <3> QED BY <3>2, <3>3, <3>4 DEF Fifo!Next, Fifo!Put
  <2>2. CASE PopCas(t) /\ tail = pos[t]
    <3>1. seq[Cell(tail)] = tail + 1
      BY <2>2 DEF RingInvariant, CasOK, PopCas, Goto
    <3>2. Window' /\ tail' = tail + 1 /\ head' = head /\ pushed' = pushed
          /\ popped' = Append(popped, Content(Cell(tail)))
      BY <2>2, InvPopClaim DEF RingInvariant, PopCas, Content
    <3>3. tail < head
      BY <3>2, Positions DEF Window
    <3>4. Content(Cell(tail)) = pushed[tail + 1]
      BY <3>1, <3>3, Positions DEF RingInvariant, ClaimedCells
    <3> QED BY <3>2, <3>3, <3>4, Positions DEF Fifo!Next, Fifo!Get
  <2>3. CASE ~(PushCas(t) /\ head = pos[t]) /\ ~(PopCas(t) /\ tail = pos[t])
    BY <1>2, <2>3 DEF Call, Step, PushStep, PopStep, PushStart, PushLoadSeq, PushCas,
       PushReload, PushPacket, PushPlen, PushPublish, PopStart, PopLoadSeq, PopCas,
       PopReload, PopRelease, ReadPacket, ReadPlen, history
  <2> QED BY <2>1, <2>2, <2>3
<1> QED BY <1>1, <1>2 DEF Next

\* push_ringbuf and pop_ringbuf implement a bounded FIFO queue: nothing is
\* lost, duplicated, reordered or torn, for any number of threads.
THEOREM RefinesFifo == Spec => FifoRefinement
BY InitRefines, StepRefines, RingInvariantHolds, PTL
   DEF Spec, FifoRefinement, Fifo!Spec

-----------------------------------------------------------------------------
(***************************************************************************)
(* Allocator, for every number of blocks and threads: no block is lost, or *)
(* has two owners.  The ring's own invariant carries over, since every     *)
(* step of the allocator is a step of the ring; what is new is the count   *)
(* of blocks, which keeps the ring from being full when a block comes back *)
(* and from being lapped while a block is read.  That there are as many    *)
(* blocks as cells is a hypothesis of these theorems only.                 *)
(***************************************************************************)
(***************************************************************************)
(* The inductive invariant behind OnePlace, on top of the ring's           *)
(***************************************************************************)
\* Only blocks circulate, as many as there are cells.
BlocksOnly == /\ BlocksFillRing
              /\ held \in [Threads -> SUBSET Items]
              /\ \A i \in 1 .. Len(pushed) : pushed[i].packet \in Items
              /\ \A i \in 1 .. Len(popped) : popped[i].packet \in Items

\* Nobody else pops while the allocating thread has a block to read.
OnePopper == /\ \A t \in Threads : pc[t] \in PopLabels => t = Popper
             /\ pc[Popper] \in {"pop_release", "read_packet"} => tail = pos[Popper] + 1

\* One of the four sets has one member, the others have none.
IsSingleton(S) == \E x \in S : S = {x}
PlacedOnce(b) ==
  \/ IsSingleton(Queued(b)) /\ Unread(b) = {} /\ Owned(b) = {} /\ Going(b) = {}
  \/ Queued(b) = {} /\ IsSingleton(Unread(b)) /\ Owned(b) = {} /\ Going(b) = {}
  \/ Queued(b) = {} /\ Unread(b) = {} /\ IsSingleton(Owned(b)) /\ Going(b) = {}
  \/ Queued(b) = {} /\ Unread(b) = {} /\ Owned(b) = {} /\ IsSingleton(Going(b))

AllocInvariant == /\ RingInvariant /\ CallsPending
                  /\ BlocksOnly /\ OnePopper
                  /\ \A b \in Items : PlacedOnce(b)

-----------------------------------------------------------------------------
\* Whatever the allocator does to its ring is a push or a pop.
LEMMA AllocStepsRing == [AllocNext]_allocVars => [Next]_vars
<1> SUFFICES ASSUME [AllocNext]_allocVars PROVE [Next]_vars
  OBVIOUS
<1>1. CASE UNCHANGED allocVars
  BY <1>1 DEF allocVars
<1>2. ASSUME NEW t \in Threads,
             \/ Alloc(t) \/ ReadBlock(t) \/ RingStep(t)
             \/ \E b \in Items : Free(t, b)
             \/ \E u \in Threads, b \in Items : Handoff(t, u, b)
      PROVE  [Next]_vars
  <2>1. CASE Alloc(t)
    BY <2>1 DEF Alloc, Next, Call
  <2>2. CASE ReadBlock(t)
    BY <2>2 DEF ReadBlock, Next, Step, PopStep
  <2>3. CASE RingStep(t)
    BY <2>3 DEF RingStep, Next, Step, PopStep
  <2>4. CASE \E b \in Items : Free(t, b)
    BY <2>4 DEF Free, Next, Call
  <2>5. CASE \E u \in Threads, b \in Items : Handoff(t, u, b)
    BY <2>5 DEF Handoff
  <2> QED BY <1>2, <2>1, <2>2, <2>3, <2>4, <2>5
<1> QED BY <1>1, <1>2 DEF AllocNext

\* create_allocator fills the ring and leaves no call pending.
LEMMA AllocInitRing ==
  ASSUME BlocksFillRing, AllocInit PROVE RingInvariant /\ CallsPending
<1> USE DEF AllocInit
<1>1. \A c \in Cells : c \in Nat /\ c \in Items /\ Entry(c, c) \in Entries
  BY CellOfCell, EntryType DEF BlocksFillRing
<1>2. /\ pushed \in Seq(Entries) /\ Len(pushed) = Size
      /\ \A i \in 1 .. Size : pushed[i] = Entry(i - 1, i - 1)
  <2>1. \A i \in 1 .. Size : i - 1 \in Cells
    BY SizeType DEF Cells
  <2> QED BY <1>1, <2>1, SizeType
<1>3. TypeOK
  BY <1>1, <1>2, SizeType DEF TypeOK, Labels
<1>4. Window
  BY <1>2, SizeType DEF Window
<1>5. ASSUME NEW p \in tail .. head - 1
      PROVE  seq[Cell(p)] = p + 1 /\ Content(Cell(p)) = pushed[p + 1]
  <2>1. p \in Cells /\ Cell(p) = p /\ p + 1 \in 1 .. Size /\ (p + 1) - 1 = p
    BY CellOfCell, SizeType DEF Cells
  <2> QED BY <1>2, <2>1 DEF Content
<1>6. ClaimedCells
  BY <1>5 DEF ClaimedCells
<1>7. head .. tail + Size - 1 = {}
  BY SizeType
<1>8. FreeCells
  BY <1>7 DEF FreeCells
<1>9. DistinctPositions
  BY DEF DistinctPositions, Writing, Releasing
<1>10. \A t \in Threads : WriterOK(t) /\ ReleaserOK(t) /\ ReaderOK(t) /\ CasOK(t)
  BY DEF WriterOK, ReleaserOK, ReaderOK, CasOK, Writing, Releasing, Reading, PushLabels
<1>11. CallsPending
  <2>1. \A p \in tail .. head - 1 : seq[Cell(p)] # p
    <3> TAKE p \in tail .. head - 1
    <3>1. p \in Int
      BY SizeType
    <3>2. seq[Cell(p)] = p + 1
      BY <1>5
    <3> HIDE DEF AllocInit
    <3> QED BY <3>1, <3>2
  <2> QED BY <1>7, <2>1 DEF CallsPending
<1> QED BY <1>3, <1>4, <1>6, <1>8, <1>9, <1>10, <1>11 DEF RingInvariant

\* At the start block b is at position b of the ring, and nowhere else.
LEMMA AllocInitInvariant == ASSUME BlocksFillRing, AllocInit PROVE AllocInvariant
<1>1. BlocksOnly
  <2>1. \A i \in 1 .. Len(pushed) : pushed[i].packet \in Items
    <3>1. Len(pushed) = Size
      BY AllocInitRing DEF RingInvariant, Window, AllocInit
    <3>2. \A i \in 1 .. Size : i - 1 \in Items
      BY SizeType DEF BlocksFillRing, Cells
    <3> QED BY <3>1, <3>2 DEF AllocInit, Entry
  <2>2. held \in [Threads -> SUBSET Items] /\ 1 .. Len(popped) = {}
    BY DEF AllocInit
  <2> QED BY <2>1, <2>2 DEF BlocksOnly
<1>2. OnePopper
  BY PopperAssumption DEF OnePopper, AllocInit, PopLabels
<1>3. ASSUME NEW b \in Items PROVE PlacedOnce(b)
  <2>1. b \in 0 .. Size - 1 /\ Size \in Nat
    BY SizeType DEF BlocksFillRing, Cells
  <2>2. \A p \in 0 .. Size - 1 : pushed[p + 1].packet = p
    <3>1. \A p \in 0 .. Size - 1 : p + 1 \in 1 .. Size /\ (p + 1) - 1 = p
      BY SizeType
    <3> QED BY <3>1 DEF AllocInit, Entry
  <2>3. Queued(b) = {b}
    <3>1. Queued(b) = {p \in 0 .. Size - 1 : pushed[p + 1].packet = b}
      BY DEF Queued, AllocInit
    <3> QED BY <2>1, <2>2, <3>1
  <2> QED BY <2>3 DEF PlacedOnce, IsSingleton, Unread, Owned, Going, AllocInit
<1> QED BY <1>1, <1>2, <1>3, AllocInitRing DEF AllocInvariant

-----------------------------------------------------------------------------
\* The ring has room for every block that is not queued: the queued ones are
\* different blocks, and there are Size of them altogether.
LEMMA RoomForOthers ==
  ASSUME AllocInvariant, NEW S \in SUBSET Items, \A b \in S : Queued(b) = {}
  PROVE  IsFiniteSet(S) /\ Cardinality(S) \in Nat /\ head - tail <= Size - Cardinality(S)
<1> DEFINE Q == tail .. head - 1
           f == [p \in Q |-> pushed[p + 1].packet]
<1>1. head \in Nat /\ tail \in Nat /\ tail <= head /\ Len(pushed) = head
  BY Positions DEF AllocInvariant
<1>2. IsFiniteSet(Items) /\ Cardinality(Items) = Size
  BY FS_Interval, SizeType DEF AllocInvariant, BlocksOnly, BlocksFillRing, Cells
<1>3. IsFiniteSet(S) /\ Cardinality(S) \in Nat
  BY <1>2, FS_Subset, FS_CardinalityType
<1>4. \A p \in Q : p + 1 \in 1 .. Len(pushed) /\ p \in Queued(pushed[p + 1].packet)
  BY <1>1 DEF Queued
<1>5. \A p \in Q : pushed[p + 1].packet \in Items \ S
  BY <1>4 DEF AllocInvariant, BlocksOnly
<1>6. \A p, q \in Q : pushed[p + 1].packet = pushed[q + 1].packet => p = q
  BY <1>4, <1>5 DEF AllocInvariant, PlacedOnce, IsSingleton
<1>7. f \in Injection(Q, Items \ S)
  BY <1>5, <1>6 DEF Injection, IsInjective
<1> HIDE DEF f
<1>8. IsFiniteSet(Items \ S) /\ Cardinality(Items \ S) = Size - Cardinality(Items \cap S)
  BY <1>2, FS_Difference
<1>9. Items \cap S = S
  OBVIOUS
<1>10. Cardinality(Q) <= Cardinality(Items \ S)
  BY <1>7, <1>8, FS_Injection
<1>11. Cardinality(Q) = head - tail
  <2>1. tail \in Int /\ head - 1 \in Int
    BY <1>1
  <2>2. Cardinality(Q) = IF tail > head - 1 THEN 0 ELSE head - 1 - tail + 1
    BY <2>1, FS_Interval
  <2> QED BY <1>1, <2>2
<1> QED BY <1>1, <1>3, <1>8, <1>9, <1>10, <1>11, SizeType

\* The thread that allocates reads the block it popped: its cell is released,
\* but the ring has a free place as long as the block is in nobody's hands.
LEMMA ReadsPopped ==
  ASSUME AllocInvariant, NEW t \in Threads, pc[t] = "read_packet"
  PROVE  packet[Cell(pos[t])] = popped[pos[t] + 1].packet
<1> DEFINE b == popped[pos[t] + 1].packet
<1>1. t = Popper /\ tail = pos[t] + 1 /\ pos[t] \in Nat
  BY Positions DEF AllocInvariant, OnePopper, PopLabels
<1>2. b \in Items
  BY <1>1, Positions DEF AllocInvariant, BlocksOnly
<1>3. t \in Unread(b)
  BY DEF Unread
<1>4. Queued(b) = {}
  BY <1>2, <1>3 DEF AllocInvariant, PlacedOnce
<1> HIDE DEF b
<1>5. head - tail <= Size - Cardinality({b})
  BY <1>2, <1>4, RoomForOthers
<1>6. head <= pos[t] + Size
  <2>1. Cardinality({b}) = 1
    BY FS_Singleton
  <2>2. head \in Nat /\ tail \in Nat
    BY Positions DEF AllocInvariant
  <2> QED BY <1>1, <1>5, <2>1, <2>2, SizeType
<1>7. Content(Cell(pos[t])) = popped[pos[t] + 1]
  BY <1>6 DEF AllocInvariant, RingInvariant, ReaderOK, Reading
<1> QED BY <1>7 DEF Content, Entry, b

\* push_ringbuf never says full to a caller that frees a block.
LEMMA FreeNeverFull ==
  ASSUME AllocInvariant, NEW t \in Threads, pc[t] = "push_seq"
  PROVE  PushVerdict(seq[Cell(pos[t])], pos[t]) # "idle"
<1> SUFFICES ASSUME PushVerdict(seq[Cell(pos[t])], pos[t]) = "idle" PROVE FALSE
  OBVIOUS
<1>1. /\ RingInvariant /\ CallsPending
      /\ head \in Nat /\ tail \in Nat /\ pos[t] \in Nat /\ Size \in Nat
      /\ pos[t] <= head /\ seq[Cell(pos[t])] \in Nat /\ arg[t] \in Items
      /\ FreeCells
  BY Positions, CellType, SizeType
     DEF AllocInvariant, RingInvariant, TypeOK, CasOK, PushLabels
<1>2. seq[Cell(pos[t])] < pos[t]
  BY <1>1 DEF PushVerdict
<1>3. pos[t] = head
  BY <1>1, <1>2, SeqNotBehind
<1>4. t \in Going(arg[t])
  BY DEF Going
<1>5. Queued(arg[t]) = {} /\ Unread(arg[t]) = {}
  BY <1>1, <1>4 DEF AllocInvariant, PlacedOnce
<1>6. head - tail <= Size - 1
  <2>1. head - tail <= Size - Cardinality({arg[t]})
    BY <1>1, <1>5, RoomForOthers
  <2> QED BY <1>1, <2>1, FS_Singleton
<1>7. PICK u \in Threads : Releasing(u) /\ pos[u] = head - Size
  <2>1. head \in head .. tail + Size - 1
    BY <1>1, <1>6
  <2>2. seq[Cell(head)] = head + 1 - Size
    BY <1>1, <1>2, <1>3, <2>1 DEF FreeCells
  <2> QED BY <1>1, <2>1, <2>2 DEF CallsPending
<1> DEFINE b == popped[pos[u] + 1].packet
<1>8. tail = pos[u] + 1 /\ pos[u] \in Nat
  BY <1>7, Positions DEF AllocInvariant, OnePopper, PopLabels, Releasing
<1>9. b \in Items /\ u \in Unread(b)
  BY <1>1, <1>7, <1>8, Positions DEF AllocInvariant, BlocksOnly, Unread, Releasing
<1>10. Queued(b) = {} /\ b # arg[t]
  BY <1>5, <1>9 DEF AllocInvariant, PlacedOnce
<1> HIDE DEF b
<1>11. head - tail <= Size - Cardinality({b, arg[t]})
  BY <1>1, <1>5, <1>9, <1>10, RoomForOthers
<1>12. Cardinality({b, arg[t]}) = 2
  <2>1. IsFiniteSet({b}) /\ Cardinality({b}) = 1 /\ {b} \union {arg[t]} = {b, arg[t]}
    BY FS_Singleton
  <2>2. arg[t] \notin {b}
    BY <1>10
  <2>3. Cardinality({b} \union {arg[t]}) = Cardinality({b}) + 1
    BY <2>1, <2>2, FS_AddElement, Zenon
  <2> QED BY <2>1, <2>3
<1> QED BY <1>1, <1>7, <1>8, <1>11, <1>12

-----------------------------------------------------------------------------
\* A block that stays where it is keeps its one place.
LEMMA StaysPlaced ==
  ASSUME NEW b \in Items, PlacedOnce(b),
         Queued(b)' = Queued(b), Unread(b)' = Unread(b),
         Owned(b)' = Owned(b), Going(b)' = Going(b)
  PROVE  PlacedOnce(b)'
BY DEF PlacedOnce

\* The steps of a call that move no block: everything but the two CAS that
\* win, the caller's read, and a push that finds the ring full.
LEMMA QuietPlaces ==
  ASSUME AllocInvariant, UNCHANGED <<head, tail, pushed, popped, held>>,
         NEW t \in Threads,
         \A u \in Threads \ {t} : pc'[u] = pc[u] /\ pos'[u] = pos[u] /\ arg'[u] = arg[u],
         \/ /\ pc[t] \in {"push_seq", "push_cas", "push_reload"}
            /\ pc'[t] \in {"push_seq", "push_cas", "push_reload"}
            /\ arg'[t] = arg[t]
         \/ /\ pc[t] \in {"pop_release", "read_packet"}
            /\ pc'[t] \in {"pop_release", "read_packet"}
            /\ pos'[t] = pos[t]
         \/ pc[t] \notin {"push_seq", "push_cas", "push_reload", "pop_release", "read_packet"}
            /\ pc'[t] \notin {"push_seq", "push_cas", "push_reload", "pop_release", "read_packet"}
  PROVE  \A b \in Items : PlacedOnce(b)'
<1> TAKE b \in Items
<1>1. Queued(b)' = Queued(b) /\ Owned(b)' = Owned(b)
  BY DEF Queued, Owned
<1>2. Going(b)' = Going(b)
  BY DEF Going
<1>3. Unread(b)' = Unread(b)
  BY DEF Unread
<1> QED BY <1>1, <1>2, <1>3, StaysPlaced DEF AllocInvariant

\* The CAS on head moves the pushed block from its caller's hands to the ring.
LEMMA PlacesPush ==
  ASSUME AllocInvariant, NEW t \in Threads,
         PushCas(t), head = pos[t], UNCHANGED held
  PROVE  \A b \in Items : PlacedOnce(b)'
<1>1. /\ pc \in [Threads -> Labels] /\ arg[t] \in Items /\ Entry(arg[t], arg[t]) \in Entries
      /\ pushed \in Seq(Entries) /\ Len(pushed) = head /\ head \in Nat /\ tail \in Nat
      /\ tail <= head
  BY Positions, EntryType DEF AllocInvariant, RingInvariant, TypeOK, CasOK, PushCas, Goto, PushLabels
<1>2. /\ pc[t] = "push_cas" /\ pc' = [pc EXCEPT ![t] = "push_packet"]
      /\ head' = head + 1 /\ pushed' = Append(pushed, Entry(arg[t], arg[t]))
      /\ UNCHANGED <<tail, pos, arg, popped, held>>
  BY DEF PushCas, Goto
<1>3. /\ \A p \in tail .. head - 1 : pushed'[p + 1] = pushed[p + 1]
      /\ pushed'[head + 1].packet = arg[t]
  BY <1>1, <1>2, AppendFacts DEF Entry
<1> TAKE b \in Items
<1>4. Unread(b)' = Unread(b) /\ Owned(b)' = Owned(b)
  BY <1>1, <1>2 DEF Unread, Owned
<1>5. CASE b = arg[t]
  <2>1. t \in Going(b)
    BY <1>2, <1>5 DEF Going
  <2>2. Queued(b) = {} /\ Unread(b) = {} /\ Owned(b) = {} /\ Going(b) = {t}
    BY <2>1 DEF AllocInvariant, PlacedOnce, IsSingleton
  <2>3. Queued(b)' = {head}
    <3>1. \A p \in tail .. head - 1 : pushed'[p + 1].packet # b
      BY <1>3, <2>2 DEF Queued
    <3>2. \A p \in tail' .. head' - 1 : pushed'[p + 1].packet = b <=> p = head
      <4> TAKE p \in tail' .. head' - 1
      <4>1. p \in tail .. head - 1 \/ p = head
        BY <1>1, <1>2
      <4>2. CASE p = head
        BY <1>3, <1>5, <4>2
      <4>3. CASE p \in tail .. head - 1
        BY <1>1, <3>1, <4>3
      <4> QED BY <4>1, <4>2, <4>3
    <3>3. head \in tail' .. head' - 1
      BY <1>1, <1>2
    <3> QED BY <3>2, <3>3 DEF Queued
  <2>4. Going(b)' = {}
    BY <1>1, <1>2, <2>2 DEF Going
  <2> QED BY <1>4, <2>2, <2>3, <2>4 DEF PlacedOnce, IsSingleton
<1>6. CASE b # arg[t]
  <2>1. Queued(b)' = Queued(b)
    BY <1>1, <1>2, <1>3, <1>6 DEF Queued
  <2>2. Going(b)' = Going(b)
    BY <1>1, <1>2, <1>6 DEF Going
  <2> QED BY <1>4, <2>1, <2>2, StaysPlaced DEF AllocInvariant
<1> QED BY <1>5, <1>6

\* The CAS on tail moves the oldest block of the ring to the popping thread.
LEMMA PlacesPop ==
  ASSUME AllocInvariant, NEW t \in Threads,
         PopCas(t), tail = pos[t], UNCHANGED held
  PROVE  /\ \A b \in Items : PlacedOnce(b)'
         /\ \A i \in 1 .. Len(popped') : popped'[i].packet \in Items
<1>1. /\ pc \in [Threads -> Labels] /\ seq[Cell(tail)] = tail + 1 /\ ClaimedCells
      /\ popped \in Seq(Entries) /\ Len(popped) = tail /\ head \in Nat /\ tail \in Nat
      /\ Len(pushed) = head
  BY Positions DEF AllocInvariant, RingInvariant, TypeOK, CasOK, PopCas, Goto
<1>2. /\ pc[t] = "pop_cas" /\ pc' = [pc EXCEPT ![t] = "pop_release"]
      /\ tail' = tail + 1 /\ popped' = Append(popped, Content(Cell(tail)))
      /\ UNCHANGED <<head, pos, arg, pushed, held>>
  BY DEF PopCas, Goto, Content
<1>3. tail < head /\ Content(Cell(tail)) \in Entries
  <2>1. RingInvariant' /\ Next
    BY NextInvariant DEF AllocInvariant, Next, Step, PopStep
  <2>2. tail + 1 <= head
    BY <1>1, <1>2, <2>1, Positions DEF RingInvariant, Window
  <2>3. Cell(tail) \in Cells
    BY <1>1, CellType
  <2>4. Content(Cell(tail)) \in Entries
    BY <2>3, EntryType DEF Content, AllocInvariant, RingInvariant, TypeOK
  <2> QED BY <1>1, <2>2, <2>4
<1>4. Content(Cell(tail)) = pushed[tail + 1]
  BY <1>1, <1>3 DEF ClaimedCells
<1>5. /\ \A i \in 1 .. Len(popped) : popped'[i] = popped[i]
      /\ popped'[tail + 1] = pushed[tail + 1] /\ Len(popped') = tail + 1
  BY <1>1, <1>2, <1>3, <1>4, AppendFacts
<1>6. pushed[tail + 1].packet \in Items
  BY <1>1, <1>3 DEF AllocInvariant, BlocksOnly
<1>7. \A i \in 1 .. Len(popped') : popped'[i].packet \in Items
  <2> TAKE i \in 1 .. Len(popped')
  <2>1. i \in 1 .. Len(popped) \/ i = tail + 1
    BY <1>1, <1>5
  <2> QED BY <1>5, <1>6, <2>1 DEF AllocInvariant, BlocksOnly
<1>8. ASSUME NEW b \in Items PROVE PlacedOnce(b)'
  <2>1. Owned(b)' = Owned(b) /\ Going(b)' = Going(b)
    BY <1>1, <1>2 DEF Going, Owned
  <2>2. \A u \in Threads \ {t} : pc'[u] \notin {"pop_release", "read_packet"}
        /\ pc[u] \notin {"pop_release", "read_packet"}
    BY <1>1, <1>2 DEF AllocInvariant, OnePopper, PopLabels
  <2>q. Queued(b)' = Queued(b) \ {tail}
    <3>1. (tail .. head - 1)' = (tail .. head - 1) \ {tail} /\ pushed' = pushed
      BY <1>1, <1>2, <1>3
    <3> QED BY <3>1 DEF Queued
  <2>3. CASE b = pushed[tail + 1].packet
    <3>1. tail \in Queued(b)
      BY <1>1, <1>3, <2>3 DEF Queued
    <3>2. Queued(b) = {tail} /\ Unread(b) = {} /\ Owned(b) = {} /\ Going(b) = {}
      BY <3>1 DEF AllocInvariant, PlacedOnce, IsSingleton
    <3>3. Queued(b)' = {}
      BY <2>q, <3>2
    <3>4. Unread(b)' = {t}
      BY <1>1, <1>2, <1>5, <2>2, <2>3 DEF Unread
    <3> QED BY <2>1, <3>2, <3>3, <3>4 DEF PlacedOnce, IsSingleton
  <2>4. CASE b # pushed[tail + 1].packet
    <3>1. Queued(b)' = Queued(b)
      BY <2>4, <2>q DEF Queued
    <3>2. Unread(b)' = Unread(b)
      BY <1>1, <1>2, <1>5, <2>2, <2>4 DEF Unread
    <3> QED BY <2>1, <3>1, <3>2, StaysPlaced DEF AllocInvariant
  <2> QED BY <2>3, <2>4
<1> QED BY <1>7, <1>8

\* buffer = cell->packet: the popped block becomes its reader's.
LEMMA PlacesRead ==
  ASSUME AllocInvariant, NEW t \in Threads, ReadBlock(t)
  PROVE  (\A b \in Items : PlacedOnce(b)') /\ held' \in [Threads -> SUBSET Items]
<1> DEFINE x == popped[pos[t] + 1].packet
<1>1. /\ pc[t] = "read_packet" /\ pc' = [pc EXCEPT ![t] = "read_plen"]
      /\ UNCHANGED <<head, tail, pushed, popped, pos, arg>>
      /\ held' = [held EXCEPT ![t] = @ \union {x}]
  BY ReadsPopped DEF ReadBlock, ReadPacket, Goto, shared, history
<1>2. pc \in [Threads -> Labels] /\ held \in [Threads -> SUBSET Items] /\ x \in Items
  BY <1>1, Positions
     DEF AllocInvariant, RingInvariant, TypeOK, BlocksOnly, ReaderOK, Reading
<1> HIDE DEF x
<1>3. \A u \in Threads \ {t} : pc[u] \notin {"pop_release", "read_packet"}
  BY <1>1 DEF AllocInvariant, OnePopper, PopLabels
<1>4. ASSUME NEW b \in Items PROVE PlacedOnce(b)'
  <2>1. Queued(b)' = Queued(b) /\ Going(b)' = Going(b)
    BY <1>1, <1>2 DEF Queued, Going
  <2>2. Unread(b)' = {}
    BY <1>1, <1>2, <1>3 DEF Unread
  <2>3. CASE b = x
    <3>1. t \in Unread(b)
      BY <1>1, <2>3 DEF Unread, x
    <3>2. Queued(b) = {} /\ Owned(b) = {} /\ Going(b) = {}
      BY <3>1 DEF AllocInvariant, PlacedOnce
    <3>3. Owned(b)' = {t}
      BY <1>1, <1>2, <2>3, <3>2 DEF Owned
    <3> QED BY <2>1, <2>2, <3>2, <3>3 DEF PlacedOnce, IsSingleton
  <2>4. CASE b # x
    <3>1. Unread(b) = {}
      BY <1>3, <2>4 DEF Unread, x
    <3>2. Owned(b)' = Owned(b)
      BY <1>1, <1>2, <2>4 DEF Owned
    <3> QED BY <2>1, <2>2, <3>1, <3>2, StaysPlaced DEF AllocInvariant
  <2> QED BY <2>3, <2>4
<1> QED BY <1>1, <1>2, <1>4

\* The call of push_ringbuf: the freed block leaves its owner's hands.
LEMMA PlacesFree ==
  ASSUME AllocInvariant, NEW t \in Threads, NEW x \in Items, Free(t, x)
  PROVE  (\A b \in Items : PlacedOnce(b)') /\ held' \in [Threads -> SUBSET Items]
<1>1. /\ pc[t] = "idle" /\ pc' = [pc EXCEPT ![t] = "push_seq"] /\ x \in held[t]
      /\ UNCHANGED <<head, tail, pushed, popped>>
      /\ pos' = [pos EXCEPT ![t] = head] /\ arg' = [arg EXCEPT ![t] = x]
      /\ held' = [held EXCEPT ![t] = @ \ {x}]
  BY DEF Free, PushStart, Goto, shared, history
<1>2. /\ pc \in [Threads -> Labels] /\ held \in [Threads -> SUBSET Items]
      /\ pos \in [Threads -> Nat] /\ arg \in [Threads -> Items \union {NULL}]
  BY DEF AllocInvariant, RingInvariant, TypeOK, BlocksOnly
<1>3. ASSUME NEW b \in Items PROVE PlacedOnce(b)'
  <2>1. Queued(b)' = Queued(b) /\ Unread(b)' = Unread(b)
    BY <1>1, <1>2 DEF Queued, Unread
  <2>2. CASE b = x
    <3>1. t \in Owned(b)
      BY <1>1, <2>2 DEF Owned
    <3>2. Queued(b) = {} /\ Unread(b) = {} /\ Owned(b) = {t} /\ Going(b) = {}
      BY <3>1 DEF AllocInvariant, PlacedOnce, IsSingleton
    <3>3. Owned(b)' = {}
      BY <1>1, <1>2, <2>2, <3>2 DEF Owned
    <3>4. Going(b)' = {t}
      BY <1>1, <1>2, <2>2, <3>2 DEF Going
    <3> QED BY <2>1, <3>2, <3>3, <3>4 DEF PlacedOnce, IsSingleton
  <2>3. CASE b # x
    <3>1. Owned(b)' = Owned(b) /\ Going(b)' = Going(b)
      BY <1>1, <1>2, <2>3 DEF Owned, Going
    <3> QED BY <2>1, <3>1, StaysPlaced DEF AllocInvariant
  <2> QED BY <2>2, <2>3
<1> QED BY <1>1, <1>2, <1>3

\* A packet goes from one thread to another.
LEMMA PlacesHandoff ==
  ASSUME AllocInvariant, NEW t \in Threads, NEW u \in Threads, NEW x \in Items,
         Handoff(t, u, x)
  PROVE  (\A b \in Items : PlacedOnce(b)') /\ held' \in [Threads -> SUBSET Items]
<1>1. /\ t # u /\ x \in held[t] /\ UNCHANGED vars
      /\ held' = [held EXCEPT ![t] = @ \ {x}, ![u] = @ \union {x}]
  BY DEF Handoff
<1>2. held \in [Threads -> SUBSET Items]
  BY DEF AllocInvariant, BlocksOnly
<1>3. ASSUME NEW b \in Items PROVE PlacedOnce(b)'
  <2>1. Queued(b)' = Queued(b) /\ Unread(b)' = Unread(b) /\ Going(b)' = Going(b)
    BY <1>1 DEF Queued, Unread, Going, vars
  <2>2. CASE b = x
    <3>1. t \in Owned(b)
      BY <1>1, <2>2 DEF Owned
    <3>2. Queued(b) = {} /\ Unread(b) = {} /\ Owned(b) = {t} /\ Going(b) = {}
      BY <3>1 DEF AllocInvariant, PlacedOnce, IsSingleton
    <3>3. Owned(b)' = {u}
      BY <1>1, <1>2, <2>2, <3>2 DEF Owned
    <3> QED BY <2>1, <3>2, <3>3 DEF PlacedOnce, IsSingleton
  <2>3. CASE b # x
    <3>1. Owned(b)' = Owned(b)
      BY <1>1, <1>2, <2>3 DEF Owned
    <3> QED BY <2>1, <3>1, StaysPlaced DEF AllocInvariant
  <2> QED BY <2>2, <2>3
<1> QED BY <1>1, <1>2, <1>3

-----------------------------------------------------------------------------
\* Every step of push_ringbuf, pop_ringbuf and their callers keeps each block
\* in one place.
LEMMA NextPlaces ==
  AllocInvariant /\ AllocNext =>
     (\A b \in Items : PlacedOnce(b)') /\ BlocksOnly'
<1> SUFFICES ASSUME AllocInvariant, NEW t \in Threads,
                    \/ Alloc(t) \/ ReadBlock(t) \/ RingStep(t)
                    \/ \E b \in Items : Free(t, b)
                    \/ \E u \in Threads, b \in Items : Handoff(t, u, b)
             PROVE  (\A b \in Items : PlacedOnce(b)') /\ BlocksOnly'
  BY DEF AllocNext
<1>t. /\ pc \in [Threads -> Labels] /\ pos \in [Threads -> Nat]
      /\ arg \in [Threads -> Items \union {NULL}] /\ BlocksOnly
  BY DEF AllocInvariant, RingInvariant, TypeOK
<1>1. CASE Alloc(t)
  <2>1. UNCHANGED <<head, tail, pushed, popped, held>>
    BY <1>1 DEF Alloc, PopStart, shared, history
  <2>2. \A b \in Items : PlacedOnce(b)'
    BY <1>t, <1>1, <2>1, QuietPlaces DEF Alloc, PopStart, Goto
  <2> QED BY <1>t, <2>1, <2>2 DEF BlocksOnly
<1>2. CASE ReadBlock(t)
  <2>1. UNCHANGED <<pushed, popped>>
    BY <1>2 DEF ReadBlock, ReadPacket, history
  <2> QED BY <1>t, <1>2, <2>1, PlacesRead DEF BlocksOnly
<1>3. CASE \E b \in Items : Free(t, b)
  <2>1. PICK x \in Items : Free(t, x)
    BY <1>3
  <2>2. UNCHANGED <<pushed, popped>>
    BY <2>1 DEF Free, PushStart, history
  <2> QED BY <1>t, <2>1, <2>2, PlacesFree DEF BlocksOnly
<1>4. CASE \E u \in Threads, b \in Items : Handoff(t, u, b)
  <2>1. PICK u \in Threads, x \in Items : Handoff(t, u, x)
    BY <1>4
  <2>2. UNCHANGED <<pushed, popped>>
    BY <2>1 DEF Handoff, vars
  <2> QED BY <1>t, <2>1, <2>2, PlacesHandoff DEF BlocksOnly
<1>5. CASE RingStep(t)
  <2>h. UNCHANGED held
    BY <1>5 DEF RingStep
  <2>1. CASE PushCas(t) /\ head = pos[t]
    <3>1. \A b \in Items : PlacedOnce(b)'
      BY <2>1, <2>h, PlacesPush
    <3>2. /\ pushed \in Seq(Entries) /\ Entry(arg[t], arg[t]) \in Entries
          /\ arg[t] \in Items
      BY <2>1, EntryType
         DEF AllocInvariant, RingInvariant, TypeOK, CasOK, PushCas, Goto, PushLabels
    <3>3. pushed' = Append(pushed, Entry(arg[t], arg[t])) /\ popped' = popped
      BY <2>1 DEF PushCas
    <3>4. \A i \in 1 .. Len(pushed') : pushed'[i].packet \in Items
      <4> TAKE i \in 1 .. Len(pushed')
      <4>1. i \in 1 .. Len(pushed) \/ i = Len(pushed) + 1
        BY <3>2, <3>3, AppendFacts
      <4>2. CASE i = Len(pushed) + 1
        BY <3>2, <3>3, <4>2, AppendFacts DEF Entry
      <4>3. CASE i \in 1 .. Len(pushed)
        BY <1>t, <3>2, <3>3, <4>3, AppendFacts DEF BlocksOnly
      <4> QED BY <4>1, <4>2, <4>3
    <3> QED BY <1>t, <2>h, <3>1, <3>3, <3>4 DEF BlocksOnly
  <2>2. CASE PopCas(t) /\ tail = pos[t]
    <3>1. pushed' = pushed
      BY <2>2 DEF PopCas
    <3> QED BY <1>t, <2>2, <2>h, <3>1, PlacesPop DEF BlocksOnly
  <2>3. CASE ~(PushCas(t) /\ head = pos[t]) /\ ~(PopCas(t) /\ tail = pos[t])
    <3>1. UNCHANGED <<head, tail, pushed, popped, held>>
      BY <1>5, <2>3 DEF RingStep, PushStep, PushLoadSeq, PushCas, PushReload, PushPacket,
         PushPlen, PushPublish, PopLoadSeq, PopCas, PopReload, PopRelease, ReadPlen,
         shared, history
    <3>2. \A u \in Threads \ {t} : pc'[u] = pc[u] /\ pos'[u] = pos[u] /\ arg'[u] = arg[u]
      BY <1>t, <1>5, <2>3 DEF RingStep, PushStep, PushLoadSeq, PushCas, PushReload, PushPacket,
         PushPlen, PushPublish, PopLoadSeq, PopCas, PopReload, PopRelease, ReadPlen, Goto
    <3>3. PushVerdict(seq[Cell(pos[t])], pos[t]) \in {"push_cas", "push_reload", "idle"}
          /\ PopVerdict(seq[Cell(pos[t])], pos[t]) \in {"pop_cas", "pop_reload", "idle"}
      BY DEF PushVerdict, PopVerdict
    <3>4. PushLoadSeq(t) => pc'[t] \in {"push_cas", "push_reload"}
      BY <1>t, <3>3, FreeNeverFull DEF PushLoadSeq, Goto
    <3>5. \/ /\ pc[t] \in {"push_seq", "push_cas", "push_reload"}
             /\ pc'[t] \in {"push_seq", "push_cas", "push_reload"}
             /\ arg'[t] = arg[t]
          \/ /\ pc[t] \in {"pop_release", "read_packet"}
             /\ pc'[t] \in {"pop_release", "read_packet"}
             /\ pos'[t] = pos[t]
          \/ pc[t] \notin {"push_seq", "push_cas", "push_reload", "pop_release", "read_packet"}
             /\ pc'[t] \notin {"push_seq", "push_cas", "push_reload", "pop_release", "read_packet"}
      BY <1>t, <1>5, <2>3, <3>3, <3>4 DEF RingStep, PushStep, PushLoadSeq, PushCas,
         PushReload, PushPacket, PushPlen, PushPublish, PopLoadSeq, PopCas, PopReload,
         PopRelease, ReadPlen, Goto
    <3>6. \A b \in Items : PlacedOnce(b)'
      BY <3>1, <3>2, <3>5, QuietPlaces
    <3> QED BY <1>t, <3>1, <3>6 DEF BlocksOnly
  <2> QED BY <2>1, <2>2, <2>3
<1> QED BY <1>1, <1>2, <1>3, <1>4, <1>5

\* No thread but the allocating one gets into pop_ringbuf, and tail stays
\* where its CAS put it until it has read the block.
LEMMA NextOnePopper == AllocInvariant /\ AllocNext => OnePopper'
<1> SUFFICES ASSUME AllocInvariant, NEW t \in Threads,
                    \/ Alloc(t) \/ ReadBlock(t) \/ RingStep(t)
                    \/ \E b \in Items : Free(t, b)
                    \/ \E u \in Threads, b \in Items : Handoff(t, u, b)
             PROVE  OnePopper'
  BY DEF AllocNext
<1>t. /\ pc \in [Threads -> Labels] /\ pos \in [Threads -> Nat]
      /\ OnePopper /\ Popper \in Threads
  BY PopperAssumption DEF AllocInvariant, RingInvariant, TypeOK
<1>1. CASE Alloc(t)
  BY <1>t, <1>1 DEF OnePopper, Alloc, PopStart, Goto, shared
<1>2. CASE ReadBlock(t)
  BY <1>t, <1>2 DEF OnePopper, ReadBlock, ReadPacket, Goto, PopLabels, shared
<1>3. CASE \E b \in Items : Free(t, b)
  BY <1>t, <1>3 DEF OnePopper, Free, PushStart, Goto, PopLabels, shared
<1>4. CASE \E u \in Threads, b \in Items : Handoff(t, u, b)
  BY <1>t, <1>4 DEF OnePopper, Handoff, vars
<1>5. CASE RingStep(t)
  <2>1. CASE PushStep(t)
    <3>1. /\ pc[t] \in PushLabels /\ pc'[t] \in PushLabels \union {"idle"} /\ tail' = tail
          /\ \A u \in Threads \ {t} : pc'[u] = pc[u] /\ pos'[u] = pos[u]
      BY <1>t, <2>1 DEF PushStep, PushLoadSeq, PushVerdict, PushCas, PushReload, PushPacket,
         PushPlen, PushPublish, Goto, PushLabels, shared
    <3> QED BY <1>t, <3>1 DEF OnePopper, PushLabels, PopLabels
  <2>2. CASE PopLoadSeq(t) \/ PopCas(t) \/ PopReload(t) \/ PopRelease(t) \/ ReadPlen(t)
    <3>1. t = Popper
      BY <1>t, <2>2 DEF OnePopper, PopLoadSeq, PopCas, PopReload, PopRelease, ReadPlen,
         Goto, PopLabels
    <3>2. \A u \in Threads \ {t} : pc'[u] = pc[u]
      BY <1>t, <2>2 DEF PopLoadSeq, PopCas, PopReload, PopRelease, ReadPlen, Goto
    <3>3. pc'[t] \in {"pop_release", "read_packet"} => tail' = pos'[t] + 1
      BY <1>t, <2>2, <3>1 DEF OnePopper, PopLoadSeq, PopVerdict, PopCas, PopReload,
         PopRelease, ReadPlen, Goto, shared
    <3> QED BY <1>t, <3>1, <3>2, <3>3 DEF OnePopper
  <2> QED BY <1>5, <2>1, <2>2 DEF RingStep
<1> QED BY <1>1, <1>2, <1>3, <1>4, <1>5

\* AllocInvariant holds in every state.
THEOREM AllocInvariantHolds ==
  ASSUME BlocksFillRing PROVE AllocSpec => []AllocInvariant
<1>1. AllocInvariant /\ [AllocNext]_allocVars => AllocInvariant'
  <2> SUFFICES ASSUME AllocInvariant, [AllocNext]_allocVars PROVE AllocInvariant'
    OBVIOUS
  <2>1. RingInvariant' /\ CallsPending'
    BY AllocStepsRing, NextInvariant, NextPending DEF AllocInvariant
  <2>2. CASE AllocNext
    BY <2>1, <2>2, NextPlaces, NextOnePopper DEF AllocInvariant
  <2>3. CASE UNCHANGED allocVars
    <3>1. BlocksOnly' /\ OnePopper'
      BY <2>3 DEF AllocInvariant, BlocksOnly, OnePopper, allocVars, vars
    <3>2. \A b \in Items : PlacedOnce(b)'
      <4> TAKE b \in Items
      <4>1. Queued(b)' = Queued(b) /\ Unread(b)' = Unread(b)
            /\ Owned(b)' = Owned(b) /\ Going(b)' = Going(b)
        BY <2>3 DEF Queued, Unread, Owned, Going, allocVars, vars
      <4> QED BY <4>1, StaysPlaced DEF AllocInvariant
    <3> QED BY <2>1, <3>1, <3>2 DEF AllocInvariant
  <2> QED BY <2>2, <2>3
<1> QED BY <1>1, AllocInitInvariant, PTL DEF AllocSpec

\* A block of create_allocator is in one place at any time, for any number of
\* blocks and threads, as long as one thread allocates: it is never lost by a
\* push whose result nobody looks at, and never handed out twice.
THEOREM BlocksInOnePlace == ASSUME BlocksFillRing PROVE AllocSpec => []OnePlace
<1>1. AllocInvariant => OnePlace
  <2> SUFFICES ASSUME AllocInvariant, NEW b \in Items PROVE Cardinality(Places(b)) = 1
    BY DEF OnePlace
  <2>1. \E x : Places(b) = {x}
    <3>1. PlacedOnce(b)
      BY DEF AllocInvariant
    <3>2. CASE IsSingleton(Queued(b)) /\ Unread(b) = {} /\ Owned(b) = {} /\ Going(b) = {}
      <4>1. PICK p : Queued(b) = {p}
        BY <3>2 DEF IsSingleton
      <4>2. Places(b) = {<<"queued", p>>}
        BY <3>2, <4>1 DEF Places
      <4> QED BY <4>2
    <3>3. CASE Queued(b) = {} /\ IsSingleton(Unread(b)) /\ Owned(b) = {} /\ Going(b) = {}
      <4>1. PICK p : Unread(b) = {p}
        BY <3>3 DEF IsSingleton
      <4>2. Places(b) = {<<"unread", p>>}
        BY <3>3, <4>1 DEF Places
      <4> QED BY <4>2
    <3>4. CASE Queued(b) = {} /\ Unread(b) = {} /\ IsSingleton(Owned(b)) /\ Going(b) = {}
      <4>1. PICK p : Owned(b) = {p}
        BY <3>4 DEF IsSingleton
      <4>2. Places(b) = {<<"owned", p>>}
        BY <3>4, <4>1 DEF Places
      <4> QED BY <4>2
    <3>5. CASE Queued(b) = {} /\ Unread(b) = {} /\ Owned(b) = {} /\ IsSingleton(Going(b))
      <4>1. PICK p : Going(b) = {p}
        BY <3>5 DEF IsSingleton
      <4>2. Places(b) = {<<"going", p>>}
        BY <3>5, <4>1 DEF Places
      <4> QED BY <4>2
    <3> QED BY <3>1, <3>2, <3>3, <3>4, <3>5 DEF PlacedOnce
  <2> QED BY <2>1, FS_Singleton
<1> QED BY <1>1, AllocInvariantHolds, PTL
=============================================================================
