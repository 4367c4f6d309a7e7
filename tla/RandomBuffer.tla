---------------------------- MODULE RandomBuffer ----------------------------
(***************************************************************************)
(* The buffer of random bytes that tags, TSNs and IP identifiers are drawn *)
(* from: get_random_from_buffer_u16, _u32 and _u64, generate_random_buffer *)
(* and get_random; and the functions that ask getrandom directly.          *)
(*                                                                         *)
(* The buffer is global and has no lock; random_buffer_head is _Atomic, so *)
(* each of its accesses is a step.  A unit is two bytes.  A random unit is *)
(* the call of getrandom it comes from and its place in that; the zeros    *)
(* the buffer starts with come from call 0.                                *)
(***************************************************************************)
EXTENDS Integers, Sequences, FiniteSets

CONSTANTS Threads,
          Size,      \* RANDOM_BUFFER_SIZE, in units
          Widths,    \* sizes that are drawn: 1 (u16), 2 (u32), 4 (u64)
          MaxDraws,  \* bound: values drawn
          MaxFaults, \* bound: calls of getrandom that fail or are short
          NULL

ASSUME SizeAssumption == Size \in Nat \ {0}
ASSUME WidthsAssumption == Widths \subseteq 1 .. Size
ASSUME NullAssumption == NULL \notin Nat \X Nat

VARIABLES head,      \* random_buffer_head
          buffer,    \* random_buffer
          calls,     \* calls of getrandom so far
          pc,        \* what each thread does next
          width,     \* the size it draws
          ptr,       \* buf: the place it will read
          drawn,     \* history: the values drawn
          faults,    \* history: calls of getrandom that failed
          filled,    \* history: some call has filled the whole buffer
          raced,     \* history: two calls were between their test and their
                     \* advance of head
          crossed    \* history: a call refilled the buffer during another

vars == <<head, buffer, calls, pc, width, ptr, drawn, faults, filled, raced, crossed>>

Places == 0 .. Size - 1

Init == /\ head = 0
        /\ buffer = [i \in Places |-> <<0, i>>]
        /\ calls = 0
        /\ pc = [t \in Threads |-> "idle"]
        /\ width = [t \in Threads |-> 1]
        /\ ptr = [t \in Threads |-> 0]
        /\ drawn = << >>
        /\ faults = 0 /\ filled = FALSE /\ raced = FALSE /\ crossed = FALSE

Goto(t, l) == pc' = [pc EXCEPT ![t] = l]

Two(p, q) == \E t, u \in Threads : t # u /\ pc[t] \in p /\ pc[u] \in q

\* Keeps the two histories, in the steps that begin a race or a crossing.
Observe == /\ raced' = (raced \/ Two({"load", "advance"}, {"load", "advance"})')
           /\ crossed' = (crossed \/ Two({"reset", "fill"},
                                         {"test", "load", "advance", "read", "reset", "fill"})')

-----------------------------------------------------------------------------
Call(t) == /\ pc[t] = "idle"
           /\ Len(drawn) + Cardinality({u \in Threads : pc[u] # "idle"}) < MaxDraws
           /\ \E n \in Widths : width' = [width EXCEPT ![t] = n]
           /\ Goto(t, "test")
           /\ Observe
           /\ UNCHANGED <<head, buffer, calls, ptr, drawn, faults, filled>>

\* fault: one unit too few is enough
EnoughOffByOne(n) == head <= Size => Size - head >= n - 1

\* sizeof (random_buffer) - random_buffer_head >= n, without a sign: past the
\* end of the buffer it is true.
Enough(n) == head <= Size => Size - head >= n

Test(t) == /\ pc[t] = "test"
           /\ Goto(t, IF Enough(width[t]) THEN "load" ELSE "reset")
           /\ Observe
           /\ UNCHANGED <<head, buffer, calls, width, ptr, drawn, faults, filled>>

\* buf = random_buffer + random_buffer_head
LoadHead(t) == /\ pc[t] = "load"
               /\ ptr' = [ptr EXCEPT ![t] = head]
               /\ Goto(t, "advance")
               /\ UNCHANGED <<head, buffer, calls, width, drawn, faults, filled, raced, crossed>>

\* fault: head advances by the size of another type
AdvanceHeadByOne(t) ==
  /\ pc[t] = "advance"
  /\ head' = head + 1
  /\ Goto(t, "read")
  /\ UNCHANGED <<buffer, calls, width, ptr, drawn, faults, filled, raced, crossed>>

\* random_buffer_head += n
AdvanceHead(t) == /\ pc[t] = "advance"
                  /\ head' = head + width[t]
                  /\ Goto(t, "read")
                  /\ UNCHANGED <<buffer, calls, width, ptr, drawn, faults, filled, raced, crossed>>

\* return *buf: past the end, whatever stands there
Value(t) == [i \in 0 .. width[t] - 1 |->
               IF ptr[t] + i \in Places THEN buffer[ptr[t] + i] ELSE NULL]

Read(t) == /\ pc[t] = "read"
           /\ drawn' = Append(drawn, [of |-> "buffer", value |-> Value(t), filled |-> filled])
           /\ Goto(t, "idle")
           /\ width' = [width EXCEPT ![t] = 1] /\ ptr' = [ptr EXCEPT ![t] = 0]
           /\ UNCHANGED <<head, buffer, calls, faults, filled, raced, crossed>>

\* generate_random_buffer: random_buffer_head = 0, then get_random.
ResetHead(t) == /\ pc[t] = "reset"
                /\ head' = 0
                /\ Goto(t, "fill")
                /\ UNCHANGED <<buffer, calls, width, ptr, drawn, faults, filled, raced, crossed>>

\* fault: the buffer is cleared before it is filled
GetRandomCleared(t) ==
  /\ pc[t] = "fill"
  /\ calls' = calls + 1
  /\ \E k \in 0 .. Size :
        /\ k < Size => faults < MaxFaults
        /\ buffer' = [i \in Places |-> IF i < k THEN <<calls', i>> ELSE <<0, i>>]
        /\ faults' = IF k < Size THEN faults + 1 ELSE faults
        /\ filled' = (filled \/ k = Size)
  /\ Goto(t, "test")
  /\ UNCHANGED <<head, width, ptr, drawn, raced, crossed>>

\* get_random: getrandom may fail (k = 0) or give less than was asked for;
\* both are only reported.  Then the function calls itself.
GetRandom(t) ==
  /\ pc[t] = "fill"
  /\ calls' = calls + 1
  /\ \E k \in 0 .. Size :
        /\ k < Size => faults < MaxFaults
        /\ buffer' = [i \in Places |-> IF i < k THEN <<calls', i>> ELSE buffer[i]]
        /\ faults' = IF k < Size THEN faults + 1 ELSE faults
        /\ filled' = (filled \/ k = Size)
  /\ Goto(t, "test")
  /\ UNCHANGED <<head, width, ptr, drawn, raced, crossed>>

-----------------------------------------------------------------------------
\* get_random_u16, _u32, _u64: a value of their own, or 0 when getrandom
\* fails or is short.
Direct(t) ==
  /\ pc[t] = "idle"
  /\ Len(drawn) + Cardinality({u \in Threads : pc[u] # "idle"}) < MaxDraws
  /\ calls' = calls + 1
  /\ \E n \in Widths, ok \in BOOLEAN :
        /\ ~ok => faults < MaxFaults
        /\ faults' = IF ok THEN faults ELSE faults + 1
        /\ drawn' = Append(drawn, [of |-> "direct", filled |-> filled,
                                   value |-> [i \in 0 .. n - 1 |->
                                                <<IF ok THEN calls' ELSE 0, i>>]])
  /\ UNCHANGED <<head, buffer, pc, width, ptr, filled, raced, crossed>>

Step(t) == \/ Call(t) \/ Test(t) \/ LoadHead(t) \/ AdvanceHead(t) \/ Read(t)
           \/ ResetHead(t) \/ GetRandom(t) \/ Direct(t)

Next == \E t \in Threads : Step(t)

Spec == Init /\ [][Next]_vars

-----------------------------------------------------------------------------
(***************************************************************************)
(* Properties                                                              *)
(***************************************************************************)
Units(i) == {drawn[i].value[j] : j \in DOMAIN drawn[i].value}

\* No draw reads past the end of the buffer, whatever the widths and the
\* refills, also of other threads, unless two threads passed their test
\* before one of them had advanced head.
ReadsInBuffer == ~raced => \A i \in DOMAIN drawn : NULL \notin Units(i)

\* No random unit is handed out twice, whichever functions it is drawn by, as
\* long as getrandom works, no two draws race and no refill crosses another
\* draw.
HandedOutOnce ==
  ~raced /\ ~crossed /\ faults = 0 =>
     \A i, j \in DOMAIN drawn : i < j => Units(i) \intersect Units(j) = {}

\* Tags made of the zeros the buffer starts with (the first draws of a
\* process all are) come only from draws begun before the first complete
\* refill, and from functions whose own call of getrandom failed.
ZerosUntilFilled ==
  \A i \in DOMAIN drawn :
     drawn[i].of = "buffer" /\ drawn[i].filled => \A u \in Units(i) : u # NULL => u[1] # 0

\* What is drawn is fresh: neither handed out before nor still the zeros the
\* buffer starts with, under the conditions of the two parts.
DrawsFresh == HandedOutOnce /\ ZerosUntilFilled
=============================================================================
