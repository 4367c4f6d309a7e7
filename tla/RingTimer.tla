----------------------------- MODULE RingTimer -----------------------------
(***************************************************************************)
(* The timer wheel: create_ringtimer.c, insert_ringtimer.c and             *)
(* tick_ringtimer.c.  Each slot of the wheel points to a circular doubly   *)
(* linked list of nodes; a node that comes up with retries = 0 fires, any  *)
(* other has its retries decremented and waits for the next turn.          *)
(*                                                                         *)
(* Insert and tick run on one thread.  The loop of tick_ringtimer is one   *)
(* action per iteration, on the pointers the code manipulates.  The node   *)
(* allocator is the FIFO queue that Ringbuf is shown to implement.         *)
(***************************************************************************)
EXTENDS Integers, Sequences, FiniteSets

CONSTANTS Max,       \* ring->max, slots of the wheel
          Nodes,     \* the nodes of ring->allocator
          NULL,      \* the null pointer
          Signals,   \* what is inserted
          Times      \* the delays that are inserted, in ticks

ASSUME MaxAssumption == Max \in Nat \ {0}
ASSUME NodesAssumption == IsFiniteSet(Nodes) /\ NULL \notin Nodes
\* tick_ringtimer skips entries whose signal is 0; nobody inserts one.
ASSUME SignalsAssumption == Signals \subseteq Nat \ {0}
\* insert_ringtimer decrements time first, so 0 would mean 2^64 ticks.
ASSUME TimesAssumption == Times \subseteq Nat \ {0}

VARIABLES timers, current,                \* ring->timers, ring->current
          next, prev, signal, retries,    \* the fields of the nodes
          free,                           \* ring->allocator
          pc, first, t,                   \* tick_ringtimer: control, head, t
          res,                            \* timer_tick_result: the signals
          due, at                         \* history: ticks left, slot, per node

wheel == <<timers, current>>
links == <<next, prev>>
timerVars == <<timers, current, next, prev, signal, retries, free,
               pc, first, t, res, due, at>>

Slots == 0 .. Max - 1
\* The null pointer is no slot either.
ASSUME NullAssumption == NULL \notin Slots

Armed(n) == at[n] # NULL
ArmedAt(s) == {n \in Nodes : at[n] = s}

-----------------------------------------------------------------------------
(***************************************************************************)
(* create_ringtimer, over an allocator that holds every node               *)
(***************************************************************************)
Init == /\ timers = [s \in Slots |-> NULL]
        /\ current = 0
        /\ next = [n \in Nodes |-> NULL]
        /\ prev = [n \in Nodes |-> NULL]
        /\ signal = [n \in Nodes |-> 0]
        /\ retries = [n \in Nodes |-> 0]
        /\ free \in [1 .. Cardinality(Nodes) -> Nodes]
        /\ \A n \in Nodes : \E i \in DOMAIN free : free[i] = n
        /\ pc = "idle" /\ first = NULL /\ t = NULL
        /\ res = << >>
        /\ due = [n \in Nodes |-> 0]
        /\ at = [n \in Nodes |-> NULL]

-----------------------------------------------------------------------------
(***************************************************************************)
(* insert_ringtimer                                                        *)
(***************************************************************************)
\* fault: the turns to wait are rounded up
RetriesRoundedUp(slot) == (slot + Max) \div Max

\* slot / ring->max, as the code computes it
Retries(slot) == slot \div Max

\* Append node n to the list of slot s; its pointers and its neighbours'.
Link(n, s) ==
  IF timers[s] = NULL
  THEN /\ timers' = [timers EXCEPT ![s] = n]
       /\ next' = [next EXCEPT ![n] = n]
       /\ prev' = [prev EXCEPT ![n] = n]
  ELSE LET fst == timers[s]
           lst == prev[fst]
       IN  /\ next' = [next EXCEPT ![lst] = n, ![n] = fst]
           /\ prev' = [prev EXCEPT ![n] = lst, ![fst] = n]
           /\ UNCHANGED timers

Insert(sig, time) ==
  LET slot == current + (time - 1)
      n == Head(free)
  IN  /\ pc = "idle"
      /\ free # << >>
      /\ free' = Tail(free)
      /\ Link(n, slot % Max)
      /\ signal' = [signal EXCEPT ![n] = sig]
      /\ retries' = [retries EXCEPT ![n] = Retries(slot)]
      /\ due' = [due EXCEPT ![n] = time]
      /\ at' = [at EXCEPT ![n] = slot % Max]
      /\ UNCHANGED <<current, pc, first, t, res>>

\* The allocator is empty: insert_ringtimer polls it for ever, on the only
\* thread that could have put a node back.
InsertHangs == /\ pc = "idle"
               /\ free = << >>
               /\ pc' = "hung"
               /\ UNCHANGED <<wheel, links, signal, retries, free, first, t, res, due, at>>

-----------------------------------------------------------------------------
(***************************************************************************)
(* tick_ringtimer                                                          *)
(***************************************************************************)
TickBegin == /\ pc = "idle"
             /\ res' = << >>
             /\ first' = timers[current]
             /\ t' = timers[current]
             /\ pc' = IF timers[current] = NULL THEN "advance" ELSE "scan"
             /\ UNCHANGED <<wheel, links, signal, retries, free, due, at>>

\* The end of an iteration that leaves the slot non-empty:
\* t = next, while (t != head)
Advance == /\ t' = next[t]
           /\ pc' = IF next[t] = first THEN "advance" ELSE "scan"

\* fault: the back pointer is not repaired
UnlinkForward ==
  IF next[t] = t
  THEN timers' = [timers EXCEPT ![current] = NULL] /\ UNCHANGED links
  ELSE /\ next' = [next EXCEPT ![prev[t]] = next[t]]
       /\ UNCHANGED prev
       /\ timers' = IF timers[current] = t
                    THEN [timers EXCEPT ![current] = next[t]] ELSE timers

\* Take t out of its list.
Unlink ==
  IF next[t] = t
  THEN timers' = [timers EXCEPT ![current] = NULL] /\ UNCHANGED links
  ELSE /\ next' = [next EXCEPT ![prev[t]] = next[t]]
       /\ prev' = [prev EXCEPT ![next[t]] = prev[t]]
       /\ timers' = IF timers[current] = t
                    THEN [timers EXCEPT ![current] = next[t]] ELSE timers

\* fault: the fired node is not given back
TickFireLeaks == /\ pc = "scan"
                 /\ retries[t] = 0
                 /\ res' = Append(res, signal[t])
                 /\ Unlink
                 /\ at' = [at EXCEPT ![t] = NULL]
                 /\ IF next[t] = t THEN pc' = "advance" /\ UNCHANGED t ELSE Advance
                 /\ UNCHANGED <<current, signal, retries, free, first, due>>

\* retries == 0: report, unlink, free.  The last node of the slot ends the
\* loop; otherwise it goes on, and no longer meets `first' if that is t.
TickFire == /\ pc = "scan"
            /\ retries[t] = 0
            /\ res' = Append(res, signal[t])
            /\ Unlink
            /\ free' = Append(free, t)
            /\ at' = [at EXCEPT ![t] = NULL]
            /\ IF next[t] = t THEN pc' = "advance" /\ UNCHANGED t ELSE Advance
            /\ UNCHANGED <<current, signal, retries, first, due>>

\* fault: a waiting timer is not counted down
TickKeepForgets == /\ pc = "scan"
                   /\ retries[t] # 0
                   /\ Advance
                   /\ UNCHANGED <<wheel, links, signal, retries, free, first, res, due, at>>

TickKeep == /\ pc = "scan"
            /\ retries[t] # 0
            /\ retries' = [retries EXCEPT ![t] = @ - 1]
            /\ Advance
            /\ UNCHANGED <<wheel, links, signal, free, first, res, due, at>>

\* ring->current = (ring->current + 1) % ring->max, return res
TickEnd == /\ pc = "advance"
           /\ current' = (current + 1) % Max
           /\ pc' = "idle"
           /\ first' = NULL /\ t' = NULL
           /\ due' = [n \in Nodes |-> IF Armed(n) THEN due[n] - 1 ELSE 0]
           /\ UNCHANGED <<timers, links, signal, retries, free, res, at>>

Tick == TickBegin \/ TickFire \/ TickKeep \/ TickEnd

Next == \/ \E sig \in Signals, time \in Times : Insert(sig, time)
        \/ InsertHangs
        \/ Tick

Spec == Init /\ [][Next]_timerVars

\* The caller keeps ticking the wheel while time passes.
FairSpec == Spec /\ WF_timerVars(Tick)

-----------------------------------------------------------------------------
(***************************************************************************)
(* Properties                                                              *)
(***************************************************************************)
\* The i-th node of slot s, following next from timers[s].
Walk(s) == LET w[i \in 0 .. Cardinality(Nodes)] ==
                 IF i = 0 THEN timers[s] ELSE next[w[i - 1]]
           IN  w

\* Every list is one ring that contains exactly the timers armed in its slot,
\* linked the same way in both directions; no node is lost from a list or in
\* two of them, whatever is inserted and in whatever order nodes leave.
ListsWellFormed ==
  \A s \in Slots :
     LET k == Cardinality(ArmedAt(s)) IN
       /\ (timers[s] = NULL) <=> (k = 0)
       /\ k > 0 => /\ {Walk(s)[i] : i \in 0 .. k - 1} = ArmedAt(s)
                   /\ Walk(s)[k] = timers[s]
                   /\ \A n \in ArmedAt(s) : prev[next[n]] = n

\* Each node is in the allocator or armed, once.
NodesConserved == /\ {free[i] : i \in DOMAIN free} = {n \in Nodes : ~Armed(n)}
                  /\ Len(free) = Cardinality({n \in Nodes : ~Armed(n)})

\* Every signal a tick has put into res.signals is that of another timer, whose
\* node is back in the allocator, although the loop can go round the list more
\* than once: res.signals overflows only if more than MAX_TICK_TIME timers are
\* armed.
SignalsBounded == pc \in {"scan", "advance"} => Len(res) <= Len(free)

\* The wheel stays consistent through every list operation of insert_ringtimer
\* and tick_ringtimer, also in the middle of a tick: rings of the armed timers,
\* no node lost or in two places, no timer reported twice.
WheelConsistent == ListsWellFormed /\ NodesConserved /\ SignalsBounded

\* A timer fires when it is due or exactly one turn later: the retries of a
\* slot past the end of the wheel are counted from slot 0 instead of from
\* `current', which adds a turn.  It fires before it is due
\* only if the timer at the head of its slot fired earlier in the same tick:
\* the loop then never meets `first' again and drains the slot.
FireTiming ==
  [][\A n \in Nodes : Armed(n) /\ ~Armed(n)'
        => \/ due[n] \in {1, 1 - Max}
           \/ due[n] > 1 - Max /\ at[first] = NULL]_timerVars

\* Every armed timer fires, unless an insert found the allocator empty.
TimersFire == \A n \in Nodes : (Armed(n) ~> (~Armed(n) \/ pc = "hung"))
=============================================================================
