---------------------------- MODULE BoundedFifo ----------------------------
(***************************************************************************)
(* What a ring buffer of ring_buffer.h promises its callers: a first-in    *)
(* first-out queue that holds at most Capacity items.  The two histories   *)
(* are everything ever put and everything ever taken; what is queued is    *)
(* the part of `in' that `out' does not have yet.                          *)
(***************************************************************************)
EXTENDS Naturals, Sequences

CONSTANTS Elements,  \* what can be queued
          Capacity   \* how many elements fit

VARIABLES in, out

Init == in = << >> /\ out = << >>

Put(v) == /\ Len(in) - Len(out) < Capacity
          /\ in' = Append(in, v)
          /\ UNCHANGED out

Get == /\ Len(out) < Len(in)
       /\ out' = Append(out, in[Len(out) + 1])
       /\ UNCHANGED in

Next == Get \/ \E v \in Elements : Put(v)

Spec == Init /\ [][Next]_<<in, out>>
=============================================================================
