----------------------------- MODULE MCRingbuf -----------------------------
(***************************************************************************)
(* Ringbuf on small instances.                                             *)
(***************************************************************************)
EXTENDS Ringbuf, TLC

Symmetry == Permutations(Threads) \union Permutations(Items)
=============================================================================
