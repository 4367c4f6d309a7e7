---------------------------- MODULE MCAllocator ----------------------------
(***************************************************************************)
(* Allocator on small instances: one thread allocates, the others free.    *)
(***************************************************************************)
EXTENDS Allocator, TLC

\* The hypothesis of the theorems about the allocator.
ASSUME BlocksNumbered == BlocksFillRing
=============================================================================
