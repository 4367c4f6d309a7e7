----------------------------- MODULE MCXdpUmem -----------------------------
(***************************************************************************)
(* XdpUmem with rings of two slots whose counters wrap at four.            *)
(***************************************************************************)
EXTENDS XdpUmem, TLC

Symmetry == Permutations(Chunks)
=============================================================================
