------------------------------ MODULE MCXdpTx ------------------------------
(***************************************************************************)
(* XdpTx with rings of two slots whose counters wrap at four.              *)
(***************************************************************************)
EXTENDS XdpTx
=============================================================================
