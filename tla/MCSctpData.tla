----------------------------- MODULE MCSctpData -----------------------------
(***************************************************************************)
(* SctpData with a small packet and small counters: Mtu is 2 modulo 4, as  *)
(* 1454 is, TSNs have bytes of two bits.                                   *)
(***************************************************************************)
EXTENDS SctpData
=============================================================================
