-------------------------- MODULE MCSctpHandshake --------------------------
(***************************************************************************)
(* SctpHandshake with two clients that compete for the server.             *)
(***************************************************************************)
EXTENDS SctpHandshake, TLC
=============================================================================
