----------------------------- MODULE MCT1Client -----------------------------
(***************************************************************************)
(* T1Client with a wheel of five times the longest timeout, as in the      *)
(* program, and enough retransmissions to go round it; one configuration   *)
(* is a third of the program's size, with stalls of the thread, the other  *)
(* has the constants of sctp.h and create_client.                          *)
(***************************************************************************)
EXTENDS T1Client
=============================================================================
