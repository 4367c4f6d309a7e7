----------------------------- MODULE MCStartup -----------------------------
(***************************************************************************)
(* Startup with the program's interface names, and names of other lengths. *)
(***************************************************************************)
EXTENDS Startup
=============================================================================
