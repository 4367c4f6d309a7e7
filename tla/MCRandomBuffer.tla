--------------------------- MODULE MCRandomBuffer ---------------------------
(***************************************************************************)
(* RandomBuffer with two threads and a buffer that four draws use up.      *)
(***************************************************************************)
EXTENDS RandomBuffer
=============================================================================
