---------------------------- MODULE MCRingTimer ----------------------------
(***************************************************************************)
(* RingTimer on a small wheel, with delays of up to more than two turns.    *)
(***************************************************************************)
EXTENDS RingTimer

MCTimes == 1 .. 2 * Max + 1
=============================================================================
