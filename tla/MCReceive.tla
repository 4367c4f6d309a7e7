----------------------------- MODULE MCReceive -----------------------------
(***************************************************************************)
(* Receive with addresses and header words at which the sums wrap.         *)
(***************************************************************************)
EXTENDS Receive, TLC

\* 192.168.1.2 and 10.0.245.143 as a little-endian machine reads them: taking
\* the second and the length of an INIT ACK off a checksum leaves it as it is.
MCDests == {<<513, 43200>>, <<36853, 10>>}
MCAnyDest == <<65535, 65535>>
MCIds == {1, 30000, 65535}
=============================================================================
