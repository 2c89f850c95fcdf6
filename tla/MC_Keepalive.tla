--------------------------- MODULE MC_Keepalive ---------------------------
(* Instances of Keepalive for TLC. *)
EXTENDS Keepalive, TLC

CONSTANTS m, q
=============================================================================
