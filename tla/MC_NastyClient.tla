-------------------------- MODULE MC_NastyClient --------------------------
(***************************************************************************)
(* Instances of NastyClient for TLC: m, n are mutations, q a read-only     *)
(* call.                                                                   *)
(***************************************************************************)
EXTENDS ClientContract, TLC

CONSTANTS m, n, q
=============================================================================
