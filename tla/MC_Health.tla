------------------------------ MODULE MC_Health ------------------------------
(* The health check with interchangeable volume names. *)
EXTENDS Health, TLC

CONSTANTS v1, v2

Symmetry == Permutations(Ids)
=============================================================================
