----------------------------- MODULE MC_Queries -----------------------------
(* Queries with interchangeable filesystems, volume names and clusters. *)
EXTENDS Queries, TLC

CONSTANTS f1, f2, v1, v2, c1, c2

Symmetry ==
    Permutations(Filesystems) \cup Permutations(Ids)
        \cup Permutations(Clusters)
=============================================================================
