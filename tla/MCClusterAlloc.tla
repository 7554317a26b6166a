---------------------------- MODULE MCClusterAlloc ----------------------------
(* Instances of ClusterAlloc for TLC. *)
EXTENDS ClusterAlloc, TLC

CONSTANTS t1, t2

ThreadSymmetry == Permutations({t1, t2})
=============================================================================
