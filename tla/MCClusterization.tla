-------------------------- MODULE MCClusterization --------------------------
(* Clusterization for TLC: the symmetry of its machines, which only the runs *)
(* without a liveness property use.                                          *)
EXTENDS Clusterization, TLC

Symmetry == Permutations(VMs)
=============================================================================
