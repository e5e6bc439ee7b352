---------------------------- MODULE MCStateStore ----------------------------
(* StateStore for TLC: the symmetry of its model values. *)
EXTENDS StateStore, TLC

Symmetry == Permutations(Handlers) \cup Permutations(VMs)
=============================================================================
