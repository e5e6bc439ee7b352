---------------------------- MODULE MCScaleDown -----------------------------
(* ScaleDown for TLC: the symmetry of its model values. *)
EXTENDS ScaleDown, TLC

Symmetry == Permutations(VMs) \cup Permutations(Runs)
=============================================================================
