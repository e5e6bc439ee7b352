----------------------------- MODULE MCScaleSet -----------------------------
(* ScaleSet for TLC: the symmetry of its model values. *)
EXTENDS ScaleSet, TLC

Symmetry == Permutations(Runs) \cup Permutations(Resizes)
=============================================================================
