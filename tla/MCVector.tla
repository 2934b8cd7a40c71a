------------------------------- MODULE MCVector -------------------------------
(***************************************************************************)
(* Vector for TLC: values that nothing compares, buffers of a few cells.   *)
(***************************************************************************)
EXTENDS Vector, TLC

Symmetry == Permutations(Val)
===============================================================================
