--------------------------------- MODULE MCList ---------------------------------
(***************************************************************************)
(* ListRefines for TLC: two lists of a few nodes, two values.              *)
(***************************************************************************)
EXTENDS ListRefines, TLC

Symmetry == Permutations(Node)
=================================================================================
