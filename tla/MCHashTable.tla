------------------------------ MODULE MCHashTable ------------------------------
(***************************************************************************)
(* HashTable for TLC: a table of two buckets that grows to three, the one  *)
(* prime of the list.                                                      *)
(***************************************************************************)
EXTENDS HashTable, TLC

OnePrime == <<3>>
FourPrimes == <<2, 3, 5, 7>>

Symmetry == Permutations(Node)
================================================================================
