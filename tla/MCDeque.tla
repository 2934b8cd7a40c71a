------------------------------- MODULE MCDeque -------------------------------
(* Deque, with interchangeable objects, buffers and values.                *)
EXTENDS Deque, TLC

Interchangeable == Permutations(Deque) \cup Permutations(Buffer) \cup Permutations(Val)
==============================================================================
