--------------------------- MODULE MCForwardListLoops ---------------------------
(***************************************************************************)
(* ForwardListLoops for TLC: two lists of a few nodes, two values.         *)
(***************************************************************************)
EXTENDS ForwardListLoops, TLC

Symmetry == Permutations(Node) \cup Permutations(List) \cup Permutations(Header)

\* While the caller holds a node, no loop runs and all values are the same.
HeldApart ==
    (\E n \in Node : where[n] = User) =>
        run = Idle /\ Cardinality({val[n] : n \in Node} \ {Dead}) <= 1
================================================================================
