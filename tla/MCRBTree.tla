------------------------------ MODULE MCRBTree ------------------------------
(***************************************************************************)
(* Constants for model checking RBTree: nodes are numbers.                 *)
(***************************************************************************)
EXTENDS RBTree

CONSTANTS MaxKey  \* how many keys the nodes hold

\* Keys 1 .. MaxKey in turn: every key once when there are that many nodes.
MCKeyOf == [n \in Node |-> 1 + (n % MaxKey)]
==============================================================================
