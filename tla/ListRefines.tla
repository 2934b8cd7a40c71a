------------------------------ MODULE ListRefines ------------------------------
(***************************************************************************)
(* List implements ListSeq: a call that loops is, to its caller, one step. *)
(***************************************************************************)
EXTENDS List

Abs == INSTANCE ListSeq WITH
          MovedFrom <- Nil,
          seq <- IF at = "idle" THEN Lists ELSE call.was

\* Read along the links, every list is the sequence it should be: sort and merge
\* are stable, unique keeps the first of equal elements, a copy is one, a
\* moved-from list is one until it is assigned to.
ImplementsListSeq == Abs!Spec

\* The members that do not loop have the effect their name promises, at the
\* position their iterator designates; splicing to where an element already is
\* changes nothing.
CallsExact ==
    [][\A l \in List : at = "idle" /\ at' = "idle" =>
        /\ \A pos \in Positions(l), n \in Free, v \in Value :
                Insert(l, pos, n, v) => Abs!Insert(l, Index(l, pos), n, v)
        /\ \A n \in Free, v \in Value :
                /\ PushFront(l, n, v) => Abs!Insert(l, 0, n, v)
                /\ PushBack(l, n, v) => Abs!Insert(l, Len(Lists[l]), n, v)
        /\ \A pos \in Members(l) : Erase(l, pos) => Abs!Erase(l, Index(l, pos) + 1)
        /\ PopFront(l) => Abs!Erase(l, 1)
        /\ PopBack(l) => Abs!Erase(l, Len(Lists[l]))
        /\ Reverse(l) => Abs!Reverse_(l)
        /\ \A m \in List : Swap(l, m) => Abs!Swap(l, m)
        /\ \A m \in List, pos \in Positions(l) :
            /\ SpliceAll(l, pos, m) => Abs!Splice(l, Index(l, pos), m, 1, Len(Lists[m]))
            /\ \A it \in Members(m) : SpliceOne(l, pos, m, it) =>
                    Abs!Splice(l, Index(l, pos), m, Index(m, it) + 1, Index(m, it) + 1)
            /\ \A first \in Members(m), last \in Positions(m), S \in SUBSET Members(m) :
                    SpliceRange(l, pos, m, first, last, S) =>
                        Abs!Splice(l, Index(l, pos), m, Index(m, first) + 1, Index(m, last))
      ]_vars
================================================================================
