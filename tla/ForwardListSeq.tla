---------------------------- MODULE ForwardListSeq ----------------------------
(***************************************************************************)
(* ForwardList implements NodeSeq: read along the pointers, each list is   *)
(* the sequence the abstract specification keeps.                          *)
(***************************************************************************)
EXTENDS ForwardList, Sequences

\* The nodes met in count[h] steps from header h.
Nodes(h) ==
    LET at[i \in 0..count[h]] == IF i = 0 THEN h
                         ELSE IF at[i - 1] \in Addr THEN next[at[i - 1]] ELSE Nil
    IN  [i \in 1..count[h] |-> at[i]]

Abs == INSTANCE NodeSeq WITH
          seq   <- [l \in List |-> Nodes(header_[l])],
          loose <- {n \in Node : where[n] = User}

\* On the sequences of nodes every step is one of the abstract ones, and no node
\* moves that was not asked to, so iterators stay valid until their node is
\* erased.
ImplementsNodeSeq == Abs!Spec

\* How many elements precede the position after p: the header's is 0.
Index(h, p) == IF p = h THEN 0 ELSE CHOOSE i \in 1..count[h] : Nodes(h)[i] = p

\* Each member has exactly the effect its name promises, at the position its
\* iterator argument designates (forward_list_impl.h:115-217, 321-402).
EachCallExact ==
    \A l \in List : LET h == header_[l] IN
        /\ \A n \in Node : PushFront(l, n) => Abs!Insert(l, 0, n)
        /\ \A n \in Node : PushBack(l, n) => Abs!Insert(l, count[h], n)
        /\ \A pos \in Positions(h), n \in Node :
                InsertAfter(l, pos, n) => Abs!Insert(l, Index(h, pos), n)
        /\ \A to \in {User, Free} : TakeFront(l, to) => Abs!Delete(l, 1, to = User)
        /\ \A pos \in Positions(h), to \in {User, Free} :
                TakeAfter(l, pos, to) => Abs!Delete(l, Index(h, pos) + 1, to = User)
        /\ Clear(l) => Abs!Clear(l)
        /\ Reverse(l) => Abs!Reverse(l)
        /\ \A m \in List \ {l}, pos \in Positions(h) :
                SpliceAll(l, pos, m) => Abs!SpliceAll(l, Index(h, pos), m)
        /\ \A m \in List, pos \in Positions(h) : \A it \in Positions(header_[m]) :
                SpliceOne(l, pos, m, it) =>
                    LET i == Index(h, pos)  j == Index(header_[m], it) + 1 IN
                    Abs!SpliceOne(l, IF l = m /\ j < i THEN i - 1 ELSE i, m, j)

\* No step of the program does anything else to the lists than its call promises.
CallsExact == [][EachCallExact]_vars
==============================================================================
