------------------------------- MODULE NodeSeq -------------------------------
(***************************************************************************)
(* What a set of singly linked lists promises, with no pointer in sight:   *)
(* each list object is a sequence of nodes, and the nodes the caller has   *)
(* extracted and not yet reused are in its hands.  A node keeps its        *)
(* identity whatever happens to it, so an iterator stays valid until the   *)
(* node it designates is erased.                                           *)
(***************************************************************************)
EXTENDS Naturals, Sequences

CONSTANTS
    Node,      \* the nodes the allocator can hand out
    List       \* the list objects

VARIABLES
    seq,       \* seq[l]: the nodes of list l, front first
    loose      \* nodes extracted from a list and held by the caller

absVars == <<seq, loose>>

TypeOK ==
    /\ seq \in [List -> Seq(Node)]
    /\ loose \in SUBSET Node

Init ==
    /\ seq = [l \in List |-> <<>>]
    /\ loose = {}

Elements(s) == {s[i] : i \in 1..Len(s)}

Unallocated == Node \ (loose \cup UNION {Elements(seq[l]) : l \in List})

InsertAt(s, i, n) == SubSeq(s, 1, i) \o <<n>> \o SubSeq(s, i + 1, Len(s))
InsertAll(s, i, t) == SubSeq(s, 1, i) \o t \o SubSeq(s, i + 1, Len(s))
DeleteAt(s, i)    == SubSeq(s, 1, i - 1) \o SubSeq(s, i + 1, Len(s))
Reversed(s)       == [i \in 1..Len(s) |-> s[Len(s) + 1 - i]]

\* Node n, freshly allocated or held by the caller, goes after the first i.
Insert(l, i, n) ==
    /\ n \in Unallocated \cup loose
    /\ i \in 0..Len(seq[l])
    /\ seq' = [seq EXCEPT ![l] = InsertAt(@, i, n)]
    /\ loose' = loose \ {n}

\* Element i leaves the list, into the caller's hands or back to the allocator.
Delete(l, i, kept) ==
    /\ i \in 1..Len(seq[l])
    /\ seq' = [seq EXCEPT ![l] = DeleteAt(@, i)]
    /\ loose' = IF kept THEN loose \cup {seq[l][i]} ELSE loose

\* The elements after the first i and up to element j leave the list.
DeleteRange(l, i, j) ==
    /\ i \in 0..Len(seq[l])
    /\ j \in i..Len(seq[l])
    /\ seq' = [seq EXCEPT ![l] = SubSeq(@, 1, i) \o SubSeq(@, j + 1, Len(@))]
    /\ UNCHANGED loose

Clear(l) ==
    /\ seq' = [seq EXCEPT ![l] = <<>>]
    /\ UNCHANGED loose

Reverse(l) ==
    /\ seq' = [seq EXCEPT ![l] = Reversed(@)]
    /\ UNCHANGED loose

Swap(l, m) ==
    /\ seq' = [seq EXCEPT ![l] = seq[m], ![m] = seq[l]]
    /\ UNCHANGED loose

\* All of m, in order, goes after the first i elements of l.
SpliceAll(l, i, m) ==
    /\ i \in 0..Len(seq[l])
    /\ seq' = [seq EXCEPT
          ![l] = InsertAll(seq[l], i, seq[m]),
          ![m] = <<>>]
    /\ UNCHANGED loose

\* Element j of m goes after the first i elements of l, which may be m: they are
\* counted without the element that moves.
SpliceOne(l, i, m, j) ==
    LET rest == DeleteAt(seq[m], j)
        into == IF l = m THEN rest ELSE seq[l]
    IN  /\ j \in 1..Len(seq[m])
        /\ i \in 0..Len(into)
        /\ seq' = [seq EXCEPT ![m] = rest, ![l] = InsertAt(into, i, seq[m][j])]
        /\ UNCHANGED loose

Next ==
    \E l \in List :
        \/ \E i \in 0..Len(seq[l]), n \in Node : Insert(l, i, n)
        \/ \E i \in 1..Len(seq[l]), kept \in BOOLEAN : Delete(l, i, kept)
        \/ \E i, j \in 0..Len(seq[l]) : DeleteRange(l, i, j)
        \/ Clear(l)
        \/ Reverse(l)
        \/ \E m \in List \ {l} : Swap(l, m)
        \/ \E m \in List \ {l}, i \in 0..Len(seq[l]) : SpliceAll(l, i, m)
        \/ \E m \in List, i \in 0..Len(seq[l]) :
                \E j \in 1..Len(seq[m]) : SpliceOne(l, i, m, j)

Spec == Init /\ [][Next]_absVars
==============================================================================
