------------------------------- MODULE ListSeq -------------------------------
(***************************************************************************)
(* What a set of zstl::list objects promises, with no link in sight: each  *)
(* list is a sequence of nodes with their values, an iterator is a node,   *)
(* and a call that loops over elements takes its effect at once, when it   *)
(* returns.  `call` is the call in progress.                               *)
(***************************************************************************)
EXTENDS SequencesExt, Integers

CONSTANTS
    Node,      \* the nodes the allocator can hand out
    List,      \* the list objects
    Value,     \* the values of elements, compared with <
    MovedFrom  \* what a list is whose chain another list has taken

VARIABLES
    seq,       \* seq[l]: the elements of list l, front first
    call       \* the call in progress

absVars == <<seq, call>>

Idle == [op |-> "none"]
Element == [node : Node, data : Value]

Init ==
    /\ seq = [l \in List |-> <<>>]
    /\ call = Idle

Usable == {l \in List : seq[l] # MovedFrom}
NodesIn(s) == {s[i].node : i \in 1..Len(s)}
Free == Node \ UNION {NodesIn(seq[l]) : l \in Usable}
Data(s) == [i \in 1..Len(s) |-> s[i].data]

\* t goes after the first i elements of s.
InsertSeq(s, i, t) == SubSeq(s, 1, i) \o t \o SubSeq(s, i + 1, Len(s))

\* Elements j to k leave s.
Cut(s, j, k) == SubSeq(s, 1, j - 1) \o SubSeq(s, k + 1, Len(s))

\* The elements in ascending order, equal ones in the order they had.
StableSort(s) ==
    LET rank(i) == Cardinality({j \in 1..Len(s) :
                        \/ s[j].data < s[i].data
                        \/ s[j].data = s[i].data /\ j <= i})
    IN  [r \in 1..Len(s) |-> s[CHOOSE i \in 1..Len(s) : rank(i) = r]]

Ordered(s) == \A i \in 1..Len(s) - 1 : s[i].data <= s[i + 1].data

\* Of every run of equal elements the first.
Distinct(s) ==
    FoldLeft(LAMBDA kept, e : IF kept # <<>> /\ Last(kept).data = e.data
                              THEN kept ELSE Append(kept, e), <<>>, s)

-----------------------------------------------------------------------------
(* Calls that do not loop.                                                 *)

Insert(l, i, n, v) ==
    /\ n \in Free
    /\ seq' = [seq EXCEPT ![l] = InsertSeq(@, i, <<[node |-> n, data |-> v]>>)]

Erase(l, i) == seq' = [seq EXCEPT ![l] = Cut(@, i, i)]

Reverse_(l) == seq' = [seq EXCEPT ![l] = Reverse(@)]

Swap(l, m) == seq' = [seq EXCEPT ![l] = seq[m], ![m] = seq[l]]

\* Elements j to k of m go after the first i elements of l; within one list, i
\* is not inside the range and counts the elements that move.
Splice(l, i, m, j, k) ==
    LET moved == SubSeq(seq[m], j, k)
        at == IF l = m /\ k <= i THEN i - Len(moved) ELSE i
    IN  /\ l = m => i < j \/ i >= k
        /\ seq' = IF l = m
                  THEN [seq EXCEPT ![l] = InsertSeq(Cut(@, j, k), at, moved)]
                  ELSE [seq EXCEPT ![l] = InsertSeq(@, i, moved), ![m] = Cut(@, j, k)]

-----------------------------------------------------------------------------
(* What each call that loops does, once it is over.                        *)

\* s with fresh nodes holding the values d after its first i elements.
Grown(s, i, d, r) ==
    \E t \in [1..Len(d) -> Free] :
        /\ \A x, y \in 1..Len(d) : t[x] = t[y] => x = y
        /\ r = InsertSeq(s, i, [x \in 1..Len(d) |-> [node |-> t[x], data |-> d[x]]])

\* Values the same as d, in any nodes: the old ones were freed, or are freed last.
Replaced(r, d) == Data(r) = d /\ Cardinality(NodesIn(r)) = Len(r)

Copies(n, v) == [i \in 1..n |-> v]

Returns(r) ==
    LET l == call.l  m == call.m  s == seq[l]  t == seq[m] IN
    CASE call.op = "clear"  -> r = [seq EXCEPT ![l] = <<>>]
      [] call.op = "remove" ->
            r = [seq EXCEPT ![l] = SelectSeq(s, LAMBDA e : e.data # call.v)]
      [] call.op = "unique" -> r = [seq EXCEPT ![l] = Distinct(s)]
      [] call.op = "sort"   -> r = [seq EXCEPT ![l] = StableSort(s)]
      [] call.op = "merge"  ->
            /\ r[m] = <<>> /\ \A o \in List \ {l, m} : r[o] = seq[o]
            /\ NodesIn(r[l]) = NodesIn(s) \cup NodesIn(t) /\ Len(r[l]) = Len(s) + Len(t)
            /\ Ordered(s) /\ Ordered(t) => r[l] = StableSort(s \o t)
      [] call.op = "move"   ->
            r = IF l = m THEN [seq EXCEPT ![l] = MovedFrom]
                ELSE [seq EXCEPT ![l] = t, ![m] = MovedFrom]
      [] call.op = "copy"   ->
            Replaced(r[l], Data(t)) /\ \A o \in List \ {l} : r[o] = seq[o]
      [] call.op = "assign" ->
            Replaced(r[l], Copies(call.n, call.v)) /\ \A o \in List \ {l} : r[o] = seq[o]
      [] call.op = "assign_range" ->
            Replaced(r[l], Data(t)) /\ \A o \in List \ {l} : r[o] = seq[o]
      [] call.op = "insert" ->
            Grown(s, call.i, Copies(call.n, call.v), r[l]) /\ \A o \in List \ {l} : r[o] = seq[o]
      [] call.op = "insert_range" ->
            Grown(s, call.i, Data(t), r[l]) /\ \A o \in List \ {l} : r[o] = seq[o]

Quick ==
    /\ call = Idle /\ UNCHANGED call
    /\ \/ \E l \in Usable : \E i \in 0..Len(seq[l]), n \in Free, v \in Value : Insert(l, i, n, v)
       \/ \E l \in Usable : \E i \in 1..Len(seq[l]) : Erase(l, i)
       \/ \E l \in Usable : Reverse_(l)
       \/ \E l, m \in List : Swap(l, m)
       \/ \E l, m \in Usable : \E i \in 0..Len(seq[l]), j, k \in 1..Len(seq[m]) :
                j <= k /\ Splice(l, i, m, j, k)

Call ==
    /\ call = Idle
    /\ call' # Idle
    /\ UNCHANGED seq

Return ==
    /\ call # Idle
    /\ call' = Idle
    /\ Returns(seq')

Next == Quick \/ Call \/ Return

Spec == Init /\ [][Next]_absVars
==============================================================================
