--------------------------- MODULE ForwardListLoops ---------------------------
(***************************************************************************)
(* The members of zstl::ForwardList that loop over elements: merge, splice *)
(* of a range, remove, unique, resize, assign, copy assignment, insertion  *)
(* of several elements, erasure of a range.  Each iteration of a loop is a *)
(* step, and calls the members of module ForwardList.                      *)
(*                                                                         *)
(* `run` is the member that is running, with its local variables: `at` is  *)
(* the position it works at, `src` and `last` the range it reads, `k` the  *)
(* elements still to come, `v` its value argument.  The argument list is m *)
(* and was[l] the elements of list l when the member was called.           *)
(***************************************************************************)
EXTENDS ForwardListSeq, Integers

CONSTANTS
    Val,       \* the values elements have, compared with <
    Dead,      \* val[n]: no object is constructed in the node
    MaxCount   \* bound: the largest count passed to a member

ASSUME Values == Val \subseteq Int /\ Dead \notin Val /\ MaxCount \in Nat

VARIABLES
    val,       \* the value of the object in a node
    run        \* the running member's locals

allVars == <<vars, val, run>>

Idle == [op |-> "idle"]

LoopsInit ==
    /\ Init
    /\ val = [n \in Node |-> Dead]
    /\ run = Idle

\* create_node constructs v in the nodes it allocates, drop_node destroys the
\* object of the nodes it frees; extracting and linking leave objects alone.
Objects(v) ==
    val' = [n \in Node |-> CASE where'[n] = Free -> Dead
                             [] where[n] = Free /\ where'[n] # Free -> v
                             [] OTHER -> val[n]]

\* The elements of list l, front first: each its node and its value.
Elems(l) == [i \in 1..count[header_[l]] |->
                LET n == Nodes(header_[l])[i] IN [node |-> n, val |-> val[n]]]

Lists == [l \in List |-> Elems(l)]

\* Erases the element after pos.
EraseAfter(l, pos) == TakeAfter(l, pos, Free) /\ Objects(Dead)

\* The nodes strictly between first and last; last is null for end().
Between(h, first, last) ==
    LET i == Index(h, first)
        j == IF last = Nil THEN count[h] + 1 ELSE Index(h, last)
    IN  {Nodes(h)[x] : x \in i + 1 .. j - 1}

\* last comes after first, or is end().
Follows(h, first, last) ==
    last # Nil => last \in Members(h) /\ Index(h, first) < Index(h, last)

\* Mutant: the last node is not updated when the range ends at end().
EraseRangeKeepsPrev(l, first, last) ==
    LET h == header_[l]  gone == Between(h, first, last) IN
    /\ first \in Positions(h) /\ Follows(h, first, last)
    /\ next' = [next EXCEPT ![first] = last]
    /\ count' = [count EXCEPT ![h] = @ - Cardinality(gone)]
    /\ where' = [n \in Node |-> IF n \in gone THEN Free ELSE where[n]]
    /\ UNCHANGED <<header_, prev>>

\* erase_after(first, last): the range is unlinked, then its nodes are dropped
\* one by one.
EraseRange(l, first, last) ==
    LET h == header_[l]  gone == Between(h, first, last) IN
    /\ first \in Positions(h) /\ Follows(h, first, last)
    /\ next' = [next EXCEPT ![first] = last]
    /\ prev' = IF next[first] # last /\ last = Nil THEN [prev EXCEPT ![h] = first] ELSE prev
    /\ count' = [count EXCEPT ![h] = @ - Cardinality(gone)]
    /\ where' = [n \in Node |-> IF n \in gone THEN Free ELSE where[n]]
    /\ UNCHANGED header_

------------------------------------------------------------------------------
(* Calls: what a member does before its loop.                              *)

\* The fields of r, and those of s that r has not.
With(r, s) == [x \in DOMAIN r \cup DOMAIN s |-> IF x \in DOMAIN r THEN r[x] ELSE s[x]]

Call(member, r) ==
    /\ run = Idle
    /\ run' = With([call |-> member, was |-> Lists], r)
    /\ UNCHANGED <<vars, val>>

\* merge(list), merge(list, pred) with pred a strict weak order
merge(l, m) ==
    /\ next[header_[m]] # Nil
    /\ Call("merge", [op |-> "merge", l |-> l, m |-> m, at |-> header_[l]])

\* splice_after(pos, list, first, last); when list is *this, pos is neither in
\* the range nor first.
splice_after(l, pos, m, first, last) ==
    LET h == header_[l]  o == header_[m] IN
    /\ pos \in Positions(h) /\ first \in Positions(o) /\ Follows(o, first, last)
    /\ pos \notin {first} \cup Between(o, first, last)
    /\ Call("splice_after", [op |-> "splice", l |-> l, m |-> m, at |-> pos, src |-> first, last |-> last])

remove(l, v) == Call("remove", [op |-> "remove", l |-> l, at |-> header_[l], v |-> v, removed |-> 0])

unique(l) == Call("unique", [op |-> "unique", l |-> l, at |-> header_[l], removed |-> 0])

\* resize appends what is missing, or goes to the last element that stays.
resize(l, k, v) ==
    LET h == header_[l] IN
    IF count[h] <= k
    THEN Call("resize", [op |-> "append", l |-> l, k |-> k - count[h], n |-> k, v |-> v])
    ELSE Call("resize", [op |-> "truncate", l |-> l, n |-> k, v |-> v,
                         at |-> IF k = 0 THEN h ELSE Nodes(h)[k]])

assign(l, k, v) ==
    Call("assign", [op |-> "assign", l |-> l, at |-> header_[l], k |-> k, n |-> k, v |-> v])

\* assign(first, last) from another list; operator=(ForwardList const&)
assign_range(l, m) ==
    Call("assign_range", [op |-> "copy", l |-> l, m |-> m, at |-> header_[l], src |-> next[header_[m]]])

insert_after(l, pos, k, v) ==
    /\ pos \in Positions(header_[l])
    /\ Call("insert_after", [op |-> "insert", l |-> l, at |-> pos, pos |-> pos, k |-> k, n |-> k, v |-> v])

\* insert_after(pos, first, last) from another list; the copy constructor
insert_range(l, pos, m, first, last) ==
    LET o == header_[m] IN
    /\ pos \in Positions(header_[l])
    /\ first \in Members(o)
    /\ last = first \/ Follows(o, first, last)
    /\ Call("insert_range", [op |-> "range", l |-> l, m |-> m, at |-> pos, pos |-> pos,
             src |-> first, first |-> first, last |-> last])

------------------------------------------------------------------------------
(* The loops.                                                              *)

\* The loop ends and the member returns.
Return == run' = Idle /\ UNCHANGED <<vars, val>>

\* The loop goes on without touching a list.
Move(to) == run' = [run EXCEPT !.at = to] /\ UNCHANGED <<vars, val>>

\* Mutant: an element of the other list goes before an equal one.
MergeTakesEqual ==
    LET o == header_[run.m]  b == next[run.at]  c == next[o] IN
    /\ run.op = "merge" /\ b # Nil /\ c # Nil
    /\ \/ /\ val[c] <= val[b]
          /\ SpliceOne(run.l, run.at, run.m, o)
          /\ run' = [run EXCEPT !.at = c]
          /\ UNCHANGED val
       \/ /\ val[c] > val[b]
          /\ Move(b)

\* A smaller element of the other list is moved before b, otherwise b is passed.
MergeStep ==
    LET o == header_[run.m]  b == next[run.at]  c == next[o] IN
    /\ run.op = "merge" /\ b # Nil /\ c # Nil
    /\ \/ /\ val[c] < val[b]
          /\ SpliceOne(run.l, run.at, run.m, o)
          /\ run' = [run EXCEPT !.at = c]
          /\ UNCHANGED val
       \/ /\ ~(val[c] < val[b])
          /\ Move(b)

\* What is left of the other list goes to the end; then assert(list.empty())
\* and list.reset(), which an empty list is not changed by.
MergeEnd ==
    LET h == header_[run.l]  o == header_[run.m] IN
    /\ run.op = "merge"
    /\ \/ /\ next[run.at] = Nil
          /\ next[o] # Nil
          /\ SpliceAll(run.l, prev[h], run.m)
          /\ run' = Idle
          /\ UNCHANGED val
       \/ /\ next[o] = Nil
          /\ Clear(run.m)
          /\ run' = Idle
          /\ UNCHANGED val

SpliceStep ==
    /\ run.op = "splice"
    /\ \/ /\ next[run.src] # run.last
          /\ SpliceOne(run.l, run.at, run.m, run.src)
          /\ UNCHANGED <<val, run>>
       \/ next[run.src] = run.last /\ Return

\* Mutant: the search goes on from the node that was erased.
RemoveFromErased ==
    LET b == next[run.at] IN
    /\ run.op = "remove"
    /\ \/ b = Nil /\ Return
       \/ /\ b # Nil
          /\ val[b] = run.v
          /\ EraseAfter(run.l, run.at)
          /\ run' = [run EXCEPT !.removed = @ + 1, !.at = b]
       \/ /\ b # Nil
          /\ val[b] # run.v
          /\ Move(b)

\* An iteration of search_before, or the erasure of what it found, after which
\* the search resumes from the same position.
RemoveStep ==
    LET b == next[run.at] IN
    /\ run.op = "remove"
    /\ \/ b = Nil /\ Return
       \/ /\ b # Nil
          /\ val[b] = run.v
          /\ EraseAfter(run.l, run.at)
          /\ run' = [run EXCEPT !.removed = @ + 1]
       \/ /\ b # Nil
          /\ val[b] # run.v
          /\ Move(b)

UniqueStep ==
    LET b == next[run.at]  c == IF b = Nil THEN Nil ELSE next[b] IN
    /\ run.op = "unique"
    /\ \/ c = Nil /\ Return
       \/ /\ c # Nil
          /\ val[b] = val[c]
          /\ EraseAfter(run.l, b)
          /\ run' = [run EXCEPT !.removed = @ + 1]
       \/ /\ c # Nil
          /\ val[b] # val[c]
          /\ Move(b)

\* Mutant: while (diff) push_back(val)
AppendUncounted ==
    /\ run.op = "append"
    /\ \/ run.k = 0 /\ Return
       \/ /\ run.k # 0
          /\ \E n \in Node : where[n] = Free /\ PushBack(run.l, n)
          /\ Objects(run.v)
          /\ UNCHANGED run

\* while (diff--) push_back(val)
AppendStep ==
    /\ run.op = "append"
    /\ \/ run.k = 0 /\ Return
       \/ /\ run.k # 0
          /\ \E n \in Node : where[n] = Free /\ PushBack(run.l, n)
          /\ Objects(run.v)
          /\ run' = [run EXCEPT !.k = @ - 1]

\* while (it.next() != end()) erase_after(it)
TruncateStep ==
    /\ run.op = "truncate"
    /\ \/ next[run.at] = Nil /\ Return
       \/ /\ next[run.at] # Nil
          /\ EraseAfter(run.l, run.at)
          /\ UNCHANGED run

\* assign(count, value) first gives the elements there are the value.  The
\* branch for a surplus is taken when `count < 0`, never of an unsigned count.
AssignStep ==
    LET b == next[run.at] IN
    /\ run.op = "assign"
    /\ UNCHANGED vars
    /\ \/ /\ run.k # 0
          /\ b # Nil
          /\ val' = [val EXCEPT ![b] = run.v]
          /\ run' = [run EXCEPT !.at = b, !.k = @ - 1]
       \/ /\ (run.k = 0 \/ b = Nil)
          /\ run' = [run EXCEPT !.op = "prepend"]
          /\ UNCHANGED val

\* What is missing is pushed to the front.
PrependStep ==
    /\ run.op = "prepend"
    /\ \/ run.k = 0 /\ Return
       \/ /\ run.k # 0
          /\ \E n \in Node : where[n] = Free /\ PushFront(run.l, n)
          /\ Objects(run.v)
          /\ run' = [run EXCEPT !.k = @ - 1]

\* assign(first, last) overwrites what both have, then appends or truncates.
CopyStep ==
    LET b == next[run.at]  src == run.src IN
    /\ run.op = "copy"
    /\ \/ /\ b = Nil
          /\ src = Nil
          /\ Return
       \/ /\ b # Nil
          /\ src # Nil
          /\ val' = [val EXCEPT ![b] = val[src]]
          /\ run' = [run EXCEPT !.at = b, !.src = next[src]]
          /\ UNCHANGED vars
       \/ /\ b = Nil
          /\ src # Nil
          /\ run' = [run EXCEPT !.op = "copy_tail"]
          /\ UNCHANGED <<vars, val>>
       \/ /\ b # Nil
          /\ src = Nil
          /\ run' = [run EXCEPT !.op = "truncate"]
          /\ UNCHANGED <<vars, val>>

CopyTailStep ==
    /\ run.op = "copy_tail"
    /\ \/ run.src = Nil /\ Return
       \/ /\ run.src # Nil
          /\ \E n \in Node : where[n] = Free /\ PushBack(run.l, n)
          /\ Objects(val[run.src])
          /\ run' = [run EXCEPT !.src = next[@]]

\* Each element goes after the one before: pos is moved to it.
RangeStep ==
    /\ run.op = "range"
    /\ \/ run.src = run.last /\ Return
       \/ /\ run.src # run.last
          /\ \E n \in Node : /\ where[n] = Free /\ InsertAfter(run.l, run.at, n)
                             /\ run' = [run EXCEPT !.src = next[@], !.at = n]
          /\ Objects(val[run.src])

InsertStep ==
    /\ run.op = "insert"
    /\ \/ run.k = 0 /\ Return
       \/ /\ run.k # 0
          /\ \E n \in Node : /\ where[n] = Free /\ InsertAfter(run.l, run.at, n)
                             /\ run' = [run EXCEPT !.k = @ - 1, !.at = n]
          /\ Objects(run.v)

\* The next iteration has to create a node.
Creates ==
    \/ /\ run.op \in {"append", "prepend", "insert"}
       /\ run.k # 0
    \/ /\ run.op = "copy_tail"
       /\ run.src # Nil
    \/ /\ run.op = "range"
       /\ run.src # run.last

\* create_node throws std::bad_alloc: the member is left where it is.
Throw ==
    /\ Creates
    /\ \A n \in Node : where[n] # Free
    /\ Return

Step ==
    \/ MergeStep \/ MergeEnd \/ SpliceStep \/ RemoveStep \/ UniqueStep
    \/ AppendStep \/ TruncateStep \/ AssignStep \/ PrependStep
    \/ CopyStep \/ CopyTailStep \/ RangeStep \/ InsertStep \/ Throw

\* A member that is no loop, called between two of those that are.
Member ==
    /\ run = Idle
    /\ Next
    /\ \E v \in Val : Objects(v)
    /\ UNCHANGED run

Calls ==
    \E l \in List :
        \/ \E m \in List \ {l} : merge(l, m) \/ assign_range(l, m)
        \/ \E m \in List, pos, first \in Addr, last \in Node \cup {Nil} :
                splice_after(l, pos, m, first, last)
        \/ \E v \in Val : remove(l, v)
        \/ unique(l)
        \/ \E k \in 0..MaxCount, v \in Val : resize(l, k, v) \/ assign(l, k, v)
        \/ \E k \in 0..MaxCount, v \in Val, pos \in Addr : insert_after(l, pos, k, v)
        \/ \E m \in List \ {l}, pos \in Addr, first, last \in Node \cup {Nil} :
                insert_range(l, pos, m, first, last)
        \/ \E first \in Addr, last \in Node \cup {Nil} :
                /\ run = Idle /\ EraseRange(l, first, last) /\ Objects(Dead)
                /\ UNCHANGED run

LoopsNext == Member \/ Calls \/ Step

\* A member that is running goes on until it returns.
LoopsSpec == LoopsInit /\ [][LoopsNext]_allVars /\ WF_allVars(Step)

------------------------------------------------------------------------------
(* Properties.                                                             *)

LoopsTypeOK ==
    /\ TypeOK
    /\ val \in [Node -> Val \cup {Dead}]
    /\ \A n \in Node : val[n] = Dead <=> where[n] = Free
    /\ run.op \in {"idle", "merge", "splice", "remove", "unique", "append", "truncate",
                   "assign", "prepend", "copy", "copy_tail", "insert", "range"}

\* Whatever loop is interrupted, the lists are whole: the nodes met from a
\* header are its own, each once, the last of them is prev and ends the chain.
WellChained ==
    /\ LoopsTypeOK
    /\ \A h \in Header : LET s == Nodes(h) IN
           /\ {s[i] : i \in 1..Len(s)} = Members(h)
           /\ Cardinality(Members(h)) = Len(s)
           /\ prev[h] = IF s = <<>> THEN h ELSE s[Len(s)]
           /\ next[prev[h]] = Nil

\* No loop ever holds a position whose node was erased or moved to another
\* list, though it erases and moves nodes next to it (forward_list_impl.h:
\* 271-281, 331-333, 365-370, 409-419).
PositionsLive ==
    /\ "at" \in DOMAIN run => run.at \in Positions(header_[run.l])
    /\ "src" \in DOMAIN run => run.src \in Positions(header_[run.m]) \cup {Nil}
    /\ "last" \in DOMAIN run => run.last \in Members(header_[run.m]) \cup {Nil}

Vals(s) == [i \in 1..Len(s) |-> s[i].val]

\* The elements of s at the indices I, in order.
At(s, I) == [x \in 1..Cardinality(I) |->
                s[CHOOSE i \in I : Cardinality({j \in I : j <= i}) = x]]

Sorted(s) == \A i, j \in 1..Len(s) : i < j => s[i].val <= s[j].val

\* r holds s and t in order, the elements of s before equal ones of t.
StableMerge(r, s, t) ==
    /\ Len(r) = Len(s) + Len(t)
    /\ \A i \in 1..Len(s) :
            r[i + Cardinality({j \in 1..Len(t) : t[j].val < s[i].val})] = s[i]
    /\ \A j \in 1..Len(t) :
            r[j + Cardinality({i \in 1..Len(s) : s[i].val <= t[j].val})] = t[j]

\* The index of position p among the elements s: 0 before the first.
Place(s, p) == IF \E i \in 1..Len(s) : s[i].node = p
               THEN CHOOSE i \in 1..Len(s) : s[i].node = p ELSE 0

\* The indices of the elements from index i on and before the position last.
Span(t, i, last) == i .. IF last = Nil THEN Len(t) ELSE Place(t, last) - 1

\* r is s with new elements of values w after the first i.
Inserted(r, s, i, w) ==
    /\ Len(r) = Len(s) + Len(w)
    /\ SubSeq(r, 1, i) = SubSeq(s, 1, i)
    /\ SubSeq(Vals(r), i + 1, i + Len(w)) = w
    /\ SubSeq(r, i + Len(w) + 1, Len(r)) = SubSeq(s, i + 1, Len(s))

Involved == {run.l} \cup IF "m" \in DOMAIN run THEN {run.m} ELSE {}

\* The member returns, not by an exception.
Returns == run # Idle /\ run' = Idle /\ ~Creates

\* What the members that move and erase nodes do to the lists they were called
\* with: merge is stable and empties its argument, a range is spliced in
\* reverse, remove and unique keep the others in order and count what they erase.
Rearranges ==
    LET s == run.was[run.l]   r == Lists'[run.l]
        t == run.was[run.m]   u == Lists'[run.m]
    IN
    /\ run.call = "merge" /\ Sorted(s) /\ Sorted(t) => u = <<>> /\ StableMerge(r, s, t)
    /\ run.call = "remove" =>
            /\ r = At(s, {i \in 1..Len(s) : s[i].val # run.v})
            /\ run.removed = Len(s) - Len(r)
    /\ run.call = "unique" =>
            /\ r = At(s, {i \in 1..Len(s) : i = 1 \/ s[i].val # s[i - 1].val})
            /\ run.removed = Len(s) - Len(r)
    /\ run.call = "splice_after" =>
            LET taken == Span(t, Place(t, run.src) + 1, run.last)
                left  == At(t, (1..Len(t)) \ taken)
                into  == IF run.l = run.m THEN left ELSE s
            IN  /\ r = Abs!InsertAll(into, Place(into, run.at), Abs!Reversed(At(t, taken)))
                /\ run.l # run.m => u = left
    /\ \A l \in List \ Involved : Lists'[l] = run.was[l]

\* What the members that create nodes do: the elements already there stay, with
\* their nodes, in their order; the new ones are where and what was asked for.
\* (assign with fewer elements than there are keeps the surplus: its test for them
\* asks whether an unsigned count is negative, forward_list_impl.h:74.)
Fills ==
    LET s == run.was[run.l]   r == Lists'[run.l]
        t == run.was[run.m]   u == Lists'[run.m]
    IN
    /\ run.call = "resize" =>
            /\ Vals(r) = [i \in 1..run.n |-> IF i <= Len(s) THEN s[i].val ELSE run.v]
            /\ \A i \in 1..Len(r) : i <= Len(s) => r[i] = s[i]
    /\ run.call = "assign" /\ run.n >= Len(s) => Vals(r) = [i \in 1..run.n |-> run.v]
    /\ run.call = "assign_range" => Vals(r) = Vals(t) /\ u = t
    /\ run.call = "insert_after" =>
            Inserted(r, s, Place(s, run.pos), [i \in 1..run.n |-> run.v])
    /\ run.call = "insert_range" =>
            /\ Inserted(r, s, Place(s, run.pos),
                        Vals(At(t, Span(t, Place(t, run.first), run.last))))
            /\ u = t

\* A member that returns, not by an exception, has done to the lists exactly what
\* it is for, whatever the loop has moved, erased or inserted on the way.
LoopsRight == [][Returns => Rearranges /\ Fills]_allVars

\* How many elements follow position p of list l, and how many a loop that is
\* at p has still to read.
After(l, p) == count[header_[l]] - Index(header_[l], p)
Unread(m, p) == IF p = Nil THEN 0 ELSE After(m, p) + 1

\* How many iterations the running loop has left at most.
Left ==
    CASE run.op = "merge" -> After(run.l, run.at) + count[header_[run.m]]
      [] run.op = "splice" -> Unread(run.m, next[run.src]) - Unread(run.m, run.last)
      [] run.op \in {"remove", "unique", "truncate"} -> After(run.l, run.at)
      [] run.op \in {"append", "prepend", "insert"} -> run.k
      [] run.op = "assign" -> run.k + 1
      [] run.op = "copy" -> After(run.l, run.at) + Unread(run.m, run.src) + 1
      [] run.op = "copy_tail" -> Unread(run.m, run.src)
      [] run.op = "range" -> Unread(run.m, run.src) - Unread(run.m, run.last)

\* Every iteration brings its loop nearer to the end, so none runs for ever,
\* whatever it erases, moves or inserts under its own positions.
Progress == [][run # Idle /\ run' # Idle => Left' < Left /\ Left' >= 0]_allVars

==============================================================================
