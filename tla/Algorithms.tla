------------------------------ MODULE Algorithms ------------------------------
(***************************************************************************)
(* The range algorithms of zstl/algo and stl_algobase.h, as functions of   *)
(* the contents of the ranges.  A position is that of an element, counted  *)
(* from 1; last is one more than the length.  A predicate is the set of    *)
(* the elements that satisfy it.  Loops are recursive functions of the     *)
(* position, or folds over the positions when each does the same.          *)
(***************************************************************************)
EXTENDS Integers, FiniteSets, Sequences

LOCAL INSTANCE SequencesExt

CONSTANTS
    Item,        \* the elements of ranges, integers
    MaxRange,    \* bound: the longest range
    MaxOther     \* bound: the longest second range

ASSUME RangeParameters == Item \subseteq Int /\ MaxRange \in Nat /\ MaxOther \in Nat

VARIABLES range, other

last(r) == Len(r) + 1

-----------------------------------------------------------------------------
(* Reading.                                                                *)

find_if(r, pred) ==
    LET from[p \in 1..last(r)] == IF p # last(r) /\ r[p] \notin pred THEN from[p + 1] ELSE p IN from[1]
find_if_not(r, pred) == find_if(r, Item \ pred)
find(r, v) == find_if(r, {v})

count_if(r, pred) == FoldLeft(LAMBDA n, v : IF v \in pred THEN n + 1 ELSE n, 0, r)

all_of(r, pred) == find_if_not(r, pred) = last(r)
any_of(r, pred) == find_if(r, pred) # last(r)
none_of(r, pred) == find_if(r, pred) = last(r)

\* The second range is as long as the first.
mismatch(r, s) ==
    LET from[p \in 1..last(r)] == IF p # last(r) /\ r[p] = s[p] THEN from[p + 1] ELSE p IN from[1]
equal(r, s) == mismatch(r, s) = last(r)

lexicographical_compare(r, s) ==
    LET from[p \in Nat \ {0}] ==
            CASE p = last(r) \/ p = last(s) -> p = last(r) /\ p # last(s)
              [] r[p] < s[p] -> TRUE
              [] s[p] < r[p] -> FALSE
              [] OTHER -> from[p + 1]
    IN  from[1]

\* After a partial match the search goes on behind it, and past last when the
\* match ended there: what it finds then is not in the range, and is 0 here.
search(r, s) ==
    LET match[p \in 1..last(r), q \in 1..last(s)] ==
            IF p # last(r) /\ q # last(s) /\ r[p] = s[q] THEN match[p + 1, q + 1] ELSE <<p, q>>
        from[p \in 1..last(r) + 1] ==
            CASE p > last(r) -> 0
              [] p = last(r) -> p
              [] r[p] # s[1] -> from[p + 1]
              [] match[p, 1][2] = last(s) -> p
              [] OTHER -> from[match[p, 1][1] + 1]
    IN  from[1]

-----------------------------------------------------------------------------
(* Writing.                                                                *)

iter_swap(r, p, q) == [r EXCEPT ![p] = r[q], ![q] = r[p]]

\* Every element other than v is swapped with the one at the same place, the
\* first v, since result does not advance.
remove(r, v) ==
    LET result == find(r, v) IN
    <<FoldLeftDomain(LAMBDA s, p : IF p >= result /\ s[p] # v THEN iter_swap(s, p, result) ELSE s, r, r),
      result>>

\* Mutant: the elements are written one place too far.
remove_if_after(r, pred) ==
    LET first == find_if(r, pred)
        keep(acc, p) ==
            IF p > first /\ acc[1][p] \notin pred
            THEN <<[acc[1] EXCEPT ![acc[2] + 1] = acc[1][p]], acc[2] + 1>> ELSE acc
    IN  FoldLeftDomain(keep, <<r, first>>, r)

\* The range, and the position its new contents end before.
remove_if(r, pred) ==
    LET first == find_if(r, pred)
        keep(acc, p) ==
            IF p >= first /\ acc[1][p] \notin pred
            THEN <<[acc[1] EXCEPT ![acc[2]] = acc[1][p]], acc[2] + 1>> ELSE acc
    IN  FoldLeftDomain(keep, <<r, first>>, r)

\* What is written to another range.
remove_copy_if(r, pred) == FoldLeft(LAMBDA s, v : IF v \notin pred THEN Append(s, v) ELSE s, <<>>, r)

\* Of a range that is not empty.
unique(r) ==
    LET step(acc, p) ==
            IF p = 1 \/ acc[1][acc[2]] = acc[1][p] THEN acc
            ELSE <<IF acc[2] + 1 # p THEN iter_swap(acc[1], acc[2] + 1, p) ELSE acc[1], acc[2] + 1>>
        done == FoldLeftDomain(step, <<r, 1>>, r)
    IN  <<done[1], done[2] + 1>>

replace_if(r, pred, new) == [p \in 1..Len(r) |-> IF r[p] \in pred THEN new ELSE r[p]]
transform(r, F) == [p \in 1..Len(r) |-> F[r[p]]]
swap_ranges(r, s) == <<[p \in 1..Len(r) |-> s[p]], [p \in 1..Len(s) |-> IF p < last(r) THEN r[p] ELSE s[p]]>>
fill_n(r, n, v) == [p \in 1..Len(r) |-> IF p <= n THEN v ELSE r[p]]

\* --last is evaluated once before the loop and once before every swap.
reverse(r) ==
    LET loop[s \in Seq(Item), p \in Nat, q \in Nat] ==
            IF p # q /\ p # q - 1 THEN loop[iter_swap(s, p, q - 1), p + 1, q - 1] ELSE s
    IN  IF Len(r) = 0 \/ last(r) - 1 = 1 THEN r ELSE loop[r, 1, last(r) - 1]

\* copy within one range, element by element, to the positions from to on.
copy(r, from, end, to) ==
    FoldLeftDomain(LAMBDA s, p : IF p >= from /\ p < end THEN [s EXCEPT ![to + p - from] = s[p]] ELSE s, r, r)

\* copy_backward: to the positions before to, the last one first.
copy_backward(r, from, end, to) ==
    LET loop[s \in Seq(Item), p \in Nat, q \in Nat] ==
            IF p # from THEN loop[[s EXCEPT ![q - 1] = s[p - 1]], p - 1, q - 1] ELSE s
    IN  loop[r, end, to]

inner_product(r, s) == FoldLeftDomain(LAMBDA n, p : n + r[p] * s[p], 0, r)

-----------------------------------------------------------------------------
(* The ranges a program has.                                               *)

RangesInit == range = <<>> /\ other = <<>>

Extend ==
    \E v \in Item :
        \/ Len(range) < MaxRange /\ other = <<>> /\ range' = Append(range, v) /\ UNCHANGED other
        \/ Len(other) < MaxOther /\ other' = Append(other, v) /\ UNCHANGED range

-----------------------------------------------------------------------------
(* Properties.                                                             *)

Kept_by(pred, r) == SelectSeq(r, LAMBDA v : v \notin pred)
Occurs(s, r, p) == p + Len(s) - 1 <= Len(r) /\ SubSeq(r, p, p + Len(s) - 1) = s
Permuted(r, s) == \A v \in Item : count_if(r, {v}) = count_if(s, {v})

\* The first position where r and s differ or one ends.
Parting(r, s) == CHOOSE p \in 1..last(r) :
    /\ p > last(s) \/ p = last(r) \/ p = last(s) \/ r[p] # s[p]
    /\ \A q \in 1..p - 1 : q < last(s) /\ r[q] = s[q]

\* The searches for one element and the comparisons find the first position there
\* is, no other, and agree with one another.
ReadsRight ==
    LET r == range  s == other  p == Parting(r, s)  n == Len(range) IN
    /\ \A pred \in SUBSET Item :
        /\ \A i \in 1..last(r) :
              find_if(r, pred) = i <=> /\ i = last(r) \/ r[i] \in pred
                                      /\ \A j \in 1..i - 1 : r[j] \notin pred
        /\ count_if(r, pred) = Cardinality({i \in 1..Len(r) : r[i] \in pred})
        /\ all_of(r, pred) <=> \A i \in 1..Len(r) : r[i] \in pred
        /\ any_of(r, pred) <=> ~none_of(r, pred)
        /\ none_of(r, pred) <=> all_of(r, Item \ pred)
    /\ Len(s) >= n =>
        /\ mismatch(r, s) = p
        /\ equal(r, s) <=> Occurs(r, s, 1)
        /\ LET t == swap_ranges(r, s) IN
           /\ equal(t[1], s) /\ equal(r, t[2]) /\ SubSeq(t[2], n + 1, Len(s)) = SubSeq(s, n + 1, Len(s))
           /\ inner_product(r, s) = inner_product(t[1], t[2])
    /\ lexicographical_compare(r, s) <=>
            p < last(s) /\ (p = last(r) \/ r[p] < s[p])

\* remove_if and unique leave what they keep, in order, in front of the position
\* they return, unique without losing an element; a copy within one range is
\* right as long as its target does not begin (copy) or end (copy_backward)
\* within what is copied (stl_algobase.h:190).
WritesRight ==
    LET r == range  n == Len(range) IN
    /\ \A pred \in SUBSET Item : LET e == remove_if(r, pred) IN
        /\ SubSeq(e[1], 1, e[2] - 1) = Kept_by(pred, r)
        /\ remove_copy_if(r, pred) = Kept_by(pred, r)
        /\ \A v \in Item :
              /\ any_of(replace_if(r, pred, v), pred) => v \in pred
              /\ replace_if(r, pred, v) = transform(r, [x \in Item |-> IF x \in pred THEN v ELSE x])
    /\ \A v \in Item, m \in 0..n :
        fill_n(r, m, v) = [i \in 1..m |-> v] \o SubSeq(r, m + 1, n)
    /\ r # <<>> => LET e == unique(r)
                       first == {i \in 1..n : i = 1 \/ r[i] # r[i - 1]} IN
        /\ Permuted(e[1], r) /\ e[2] = Cardinality(first) + 1
        /\ \A i \in first : e[1][Cardinality({j \in first : j <= i})] = r[i]
    /\ \A from, end, to \in 1..last(r) : from <= end /\ (to <= from \/ to >= end) =>
        LET moved == end - from IN
        /\ to + moved <= last(r) =>
              /\ Occurs(SubSeq(r, from, end - 1), copy(r, from, end, to), to)
              /\ \A p \in 1..n : p < to \/ p >= to + moved => copy(r, from, end, to)[p] = r[p]
        /\ to - moved >= 1 =>
              /\ Occurs(SubSeq(r, from, end - 1), copy_backward(r, from, end, to), to - moved)
              /\ \A p \in 1..n : p < to - moved \/ p >= to => copy_backward(r, from, end, to)[p] = r[p]

\* The algorithms whose result the two properties above state read and write as
\* they say; remove, reverse and search are left to the claims below.
RangesRight == ReadsRight /\ (other = <<>> => WritesRight)

-----------------------------------------------------------------------------
(* What comments say of every range, and the code does not do.             *)

\* reverse reverses the elements in the range (reverse.h:2).
ReverseReverses == reverse(range) = [p \in 1..Len(range) |-> range[last(range) - p]]

\* remove shifts the elements equal to the value to the tail, behind the position
\* it returns (remove.h:2, :15-18).
RemoveShifts ==
    \A v \in Item : LET e == remove(range, v) IN
        /\ Permuted(e[1], range)
        /\ \A p \in 1..Len(range) : p < e[2] <=> e[1][p] # v

\* search finds the first occurrence of the second range, or the end (search.h:2-8).
SearchFindsFirst ==
    other # <<>> =>
        LET hits == {p \in 1..Len(range) : Occurs(other, range, p)} IN
        search(range, other) =
            IF hits = {} THEN last(range) ELSE CHOOSE p \in hits : \A q \in hits : p <= q

===============================================================================
