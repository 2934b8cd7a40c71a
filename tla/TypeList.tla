------------------------------- MODULE TypeList -------------------------------
(***************************************************************************)
(* The type lists of zstl/typelist.h, and Tuple as one kind of them.       *)
(*                                                                         *)
(* A list is one of Typelist<...>, Valuelist<T, ...>, a chain of Cons      *)
(* cells or Tuple<...>.  Each algorithm is a recursion over Is_Empty,      *)
(* Front, Pop_Front and Push_Front, which are specialised for each kind.   *)
(* An element is a type of some size, or a wrapped value; elements of one  *)
(* size are told apart by a tag.  Instantiations that are ill-formed       *)
(* (Front of an empty list) are not applied.  The index lists of tuple.h   *)
(* serve Pick alone, which no element can be got through (:346 takes the   *)
(* tuple const, Get :212 does not): they are left out.                     *)
(***************************************************************************)
EXTENDS Integers, Sequences, FiniteSets

CONSTANTS
    Sizes,      \* the sizes of the element types
    Tags,       \* tells apart elements of one size
    MaxLength   \* bound: how many elements a list has at most

ASSUME ListBounds == Sizes \subseteq Nat \ {0} /\ MaxLength \in Nat

VARIABLE list   \* the list the program has written

Kind == {"Typelist", "Valuelist", "Cons", "Tuple"}
Elem == [size : Sizes, tag : Tags]

Char == [size |-> 1, tag |-> "char"]
None == -1

------------------------------------------------------------------------------
(* What is specialised for each kind.                                      *)

ListOf(kind, elems) == [kind |-> kind, elems |-> elems]

Is_Empty(l) == l.elems = <<>>
Front(l) == Head(l.elems)
Pop_Front(l) == [l EXCEPT !.elems = Tail(@)]

\* Push_Front_ of a Tuple gives Tuple<Types..., Elem>.
Push_Front(l, x) ==
    [l EXCEPT !.elems = IF l.kind = "Tuple" THEN Append(@, x) ELSE <<x>> \o @]

\* Length_ has no specialisation for Tuple: the primary template says 0.
Length(l) == IF l.kind = "Tuple" THEN 0 ELSE Len(l.elems)

\* The packs append at once, Cons cells rebuild the chain.
RECURSIVE Push_Back(_, _)
Push_Back(l, x) ==
    IF l.kind # "Cons" THEN [l EXCEPT !.elems = Append(@, x)]
    ELSE IF Is_Empty(l) THEN Push_Front(l, x)
    ELSE Push_Front(Push_Back(Pop_Front(l), x), Front(l))

------------------------------------------------------------------------------
(* The algorithms.                                                         *)

\* Mutant: the front is pushed back to the front.
RECURSIVE ReverseNot(_)
ReverseNot(l) ==
    IF Is_Empty(l) THEN l ELSE Push_Front(ReverseNot(Pop_Front(l)), Front(l))

RECURSIVE Reverse(_)
Reverse(l) ==
    IF Is_Empty(l) THEN l ELSE Push_Back(Reverse(Pop_Front(l)), Front(l))

Back(l) == Front(Reverse(l))
Pop_Back(l) == Reverse(Pop_Front(Reverse(l)))

RECURSIVE Type_At(_, _)
Type_At(l, n) == IF n = 0 THEN Front(l) ELSE Type_At(Pop_Front(l), n - 1)

RECURSIVE Index_Of(_, _)
Index_Of(l, x) ==
    IF Is_Empty(l) THEN None
    ELSE IF Front(l) = x THEN 0
    ELSE LET rest == Index_Of(Pop_Front(l), x) IN
         IF rest = None THEN None ELSE 1 + rest

RECURSIVE Erase(_, _)
Erase(l, x) ==
    IF Is_Empty(l) THEN l
    ELSE IF Front(l) = x THEN Pop_Front(l)
    ELSE Push_Front(Erase(Pop_Front(l), x), Front(l))

RECURSIVE Erase_All(_, _)
Erase_All(l, x) ==
    IF Is_Empty(l) THEN l
    ELSE IF Front(l) = x THEN Erase_All(Pop_Front(l), x)
    ELSE Push_Front(Erase_All(Pop_Front(l), x), Front(l))

\* The tail holds its front once at most, so one erasure is enough.
RECURSIVE Unique(_)
Unique(l) ==
    IF Is_Empty(l) THEN l
    ELSE Push_Front(Erase(Unique(Pop_Front(l)), Front(l)), Front(l))

RECURSIVE Replace(_, _, _)
Replace(l, cur, rp) ==
    IF Is_Empty(l) THEN l
    ELSE IF Front(l) = cur THEN Push_Front(Pop_Front(l), rp)
    ELSE Push_Front(Replace(Pop_Front(l), cur, rp), Front(l))

\* A replaced front is looked at again: with rp = cur the template would be
\* its own base, which is ill-formed.
RECURSIVE Replace_All(_, _, _)
Replace_All(l, cur, rp) ==
    IF Is_Empty(l) THEN l
    ELSE IF Front(l) = cur THEN Replace_All(Push_Front(Pop_Front(l), rp), cur, rp)
    ELSE Push_Front(Replace_All(Pop_Front(l), cur, rp), Front(l))

\* char for the empty list, and of two types of one size the first.
RECURSIVE Largest_Type(_)
Largest_Type(l) ==
    IF Is_Empty(l) THEN Char
    ELSE LET rest == Largest_Type(Pop_Front(l)) IN
         IF Front(l).size < rest.size THEN rest ELSE Front(l)

\* The metafunctions a program gives to Transform and Accumulate: one wraps a
\* type, the other lists the types it has met.
Wrapped(x) == <<x>>
Meet(x, seen) == Append(seen, x)

\* Only the specialisation for Typelist has a member type.
Transform(l) == [l EXCEPT !.elems = [i \in 1..Len(@) |-> Wrapped(@[i])]]

RECURSIVE Accumulate(_, _)
Accumulate(l, init) ==
    IF Is_Empty(l) THEN init ELSE Accumulate(Pop_Front(l), Meet(Front(l), init))

\* Inserts x into a sorted list before the first element it is less than; the
\* comparison is that of the keys of the elements.
RECURSIVE Sorted(_, _, _)
Sorted(l, x, key) ==
    IF Is_Empty(l) THEN Push_Front(l, x)
    ELSE IF key[x] < key[Front(l)] THEN Push_Front(l, x)
    ELSE Push_Front(Sorted(Pop_Front(l), x, key), Front(l))

RECURSIVE Sort(_, _)
Sort(l, key) ==
    IF Is_Empty(l) THEN l ELSE Sorted(Sort(Pop_Front(l), key), Front(l), key)

------------------------------------------------------------------------------
(* The lists a program writes.                                             *)

ListInit == \E kind \in Kind : list = ListOf(kind, <<>>)

Write ==
    /\ Len(list.elems) < MaxLength
    /\ \E x \in Elem : list' = Push_Back(list, x)

------------------------------------------------------------------------------
(* Properties.                                                             *)

Where(s, x) == {i \in 1..Len(s) : s[i] = x}
First(I) == CHOOSE i \in I : \A j \in I : i <= j

\* The elements of s at the indices I, in order.
At(s, I) == [n \in 1..Cardinality(I) |->
                s[CHOOSE i \in I : Cardinality({j \in I : j <= i}) = n]]

BySize == [x \in Elem |-> x.size]

Ascending(s) == \A i, j \in 1..Len(s) : i < j => s[i].size <= s[j].size

\* The searches and edits of a list, each a recursion that takes the list apart
\* and puts it together again, give what the comments of typelist.h promise: the
\* first occurrence erased or replaced, all of them, the first of each kept
\* (:455-597).  On a Tuple, Push_Front appends, and they are not claimed.
EditsRight ==
    LET s == list.elems  n == Len(s) IN
    /\ Reverse(list).elems = [i \in 1..n |-> s[n + 1 - i]]
    /\ n > 0 => Back(list) = s[n] /\ Pop_Back(list).elems = SubSeq(s, 1, n - 1)
    /\ \A x \in Elem : Index_Of(list, x) =
            IF Where(s, x) = {} THEN None ELSE First(Where(s, x)) - 1
    /\ \A i \in 1..n : Type_At(list, i - 1) = s[i]
    /\ list.kind # "Tuple" => \A x \in Elem :
        /\ Erase(list, x).elems =
               IF Where(s, x) = {} THEN s ELSE At(s, (1..n) \ {First(Where(s, x))})
        /\ Erase_All(list, x).elems = At(s, (1..n) \ Where(s, x))
        /\ Unique(list).elems = At(s, {i \in 1..n : First(Where(s, s[i])) = i})
        /\ \A y \in Elem \ {x} :
            /\ Replace(list, x, y).elems =
                   [i \in 1..n |-> IF s[i] = x /\ First(Where(s, x)) = i THEN y ELSE s[i]]
            /\ Replace_All(list, x, y).elems = [i \in 1..n |-> IF s[i] = x THEN y ELSE s[i]]

\* Sort (typelist.h:716-789) gives the elements of the list in ascending order,
\* each as often as it is there; of elements that compare equal nothing is said.
\* Folding meets the elements from the first to the last; the largest type is the
\* first of the largest.
OrdersRight ==
    LET s == list.elems  n == Len(s) IN
    /\ list.kind # "Tuple" => LET r == Sort(list, BySize).elems IN
        /\ Ascending(r)
        /\ \A x \in Elem : Cardinality(Where(r, x)) = Cardinality(Where(s, x))
    /\ Accumulate(list, <<>>) = s
    /\ n > 0 => LET m == Largest_Type(list) IN
        /\ \E i \in 1..n : s[i] = m
        /\ \A i \in 1..n : s[i].size <= m.size
        /\ \A i \in 1..n : s[i].size = m.size => First(Where(s, m)) <= i
    /\ list.kind = "Typelist" => Transform(list).elems = [i \in 1..n |-> <<s[i]>>]

\* A type list is searched, edited, sorted and folded as its elements are.
ListsRight == EditsRight /\ OrdersRight

------------------------------------------------------------------------------
(* What comments say of every kind of list, and the code does not do.      *)

\* Push_Front puts the element before the others (typelist.h:250).
PushFrontFirst ==
    \A kind \in Kind, x \in Elem : Front(Push_Front(ListOf(kind, list.elems), x)) = x

\* Sorted inserts an element into a sorted list at the first place that keeps it
\* sorted (typelist.h:733), in front of those that compare equal.
SortedFirstPoint ==
    LET s == list.elems  before(x) == {i \in 1..Len(s) : s[i].size < x.size} IN
    Ascending(s) => \A kind \in Kind \ {"Tuple"}, x \in Elem :
        Sorted(ListOf(kind, s), x, BySize).elems =
            At(s, before(x)) \o <<x>> \o At(s, (1..Len(s)) \ before(x))

===============================================================================
