-------------------------------- MODULE Vector --------------------------------
(***************************************************************************)
(* zstl::Vector (vector.h): elements in the first cells of a buffer, the   *)
(* others raw memory.  Each member is an operator from the state of a      *)
(* vector to the next one, made of the loops of stl_uninitialized.h and    *)
(* stl_algobase.h, element by element: sources and destinations overlap.   *)
(*                                                                         *)
(* The element type has a move constructor that does not throw and leaves  *)
(* its source without a value, and a copy constructor that may throw: t is *)
(* how many copies a call makes before one throws.                         *)
(***************************************************************************)
EXTENDS Naturals, Sequences

CONSTANTS
    Val,       \* the values of elements
    Raw,       \* a cell with no object in it
    Moved,     \* a cell with an object that has been moved from
    MaxCapa    \* bound: the largest buffer the allocator can give

ASSUME Cells == Raw \notin Val /\ Moved \notin Val /\ Raw # Moved /\ MaxCapa \in Nat

VARIABLE
    vec        \* the buffer's cells; last, how many cells are elements; threw,
               \* whether the last call ended by an exception; defined, whether
               \* no cell was used against its state so far

vars == <<vec>>

Capacity(s) == Len(s.cell)
Elems(s) == SubSeq(s.cell, 1, s.last)

Empty == [cell |-> <<>>, last |-> 0, threw |-> FALSE, defined |-> TRUE]

\* Vector(n, val) and Vector()
Filled(n, v) == [Empty EXCEPT !.cell = [i \in 1..n |-> v], !.last = n]
Init == vec = Empty \/ \E n \in 1..MaxCapa, v \in Val : vec = Filled(n, v)

------------------------------------------------------------------------------
(* Objects in cells.                                                       *)

Get(s, i) == IF i \in DOMAIN s.cell THEN s.cell[i] ELSE Raw
Put(s, i, v) == IF i \in DOMAIN s.cell THEN [s EXCEPT !.cell[i] = v]
                ELSE [s EXCEPT !.defined = FALSE]
Check(s, ok) == [s EXCEPT !.defined = @ /\ ok]

\* Assignment and destruction need an object; moving leaves an empty one behind.
Assign(s, i, v) == Check(Put(s, i, v), Get(s, i) # Raw)
Destroy(s, i) == Check(Put(s, i, Raw), Get(s, i) # Raw)
MoveConstruct(s, j, i) ==
    LET v == Get(s, j) IN
    Check(Put(Put(s, i, v), j, IF v = Raw THEN Raw ELSE Moved), v # Raw)
MoveAssign(s, j, i) == Check(MoveConstruct(s, j, i), Get(s, i) # Raw)

\* n iterations of a loop, the k-th with k.
Loop(s, n, Body(_, _)) ==
    LET after[k \in 0..n] == IF k = 0 THEN s ELSE Body(after[k - 1], k) IN after[n]

\* The n cells after the first i, to the cells after the first j.
uninitialized_move(s, i, n, j) == Loop(s, n, LAMBDA x, k : MoveConstruct(x, i + k, j + k))

copy(s, i, n, j) == Loop(s, n, LAMBDA x, k : MoveAssign(x, i + k, j + k))

\* Mutant: from the first to the last, over elements not yet moved.
CopyForward(s, i, n, end) == copy(s, i, n, end - n)

\* The n cells after the first i, last one first, so that they end at end.
copy_backward(s, i, n, end) ==
    Loop(s, n, LAMBDA x, k : MoveAssign(x, i + n + 1 - k, end + 1 - k))

fill_n(s, i, n, v) == Loop(s, n, LAMBDA x, k : Assign(x, i + k, v))
uninitialized_fill_n(s, i, n, v) == Loop(s, n, LAMBDA x, k : Put(x, i + k, v))
destroy(s, i, n) == Loop(s, n, LAMBDA x, k : Destroy(x, i + k))

\* Copies of the values w.
copy_in(s, w, i) == Loop(s, Len(w), LAMBDA x, k : Assign(x, i + k, w[k]))
uninitialized_copy(s, w, i) == Loop(s, Len(w), LAMBDA x, k : Put(x, i + k, w[k]))

Threw(s) == [s EXCEPT !.threw = TRUE]

------------------------------------------------------------------------------
(* Members that leave a vector whole.                                      *)

\* Mutant: the buffer grows by what is needed, so n insertions are quadratic.
NewCapacityAdds(s, len) == Capacity(s) + len

getNewCapacity(s, len) == Capacity(s) + IF len > Capacity(s) THEN len ELSE Capacity(s)

\* Elements w in a new buffer of n cells.
Buffer(w, n) == [i \in 1..n |-> IF i <= Len(w) THEN w[i] ELSE Raw]

reserve(s, n) ==
    IF n > Capacity(s) THEN [s EXCEPT !.cell = Buffer(Elems(s), n)] ELSE s

emplace_back(s, v, t) ==
    LET r == IF s.last < Capacity(s) THEN s ELSE reserve(s, getNewCapacity(s, 1)) IN
    IF t = 0 THEN Threw(r) ELSE [Put(r, r.last + 1, v) EXCEPT !.last = @ + 1]

\* One constructor throws, the buffer is freed, and the members are set to it
\* all the same: the exception is caught and goes no further.
expandAndEmplace(s, i, v, t) ==
    LET n == getNewCapacity(s, 1) IN
    IF t = 0
    THEN [s EXCEPT !.cell = Buffer(<<>>, n), !.last = @ + 1, !.defined = FALSE]
    ELSE [s EXCEPT !.last = @ + 1,
            !.cell = Buffer(SubSeq(Elems(s), 1, i) \o <<v>>
                              \o SubSeq(Elems(s), i + 1, s.last), n)]

\* emplace(position, args) at offset i; the new element replaces one moved from.
emplace(s, i, v, t) ==
    LET back == MoveConstruct(s, s.last, s.last + 1)
        open == copy_backward(back, i, s.last - 1 - i, s.last)
    IN
    IF s.last >= Capacity(s) THEN expandAndEmplace(s, i, v, t)
    ELSE IF i = s.last THEN emplace_back(s, v, t)
    ELSE IF t = 0 THEN Threw(open)
    ELSE [Assign(open, i + 1, v) EXCEPT !.last = @ + 1]

\* Mutant: the element moved from at the end is left there.
EraseKeepsLast(s, i) ==
    [copy(s, i + 1, s.last - 1 - i, i) EXCEPT !.last = @ - 1]

\* erase(position)
erase(s, i) ==
    LET shut == copy(s, i + 1, s.last - 1 - i, i) IN
    Destroy([shut EXCEPT !.last = @ - 1], s.last)

\* insert(position, n, x)
insertFillNAux(s, i, n, v, t) ==
    LET e     == s.last - i
        room  == Capacity(s) - s.last >= n
        tail  == uninitialized_move(s, i, e, i + n)
        apart == copy_backward(uninitialized_move(s, s.last - n, n, s.last),
                               i, e - n, i + n)
    IN
    CASE n = 0 -> s
      [] n > 0 /\ room /\ e <= n ->
            IF t < e THEN Threw(fill_n(tail, i, t, v))
            ELSE IF t < n THEN Threw(fill_n(tail, i, e, v))
            ELSE [uninitialized_fill_n(fill_n(tail, i, e, v), s.last, n - e, v)
                    EXCEPT !.last = @ + n]
      [] n > 0 /\ room /\ e > n ->
            IF t < n THEN Threw(fill_n(apart, i, t, v))
            ELSE [fill_n(apart, i, n, v) EXCEPT !.last = @ + n]
      [] n > 0 /\ ~room ->
            IF t < n THEN Threw([s EXCEPT !.cell =
                            [k \in DOMAIN @ |-> IF k <= i THEN Moved ELSE @[k]]])
            ELSE [s EXCEPT !.last = @ + n,
                    !.cell = Buffer(SubSeq(Elems(s), 1, i) \o [k \in 1..n |-> v]
                                      \o SubSeq(Elems(s), i + 1, s.last),
                                    getNewCapacity(s, n))]

\* insert(position, x)
insertAux(s, i, v, t) ==
    LET back == MoveConstruct(s, s.last, s.last + 1)
        open == [copy_backward(back, i, IF i < s.last THEN s.last - 1 - i ELSE 0, s.last)
                   EXCEPT !.last = @ + 1]
    IN
    IF s.last >= Capacity(s) THEN insertFillNAux(s, i, 1, v, t)
    ELSE IF t = 0 THEN Threw(open)
    ELSE Assign(open, i + 1, v)

\* insert(position, first, last), whose values are w; the elements past the old
\* end are constructed at begin() + eles_after_pos.
insertRangeAux(s, i, w, t) ==
    LET n     == Len(w)
        e     == s.last - i
        room  == Capacity(s) - s.last >= n
        tail  == uninitialized_move(s, i, e, i + n)
        apart == copy_backward(uninitialized_move(s, s.last - n, n, s.last),
                               i, e - n, i + n)
        first(k) == SubSeq(w, 1, k)
    IN
    CASE n = 0 -> s
      [] n > 0 /\ room /\ e <= n ->
            IF t < e THEN Threw(copy_in(tail, first(t), i))
            ELSE IF t < n THEN Threw(copy_in(tail, first(e), i))
            ELSE [uninitialized_copy(copy_in(tail, first(e), i), SubSeq(w, e + 1, n), e)
                    EXCEPT !.last = @ + n]
      [] n > 0 /\ room /\ e > n ->
            IF t < n THEN Threw(copy_in(apart, first(t), i))
            ELSE [copy_in(apart, w, i) EXCEPT !.last = @ + n]
      [] n > 0 /\ ~room ->
            IF t < n THEN Threw([s EXCEPT !.cell =
                            [k \in DOMAIN @ |-> IF k <= i THEN Moved ELSE @[k]]])
            ELSE [s EXCEPT !.last = @ + n,
                    !.cell = Buffer(SubSeq(Elems(s), 1, i) \o w
                                      \o SubSeq(Elems(s), i + 1, s.last),
                                    getNewCapacity(s, n))]

\* erase(first, last) of the elements from offset i to j: the tail is moved down,
\* what is left over is destroyed, and last_ stays.
eraseRange(s, i, j) ==
    LET shut == copy(s, j, s.last - j, i) IN destroy(shut, i + s.last - j, j - i)

\* resize(sz, c)
resize(s, n, v, t) ==
    IF n < s.last THEN eraseRange(s, n, s.last)
    ELSE insertFillNAux(s, s.last, n - s.last, v, t)

clear(s) == eraseRange(s, 0, s.last)

assign(s, n, v, t) == insertFillNAux(clear(s), 0, n, v, t)

assignRange(s, w, t) == insertRangeAux(clear(s), 0, w, t)

\* operator=(Vector const&) of a vector with the elements w.
copyAssign(s, w, t) ==
    LET n == Len(w)  k == IF t < n THEN t ELSE n IN
    IF n >= Capacity(s) THEN
        IF t < n THEN Threw(s) ELSE [s EXCEPT !.cell = w, !.last = n]
    ELSE IF n <= s.last THEN
        LET over == copy_in(s, SubSeq(w, 1, k), 0) IN
        IF t < n THEN Threw(over)
        ELSE destroy([over EXCEPT !.last = n], n, s.last - n)
    ELSE
        LET over == copy_in(s, SubSeq(w, 1, IF k < s.last THEN k ELSE s.last), 0) IN
        IF t < n THEN Threw(over)
        ELSE [uninitialized_copy(over, SubSeq(w, s.last + 1, n), s.last) EXCEPT !.last = n]

shrink_to_fit(s) == [s EXCEPT !.cell = Elems(s)]

------------------------------------------------------------------------------
(* Calls.                                                                  *)

now == [vec EXCEPT !.threw = FALSE]

\* The call gives r; if r needs a larger buffer than there is, the allocator has
\* thrown instead, before anything was changed.
Call(r) == vec' = IF Capacity(r) <= MaxCapa THEN r ELSE Threw(now)

Never == MaxCapa + 1     \* no copy throws
Copies == 0..Never
Offset == 0..vec.last
Source == UNION {[1..n -> Val] : n \in 0..MaxCapa}

EmplaceBack(v, t)      == Call(emplace_back(now, v, t))
Emplace(i, v, t)       == Call(emplace(now, i, v, t))
Insert(i, v, t)        == Call(insertAux(now, i, v, t))
InsertFill(i, n, v, t) == Call(insertFillNAux(now, i, n, v, t))
InsertRange(i, w, t)   == Call(insertRangeAux(now, i, w, t))
Erase(i)               == i < vec.last /\ Call(erase(now, i))
EraseRange(i, j)       == i <= j /\ Call(eraseRange(now, i, j))
Resize(n, v, t)        == Call(resize(now, n, v, t))
Reserve(n)             == Call(reserve(now, n))
CopyAssign(w, t)       == Call(copyAssign(now, w, t))
ShrinkToFit            == Call(shrink_to_fit(now))
Clear                  == Call(clear(now))
AssignFill(n, v, t)    == Call(assign(now, n, v, t))
AssignRange(w, t)      == Call(assignRange(now, w, t))

\* All calls.  Once a cell was used against its state the program may do anything.
Next ==
    /\ vec.defined
    /\ \/ \E v \in Val, t \in {0, Never} :
            \/ EmplaceBack(v, t)
            \/ \E i \in Offset : Emplace(i, v, t) \/ Insert(i, v, t)
       \/ \E v \in Val, t \in Copies, n \in 0..MaxCapa :
            \/ \E i \in Offset : InsertFill(i, n, v, t)
            \/ Resize(n, v, t)
            \/ AssignFill(n, v, t)
       \/ \E w \in Source, t \in Copies :
            \/ \E i \in Offset : InsertRange(i, w, t)
            \/ CopyAssign(w, t)
            \/ AssignRange(w, t)
       \/ \E i, j \in Offset : EraseRange(i, j)
       \/ \E i \in Offset : Erase(i)
       \/ \E n \in 0..MaxCapa : Reserve(n)
       \/ ShrinkToFit
       \/ Clear

Spec == Init /\ [][Next]_vars

\* An insertion of n elements at offset i goes right if no element has to move
\* into the gap of another, or all move to a new buffer; a constructor that throws
\* finds nothing moved yet.
Fits(n) == Capacity(vec) - vec.last >= n
GoesRight(i, n, t) ==
    /\ Fits(n) => vec.last - i <= n
    /\ t # Never => IF Fits(n) THEN i = vec.last ELSE i = 0

SafeInsert(i, v) == (Fits(1) => i < vec.last) /\ Insert(i, v, Never)
SafeFill(i, n, v, t) == GoesRight(i, n, t) /\ InsertFill(i, n, v, t)
SafeRange(i, w, t) == GoesRight(i, Len(w), t) /\ (Fits(Len(w)) => i = 0) /\ InsertRange(i, w, t)
SafeResize(n, v, t) ==
    n >= vec.last /\ GoesRight(vec.last, n - vec.last, t) /\ Resize(n, v, t)

\* The calls that keep a vector whole.
SoundNext ==
    \/ \E v \in Val, t \in {0, Never} : EmplaceBack(v, t)
    \/ \E v \in Val, i \in Offset : Emplace(i, v, Never) \/ SafeInsert(i, v)
    \/ \E v \in Val, t \in Copies, n \in 0..MaxCapa, i \in Offset : SafeFill(i, n, v, t)
    \/ \E v \in Val, t \in Copies, n \in 0..MaxCapa : SafeResize(n, v, t)
    \/ \E w \in Source, t \in Copies, i \in Offset : SafeRange(i, w, t)
    \/ \E w \in Source, t \in Copies : CopyAssign(w, t)
    \/ \E i \in Offset : Erase(i)
    \/ \E n \in 0..MaxCapa : Reserve(n)
    \/ ShrinkToFit

SoundSpec == Init /\ [][SoundNext]_vars

------------------------------------------------------------------------------
(* Properties.                                                             *)

TypeOK ==
    /\ vec.cell \in Seq(Val \cup {Raw, Moved}) /\ Capacity(vec) <= MaxCapa
    /\ vec.last \in 0..Capacity(vec)
    /\ vec.threw \in BOOLEAN /\ vec.defined \in BOOLEAN

\* Exactly the cells up to last_ hold objects, each with its value, whatever
\* overlap the moves had and wherever a constructor threw; no loop read, assigned
\* or destroyed a cell without an object (vector.h:490-500, 532-557, 633-759,
\* 811-826).
Whole ==
    /\ TypeOK
    /\ \A i \in 1..Capacity(vec) : IF i <= vec.last THEN vec.cell[i] \in Val
                                                    ELSE vec.cell[i] = Raw
    /\ vec.defined

Replaced(i, j, w) ==
    SubSeq(Elems(vec), 1, i) \o w \o SubSeq(Elems(vec), j + 1, vec.last)

\* What a call does to the sequence of elements w, if it leaves x.
CallExact ==
    LET w == Elems(vec)  x == Elems(vec') IN
    IF vec'.threw
    THEN \/ x = w
         \/ \E u \in Source, t \in Copies :
                /\ CopyAssign(u, t) /\ Len(x) = Len(w)
                /\ \A k \in DOMAIN x : x[k] = w[k] \/ x[k] = u[k]
    ELSE /\ \A v \in Val :
            /\ EmplaceBack(v, Never) => x = Append(w, v)
            /\ \A i \in Offset :
                    Emplace(i, v, Never) \/ SafeInsert(i, v) => x = Replaced(i, i, <<v>>)
            /\ \A n \in 0..MaxCapa :
                LET vs == [k \in 1..n |-> v] IN
                /\ \A i \in Offset : SafeFill(i, n, v, Never) => x = Replaced(i, i, vs)
                /\ SafeResize(n, v, Never) => x = w \o SubSeq(vs, 1, n - vec.last)
         /\ \A u \in Source :
            /\ \A i \in Offset : SafeRange(i, u, Never) => x = Replaced(i, i, u)
            /\ CopyAssign(u, Never) => x = u
         /\ \A i \in Offset : Erase(i) => x = Replaced(i, i + 1, <<>>)
         /\ \A n \in 0..MaxCapa : Reserve(n) => x = w
         /\ ShrinkToFit => x = w

\* A call that returns has on the sequence of elements the effect of its name, at
\* the position it was given, and one that throws leaves the elements as they
\* were; operator= leaves as many, each the old one or the one to be copied.
CallsExact == [][CallExact]_vars

\* When a call may exchange the buffer, and for which.
GrowthStep ==
    Capacity(vec') # Capacity(vec) =>
        \/ \E n \in 0..MaxCapa : Reserve(n) /\ Capacity(vec') = n /\ n > Capacity(vec)
        \/ ShrinkToFit /\ Capacity(vec') = vec.last
        \/ \E u \in Source, t \in Copies : CopyAssign(u, t) /\ Capacity(vec') = Len(u)
        \/ /\ Capacity(vec') >= 2 * Capacity(vec)
           /\ Capacity(vec) < IF vec'.threw THEN vec.last + 1 ELSE vec'.last

\* A buffer is exchanged only when the elements do not fit, so iterators stay
\* valid as long as there is capacity, and it then at least doubles, so that
\* push_back is amortized; only reserve, shrink_to_fit and operator= set the
\* capacity they were asked for (vector.h:474-518, 851-866).
Growth == [][GrowthStep]_vars

==============================================================================
