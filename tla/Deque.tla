-------------------------------- MODULE Deque --------------------------------
(***************************************************************************)
(* zstl/deque.h: a map of pointers to buffers and two iterators into it.   *)
(* The map is a function on 0 .. map_size - 1; `node` is an index of it    *)
(* and `cur` an offset in the buffer found there.  An entry of the map     *)
(* outside of start.node .. finish.node is Nil (create_map) or Stale: it   *)
(* was never written, or a buffer that is freed or has moved in the map is *)
(* still in it.  A deque whose map is null, because it has been destroyed  *)
(* or moved from, is Nil.                                                  *)
(*                                                                         *)
(* Modelled are the members that compile, with an allocator of static      *)
(* members; const_iterator does not, nor whatever takes or makes one.      *)
(***************************************************************************)
EXTENDS Integers, Sequences, FiniteSets, FiniteSetsExt, SequencesExt

CONSTANTS Deque,     \* the objects
          Buffer,    \* addresses of buffers
          Val,       \* values of elements
          Widths,    \* elements in a buffer: deque_buffer_size of the element types
          MapInit,   \* DEQUEUE_MAP_INIT_SIZE
          Nil, Stale, Raw

ASSUME Sizes == Widths \subseteq Nat \ {0} /\ MapInit \in Nat

VARIABLES
    deq,           \* the members of each deque
    mem,           \* the cells of each buffer, Nil when it is not allocated
    buffer_size,   \* of the element type of this program
    defined        \* no cell or pointer was used against its state

vars == <<deq, mem, buffer_size, defined>>

------------------------------------------------------------------------------
(* Iterators.                                                              *)

At(n, c) == [node |-> n, cur |-> c]

\* operator++ and --
Incr(it) == IF it.cur + 1 = buffer_size THEN At(it.node + 1, 0) ELSE At(it.node, it.cur + 1)
Decr(it) == IF it.cur = 0 THEN At(it.node - 1, buffer_size - 1) ELSE At(it.node, it.cur - 1)

\* Mutant: the offset to the left is not rounded away from zero.
PlusRounds(it, distance) ==
    LET offset == it.cur + distance
        node_offset == IF offset > 0 THEN offset \div buffer_size
                       ELSE -((-offset) \div buffer_size) - 1
    IN
    IF offset \in 0..buffer_size - 1 THEN At(it.node, it.cur + distance)
    ELSE At(it.node + node_offset, offset - node_offset * buffer_size)

\* operator+=, whose division truncates toward zero: n \div d of natural numbers.
Plus(it, distance) ==
    LET offset == it.cur + distance
        node_offset == IF offset > 0 THEN offset \div buffer_size
                       ELSE -((-offset - 1) \div buffer_size) - 1
    IN
    IF offset \in 0..buffer_size - 1 THEN At(it.node, it.cur + distance)
    ELSE At(it.node + node_offset, offset - node_offset * buffer_size)

Minus(a, b) == buffer_size * (a.node - b.node - 1) + a.cur + (buffer_size - b.cur)
Less(a, b)  == IF a.node = b.node THEN a.cur < b.cur ELSE a.node < b.node

Size(d)  == Minus(deq[d].finish, deq[d].start)
Empty(d) == deq[d].start = deq[d].finish

------------------------------------------------------------------------------
(* The map.                                                                *)

Window(q) == q.start.node .. q.finish.node
MapSize(map) == Cardinality(DOMAIN map)
MaxOf(a, b) == IF a > b THEN a ELSE b

\* create_map, and create_buffer for the entries from n to n + Len(bs) - 1.
NewMap(size, n, bs) ==
    [k \in 0..size - 1 |-> IF k \in n .. n + Len(bs) - 1 THEN bs[k - n + 1] ELSE Nil]

\* map_init: the numNode buffers are bs.
map_init(numElem, bs) ==
    LET numNode == numElem \div buffer_size + 1
        size    == MaxOf(MapInit, numNode + 2)
        start_  == (size - numNode) \div 2
    IN  [map    |-> NewMap(size, start_, bs),
         start  |-> At(start_, 0),
         finish |-> At(start_ + numNode - 1, numElem % buffer_size)]

\* reallocate_map, which no member calls for more than one node: the window moves
\* to the middle, in the same map if that stays less than half full.
NeedsMap(q) == MapSize(q.map) <= 2 * (Cardinality(Window(q)) + 1)

reallocate_map(q, isFront) ==
    LET old_node == Cardinality(Window(q))
        new_node == old_node + 1
        size     == MapSize(q.map)
        grown    == IF NeedsMap(q) THEN size + MaxOf(size, 1) + 2 ELSE size
        start_   == (grown - new_node) \div 2 + (IF isFront THEN 1 ELSE 0)
        moved    == start_ .. start_ + old_node - 1
        rest(k)  == IF grown = size /\ k \notin Window(q) THEN q.map[k] ELSE Stale
    IN  [map    |-> [k \in 0..grown - 1 |->
                        IF k \in moved THEN q.map[q.start.node + k - start_] ELSE rest(k)],
         start  |-> At(start_, q.start.cur),
         finish |-> At(start_ + old_node - 1, q.finish.cur)]

FullBack(q)  == 1 > MapSize(q.map) - (q.finish.node + 1)
FullFront(q) == 1 > q.start.node

reserve_map_back(q)  == IF FullBack(q) THEN reallocate_map(q, FALSE) ELSE q
reserve_map_front(q) == IF FullFront(q) THEN reallocate_map(q, TRUE) ELSE q

------------------------------------------------------------------------------
(* Insertion.                                                              *)

Result(d, q, m, ok) ==
    /\ deq' = [deq EXCEPT ![d] = q]
    /\ mem' = m
    /\ defined' = ok
    /\ UNCHANGED buffer_size

RawBuffer == [c \in 0..buffer_size - 1 |-> Raw]
Unused    == {b \in Buffer : mem[b] = Nil}
Entry(q, it)        == q.map[it.node]
Store(m, q, it, v)  == [m EXCEPT ![Entry(q, it)][it.cur] = v]
Allocate(m, b)      == [m EXCEPT ![b] = RawBuffer]
Deallocate(m, b)    == [m EXCEPT ![b] = Nil]
Put(q, n, p)        == [q EXCEPT !.map[n] = p]

\* A cell is constructed when it is raw, and destroyed when it is not.
IsRaw(m, q, it) == m[Entry(q, it)][it.cur] = Raw

\* push_back(val), emplace_back(args).  The last cell of a buffer is filled only
\* when the next one has been allocated.
AtLastCell(q) == q.finish.cur + 1 = buffer_size

PushBack(d, v) ==
    LET q == deq[d]  r == reserve_map_back(q)  next == r.finish.node + 1 IN
    /\ q # Nil
    /\ \/ /\ ~AtLastCell(q)
          /\ Result(d, [q EXCEPT !.finish.cur = @ + 1], Store(mem, q, q.finish, v),
                    IsRaw(mem, q, q.finish))
       \/ /\ AtLastCell(q)
          /\ \E b \in Unused :
                Result(d, [Put(r, next, b) EXCEPT !.finish = At(next, 0)],
                       Store(Allocate(mem, b), r, r.finish, v), IsRaw(mem, r, r.finish))

AtFirstCell(q) == q.start.cur = 0

\* Mutant: start is at the first cell of the new buffer.
PushFrontFirst(d, v) ==
    LET q == deq[d]  r == reserve_map_front(q)  prev == r.start.node - 1  at == Decr(q.start) IN
    /\ q # Nil
    /\ \/ /\ ~AtFirstCell(q)
          /\ Result(d, [q EXCEPT !.start = at], Store(mem, q, at, v), IsRaw(mem, q, at))
       \/ /\ AtFirstCell(q)
          /\ \E b \in Unused :
                Result(d, [Put(r, prev, b) EXCEPT !.start = At(prev, 0)],
                       [Allocate(mem, b) EXCEPT ![b][0] = v], TRUE)

\* push_front(val), emplace_front(args).

PushFront(d, v) ==
    LET q == deq[d]  r == reserve_map_front(q)  prev == r.start.node - 1  at == Decr(q.start) IN
    /\ q # Nil
    /\ \/ /\ ~AtFirstCell(q)
          /\ Result(d, [q EXCEPT !.start = at], Store(mem, q, at, v), IsRaw(mem, q, at))
       \/ /\ AtFirstCell(q)
          /\ \E b \in Unused :
                Result(d, [Put(r, prev, b) EXCEPT !.start = At(prev, buffer_size - 1)],
                       [Allocate(mem, b) EXCEPT ![b][buffer_size - 1] = v], TRUE)

\* push_back throws in push_back_aux: the map or the buffer could not be allocated,
\* and the handler frees whatever the entry of the new buffer holds; or the element
\* could not be constructed, and it frees the new buffer.  (emplace_back swallows the
\* last two.)  With room in the buffer it leaves an element that was not constructed;
\* that is not modelled.
PushBackThrows(d, fails) ==
    LET q == deq[d]  r == reserve_map_back(q)  next == r.finish.node + 1 IN
    /\ q # Nil /\ AtLastCell(q)
    /\ \/ fails = "map" /\ FullBack(q) /\ NeedsMap(q) /\ UNCHANGED vars
       \/ fails = "buffer" /\ Result(d, Put(r, next, Stale), mem, r.map[next] = Nil)
       \/ fails = "element" /\ Unused # {} /\ Result(d, Put(r, next, Stale), mem, TRUE)

\* push_front throws: with room it has changed nothing, in push_front_aux the
\* handler moves start back and frees the new buffer.  That it also does so when no
\* buffer could be allocated, and what emplace_front does, is not modelled.
PushFrontThrows(d, fails) ==
    LET q == deq[d]  r == reserve_map_front(q)  prev == r.start.node - 1 IN
    /\ q # Nil
    /\ \/ fails = "element" /\ ~AtFirstCell(q) /\ UNCHANGED vars
       \/ fails = "map" /\ AtFirstCell(q) /\ FullFront(q) /\ NeedsMap(q) /\ UNCHANGED vars
       \/ /\ fails = "element" /\ AtFirstCell(q) /\ Unused # {}
          /\ Result(d, Put(r, prev, Stale), mem, TRUE)

------------------------------------------------------------------------------
(* Removal.                                                                *)

\* Mutant: the last buffer is kept when it is left.
PopBackKeeps(s) ==
    LET q == s.q  at == Decr(q.finish) IN
    [q |-> [q EXCEPT !.finish = at], m |-> Store(s.m, q, at, Raw), ok |-> s.ok]

\* pop_back from a state of a deque; an entry keeps the pointer to a buffer freed.
Popped(s) ==
    LET q == s.q  at == Decr(q.finish) IN
    [q  |-> IF q.finish.cur # 0 THEN [q EXCEPT !.finish = at]
            ELSE [Put(q, q.finish.node, Stale) EXCEPT !.finish = at],
     m  |-> Store(IF q.finish.cur # 0 THEN s.m
                  ELSE Deallocate(s.m, Entry(q, q.finish)), q, at, Raw),
     ok |-> s.ok /\ ~IsRaw(s.m, q, at)]

PopBack(d) ==
    /\ deq[d] # Nil /\ ~Empty(d)
    /\ LET s == Popped([q |-> deq[d], m |-> mem, ok |-> TRUE]) IN Result(d, s.q, s.m, s.ok)

PopFront(d) ==
    LET q == deq[d]  at == q.start  cell == Store(mem, q, at, Raw) IN
    /\ q # Nil /\ ~Empty(d)
    /\ IF at.cur # buffer_size - 1
       THEN Result(d, [q EXCEPT !.start = Incr(at)], cell, ~IsRaw(mem, q, at))
       ELSE Result(d, [Put(q, at.node, Stale) EXCEPT !.start = Incr(at)],
                   Deallocate(mem, Entry(q, at)), ~IsRaw(mem, q, at))

\* clear(): pop_back until it is empty.
Cleared(d) ==
    LET pop[n \in 0..Size(d)] ==
            IF n = 0 THEN [q |-> deq[d], m |-> mem, ok |-> TRUE] ELSE Popped(pop[n - 1])
    IN  pop[Size(d)]

Clear(d) ==
    /\ deq[d] # Nil
    /\ LET s == Cleared(d) IN Result(d, [s.q EXCEPT !.start = s.q.finish], s.m, s.ok)

\* The destructor's work: what it leaves in mem.
Released(d) ==
    IF deq[d] = Nil THEN mem
    ELSE LET s == Cleared(d) IN Deallocate(s.m, Entry(s.q, s.q.start))

Destroy(d) == deq[d] # Nil /\ Result(d, Nil, Released(d), defined)

------------------------------------------------------------------------------
(* Construction, swap and move.                                            *)

\* deque(n, val), deque(): map_init and fill_init.  Which of the new buffers comes
\* first makes no difference.
Construct(d, n, v) ==
    /\ deq[d] = Nil
    /\ \E bs \in {SetToSeq(S) : S \in kSubset(n \div buffer_size + 1, Unused)} :
        LET full(i) == IF i = Len(bs) THEN n % buffer_size ELSE buffer_size IN
        Result(d, map_init(n, bs),
               [b \in Buffer |->
                    IF Contains(bs, b)
                    THEN [c \in 0..buffer_size - 1 |->
                            IF c < full(CHOOSE i \in DOMAIN bs : bs[i] = b) THEN v ELSE Raw]
                    ELSE mem[b]], TRUE)

\* swap of two deques.
Swap(d, e) ==
    /\ deq' = [deq EXCEPT ![d] = deq[e], ![e] = deq[d]]
    /\ UNCHANGED <<mem, buffer_size, defined>>

\* deque(deque&&) when d is Nil, operator=(deque&&) otherwise.
Move(d, e) ==
    /\ deq[e] # Nil
    /\ deq' = IF d = e THEN [deq EXCEPT ![d] = Nil]
              ELSE [deq EXCEPT ![d] = deq[e], ![e] = Nil]
    /\ mem' = Released(d)
    /\ UNCHANGED <<buffer_size, defined>>

------------------------------------------------------------------------------
(* Programs.                                                               *)

Init ==
    /\ deq = [d \in Deque |-> Nil]
    /\ mem = [b \in Buffer |-> Nil]
    /\ buffer_size \in Widths
    /\ defined = TRUE

Fails == {"map", "buffer", "element"}

\* push_back survives a buffer that cannot be allocated only if the entry for it
\* is null.
EntryNull(d) ==
    LET r == reserve_map_back(deq[d]) IN r.map[r.finish.node + 1] = Nil

Throws(d) ==
    \E fails \in Fails :
        \/ /\ fails = "buffer" => deq[d] # Nil /\ AtLastCell(deq[d]) /\ EntryNull(d)
           /\ PushBackThrows(d, fails)
        \/ PushFrontThrows(d, fails)

Next ==
    \/ \E d \in Deque :
        \/ \E v \in Val : PushBack(d, v) \/ PushFront(d, v)
        \/ Throws(d)
        \/ PopBack(d)
        \/ PopFront(d)
        \/ Clear(d)
        \/ Destroy(d)
    \/ \E d \in Deque, v \in Val : \E n \in 0 .. 2 * buffer_size : Construct(d, n, v)
    \/ \E d, e \in Deque : d # e /\ Swap(d, e)
    \/ \E d, e \in Deque : Move(d, e)

Spec == Init /\ [][Next]_vars

------------------------------------------------------------------------------
(* Properties.                                                             *)

Alive == {d \in Deque : deq[d] # Nil}

\* The positions of the elements: operator[] of each index.
Places(d) == [i \in 1 .. Size(d) |-> Plus(deq[d].start, i - 1)]

CellsOf(d) == {<<Entry(deq[d], Places(d)[i]), Places(d)[i].cur>> : i \in 1 .. Size(d)}

\* Every buffer is in the window of one deque, once, and none is lost; in them
\* exactly the cells from start to finish hold an object; no buffer was freed or
\* cell used that should not be, at whatever step a call failed
\* (deque.h:495-545, 672-735, 822-893).
Whole ==
    /\ defined
    /\ \A d \in Alive :
        /\ deq[d].map \in [0 .. MapSize(deq[d].map) - 1 -> Buffer \cup {Nil, Stale}]
        /\ Window(deq[d]) # {} /\ Window(deq[d]) \subseteq DOMAIN deq[d].map
        /\ \A n \in DOMAIN deq[d].map : n \in Window(deq[d]) <=> deq[d].map[n] \in Buffer
        /\ deq[d].start.cur \in 0..buffer_size - 1 /\ deq[d].finish.cur \in 0..buffer_size - 1
        /\ Size(d) >= 0
    /\ LET Held == UNION {{<<d, n>> : n \in Window(deq[d])} : d \in Alive}
           In(h) == deq[h[1]].map[h[2]]
       IN  /\ \A g, h \in Held : In(g) = In(h) => g = h
           /\ {In(h) : h \in Held} = {b \in Buffer : mem[b] # Nil}
    /\ LET Objects == UNION {CellsOf(d) : d \in Alive} IN
       \A b \in Buffer : mem[b] # Nil =>
            \A c \in 0..buffer_size - 1 : mem[b][c] # Raw <=> <<b, c>> \in Objects

\* A jump lands where the steps lead: for any two positions of a deque + and -
\* agree with ++ and --, whatever the number of buffers between them and on
\* whichever side, and < orders them (deque.h:89-157, 180-183).
JumpsRight ==
    \A d \in Alive :
        LET at == Append(Places(d), deq[d].finish) IN
        /\ at[1] = deq[d].start
        /\ \A i \in 2..Len(at) : Incr(at[i - 1]) = at[i] /\ Decr(at[i]) = at[i - 1]
        /\ \A i, j \in 1..Len(at) :
            /\ Plus(at[i], j - i) = at[j]
            /\ Minus(at[j], at[i]) = j - i
            /\ Less(at[i], at[j]) <=> i < j

\* The elements of each deque, with their places.
Abs(d) ==
    IF deq[d] = Nil THEN Nil
    ELSE LET p == Places(d) IN
         [i \in 1..Len(p) |->
            LET b == Entry(deq[d], p[i]) IN
            [place |-> <<b, p[i].cur>>, val |-> mem[b][p[i].cur]]]

Promise == INSTANCE DequeSeq WITH seq <- [d \in Deque |-> Abs(d)]

\* The element at index i, and where it is.
Place(d, i)   == LET it == Plus(deq[d].start, i) IN <<Entry(deq[d], it), it.cur>>
Subscript(d, i) == LET p == Place(d, i) IN mem[p[1]][p[2]]

\* Each call adds or removes at its end, and a value that is added is the one given.
EndsNamed ==
    \A d \in {e \in Deque : deq[e] # Nil /\ deq'[e] \notin {Nil, deq[e]}} :
        /\ \A v \in Val :
            /\ PushBack(d, v)  => Subscript(d, Size(d) - 1)' = v /\ Size(d)' = Size(d) + 1
            /\ PushFront(d, v) => Subscript(d, 0)' = v /\ Size(d)' = Size(d) + 1
        /\ PopBack(d) => /\ Size(d)' = Size(d) - 1
                         /\ Size(d) > 1 => Place(d, 0)' = Place(d, 0)
        /\ PopFront(d) => /\ Size(d)' = Size(d) - 1
                          /\ Size(d) > 1 => Place(d, Size(d) - 1)' = Place(d, Size(d) - 1)
        /\ Throws(d) => Size(d)' = Size(d)

\* Deques are sequences whose elements stay where they are: every call has the
\* effect of its name on the elements of its deque and leaves the others, one that
\* throws has none, and no reference to an element that is kept becomes invalid,
\* while the map is reallocated or the window shifted in it (deque.h:854-893).
KeepsElements == Promise!Spec /\ [][EndsNamed]_vars
==============================================================================
