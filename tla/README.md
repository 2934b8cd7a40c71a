# Verification of zstl

zstl is a C++14 standard-library look-alike: containers, iterators, algorithms
and the support types under them, almost all in headers. It is sequential:
nothing in it starts a thread, and no object is shared between threads. What is
hard in it is not concurrency but *pointer structure over long sequences of
calls*: linked nodes with cached ends, rebalancing loops, raw memory that is
partly constructed, an allocator whose blocks move between a pool, lists and
callers, and steps that can fail half-way. A unit test calls a few members in one
order. The models here call all of them in every order, on small instances, and
the theorems say the same for every instance.

Paths below are relative to the repository root; `src/` in PROJECT.json is
that root.

## The system

| Component | Code | State it keeps | Operations | Hard behaviour |
|---|---|---|---|---|
| ForwardList | `stl_supplement/include/forward_list/*`, `stl_supplement/src/forward_list/algorithm.cc` | header (first node, last node, count); nodes with one link | push, insert, extract, erase, splice, reverse, swap, clear; merge, sort, unique, remove, assign, resize | cached last node; nodes handed to the caller and back; splicing within one list |
| RBTree, Set | `zstl/stl_tree.h`, `src/stl_tree.cc`, `zstl/set.h` | header (root, first, last, colour), node count, nodes with three links | insert unique/equal, with hint; erase; clear; find, bounds, iteration; copy | two rebalancing loops, cached first and last node, hints that are only suggestions |
| alloc | `src/alloc.cpp`, `zstl/alloc.h` | free lists by size, pool, heap size | allocate, deallocate, reallocate | refill from pool, malloc, or another list when malloc fails |
| Vector | `zstl/vector.h` | three pointers over raw memory | insert, emplace, erase, assign, resize, reserve | overlap of source and destination, growth, throwing constructors, arguments that alias elements |
| Deque | `zstl/deque.h`, `zstl/deque_.h` | map of buffers, two iterators | push and pop at both ends, clear, swap, move | growth and shift of the map, jumps of iterators, stale entries in the map, a buffer that cannot be allocated |
| List | `zstl/stl_list.h`, `zstl/list_impl.h` | sentinel, nodes with two links | insert, erase, splice, merge, sort, unique, remove, reverse | transfer of ranges within and between lists, sort's local lists |
| HashTable | `zstl/hash_table.h`, `zstl/hash_table/hash_node.h`, `zstl/hash_aux.h` | a chain with a sentinel for each bucket, count | insert, find, rehash, clear, iteration | a rehash in the middle of an insertion, stale bucket heads, growth to the next prime |
| Heap, PriorityQueue | `zstl/stl_heap.h`, `zstl/priority_queue.h` | a range of elements | push, pop, make, sort | boundaries of the sift loops |
| Queue, Stack | `zstl/queue.h` | a container | forwarded | none of their own |
| Algorithms | `zstl/algo/*`, `zstl/stl_algobase.h`, `zstl/stl_algorithm.h`, `zstl/stl_numeric.h`, `zstl/stl_move.h` | none | find, search, rotate, unique, ... | empty and one-element ranges, overlapping ranges |
| Raw memory | `zstl/stl_uninitialized.h`, `zstl/stl_construct.h` | what is constructed in a range | uninitialized_copy, fill, move | a constructor that throws half-way |
| Optional, Variant, UniquePtr | `zstl/optional.h`, `zstl/variant.h`, `zstl/unique_ptr.h` | whether, and which, object is in the storage | assign, emplace, reset, swap | destroy-then-construct |
| Allocators | `zstl/allocator.h`, `zstl/user_allocator.h` | none | forwarded to operator new or alloc | |
| Type support | `zstl/type_traits.h`, `zstl/typelist.h`, `zstl/tuple.h` | none: evaluated by the compiler | categories, properties, transformations of types; algorithms on lists of types | which specialisation is chosen for a type with several layers and qualifiers |
| Strings and text | `zstl/string_view.h`, `zstl/text/*` | a pointer and a length | narrowing, search, split; printing | conversions between unsigned and int, views that end before their text |
| Iterators, pair, function objects, configuration | the rest of `zstl/` | none, or one value | one forwarded call | |

How they interact: every container asks an allocator for memory (Vector, Deque
and the node containers through `allocator_traits`; `UserAllocator` through
`alloc`), constructs and destroys elements with the raw-memory functions, and is
used through its iterators; Set forwards to RBTree, Queue and PriorityQueue to
their container; ForwardList's members are sequences of the pointer operations
of `algorithm.cc`. There are no callbacks except comparison functions and
constructors of the elements, which may throw.

What makes each correct:

- **ForwardList**: the links of a list spell exactly its nodes, `count` is their
  number, `prev` the last; each member has the effect on the sequence of nodes
  its name promises; a node keeps its identity while it moves; a node that
  reaches the caller can be linked again safely.
- **RBTree**: order, links, colours, cached ends and size agree at every iteration
  of the loops; unique insertions admit no duplicate; search and iteration
  answer as the set of elements does; every call ends.
- **alloc**: no two live or free blocks overlap, whatever malloc does; no memory
  is forgotten; the statistic that drives growth is exact.
- **Vector, Deque, List, HashTable**: the abstract sequence (or set) is what the
  calls promise; exactly the elements in the container are constructed; a failed
  call leaves it as it was, or at least well formed.
- **Deque**: a buffer is in the window of one map, once; an element keeps its place
  whatever happens at the ends; jumps agree with steps.
- **Heap**: what the caller may take for a heap is one, whenever no call runs.
- **Algorithms, string views, type lists and traits**: the result is that of a
  definition by sets and indices.

## The modules

| Module | Role |
|---|---|
| `NodeSeq` | abstract: lists are sequences of nodes, some nodes are in the caller's hands |
| `ForwardList` | the pointer operations and the members built of one or two of them |
| `ForwardListSeq` | reads the sequence along the pointers; refinement and the effect of each call |
| `ForwardListLoops` | the members that loop over elements, an iteration a step, on top of `ForwardList` |
| `MCForwardListLoops` | symmetry and a state constraint for TLC |
| `ForwardListProofs` | seven theorems, about `ForwardList` and `ForwardListLoops` |
| `Iteration` | lemmas about recursive functions, used by the proofs about lists, tables, trees and vectors |
| `RBTree` | the tree: links, fixup loops, searches, hints |
| `MCRBTree` | constants for TLC: which key each node holds |
| `RBTreeInv` | ghosts, what the lemmas say of trees, the inductive invariant |
| `RBTreeProofs` | what rotations, linking, unlinking, walks and searches do to any tree; the invariant of `QueueSpec` and seven theorems |
| `BlockStore` | abstract: what an allocator promises its callers |
| `Alloc` | the free-list allocator and malloc; refines `BlockStore` |
| `AllocProofs` | four theorems |
| `Vector` | the vector's buffer, cell by cell, with copies that throw |
| `MCVector` | symmetry for TLC |
| `VectorProofs` | three theorems |
| `ListSeq` | abstract: list objects are sequences of nodes with values |
| `List` | the doubly linked list, loops an iteration a step, sort with its local lists |
| `ListRefines` | reads the sequence along the links; refinement and the effect of each call |
| `MCList` | symmetry for TLC |
| `ListProofs` | two theorems |
| `HashTable` | buckets, insertion and rehash an iteration a step, iteration, the search for the next prime |
| `MCHashTable` | lists of primes and symmetry for TLC |
| `HashTableProofs` | three theorems |
| `DequeSeq` | abstract: a deque is a sequence of elements that keep their place |
| `Deque` | the map, the buffers, the iterators; refines `DequeSeq` |
| `MCDeque` | symmetry for TLC |
| `TypeList`, `TypeTraits` | lists of types and traits of types, evaluated on every list and type within a bound |
| `Algorithms` | range algorithms as functions of the contents of ranges |
| `StringView` | string_view: narrowing, searches, split |
| `Heap` | push, pop, make and sort, an iteration of a sift a step |
| `HeapProofs` | two theorems |
| `MCValues` | puts `TypeList` to `Heap` side by side for TLC: each behaviour uses one of them, or, for the comments, a list, a type and ranges at once |

Definitions named "Mutant" in a comment are not part of the models: each is a
plausible bug in the definition that follows it, substituted for it to see that a
property notices.

### ForwardList

`next`, `prev` and `count` are the fields of the nodes and headers; `header_`
says which header object a list owns (swap and move assignment exchange them);
`where` says whether a node is in the allocator, in a list, or in the caller's
hands after `extract_*`. Each function of `algorithm.cc` is a pair of operators,
the new `next` and the new `prev`; each member is an action. A node that is
created has a null link (`create_node`), one that is dropped may be created again,
so every address is reused. Two lists and every position of each are inputs, also
in `splice_after(pos, list, it)` with both lists the same. Its one precondition,
that `pos` is not the node that moves, is the caller's: the code has no
check. `Reverse` and the loop that unlinks an erased range are one step each, so
what holds between their iterations is not stated.

### ForwardListLoops

The members that loop (merge, splice of a range, remove, unique, resize, assign,
copy assignment, insertion of several elements, erasure of a range) call the pointer
members above; here nodes hold values. `run` is the member that is running and its
locals: `at`, `src` and `last` are the iterators of its loop, `k` the count still to
go. A call fills `run`, **each iteration is a step** that takes one of
`ForwardList`'s actions, and a last step returns; `was` remembers the lists as they
were called with, for the properties. Between two such calls every action of
`ForwardList` is taken. When no node is free, `create_node` throws and the member
stops where it is. Values are compared with `<` and `=`, so merge(list, pred) and
unique(pred) are the same actions. Arguments do not alias elements, copying an element
does not throw, and a range spliced within one list does not begin at `pos`: the
code is wrong on each of these (see the hazards), and the model leaves them out.

### RBTree

A node is its address. `tree` holds the four fields of every address, the
header included; `cur`, `up` and `victim` are the locals of the fixup loops
(`z` or `x`, `x_parent`, and the node `erase` was given), and `pc` says which
loop is running, so **one iteration of a loop is one step** and the invariants
hold at each of them, not only between calls. Pointer walks (Minimum, Increment,
the descents) are recursive functions of the number of iterations. A failed
assert ends in `pc = "assert"`, a null pointer that is dereferenced in
`pc = "null"`. The removal's red-sibling case rotates to the left on both sides,
as `stl_tree.cc:319` does.

Two specifications call different members, because the removal has
defects that spoil what insertion alone keeps:

- `QueueSpec`: insertions (unique; unique or equal with any hint) and erasure at
  `begin()`, the only way `test/set_test.cc:64-76` erases. On this protocol the
  tree is a correct red-black tree.
- `SetSpec`: unique insertions and erasure of any element. What still holds is
  checked; what does not is a finding.

### Alloc

Every size and address is a multiple of `ALIGN`, so both are counted in units of
it; a free list is the sequence its links spell. `chunk_alloc`, `refill`,
`allocate` and `deallocate` are operators from one state of the static members
to the set of possible next ones: the choice is malloc's, which
returns a chunk apart from the others or fails, at any call. malloc and free are
external. The contents of blocks are not modelled.

### Vector

`vec.cell` is the buffer: a cell is `Raw`, `Moved` (an object that has been moved
from), or holds a value; `vec.last` is `last_ - first_`, and the length of the
buffer is `capa_ - first_`. Members are operators from a vector to the next one,
built from the loops of the raw-memory functions in the order they visit the cells,
because sources and destinations overlap. Each takes `t`, the number of copies
made before one throws, so a call may end at any copy. `defined` becomes false
when a cell is read, assigned or destroyed against its state. The allocator throws
when a capacity above `MaxCapa` is asked for.

- `Spec`: every call. Some garble the vector; see the findings.
- `SoundSpec`: every call but these: erasure of a range and what rests on it,
  `insert(end(), x)` with room, an insertion of n with room and more than n
  elements after it, an insertion of a range with room other than at the front,
  and a copy that throws when elements have been moved already. Here the vector
  is checked to be whole and every call to have its effect.

### List

`next`, `prev` and `data` are the fields of the nodes and of the sentinels, `own`
says in whose chain a node is, or that it is free. A sentinel bears the name of its
list object, so that exchanging two `node_` pointers renames the sentinels. A
member that does not loop is one action. One that does is a call, which puts the
loop's name in `at` and its cursors in `x`, `y`, `i` and `fill`, and a step for each
iteration: clear, remove, unique, merge, the insertions of several elements,
assign, copy assignment. **sort** is modelled with its 64 counters and its carry as
list objects of their own (`Fills` of them, as many as the nodes can reach); each
carry is a merge, an iteration a step, so `Whole` holds in the middle of it.
`ListSeq` says what each member does to a sequence in one step; `ListRefines`
shows that a call of the code is that step, taken when it returns.

### HashTable

Two generations of sentinels stand for the table before and after a rehash, so in
the middle of one an element is in the bucket of its hash code in the new table or
still in its old one. `insertUnique` is the steps rehash (the loop of
`lower_bound` over the primes, an element moved a step, the old sentinels
given back), construct and link; creating a node may fail. A key is its own hash
code: collisions come from the small number of buckets. `Begin` and `Next_` are the
iterator; `find` is not modelled: nothing says what its loop, which misses the last
node of a chain, should answer, and a property of it would be the loop again. After `clear` the heads dangle, so the table can only be
destroyed: the program stops, and so does the specification.

### Deque

`deq` holds the members of each object, with the map as a function whose entries
outside of the window are null or stale, `mem` the cells of each buffer. `defined`
becomes false when a cell is constructed or destroyed against its state, or a
pointer freed that the deque does not own. `buffer_size` is that of the element type
of the program, chosen at the start. The exceptions of push_back and push_front are
actions that do what the handlers do, where what the handlers do is defined. An
allocator with static members is assumed, because `zstl::allocator` has
none and `deque` calls it as if it had.

### Type lists and traits

A type is a sequence of layers (pointer, reference, array, function, member pointer,
each with its qualifiers) that ends in a named type; a trait is the choice the
partial specialisations make on it. `TraitsRight` compares them with what the
language calls the type: each type is in one primary category, whatever the
qualifiers, but a pointer to a member function in two (a finding); adding and removing
undo one another; what is decayed is no array, function or reference. A list is one of
the four representations of `typelist.h` and `tuple.h`; `ListsRight` compares each
algorithm with its effect on the sequence of elements; of elements that compare equal it
asks of a sort only that none is lost. The index lists of a Tuple are left out, since
`Pick`, through which they are used, compiles for no tuple with elements.

### Algorithms, StringView, Heap

`Algorithms` are functions from the contents of ranges to the result and the contents
afterwards, the loops as recursive functions of the position in the order they visit
it, since sources and targets overlap. `RangesRight` says what they do of all but
reverse, remove and search, which do not do what they are for (findings).
`StringView` keeps the conversions: lengths
are unsigned with `Width` bits and wrap, and the backward searches convert to int.
`Heap` has a step for each iteration of a sift; `heap` is how many elements the
caller may take for a heap; `want` remembers the comparison sort_heap was given,
which is not the one it builds its heap with: `HeapCallsRight` says of `sort_heap` that
it sorts by `<` and only that it loses nothing by the other comparison.

Where the code contradicts its comments, the property of a passing run is silent or says
what the code does, and what the comment says is a claim of its own, below "What comments
say" at the end of a module: `PushFrontFirst` and `SortedFirstPoint` in `TypeList`,
`MemberObjectsOnly`, `DecayRemovesCv` and `ObjectsTold` in `TypeTraits`,
`ReverseReverses`, `RemoveShifts` and `SearchFindsFirst` in `Algorithms`,
`BoundsAsCommented` in `RBTree`.

## The runs

Nothing in a run is fair except the loop steps of RBTree, `WF(InsertFixup)` and
`WF(EraseFixup)`, of ForwardListLoops, `WF(Step)`, and of HashTable, `WF(Loop)`. A
loop belongs to a member that is still executing, in a single thread; no call can
start before it returns, so its next step is taken. No caller is assumed to call
anything. List and ForwardListLoops state more than that their loops end: `Progress`
gives a measure that each iteration lowers.

| Run | Instance | Shows |
|---|---|---|
| `forward_list` | 2 lists, 4 nodes, 2 values, counts up to 2 | types; at every iteration of every loop the chain, reset loose nodes and no dead position; every step of a pointer member is one of `NodeSeq` and has exactly its effect; what each member that loops does to the elements (stable merge, order kept, counts returned); every iteration is nearer the end, and none is stuck, so every member returns |
| `tree_queue` | 8 nodes, 6 keys (two come twice) | links, order, colours (also inside the loops), both ends, `find` and the search for a place; unique insertions stay unique among equal ones |
| `tree_set` | 6 nodes, 6 keys | after any erasures: `begin()`, size, iteration both ways in order; every call returns or aborts |
| `alloc` | 3 size classes, refills of 2, requests in each class and a large one, 3 chunks, 2 held blocks | no overlap, nothing lost, exact heap size, refinement of `BlockStore` |
| `vector` | buffers of up to 5 cells, 2 values, inserted ranges up to 5 | exactly the elements are constructed and hold their values; each call has exactly its effect, or none when it throws; the buffer is exchanged only when it must be, and then doubles |
| `list` | 2 lists, 4 nodes, 2 values | at every iteration, sort's merges included, next and prev undo one another and no node is lost; refinement of `ListSeq`; every call has exactly its effect; every loop gets nearer its end |
| `hash_table` | 4 nodes, 6 keys, tables that start with 0 or 2 buckets | at every iteration of a rehash every element is in its bucket or still in the old one, once; iteration; no call but clear loses a key |
| `deque` | 2 deques, 3 buffers of 1 or 2 cells, maps of 3 or more entries | every buffer in one window, objects exactly between the ends, nothing used against its state; + and - agree with ++ and --; refinement of `DequeSeq`: elements keep their place |
| `values` | type lists of up to 4, types of up to 3 layers, ranges of up to 5 of 3 values, views of texts of up to 4, heaps of up to 6 | each function agrees with its definition, as far as it is claimed; the heap is one between calls, and each heap call does to the elements what it is for |
| `tree_erase_last` | 4 nodes | findings: header.right after erasing the last element; lower_bound and upper_bound |
| `values_comments` | lists of 1, types of up to 3 layers over `void`, ranges of up to 3 and 2 of 2 values | findings: eight comments |
| `hash_growth` | 2 nodes, four primes | finding: an insertion that has to grow the table does not return |

Why the bounds are enough: four nodes give lists of every length up to four, so
reverse takes each of its three paths and splices meet first, middle and last
positions of both lists; with four nodes of two values merge meets ties and
exhausts either list first, unique and remove erase first, middle, last and
consecutive elements, sort carries through three counters, and the allocator runs
out in the middle of every loop that inserts (nodes, lists and headers are
interchangeable, hence the symmetry; `HeldApart` leaves out the states in which the
caller holds a node and two values are told apart or a loop runs: pointer members
do not read values, and a loop that runs beside a node in the caller's hands is one on
fewer nodes); eight nodes are the
fewest with which every insert case and every erase case at `begin()` occurs on both
an inner and the root position, and six reach each erase case on either side; with
three size classes a block can be taken from a larger list, leave a residue of each
smaller size, and a chunk can run out, and three chunks let malloc fail in each of
these states; in five cells a moved tail is shorter than, as long as, and longer than
the gap it leaves, with and without overlap, and a buffer of two grows to four and
from there can grow no more. Values of a vector or a deque are never compared, so
two of them, interchangeable, show every misplacement. Three buffers let a deque's
window reach either end of a map of three and of one that has grown, and jumps
cross two borders either way; a buffer of one cell makes every push and pop cross
one. Four nodes and six keys give chains of four, elements that leave a
bucket and that stay in it, and a table that grows from no bucket and from two; one
prime is all the code's own search for the next survives (see the finding). Three
layers put each kind of type around each; a heap of six has a last node with a left
child only, and one with both.

`CHECK_DEADLOCK FALSE` is used where the program may stop: after an abort in
`SetSpec`, after a fault in `Alloc`, after `clear` of a hash table, and in `values`,
where a function is evaluated once.

### Findings

- Erasing a last element without children leaves `header.right` on the freed node
  (`stl_tree.cc:371-393`), run `tree_erase_last`.
- `lower_bound` and `upper_bound` of the tree descend to the wrong side
  (`stl_tree.h:1092-1158`): not the first element that is not less, or greater, as their
  comments say, but end() or one that is less, and the last on one path that is greater,
  run `tree_erase_last`.
- `lower_bound` never computes `half` again (`algo/binary_search.h:45-58`), so
  `nextPrime`, and any insertion into a hash table that has to choose between primes,
  does not return, run `hash_growth`.
- In run `values_comments`: `Push_Front` on a Tuple appends at the back
  (`typelist.h:250` says first); `Sorted` inserts behind equal elements, not at the first
  point (`:733`), so a sort reverses them; `Is_member_object_pointer` holds of pointers to
  member functions (`type_traits.h:495`); `Decay` keeps qualifiers (`tuple.h:182` relies on
  the contrary); `Is_object` holds of every type (`type_traits.h:748-759`); `reverse` leaves
  the last element (`algo/reverse.h:9-14`); `remove` never advances its result
  (`algo/remove.h:27`); `search` misses matches that begin inside a partial one, and reads
  past the end (`algo/search.h:31`).

A run that refutes several comments checks their disjunction: one state contradicts
each of them, so that no comment is only shown wrong because another is.

Seen while reading, modelled as the code does it or left out as said below, without
a run of their own:

- ForwardList: `assign(count, value)` never erases a surplus, its branch asks whether
  an unsigned count is negative (`forward_list_impl.h:74`); `splice_after` of a range
  puts the elements in reverse order (`:331-333`; its test splices one element).
- RBTree: the asserts at `stl_tree.cc:328-329` stand before the test they belong
  under and abort on legal trees; erasing the only element takes a link of the header
  for a child link (`Transplant`, `stl_tree.cc:241-245`) and nulls `header.right`, or
  `header.left` when `header.right` was stale already (hence the guard `BeginIsEnd` of
  `FindCorrect`, and `LeftMostTracked` only for non-empty trees in `tree_set`); the right-hand red-sibling case rotates the wrong way
  (`stl_tree.cc:319`); `InsertEqual` looks up the position of a unique insertion
  (`stl_tree.h:890`); `EmplaceUnique` asserts what a duplicate violates (`:918`);
  `Copy` makes every node red (`:1624`).
- alloc: `chunk_alloc` goes on with a pool at address null when malloc fails and the
  lists are empty (`alloc.cpp:94-99`, the action `Fault`); `reallocate` copies nothing
  (`:135-138`).
- Vector: `erase(first, last)` destroys what is left over and keeps the size
  (`vector.h:801`; its test cannot see it, `lexicographical_compare` is also false when
  the left side is longer, `test/vector_test.cc:105`); `insert(end(), x)` with room
  assigns behind the last element it has just moved away, an insertion of n with room
  and more than n elements after it moves them to the wrong end, a range is
  constructed at `begin() + eles_after_pos`, and `expandAndEmplace` swallows the
  exception of a constructor and takes over the freed buffer (`:633-787`).
- List: `erase(first, last)` advances over the node it has freed (`list_impl.h:174-178`),
  and a resize to fewer calls it; `remove(value)` with a value in the list reads it after
  it is gone (`:221`); `insert` of several returns the wrong position; moved-from lists
  have no sentinel.
- HashTable: `find` compares the sentinel and stops before the last node of a chain
  (`hash_table.h:433-449`); `empty()` returns the size; `clear` leaves heads and count,
  and the destructor calls it again; find in a table without buckets divides by zero.
- Deque: push_back and the emplace members move the end before the constructor that
  may throw (`deque.h:462`, `:470`, `:505`), emplace_* swallow exceptions and go on,
  push_front_aux's handler moves `start` after a failed allocation (`:555`),
  push_back_aux's frees a stale entry (`:541`), a moved-from deque keeps the other's
  ends (`:363`), `>` is never true (`:190`), `at(0)` asserts (`:263`), and a map is lost when
  `create_buffer` throws (`:823-829`).
- Types: `Is_const` and `Is_volatile` hold of `T const*` and `T volatile*`
  (`type_traits.h:779`, `:794`).
- Algorithms: rotate leaves its range; unique_copy omits the first; move_backward reads
  before the first (`stl_algobase.h:284`); accumulate(op) applies op once, to the end.
- string_view: `find_last_of(char)` returns its argument (`string_view.h:277`),
  `find_first_not_of(char)` and `find_last_not_of(char)` test for equality (`:294`, `:317`),
  equal views compare as greater (`:330-333`), split of a part of a text runs past it.
- Heap: push_heap without a comparison and `priority_queue::pop` do not compile;
  `sort_heap(cmp)` builds its heap with `<` (`stl_heap.h:158`) and takes apart what is no heap of its
  comparison; the constructor of priority_queue from an initializer_list makes its heap
  without `cmp` (`priority_queue.h:51`).

## The proofs

All are checked by TLAPS for every value of the constants, under the `ASSUME`s of the
modules (addresses of nodes, headers, sentinels and null differ; counts and addresses are
natural numbers; a heap holds integers; a tree's keys are integers; the nodes of a
tree and of a hash table are finitely many, and so are the initial bucket counts; a
list has fewer nodes than sort's counters can hold, which at 64 of them no memory
exceeds: `Capacity`).

**ForwardListProofs.** `TypeCorrect`, `ChainCorrect`, `LooseResetCorrect`,
`AssertionsHold` (the asserts of push_front and push_back), `NoUseAfterFree`. The
inductive invariant `IInv` says that for each header there is a sequence without
repetition whose elements are exactly the nodes owned by it, linked in order,
ended by `prev`, as long as `count`; and that the other nodes have a null
link. Naming the sequence is what makes it inductive: `ChainInv` alone says nothing
about the middle of the list. One lemma per pointer operation shows what happens to
the sequence (`ChainInsert`, `ChainExtract`, `ChainSplice`, `ChainReverse`),
`ChainFrame` that other lists do not notice, and one lemma per member puts them
together.

**ForwardListProofs, the refinement.** `RefinesNodeSeq` (`ImplementsNodeSeq`) and
`CallsAreExact` (`CallsExact`). The refinement mapping reads a list by following next, a
recursive function; `NodesAre` shows that it returns the sequence `IInv` says there is,
and `Index` the place of a node in it (`NowPosition`). On that sequence each way of
writing links is an operator of `NodeSeq`: `TracesInsert` (`InsertAt`), `TracesDelete`
(`DeleteAt`), `TracesSplice` (`InsertAll`), `TracesReverse`, and `TracesFrame` for the lists
that are not written. One lemma per member (`InsertIsAbs`, `TakeIsAbs`, `SpliceAllIsAbs`,
`SpliceSame`, ...) says which call of `NodeSeq` it is, with which index; the one that
takes thought is `splice_after(pos, *this, it)`, where the index of `pos` drops by one if
`it` stood before it. `CallsExact` is stronger than the refinement, which only asks for
*some* call: a `push_front` that pushed back would implement `NodeSeq`.

**ForwardListProofs, of the loops.** `ListsWholeInLoops` (`WellChained`) and `PositionsStayLive`
(`PositionsLive`). An iteration is one of `ForwardList`'s actions, so `IInv` is kept by
the lemmas above; what has to be shown is that the iteration may take
that action. The invariant `LoopsInv` therefore adds what each loop knows of its
locals (`Locals`): which of its positions are elements or the header of which of the two
lists, which may be null, and that the lists differ. One fact is not about one
node: in the loops that read a range, `last` can be reached from `src`. It is
stated by closed sets (`Reaches`), which other lists do not disturb.

**ListProofs.** `ListsWhole` (`Whole`) and `Invariance`. A ring is described by next, prev and
`own`: neighbours are in one chain and lead back to each other (`Ring`), and every set
that holds the sentinel and is closed under next holds the chain (`Reaches`), so a
second cycle with the same owner is excluded. This needs no sequence, and each
way of writing links is proved for one direction and holds for the other by
exchanging next and prev. The inductive invariant adds what the cursors of each loop
point to; for sort, that the list object in counter k is empty or has at least 2^k
nodes. This is why the carries never run off the counters, and it is the only
use of `Capacity`. From the rings, the walk that `Whole` takes by a recursive function
is shown to return to the sentinel after exactly the nodes of the list.

**HashTableProofs.** `TablePlaced` (`Placed`), `KeysKept` (`KeepsKeys`), `TableIterates`
(`Iterates`). `Placed` says of each chain what its elements are, by a recursive function
from the sentinel on, and nothing of the links between them. The invariant `HInv` says that
there is a sequence of nodes for every sentinel of both tables (`Chains`), disjoint, each
in the bucket of its key but for those still in the old table, whose first `slot`
buckets are empty (`Holds`). The steps put a node before a sequence (`ChainsPush`), take the
first one (`ChainsPop`), both at once for an iteration of rehash, add empty sequences
(`ChainsGrow`) and drop them (`ChainsShrink`); `ChainIs` shows that the model's
recursive function returns the sequence. For iteration the nodes are ordered by bucket and
position: the set of nodes before the iterator grows by one with each ++ (`RowsSwept`,
`Swept`), so after `num` of them it is all.

**RBTreeProofs.** Under `QueueSpec`: `TreeLinked` (`WellLinked`), `TreeOrdered` (`SearchOrder`),
`TreeBalanced` (`RedBlack`), `EndsKnown` (`EndsTracked`), `SearchesAnswer` (`FindCorrect`),
`NoDuplicateIn` (`UniqueInsertions`) and `NeverAborts`. The properties speak of paths from a
node to the root, of counts along them and of walks; none of them is inductive, and a
recursion over the tree could not be used. The invariant `Good` says instead that there
are two maps no variable holds: `sub`, the set of the nodes below each node, and `h`, a
black height of each node. They are tied to the links by one equation per node:

- `Tied`: links agree and `sub[n]` is `n`, what is below its left child and what is
  below its right one, all disjoint;
- `Sorted`: no key below the left child is greater, none below the right one smaller;
- `First`: the header's left link ends the left spine, the right link the right one;
- `Heights`: `h[n]` is the child's height on either side plus one if `n` is black,
  but for one black missing on the left of `hl` or the right of `hr`;
- `RedFree`: no red node has a red parent, but `a`.

`Fine` is all five. Between two calls the tree is `Fine` with no exception; in the loop
of an insertion `a` is `cur`; in that of a removal the black is missing left of `up`, or
`cur` is red or the root and the tree is `Fine` once `cur` is black (`Held`; all in `RBTreeInv`). That
`cur` is a left child in this loop, and on the path to `begin()`, is part of the invariant: it is
what makes the one-sided defects of the removal unreachable under `QueueSpec`.

The first part of `RBTreeProofs` shows for each pointer operation what becomes of the five parts
(`FineTurned` and its uses `FineSwap`, `FineRedPair`, `FineNephew` for rotations,
`FineHung` for a new leaf, `FineUnhung` for `Unlink` at the first node, `FineRedUncle`
for recolouring). Left and right are proved once: a tree read from right to left
with its keys negated is `Fine` too (`FineMirror`). The walks are the recursive functions of
the model; `Iteration` gives their values, and a descent or climb is followed by what
it keeps: `Climb` by the nodes it has passed (`ClimbTurn`, from which `IncrementIs`
and `DecrementIs`), `Hole` by the keys it lies between (`HoleEnds`), `LastKept` by the
candidates left (`FindIs`), `UpPath` by the nodes above (`RisesToAll`). From the
neighbours' keys follows that each hint that is accepted names a place that keeps the
order and, for unique keys, that no equal key is elsewhere (`HintUniquePos`,
`HintEqualPos`). `RedBlack` is then read off by adding up the equations of `Heights` from the
root down (`PathSum`). Not proved: `LeftMostTracked`, `IterationInOrder` and `CallsReturn` of
`SetSpec`, where the removal breaks colours and links in ways the invariant would have to
describe one by one; TLC checks them.

**Iteration.** What the recursive functions of the models compute is proved by induction over
the naturals with a set in place of a predicate (`SetInduction`, from the well-founded
order of finite sets), for functions that follow pointers (`OrbitFunction`).

**AllocProofs.** `TypeCorrect`, `NeverOverlap`, `ImplementsPromise`. `NoOverlap` is
not inductive: a new chunk is apart from other *chunks*, so the invariant `Ind`
adds that every block and the pool lie inside a chunk that was not given back, and
that a large block is a chunk of its own. `PopSound`, `PushSound`, `ChunkSound`
and `CutSound` carry it through one function each. The refinement follows because
what `allocate` returns is apart from all that is held.

**AllocProofs, of the memory.** `NothingForgotten`: `MemoryAccounted`. The invariant `Kept` adds
two facts to `Ind`: every unit of a chunk is listed, held or in the pool (`NoneLost`; the
other direction is `Ind`'s), and `heap_size` is the number of units of the chunks that
are no large block (`Counted`). Each has a lemma per function: `ResidueKeeps` for
what is left of a pool, `ChunkKeeps` for a pool made of a free block, `CutKeeps`, where
a unit's place is found by dividing by the block's size; `GrownBy` counts a chunk
malloc gave, which shares no unit with those counted before.

**HeapProofs.** `HeapInvariant` and `HeapOrderedAlways`: for any values and any
size, what the caller takes for a heap is one whenever no call runs. In the middle of
a sift it is not, so the invariant `HeapInv` says for each loop which pairs are
in order: while a value rises (`RiseInv`) all but those at the hole, while one
sinks (`SinkInv`) the same below the root of the call, and in both the parent of the hole
with its children, without which the last write would not restore the order; `MakeInv` and
`SortInv` say from where on, or up to where, the range is one. One lemma per loop step
and per call.

**VectorProofs.** `VectorWhole`, `VectorCallsExact`, `VectorGrowth`: the three properties of
`SoundSpec`, for any values, any bound on the buffer and any copy that throws. The model's
loops are recursive functions on states, so each is first shown to be one function on the
cells: a loop that assigns, constructs or destroys gives `Written` (`FillIs`, `ConstructIs`,
`DestroyedIs`, `CopyInIs`, `CopyConstructIs`), one that moves gives `Carried` (`MoveOutIs`, `CopyIs`,
`CopyBackwardIs`). For moves this is where overlap matters: the object of a cell must have left
before another arrives, hence a loop goes up only if the objects go down (`CarriedLast`) and
down only if they go up (`CarriedFirst`), and the cells a loop moves from or assigns to must hold
objects, which is what keeps `defined`. Then `Vec(w, n, t)`, the whole vector of the elements
`w` in `n` cells, goes to the vector of `Append(w, v)`, `Ins(w, i, u)` or `Without(w, i)`
(`EmplaceBackIs`, `EmplaceIs`, `EraseIs`, `InsertFillIs`, `InsertRangeIs`, `InsertAuxIs`, `ResizeIs`,
`CopyAssignIs`), under the conditions of `GoesRight`: without them these equations are false, as
the entry for Vector under "Findings" shows. The invariant `IInv` is that the vector is a
`Vec`; `Whole` says so cell by cell, but not that nothing else is in the state. The paths on
which a copy throws are part of the equations (`Inserted`, `Assigned`), an allocation that fails
of `CallIs`.

Only model-checked: RBTree with arbitrary erasures, and Deque; the refinements of
`ListSeq` and `DequeSeq` and the `CallsExact` of List; the algorithms and traits (recursive operators and
functions over contents and types); the measures of `Progress`, which count elements
along a chain; and liveness under fairness, which is out of the prover's reach.

## Not modelled, and why

Printing and lexical conversion (I/O); iterator adapters, pair, function objects
(one forwarded call); Optional, Variant and UniquePtr (a flag, an index or a pointer
that each member sets next to the constructor or destructor it calls); what the
compiler answers (`Is_convertible`, the supported operations, layout); contents of
memory blocks; RBTree's `Copy` and `operator=`; ForwardList's sort; Vector's swap.
Several members do not compile as they stand and cannot be in any program: the move
constructors of RBTree and ForwardList, `Vector::pop_back` (calls `checkSize`
without its argument), `Set::emplace`, deque's const iterator and with it insert,
erase, emplace, assign, resize and copies, `shrink_to_fit` of deque, parts of
`optional.h`, `UserAllocator::deallocate`, find_end and copy_if on pointers; the
index lists of Tuple (`Pick` takes its tuple const, `tuple.h:346`, `Get` does not, `:212`, so
that Reverse, splat and sort of a tuple with elements do not compile); the
header of List, `stl_tree.cc` and `alloc.cpp` (a parenthesis missing, includes by paths
that no longer exist) are modelled as if they did. Of Vector, arguments that refer to
one of its own elements and element types whose move constructor throws are left out;
exceptions of element constructors are modelled for Vector and Deque only, and in
Deque only where the handler leaves a state the language defines; a
failing allocation for List is the absence of a free node, for HashTable that of a
node, not of a bucket array in the middle of a rehash.

## Plan

Done: ForwardList, RBTree, Alloc, Vector, ForwardListLoops, List, HashTable, Deque, the
type lists and traits, Algorithms, StringView, Heap, with their abstract
specifications and the theorems above. What would come next, in this order:

1. `RBTreeAssign`: Copy and operator= with reuse of nodes, with the count of
   frees of each node.
2. ForwardList's sort and sort2, as List's.
3. Proofs: `Deque.Whole`; the refinement of `ListSeq`, as
   that of `NodeSeq` from the chains of `ForwardListProofs`.
