--------------------------------- MODULE Heap ---------------------------------
(***************************************************************************)
(* The heap algorithms of stl_heap.h on one random-access range, as        *)
(* priority_queue and other callers use them.  Every sift takes a step per *)
(* iteration: the value being placed is tmp, and `hole` is where it may go.*)
(***************************************************************************)
EXTENDS Integers, FiniteSets

CONSTANTS
    Value,     \* the elements
    MaxSize    \* bound: the longest range

ASSUME HeapParameters == Value \subseteq Int /\ Value # {} /\ MaxSize \in Nat

VARIABLES
    a,         \* the range: a[0 .. size - 1]
    size,      \* last - first
    heap,      \* how many of the first elements the caller knows to be a heap
    cmp,       \* the comparison of the call that runs, or of the heap
    want,      \* the comparison sort_heap was given, "none" in another call
    at,        \* the loop that runs, "idle" when none does
    back,      \* the loop that called the sift, "idle" when the caller did
    tmp, hole, limit,  \* adjust_heap's tmp, holeIndex, heap_size; push_heap_aux's key
    k          \* make_heap's noLeaf, sort_heap's i

heapvars == <<a, size, heap, cmp, want, at, back, tmp, hole, limit, k>>

Orders == {"less", "greater"}
Before(c, v, w) == IF c = "less" THEN v < w ELSE w < v

left(i) == 2 * i + 1
parent(i) == (i - 1) \div 2
Smaller(i, j) == IF i < j THEN i ELSE j

Some == CHOOSE v \in Value : TRUE

\* Any range; its first element is a heap of one.
HeapInit ==
    /\ size \in 0..MaxSize /\ a \in [0..size - 1 -> Value]
    /\ heap = Smaller(size, 1) /\ cmp = "less" /\ want = "none"
    /\ at = "idle" /\ back = "idle" /\ tmp = Some /\ hole = 0 /\ limit = 0 /\ k = 0

Done ==
    /\ at' = "idle" /\ back' = "idle" /\ want' = "none"
    /\ tmp' = Some /\ hole' = 0 /\ limit' = 0 /\ k' = 0

-----------------------------------------------------------------------------
(* The sifts.                                                              *)

\* push_heap_aux: the parent moves down while it goes before the key.
Rising ==
    /\ at = "rise"
    /\ IF hole > 0 /\ Before(cmp, a[parent(hole)], tmp)
       THEN /\ a' = [a EXCEPT ![hole] = a[parent(hole)]] /\ hole' = parent(hole)
            /\ UNCHANGED <<size, heap, cmp, want, at, back, tmp, limit, k>>
       ELSE /\ a' = [a EXCEPT ![hole] = tmp] /\ heap' = size
            /\ Done /\ UNCHANGED <<size, cmp>>

\* Mutant: the last right child is not looked at.
ChildShort(i) ==
    IF left(i) + 2 < limit /\ Before(cmp, a[left(i)], a[left(i) + 1]) THEN left(i) + 1 ELSE left(i)

\* The child of i that no other child of i goes after.
Child(i) ==
    IF left(i) + 1 # limit /\ Before(cmp, a[left(i)], a[left(i) + 1]) THEN left(i) + 1 ELSE left(i)

\* adjust_heap: the child moves up while tmp goes before it.
Sinking ==
    /\ at = "sink"
    /\ IF left(hole) < limit /\ Before(cmp, tmp, a[Child(hole)])
       THEN /\ a' = [a EXCEPT ![hole] = a[Child(hole)]] /\ hole' = Child(hole)
            /\ UNCHANGED <<at, back, want, tmp, limit, k>>
       ELSE /\ a' = [a EXCEPT ![hole] = tmp]
            /\ IF back = "idle" THEN Done
               ELSE at' = back /\ k' = k - 1 /\ UNCHANGED <<back, want, tmp, hole, limit>>
    /\ UNCHANGED <<size, heap, cmp>>

\* adjust_heap(first, i, n, cmp) on the range r.
Adjust(r, i, n, loop) ==
    /\ a' = r /\ at' = "sink" /\ back' = loop
    /\ tmp' = r[i] /\ hole' = i /\ limit' = n

Swapped(i, j) == [a EXCEPT ![i] = a[j], ![j] = a[i]]

-----------------------------------------------------------------------------
(* The calls.                                                              *)

\* priority_queue::push: push_back, then push_heap.
Push(v) ==
    /\ at = "idle" /\ heap = size /\ size < MaxSize
    /\ size' = size + 1
    /\ a' = [i \in 0..size |-> IF i = size THEN v ELSE a[i]]
    /\ at' = "rise" /\ tmp' = v /\ hole' = size
    /\ UNCHANGED <<heap, cmp, want, back, limit, k>>

\* pop_heap: nothing to do for a heap of less than two.
PopHeap ==
    /\ at = "idle" /\ heap = size /\ size > 1
    /\ Adjust(Swapped(0, size - 1), 0, size - 1, "idle")
    /\ heap' = size - 1
    /\ UNCHANGED <<size, cmp, want, k>>

\* pop_back of the container.
PopBack ==
    /\ at = "idle" /\ size > 0
    /\ size' = size - 1 /\ a' = [i \in 0..size - 2 |-> a[i]] /\ heap' = Smaller(heap, size - 1)
    /\ UNCHANGED <<cmp, want, at, back, tmp, hole, limit, k>>

\* make_heap: from the last node that has a child.
MakeHeap(c) ==
    /\ at = "idle" /\ size > 1
    /\ cmp' = c /\ heap' = 1 /\ at' = "make" /\ k' = size \div 2 - 1
    /\ UNCHANGED <<a, size, want, back, tmp, hole, limit>>

\* sort_heap begins with make_heap(first, last), which compares with < whatever
\* comparison it was given.
SortHeap(c) ==
    /\ at = "idle" /\ size > 1
    /\ cmp' = "less" /\ want' = c /\ heap' = 1 /\ at' = "make" /\ k' = size \div 2 - 1
    /\ UNCHANGED <<a, size, back, tmp, hole, limit>>

\* Mutant: the root is left as it is.
MakingShort ==
    /\ at = "make"
    /\ \/ /\ k >= 1
          /\ Adjust(a, k, size, "make")
          /\ UNCHANGED <<size, heap, cmp, want, k>>
       \/ k < 1 /\ want = "none" /\ heap' = size /\ Done /\ UNCHANGED <<a, size, cmp>>
       \/ /\ k < 1 /\ want # "none"
          /\ cmp' = want /\ heap' = IF want = cmp THEN size ELSE 1
          /\ at' = "sort" /\ k' = size - 1
          /\ UNCHANGED <<a, size, want, back, tmp, hole, limit>>

\* One node of make_heap, or its end.
Making ==
    /\ at = "make"
    /\ \/ /\ k >= 0
          /\ Adjust(a, k, size, "make")
          /\ UNCHANGED <<size, heap, cmp, want, k>>
       \/ k < 0 /\ want = "none" /\ heap' = size /\ Done /\ UNCHANGED <<a, size, cmp>>
       \/ /\ k < 0 /\ want # "none"
          /\ cmp' = want /\ heap' = IF want = cmp THEN size ELSE 1
          /\ at' = "sort" /\ k' = size - 1
          /\ UNCHANGED <<a, size, want, back, tmp, hole, limit>>

\* One element of sort_heap, or its end.
Sorting ==
    /\ at = "sort"
    /\ \/ /\ k >= 1
          /\ Adjust(Swapped(0, k), 0, k, "sort") /\ heap' = Smaller(heap, k)
          /\ UNCHANGED <<size, cmp, want, k>>
       \/ k < 1 /\ Done /\ UNCHANGED <<a, size, heap, cmp>>

HeapNext ==
    \/ Rising \/ Sinking \/ Making \/ Sorting \/ PopHeap \/ PopBack
    \/ \E v \in Value : Push(v)
    \/ \E c \in Orders : MakeHeap(c) \/ SortHeap(c)

HeapSpec == HeapInit /\ [][HeapNext]_heapvars

-----------------------------------------------------------------------------
(* Properties.                                                             *)

\* No element goes before its parent.
Kept(j) == ~Before(cmp, a[parent(j)], a[j])

\* When no call runs, the elements said to be a heap are one: after any number
\* of pushes, pops and makings, and while sort_heap takes it apart
\* (stl_heap.h:30, :87, :110).
HeapOrdered == at \in {"idle", "sort"} => \A j \in 1..heap - 1 : Kept(j)

\* How often v is in the range, the value that is being placed included.
Times(v) ==
    Cardinality({i \in 0..size - 1 : (IF at \in {"rise", "sink"} /\ i = hole THEN tmp ELSE a[i]) = v})

\* The calls keep the elements; pop_heap leaves one at the end that no other
\* goes after; sort_heap sorts, when its comparison is <.
HeapCallsRight ==
    [][ /\ size' = size => \A v \in Value : Times(v)' = Times(v)
        /\ at = "sink" /\ back = "idle" /\ at' = "idle" =>
                \A i \in 0..size - 1 : ~Before(cmp, a'[size - 1], a'[i])
        /\ at = "sort" /\ at' = "idle" /\ want = "less" =>
                \A i, j \in 0..size - 1 : i < j => a'[i] <= a'[j]
      ]_heapvars
===============================================================================
