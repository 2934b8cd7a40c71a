-------------------------------- MODULE Alloc --------------------------------
(***************************************************************************)
(* The free-list allocator of src/src/alloc.cpp.  Small requests are       *)
(* rounded up to a multiple of ALIGN and served from a list of freed       *)
(* blocks of that size; an empty list is refilled with NOBJS blocks carved *)
(* from the pool [start_free, end_free), which is itself refilled by       *)
(* malloc or, when malloc fails, by a larger block of another list.        *)
(*                                                                         *)
(* Every address and size the allocator computes is a multiple of ALIGN,   *)
(* so both are counted here in units of ALIGN bytes; address 0 is null.    *)
(* A free list is the sequence its next links spell.                       *)
(***************************************************************************)
EXTENDS Integers, Sequences, FiniteSets

CONSTANTS NFREELISTS,   \* number of size classes
          NOBJS,        \* blocks a refill asks for (20 in the code)
          Request,      \* the byte counts callers ask for
          Bases,        \* the addresses malloc may return
          MaxHeld       \* bound: blocks in callers' hands at once

ALIGN == 8
MAX_BYTES == ALIGN * NFREELISTS

ASSUME SizesAssumption == NFREELISTS \in Nat \ {0} /\ NOBJS \in Nat \ {0, 1}
ASSUME RequestAssumption == Request \subseteq Nat \ {0}
ASSUME BasesAssumption == Bases \subseteq Nat \ {0}

VARIABLES mem,          \* the allocator's static members, and malloc's chunks
          held,         \* the blocks in callers' hands
          faulted       \* the process died on a store near address 0

vars == <<mem, held, faulted>>

-----------------------------------------------------------------------------
(* Sizes.                                                                  *)

Units(bytes) == (bytes + ALIGN - 1) \div ALIGN
FREELIST_INDEX(bytes) == Units(bytes) - 1
Classes == 0 .. NFREELISTS - 1

\* The blocks at a and b, of n and k units, have no unit in common.
Apart(a, n, b, k) == a + n <= b \/ b + k <= a

(***************************************************************************)
(* The C heap: malloc returns a chunk apart from all it has given out, or  *)
(* null at any time; free takes it back.                                   *)
(***************************************************************************)
MallocBases(m, n) ==
    {a \in Bases : \A c \in m.chunks : Apart(a, n, c.at, c.size)}

-----------------------------------------------------------------------------
(* The allocator's functions, from one state of its members to the next.   *)

BytesLeft(m) == m.end_free - m.start_free

PushFree(m, c, at) == [m EXCEPT !.free_list[c] = <<at>> \o @]
PopFree(m, c) == [m EXCEPT !.free_list[c] = Tail(@)]

\* Mutant: what is left of the pool is forgotten.
ResidueForgotten(m) == m

\* What is left of the pool goes to the list of its size.
KeepResidue(m) ==
    IF BytesLeft(m) > 0 THEN PushFree(m, BytesLeft(m) - 1, m.start_free) ELSE m

BytesToGet(m, size) ==
    2 * size * NOBJS + Units((ALIGN * m.heap_size) \div 16)

\* The pool after malloc gave a new chunk for blocks of that size.
PoolsFromHeap(m, size) ==
    LET n == BytesToGet(m, size)
    IN  {[m EXCEPT !.start_free = a, !.end_free = a + n,
                   !.heap_size = @ + n,
                   !.chunks = @ \union {[at |-> a, size |-> n]}]
            : a \in MallocBases(m, n)}

\* The pool after malloc failed: the smallest free block that is big enough.
PoolsFromLists(m, size) ==
    {[PopFree(m, c) EXCEPT !.start_free = Head(m.free_list[c]),
                           !.end_free = Head(m.free_list[c]) + c + 1]
        : c \in {d \in Classes : /\ d >= size - 1
                                 /\ m.free_list[d] # <<>>
                                 /\ \A e \in size - 1 .. d - 1 : m.free_list[e] = <<>>}}

\* The pools from which a chunk of at least one block can be cut.
chunk_alloc(m, size) ==
    IF BytesLeft(m) >= size THEN {m}
    ELSE LET r == KeepResidue(m)
         IN  PoolsFromHeap(r, size) \union PoolsFromLists(r, size)

\* How many of the NOBJS blocks the pool holds: all, or bytes_left / size.
ObjectsIn(m, size) ==
    {k \in 1 .. NOBJS : /\ k * size <= BytesLeft(m)
                        /\ k < NOBJS => BytesLeft(m) < (k + 1) * size}

\* Mutant: the block that goes to the caller is linked into the list too.
CutListsFirst(p, size, k) ==
    [p EXCEPT !.start_free = @ + k * size,
              !.free_list[size - 1] =
                  IF k = 1 THEN @ ELSE [i \in 1 .. k - 1 |-> p.start_free + (i - 1) * size]]

\* k blocks leave the pool; all but the first become the list.
Cut(p, size, k) ==
    [p EXCEPT !.start_free = @ + k * size,
              !.free_list[size - 1] =
                  IF k = 1 THEN @ ELSE [i \in 1 .. k - 1 |-> p.start_free + i * size]]

\* The first block goes to the caller.
refill(m, size) ==
    UNION {{[at |-> p.start_free, mem |-> Cut(p, size, k)] : k \in ObjectsIn(p, size)}
              : p \in chunk_alloc(m, size)}

allocate(m, bytes) ==
    IF bytes > MAX_BYTES
    THEN {[at |-> a, mem |-> [m EXCEPT !.chunks = @ \union {[at |-> a, size |-> Units(bytes)]}]]
             : a \in MallocBases(m, Units(bytes))}
    ELSE IF m.free_list[FREELIST_INDEX(bytes)] # <<>>
         THEN {[at  |-> Head(m.free_list[FREELIST_INDEX(bytes)]),
                mem |-> PopFree(m, FREELIST_INDEX(bytes))]}
         ELSE refill(m, Units(bytes))

\* Mutant: the block goes to the list of the next larger size.
DeallocateNextList(m, b) ==
    IF b.bytes > MAX_BYTES
    THEN [m EXCEPT !.chunks = {c \in @ : c.at # b.at}]
    ELSE PushFree(m, FREELIST_INDEX(b.bytes) + 1, b.at)

deallocate(m, b) ==
    IF b.bytes > MAX_BYTES
    THEN [m EXCEPT !.chunks = {c \in @ : c.at # b.at}]
    ELSE PushFree(m, FREELIST_INDEX(b.bytes), b.at)

(***************************************************************************)
(* malloc fails and no list has a block that is big enough: chunk_alloc    *)
(* carries on with a pool of bytes_to_get bytes at address null, returns   *)
(* null, and refill stores the links of the list near address 0.           *)
(***************************************************************************)
Exhausted(m, bytes) ==
    /\ bytes <= MAX_BYTES
    /\ BytesLeft(m) < Units(bytes)
    /\ \A c \in FREELIST_INDEX(bytes) .. NFREELISTS - 1 : m.free_list[c] = <<>>

-----------------------------------------------------------------------------
Init ==
    /\ mem = [free_list |-> [c \in Classes |-> <<>>], start_free |-> 0, end_free |-> 0,
              heap_size |-> 0, chunks |-> {}]
    /\ held = {}
    /\ faulted = FALSE

\* A large request that malloc refuses returns null and changes nothing; in
\* reallocate it comes to what Deallocate does.
Allocate(bytes) ==
    /\ Cardinality(held) < MaxHeld
    /\ \E o \in allocate(mem, bytes) :
          /\ mem' = o.mem
          /\ held' = held \union {[at |-> o.at, bytes |-> bytes]}
    /\ UNCHANGED faulted

Deallocate(b) ==
    /\ mem' = deallocate(mem, b)
    /\ held' = held \ {b}
    /\ UNCHANGED faulted

\* The old block is given back before the new one is asked for, which may
\* be the same block; nothing of its contents is copied.
Reallocate(b, bytes) ==
    /\ \E o \in allocate(deallocate(mem, b), bytes) :
          /\ mem' = o.mem
          /\ held' = (held \ {b}) \union {[at |-> o.at, bytes |-> bytes]}
    /\ UNCHANGED faulted

\* A call that needs memory when there is none left.
Fault(m, bytes) ==
    /\ Exhausted(m, bytes)
    /\ faulted' = TRUE
    /\ UNCHANGED <<mem, held>>

Next ==
    /\ ~faulted
    /\ \/ \E bytes \in Request : Allocate(bytes) \/ Fault(mem, bytes)
       \/ \E b \in held : Deallocate(b)
       \/ \E b \in held, bytes \in Request :
             Reallocate(b, bytes) \/ Fault(deallocate(mem, b), bytes)

Spec == Init /\ [][Next]_vars

-----------------------------------------------------------------------------
(* Properties.                                                             *)

Address == Nat \ {0}
Chunk == [at : Address, size : Nat \ {0}]
Block == [at : Address, bytes : Request]
Members == [free_list : [Classes -> Seq(Address)], start_free : Nat, end_free : Nat,
            heap_size : Nat, chunks : SUBSET Chunk]

TypeOK ==
    /\ mem \in Members
    /\ mem.start_free <= mem.end_free
    /\ held \subseteq Block
    /\ faulted \in BOOLEAN

(***************************************************************************)
(* NoOverlap: two free blocks, wherever they are listed, two held blocks,  *)
(* and the rest of the pool never share a unit of memory.                  *)
(***************************************************************************)
FreeApart(m) ==
    \A c, d \in Classes : \A i \in 1 .. Len(m.free_list[c]), j \in 1 .. Len(m.free_list[d]) :
        <<c, i>> # <<d, j>> => Apart(m.free_list[c][i], c + 1, m.free_list[d][j], d + 1)
FreeApartFromHeld(m, h) ==
    \A c \in Classes : \A i \in 1 .. Len(m.free_list[c]) : \A b \in h :
        Apart(m.free_list[c][i], c + 1, b.at, Units(b.bytes))
FreeApartFromPool(m) ==
    \A c \in Classes : \A i \in 1 .. Len(m.free_list[c]) :
        Apart(m.free_list[c][i], c + 1, m.start_free, BytesLeft(m))
HeldApart(h) ==
    \A b, d \in h : b # d => Apart(b.at, Units(b.bytes), d.at, Units(d.bytes))
HeldApartFromPool(m, h) ==
    \A b \in h : Apart(b.at, Units(b.bytes), m.start_free, BytesLeft(m))

NoOverlap ==
    /\ FreeApart(mem) /\ FreeApartFromHeld(mem, held) /\ FreeApartFromPool(mem)
    /\ HeldApart(held) /\ HeldApartFromPool(mem, held)

(***************************************************************************)
(* NothingLost: every unit that malloc gave and free did not take back is  *)
(* in a held block, on a list or in the pool, and these are nowhere else.  *)
(***************************************************************************)
Extent(a, n) == a .. a + n - 1
Accounted ==
    (UNION {UNION {Extent(mem.free_list[c][i], c + 1) : i \in 1 .. Len(mem.free_list[c])} :
               c \in Classes})
    \union (UNION {Extent(b.at, Units(b.bytes)) : b \in held})
    \union Extent(mem.start_free, BytesLeft(mem))
NothingLost == Accounted = UNION {Extent(c.at, c.size) : c \in mem.chunks}

(***************************************************************************)
(* HeapSizeExact: heap_size, which decides how much the next refill asks   *)
(* for, is the memory malloc gave to the pool, also after malloc failed.   *)
(***************************************************************************)
LargeAt == {b.at : b \in {d \in held : d.bytes > MAX_BYTES}}
HeapSizeExact ==
    mem.heap_size =
        Cardinality(UNION {Extent(c.at, c.size) : c \in {d \in mem.chunks : d.at \notin LargeAt}})

\* Every unit malloc gave is in one place, and heap_size counts those of the pool.
MemoryAccounted == TypeOK /\ NothingLost /\ HeapSizeExact

\* allocate, deallocate and reallocate keep the promise of an allocator: what a
\* call returns overlaps no block a caller still holds (alloc.cpp:103-138).
Promise == INSTANCE BlockStore
KeepsPromise == Promise!Spec
=============================================================================
