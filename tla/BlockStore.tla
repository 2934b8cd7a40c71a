----------------------------- MODULE BlockStore -----------------------------
(***************************************************************************)
(* What an allocator promises its callers: a block handed out overlaps no  *)
(* block that is still held, and stays held until it is given back.        *)
(* Addresses and sizes are counted in units; a request may be refused.     *)
(***************************************************************************)
EXTENDS Integers

CONSTANT Units(_)       \* the units a request of that many bytes occupies

VARIABLE held           \* the blocks in callers' hands

Apart(a, n, b, k) == a + n <= b \/ b + k <= a

FreshAmong(blocks, b) ==
    \A h \in blocks : Apart(b.at, Units(b.bytes), h.at, Units(h.bytes))

Init == held = {}

Allocate(bytes, at) ==
    LET b == [at |-> at, bytes |-> bytes]
    IN  FreshAmong(held, b) /\ held' = held \union {b}

Deallocate(b) == held' = held \ {b}

Reallocate(b, bytes, at) ==
    LET c == [at |-> at, bytes |-> bytes]
    IN  FreshAmong(held \ {b}, c) /\ held' = (held \ {b}) \union {c}

Next == \/ \E b \in held : Deallocate(b)
        \/ \E c \in held' : Allocate(c.bytes, c.at)
        \/ \E b \in held : \E c \in held' : Reallocate(b, c.bytes, c.at)

Spec == Init /\ [][Next]_held
=============================================================================
