----------------------------- MODULE ForwardList -----------------------------
(***************************************************************************)
(* zstl::ForwardList, the singly linked list of stl_supplement: the        *)
(* pointer operations of src/forward_list/algorithm.cc and the members of  *)
(* ForwardList that are one or two of them.  As the source says            *)
(* (algorithm.h:10-16) none of them looks at the value of a node, so nodes *)
(* are bare addresses here.                                                *)
(*                                                                         *)
(* A list owns a heap-allocated header: the header's `next` is the first   *)
(* node, its `prev` the last one (or the header itself), its `count` the   *)
(* size.  swap and move assignment exchange the headers of two lists.      *)
(*                                                                         *)
(* `where` is what the caller knows of a node: the list its iterators      *)
(* belong to, or that it was extracted, or freed.  No pointer operation    *)
(* reads it; it says which calls are legal, and the invariants compare it  *)
(* with what the pointers say.                                             *)
(***************************************************************************)
EXTENDS Naturals, FiniteSets

CONSTANTS
    Node,      \* addresses of LinkedNode objects
    Header,    \* addresses of Header objects
    List,      \* ForwardList objects, all of them constructed
    Nil,       \* nullptr
    Free,      \* where[n]: not allocated
    User       \* where[n]: extracted, in the caller's hands

ASSUME Addresses ==
    /\ Node \cap Header = {}
    /\ Nil \notin Node \cup Header
    /\ {Free, User} \cap Header = {}
    /\ Free # User


VARIABLES
    header_,   \* header_[l]: the header list l owns
    next,      \* the `next` member of nodes and headers
    prev,      \* the `prev` member of headers: the last node
    count,     \* the `count` member of headers
    where      \* the list a node belongs to, User or Free

vars == <<header_, next, prev, count, where>>

Addr == Node \cup Header

\* Each list owns a header of its own.
Injective(f) == \A l, m \in List : f[l] = f[m] => l = m

\* swap and move assignment keep the headers distinct: the destructor of each
\* list (forward_list_fwd.h:55-59) frees the one it owns.
TypeOK ==
    /\ header_ \in {f \in [List -> Header] : Injective(f)}
    /\ next \in [Addr -> Node \cup {Nil}]
    /\ prev \in [Header -> Addr]
    /\ count \in [Header -> Nat]
    /\ where \in [Node -> Header \cup {Free, User}]

\* ForwardListBase(): every list allocates a header of its own and resets it.
Init ==
    /\ header_ \in {f \in [List -> Header] : Injective(f)}
    /\ next = [a \in Addr |-> Nil]
    /\ prev = [h \in Header |-> h]
    /\ count = [h \in Header |-> 0]
    /\ where = [n \in Node |-> Free]

------------------------------------------------------------------------------
(* The pointer operations of algorithm.cc, as values of next and prev.     *)

PushFrontNext(nx, h, n)  == [nx EXCEPT ![n] = nx[h], ![h] = n]
\* Mutant: the first node of a list is not recorded as its last one.
PushFrontNoPrev(pv, nx, h, n) == pv

PushFrontPrev(pv, nx, h, n) == IF nx[h] = Nil THEN [pv EXCEPT ![h] = n] ELSE pv

\* push_back never writes new_node->next: it relies on its being nullptr.
PushBackNext(nx, pv, h, n) ==
    IF pv[h] # h THEN [nx EXCEPT ![pv[h]] = n] ELSE [nx EXCEPT ![h] = n]
PushBackPrev(pv, h, n)   == [pv EXCEPT ![h] = n]

InsertAfterNext(nx, pos, n)    == [nx EXCEPT ![n] = nx[pos], ![pos] = n]
InsertAfterPrev(pv, h, pos, n) == IF pos = pv[h] THEN [pv EXCEPT ![h] = n] ELSE pv

\* The extracted node's own link is reset.
ExtractFrontNext(nx, h) == [nx EXCEPT ![h] = nx[nx[h]], ![nx[h]] = Nil]
ExtractFrontPrev(pv, nx, h) == IF nx[nx[h]] = Nil THEN [pv EXCEPT ![h] = h] ELSE pv

\* Mutant: the extracted node keeps its link.
ExtractAfterKeepsLink(nx, pos) == [nx EXCEPT ![pos] = nx[nx[pos]]]

ExtractAfterNext(nx, pos) == [nx EXCEPT ![pos] = nx[nx[pos]], ![nx[pos]] = Nil]
ExtractAfterPrev(pv, nx, h, pos) ==
    IF nx[pos] = pv[h] THEN [pv EXCEPT ![h] = pos] ELSE pv

------------------------------------------------------------------------------
(* Nodes and positions.                                                    *)

Members(h) == {n \in Node : where[n] = h}

\* The iterators of the list: before_begin() and one per element.
Positions(h) == {h} \cup Members(h)

\* The links once the caller has a node to link: create_node sets the next of a
\* new node to nullptr; a node extracted earlier is passed as it is.
NodeReady(n) == IF where[n] = Free THEN [next EXCEPT ![n] = Nil] ELSE next

Linkable(n) == where[n] \in {Free, User}

------------------------------------------------------------------------------
(* The members of ForwardList.  l is the list object, h its header.        *)

\* push_front(val), emplace_front(args), push_front(Node*)
PushFront(l, n) ==
    LET h == header_[l]  nx == NodeReady(n) IN
    /\ Linkable(n)
    /\ prev' = PushFrontPrev(prev, nx, h, n)
    /\ next' = PushFrontNext(nx, h, n)
    /\ count' = [count EXCEPT ![h] = @ + 1]
    /\ where' = [where EXCEPT ![n] = h]
    /\ UNCHANGED header_

\* push_back(val), emplace_back(args), push_back(Node*)
PushBack(l, n) ==
    LET h == header_[l]  nx == NodeReady(n) IN
    /\ Linkable(n)
    /\ next' = PushBackNext(nx, prev, h, n)
    /\ prev' = PushBackPrev(prev, h, n)
    /\ count' = [count EXCEPT ![h] = @ + 1]
    /\ where' = [where EXCEPT ![n] = h]
    /\ UNCHANGED header_

\* insert_after(pos, val), emplace_after(pos, args), insert_after(pos, Node*)
InsertAfter(l, pos, n) ==
    LET h == header_[l]  nx == NodeReady(n) IN
    /\ Linkable(n)
    /\ pos \in Positions(h)
    /\ prev' = InsertAfterPrev(prev, h, pos, n)
    /\ next' = InsertAfterNext(nx, pos, n)
    /\ count' = [count EXCEPT ![h] = @ + 1]
    /\ where' = [where EXCEPT ![n] = h]
    /\ UNCHANGED header_

\* extract_front() leaves the node with the caller, pop_front() drops it.
TakeFront(l, to) ==
    LET h == header_[l] IN
    /\ next[h] # Nil
    /\ count' = [count EXCEPT ![h] = @ - 1]
    /\ next' = ExtractFrontNext(next, h)
    /\ prev' = ExtractFrontPrev(prev, next, h)
    /\ where' = [where EXCEPT ![next[h]] = to]
    /\ UNCHANGED header_

\* extract_after(pos) leaves the node with the caller, erase_after(pos) drops it.
TakeAfter(l, pos, to) ==
    LET h == header_[l] IN
    /\ pos \in Positions(h)
    /\ next[pos] # Nil
    /\ count' = [count EXCEPT ![h] = @ - 1]
    /\ next' = ExtractAfterNext(next, pos)
    /\ prev' = ExtractAfterPrev(prev, next, h, pos)
    /\ where' = [where EXCEPT ![next[pos]] = to]
    /\ UNCHANGED header_

\* clear(): drops the nodes from the front, then reset(). A freed node keeps
\* whatever was in its next.
Clear(l) ==
    LET h == header_[l] IN
    /\ where' = [n \in Node |-> IF n \in Members(h) THEN Free ELSE where[n]]
    /\ next' = [next EXCEPT ![h] = Nil]
    /\ prev' = [prev EXCEPT ![h] = h]
    /\ count' = [count EXCEPT ![h] = 0]
    /\ UNCHANGED header_

\* Mutant: the shortcut for two elements, push_back(extract_front()), for any size.
ReverseRotates(l) ==
    LET h == header_[l]  n == next[h] IN
    /\ count[h] >= 2
    /\ next' = PushBackNext(ExtractFrontNext(next, h), prev, h, n)
    /\ prev' = PushBackPrev(prev, h, n)
    /\ UNCHANGED <<header_, count, where>>

\* reverse(): the nodes are extracted from the front one by one and pushed to
\* the front in the same order, so each ends up before its old predecessor.
\* The count is left as it is.
Before(nx, h, S, n) == CHOOSE p \in S \cup {h} : nx[p] = n

ReverseNext(nx, h, last, S) ==
    [a \in Addr |->
        IF a = h THEN last
        ELSE IF a \notin S THEN nx[a]
        ELSE IF Before(nx, h, S, a) = h THEN Nil ELSE Before(nx, h, S, a)]

Reverse(l) ==
    LET h == header_[l] IN
    /\ count[h] >= 2
    /\ next' = ReverseNext(next, h, prev[h], Members(h))
    /\ prev' = [prev EXCEPT ![h] = next[h]]
    /\ UNCHANGED <<header_, count, where>>

\* Mutant: the header is copied, not exchanged.
SwapOneSided(l, m) ==
    /\ header_' = [header_ EXCEPT ![l] = header_[m]]
    /\ UNCHANGED <<next, prev, count, where>>

\* swap(other), and operator=(ForwardList&&), which is a swap.
Swap(l, m) ==
    /\ header_' = [header_ EXCEPT ![l] = header_[m], ![m] = header_[l]]
    /\ UNCHANGED <<next, prev, count, where>>

SpliceNext(nx, pos, o, olast) ==
    [nx EXCEPT ![pos] = nx[o], ![olast] = nx[pos], ![o] = Nil]

\* Mutant: the nodes are spliced one by one after pos, as the range form does.
SpliceAllByNodes(l, pos, m) ==
    LET h == header_[l]  o == header_[m]
        nx == ReverseNext(next, o, prev[o], Members(o))
    IN
    /\ pos \in Positions(h)
    /\ next[o] # Nil
    /\ prev' = [prev EXCEPT ![h] = IF pos = prev[h] THEN next[o] ELSE @, ![o] = o]
    /\ next' = SpliceNext(nx, pos, o, next[o])
    /\ count' = [count EXCEPT ![h] = @ + count[o], ![o] = 0]
    /\ where' = [n \in Node |-> IF n \in Members(o) THEN h ELSE where[n]]
    /\ UNCHANGED header_

\* splice_after(pos, list): the whole of another list, in constant time.
SpliceAll(l, pos, m) ==
    LET h == header_[l]  o == header_[m] IN
    /\ pos \in Positions(h)
    /\ next[o] # Nil
    /\ prev' = [prev EXCEPT ![h] = IF pos = prev[h] THEN prev[o] ELSE @, ![o] = o]
    /\ next' = SpliceNext(next, pos, o, prev[o])
    /\ count' = [count EXCEPT ![h] = @ + count[o], ![o] = 0]
    /\ where' = [n \in Node |-> IF n \in Members(o) THEN h ELSE where[n]]
    /\ UNCHANGED header_

\* splice_after(pos, list, it): the node after `it`; list may be *this, when
\* the caller must not ask to put a node after itself.
SpliceOne(l, pos, m, it) ==
    LET h == header_[l]  o == header_[m]  n == next[it]
        nx == ExtractAfterNext(next, it)
        pv == ExtractAfterPrev(prev, next, o, it)
    IN
    /\ pos \in Positions(h)
    /\ it \in Positions(o)
    /\ n # Nil
    /\ pos # n
    /\ next' = InsertAfterNext(nx, pos, n)
    /\ prev' = InsertAfterPrev(pv, h, pos, n)
    /\ count' = [[count EXCEPT ![o] = @ - 1] EXCEPT ![h] = @ + 1]
    /\ where' = [where EXCEPT ![n] = h]
    /\ UNCHANGED header_

Next ==
    \E l \in List :
        \/ \E n \in Node : PushFront(l, n)
        \/ \E n \in Node : PushBack(l, n)
        \/ \E n \in Node, pos \in Addr : InsertAfter(l, pos, n)
        \/ \E to \in {User, Free} : TakeFront(l, to)
        \/ \E to \in {User, Free}, pos \in Addr : TakeAfter(l, pos, to)
        \/ Clear(l)
        \/ Reverse(l)
        \/ \E m \in List \ {l} : Swap(l, m)
        \/ \E m \in List \ {l}, pos \in Addr : SpliceAll(l, pos, m)
        \/ \E m \in List, pos, it \in Addr : SpliceOne(l, pos, m, it)

Spec == Init /\ [][Next]_vars

------------------------------------------------------------------------------
(* Properties.                                                             *)

\* From h, k links of nx lead through exactly the nodes S, without meeting one
\* twice, to `last`, whose own link is nullptr.
Chain(nx, h, k, last, S) ==
    \E f \in [0..k -> S \cup {h}] :
        /\ f[0] = h
        /\ \A i, j \in 0..k : f[i] = f[j] => i = j
        /\ \A i \in 0..k : i < k => nx[f[i]] = f[i + 1]
        /\ nx[f[k]] = Nil
        /\ last = f[k]
        /\ S = {f[i] : i \in 1..k}

\* Header, chain and ownership agree after every call: `prev` is the last
\* node, `count` the number of nodes, no node is lost or shared by two lists,
\* and no cycle is ever built (the header updates of algorithm.cc:11-85).
ChainInv == \A h \in Header : Chain(next, h, count[h], prev[h], Members(h))

\* push_back relies on the next of the node it is given being nullptr: every
\* extract must have reset it (algorithm.cc:50-51, 80).
LooseReset == \A n \in Node : where[n] = User => next[n] = Nil

\* The assertions of push_front and push_back (algorithm.cc:15, 29-30): the
\* first link, the last-node pointer and the count agree on emptiness.
EmptyAgree ==
    \A h \in Header : /\ (next[h] = Nil) <=> (prev[h] = h)
                      /\ (next[h] = Nil) <=> (count[h] = 0)

\* No use after free: what a header or a live node points to is a live node
\* of the same list.
NoDangling ==
    \A h \in Header : \A p \in Positions(h) \cup {prev[h]} :
        next[p] # Nil => next[p] \in Members(h)

==============================================================================
