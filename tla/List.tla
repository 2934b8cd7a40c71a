--------------------------------- MODULE List ---------------------------------
(***************************************************************************)
(* zstl::list (list_impl.h, stl_list.h): circular doubly linked chains     *)
(* closed by a sentinel.  The members that loop take one step per          *)
(* iteration; their locals are `at` (the loop that runs) and the cursors   *)
(* x, y, i, fill.                                                          *)
(*                                                                         *)
(* A list object's sentinel bears the object's name: swapping two node_    *)
(* pointers renames the two sentinels, which is all a caller can tell.     *)
(* The header does not compile as it stands (a parenthesis is missing in   *)
(* several declarations); this is the code with them in place.             *)
(***************************************************************************)
EXTENDS Integers, FiniteSets, Sequences

CONSTANTS
    Node,      \* the element nodes the allocator can hand out
    List,      \* the caller's list objects
    Carry,     \* a local list: carry of sort, tmp of operator=
    Fills,     \* how many of sort's 64 counters this many nodes can reach
    Value,     \* the values of elements, compared with <
    Nil,       \* the null pointer
    MaxCount   \* bound: the largest count passed to a member

Counter == 0..Fills - 1
Object == List \cup {Carry} \cup Counter
Cell == Node \cup Object

ASSUME Sorts ==
    /\ Node \cap Object = {} /\ List \cap ({Carry} \cup Counter) = {} /\ Carry \notin Counter
    /\ Nil \notin Cell /\ Value \subseteq Int /\ Nil \notin Value
    /\ Fills \in Nat \ {0} /\ MaxCount \in Nat

\* The 64 counters are enough: a machine cannot hold 2^64 nodes.
ASSUME Capacity == IsFiniteSet(Node) /\ Cardinality(Node) < 2^Fills

VARIABLES
    next, prev,  \* the links of a cell
    data,        \* the value of the object in a node
    own,         \* the list whose chain a cell is in, Nil when it is in none
    call,        \* the looping call in progress
    at,          \* the loop it is in
    x, y,        \* its cursors
    i, fill,     \* its counters
    back         \* where a loop that sort or operator= runs goes on after it

links == <<next, prev, data, own>>
regs == <<call, at, x, y, i, fill, back>>
vars == <<links, regs>>

Idle == [op |-> "none"]

\* empty_init: an allocated sentinel linked to itself.  The locals of sort and
\* operator= are constructed when the call starts; that is here when the last
\* one of them was emptied.
Init ==
    /\ next = [c \in Cell |-> IF c \in Object THEN c ELSE Nil]
    /\ prev = next
    /\ data = [n \in Node |-> Nil]
    /\ own = next
    /\ call = Idle /\ at = "idle" /\ back = "idle"
    /\ x = Nil /\ y = Nil /\ i = 0 /\ fill = 0

\* The list has a sentinel: it was not moved from.
Live(l) == own[l] = l
Positions(l) == {c \in Cell : own[c] = l}
Members(l) == Positions(l) \ {l}
Empty(l) == next[l] = l

-----------------------------------------------------------------------------
(* The links.                                                              *)

\* insert and emplace: create_node before pos.
Link(pos, n, v) ==
    /\ next' = [next EXCEPT ![n] = pos, ![prev[pos]] = n]
    /\ prev' = [prev EXCEPT ![n] = prev[pos], ![pos] = n]
    /\ data' = [data EXCEPT ![n] = v]
    /\ own' = [own EXCEPT ![n] = own[pos]]

\* erase(pos): the node is unlinked and destroyed.
Unlink(c) ==
    /\ next' = [next EXCEPT ![prev[c]] = next[c], ![c] = Nil]
    /\ prev' = [prev EXCEPT ![next[c]] = prev[c], ![c] = Nil]
    /\ data' = [data EXCEPT ![c] = Nil]
    /\ own' = [own EXCEPT ![c] = Nil]

\* S is the nodes from first up to, not including, last.
IsRun(S, first, last) ==
    /\ first \in S /\ last \notin S
    /\ \A c \in S : next[c] \in S \cup {last} /\ (c # first => prev[c] \in S)

\* transfer(pos, first, last): the nodes S go before pos.  The three writes of
\* next, and the three of prev, each read what the ones before left alone.
Transfer(pos, first, last, S) ==
    /\ next' = [next EXCEPT ![prev[pos]] = first, ![prev[first]] = last, ![prev[last]] = pos]
    /\ prev' = [prev EXCEPT ![pos] = prev[last], ![last] = prev[first], ![first] = prev[pos]]
    /\ own' = [c \in Cell |-> IF c \in S THEN own[pos] ELSE own[c]]
    /\ UNCHANGED data

\* swap(node, other.node): the sentinels o and p change owners.
Exchange(o, p) ==
    LET name(c) == IF c = o THEN p ELSE IF c = p THEN o ELSE c IN
    /\ next' = [c \in Cell |-> name(next[name(c)])]
    /\ prev' = [c \in Cell |-> name(prev[name(c)])]
    /\ own' = [c \in Cell |-> name(own[name(c)])]
    /\ UNCHANGED data

-----------------------------------------------------------------------------
(* Members that do not loop.                                               *)

Free == {n \in Node : own[n] = Nil}

\* Mutant: the new node goes after pos.
InsertNext(l, pos, n, v) ==
    /\ at = "idle" /\ pos \in Positions(l) /\ n \in Free
    /\ Link(next[pos], n, v)
    /\ UNCHANGED regs

Insert(l, pos, n, v) ==
    /\ at = "idle" /\ pos \in Positions(l) /\ n \in Free
    /\ Link(pos, n, v)
    /\ UNCHANGED regs

Erase(l, pos) ==
    /\ at = "idle" /\ pos \in Members(l)
    /\ Unlink(pos)
    /\ UNCHANGED regs

PushFront(l, n, v) == Live(l) /\ Insert(l, next[l], n, v)
PushBack(l, n, v) == Live(l) /\ Insert(l, l, n, v)
PopFront(l) == Live(l) /\ ~Empty(l) /\ Erase(l, next[l])
PopBack(l) == Live(l) /\ ~Empty(l) /\ Erase(l, prev[l])

Swap(l, m) == at = "idle" /\ Exchange(l, m) /\ UNCHANGED regs

\* reverse(): swaps the links of every node, then of the sentinel; nothing to do
\* for a list of at most one.
Reverse(l) ==
    /\ at = "idle" /\ Live(l)
    /\ next' = [c \in Cell |-> IF c \in Positions(l) THEN prev[c] ELSE next[c]]
    /\ prev' = [c \in Cell |-> IF c \in Positions(l) THEN next[c] ELSE prev[c]]
    /\ UNCHANGED <<data, own, regs>>

\* splice(pos, x).
SpliceAll(l, pos, m) ==
    /\ at = "idle" /\ Live(m) /\ pos \in Positions(l)
    /\ l # m /\ ~Empty(m)
    /\ Transfer(pos, next[m], m, Members(m))
    /\ UNCHANGED regs

\* splice(pos, x, it): nothing happens when it is there already.
SpliceOne(l, pos, m, it) ==
    /\ at = "idle" /\ pos \in Positions(l) /\ it \in Members(m)
    /\ pos # it /\ pos # next[it]
    /\ Transfer(pos, it, next[it], {it})
    /\ UNCHANGED regs

\* splice(pos, x, first, last): transfer returns at once when pos is last.
SpliceRange(l, pos, m, first, last, S) ==
    /\ at = "idle" /\ pos \in Positions(l) /\ first \in Members(m) /\ last \in Positions(m)
    /\ IsRun(S, first, last) /\ pos \notin S
    /\ pos # last
    /\ Transfer(pos, first, last, S)
    /\ UNCHANGED regs

-----------------------------------------------------------------------------
(* Loops.                                                                  *)

\* The elements of list l, front first: each its node and its value.
Elements(l) ==
    LET size == Cardinality(Members(l))
        step[k \in 0..size] == IF k = 0 THEN l ELSE next[step[k - 1]]
    IN  [k \in 1..size |-> [node |-> step[k], data |-> data[step[k]]]]

\* How many elements come before pos.
Index(l, pos) == Cardinality({k \in 1..Len(Elements(l)) :
                    \E j \in k + 1 .. Len(Elements(l)) + 1 :
                        pos = IF j > Len(Elements(l)) THEN l ELSE Elements(l)[j].node})

Lists == [l \in List |-> IF Live(l) THEN Elements(l) ELSE Nil]

\* A call's arguments; `was` is what the lists were, for the properties.
Arg(op, l, m, k, n, v) ==
    [op |-> op, l |-> l, m |-> m, i |-> k, n |-> n, v |-> v, was |-> Lists]

Begin(c, loop, p, q) ==
    /\ at = "idle" /\ Live(c.l)
    /\ call' = c /\ at' = loop /\ x' = p /\ y' = q /\ i' = c.n
    /\ UNCHANGED <<links, fill, back>>

CallClear(l) == Begin(Arg("clear", l, l, 0, 0, Nil), "clear", next[l], l)
CallRemove(l, v) == Begin(Arg("remove", l, l, 0, 0, v), "remove", next[l], Nil)
CallUnique(l) == ~Empty(l) /\ Begin(Arg("unique", l, l, 0, 0, Nil), "unique", next[l], Nil)
CallMerge(l, m) ==
    Live(m) /\ l # m /\ Begin(Arg("merge", l, m, 0, 0, Nil), "merge", next[l], next[m])

\* The allocator has n nodes to give; where it has not, it throws.
Room(n) == n <= Cardinality(Free)

\* assign(n, v) and assign(first, last), the range being all of another list.
CallAssign(l, n, v) ==
    /\ Room(n - Cardinality(Members(l)))
    /\ Begin(Arg("assign", l, l, 0, n, v), "clear", next[l], l)
CallAssignRange(l, m) ==
    /\ Live(m) /\ l # m /\ Room(Cardinality(Members(m)) - Cardinality(Members(l)))
    /\ Begin(Arg("assign_range", l, m, 0, 0, Nil), "clear", next[l], l)

\* insert(pos, n, v); resize(n) that grows is one at the end.
CallInsert(l, pos, n, v) ==
    /\ pos \in Positions(l) /\ Room(n)
    /\ Begin(Arg("insert", l, l, Index(l, pos), n, v), "fill", Nil, pos)
CallInsertRange(l, pos, m) ==
    /\ pos \in Positions(l) /\ Live(m) /\ l # m /\ Room(Cardinality(Members(m)))
    /\ Begin(Arg("insert_range", l, m, Index(l, pos), 0, Nil), "range", next[m], pos)

\* The constructor of local lists T.
Construct(T) ==
    /\ next' = [c \in Cell |-> IF c \in T THEN c ELSE next[c]]
    /\ prev' = [c \in Cell |-> IF c \in T THEN c ELSE prev[c]]
    /\ own' = [c \in Cell |-> IF c \in T THEN c ELSE own[c]]
    /\ UNCHANGED data

\* operator=(list const&) builds tmp from other, operator=(list&&) clears first.
\* The object assigned to may be moved from.
CallCopy(l, m) ==
    /\ at = "idle" /\ Live(m) /\ Room(Cardinality(Members(m)))
    /\ Construct({Carry})
    /\ call' = Arg("copy", l, m, 0, 0, Nil) /\ at' = "range" /\ x' = next[m] /\ y' = Carry
    /\ UNCHANGED <<i, fill, back>>
CallMove(l, m) ==
    /\ at = "idle" /\ Live(m)
    /\ call' = Arg("move", l, m, 0, 0, Nil)
    /\ IF Live(l) THEN at' = "clear" /\ x' = next[l] /\ y' = l
                  ELSE at' = "take_over" /\ UNCHANGED <<x, y>>
    /\ UNCHANGED <<links, i, fill, back>>

\* sort(): nothing to do for a list of less than two.
CallSort(l) ==
    /\ at = "idle" /\ Live(l) /\ next[next[l]] # l
    /\ Construct({Carry} \cup Counter)
    /\ call' = Arg("sort", l, l, 0, 0, Nil) /\ at' = "deal"
    /\ UNCHANGED <<x, y, i, fill, back>>

Go(loop) == at' = loop /\ UNCHANGED <<call, back>>
Return == at' = "idle" /\ call' = Idle /\ x' = Nil /\ y' = Nil /\ i' = 0 /\ fill' = 0 /\ back' = "idle"

\* clear() of list y: x is the next node to erase.
Clearing ==
    /\ at = "clear"
    /\ \/ /\ x # y
          /\ Unlink(x) /\ x' = next[x]
          /\ UNCHANGED <<call, at, y, i, fill, back>>
       \/ /\ x = y /\ UNCHANGED links
          /\ CASE call.op = "assign" -> Go("fill") /\ UNCHANGED <<x, y, i, fill>>
               [] call.op = "assign_range" -> Go("range") /\ x' = next[call.m] /\ UNCHANGED <<y, i, fill>>
               [] call.op = "move" -> Go("take_over") /\ UNCHANGED <<x, y, i, fill>>
               [] OTHER -> Return

\* node = other.node; other.node = nullptr.
TakeOver ==
    /\ at = "take_over"
    /\ LET l == call.l  m == call.m
           name(c) == IF c = m THEN l ELSE c
           source(c) == IF c = l THEN m ELSE c
       IN  IF l = m
           THEN /\ next' = [next EXCEPT ![l] = Nil]
                /\ prev' = [prev EXCEPT ![l] = Nil]
                /\ own' = [own EXCEPT ![l] = Nil]
           ELSE /\ next' = [c \in Cell |-> IF c = m THEN Nil ELSE name(next[source(c)])]
                /\ prev' = [c \in Cell |-> IF c = m THEN Nil ELSE name(prev[source(c)])]
                /\ own' = [c \in Cell |-> IF c = m THEN Nil ELSE name(own[source(c)])]
    /\ UNCHANGED data
    /\ Return

\* insert(y, n, v): i more.
Filling ==
    /\ at = "fill"
    /\ \/ /\ i # 0
          /\ \E n \in Free : Link(y, n, call.v)
          /\ i' = i - 1
          /\ UNCHANGED <<call, at, x, y, fill, back>>
       \/ i = 0 /\ UNCHANGED links /\ Return

\* insert(y, first, last): x is the element of list call.m to copy next.  When
\* operator= has filled tmp, it swaps with it and destroys it.
Ranging ==
    /\ at = "range"
    /\ \/ /\ x # call.m
          /\ \E n \in Free : Link(y, n, data[x])
          /\ x' = next'[x]
          /\ UNCHANGED <<call, at, y, i, fill, back>>
       \/ x = call.m /\ call.op # "copy" /\ UNCHANGED links /\ Return
       \/ x = call.m /\ call.op = "copy"
          /\ Exchange(call.l, Carry)
          /\ IF own'[Carry] = Carry
             THEN Go("clear") /\ x' = next'[Carry] /\ y' = Carry /\ UNCHANGED <<i, fill>>
             ELSE Return

\* remove(value), remove_if(pred).
Removing ==
    /\ at = "remove"
    /\ \/ /\ x # call.l
          /\ IF data[x] = call.v THEN Unlink(x) ELSE UNCHANGED links
          /\ x' = next[x]
          /\ UNCHANGED <<call, at, y, i, fill, back>>
       \/ x = call.l /\ UNCHANGED links /\ Return

\* unique(): x is the last element kept.
Uniquing ==
    /\ at = "unique"
    /\ \/ /\ next[x] # call.l
          /\ IF data[next[x]] = data[x]
             THEN Unlink(next[x]) /\ UNCHANGED x
             ELSE UNCHANGED links /\ x' = next[x]
          /\ UNCHANGED <<call, at, y, i, fill, back>>
       \/ next[x] = call.l /\ UNCHANGED links /\ Return

\* The lists a merge works on: those of the call, or two of sort's locals.
Into == IF call.op = "merge" THEN call.l ELSE i
From == CASE call.op = "merge" -> call.m
          [] back = "carried" -> Carry
          [] OTHER -> i - 1

Merged == IF call.op = "merge" THEN Return ELSE at' = back /\ UNCHANGED <<call, x, y, i, fill, back>>

\* Mutant: of two equal elements the argument's goes first.
Precedes_or_equal(n, m) == data[n] <= data[m]

\* comp, operator< when the caller passes none.
Precedes(n, m) == data[n] < data[m]

\* merge: x in the list, y in its argument.
Merging ==
    /\ at = "merge"
    /\ \/ /\ x # Into /\ y # From /\ Precedes(y, x)
          /\ Transfer(x, y, next[y], {y}) /\ y' = next[y]
          /\ UNCHANGED <<call, at, x, i, fill, back>>
       \/ /\ x # Into /\ y # From /\ ~Precedes(y, x)
          /\ x' = next[x]
          /\ UNCHANGED <<links, call, at, y, i, fill, back>>
       \/ /\ x = Into /\ y # From
          /\ \E S \in SUBSET Members(From) : IsRun(S, y, From) /\ Transfer(Into, y, From, S)
          /\ Merged
       \/ y = From /\ UNCHANGED links /\ Merged

\* sort: the next element goes into carry.
Dealing ==
    /\ at = "deal"
    /\ LET l == call.l IN
       \/ /\ ~Empty(l)
          /\ Transfer(next[Carry], next[l], next[next[l]], {next[l]})
          /\ i' = 0 /\ Go("carry") /\ UNCHANGED <<x, y, fill>>
       \/ /\ Empty(l) /\ UNCHANGED links
          /\ i' = 1 /\ Go("settle") /\ UNCHANGED <<x, y, fill>>

\* sort: carry merges with the counters it finds full, up to an empty one.
Carrying ==
    /\ at = "carry"
    /\ \/ /\ i < fill /\ ~Empty(i)
          /\ at' = "merge" /\ back' = "carried" /\ x' = next[i] /\ y' = next[Carry]
          /\ UNCHANGED <<links, call, i, fill>>
       \/ /\ i = fill \/ Empty(i)
          /\ Exchange(Carry, i)
          /\ fill' = IF i = fill THEN fill + 1 ELSE fill
          /\ Go("deal") /\ UNCHANGED <<x, y, i>>

\* Mutant: i stays where it is.
CarriedStays ==
    /\ at = "carried"
    /\ Exchange(Carry, i)
    /\ Go("carry") /\ UNCHANGED <<x, y, i, fill>>

Carried ==
    /\ at = "carried"
    /\ Exchange(Carry, i) /\ i' = i + 1
    /\ Go("carry") /\ UNCHANGED <<x, y, fill>>

\* Mutant: the last counter is left out.
SettlingShort ==
    /\ at = "settle"
    /\ \/ /\ i + 1 < fill
          /\ at' = "merge" /\ back' = "settled" /\ x' = next[i] /\ y' = next[i - 1]
          /\ UNCHANGED <<links, call, i, fill>>
       \/ i + 1 >= fill /\ Exchange(call.l, fill - 1) /\ Return

\* sort: each counter takes in the one below; the last one is the list.
Settling ==
    /\ at = "settle"
    /\ \/ /\ i # fill
          /\ at' = "merge" /\ back' = "settled" /\ x' = next[i] /\ y' = next[i - 1]
          /\ UNCHANGED <<links, call, i, fill>>
       \/ i = fill /\ Exchange(call.l, fill - 1) /\ Return

Settled ==
    /\ at = "settled"
    /\ i' = i + 1
    /\ Go("settle") /\ UNCHANGED <<links, x, y, fill>>

Loop ==
    \/ Clearing \/ TakeOver \/ Filling \/ Ranging \/ Removing \/ Uniquing
    \/ Merging \/ Dealing \/ Carrying \/ Carried \/ Settling \/ Settled

Next ==
    \/ Loop
    \/ \E l \in List :
        \/ \E pos \in Positions(l), n \in Free, v \in Value : Insert(l, pos, n, v)
        \/ \E n \in Free, v \in Value : PushFront(l, n, v) \/ PushBack(l, n, v)
        \/ \E pos \in Members(l) : Erase(l, pos)
        \/ PopFront(l)
        \/ PopBack(l)
        \/ Reverse(l)
        \/ CallClear(l)
        \/ CallUnique(l)
        \/ CallSort(l)
        \/ \E v \in Value : CallRemove(l, v)
        \/ \E n \in 0..MaxCount, v \in Value :
                \/ CallAssign(l, n, v)
                \/ \E pos \in Positions(l) : CallInsert(l, pos, n, v)
        \/ \E m \in List :
                \/ Swap(l, m)
                \/ CallCopy(l, m)
                \/ CallMove(l, m)
                \/ CallMerge(l, m)
                \/ CallAssignRange(l, m)
                \/ \E pos \in Positions(l) :
                    \/ SpliceAll(l, pos, m)
                    \/ CallInsertRange(l, pos, m)
                    \/ \E it \in Members(m) : SpliceOne(l, pos, m, it)
                    \/ \E first \in Members(m), last \in Positions(m), S \in SUBSET Members(m) :
                            SpliceRange(l, pos, m, first, last, S)

Spec == Init /\ [][Next]_vars

-----------------------------------------------------------------------------
(* Properties.                                                             *)

\* Every variable holds a value of its kind.
TypeOK ==
    /\ next \in [Cell -> Cell \cup {Nil}] /\ prev \in [Cell -> Cell \cup {Nil}]
    /\ data \in [Node -> Value \cup {Nil}] /\ own \in [Cell -> Object \cup {Nil}]
    /\ x \in Cell \cup {Nil} /\ y \in Cell \cup {Nil} /\ i \in Nat /\ fill \in 0..Fills

\* After every iteration of every loop, of transfer, reverse and swap included,
\* next and prev undo one another and stay within one chain, and a list's
\* sentinel is in its own chain.
Linked ==
    /\ TypeOK
    /\ \A c \in Cell : own[c] # Nil =>
            /\ next[c] \in Cell /\ own[next[c]] = own[c] /\ prev[next[c]] = c
            /\ prev[c] \in Cell /\ own[prev[c]] = own[c] /\ next[prev[c]] = c
    /\ \A o \in Object : own[o] \in {o, Nil}
    /\ \A n \in Node : own[n] # Nil => data[n] # Nil

\* The chains are linked both ways and complete at every iteration of every loop:
\* every node of a list is reached from its sentinel, so none is lost whatever
\* was spliced, merged or carried; sort and operator= leave nothing in their
\* local lists when they return.
Whole ==
    /\ Linked
    /\ \A o \in Object : own[o] = o =>
            Members(o) = {Elements(o)[k].node : k \in 1..Len(Elements(o))}
    /\ at = "idle" => \A o \in {Carry} \cup Counter : Members(o) = {}

\* How many elements of list o a cursor at c has still to pass.
Rest(o, c) == Len(Elements(o)) - Index(o, c)

\* More than one merge takes, and more than all the merges of one carry.
MergeBound == 3 * Cardinality(Node) + 4
CarryBound == 2 * (Fills + 2) * MergeBound

\* A bound on the steps the running loop has left.
Left ==
    LET dealing == at \in {"deal", "carry", "carried"} \/ (at = "merge" /\ back = "carried")
        deals == IF dealing THEN (Cardinality(Members(call.l)) + 1) * CarryBound ELSE 0
        merges == (Fills + 1 - i) * MergeBound
        after == Cardinality(Node) + MaxCount + 1
    IN  CASE at = "clear" -> Rest(y, x) + IF call.op = "copy" THEN 0 ELSE after
          [] at = "range" -> Rest(call.m, x) + IF call.op = "copy" THEN after ELSE 0
          [] at = "fill" -> i
          [] at = "remove" -> Rest(call.l, x)
          [] at = "unique" -> Rest(call.l, x)
          [] at = "merge" /\ call.op = "merge" -> Rest(Into, x) + 2 * Rest(From, y)
          [] at = "take_over" -> 0
          [] at = "deal" -> deals
          [] at \in {"carry", "settle"} -> deals + merges
          [] at = "merge" -> deals + merges - MergeBound + 2 + Rest(Into, x) + 2 * Rest(From, y)
          [] OTHER -> deals + merges - MergeBound + 1

\* Every iteration brings its loop nearer to the end, so no member runs for
\* ever, whatever it moves or erases under its own cursors.
Progress == [][at # "idle" /\ at' # "idle" => Left' < Left /\ Left' >= 0]_vars
===============================================================================
