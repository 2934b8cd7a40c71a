------------------------------ MODULE HashTable ------------------------------
(***************************************************************************)
(* zstl::HashTable (hash_table.h, hash_aux.h): chaining, a sentinel node   *)
(* at the head of every bucket, growth to the next prime when the load     *)
(* factor would pass one.  insertUnique and rehash take a step per         *)
(* iteration of their loops; `at` is where the running one is.             *)
(***************************************************************************)
EXTENDS Integers, FiniteSets, Sequences

CONSTANTS
    Node,      \* the element nodes the allocator can hand out
    Key,       \* the keys, which are the values and their own hash codes
    Blank,     \* the key of a value-initialised element
    Primes,    \* PRIME_LIST
    Buckets,   \* the bucket counts HashTable(n) is called with
    MaxHint,   \* bound: the largest argument of rehash
    Nil        \* the null pointer

ASSUME Parameters ==
    /\ Key \subseteq Nat /\ Blank \in Key /\ Nil \notin Node \cup Key /\ MaxHint \in Nat
    /\ Primes \in Seq(Nat \ {0}) /\ Len(Primes) > 0 /\ Buckets \subseteq Nat
    /\ IsFiniteSet(Node) /\ IsFiniteSet(Buckets)

\* The sentinels of the table before and of the table after a rehash.
MaxSlots == CHOOSE m \in Buckets \cup {Primes[k] : k \in 1..Len(Primes)} :
                \A n \in Buckets \cup {Primes[k] : k \in 1..Len(Primes)} : n <= m
Sentinel == {0, 1} \X (0..MaxSlots - 1)
Cell == Node \cup Sentinel

\* The sentinels are nodes of their own.
ASSUME Sentinels == Node \cap Sentinel = {} /\ Nil \notin Sentinel

VARIABLES
    next,      \* the chain, null at its end
    val,       \* the key in a constructed node, Nil in one that is free
    gen,       \* which sentinels the table holds: those <<gen, slot>>
    size,      \* tableSize()
    num,       \* numElements
    cleared,   \* clear() freed the sentinels and left their pointers
    at,        \* "idle" or where insertUnique or rehash is
    arg,       \* the key to insert, Nil in a call of rehash
    hint,      \* rehash's argument
    first, n, half,  \* lower_bound's locals
    old,       \* oldSize
    slot,      \* the bucket of the old table that is being emptied
    new        \* the node insertUnique constructed

chains == <<next, val, num>>
table == <<gen, size, cleared>>
locals == <<at, arg, hint, first, n, half, old, slot, new>>
vars == <<chains, table, locals>>

\* hashDivision(hash(key), tableSize()).
HashKey(k) == k % size

Slots == {<<gen, s>> : s \in 0..size - 1}
Old == {<<1 - gen, s>> : s \in 0..old - 1}
Free == {c \in Node : val[c] = Nil}

\* HashTable() has no bucket, HashTable(n) has n.
Init ==
    /\ gen = 0 /\ size \in Buckets
    /\ next = [c \in Cell |-> Nil]
    /\ val = [c \in Cell |-> IF c \in Slots THEN Blank ELSE Nil]
    /\ num = 0 /\ cleared = FALSE
    /\ at = "idle" /\ arg = Nil /\ hint = 0 /\ first = 0 /\ n = 0 /\ half = 0
    /\ old = 0 /\ slot = 0 /\ new = Nil

-----------------------------------------------------------------------------
(* rehash.                                                                 *)

Return == at' = "idle" /\ arg' = Nil /\ hint' = 0 /\ new' = Nil
Go(loop) == at' = loop /\ UNCHANGED <<arg, new>>
AfterRehash == IF arg = Nil THEN Return /\ UNCHANGED <<first, n, half, old, slot>>
               ELSE Go("insert") /\ UNCHANGED <<hint, first, n, half, old, slot>>

\* rehash(hint): nothing when there is a bucket for each of hint elements;
\* otherwise nextPrime(hint) calls lower_bound on the primes.
Rehashing ==
    /\ at = "rehash"
    /\ \/ hint <= size /\ AfterRehash
       \/ /\ hint > size
          /\ first' = 0 /\ n' = Len(Primes) /\ half' = Len(Primes) \div 2
          /\ Go("bound") /\ UNCHANGED <<hint, old, slot>>
    /\ UNCHANGED <<chains, table>>

\* One iteration of lower_bound (binary_search.h:44), whose half is that of the
\* whole range in every iteration; what it reads past the table is anything.
Bounding ==
    /\ at = "bound" /\ n > 0
    /\ \E less \in IF first + half < Len(Primes) THEN {Primes[first + half + 1] < hint} ELSE BOOLEAN :
          IF less THEN first' = first + half + 1 /\ n' = n - (half + 1)
                  ELSE n' = half /\ UNCHANGED first
    /\ UNCHANGED <<chains, table, at, arg, hint, half, old, slot, new>>

\* The old table is set aside, the new one gets its sentinels.
Growing ==
    /\ at = "bound" /\ n <= 0
    /\ old' = size /\ slot' = 0 /\ gen' = 1 - gen
    /\ size' = IF first >= Len(Primes) THEN Primes[Len(Primes)] ELSE Primes[first + 1]
    /\ next' = [c \in Cell |-> IF c \in Slots' THEN Nil ELSE next[c]]
    /\ val' = [c \in Cell |-> IF c \in Slots' THEN Blank ELSE val[c]]
    /\ first' = 0 /\ n' = 0 /\ half' = 0
    /\ Go("move") /\ UNCHANGED <<num, cleared, hint>>

\* Mutant: the bucket is the one of the old table.
MovingOldHash ==
    /\ at = "move" /\ slot < old
    /\ LET head == <<1 - gen, slot>>
           real == next[head]
       IN  \/ /\ real # Nil
              /\ LET to == <<gen, slot % size>> IN
                 next' = [next EXCEPT ![head] = next[real], ![real] = next[to], ![to] = real]
              /\ UNCHANGED slot
           \/ real = Nil /\ slot' = slot + 1 /\ UNCHANGED next
    /\ UNCHANGED <<val, num, table, at, arg, hint, first, n, half, old, new>>

\* The first node of an old bucket goes to the front of its new one.
Moving ==
    /\ at = "move" /\ slot < old
    /\ LET head == <<1 - gen, slot>>
           real == next[head]
       IN  \/ /\ real # Nil
              /\ LET to == <<gen, HashKey(val[real])>> IN
                 next' = [next EXCEPT ![head] = next[real], ![real] = next[to], ![to] = real]
              /\ UNCHANGED slot
           \/ real = Nil /\ slot' = slot + 1 /\ UNCHANGED next
    /\ UNCHANGED <<val, num, table, at, arg, hint, first, n, half, old, new>>

\* reclaimSentinel(oldTable).
Reclaiming ==
    /\ at = "move" /\ slot = old
    /\ val' = [c \in Cell |-> IF c \in Old THEN Nil ELSE val[c]]
    /\ old' = 0 /\ slot' = 0
    /\ IF arg = Nil THEN Return /\ UNCHANGED <<first, n, half>>
       ELSE Go("insert") /\ UNCHANGED <<hint, first, n, half>>
    /\ UNCHANGED <<next, num, table>>

CallRehash(h) ==
    /\ at = "idle" /\ ~cleared
    /\ at' = "rehash" /\ hint' = h
    /\ UNCHANGED <<chains, table, arg, first, n, half, old, slot, new>>

-----------------------------------------------------------------------------
(* insertUnique, clear, iteration.                                   *)

\* insertUnique(k) makes room before it looks for k.
CallInsert(k) ==
    /\ at = "idle" /\ ~cleared
    /\ at' = "rehash" /\ arg' = k /\ hint' = num + 1
    /\ UNCHANGED <<chains, table, first, n, half, old, slot, new>>

\* newNode: the allocation or the constructor may throw, and nothing is left.
Constructing ==
    /\ at = "insert" /\ new = Nil
    /\ \/ /\ \E c \in Free : new' = c /\ val' = [val EXCEPT ![c] = arg]
          /\ UNCHANGED <<next, num, at, arg, hint>>
       \/ Return /\ UNCHANGED chains
    /\ UNCHANGED <<table, first, n, half, old, slot>>

\* The nodes of the chain behind head, in order.
Chain(head) ==
    LET step[i \in 0..Cardinality(Node)] ==
            IF i = 0 THEN next[head] ELSE IF step[i - 1] = Nil THEN Nil ELSE next[step[i - 1]]
        length == Cardinality({i \in 0..Cardinality(Node) : step[i] # Nil})
    IN  [i \in 1..length |-> step[i - 1]]

ElementsIn(head) == {Chain(head)[i] : i \in 1..Len(Chain(head))}
KeysIn(heads) == UNION {{val[c] : c \in ElementsIn(h)} : h \in heads}

\* The node is destroyed when its key is there, else linked behind the sentinel.
Linking ==
    /\ at = "insert" /\ new # Nil
    /\ LET head == <<gen, HashKey(arg)>> IN
       IF \E i \in 1..Len(Chain(head)) : val[Chain(head)[i]] = arg
       THEN val' = [val EXCEPT ![new] = Nil] /\ UNCHANGED <<next, num>>
       ELSE /\ next' = [next EXCEPT ![new] = next[head], ![head] = new]
            /\ num' = num + 1 /\ UNCHANGED val
    /\ Return
    /\ UNCHANGED <<table, first, n, half, old, slot>>

\* Mutant: the chain's nodes stay allocated.
ClearHeads ==
    /\ at = "idle" /\ ~cleared
    /\ next' = [c \in Cell |-> Nil]
    /\ val' = [c \in Cell |-> IF c \in Slots THEN Nil ELSE val[c]]
    /\ cleared' = TRUE
    /\ UNCHANGED <<num, gen, size, locals>>

\* clear(), which is also the destructor: elements and sentinels are destroyed,
\* the table keeps the sentinels' pointers and numElements its count, so the
\* object can only be abandoned.
Clear ==
    /\ at = "idle" /\ ~cleared
    /\ next' = [c \in Cell |-> Nil]
    /\ val' = [c \in Cell |-> IF c \in Slots \/ \E h \in Slots : c \in ElementsIn(h)
                              THEN Nil ELSE val[c]]
    /\ cleared' = TRUE
    /\ UNCHANGED <<num, gen, size, locals>>

\* The first node of the first bucket from s on that is not empty.
FirstFrom(s) ==
    LET full == {t \in s..size - 1 : next[<<gen, t>>] # Nil}
    IN  IF full = {} THEN Nil ELSE next[<<gen, CHOOSE t \in full : \A u \in full : t <= u>>]

\* getFirstList.
Begin == FirstFrom(0)

\* Mutant: the search for the next bucket begins with the one c is in.
NextFromOwn(c) == IF next[c] # Nil THEN next[c] ELSE FirstFrom(HashKey(val[c]))

\* operator++.
Next_(c) == IF next[c] # Nil THEN next[c] ELSE FirstFrom(HashKey(val[c]) + 1)

Loop == Rehashing \/ Bounding \/ Growing \/ Moving \/ Reclaiming \/ Constructing \/ Linking

Next ==
    \/ Loop
    \/ \E k \in Key : CallInsert(k)
    \/ \E h \in 0..MaxHint : CallRehash(h)
    \/ Clear

\* The member that was called is executed until it returns.
Spec == Init /\ [][Next]_vars /\ WF_vars(Loop)

-----------------------------------------------------------------------------
(* Properties.                                                             *)

TypeOK ==
    /\ next \in [Cell -> Node \cup {Nil}] /\ val \in [Cell -> Key \cup {Nil}]
    /\ num \in 0..Cardinality(Node) /\ gen \in {0, 1} /\ size \in 0..MaxSlots
    /\ arg \in Key \cup {Nil} /\ new \in Node \cup {Nil} /\ old \in 0..MaxSlots

\* Elements are where a search for them looks, once each, and none is lost or
\* kept allocated: also between two iterations of a rehash, when some are in the
\* old table and some in the new one.
Located ==
    ~cleared =>
        /\ \A h \in Slots, c \in Node : c \in ElementsIn(h) => h = <<gen, HashKey(val[c])>>
        /\ \A g, h \in Slots \cup Old : g # h => ElementsIn(g) \cap ElementsIn(h) = {}
        /\ {c \in Node : val[c] # Nil} \ {new} = UNION {ElementsIn(h) : h \in Slots \cup Old}
        /\ {h \in Sentinel : val[h] # Nil} = Slots \cup Old

\* No key is there twice, and size() is the number of elements.
UniqueCounted ==
    ~cleared =>
        /\ Cardinality(KeysIn(Slots \cup Old)) = num
        /\ num = Cardinality(UNION {ElementsIn(h) : h \in Slots \cup Old})

\* The table holds its elements as it says it does.
Placed == TypeOK /\ Located /\ UniqueCounted

\* Between two calls, ++ meets from begin() every element of every bucket, once,
\* and then end(): after any insertions and rehashes, over empty buckets and past
\* the last one (hash_table.h:77-93).
Iterates ==
    ~cleared /\ at = "idle" =>
        LET reach[i \in 0..num] == IF i = 0 THEN Begin ELSE IF reach[i - 1] = Nil THEN Nil ELSE Next_(reach[i - 1])
        IN  /\ {reach[i] : i \in 0..num} = {Nil} \cup UNION {ElementsIn(h) : h \in Slots}
            /\ reach[num] = Nil

\* The set of keys changes by what was inserted only, whatever grows and moves;
\* clear gives every node back.
KeepsKeys ==
    [][ /\ ~cleared' => KeysIn(Slots \cup Old)' =
                KeysIn(Slots \cup Old) \cup IF at = "insert" /\ new # Nil THEN {arg} ELSE {}
        /\ cleared' => \A c \in Cell : val'[c] = Nil
      ]_vars

\* hashtable_test.cc:21-25 fills a table that starts with no bucket: every call
\* of insertUnique returns.
InsertReturns == at # "idle" ~> at = "idle"
==============================================================================
