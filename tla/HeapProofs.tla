------------------------------ MODULE HeapProofs ------------------------------
(***************************************************************************)
(* Proofs about Heap, for any set of integers and any longest range.       *)
(***************************************************************************)
EXTENDS Heap, TLAPS

-----------------------------------------------------------------------------
(* The comparisons and the indices.                                        *)

\* Either comparison is a strict weak order: what is not before is transitive.
LEMMA Comparison ==
    ASSUME NEW c \in Orders, NEW u \in Int, NEW v \in Int, NEW w \in Int
    PROVE  /\ Before(c, u, v) \in BOOLEAN
           /\ Before(c, u, v) => ~Before(c, v, u)
           /\ ~Before(c, u, v) /\ ~Before(c, v, w) => ~Before(c, u, w)
           /\ Before(c, u, v) /\ ~Before(c, u, w) => ~Before(c, v, w)
<1>1. CASE c = "less"
  BY <1>1 DEF Before
<1>2. CASE c = "greater"
  BY <1>2 DEF Before
<1>. QED
  BY <1>1, <1>2 DEF Orders

\* parent and left are inverse.
LEMMA Indices ==
    ASSUME NEW i \in Nat, NEW j \in Nat \ {0}
    PROVE  /\ parent(j) \in Nat /\ parent(j) < j
           /\ left(i) \in Nat \ {0} /\ left(i) > i
           /\ parent(j) = i <=> j = left(i) \/ j = left(i) + 1
BY DEF parent, left

-----------------------------------------------------------------------------
(* The invariant.                                                          *)

\* The elements whose order the running loop must restore or keep.
Reach == IF back = "make" THEN size ELSE heap

\* The root of the subtree that is a heap but for the value being sunk.
Top == IF back = "make" THEN k ELSE 0

HeapTypes ==
    /\ size \in Nat /\ a \in [0..size - 1 -> Value]
    /\ heap \in 0..size /\ (size > 0 /\ at # "rise" => heap > 0)
    /\ cmp \in Orders /\ want \in Orders \cup {"none"} /\ tmp \in Value
    /\ at \in {"idle", "rise", "sink", "make", "sort"}
    /\ back \in {"idle", "make", "sort"}
    /\ hole \in Nat /\ limit \in Nat /\ k \in Int

\* While a value rises, the order fails at the hole only, and skipping the hole
\* it holds.
RiseInv ==
    at = "rise" =>
        /\ hole < size
        /\ \A j \in 1..size - 1 :
              /\ j # hole /\ parent(j) # hole => Kept(j)
              /\ parent(j) = hole => /\ ~Before(cmp, tmp, a[j])
                                     /\ hole > 0 => ~Before(cmp, a[parent(hole)], a[j])

\* While a value sinks, likewise, below the root of the call.  Of an element
\* that is not known to belong to a heap nothing is said.
SinkInv ==
    at = "sink" =>
        /\ 0 <= Top /\ Top <= hole /\ hole < limit /\ limit <= size
        /\ Reach = limit \/ Reach = 1
        /\ back = "make" => limit = size
        /\ \A j \in 1..Reach - 1 :
              /\ parent(j) >= Top /\ j # hole /\ parent(j) # hole => Kept(j)
              /\ parent(j) = hole /\ hole > Top => ~Before(cmp, a[parent(hole)], a[j])
        /\ hole > Top /\ hole < Reach => ~Before(cmp, a[parent(hole)], tmp)

\* make_heap has ordered the subtrees of the nodes after k.
MakeInv ==
    at = "make" =>
        /\ size > 0 /\ -1 <= k /\ k < size
        /\ \A j \in 1..size - 1 : parent(j) > k => Kept(j)

\* sort_heap has a heap of k + 1 elements left, or, when it was given another
\* comparison than <, nothing to rely on.
SortInv ==
    /\ at = "sort" => 0 <= k /\ k < size /\ (heap = k + 1 \/ heap = 1)
    /\ at = "sink" /\ back = "sort" => k = limit

HeapInv == HeapTypes /\ RiseInv /\ SinkInv /\ MakeInv /\ SortInv /\ HeapOrdered

-----------------------------------------------------------------------------
(* The steps.                                                              *)

LEMMA SomeValue == Some \in Value
BY HeapParameters DEF Some

LEMMA Initially == HeapInit => HeapInv
BY HeapParameters, SomeValue
   DEF HeapInit, HeapInv, HeapTypes, RiseInv, SinkInv, MakeInv, SortInv, HeapOrdered, Orders, Smaller

\* The values of the range can be compared.
LEMMA Comparable ==
    ASSUME HeapTypes
    PROVE  tmp \in Int /\ \A i \in 0..size - 1 : a[i] \in Int
BY HeapParameters DEF HeapTypes

LEMMA RisingStep == HeapInv /\ Rising => HeapInv'
<1> SUFFICES ASSUME HeapInv, Rising PROVE HeapInv'
  OBVIOUS
<1> USE DEF HeapInv
<1>1. HeapTypes /\ RiseInv /\ at = "rise" /\ hole < size /\ hole \in Nat /\ size \in Nat /\ cmp \in Orders
  BY DEF Rising, RiseInv, HeapTypes
<1>2. tmp \in Int /\ \A i \in 0..size - 1 : a[i] \in Int
  BY <1>1, Comparable
<1>3. \A j \in 1..size - 1 : parent(j) \in 0..size - 1 /\ parent(j) < j
  BY <1>1, Indices
<1>4. CASE hole > 0 /\ Before(cmp, a[parent(hole)], tmp)
  <2> DEFINE p == parent(hole)
  <2>1. /\ a' = [a EXCEPT ![hole] = a[p]] /\ hole' = p
        /\ UNCHANGED <<size, heap, cmp, want, at, back, tmp, limit, k>>
    BY <1>4 DEF Rising
  <2>2. p \in 0..size - 1 /\ p < hole
    BY <1>1, <1>3, <1>4
  <2>3. \A i \in 0..size - 1 : a'[i] = IF i = hole THEN a[p] ELSE a[i]
    BY <2>1, <1>1 DEF HeapTypes
  <2>4. HeapTypes'
    BY <1>1, <2>1, <2>2 DEF HeapTypes
  <2>5. ASSUME NEW j \in 1..size - 1, j # p, parent(j) # p
        PROVE  Kept(j)'
    <3>1. j # hole
      BY <2>5
    <3>2. CASE parent(j) = hole
      BY <1>1, <1>3, <1>4, <2>1, <2>3, <3>1, <3>2 DEF RiseInv, Kept
    <3>3. CASE parent(j) # hole
      BY <1>1, <1>3, <2>1, <2>3, <3>1, <3>3 DEF RiseInv, Kept
    <3>. QED
      BY <3>2, <3>3
  <2>6. p > 0 => ~Before(cmp, a[parent(p)], a[p])
    BY <1>1, <1>3, <2>2 DEF RiseInv, Kept
  <2>7. ASSUME NEW j \in 1..size - 1, parent(j) = p
        PROVE  ~Before(cmp, tmp, a'[j]) /\ (p > 0 => ~Before(cmp, a'[parent(p)], a'[j]))
    <3>1. p > 0 => parent(p) \in 0..size - 1 /\ parent(p) # hole /\ a'[parent(p)] = a[parent(p)]
      BY <1>3, <2>2, <2>3
    <3>2. CASE j = hole
      <4>1. a'[j] = a[p]
        BY <2>3, <3>2
      <4>. QED
        BY <1>1, <1>2, <1>4, <2>2, <2>6, <3>1, <4>1, Comparison
    <3>3. CASE j # hole
      <4>1. a'[j] = a[j] /\ ~Before(cmp, a[p], a[j])
        BY <1>1, <1>3, <2>2, <2>3, <2>7, <3>3 DEF RiseInv, Kept
      <4>2. ~Before(cmp, tmp, a[j])
        BY <1>1, <1>2, <1>4, <2>2, <4>1, Comparison
      <4>3. p > 0 => ~Before(cmp, a[parent(p)], a[j])
        BY <1>1, <1>2, <2>2, <2>6, <3>1, <4>1, Comparison
      <4>. QED
        BY <3>1, <4>1, <4>2, <4>3
    <3>. QED
      BY <3>2, <3>3
  <2>8. RiseInv'
    <3>1. (hole < size)'
      BY <2>1, <2>2, <1>1
    <3>2. ASSUME NEW j \in (1..size - 1)'
          PROVE  (/\ j # hole /\ parent(j) # hole => Kept(j)
                  /\ parent(j) = hole => /\ ~Before(cmp, tmp, a[j])
                                         /\ hole > 0 => ~Before(cmp, a[parent(hole)], a[j]))'
      BY <2>1, <2>5, <2>7
    <3>. QED
      BY <3>1, <3>2 DEF RiseInv
  <2>. QED
    BY <1>1, <2>1, <2>4, <2>8 DEF SinkInv, MakeInv, SortInv, HeapOrdered
<1>5. CASE ~(hole > 0 /\ Before(cmp, a[parent(hole)], tmp))
  <2>1. /\ a' = [a EXCEPT ![hole] = tmp] /\ heap' = size /\ at' = "idle"
        /\ UNCHANGED <<size, cmp>>
    BY <1>5 DEF Rising, Done
  <2>2. \A i \in 0..size - 1 : a'[i] = IF i = hole THEN tmp ELSE a[i]
    BY <2>1, <1>1 DEF HeapTypes
  <2>3. HeapTypes'
    BY <1>1, <1>5, <2>1, SomeValue DEF HeapTypes, Rising, Done
  <2>4. ASSUME NEW j \in 1..size - 1
        PROVE  Kept(j)'
    <3>1. CASE j = hole
      BY <1>1, <1>3, <1>5, <2>1, <2>2, <3>1 DEF Kept
    <3>2. CASE parent(j) = hole
      BY <1>1, <1>3, <2>1, <2>2, <3>2 DEF RiseInv, Kept
    <3>3. CASE j # hole /\ parent(j) # hole
      BY <1>1, <1>3, <2>1, <2>2, <3>3 DEF RiseInv, Kept
    <3>. QED
      BY <3>1, <3>2, <3>3
  <2>. QED
    BY <2>1, <2>3, <2>4 DEF RiseInv, SinkInv, MakeInv, SortInv, HeapOrdered
<1>. QED
  BY <1>4, <1>5

\* Child picks a child that the other one does not precede.
LEMMA ChildOfHole ==
    ASSUME HeapTypes, at = "sink", hole < limit, limit <= size, left(hole) < limit
    PROVE  LET c == Child(hole) IN
           /\ c \in 1..limit - 1 /\ parent(c) = hole
           /\ \A j \in 1..limit - 1 : parent(j) = hole => ~Before(cmp, a[c], a[j])
<1> DEFINE l == left(hole)
<1>1. hole \in Nat /\ limit \in Nat /\ size \in Nat /\ cmp \in Orders
  BY DEF HeapTypes
<1>2. l \in Nat \ {0} /\ l > hole
  BY <1>1, Indices
<1>3. \A j \in 1..limit - 1 : parent(j) = hole <=> j = l \/ j = l + 1
  BY <1>1, Indices
<1>4. \A i \in 0..limit - 1 : a[i] \in Int
  BY <1>1, Comparable
<1>5. CASE l + 1 # limit /\ Before(cmp, a[l], a[l + 1])
  <2>1. Child(hole) = l + 1 /\ l + 1 \in 1..limit - 1
    BY <1>1, <1>2, <1>5 DEF Child
  <2>2. ~Before(cmp, a[l + 1], a[l]) /\ ~Before(cmp, a[l + 1], a[l + 1])
    BY <1>1, <1>2, <1>4, <1>5, <2>1, Comparison
  <2>. QED
    BY <1>2, <1>3, <2>1, <2>2
<1>6. CASE ~(l + 1 # limit /\ Before(cmp, a[l], a[l + 1]))
  <2>1. Child(hole) = l /\ l \in 1..limit - 1
    BY <1>1, <1>2, <1>6 DEF Child
  <2>2. ~Before(cmp, a[l], a[l])
    BY <1>1, <1>4, <2>1, Comparison
  <2>3. \A j \in 1..limit - 1 : j = l + 1 => ~Before(cmp, a[l], a[j])
    BY <1>1, <1>2, <1>6
  <2>. QED
    BY <1>3, <2>1, <2>2, <2>3
<1>. QED
  BY <1>5, <1>6

LEMMA SinkingStep == HeapInv /\ Sinking => HeapInv'
<1> SUFFICES ASSUME HeapInv, Sinking PROVE HeapInv'
  OBVIOUS
<1> USE DEF HeapInv
<1>1. /\ HeapTypes /\ SinkInv /\ SortInv /\ at = "sink"
      /\ hole \in Nat /\ limit \in Nat /\ size \in Nat /\ heap \in Nat /\ k \in Int /\ cmp \in Orders
      /\ Top \in Nat /\ Reach \in Nat /\ Top <= hole /\ hole < limit /\ limit <= size
      /\ (Reach = limit \/ Reach = 1) /\ Reach <= limit /\ heap <= size
  BY DEF Sinking, SinkInv, HeapTypes, Reach, Top
<1>2. tmp \in Int /\ \A i \in 0..size - 1 : a[i] \in Int
  BY <1>1, Comparable
<1>3. \A j \in 1..size - 1 : parent(j) \in 0..size - 1 /\ parent(j) < j
  BY <1>1, Indices
<1>4. CASE left(hole) < limit /\ Before(cmp, tmp, a[Child(hole)])
  <2> DEFINE c == Child(hole)
  <2>1. /\ a' = [a EXCEPT ![hole] = a[c]] /\ hole' = c
        /\ UNCHANGED <<size, heap, cmp, want, at, back, tmp, limit, k>>
    BY <1>4 DEF Sinking
  <2>2. /\ c \in 1..limit - 1 /\ parent(c) = hole /\ hole < c
        /\ \A j \in 1..limit - 1 : parent(j) = hole => ~Before(cmp, a[c], a[j])
    <3> HIDE DEF c
    <3>1. /\ c \in 1..limit - 1 /\ parent(c) = hole
          /\ \A j \in 1..limit - 1 : parent(j) = hole => ~Before(cmp, a[c], a[j])
      BY <1>1, <1>4, ChildOfHole DEF c
    <3>. QED
      BY <1>1, <1>3, <3>1
  <2> HIDE DEF c
  <2>3. \A i \in 0..size - 1 : a'[i] = IF i = hole THEN a[c] ELSE a[i]
    BY <2>1, <1>1 DEF HeapTypes
  <2>4. HeapTypes'
    BY <1>1, <2>1, <2>2 DEF HeapTypes
  <2>5. Top' = Top /\ Reach' = Reach
    BY <2>1 DEF Top, Reach
  <2>6. ASSUME NEW j \in 1..Reach - 1, parent(j) >= Top, j # c, parent(j) # c
        PROVE  Kept(j)'
    <3>1. CASE j = hole
      BY <1>1, <1>3, <2>1, <2>2, <2>3, <2>6, <3>1 DEF SinkInv, Kept
    <3>2. CASE parent(j) = hole
      BY <1>1, <1>3, <2>1, <2>2, <2>3, <2>6, <3>2 DEF Kept
    <3>3. CASE j # hole /\ parent(j) # hole
      BY <1>1, <1>3, <2>1, <2>3, <2>6, <3>3 DEF SinkInv, Kept
    <3>. QED
      BY <3>1, <3>2, <3>3
  <2>7. ASSUME NEW j \in 1..Reach - 1, parent(j) = c
        PROVE  ~Before(cmp, a'[parent(c)], a'[j])
    BY <1>1, <1>3, <2>2, <2>3, <2>7 DEF SinkInv, Kept
  <2>8. ~Before(cmp, a'[parent(c)], tmp)
    BY <1>1, <1>2, <1>4, <2>2, <2>3, Comparison DEF c
  <2>9. SinkInv'
    <3>1. (/\ 0 <= Top /\ Top <= hole /\ hole < limit /\ limit <= size
           /\ Reach = limit \/ Reach = 1
           /\ back = "make" => limit = size)'
      BY <1>1, <2>1, <2>2, <2>5 DEF SinkInv
    <3>2. ASSUME NEW j \in (1..Reach - 1)'
          PROVE  (/\ parent(j) >= Top /\ j # hole /\ parent(j) # hole => Kept(j)
                  /\ parent(j) = hole /\ hole > Top => ~Before(cmp, a[parent(hole)], a[j]))'
      BY <2>1, <2>5, <2>6, <2>7
    <3>3. (hole > Top /\ hole < Reach => ~Before(cmp, a[parent(hole)], tmp))'
      BY <2>1, <2>8
    <3>. QED
      BY <3>1, <3>2, <3>3 DEF SinkInv
  <2>. QED
    BY <1>1, <2>1, <2>4, <2>9 DEF RiseInv, MakeInv, SortInv, HeapOrdered
<1>5. CASE ~(left(hole) < limit /\ Before(cmp, tmp, a[Child(hole)]))
  <2>1. a' = [a EXCEPT ![hole] = tmp] /\ UNCHANGED <<size, heap, cmp>>
    BY <1>5 DEF Sinking
  <2>2. \A i \in 0..size - 1 : a'[i] = IF i = hole THEN tmp ELSE a[i]
    BY <2>1, <1>1 DEF HeapTypes
  <2>3. ASSUME NEW j \in 1..Reach - 1, parent(j) = hole
        PROVE  ~Before(cmp, tmp, a[j])
    <3>1. j = left(hole) \/ j = left(hole) + 1
      BY <1>1, <2>3, Indices
    <3>2. left(hole) < limit
      BY <1>1, <3>1, Indices
    <3>3. /\ ~Before(cmp, tmp, a[Child(hole)]) /\ Child(hole) \in 1..limit - 1
          /\ ~Before(cmp, a[Child(hole)], a[j])
      BY <1>1, <1>5, <2>3, <3>2, ChildOfHole
    <3>. QED
      BY <1>1, <1>2, <3>3, Comparison
  <2>4. ASSUME NEW j \in 1..Reach - 1, parent(j) >= Top
        PROVE  Kept(j)'
    <3>1. CASE j = hole
      BY <1>1, <1>3, <2>1, <2>2, <2>4, <3>1 DEF SinkInv, Kept
    <3>2. CASE parent(j) = hole
      BY <1>1, <1>3, <2>1, <2>2, <2>3, <3>2 DEF Kept
    <3>3. CASE j # hole /\ parent(j) # hole
      BY <1>1, <1>3, <2>1, <2>2, <2>4, <3>3 DEF SinkInv, Kept
    <3>. QED
      BY <3>1, <3>2, <3>3
  <2>5. CASE back = "idle"
    <3>1. Done /\ Top = 0 /\ Reach = heap
      BY <1>5, <2>5 DEF Sinking, Top, Reach
    <3>2. HeapTypes'
      BY <1>1, <2>1, <3>1, SomeValue DEF HeapTypes, Done
    <3>3. HeapOrdered'
      BY <1>1, <1>3, <2>1, <2>4, <3>1 DEF HeapOrdered
    <3>. QED
      BY <3>1, <3>2, <3>3 DEF RiseInv, SinkInv, MakeInv, SortInv, Done
  <2>6. CASE back # "idle"
    <3>1. at' = back /\ k' = k - 1 /\ UNCHANGED <<back, want, tmp, hole, limit>>
      BY <1>5, <2>6 DEF Sinking
    <3>2. back \in {"make", "sort"}
      BY <1>1, <2>6 DEF HeapTypes
    <3>3. HeapTypes'
      BY <1>1, <2>1, <3>1, <3>2 DEF HeapTypes
    <3>4. CASE back = "make"
      <4>1. Reach = size /\ Top = k /\ limit = size
        BY <1>1, <3>4 DEF Reach, Top, SinkInv
      <4>2. (size > 0 /\ -1 <= k /\ k < size)'
        BY <1>1, <2>1, <3>1, <4>1
      <4>3. ASSUME NEW j \in 1..size - 1, parent(j) > k'
            PROVE  Kept(j)'
        <5>1. parent(j) >= Top
          BY <1>1, <1>3, <3>1, <4>1, <4>3
        <5>. QED
          BY <2>4, <4>1, <5>1
      <4>4. MakeInv'
        BY <2>1, <4>2, <4>3 DEF MakeInv
      <4>. QED
        BY <3>1, <3>3, <3>4, <4>4 DEF RiseInv, SinkInv, SortInv, HeapOrdered
    <3>5. CASE back = "sort"
      <4>1. Reach = heap /\ Top = 0 /\ k = limit
        BY <1>1, <3>5 DEF Reach, Top, SortInv
      <4>2. HeapOrdered'
        BY <1>1, <1>3, <2>1, <2>4, <4>1 DEF HeapOrdered
      <4>3. SortInv'
        BY <1>1, <2>1, <3>1, <3>5, <4>1 DEF SortInv
      <4>. QED
        BY <3>1, <3>3, <3>5, <4>2, <4>3 DEF RiseInv, SinkInv, MakeInv
    <3>. QED
      BY <3>2, <3>4, <3>5
  <2>. QED
    BY <2>5, <2>6
<1>. QED
  BY <1>4, <1>5

LEMMA MakingStep == HeapInv /\ Making => HeapInv'
<1> SUFFICES ASSUME HeapInv, Making PROVE HeapInv'
  OBVIOUS
<1> USE DEF HeapInv
<1>1. /\ HeapTypes /\ MakeInv /\ at = "make" /\ size > 0 /\ -1 <= k /\ k < size
      /\ size \in Nat /\ k \in Int /\ cmp \in Orders /\ heap \in 0..size
  BY DEF Making, MakeInv, HeapTypes
<1>2. \A j \in 1..size - 1 : parent(j) \in 0..size - 1 /\ parent(j) < j
  BY <1>1, Indices
<1>3. CASE k >= 0
  <2>1. /\ a' = a /\ at' = "sink" /\ back' = "make" /\ tmp' = a[k] /\ hole' = k /\ limit' = size
        /\ UNCHANGED <<size, heap, cmp, want, k>>
    BY <1>1, <1>3 DEF Making, Adjust
  <2>2. HeapTypes'
    BY <1>1, <1>3, <2>1 DEF HeapTypes
  <2>3. Top' = k /\ Reach' = size
    BY <2>1 DEF Top, Reach
  <2>4. \A j \in 1..size - 1 : parent(j) > k => Kept(j)'
    BY <1>1, <2>1 DEF MakeInv, Kept
  <2>5. SinkInv'
    BY <1>1, <1>2, <1>3, <2>1, <2>3, <2>4 DEF SinkInv
  <2>. QED
    BY <2>1, <2>2, <2>5 DEF RiseInv, MakeInv, SortInv, HeapOrdered
<1>4. CASE k < 0 /\ want = "none"
  <2>1. heap' = size /\ Done /\ UNCHANGED <<a, size, cmp>>
    BY <1>1, <1>4 DEF Making
  <2>2. HeapTypes'
    BY <1>1, <2>1, SomeValue DEF HeapTypes, Done
  <2>3. \A j \in 1..size - 1 : Kept(j)'
    BY <1>1, <1>2, <1>4, <2>1 DEF MakeInv, Kept
  <2>. QED
    BY <2>1, <2>2, <2>3 DEF Done, RiseInv, SinkInv, MakeInv, SortInv, HeapOrdered
<1>5. CASE k < 0 /\ want # "none"
  <2>1. /\ cmp' = want /\ heap' = (IF want = cmp THEN size ELSE 1)
        /\ at' = "sort" /\ k' = size - 1
        /\ UNCHANGED <<a, size, want, back, tmp, hole, limit>>
    BY <1>1, <1>5 DEF Making
  <2>2. HeapTypes'
    BY <1>1, <1>5, <2>1 DEF HeapTypes
  <2>3. CASE want = cmp
    <3>1. \A j \in 1..size - 1 : Kept(j)'
      BY <1>1, <1>2, <1>5, <2>1, <2>3 DEF MakeInv, Kept
    <3>. QED
      BY <1>1, <2>1, <2>2, <2>3, <3>1 DEF RiseInv, SinkInv, MakeInv, SortInv, HeapOrdered
  <2>4. CASE want # cmp
    BY <1>1, <2>1, <2>2, <2>4 DEF RiseInv, SinkInv, MakeInv, SortInv, HeapOrdered
  <2>. QED
    BY <2>3, <2>4
<1>. QED
  BY <1>1, <1>3, <1>4, <1>5

\* Swapping the first element and the one after a heap disturbs the root alone.
LEMMA SwapKeeps ==
    ASSUME HeapTypes, NEW n \in 1..size - 1, NEW j \in 1..n - 1, parent(j) # 0,
           Kept(j), a' = Swapped(0, n), cmp' = cmp
    PROVE  Kept(j)'
<1>1. size \in Nat
  BY DEF HeapTypes
<1>. n \in Nat /\ j \in Nat \ {0} /\ j < n
  BY <1>1
<1>2. parent(j) \in 1..n - 1
  BY Indices
<1>3. \A i \in 1..n - 1 : a'[i] = a[i]
  BY <1>1 DEF Swapped, HeapTypes
<1>. QED
  BY <1>2, <1>3 DEF Kept

\* adjust_heap, called on a heap whose root was swapped with what follows it.
LEMMA SwapAdjust ==
    ASSUME HeapTypes, NEW n \in 1..size - 1, NEW loop \in {"idle", "sort"},
           heap = n + 1 \/ heap = 1, \A j \in 1..heap - 1 : Kept(j),
           Adjust(Swapped(0, n), 0, n, loop), heap' = Smaller(heap, n), k' \in Int,
           loop = "sort" => k' = n, UNCHANGED <<size, cmp, want>>
    PROVE  HeapInv'
<1>1. /\ a' = Swapped(0, n) /\ at' = "sink" /\ back' = loop
      /\ tmp' = Swapped(0, n)[0] /\ hole' = 0 /\ limit' = n /\ size \in Nat /\ heap \in Nat
  BY DEF Adjust, HeapTypes
<1>2. Swapped(0, n) \in [0..size - 1 -> Value]
  BY <1>1 DEF Swapped, HeapTypes
<1>3. heap' \in {1, n} /\ heap' <= heap
  BY <1>1 DEF Smaller
<1>4. HeapTypes'
  <2>1. a' \in [0..size - 1 -> Value] /\ tmp' \in Value
    <3>1. 0 \in 0..size - 1
      BY <1>1
    <3> DEFINE r == Swapped(0, n)
    <3>2. r \in [0..size - 1 -> Value] /\ a' = r /\ tmp' = r[0]
      BY <1>1, <1>2
    <3> HIDE DEF r
    <3>. QED
      BY <3>1, <3>2
  <2>2. heap' \in 0..size /\ heap' > 0 /\ limit' \in Nat
    BY <1>1, <1>3 DEF HeapTypes
  <2>3. cmp \in Orders /\ want \in Orders \cup {"none"}
    BY DEF HeapTypes
  <2>. QED
    BY <1>1, <2>1, <2>2, <2>3 DEF HeapTypes
<1>5. Top' = 0 /\ Reach' = heap'
  BY <1>1 DEF Top, Reach
<1>6. ASSUME NEW j \in 1..heap' - 1, parent(j) # 0
      PROVE  Kept(j)'
  BY <1>1, <1>3, <1>6, SwapKeeps
<1>7. SinkInv'
  <2>1. (/\ 0 <= Top /\ Top <= hole /\ hole < limit /\ limit <= size
         /\ Reach = limit \/ Reach = 1
         /\ back = "make" => limit = size
         /\ hole > Top /\ hole < Reach => ~Before(cmp, a[parent(hole)], tmp))'
    BY <1>1, <1>3, <1>5
  <2>2. ASSUME NEW j \in (1..Reach - 1)'
        PROVE  (/\ parent(j) >= Top /\ j # hole /\ parent(j) # hole => Kept(j)
                /\ parent(j) = hole /\ hole > Top => ~Before(cmp, a[parent(hole)], a[j]))'
    BY <1>1, <1>5, <1>6
  <2>. QED
    BY <2>1, <2>2 DEF SinkInv
<1>. QED
  BY <1>1, <1>4, <1>7 DEF HeapInv, RiseInv, MakeInv, SortInv, HeapOrdered

LEMMA SortingStep == HeapInv /\ Sorting => HeapInv'
<1> SUFFICES ASSUME HeapInv, Sorting PROVE HeapInv'
  OBVIOUS
<1> USE DEF HeapInv
<1>1. /\ HeapTypes /\ HeapOrdered /\ at = "sort" /\ k \in Nat /\ k < size /\ size \in Nat
      /\ (heap = k + 1 \/ heap = 1)
  BY DEF Sorting, SortInv, HeapTypes
<1>2. CASE k >= 1
  <2>1. /\ Adjust(Swapped(0, k), 0, k, "sort") /\ heap' = Smaller(heap, k)
        /\ UNCHANGED <<size, cmp, want, k>>
    BY <1>1, <1>2 DEF Sorting
  <2>. QED
    BY <1>1, <1>2, <2>1, SwapAdjust DEF HeapOrdered
<1>3. CASE k < 1
  <2>1. Done /\ UNCHANGED <<a, size, heap, cmp>>
    BY <1>1, <1>3 DEF Sorting
  <2>2. HeapTypes'
    BY <1>1, <2>1, SomeValue DEF HeapTypes, Done
  <2>. QED
    BY <1>1, <2>1, <2>2 DEF Done, RiseInv, SinkInv, MakeInv, SortInv, HeapOrdered, Kept
<1>. QED
  BY <1>1, <1>2, <1>3

LEMMA PopHeapStep == HeapInv /\ PopHeap => HeapInv'
<1> SUFFICES ASSUME HeapInv, PopHeap PROVE HeapInv'
  OBVIOUS
<1>1. /\ HeapTypes /\ size \in Nat /\ size > 1 /\ heap = size /\ k \in Int
      /\ \A j \in 1..heap - 1 : Kept(j)
  BY DEF HeapInv, HeapTypes, HeapOrdered, PopHeap
<1>2. /\ Adjust(Swapped(0, size - 1), 0, size - 1, "idle") /\ heap' = Smaller(heap, size - 1)
      /\ UNCHANGED <<size, cmp, want, k>>
  BY <1>1 DEF PopHeap, Smaller
<1>. QED
  BY <1>1, <1>2, SwapAdjust

LEMMA PopBackStep == HeapInv /\ PopBack => HeapInv'
<1> SUFFICES ASSUME HeapInv, PopBack PROVE HeapInv'
  OBVIOUS
<1> USE DEF HeapInv
<1>1. /\ HeapTypes /\ HeapOrdered /\ size \in Nat /\ heap \in 0..size /\ at = "idle" /\ size > 0
      /\ size' = size - 1 /\ a' = [i \in 0..size - 2 |-> a[i]] /\ heap' = Smaller(heap, size - 1)
      /\ UNCHANGED <<cmp, want, at, back, tmp, hole, limit, k>>
  BY DEF PopBack, HeapTypes
<1>2. HeapTypes'
  BY <1>1 DEF HeapTypes, Smaller
<1>3. ASSUME NEW j \in 1..heap' - 1
      PROVE  Kept(j)'
  <2>1. j \in 1..heap - 1 /\ j \in 0..size - 2 /\ j \in Nat \ {0}
    BY <1>1 DEF Smaller
  <2>2. parent(j) \in 0..size - 2
    BY <1>1, <2>1, Indices
  <2>. QED
    BY <1>1, <2>1, <2>2 DEF HeapOrdered, Kept
<1>. QED
  BY <1>1, <1>2, <1>3 DEF RiseInv, SinkInv, MakeInv, SortInv, HeapOrdered

LEMMA PushStep == ASSUME NEW v \in Value PROVE HeapInv /\ Push(v) => HeapInv'
<1> SUFFICES ASSUME HeapInv, Push(v) PROVE HeapInv'
  OBVIOUS
<1> USE DEF HeapInv
<1>1. /\ HeapTypes /\ HeapOrdered /\ size \in Nat /\ heap = size /\ at = "idle"
      /\ size' = size + 1 /\ a' = [i \in 0..size |-> IF i = size THEN v ELSE a[i]]
      /\ at' = "rise" /\ tmp' = v /\ hole' = size
      /\ UNCHANGED <<heap, cmp, want, back, limit, k>>
  BY DEF Push, HeapTypes
<1>2. HeapTypes'
  BY <1>1 DEF HeapTypes
<1>3. ASSUME NEW j \in 1..size
      PROVE  (/\ j # hole /\ parent(j) # hole => Kept(j)
              /\ parent(j) # hole)'
  <2>1. parent(j) \in 0..size /\ parent(j) < j
    BY <1>1, Indices
  <2>2. CASE j = size
    BY <1>1, <2>1, <2>2
  <2>3. CASE j # size
    BY <1>1, <2>1, <2>3 DEF HeapOrdered, Kept
  <2>. QED
    BY <2>2, <2>3
<1>4. RiseInv'
  BY <1>1, <1>3 DEF RiseInv
<1>. QED
  BY <1>1, <1>2, <1>4 DEF SinkInv, MakeInv, SortInv, HeapOrdered

\* make_heap and sort_heap begin where no node has a child.
LEMMA MakeStep ==
    ASSUME HeapInv, at = "idle", size > 1, cmp' \in Orders, want' \in Orders \cup {"none"},
           heap' = 1, at' = "make", k' = size \div 2 - 1, UNCHANGED <<a, size, back, tmp, hole, limit>>
    PROVE  HeapInv'
<1>1. HeapTypes /\ size \in Nat
  BY DEF HeapInv, HeapTypes
<1>2. HeapTypes'
  BY <1>1 DEF HeapTypes
<1>3. \A j \in 1..size - 1 : parent(j) <= size \div 2 - 1
  BY <1>1 DEF parent
<1>4. -1 <= k' /\ k' < size
  BY <1>1
<1>5. MakeInv'
  BY <1>1, <1>3, <1>4, Indices DEF MakeInv
<1>. QED
  BY <1>2, <1>5 DEF HeapInv, RiseInv, SinkInv, SortInv, HeapOrdered

-----------------------------------------------------------------------------

\* The invariant holds of every behaviour.
THEOREM HeapInvariant == HeapSpec => []HeapInv
<1>1. HeapInv /\ [HeapNext]_heapvars => HeapInv'
  <2> SUFFICES ASSUME HeapInv, [HeapNext]_heapvars PROVE HeapInv'
    OBVIOUS
  <2>1. ASSUME NEW c \in Orders, MakeHeap(c) \/ SortHeap(c)
        PROVE  HeapInv'
    <3>1. at = "idle" /\ size > 1 /\ want \in Orders \cup {"none"}
      BY <2>1 DEF MakeHeap, SortHeap, HeapInv, HeapTypes
    <3>2. CASE MakeHeap(c)
      BY <3>1, <3>2, MakeStep DEF MakeHeap
    <3>3. CASE SortHeap(c)
      BY <3>1, <3>3, MakeStep DEF SortHeap, Orders
    <3>. QED
      BY <2>1, <3>2, <3>3
  <2>2. CASE UNCHANGED heapvars
    BY <2>2 DEF heapvars, HeapInv, HeapTypes, RiseInv, SinkInv, MakeInv, SortInv, HeapOrdered,
                Kept, Reach, Top
  <2>. QED
    BY <2>1, <2>2, RisingStep, SinkingStep, MakingStep, SortingStep, PopHeapStep, PopBackStep,
       PushStep DEF HeapNext
<1>. QED
  BY Initially, <1>1, PTL DEF HeapSpec

\* Whatever a caller pushes, pops, makes and sorts, under either comparison,
\* every element of what it may take for a heap keeps below its parent
\* (stl_heap.h:30, :87, :110).
THEOREM HeapOrderedAlways == HeapSpec => []HeapOrdered
<1>1. HeapInv => HeapOrdered
  BY DEF HeapInv
<1>. QED
  BY <1>1, HeapInvariant, PTL
===============================================================================
