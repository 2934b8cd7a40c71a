----------------------------- MODULE VectorProofs -----------------------------
(***************************************************************************)
(* Proofs about Vector, for any values and any bound on the buffer.        *)
(*                                                                         *)
(* A loop over cells is first shown to be one function on buffers: what it *)
(* writes (Written) or where it carries the objects to (Carried).  Each    *)
(* member then takes the whole vector of some elements, Vec, to the whole  *)
(* vector of the elements its name promises; the invariant, that the       *)
(* vector is one, and the action properties follow call by call.           *)
(***************************************************************************)
EXTENDS Vector, Iteration, SequenceTheorems

-----------------------------------------------------------------------------
(* Vectors.                                                                *)

Cell == Val \cup {Raw, Moved}
State == [cell : Seq(Cell), last : Nat, threw : BOOLEAN, defined : BOOLEAN]

\* s with other cells.
With(s, f) == [s EXCEPT !.cell = f]

\* A state is its fields.
LEMMA StateIs ==
  ASSUME NEW s \in State
  PROVE  /\ s.cell \in Seq(Cell) /\ Len(s.cell) \in Nat /\ DOMAIN s.cell = 1..Len(s.cell)
         /\ \A c \in 1..Len(s.cell) : s.cell[c] \in Cell
         /\ s.last \in Nat /\ s.threw \in BOOLEAN /\ s.defined \in BOOLEAN
         /\ s.cell = [c \in 1..Len(s.cell) |-> s.cell[c]]
<1>1. s.cell \in Seq(Cell) /\ s.last \in Nat /\ s.threw \in BOOLEAN /\ s.defined \in BOOLEAN
  BY DEF State
<1>2. QED BY <1>1

\* Cells given one by one.
LEMMA CellsAre ==
  ASSUME NEW n \in Nat, NEW f, f = [c \in 1..n |-> f[c]], \A c \in 1..n : f[c] \in Cell
  PROVE  f \in Seq(Cell) /\ Len(f) = n
<1>1. f \in [1..n -> Cell]
  OBVIOUS
<1>2. QED BY <1>1

\* Only its cells differ.
LEMMA WithIs ==
  ASSUME NEW s \in State, NEW f \in Seq(Cell)
  PROVE  /\ With(s, f) \in State /\ With(s, f).cell = f
         /\ With(s, f).last = s.last /\ With(s, f).threw = s.threw /\ With(s, f).defined = s.defined
BY DEF With, State

\* f with v in cell c.
Set(f, c, v) == [f EXCEPT ![c] = v]

\* Writing to a cell, and reading it.
LEMMA PutIs ==
  ASSUME NEW s \in State, NEW f \in Seq(Cell), NEW c \in 1..Len(f), NEW v
  PROVE  Put(With(s, f), c, v) = With(s, Set(f, c, v)) /\ Get(With(s, f), c) = f[c]
<1>1. With(s, f).cell = f /\ DOMAIN f = 1..Len(f)
  BY WithIs
<1>2. QED BY <1>1 DEF Put, Get, Set, With, State

\* Assignment to an object writes its cell ...
LEMMA AssignIs ==
  ASSUME NEW s \in State, NEW f \in Seq(Cell), NEW c \in 1..Len(f), NEW v \in Cell, f[c] # Raw
  PROVE  Assign(With(s, f), c, v) = With(s, Set(f, c, v))
<1>1. /\ Put(With(s, f), c, v) = With(s, Set(f, c, v)) /\ Get(With(s, f), c) = f[c]
  BY PutIs
<1>2. Set(f, c, v) \in Seq(Cell)
  <2>1. Set(f, c, v) \in [1..Len(f) -> Cell]
    BY DEF Set
  <2>2. QED BY <2>1
<1>3. With(s, Set(f, c, v)) \in State
  BY <1>2, WithIs
<1>4. QED BY <1>1, <1>3 DEF Assign, Check, State

\* The cells of a buffer stay cells.
LEMMA PutState ==
  ASSUME NEW f \in Seq(Cell), NEW c \in 1..Len(f), NEW v \in Cell
  PROVE  Set(f, c, v) \in Seq(Cell) /\ Len(Set(f, c, v)) = Len(f)
<1>1. Set(f, c, v) = [b \in 1..Len(f) |-> Set(f, c, v)[b]] /\ \A b \in 1..Len(f) : Set(f, c, v)[b] \in Cell
  BY DEF Set
<1>2. QED BY <1>1, CellsAre

\* ... and so does its destruction ...
LEMMA DestroyIs ==
  ASSUME NEW s \in State, NEW f \in Seq(Cell), NEW c \in 1..Len(f), f[c] # Raw
  PROVE  Destroy(With(s, f), c) = With(s, Set(f, c, Raw))
<1>1. /\ Put(With(s, f), c, Raw) = With(s, Set(f, c, Raw)) /\ Get(With(s, f), c) = f[c]
  BY PutIs
<1>2. Set(f, c, Raw) \in Seq(Cell)
  BY PutState DEF Cell
<1>3. With(s, Set(f, c, Raw)) \in State
  BY <1>2, WithIs
<1>4. QED BY <1>1, <1>3 DEF Destroy, Check, State

\* The object of cell a goes to cell c.
Shift(f, a, c) == Set(Set(f, c, f[a]), a, Moved)

\* ... and a move.
LEMMA MoveConstructIs ==
  ASSUME NEW s \in State, NEW f \in Seq(Cell), NEW a \in 1..Len(f), NEW c \in 1..Len(f), f[a] # Raw
  PROVE  /\ MoveConstruct(With(s, f), a, c) = With(s, Shift(f, a, c))
         /\ f[c] # Raw => MoveAssign(With(s, f), a, c) = With(s, Shift(f, a, c))
<1> DEFINE g == Set(f, c, f[a])
<1>1. Get(With(s, f), a) = f[a] /\ Get(With(s, f), c) = f[c]
  BY PutIs
<1>2. Put(With(s, f), c, f[a]) = With(s, g)
  BY PutIs
<1>3. f[a] \in Cell /\ Moved \in Cell
  BY DEF Cell
<1>4. g \in Seq(Cell) /\ Len(g) = Len(f)
  BY <1>3, PutState
<1> HIDE DEF g
<1>5. Put(With(s, g), a, Moved) = With(s, Set(g, a, Moved)) /\ Set(g, a, Moved) \in Seq(Cell)
  BY <1>3, <1>4, PutIs, PutState
<1>6. With(s, Set(g, a, Moved)) \in State
  BY <1>5, WithIs
<1>7. Shift(f, a, c) = Set(g, a, Moved)
  BY DEF Shift, g
<1>8. MoveConstruct(With(s, f), a, c) = With(s, Shift(f, a, c))
  BY <1>1, <1>2, <1>5, <1>6, <1>7 DEF MoveConstruct, Check, State
<1>9. QED BY <1>8, <1>6, <1>7, <1>1 DEF MoveAssign, Check, State

-----------------------------------------------------------------------------
(* Loops.                                                                  *)

\* Two functions that start alike and take like steps end alike.
LEMMA SameSteps ==
  ASSUME NEW n \in Nat, NEW f, NEW h, f[0] = h[0],
         \A k \in 1..n : f[k - 1] = h[k - 1] => f[k] = h[k]
  PROVE  f[n] = h[n]
<1>0. \A k \in 1..n : f[k - 1] = h[k - 1] => f[k] = h[k]
  OBVIOUS
<1> DEFINE T == {k \in Nat : k <= n => f[k] = h[k]}
<1>1. 0 \in T
  OBVIOUS
<1>2. ASSUME NEW k \in Nat, k \in T PROVE k + 1 \in T
  <2>1. SUFFICES ASSUME k + 1 <= n PROVE f[k + 1] = h[k + 1]
    OBVIOUS
  <2>2. k + 1 \in 1..n /\ (k + 1) - 1 = k /\ f[k] = h[k]
    BY <1>2, <2>1
  <2>3. f[(k + 1) - 1] = h[(k + 1) - 1] => f[k + 1] = h[k + 1]
    BY ONLY <1>0, <2>2
  <2>4. QED BY <2>2, <2>3
<1> HIDE DEF T
<1>3. Nat \subseteq T
  BY <1>1, <1>2, SetInduction
<1>4. QED BY <1>3 DEF T

\* f with the first k values of w in the cells after the first i.
Written(f, i, k, w) == [c \in 1..Len(f) |-> IF c \in i + 1 .. i + k THEN w[c - i] ELSE f[c]]

\* It is written one value after the other.
OneByOne(f, i, n, w) ==
  /\ Written(f, i, 0, w) = f
  /\ \A k \in 0..n : Written(f, i, k, w) \in Seq(Cell) /\ Len(Written(f, i, k, w)) = Len(f)
  /\ \A k \in 1..n : /\ i + k \in 1..Len(f)
                     /\ Written(f, i, k - 1, w)[i + k] = f[i + k]
                     /\ Written(f, i, k, w) = Set(Written(f, i, k - 1, w), i + k, w[k])

\* Every prefix of what is written fits in the buffer.
LEMMA WrittenSteps ==
  ASSUME NEW f \in Seq(Cell), NEW i \in Nat, NEW n \in Nat, i + n <= Len(f),
         NEW w, \A k \in 1..n : w[k] \in Cell
  PROVE  OneByOne(f, i, n, w)
<1>1. Written(f, i, 0, w) = f
  <2>1. f = [c \in 1..Len(f) |-> f[c]] /\ i + 1 .. i + 0 = {}
    OBVIOUS
  <2>2. QED BY <2>1 DEF Written
<1>2. ASSUME NEW k \in 0..n
      PROVE  Written(f, i, k, w) \in Seq(Cell) /\ Len(Written(f, i, k, w)) = Len(f)
  <2> DEFINE g == Written(f, i, k, w)
  <2>1. g = [c \in 1..Len(f) |-> g[c]] /\ \A c \in 1..Len(f) : g[c] \in Cell
    BY DEF Written
  <2> HIDE DEF g
  <2>2. g \in Seq(Cell) /\ Len(g) = Len(f)
    BY <2>1, CellsAre
  <2>3. QED BY <2>2 DEF g
<1>3. ASSUME NEW k \in 1..n
      PROVE  /\ i + k \in 1..Len(f)
             /\ Written(f, i, k - 1, w)[i + k] = f[i + k]
             /\ Written(f, i, k, w) = Set(Written(f, i, k - 1, w), i + k, w[k])
  <2>1. i + k \in 1..Len(f) /\ i + k \notin i + 1 .. i + (k - 1) /\ i + k \in i + 1 .. i + k /\ i + k - i = k
    OBVIOUS
  <2>2. \A c \in 1..Len(f) : c # i + k => (c \in i + 1 .. i + k <=> c \in i + 1 .. i + (k - 1))
    OBVIOUS
  <2> DEFINE g == Written(f, i, k - 1, w)
  <2>3. Set(g, i + k, w[k]) = [c \in 1..Len(f) |-> IF c = i + k THEN w[k] ELSE g[c]]
    BY DEF Set, Written
  <2>4. \A c \in 1..Len(f) : Written(f, i, k, w)[c] = IF c = i + k THEN w[k] ELSE g[c]
    <3>1. Written(f, i, k, w)[i + k] = w[k]
      BY <2>1 DEF Written
    <3>2. ASSUME NEW c \in 1..Len(f), c # i + k PROVE Written(f, i, k, w)[c] = g[c]
      BY <2>2, <3>2 DEF Written
    <3>3. QED BY <3>1, <3>2
  <2>5. Written(f, i, k, w) = [c \in 1..Len(f) |-> Written(f, i, k, w)[c]]
    BY DEF Written
  <2>6. Written(f, i, k, w) = Set(g, i + k, w[k])
    <3> HIDE DEF g
    <3>1. QED BY <2>3, <2>4, <2>5
  <2>7. g[i + k] = f[i + k]
    BY <2>1 DEF Written
  <2>8. QED BY <2>1, <2>6, <2>7
<1>4. QED BY <1>1, <1>2, <1>3 DEF OneByOne

\* The states h of a loop that writes the values of w one after the other.
Writes(h, s, i, n, w) ==
  /\ h = [k \in 0..n |-> h[k]] /\ h[0] = s
  /\ \A k \in 1..n : \E g \in Seq(Cell) :
        /\ h[k - 1] = With(s, g) /\ i + k \in 1..Len(g) /\ g[i + k] = s.cell[i + k]
        /\ h[k] = With(s, Set(g, i + k, w[k]))

\* Such states exist, and the last of them is s with all of w written.
LEMMA WritesEnd ==
  ASSUME NEW s \in State, NEW i \in Nat, NEW n \in Nat, i + n <= Len(s.cell),
         NEW w, \A k \in 1..n : w[k] \in Cell
  PROVE  \E h : Writes(h, s, i, n, w) /\ h[n] = With(s, Written(s.cell, i, n, w))
<1> DEFINE g(k) == Written(s.cell, i, k, w)
           h == [k \in 0..n |-> With(s, g(k))]
<1>0. s.cell \in Seq(Cell) /\ i \in Nat /\ n \in Nat /\ i + n <= Len(s.cell) /\ \A k \in 1..n : w[k] \in Cell
  BY StateIs
<1>1. /\ g(0) = s.cell
      /\ \A k \in 0..n : g(k) \in Seq(Cell) /\ Len(g(k)) = Len(s.cell)
      /\ \A k \in 1..n : /\ i + k \in 1..Len(s.cell)
                         /\ g(k - 1)[i + k] = s.cell[i + k]
                         /\ g(k) = Set(g(k - 1), i + k, w[k])
  <2>1. OneByOne(s.cell, i, n, w)
    BY ONLY <1>0, WrittenSteps
  <2>2. QED BY <2>1 DEF OneByOne
<1> HIDE DEF g
<1>2. h = [k \in 0..n |-> h[k]]
  OBVIOUS
<1>3. h[0] = s
  BY <1>1 DEF With, State
<1>4. ASSUME NEW k \in 1..n
      PROVE  /\ g(k - 1) \in Seq(Cell) /\ h[k - 1] = With(s, g(k - 1))
             /\ i + k \in 1..Len(g(k - 1)) /\ g(k - 1)[i + k] = s.cell[i + k]
             /\ h[k] = With(s, Set(g(k - 1), i + k, w[k]))
  <2>1. k - 1 \in 0..n /\ k \in 0..n
    OBVIOUS
  <2>2. h[k - 1] = With(s, g(k - 1)) /\ h[k] = With(s, g(k))
    BY <2>1
  <2> HIDE DEF h
  <2>3. QED BY <2>1, <2>2, <1>1
<1>5. h[n] = With(s, g(n))
  OBVIOUS
<1> HIDE DEF h
<1>6. Writes(h, s, i, n, w)
  BY <1>2, <1>3, <1>4 DEF Writes
<1>7. QED BY <1>5, <1>6 DEF g

\* Assignments find an object in each cell.
LEMMA FillIs ==
  ASSUME NEW s \in State, NEW i \in Nat, NEW n \in Nat, NEW v \in Cell,
         i + n <= Len(s.cell),
         \A c \in i + 1 .. i + n : s.cell[c] # Raw
  PROVE  fill_n(s, i, n, v) = With(s, Written(s.cell, i, n, [k \in 1..n |-> v]))
<1> DEFINE w == [k \in 1..n |-> v]
           Is(f) == f = [k \in 0..n |-> IF k = 0 THEN s ELSE Assign(f[k - 1], i + k, v)]
<1>1. \A k \in 1..n : w[k] = v /\ w[k] \in Cell
  BY DEF Cell
<1> HIDE DEF w
<1>2. PICK h : Writes(h, s, i, n, w) /\ h[n] = With(s, Written(s.cell, i, n, w))
  BY <1>1, WritesEnd
<1>3. h[0] = s /\ h = [k \in 0..n |-> h[k]]
  BY <1>2 DEF Writes
<1>4. ASSUME NEW k \in 1..n PROVE h[k] = Assign(h[k - 1], i + k, v)
  <2>1. PICK g \in Seq(Cell) :
           /\ h[k - 1] = With(s, g) /\ i + k \in 1..Len(g) /\ g[i + k] = s.cell[i + k]
           /\ h[k] = With(s, Set(g, i + k, w[k]))
    BY <1>2 DEF Writes
  <2>2. i + k \in i + 1 .. i + n /\ w[k] = v /\ w[k] \in Cell
    BY <1>1
  <2>3. QED BY <2>1, <2>2, AssignIs
<1>5. ASSUME NEW k \in 0..n PROVE h[k] = IF k = 0 THEN s ELSE Assign(h[k - 1], i + k, v)
  <2>1. CASE k = 0
    BY <1>3, <2>1
  <2>2. CASE k # 0
    <3>1. k \in 1..n
      BY <2>2
    <3>2. QED BY <2>2, <3>1, <1>4
  <2>3. QED BY <2>1, <2>2
<1>6. Is(h)
  BY <1>3, <1>5
<1>7. PICK f : Is(f) /\ fill_n(s, i, n, v) = f[n]
  BY <1>6 DEF fill_n, Loop
<1>8. \A k \in 0..n : f[k] = IF k = 0 THEN s ELSE Assign(f[k - 1], i + k, v)
  BY <1>7
<1>9. f[0] = h[0] /\ \A k \in 1..n : f[k - 1] = h[k - 1] => f[k] = h[k]
  <2>1. f[0] = s
    BY <1>8
  <2>2. ASSUME NEW k \in 1..n, f[k - 1] = h[k - 1] PROVE f[k] = h[k]
    BY <2>2, <1>4, <1>8
  <2>3. QED BY <1>3, <2>1, <2>2
<1>10. f[n] = h[n]
  BY ONLY <1>9, n \in Nat, SameSteps
<1>11. QED BY <1>2, <1>7, <1>10 DEF w

\* Constructors find a cell of the buffer.
LEMMA ConstructIs ==
  ASSUME NEW s \in State, NEW i \in Nat, NEW n \in Nat, NEW v \in Cell,
         i + n <= Len(s.cell)
  PROVE  uninitialized_fill_n(s, i, n, v) = With(s, Written(s.cell, i, n, [k \in 1..n |-> v]))
<1> DEFINE w == [k \in 1..n |-> v]
           Is(f) == f = [k \in 0..n |-> IF k = 0 THEN s ELSE Put(f[k - 1], i + k, v)]
<1>1. \A k \in 1..n : w[k] = v /\ w[k] \in Cell
  BY DEF Cell
<1> HIDE DEF w
<1>2. PICK h : Writes(h, s, i, n, w) /\ h[n] = With(s, Written(s.cell, i, n, w))
  BY <1>1, WritesEnd
<1>3. h[0] = s /\ h = [k \in 0..n |-> h[k]]
  BY <1>2 DEF Writes
<1>4. ASSUME NEW k \in 1..n PROVE h[k] = Put(h[k - 1], i + k, v)
  <2>1. PICK g \in Seq(Cell) :
           /\ h[k - 1] = With(s, g) /\ i + k \in 1..Len(g) /\ g[i + k] = s.cell[i + k]
           /\ h[k] = With(s, Set(g, i + k, w[k]))
    BY <1>2 DEF Writes
  <2>2. i + k \in i + 1 .. i + n /\ w[k] = v /\ w[k] \in Cell
    BY <1>1
  <2>3. QED BY <2>1, <2>2, PutIs
<1>5. ASSUME NEW k \in 0..n PROVE h[k] = IF k = 0 THEN s ELSE Put(h[k - 1], i + k, v)
  <2>1. CASE k = 0
    BY <1>3, <2>1
  <2>2. CASE k # 0
    <3>1. k \in 1..n
      BY <2>2
    <3>2. QED BY <2>2, <3>1, <1>4
  <2>3. QED BY <2>1, <2>2
<1>6. Is(h)
  BY <1>3, <1>5
<1>7. PICK f : Is(f) /\ uninitialized_fill_n(s, i, n, v) = f[n]
  BY <1>6 DEF uninitialized_fill_n, Loop
<1>8. \A k \in 0..n : f[k] = IF k = 0 THEN s ELSE Put(f[k - 1], i + k, v)
  BY <1>7
<1>9. f[0] = h[0] /\ \A k \in 1..n : f[k - 1] = h[k - 1] => f[k] = h[k]
  <2>1. f[0] = s
    BY <1>8
  <2>2. ASSUME NEW k \in 1..n, f[k - 1] = h[k - 1] PROVE f[k] = h[k]
    BY <2>2, <1>4, <1>8
  <2>3. QED BY <1>3, <2>1, <2>2
<1>10. f[n] = h[n]
  BY ONLY <1>9, n \in Nat, SameSteps
<1>11. QED BY <1>2, <1>7, <1>10 DEF w

\* Destructors leave no object.
LEMMA DestroyedIs ==
  ASSUME NEW s \in State, NEW i \in Nat, NEW n \in Nat,
         i + n <= Len(s.cell),
         \A c \in i + 1 .. i + n : s.cell[c] # Raw
  PROVE  destroy(s, i, n) = With(s, Written(s.cell, i, n, [k \in 1..n |-> Raw]))
<1> DEFINE w == [k \in 1..n |-> Raw]
           Is(f) == f = [k \in 0..n |-> IF k = 0 THEN s ELSE Destroy(f[k - 1], i + k)]
<1>1. \A k \in 1..n : w[k] = Raw /\ w[k] \in Cell
  BY DEF Cell
<1> HIDE DEF w
<1>2. PICK h : Writes(h, s, i, n, w) /\ h[n] = With(s, Written(s.cell, i, n, w))
  BY <1>1, WritesEnd
<1>3. h[0] = s /\ h = [k \in 0..n |-> h[k]]
  BY <1>2 DEF Writes
<1>4. ASSUME NEW k \in 1..n PROVE h[k] = Destroy(h[k - 1], i + k)
  <2>1. PICK g \in Seq(Cell) :
           /\ h[k - 1] = With(s, g) /\ i + k \in 1..Len(g) /\ g[i + k] = s.cell[i + k]
           /\ h[k] = With(s, Set(g, i + k, w[k]))
    BY <1>2 DEF Writes
  <2>2. i + k \in i + 1 .. i + n /\ w[k] = Raw /\ w[k] \in Cell
    BY <1>1
  <2>3. QED BY <2>1, <2>2, DestroyIs
<1>5. ASSUME NEW k \in 0..n PROVE h[k] = IF k = 0 THEN s ELSE Destroy(h[k - 1], i + k)
  <2>1. CASE k = 0
    BY <1>3, <2>1
  <2>2. CASE k # 0
    <3>1. k \in 1..n
      BY <2>2
    <3>2. QED BY <2>2, <3>1, <1>4
  <2>3. QED BY <2>1, <2>2
<1>6. Is(h)
  BY <1>3, <1>5
<1>7. PICK f : Is(f) /\ destroy(s, i, n) = f[n]
  BY <1>6 DEF destroy, Loop
<1>8. \A k \in 0..n : f[k] = IF k = 0 THEN s ELSE Destroy(f[k - 1], i + k)
  BY <1>7
<1>9. f[0] = h[0] /\ \A k \in 1..n : f[k - 1] = h[k - 1] => f[k] = h[k]
  <2>1. f[0] = s
    BY <1>8
  <2>2. ASSUME NEW k \in 1..n, f[k - 1] = h[k - 1] PROVE f[k] = h[k]
    BY <2>2, <1>4, <1>8
  <2>3. QED BY <1>3, <2>1, <2>2
<1>10. f[n] = h[n]
  BY ONLY <1>9, n \in Nat, SameSteps
<1>11. QED BY <1>2, <1>7, <1>10 DEF w

\* Copies are assigned to objects ...
LEMMA CopyInIs ==
  ASSUME NEW s \in State, NEW i \in Nat, NEW w \in Seq(Cell), NEW n \in Nat, n = Len(w),
         i + n <= Len(s.cell),
         \A c \in i + 1 .. i + n : s.cell[c] # Raw
  PROVE  copy_in(s, w, i) = With(s, Written(s.cell, i, n, w))
<1> DEFINE Is(f) == f = [k \in 0..n |-> IF k = 0 THEN s ELSE Assign(f[k - 1], i + k, w[k])]
<1>1. \A k \in 1..n : w[k] = w[k] /\ w[k] \in Cell
  OBVIOUS
<1>2. PICK h : Writes(h, s, i, n, w) /\ h[n] = With(s, Written(s.cell, i, n, w))
  BY <1>1, WritesEnd
<1>3. h[0] = s /\ h = [k \in 0..n |-> h[k]]
  BY <1>2 DEF Writes
<1>4. ASSUME NEW k \in 1..n PROVE h[k] = Assign(h[k - 1], i + k, w[k])
  <2>1. PICK g \in Seq(Cell) :
           /\ h[k - 1] = With(s, g) /\ i + k \in 1..Len(g) /\ g[i + k] = s.cell[i + k]
           /\ h[k] = With(s, Set(g, i + k, w[k]))
    BY <1>2 DEF Writes
  <2>2. i + k \in i + 1 .. i + n /\ w[k] = w[k] /\ w[k] \in Cell
    BY <1>1
  <2>3. QED BY <2>1, <2>2, AssignIs
<1>5. ASSUME NEW k \in 0..n PROVE h[k] = IF k = 0 THEN s ELSE Assign(h[k - 1], i + k, w[k])
  <2>1. CASE k = 0
    BY <1>3, <2>1
  <2>2. CASE k # 0
    <3>1. k \in 1..n
      BY <2>2
    <3>2. QED BY <2>2, <3>1, <1>4
  <2>3. QED BY <2>1, <2>2
<1>6. Is(h)
  BY <1>3, <1>5
<1>7. PICK f : Is(f) /\ copy_in(s, w, i) = f[n]
  BY <1>6 DEF copy_in, Loop
<1>8. \A k \in 0..n : f[k] = IF k = 0 THEN s ELSE Assign(f[k - 1], i + k, w[k])
  BY <1>7
<1>9. f[0] = h[0] /\ \A k \in 1..n : f[k - 1] = h[k - 1] => f[k] = h[k]
  <2>1. f[0] = s
    BY <1>8
  <2>2. ASSUME NEW k \in 1..n, f[k - 1] = h[k - 1] PROVE f[k] = h[k]
    BY <2>2, <1>4, <1>8
  <2>3. QED BY <1>3, <2>1, <2>2
<1>10. f[n] = h[n]
  BY ONLY <1>9, n \in Nat, SameSteps
<1>11. QED BY <1>2, <1>7, <1>10

\* ... or constructed.
LEMMA CopyConstructIs ==
  ASSUME NEW s \in State, NEW i \in Nat, NEW w \in Seq(Cell), NEW n \in Nat, n = Len(w),
         i + n <= Len(s.cell)
  PROVE  uninitialized_copy(s, w, i) = With(s, Written(s.cell, i, n, w))
<1> DEFINE Is(f) == f = [k \in 0..n |-> IF k = 0 THEN s ELSE Put(f[k - 1], i + k, w[k])]
<1>1. \A k \in 1..n : w[k] = w[k] /\ w[k] \in Cell
  OBVIOUS
<1>2. PICK h : Writes(h, s, i, n, w) /\ h[n] = With(s, Written(s.cell, i, n, w))
  BY <1>1, WritesEnd
<1>3. h[0] = s /\ h = [k \in 0..n |-> h[k]]
  BY <1>2 DEF Writes
<1>4. ASSUME NEW k \in 1..n PROVE h[k] = Put(h[k - 1], i + k, w[k])
  <2>1. PICK g \in Seq(Cell) :
           /\ h[k - 1] = With(s, g) /\ i + k \in 1..Len(g) /\ g[i + k] = s.cell[i + k]
           /\ h[k] = With(s, Set(g, i + k, w[k]))
    BY <1>2 DEF Writes
  <2>2. i + k \in i + 1 .. i + n /\ w[k] = w[k] /\ w[k] \in Cell
    BY <1>1
  <2>3. QED BY <2>1, <2>2, PutIs
<1>5. ASSUME NEW k \in 0..n PROVE h[k] = IF k = 0 THEN s ELSE Put(h[k - 1], i + k, w[k])
  <2>1. CASE k = 0
    BY <1>3, <2>1
  <2>2. CASE k # 0
    <3>1. k \in 1..n
      BY <2>2
    <3>2. QED BY <2>2, <3>1, <1>4
  <2>3. QED BY <2>1, <2>2
<1>6. Is(h)
  BY <1>3, <1>5
<1>7. PICK f : Is(f) /\ uninitialized_copy(s, w, i) = f[n]
  BY <1>6 DEF uninitialized_copy, Loop
<1>8. \A k \in 0..n : f[k] = IF k = 0 THEN s ELSE Put(f[k - 1], i + k, w[k])
  BY <1>7
<1>9. f[0] = h[0] /\ \A k \in 1..n : f[k - 1] = h[k - 1] => f[k] = h[k]
  <2>1. f[0] = s
    BY <1>8
  <2>2. ASSUME NEW k \in 1..n, f[k - 1] = h[k - 1] PROVE f[k] = h[k]
    BY <2>2, <1>4, <1>8
  <2>3. QED BY <1>3, <2>1, <2>2
<1>10. f[n] = h[n]
  BY ONLY <1>9, n \in Nat, SameSteps
<1>11. QED BY <1>2, <1>7, <1>10

-----------------------------------------------------------------------------
(* Loops that move.                                                        *)

\* f when the n objects after the first i cells have gone to the cells after the
\* first j.
Carried(f, i, n, j) ==
  [c \in 1..Len(f) |-> IF c \in j + 1 .. j + n THEN f[c - j + i]
                       ELSE IF c \in i + 1 .. i + n THEN Moved ELSE f[c]]

\* A buffer of which elements were carried is one of the same length.
LEMMA CarriedIs ==
  ASSUME NEW f \in Seq(Cell), NEW i \in Nat, NEW n \in Nat, NEW j \in Nat, i + n <= Len(f), j + n <= Len(f)
  PROVE  /\ Carried(f, i, n, j) \in Seq(Cell) /\ Len(Carried(f, i, n, j)) = Len(f)
         /\ n = 0 => Carried(f, i, n, j) = f
<1> DEFINE g == Carried(f, i, n, j)
<1>1. g = [c \in 1..Len(f) |-> g[c]] 
  BY DEF Carried
<1>2. ASSUME NEW c \in 1..Len(f) PROVE g[c] \in Cell
  <2>1. CASE c \in j + 1 .. j + n
    <3>1. c - j + i \in 1..Len(f)
      BY <2>1
    <3>2. QED BY <2>1, <3>1 DEF Carried
  <2>2. CASE c \notin j + 1 .. j + n
    BY <2>2 DEF Carried, Cell
  <2>3. QED BY <2>1, <2>2
<1>3. ASSUME n = 0 PROVE g = f
  <2>1. f = [c \in 1..Len(f) |-> f[c]] /\ j + 1 .. j + n = {} /\ i + 1 .. i + n = {}
    BY <1>3
  <2>2. QED BY <2>1 DEF Carried
<1> HIDE DEF g
<1>4. g \in Seq(Cell) /\ Len(g) = Len(f)
  BY <1>1, <1>2, CellsAre
<1>5. QED BY <1>3, <1>4 DEF g

\* A shift, cell by cell.
LEMMA ShiftIs ==
  ASSUME NEW f \in Seq(Cell), NEW a \in 1..Len(f), NEW c \in 1..Len(f), a # c
  PROVE  Shift(f, a, c) = [b \in 1..Len(f) |-> IF b = a THEN Moved ELSE IF b = c THEN f[a] ELSE f[b]]
<1>1. Set(f, c, f[a]) = [b \in 1..Len(f) |-> IF b = c THEN f[a] ELSE f[b]]
  BY DEF Set
<1>2. QED BY <1>1 DEF Shift, Set

\* One move more, of cell i + k to cell j + k, where k is before or after the others.
LEMMA CarriedFirst ==
  ASSUME NEW f \in Seq(Cell), NEW i \in Nat, NEW n \in Nat, NEW j \in Nat, i + n + 1 <= Len(f), j + n + 1 <= Len(f),
         j > i
  PROVE  LET g == Carried(f, i + 1, n, j + 1) IN
         /\ g[i + 1] = f[i + 1] /\ g[j + 1] \in {f[j + 1], Moved}
         /\ Shift(g, i + 1, j + 1) = Carried(f, i, n + 1, j)
<1> DEFINE g == Carried(f, i + 1, n, j + 1)
<1>1. g \in Seq(Cell) /\ Len(g) = Len(f)
  BY CarriedIs
<1>2. g[i + 1] = f[i + 1] /\ g[j + 1] \in {f[j + 1], Moved}
  BY DEF Carried
<1>3. Shift(g, i + 1, j + 1) =
        [c \in 1..Len(f) |-> IF c = i + 1 THEN Moved ELSE IF c = j + 1 THEN f[i + 1] ELSE g[c]]
  <2>1. i + 1 \in 1..Len(f) /\ j + 1 \in 1..Len(f) /\ i + 1 # j + 1
    OBVIOUS
  <2> HIDE DEF g
  <2>2. g \in Seq(Cell) /\ i + 1 \in 1..Len(g) /\ j + 1 \in 1..Len(g) /\ i + 1 # j + 1
    BY <1>1, <2>1
  <2>3. Shift(g, i + 1, j + 1) =
          [c \in 1..Len(g) |-> IF c = i + 1 THEN Moved ELSE IF c = j + 1 THEN g[i + 1] ELSE g[c]]
    BY ONLY <2>2, ShiftIs
  <2>4. QED BY <1>1, <1>2, <2>3
<1>4. ASSUME NEW c \in 1..Len(f)
      PROVE  Carried(f, i, n + 1, j)[c] = IF c = i + 1 THEN Moved ELSE IF c = j + 1 THEN f[i + 1] ELSE g[c]
  <2>1. CASE c \in j + 1 .. j + (n + 1)
    BY <2>1 DEF Carried
  <2>2. CASE c \notin j + 1 .. j + (n + 1)
    BY <2>2 DEF Carried
  <2>3. QED BY <2>1, <2>2
<1>5. Carried(f, i, n + 1, j) = [c \in 1..Len(f) |-> Carried(f, i, n + 1, j)[c]]
  BY DEF Carried
<1> HIDE DEF g
<1>6. Shift(g, i + 1, j + 1) = Carried(f, i, n + 1, j)
  BY <1>3, <1>4, <1>5
<1>7. QED BY <1>2, <1>6 DEF g

\* Carrying one cell more, at the end that comes first, is a shift.
LEMMA CarriedLast ==
  ASSUME NEW f \in Seq(Cell), NEW i \in Nat, NEW n \in Nat, NEW j \in Nat, i + n + 1 <= Len(f), j + n + 1 <= Len(f),
         j < i \/ j > i + n
  PROVE  LET g == Carried(f, i, n, j) IN
         /\ g[i + (n + 1)] = f[i + (n + 1)] /\ g[j + (n + 1)] \in {f[j + (n + 1)], Moved}
         /\ Shift(g, i + (n + 1), j + (n + 1)) = Carried(f, i, n + 1, j)
<1> DEFINE g == Carried(f, i, n, j)
           a == i + (n + 1)
           b == j + (n + 1)
<1>1. g \in Seq(Cell) /\ Len(g) = Len(f)
  BY CarriedIs
<1>2. g[a] = f[a] /\ g[b] \in {f[b], Moved}
  BY DEF Carried
<1>3. Shift(g, a, b) =
        [c \in 1..Len(f) |-> IF c = a THEN Moved ELSE IF c = b THEN f[a] ELSE g[c]]
  <2>1. a \in 1..Len(f) /\ b \in 1..Len(f) /\ a # b
    OBVIOUS
  <2> HIDE DEF g, a, b
  <2>2. g \in Seq(Cell) /\ a \in 1..Len(g) /\ b \in 1..Len(g) /\ a # b
    BY <1>1, <2>1
  <2>3. Shift(g, a, b) = [c \in 1..Len(g) |-> IF c = a THEN Moved ELSE IF c = b THEN g[a] ELSE g[c]]
    BY ONLY <2>2, ShiftIs
  <2>4. QED BY <1>1, <1>2, <2>3
<1>4. ASSUME NEW c \in 1..Len(f)
      PROVE  Carried(f, i, n + 1, j)[c] = IF c = a THEN Moved ELSE IF c = b THEN f[a] ELSE g[c]
  <2>1. CASE c \in j + 1 .. j + (n + 1)
    BY <2>1 DEF Carried
  <2>2. CASE c \notin j + 1 .. j + (n + 1)
    BY <2>2 DEF Carried
  <2>3. QED BY <2>1, <2>2
<1>5. Carried(f, i, n + 1, j) = [c \in 1..Len(f) |-> Carried(f, i, n + 1, j)[c]]
  BY DEF Carried
<1> HIDE DEF g
<1>6. Shift(g, a, b) = Carried(f, i, n + 1, j)
  <2> HIDE DEF a, b
  <2> QED BY <1>3, <1>4, <1>5
<1>7. QED BY <1>2, <1>6 DEF g

\* The states h of a loop that moves the object of cell a[k] to cell b[k], and the
\* cells g in them.
Moves(h, g, s, n, a, b) ==
  /\ h = [k \in 0..n |-> h[k]] /\ h[0] = s
  /\ \A k \in 0..n : h[k] = With(s, g[k]) /\ g[k] \in Seq(Cell)
  /\ \A k \in 1..n :
        /\ a[k] \in 1..Len(g[k - 1]) /\ b[k] \in 1..Len(g[k - 1])
        /\ g[k - 1][a[k]] = s.cell[a[k]] /\ g[k - 1][b[k]] \in {s.cell[b[k]], Moved}
        /\ g[k] = Shift(g[k - 1], a[k], b[k])

\* From the first to the last, to cells before or behind them all ...
LEMMA ForwardMoves ==
  ASSUME NEW s \in State, NEW i \in Nat, NEW n \in Nat, NEW j \in Nat,
         i + n <= Len(s.cell), j + n <= Len(s.cell), j < i \/ j >= i + n
  PROVE  \E h, g : /\ Moves(h, g, s, n, [k \in 1..n |-> i + k], [k \in 1..n |-> j + k])
                  /\ h[n] = With(s, Carried(s.cell, i, n, j))
<1> DEFINE F == s.cell
           g == [k \in 0..n |-> Carried(F, i, k, j)]
           h == [k \in 0..n |-> With(s, g[k])]
           a == [k \in 1..n |-> i + k]
           b == [k \in 1..n |-> j + k]
<1>1. F \in Seq(Cell) /\ Len(F) \in Nat
  BY StateIs
<1>2. ASSUME NEW k \in 0..n
      PROVE  g[k] \in Seq(Cell) /\ Len(g[k]) = Len(F) /\ (k = 0 => g[k] = F)
  <2>1. k \in Nat /\ i + k <= Len(F) /\ j + k <= Len(F) /\ i \in Nat /\ j \in Nat
    BY <1>1
  <2>2. g[k] = Carried(F, i, k, j)
    OBVIOUS
  <2> HIDE DEF F, g
  <2>3. QED BY <1>1, <2>1, <2>2, CarriedIs
<1>3. ASSUME NEW k \in 1..n
      PROVE  /\ a[k] \in 1..Len(g[k - 1]) /\ b[k] \in 1..Len(g[k - 1])
             /\ g[k - 1][a[k]] = F[a[k]] /\ g[k - 1][b[k]] \in {F[b[k]], Moved}
             /\ g[k] = Shift(g[k - 1], a[k], b[k])
  <2>1. PICK m \in 0..n - 1 : k = m + 1
    <3>1. k - 1 \in 0..n - 1 /\ k = (k - 1) + 1
      OBVIOUS
    <3>2. QED BY <3>1
  <2>2. /\ m \in Nat /\ i + m + 1 <= Len(F) /\ j + m + 1 <= Len(F) /\ i \in Nat /\ j \in Nat
        /\ (j < i \/ j > i + m)
    BY <1>1
  <2>3. /\ k - 1 = m /\ m \in 0..n /\ k \in 0..n /\ g[m] = Carried(F, i, m, j) /\ g[k] = Carried(F, i, m + 1, j)
        /\ a[k] = i + (m + 1) /\ b[k] = j + (m + 1)
    BY <2>1
  <2>4. Len(g[m]) = Len(F)
    BY <1>2, <2>3
  <2>5. a[k] \in 1..Len(F) /\ b[k] \in 1..Len(F)
    BY <1>1, <2>2, <2>3
  <2> HIDE DEF F, g, a, b
  <2>6. /\ Carried(F, i, m, j)[i + (m + 1)] = F[i + (m + 1)]
        /\ Carried(F, i, m, j)[j + (m + 1)] \in {F[j + (m + 1)], Moved}
        /\ Shift(Carried(F, i, m, j), i + (m + 1), j + (m + 1)) = Carried(F, i, m + 1, j)
    BY ONLY <1>1, <2>2, CarriedLast
  <2>7. QED BY <2>3, <2>4, <2>5, <2>6
<1>4. h = [k \in 0..n |-> h[k]] /\ (\A k \in 0..n : h[k] = With(s, g[k])) /\ g[n] = Carried(F, i, n, j)
  OBVIOUS
<1> HIDE DEF h, g, a, b
<1>5. h[0] = s
  <2>1. h[0] = With(s, F)
    BY <1>2, <1>4
  <2>2. QED BY <2>1 DEF With, State
<1>6. Moves(h, g, s, n, a, b)
  BY <1>2, <1>3, <1>4, <1>5 DEF Moves
<1>7. h[n] = With(s, Carried(F, i, n, j))
  <2>1. n \in 0..n
    OBVIOUS
  <2>2. QED BY <1>4, <2>1
<1>8. \E h_, g_ : Moves(h_, g_, s, n, a, b) /\ h_[n] = With(s, Carried(F, i, n, j))
  BY <1>6, <1>7
<1>9. QED BY <1>8 DEF a, b

\* ... or from the last to the first, to cells behind.
LEMMA BackwardMoves ==
  ASSUME NEW s \in State, NEW i \in Nat, NEW n \in Nat, NEW end \in Nat,
         end > i + n, end <= Len(s.cell)
  PROVE  \E h, g : /\ Moves(h, g, s, n, [k \in 1..n |-> i + n + 1 - k], [k \in 1..n |-> end + 1 - k])
                  /\ h[n] = With(s, Carried(s.cell, i, n, end - n))
<1> DEFINE F == s.cell
           g == [k \in 0..n |-> Carried(F, i + n - k, k, end - k)]
           h == [k \in 0..n |-> With(s, g[k])]
           a == [k \in 1..n |-> i + n + 1 - k]
           b == [k \in 1..n |-> end + 1 - k]
<1>1. F \in Seq(Cell) /\ Len(F) \in Nat
  BY StateIs
<1>2. ASSUME NEW k \in 0..n
      PROVE  g[k] \in Seq(Cell) /\ Len(g[k]) = Len(F) /\ (k = 0 => g[k] = F)
  <2> DEFINE p == i + n - k
             q == end - k
  <2>1. k \in Nat /\ p + k <= Len(F) /\ q + k <= Len(F) /\ p \in Nat /\ q \in Nat
    BY <1>1
  <2>2. g[k] = Carried(F, p, k, q)
    OBVIOUS
  <2> HIDE DEF F, g, p, q
  <2>3. QED BY <1>1, <2>1, <2>2, CarriedIs
<1>3. ASSUME NEW k \in 1..n
      PROVE  /\ a[k] \in 1..Len(g[k - 1]) /\ b[k] \in 1..Len(g[k - 1])
             /\ g[k - 1][a[k]] = F[a[k]] /\ g[k - 1][b[k]] \in {F[b[k]], Moved}
             /\ g[k] = Shift(g[k - 1], a[k], b[k])
  <2> DEFINE m == k - 1
             p == i + n - k
             q == end - k
  <2>1. m \in 0..n - 1 /\ k = m + 1 /\ i + n - m = p + 1 /\ end - m = q + 1
    OBVIOUS
  <2>2. /\ m \in Nat /\ p + m + 1 <= Len(F) /\ q + m + 1 <= Len(F) /\ p \in Nat /\ q \in Nat
        /\ q > p
    BY <1>1
  <2>3. /\ m \in 0..n /\ k \in 0..n /\ g[m] = Carried(F, p + 1, m, q + 1) /\ g[k] = Carried(F, p, m + 1, q)
        /\ a[k] = p + 1 /\ b[k] = q + 1
    BY <2>1
  <2>4. Len(g[m]) = Len(F)
    BY <1>2, <2>3
  <2>5. a[k] \in 1..Len(F) /\ b[k] \in 1..Len(F)
    BY <1>1, <2>2, <2>3
  <2>6. k - 1 = m
    OBVIOUS
  <2> HIDE DEF F, g, a, b, m, p, q
  <2>7. /\ Carried(F, p + 1, m, q + 1)[p + 1] = F[p + 1]
        /\ Carried(F, p + 1, m, q + 1)[q + 1] \in {F[q + 1], Moved}
        /\ Shift(Carried(F, p + 1, m, q + 1), p + 1, q + 1) = Carried(F, p, m + 1, q)
    BY ONLY <1>1, <2>2, CarriedFirst
  <2>8. QED BY <2>3, <2>4, <2>5, <2>6, <2>7
<1>4. h = [k \in 0..n |-> h[k]] /\ (\A k \in 0..n : h[k] = With(s, g[k])) /\ g[n] = Carried(F, i, n, end - n)
  OBVIOUS
<1> HIDE DEF h, g, a, b
<1>5. h[0] = s
  <2>1. h[0] = With(s, F)
    BY <1>2, <1>4
  <2>2. QED BY <2>1 DEF With, State
<1>6. Moves(h, g, s, n, a, b)
  BY <1>2, <1>3, <1>4, <1>5 DEF Moves
<1>7. h[n] = With(s, Carried(F, i, n, end - n))
  <2>1. n \in 0..n
    OBVIOUS
  <2>2. QED BY <1>4, <2>1
<1>8. \E h_, g_ : Moves(h_, g_, s, n, a, b) /\ h_[n] = With(s, Carried(F, i, n, end - n))
  BY <1>6, <1>7
<1>9. QED BY <1>8 DEF a, b

\* Constructors find a cell, and objects in the cells they take them from.
LEMMA MoveOutIs ==
  ASSUME NEW s \in State, NEW i \in Nat, NEW n \in Nat, NEW j \in Nat,
         i + n <= j, j + n <= Len(s.cell),
         \A c \in i + 1 .. i + n : s.cell[c] # Raw
  PROVE  uninitialized_move(s, i, n, j) = With(s, Carried(s.cell, i, n, j))
<1> DEFINE a == [k \in 1..n |-> i + k]
           b == [k \in 1..n |-> j + k]
           Is(f) == f = [k \in 0..n |-> IF k = 0 THEN s ELSE MoveConstruct(f[k - 1], i + k, j + k)]
<1>1. ASSUME NEW k \in 1..n
      PROVE  /\ a[k] = i + k /\ b[k] = j + k /\ a[k] # b[k]
             /\ s.cell[a[k]] # Raw
  OBVIOUS
<1>2. PICK h, g : Moves(h, g, s, n, a, b) /\ h[n] = With(s, Carried(s.cell, i, n, j))
  <2>1. s \in State /\ i \in Nat /\ n \in Nat /\ j \in Nat /\ i + n <= Len(s.cell) /\ j + n <= Len(s.cell) /\ (j < i \/ j >= i + n)
    BY StateIs
  <2>2. QED BY ONLY <2>1, ForwardMoves
<1> HIDE DEF a, b
<1>3. h[0] = s /\ h = [k \in 0..n |-> h[k]]
  BY <1>2 DEF Moves
<1>4. ASSUME NEW k \in 1..n PROVE h[k] = MoveConstruct(h[k - 1], i + k, j + k)
  <2>1. k - 1 \in 0..n /\ k \in 0..n
    OBVIOUS
  <2>2. /\ h[k] = With(s, g[k]) /\ h[k - 1] = With(s, g[k - 1]) /\ g[k - 1] \in Seq(Cell)
        /\ a[k] \in 1..Len(g[k - 1]) /\ b[k] \in 1..Len(g[k - 1])
        /\ g[k - 1][a[k]] = s.cell[a[k]] /\ g[k - 1][b[k]] \in {s.cell[b[k]], Moved}
        /\ g[k] = Shift(g[k - 1], a[k], b[k])
    BY <1>2, <2>1 DEF Moves
  <2>3. g[k - 1][a[k]] # Raw /\ g[k - 1][b[k]] \in {s.cell[b[k]], Moved}
    BY <1>1, <2>2
  <2>4. MoveConstruct(With(s, g[k - 1]), a[k], b[k]) = With(s, Shift(g[k - 1], a[k], b[k]))
    BY <1>1, <2>2, <2>3, MoveConstructIs, Cells
  <2>5. QED BY <1>1, <2>2, <2>4
<1>5. ASSUME NEW k \in 0..n PROVE h[k] = IF k = 0 THEN s ELSE MoveConstruct(h[k - 1], i + k, j + k)
  <2>1. CASE k = 0
    BY <1>3, <2>1
  <2>2. CASE k # 0
    <3>1. k \in 1..n
      BY <2>2
    <3>2. QED BY <2>2, <3>1, <1>4
  <2>3. QED BY <2>1, <2>2
<1>6. Is(h)
  BY <1>3, <1>5
<1>7. PICK f : Is(f) /\ uninitialized_move(s, i, n, j) = f[n]
  BY <1>6 DEF uninitialized_move, Loop
<1>8. \A k \in 0..n : f[k] = IF k = 0 THEN s ELSE MoveConstruct(f[k - 1], i + k, j + k)
  BY <1>7
<1>9. f[0] = h[0] /\ \A k \in 1..n : f[k - 1] = h[k - 1] => f[k] = h[k]
  <2>1. f[0] = s
    BY <1>8
  <2>2. ASSUME NEW k \in 1..n, f[k - 1] = h[k - 1] PROVE f[k] = h[k]
    BY <2>2, <1>4, <1>8
  <2>3. QED BY <1>3, <2>1, <2>2
<1>10. f[n] = h[n]
  BY ONLY <1>9, n \in Nat, SameSteps
<1>11. QED BY <1>2, <1>7, <1>10

\* Assignments find an object in either cell, be it moved from.
LEMMA CopyIs ==
  ASSUME NEW s \in State, NEW i \in Nat, NEW n \in Nat, NEW j \in Nat,
         j < i, i + n <= Len(s.cell),
         \A c \in i + 1 .. i + n : s.cell[c] # Raw,
         \A c \in j + 1 .. j + n : s.cell[c] # Raw
  PROVE  copy(s, i, n, j) = With(s, Carried(s.cell, i, n, j))
<1> DEFINE a == [k \in 1..n |-> i + k]
           b == [k \in 1..n |-> j + k]
           Is(f) == f = [k \in 0..n |-> IF k = 0 THEN s ELSE MoveAssign(f[k - 1], i + k, j + k)]
<1>1. ASSUME NEW k \in 1..n
      PROVE  /\ a[k] = i + k /\ b[k] = j + k /\ a[k] # b[k]
             /\ s.cell[a[k]] # Raw /\ s.cell[b[k]] # Raw
  OBVIOUS
<1>2. PICK h, g : Moves(h, g, s, n, a, b) /\ h[n] = With(s, Carried(s.cell, i, n, j))
  <2>1. s \in State /\ i \in Nat /\ n \in Nat /\ j \in Nat /\ i + n <= Len(s.cell) /\ j + n <= Len(s.cell) /\ (j < i \/ j >= i + n)
    BY StateIs
  <2>2. QED BY ONLY <2>1, ForwardMoves
<1> HIDE DEF a, b
<1>3. h[0] = s /\ h = [k \in 0..n |-> h[k]]
  BY <1>2 DEF Moves
<1>4. ASSUME NEW k \in 1..n PROVE h[k] = MoveAssign(h[k - 1], i + k, j + k)
  <2>1. k - 1 \in 0..n /\ k \in 0..n
    OBVIOUS
  <2>2. /\ h[k] = With(s, g[k]) /\ h[k - 1] = With(s, g[k - 1]) /\ g[k - 1] \in Seq(Cell)
        /\ a[k] \in 1..Len(g[k - 1]) /\ b[k] \in 1..Len(g[k - 1])
        /\ g[k - 1][a[k]] = s.cell[a[k]] /\ g[k - 1][b[k]] \in {s.cell[b[k]], Moved}
        /\ g[k] = Shift(g[k - 1], a[k], b[k])
    BY <1>2, <2>1 DEF Moves
  <2>3. g[k - 1][a[k]] # Raw /\ g[k - 1][b[k]] \in {s.cell[b[k]], Moved}
    BY <1>1, <2>2
  <2>4. MoveAssign(With(s, g[k - 1]), a[k], b[k]) = With(s, Shift(g[k - 1], a[k], b[k]))
    BY <1>1, <2>2, <2>3, MoveConstructIs, Cells
  <2>5. QED BY <1>1, <2>2, <2>4
<1>5. ASSUME NEW k \in 0..n PROVE h[k] = IF k = 0 THEN s ELSE MoveAssign(h[k - 1], i + k, j + k)
  <2>1. CASE k = 0
    BY <1>3, <2>1
  <2>2. CASE k # 0
    <3>1. k \in 1..n
      BY <2>2
    <3>2. QED BY <2>2, <3>1, <1>4
  <2>3. QED BY <2>1, <2>2
<1>6. Is(h)
  BY <1>3, <1>5
<1>7. PICK f : Is(f) /\ copy(s, i, n, j) = f[n]
  BY <1>6 DEF copy, Loop
<1>8. \A k \in 0..n : f[k] = IF k = 0 THEN s ELSE MoveAssign(f[k - 1], i + k, j + k)
  BY <1>7
<1>9. f[0] = h[0] /\ \A k \in 1..n : f[k - 1] = h[k - 1] => f[k] = h[k]
  <2>1. f[0] = s
    BY <1>8
  <2>2. ASSUME NEW k \in 1..n, f[k - 1] = h[k - 1] PROVE f[k] = h[k]
    BY <2>2, <1>4, <1>8
  <2>3. QED BY <1>3, <2>1, <2>2
<1>10. f[n] = h[n]
  BY ONLY <1>9, n \in Nat, SameSteps
<1>11. QED BY <1>2, <1>7, <1>10

\* copy_backward, whose ranges overlap: the last one goes first.
LEMMA CopyBackwardIs ==
  ASSUME NEW s \in State, NEW i \in Nat, NEW n \in Nat, NEW end \in Nat,
         end > i + n, end <= Len(s.cell),
         \A c \in i + 1 .. i + n : s.cell[c] # Raw,
         \A c \in end - n + 1 .. end : s.cell[c] # Raw
  PROVE  copy_backward(s, i, n, end) = With(s, Carried(s.cell, i, n, end - n))
<1> DEFINE a == [k \in 1..n |-> i + n + 1 - k]
           b == [k \in 1..n |-> end + 1 - k]
           Is(f) == f = [k \in 0..n |-> IF k = 0 THEN s ELSE MoveAssign(f[k - 1], i + n + 1 - k, end + 1 - k)]
<1>1. ASSUME NEW k \in 1..n
      PROVE  /\ a[k] = i + n + 1 - k /\ b[k] = end + 1 - k /\ a[k] # b[k]
             /\ s.cell[a[k]] # Raw /\ s.cell[b[k]] # Raw
  OBVIOUS
<1>2. PICK h, g : Moves(h, g, s, n, a, b) /\ h[n] = With(s, Carried(s.cell, i, n, end - n))
  <2>1. s \in State /\ i \in Nat /\ n \in Nat /\ end \in Nat /\ end > i + n /\ end <= Len(s.cell)
    BY StateIs
  <2>2. QED BY ONLY <2>1, BackwardMoves
<1> HIDE DEF a, b
<1>3. h[0] = s /\ h = [k \in 0..n |-> h[k]]
  BY <1>2 DEF Moves
<1>4. ASSUME NEW k \in 1..n PROVE h[k] = MoveAssign(h[k - 1], i + n + 1 - k, end + 1 - k)
  <2>1. k - 1 \in 0..n /\ k \in 0..n
    OBVIOUS
  <2>2. /\ h[k] = With(s, g[k]) /\ h[k - 1] = With(s, g[k - 1]) /\ g[k - 1] \in Seq(Cell)
        /\ a[k] \in 1..Len(g[k - 1]) /\ b[k] \in 1..Len(g[k - 1])
        /\ g[k - 1][a[k]] = s.cell[a[k]] /\ g[k - 1][b[k]] \in {s.cell[b[k]], Moved}
        /\ g[k] = Shift(g[k - 1], a[k], b[k])
    BY <1>2, <2>1 DEF Moves
  <2>3. g[k - 1][a[k]] # Raw /\ g[k - 1][b[k]] \in {s.cell[b[k]], Moved}
    BY <1>1, <2>2
  <2>4. MoveAssign(With(s, g[k - 1]), a[k], b[k]) = With(s, Shift(g[k - 1], a[k], b[k]))
    BY <1>1, <2>2, <2>3, MoveConstructIs, Cells
  <2>5. QED BY <1>1, <2>2, <2>4
<1>5. ASSUME NEW k \in 0..n PROVE h[k] = IF k = 0 THEN s ELSE MoveAssign(h[k - 1], i + n + 1 - k, end + 1 - k)
  <2>1. CASE k = 0
    BY <1>3, <2>1
  <2>2. CASE k # 0
    <3>1. k \in 1..n
      BY <2>2
    <3>2. QED BY <2>2, <3>1, <1>4
  <2>3. QED BY <2>1, <2>2
<1>6. Is(h)
  BY <1>3, <1>5
<1>7. PICK f : Is(f) /\ copy_backward(s, i, n, end) = f[n]
  BY <1>6 DEF copy_backward, Loop
<1>8. \A k \in 0..n : f[k] = IF k = 0 THEN s ELSE MoveAssign(f[k - 1], i + n + 1 - k, end + 1 - k)
  BY <1>7
<1>9. f[0] = h[0] /\ \A k \in 1..n : f[k - 1] = h[k - 1] => f[k] = h[k]
  <2>1. f[0] = s
    BY <1>8
  <2>2. ASSUME NEW k \in 1..n, f[k - 1] = h[k - 1] PROVE f[k] = h[k]
    BY <2>2, <1>4, <1>8
  <2>3. QED BY <1>3, <2>1, <2>2
<1>10. f[n] = h[n]
  BY ONLY <1>9, n \in Nat, SameSteps
<1>11. QED BY <1>2, <1>7, <1>10

-----------------------------------------------------------------------------
(* Whole vectors.                                                          *)

\* The vector of the elements w in a buffer of n cells.
Vec(w, n, t) == [cell |-> Buffer(w, n), last |-> Len(w), threw |-> t, defined |-> TRUE]

\* A buffer, cell by cell.
LEMMA BufferIs ==
  ASSUME NEW w \in Seq(Val), NEW n \in Nat
  PROVE  /\ Buffer(w, n) \in Seq(Cell) /\ Len(Buffer(w, n)) = n /\ DOMAIN Buffer(w, n) = 1..n
         /\ \A c \in 1..n : Buffer(w, n)[c] = IF c <= Len(w) THEN w[c] ELSE Raw
         /\ \A c \in 1..n : c <= Len(w) => Buffer(w, n)[c] \in Val /\ Buffer(w, n)[c] # Raw
<1> DEFINE f == Buffer(w, n)
<1>1. f = [c \in 1..n |-> f[c]] /\ \A c \in 1..n : f[c] = IF c <= Len(w) THEN w[c] ELSE Raw
  BY DEF Buffer
<1>2. \A c \in 1..Len(w) : w[c] \in Val
  OBVIOUS
<1>3. Len(w) \in Nat
  OBVIOUS
<1>4. \A c \in 1..n : f[c] \in Cell /\ (c <= Len(w) => f[c] \in Val)
  BY <1>1, <1>2, <1>3 DEF Cell
<1> HIDE DEF f
<1>5. f \in Seq(Cell) /\ Len(f) = n
  BY <1>1, <1>4, CellsAre
<1>6. QED BY <1>1, <1>4, <1>5, Cells DEF f

\* A whole vector, field by field.
LEMMA VecIs ==
  ASSUME NEW w \in Seq(Val), NEW n \in Nat, NEW t \in BOOLEAN
  PROVE  /\ Vec(w, n, t) \in State
         /\ Vec(w, n, t).cell = Buffer(w, n) /\ Vec(w, n, t).last = Len(w)
         /\ Vec(w, n, t).threw = t /\ Vec(w, n, t).defined = TRUE
         /\ Capacity(Vec(w, n, t)) = n /\ Len(w) \in Nat
BY BufferIs DEF Vec, State, Capacity

\* Two states are the same if their fields are.
LEMMA SameVec ==
  ASSUME NEW s \in State, NEW w \in Seq(Val), NEW n \in Nat,
         s.last = Len(w), s.defined, Len(s.cell) = n,
         \A c \in 1..n : s.cell[c] = IF c <= Len(w) THEN w[c] ELSE Raw
  PROVE  s = Vec(w, n, s.threw)
<1>1. s.cell = [c \in 1..n |-> s.cell[c]]
  BY StateIs
<1>2. s.cell = Buffer(w, n)
  BY <1>1 DEF Buffer
<1>3. QED BY <1>2 DEF Vec, State

\* Its elements are w.
LEMMA ElemsAre ==
  ASSUME NEW w \in Seq(Val), NEW n \in Nat, NEW t \in BOOLEAN, Len(w) <= n
  PROVE  Elems(Vec(w, n, t)) = w
<1> DEFINE f == Buffer(w, n)
           e == SubSeq(f, 1, Len(w))
<1>0. Len(w) \in Nat
  OBVIOUS
<1>1. f \in Seq(Cell) /\ Len(f) = n /\ \A c \in 1..n : f[c] = IF c <= Len(w) THEN w[c] ELSE Raw
  BY BufferIs
<1> HIDE DEF f
<1>2. e \in Seq(Cell) /\ Len(e) = Len(w) /\ \A c \in 1..Len(w) : e[c] = f[c]
  BY <1>0, <1>1
<1> HIDE DEF e
<1>3. \A c \in 1..Len(w) : e[c] = w[c]
  BY <1>0, <1>1, <1>2
<1>4. e = w
  BY <1>0, <1>2, <1>3
<1>5. QED BY <1>4, VecIs DEF e, f, Elems

\* What whole vectors are.
Right(s, n) == \E w \in Seq(Val), t \in BOOLEAN : Len(w) <= n /\ s = Vec(w, n, t)

\* A state whose cells are right is a whole vector.
LEMMA RightIs ==
  ASSUME NEW s \in State, s.defined, s.last <= Len(s.cell),
         \A c \in 1..Len(s.cell) : IF c <= s.last THEN s.cell[c] \in Val ELSE s.cell[c] = Raw
  PROVE  Right(s, Len(s.cell))
<1> DEFINE w == [c \in 1..s.last |-> s.cell[c]]
           n == Len(s.cell)
<1>1. n \in Nat /\ s.last \in Nat /\ s.threw \in BOOLEAN /\ s.defined = TRUE
  BY StateIs
<1>2. w \in [1..s.last -> Val]
  BY <1>1
<1>3. w \in Seq(Val) /\ Len(w) = s.last /\ \A c \in 1..s.last : w[c] = s.cell[c]
  BY <1>1, <1>2
<1> HIDE DEF w
<1>4. \A c \in 1..n : s.cell[c] = IF c <= Len(w) THEN w[c] ELSE Raw
  BY <1>1, <1>3
<1>5. PICK m : m = n
  OBVIOUS
<1>6. /\ s \in State /\ w \in Seq(Val) /\ m \in Nat
      /\ s.last = Len(w) /\ s.defined /\ Len(s.cell) = m
      /\ \A c \in 1..m : s.cell[c] = IF c <= Len(w) THEN w[c] ELSE Raw
  BY <1>1, <1>3, <1>4, <1>5
<1>7. s = Vec(w, m, s.threw)
  BY ONLY <1>6, SameVec
<1>8. QED BY <1>1, <1>3, <1>5, <1>6, <1>7 DEF Right

-----------------------------------------------------------------------------
(* Sequences.                                                              *)

\* Concatenation, element by element.
LEMMA ConcatIs ==
  ASSUME NEW S, NEW a \in Seq(S), NEW b \in Seq(S)
  PROVE  /\ a \o b \in Seq(S) /\ Len(a \o b) = Len(a) + Len(b)
         /\ \A c \in 1..Len(a) + Len(b) : (a \o b)[c] = IF c <= Len(a) THEN a[c] ELSE b[c - Len(a)]
OBVIOUS

\* u goes after the first i elements of w.
Ins(w, i, u) == SubSeq(w, 1, i) \o u \o SubSeq(w, i + 1, Len(w))

\* An insertion, element by element.
LEMMA InsIs ==
  ASSUME NEW w \in Seq(Val), NEW i \in 0..Len(w), NEW u \in Seq(Val)
  PROVE  /\ Ins(w, i, u) \in Seq(Val) /\ Len(Ins(w, i, u)) = Len(w) + Len(u)
         /\ \A c \in 1..Len(w) + Len(u) :
                Ins(w, i, u)[c] = IF c <= i THEN w[c]
                                  ELSE IF c <= i + Len(u) THEN u[c - i] ELSE w[c - Len(u)]
<1> DEFINE a == SubSeq(w, 1, i)
           b == SubSeq(w, i + 1, Len(w))
<1>0. Len(w) \in Nat /\ Len(u) \in Nat /\ i \in Nat /\ i <= Len(w)
  OBVIOUS
<1>1. a \in Seq(Val) /\ Len(a) = i /\ \A c \in 1..i : a[c] = w[c]
  BY <1>0
<1>2. b \in Seq(Val) /\ Len(b) = Len(w) - i /\ \A c \in 1..Len(w) - i : b[c] = w[i + c]
  BY <1>0
<1> HIDE DEF a, b
<1>d. /\ a \o u \in Seq(Val) /\ Len(a \o u) = Len(a) + Len(u)
      /\ \A c \in 1..Len(a) + Len(u) : (a \o u)[c] = IF c <= Len(a) THEN a[c] ELSE u[c - Len(a)]
  <2>1. a \in Seq(Val) /\ u \in Seq(Val)
    BY <1>1
  <2>2. QED BY ONLY <2>1, ConcatIs
<1>3. a \o u \in Seq(Val) /\ Len(a \o u) = i + Len(u) /\ \A c \in 1..i + Len(u) : (a \o u)[c] = IF c <= i THEN w[c] ELSE u[c - i]
  BY <1>0, <1>1, <1>d
<1> DEFINE d == a \o u
<1>4. d \in Seq(Val) /\ Len(d) = i + Len(u) /\ \A c \in 1..i + Len(u) : d[c] = IF c <= i THEN w[c] ELSE u[c - i]
  BY <1>3
<1>5. Ins(w, i, u) = d \o b
  BY DEF Ins, a, b
<1> HIDE DEF d
<1>c. /\ d \o b \in Seq(Val) /\ Len(d \o b) = Len(d) + Len(b)
      /\ \A c \in 1..Len(d) + Len(b) : (d \o b)[c] = IF c <= Len(d) THEN d[c] ELSE b[c - Len(d)]
  <2>1. d \in Seq(Val) /\ b \in Seq(Val)
    BY <1>2, <1>4
  <2>2. QED BY ONLY <2>1, ConcatIs
<1>6. d \o b \in Seq(Val) /\ Len(d \o b) = Len(w) + Len(u)
  BY <1>0, <1>2, <1>4, <1>c
<1>7. ASSUME NEW c \in 1..Len(w) + Len(u)
      PROVE  (d \o b)[c] = IF c <= i THEN w[c] ELSE IF c <= i + Len(u) THEN u[c - i] ELSE w[c - Len(u)]
  <2>1. CASE c <= i + Len(u)
    <3>1. (d \o b)[c] = d[c]
      BY <1>0, <1>2, <1>4, <2>1, <1>c
    <3>2. QED BY <1>0, <1>4, <2>1, <3>1
  <2>2. CASE c > i + Len(u)
    <3>1. (d \o b)[c] = b[c - (i + Len(u))]
      BY <1>0, <1>2, <1>4, <2>2, <1>c
    <3>2. c - (i + Len(u)) \in 1..Len(w) - i /\ i + (c - (i + Len(u))) = c - Len(u)
      BY <1>0, <2>2
    <3>3. b[c - (i + Len(u))] = w[c - Len(u)]
      <4>1. \A x \in 1..Len(w) - i : b[x] = w[i + x]
        BY <1>2
      <4>2. b[c - (i + Len(u))] = w[i + (c - (i + Len(u)))]
        BY ONLY <3>2, <4>1
      <4>3. QED BY <3>2, <4>2
    <3>4. ~(c <= i) /\ ~(c <= i + Len(u))
      BY <1>0, <2>2
    <3>5. QED BY <3>1, <3>3, <3>4
  <2>3. c <= i + Len(u) \/ c > i + Len(u)
    BY <1>0
  <2>4. QED BY <2>1, <2>2, <2>3
<1>8. QED BY <1>5, <1>6, <1>7

\* w without element i + 1.
Without(w, i) == SubSeq(w, 1, i) \o <<>> \o SubSeq(w, i + 1 + 1, Len(w))

\* A removal, element by element.
LEMMA WithoutIs ==
  ASSUME NEW w \in Seq(Val), NEW i \in 0..Len(w) - 1
  PROVE  /\ Without(w, i) \in Seq(Val) /\ Len(Without(w, i)) = Len(w) - 1
         /\ \A c \in 1..Len(w) - 1 : Without(w, i)[c] = IF c <= i THEN w[c] ELSE w[c + 1]
<1> DEFINE a == SubSeq(w, 1, i)
           b == SubSeq(w, i + 1 + 1, Len(w))
<1>0. Len(w) \in Nat /\ i \in Nat /\ i <= Len(w) - 1
  OBVIOUS
<1>1. a \in Seq(Val) /\ Len(a) = i /\ \A c \in 1..i : a[c] = w[c]
  BY <1>0
<1>2. b \in Seq(Val) /\ Len(b) = Len(w) - i - 1 /\ \A c \in 1..Len(w) - i - 1 : b[c] = w[i + 1 + c]
  BY <1>0
<1> HIDE DEF a, b
<1>3. a \o <<>> = a
  BY <1>1
<1>4. Without(w, i) = a \o b
  BY <1>3 DEF Without, a, b
<1>c. /\ a \o b \in Seq(Val) /\ Len(a \o b) = Len(a) + Len(b)
      /\ \A c \in 1..Len(a) + Len(b) : (a \o b)[c] = IF c <= Len(a) THEN a[c] ELSE b[c - Len(a)]
  <2>1. a \in Seq(Val) /\ b \in Seq(Val)
    BY <1>1, <1>2
  <2>2. QED BY ONLY <2>1, ConcatIs
<1>5. a \o b \in Seq(Val) /\ Len(a \o b) = Len(w) - 1
  BY <1>0, <1>1, <1>2, <1>c
<1>6. ASSUME NEW c \in 1..Len(w) - 1 PROVE (a \o b)[c] = IF c <= i THEN w[c] ELSE w[c + 1]
  <2>1. CASE c <= i
    BY <1>0, <1>1, <1>2, <2>1, <1>c
  <2>2. CASE c > i
    <3>1. (a \o b)[c] = b[c - i]
      BY <1>0, <1>1, <1>2, <2>2, <1>c
    <3>2. c - i \in 1..Len(w) - i - 1 /\ i + 1 + (c - i) = c + 1
      BY <1>0, <2>2
    <3>3. b[c - i] = w[c + 1]
      <4>1. \A x \in 1..Len(w) - i - 1 : b[x] = w[i + 1 + x]
        BY <1>2
      <4>2. b[c - i] = w[i + 1 + (c - i)]
        BY ONLY <3>2, <4>1
      <4>3. QED BY <3>2, <4>2
    <3>4. ~(c <= i)
      BY <1>0, <2>2
    <3>5. QED BY <3>1, <3>3, <3>4
  <2>3. c <= i \/ c > i
    BY <1>0
  <2>4. QED BY <2>1, <2>2, <2>3
<1>7. QED BY <1>4, <1>5, <1>6

-----------------------------------------------------------------------------
(* Members.                                                                *)

\* s with another number of elements.
Sized(s, l) == [s EXCEPT !.last = l]

\* Only last differs.
LEMMA SizedIs ==
  ASSUME NEW s \in State, NEW l \in Nat
  PROVE  /\ Sized(s, l) \in State /\ Sized(s, l).cell = s.cell /\ Sized(s, l).last = l
         /\ Sized(s, l).threw = s.threw /\ Sized(s, l).defined = s.defined
         /\ \A f : [With(s, f) EXCEPT !.last = l] = With(Sized(s, l), f)
BY DEF Sized, State, With

\* s is its own cells in s.
LEMMA WithOwn ==
  ASSUME NEW s \in State
  PROVE  s = With(s, s.cell) /\ s = Sized(s, s.last) /\ \A f, g : With(With(s, f), g) = With(s, g)
BY DEF With, State, Sized

\* The cells of a call's result make it whole.
LEMMA FinalVec ==
  ASSUME NEW w \in Seq(Val), NEW n \in Nat, NEW t \in BOOLEAN, NEW u \in Seq(Val), NEW f \in Seq(Cell),
         NEW m \in Nat, Len(f) = m, \A c \in 1..m : f[c] = IF c <= Len(u) THEN u[c] ELSE Raw
  PROVE  With(Sized(Vec(w, n, t), Len(u)), f) = Vec(u, m, t)
<1> DEFINE s == Vec(w, n, t)
           x == With(Sized(s, Len(u)), f)
<1>1. s \in State /\ s.threw = t /\ s.defined /\ Len(u) \in Nat
  BY VecIs
<1> HIDE DEF s
<1>2. Sized(s, Len(u)) \in State /\ Sized(s, Len(u)).last = Len(u) /\ Sized(s, Len(u)).threw = t /\ Sized(s, Len(u)).defined
  BY <1>1, SizedIs
<1>3. x \in State /\ x.cell = f /\ x.last = Len(u) /\ x.threw = t /\ x.defined
  BY <1>2, WithIs
<1> HIDE DEF x
<1>4. x \in State /\ u \in Seq(Val) /\ m \in Nat /\ x.last = Len(u) /\ x.defined /\ Len(x.cell) = m
      /\ \A c \in 1..m : x.cell[c] = IF c <= Len(u) THEN u[c] ELSE Raw
  BY <1>3
<1>5. x = Vec(u, m, x.threw)
  BY ONLY <1>4, SameVec
<1>6. QED BY <1>3, <1>5 DEF x, s

\* An exception that is noted changes nothing else.
LEMMA ThrewIs ==
  ASSUME NEW w \in Seq(Val), NEW n \in Nat, NEW t \in BOOLEAN
  PROVE  Threw(Vec(w, n, t)) = Vec(w, n, TRUE)
<1> DEFINE s == Vec(w, n, t)
           x == Threw(s)
<1>1. s \in State /\ s.cell = Buffer(w, n) /\ s.last = Len(w) /\ s.defined
  BY VecIs
<1> HIDE DEF s
<1>2. x \in State /\ x.cell = s.cell /\ x.last = s.last /\ x.threw = TRUE /\ x.defined
  BY <1>1 DEF Threw, State
<1> HIDE DEF x
<1>3. Len(Buffer(w, n)) = n /\ \A c \in 1..n : Buffer(w, n)[c] = IF c <= Len(w) THEN w[c] ELSE Raw
  BY BufferIs
<1>4. x \in State /\ w \in Seq(Val) /\ n \in Nat /\ x.last = Len(w) /\ x.defined /\ Len(x.cell) = n
      /\ \A c \in 1..n : x.cell[c] = IF c <= Len(w) THEN w[c] ELSE Raw
  BY <1>1, <1>2, <1>3
<1>5. x = Vec(w, n, x.threw)
  BY ONLY <1>4, SameVec
<1>6. QED BY <1>2, <1>5 DEF x, s

\* reserve gives the buffer that is asked for, if it is larger.
LEMMA ReserveIs ==
  ASSUME NEW w \in Seq(Val), NEW n \in Nat, NEW t \in BOOLEAN, Len(w) <= n, NEW m \in Nat
  PROVE  reserve(Vec(w, n, t), m) = Vec(w, IF m > n THEN m ELSE n, t)
<1>1. Capacity(Vec(w, n, t)) = n /\ Elems(Vec(w, n, t)) = w
  BY VecIs, ElemsAre
<1>2. QED BY <1>1 DEF reserve, Vec

\* shrink_to_fit gives one with no raw cells.
LEMMA ShrinkIs ==
  ASSUME NEW w \in Seq(Val), NEW n \in Nat, NEW t \in BOOLEAN, Len(w) <= n
  PROVE  shrink_to_fit(Vec(w, n, t)) = Vec(w, Len(w), t)
<1> DEFINE s == Vec(w, n, t)
           x == With(s, w)
<1>1. Elems(s) = w /\ s \in State /\ s.last = Len(w) /\ s.threw = t /\ s.defined
  BY ElemsAre, VecIs
<1> HIDE DEF s
<1>2. w \in Seq(Cell) /\ Len(w) \in Nat
  BY DEF Cell
<1>3. x \in State /\ x.cell = w /\ x.last = Len(w) /\ x.threw = t /\ x.defined
  BY <1>1, <1>2, WithIs
<1> HIDE DEF x
<1>4. x \in State /\ w \in Seq(Val) /\ Len(w) \in Nat /\ x.last = Len(w) /\ x.defined /\ Len(x.cell) = Len(w)
      /\ \A c \in 1..Len(w) : x.cell[c] = IF c <= Len(w) THEN w[c] ELSE Raw
  BY <1>2, <1>3
<1>5. x = Vec(w, Len(w), x.threw)
  BY ONLY <1>4, SameVec
<1>6. shrink_to_fit(s) = x
  BY <1>1 DEF shrink_to_fit, With, x
<1>7. QED BY <1>3, <1>5, <1>6 DEF s

\* Append is an insertion behind the last element.
LEMMA AppendIs ==
  ASSUME NEW w \in Seq(Val), NEW v \in Val
  PROVE  /\ Append(w, v) \in Seq(Val) /\ Len(Append(w, v)) = Len(w) + 1
         /\ \A c \in 1..Len(w) + 1 : Append(w, v)[c] = IF c <= Len(w) THEN w[c] ELSE v
         /\ Append(w, v) = Ins(w, Len(w), <<v>>)
<1> DEFINE a == Append(w, v)
           b == Ins(w, Len(w), <<v>>)
<1>0. Len(w) \in Nat /\ Len(w) \in 0..Len(w) /\ <<v>> \in Seq(Val) /\ Len(<<v>>) = 1 /\ <<v>>[1] = v
  OBVIOUS
<1>1. a \in Seq(Val) /\ Len(a) = Len(w) + 1 /\ \A c \in 1..Len(w) + 1 : a[c] = IF c <= Len(w) THEN w[c] ELSE v
  OBVIOUS
<1>2. /\ b \in Seq(Val) /\ Len(b) = Len(w) + Len(<<v>>)
      /\ \A c \in 1..Len(w) + Len(<<v>>) : b[c] = IF c <= Len(w) THEN w[c]
                                  ELSE IF c <= Len(w) + Len(<<v>>) THEN <<v>>[c - Len(w)] ELSE w[c - Len(<<v>>)]
  BY ONLY <1>0, w \in Seq(Val), InsIs
<1> HIDE DEF a, b
<1>3. ASSUME NEW c \in 1..Len(w) + 1 PROVE a[c] = b[c]
  <2>1. CASE c <= Len(w)
    BY <1>0, <1>1, <1>2, <2>1
  <2>2. CASE c = Len(w) + 1
    <3>1. c - Len(w) = 1 /\ ~(c <= Len(w)) /\ c <= Len(w) + 1
      BY <1>0, <2>2
    <3>2. QED BY <1>0, <1>1, <1>2, <3>1
  <2>3. QED BY <1>0, <2>1, <2>2
<1>4. a = b
  BY <1>0, <1>1, <1>2, <1>3
<1>5. QED BY <1>1, <1>4 DEF a, b

\* Everything goes to a new buffer.
LEMMA RebuiltIs ==
  ASSUME NEW w \in Seq(Val), NEW n \in Nat, NEW t \in BOOLEAN, NEW u \in Seq(Val), NEW m \in Nat
  PROVE  With(Sized(Vec(w, n, t), Len(u)), Buffer(u, m)) = Vec(u, m, t)
<1>1. PICK f : f = Buffer(u, m)
  OBVIOUS
<1>2. /\ w \in Seq(Val) /\ n \in Nat /\ t \in BOOLEAN /\ u \in Seq(Val) /\ f \in Seq(Cell)
      /\ m \in Nat /\ Len(f) = m /\ \A c \in 1..m : f[c] = IF c <= Len(u) THEN u[c] ELSE Raw
  BY <1>1, BufferIs
<1>3. With(Sized(Vec(w, n, t), Len(u)), f) = Vec(u, m, t)
  BY ONLY <1>2, FinalVec
<1>4. QED BY <1>1, <1>3

\* The buffer a call needs for m elements more.
Grown(n, l, m) == IF n - l >= m THEN n ELSE n + IF m > n THEN m ELSE n

\* emplace_back: the room is there before the element is made.
LEMMA EmplaceBackIs ==
  ASSUME NEW w \in Seq(Val), NEW n \in Nat, NEW b \in BOOLEAN, Len(w) <= n, NEW v \in Val, NEW t \in Nat
  PROVE  LET N == Grown(n, Len(w), 1) IN
         /\ N \in Nat /\ Len(w) + 1 <= N
         /\ emplace_back(Vec(w, n, b), v, t) =
                IF t = 0 THEN Vec(w, N, TRUE) ELSE Vec(Append(w, v), N, b)
<1> DEFINE N == Grown(n, Len(w), 1)
           s == Vec(w, n, b)
           r == Vec(w, N, b)
<1>0. Len(w) \in Nat
  OBVIOUS
<1>1. N \in Nat /\ Len(w) + 1 <= N
  BY <1>0 DEF Grown
<1>2. (IF s.last < Capacity(s) THEN s ELSE reserve(s, getNewCapacity(s, 1))) = r
  <2>1. s.last = Len(w) /\ Capacity(s) = n
    BY VecIs
  <2>2. CASE Len(w) < n
    BY <1>0, <2>1, <2>2 DEF Grown
  <2>3. CASE ~(Len(w) < n)
    <3>1. getNewCapacity(s, 1) = N /\ N > n
      BY <1>0, <2>1, <2>3 DEF Grown, getNewCapacity
    <3>2. reserve(s, N) = Vec(w, IF N > n THEN N ELSE n, b)
      BY <1>1, ReserveIs
    <3>3. QED BY <2>1, <2>3, <3>1, <3>2
  <2>4. QED BY <2>2, <2>3
<1>3. r \in State /\ r.cell = Buffer(w, N) /\ r.last = Len(w)
  BY <1>1, VecIs
<1>4. Threw(r) = Vec(w, N, TRUE)
  BY <1>1, ThrewIs
<1>5. [Put(r, r.last + 1, v) EXCEPT !.last = @ + 1] = Vec(Append(w, v), N, b)
  <2> DEFINE f == Buffer(w, N)
             c == Len(w) + 1
             g == Set(f, c, v)
             u == Append(w, v)
  <2>1. f \in Seq(Cell) /\ Len(f) = N /\ \A d \in 1..N : f[d] = IF d <= Len(w) THEN w[d] ELSE Raw
    BY <1>1, BufferIs
  <2>2. c \in 1..Len(f) /\ v \in Cell /\ c \in Nat
    BY <1>0, <1>1, <2>1 DEF Cell
  <2>3. u \in Seq(Val) /\ Len(u) = c /\ \A d \in 1..c : u[d] = IF d <= Len(w) THEN w[d] ELSE v
    BY AppendIs
  <2>4. g \in Seq(Cell) /\ Len(g) = N
    <3> HIDE DEF f, c
    <3>1. f \in Seq(Cell) /\ c \in 1..Len(f) /\ v \in Cell
      BY <2>1, <2>2
    <3>2. Set(f, c, v) \in Seq(Cell) /\ Len(Set(f, c, v)) = Len(f)
      BY ONLY <3>1, PutState
    <3>3. QED BY <2>1, <3>2
  <2>5. ASSUME NEW d \in 1..N PROVE g[d] = IF d <= Len(u) THEN u[d] ELSE Raw
    <3>1. g[d] = IF d = c THEN v ELSE f[d]
      BY <2>1 DEF Set
    <3> HIDE DEF f, g, u
    <3>2. QED BY <1>0, <2>1, <2>3, <3>1
  <2> HIDE DEF g, f, r, u
  <2>6. r = With(r, f)
    BY <1>3, WithOwn DEF f
  <2>7. Put(r, c, v) = With(r, g)
    BY <1>3, <2>1, <2>2, <2>6, PutIs DEF g
  <2>8. [Put(r, r.last + 1, v) EXCEPT !.last = @ + 1] = [With(r, g) EXCEPT !.last = c]
    <3>1. With(r, g).last = Len(w)
      BY <1>3, <2>4, WithIs
    <3>2. QED BY <1>3, <2>7, <3>1
  <2>9. [With(r, g) EXCEPT !.last = c] = With(Sized(r, c), g)
    <3> HIDE DEF c
    <3> QED BY <1>3, <2>2, SizedIs
  <2>10. With(Sized(Vec(w, N, b), Len(u)), g) = Vec(u, N, b)
    BY <1>1, <2>3, <2>4, <2>5, FinalVec
  <2>11. QED BY <2>3, <2>8, <2>9, <2>10 DEF r, u
<1>6. emplace_back(s, v, t) = IF t = 0 THEN Threw(r) ELSE [Put(r, r.last + 1, v) EXCEPT !.last = @ + 1]
  BY <1>2 DEF emplace_back
<1>7. QED BY <1>1, <1>4, <1>5, <1>6

\* The last element is moved up, the others after it: cell i + 1 is left empty.
OpenCells(w, n, i) ==
  [c \in 1..n |-> IF c <= i THEN w[c] ELSE IF c = i + 1 THEN Moved
                  ELSE IF c <= Len(w) + 1 THEN w[c - 1] ELSE Raw]

\* Those are the cells that emplace and insert make before they assign.
LEMMA OpenIs ==
  ASSUME NEW w \in Seq(Val), NEW n \in Nat, NEW b \in BOOLEAN, Len(w) < n, NEW i \in Nat, i < Len(w)
  PROVE  /\ OpenCells(w, n, i) \in Seq(Cell) /\ Len(OpenCells(w, n, i)) = n
         /\ LET s == Vec(w, n, b) IN
            copy_backward(MoveConstruct(s, s.last, s.last + 1), i, s.last - 1 - i, s.last)
                = With(s, OpenCells(w, n, i))
<1> DEFINE s == Vec(w, n, b)
           F == Buffer(w, n)
           l == Len(w)
           G == Shift(F, l, l + 1)
           m == l - 1 - i
           H == Carried(G, i, m, l - m)
<1>0. l \in Nat /\ l \in 1..n /\ l + 1 \in 1..n /\ l # l + 1 /\ m \in Nat /\ l > i + m /\ l - m = i + 1
  OBVIOUS
<1>1. s \in State /\ s.cell = F /\ s.last = l
  BY VecIs
<1>2. F \in Seq(Cell) /\ Len(F) = n /\ (\A c \in 1..n : F[c] = IF c <= l THEN w[c] ELSE Raw) /\ F[l] # Raw
      /\ \A c \in 1..n : c <= l => F[c] # Raw
  <2>1. /\ F \in Seq(Cell) /\ Len(F) = n
        /\ \A c \in 1..n : F[c] = IF c <= l THEN w[c] ELSE Raw
        /\ \A c \in 1..n : c <= l => F[c] # Raw
    BY BufferIs
  <2> HIDE DEF F
  <2>2. F[l] # Raw
    BY <1>0, <2>1
  <2>3. QED BY <2>1, <2>2
<1>w. \A c \in 1..l : w[c] \in Val /\ w[c] # Raw
  BY Cells
<1> HIDE DEF s, F, l
<1>3. G = [c \in 1..n |-> IF c = l THEN Moved ELSE IF c = l + 1 THEN F[l] ELSE F[c]]
  <2>1. F \in Seq(Cell) /\ l \in 1..Len(F) /\ l + 1 \in 1..Len(F) /\ l # l + 1
    BY <1>0, <1>2
  <2>2. Shift(F, l, l + 1) = [c \in 1..Len(F) |-> IF c = l THEN Moved ELSE IF c = l + 1 THEN F[l] ELSE F[c]]
    BY ONLY <2>1, ShiftIs
  <2>3. QED BY <1>2, <2>2
<1>4. MoveConstruct(s, l, l + 1) = With(s, G)
  <2>1. s \in State /\ F \in Seq(Cell) /\ l \in 1..Len(F) /\ l + 1 \in 1..Len(F) /\ F[l] # Raw
    BY <1>0, <1>1, <1>2
  <2>2. MoveConstruct(With(s, F), l, l + 1) = With(s, Shift(F, l, l + 1))
    BY ONLY <2>1, MoveConstructIs
  <2>3. With(s, F) = s
    BY <1>1, WithOwn
  <2>4. QED BY <2>2, <2>3
<1> HIDE DEF G
<1>5. G \in Seq(Cell) /\ Len(G) = n
  <2>1. G = [c \in 1..n |-> G[c]] /\ \A c \in 1..n : G[c] \in Cell
    <3>1. F[l] \in Cell /\ Moved \in Cell /\ \A c \in 1..n : F[c] \in Cell
      BY <1>0, <1>2 DEF Cell
    <3>2. QED BY <1>3, <3>1
  <2>2. QED BY <2>1, CellsAre
<1>6. \A c \in 1..l : G[c] # Raw
  BY <1>0, <1>2, <1>3, Cells
<1>7. copy_backward(With(s, G), i, m, l) = With(s, H)
  <2> DEFINE S == With(s, G)
  <2>1. S \in State /\ S.cell = G
    BY <1>1, <1>5, WithIs
  <2> HIDE DEF S
  <2>2. /\ S \in State /\ i \in Nat /\ m \in Nat /\ l \in Nat /\ l > i + m /\ l <= Len(S.cell)
        /\ (\A c \in i + 1 .. i + m : S.cell[c] # Raw)
        /\ \A c \in l - m + 1 .. l : S.cell[c] # Raw
    BY <1>0, <1>5, <1>6, <2>1
  <2>3. copy_backward(S, i, m, l) = With(S, Carried(S.cell, i, m, l - m))
    BY ONLY <2>2, CopyBackwardIs
  <2>4. With(S, H) = With(s, H)
    BY <1>1, WithOwn DEF S
  <2>5. QED BY <2>1, <2>3, <2>4 DEF S
<1>8. H = OpenCells(w, n, i)
  <2>1. H = [c \in 1..n |-> H[c]]
    BY <1>5 DEF Carried
  <2>2. ASSUME NEW c \in 1..n
        PROVE  H[c] = IF c <= i THEN w[c] ELSE IF c = i + 1 THEN Moved ELSE IF c <= l + 1 THEN w[c - 1] ELSE Raw
    <3>1. H[c] = IF c \in i + 1 + 1 .. i + 1 + m THEN G[c - (i + 1) + i]
                 ELSE IF c \in i + 1 .. i + m THEN Moved ELSE G[c]
      BY <1>0, <1>5 DEF Carried
    <3>2. i + 1 + m = l /\ i + m = l - 1
      BY <1>0
    <3>3. CASE c <= i
      BY <1>0, <1>2, <1>3, <3>1, <3>3
    <3>4. CASE c = i + 1
      BY <1>0, <1>2, <1>3, <3>1, <3>2, <3>4
    <3>5. CASE c > i + 1 /\ c <= l
      <4>1. H[c] = G[c - 1] /\ c - 1 \in 1..n /\ c - 1 # l /\ c - 1 # l + 1 /\ c - 1 <= l
        <5>1. c \in i + 1 + 1 .. i + 1 + m /\ c - (i + 1) + i = c - 1
          BY <1>0, <3>2, <3>5
        <5>2. QED BY <1>0, <3>1, <3>5, <5>1
      <4>2. G[c - 1] = w[c - 1]
        BY <1>2, <1>3, <4>1
      <4>3. QED BY <1>0, <3>5, <4>1, <4>2
    <3>6. CASE c = l + 1
      <4>1. H[c] = F[l] /\ F[l] = w[l] /\ c - 1 = l
        BY <1>0, <1>2, <1>3, <3>1, <3>2, <3>6
      <4>2. QED BY <1>0, <3>6, <4>1
    <3>7. CASE c > l + 1
      BY <1>0, <1>2, <1>3, <3>1, <3>2, <3>7
    <3>8. QED BY <1>0, <3>3, <3>4, <3>5, <3>6, <3>7
  <2> HIDE DEF H
  <2>3. QED BY <2>1, <2>2 DEF OpenCells, l
<1>9. H \in Seq(Cell) /\ Len(H) = n
  <2>1. G \in Seq(Cell) /\ i \in Nat /\ m \in Nat /\ l - m \in Nat /\ i + m <= Len(G) /\ (l - m) + m <= Len(G)
    BY <1>0, <1>5
  <2>2. Carried(G, i, m, l - m) \in Seq(Cell) /\ Len(Carried(G, i, m, l - m)) = Len(G)
    BY ONLY <2>1, CarriedIs
  <2>3. QED BY <1>5, <2>2
<1> HIDE DEF H
<1>10. copy_backward(MoveConstruct(s, s.last, s.last + 1), i, s.last - 1 - i, s.last) = With(s, OpenCells(w, n, i))
  BY <1>1, <1>4, <1>7, <1>8
<1>11. QED BY <1>8, <1>9, <1>10 DEF s

\* The empty cell gets the new element.
LEMMA FillOpen ==
  ASSUME NEW w \in Seq(Val), NEW n \in Nat, NEW b \in BOOLEAN, Len(w) < n, NEW i \in Nat, i < Len(w), NEW v \in Val
  PROVE  LET s == Vec(w, n, b) IN
         /\ Assign(With(s, OpenCells(w, n, i)), i + 1, v) = With(s, Set(OpenCells(w, n, i), i + 1, v))
         /\ With(Sized(s, Len(w) + 1), Set(OpenCells(w, n, i), i + 1, v)) = Vec(Ins(w, i, <<v>>), n, b)
         /\ Assign(With(Sized(s, Len(w) + 1), OpenCells(w, n, i)), i + 1, v) = Vec(Ins(w, i, <<v>>), n, b)
<1> DEFINE s == Vec(w, n, b)
           f == OpenCells(w, n, i)
           l == Len(w)
           u == Ins(w, i, <<v>>)
           g == Set(f, i + 1, v)
           z == Sized(s, l + 1)
<1>0. l \in Nat /\ i + 1 \in 1..n /\ i \in 0..Len(w) /\ <<v>> \in Seq(Val) /\ Len(<<v>>) = 1 /\ <<v>>[1] = v /\ l + 1 \in Nat
  OBVIOUS
<1>1. s \in State /\ s.cell = Buffer(w, n) /\ s.last = l
  BY VecIs
<1>2. f \in Seq(Cell) /\ Len(f) = n
  BY OpenIs
<1>3. f[i + 1] = Moved /\ \A c \in 1..n : f[c] = IF c <= i THEN w[c] ELSE IF c = i + 1 THEN Moved
                  ELSE IF c <= l + 1 THEN w[c - 1] ELSE Raw
  BY <1>0 DEF OpenCells
<1>4. /\ u \in Seq(Val) /\ Len(u) = Len(w) + Len(<<v>>)
      /\ \A c \in 1..Len(w) + Len(<<v>>) : u[c] = IF c <= i THEN w[c]
                ELSE IF c <= i + Len(<<v>>) THEN <<v>>[c - i] ELSE w[c - Len(<<v>>)]
  BY ONLY <1>0, w \in Seq(Val), InsIs
<1>5. v \in Cell
  BY DEF Cell
<1>z. z \in State /\ z.last = l + 1
  BY <1>0, <1>1, SizedIs
<1> HIDE DEF s, f, u, z
<1>6. g \in Seq(Cell) /\ Len(g) = n
  <2>1. f \in Seq(Cell) /\ i + 1 \in 1..Len(f) /\ v \in Cell
    BY <1>0, <1>2, <1>5
  <2>2. Set(f, i + 1, v) \in Seq(Cell) /\ Len(Set(f, i + 1, v)) = Len(f)
    BY ONLY <2>1, PutState
  <2>3. QED BY <1>2, <2>2
<1>7. ASSUME NEW c \in 1..n PROVE g[c] = IF c <= Len(u) THEN u[c] ELSE Raw
  <2>1. g[c] = IF c = i + 1 THEN v ELSE f[c]
    BY <1>2 DEF Set
  <2>2. Len(u) = l + 1
    BY <1>0, <1>4
  <2>3. CASE c <= i
    BY <1>0, <1>3, <1>4, <2>1, <2>2, <2>3
  <2>4. CASE c = i + 1
    <3>1. u[c] = <<v>>[c - i] /\ c - i = 1
      BY <1>0, <1>4, <2>4
    <3>2. QED BY <1>0, <2>1, <2>2, <2>4, <3>1
  <2>5. CASE c > i + 1 /\ c <= l + 1
    <3>1. u[c] = w[c - 1]
      BY <1>0, <1>4, <2>5
    <3>2. QED BY <1>0, <1>3, <2>1, <2>2, <2>5, <3>1
  <2>6. CASE c > l + 1
    BY <1>0, <1>3, <2>1, <2>2, <2>6
  <2>7. QED BY <1>0, <2>3, <2>4, <2>5, <2>6
<1>8. \A x \in State : Assign(With(x, f), i + 1, v) = With(x, g)
  <2> SUFFICES ASSUME NEW x \in State PROVE Assign(With(x, f), i + 1, v) = With(x, g)
    OBVIOUS
  <2>1. f \in Seq(Cell) /\ i + 1 \in 1..Len(f) /\ v \in Cell /\ f[i + 1] # Raw
    BY <1>0, <1>2, <1>3, <1>5, Cells
  <2>2. QED BY ONLY <2>1, x \in State, AssignIs
<1> HIDE DEF g
<1>9. With(Sized(Vec(w, n, b), Len(u)), g) = Vec(u, n, b)
  <2>1. /\ w \in Seq(Val) /\ n \in Nat /\ b \in BOOLEAN /\ u \in Seq(Val) /\ g \in Seq(Cell)
        /\ Len(g) = n /\ \A c \in 1..n : g[c] = IF c <= Len(u) THEN u[c] ELSE Raw
    BY <1>4, <1>6, <1>7
  <2>2. QED BY ONLY <2>1, FinalVec
<1>10. With(z, g) = Vec(u, n, b)
  BY <1>0, <1>4, <1>9 DEF z, s
<1>11. QED BY <1>1, <1>z, <1>8, <1>10 DEF s, f, g, u, z

\* The sequence that expandAndEmplace and insert build.
InsCells(s, i, u) == SubSeq(Elems(s), 1, i) \o u \o SubSeq(Elems(s), i + 1, s.last)

\* It is the insertion of u, and the new buffer with it is whole.
LEMMA InsElems ==
  ASSUME NEW w \in Seq(Val), NEW n \in Nat, NEW b \in BOOLEAN, Len(w) <= n, NEW i \in 0..Len(w), NEW u \in Seq(Val), NEW m \in Nat
  PROVE  /\ InsCells(Vec(w, n, b), i, u) = Ins(w, i, u)
         /\ With(Sized(Vec(w, n, b), Len(w) + Len(u)), Buffer(Ins(w, i, u), m)) = Vec(Ins(w, i, u), m, b)
<1> DEFINE s == Vec(w, n, b)
           l == Len(w) + Len(u)
<1>1. Elems(s) = w /\ s.last = Len(w)
  BY ElemsAre, VecIs
<1>2. PICK x : x = Ins(w, i, u)
  OBVIOUS
<1>3. x \in Seq(Val) /\ Len(x) = l
  BY <1>2, InsIs
<1>4. With(Sized(Vec(w, n, b), Len(x)), Buffer(x, m)) = Vec(x, m, b)
  BY ONLY <1>3, w \in Seq(Val), n \in Nat, b \in BOOLEAN, m \in Nat, RebuiltIs
<1>5. With(Sized(Vec(w, n, b), l), Buffer(Ins(w, i, u), m)) = Vec(Ins(w, i, u), m, b)
  BY <1>2, <1>3, <1>4
<1> HIDE DEF s
<1>6. InsCells(s, i, u) = Ins(w, i, u)
  BY <1>1 DEF Ins, InsCells
<1>7. QED BY <1>5, <1>6 DEF s

\* emplace: in the middle, at the end, or in a larger buffer.
LEMMA EmplaceIs ==
  ASSUME NEW w \in Seq(Val), NEW n \in Nat, NEW b \in BOOLEAN, Len(w) <= n, NEW i \in 0..Len(w), NEW v \in Val,
         NEW t \in Nat, t # 0
  PROVE  emplace(Vec(w, n, b), i, v, t) = Vec(Ins(w, i, <<v>>), Grown(n, Len(w), 1), b)
<1> DEFINE s == Vec(w, n, b)
           l == Len(w)
           N == Grown(n, l, 1)
<1>0. l \in Nat /\ i \in Nat /\ i <= l /\ <<v>> \in Seq(Val) /\ Len(<<v>>) = 1
  OBVIOUS
<1>1. s \in State /\ s.cell = Buffer(w, n) /\ s.last = l /\ Capacity(s) = n
  BY VecIs
<1>2. CASE l >= n
  <2>1. getNewCapacity(s, 1) = N /\ N \in Nat
    BY <1>0, <1>1, <1>2 DEF getNewCapacity, Grown
  <2>2. emplace(s, i, v, t) = expandAndEmplace(s, i, v, t)
    BY <1>1, <1>2 DEF emplace
  <2>3. l + 1 = Len(w) + Len(<<v>>)
    BY <1>0
  <2>4. /\ InsCells(s, i, <<v>>) = Ins(w, i, <<v>>)
        /\ With(Sized(s, l + 1), Buffer(Ins(w, i, <<v>>), N)) = Vec(Ins(w, i, <<v>>), N, b)
    <3>1. PICK M, x : M = N /\ x = <<v>>
      OBVIOUS
    <3>2. /\ w \in Seq(Val) /\ n \in Nat /\ b \in BOOLEAN /\ Len(w) <= n /\ i \in 0..Len(w)
          /\ x \in Seq(Val) /\ M \in Nat
      BY <1>0, <2>1, <2>3, <3>1
    <3>3. /\ InsCells(Vec(w, n, b), i, x) = Ins(w, i, x)
          /\ With(Sized(Vec(w, n, b), Len(w) + Len(x)), Buffer(Ins(w, i, x), M)) = Vec(Ins(w, i, x), M, b)
      BY ONLY <3>2, InsElems
    <3>4. QED BY <2>3, <3>1, <3>3
  <2> HIDE DEF s, N, l
  <2>5. expandAndEmplace(s, i, v, t) =
          [s EXCEPT !.last = @ + 1,
            !.cell = Buffer(InsCells(s, i, <<v>>), N)]
    BY <2>1 DEF expandAndEmplace, InsCells
  <2>6. \A f : [s EXCEPT !.last = @ + 1, !.cell = f] = With(Sized(s, l + 1), f)
    BY <1>1 DEF With, Sized, State
  <2>7. QED BY <2>2, <2>4, <2>5, <2>6 DEF s, N, l
<1>3. CASE l < n /\ i = l
  <2>1. emplace(s, i, v, t) = emplace_back(s, v, t)
    BY <1>0, <1>1, <1>3 DEF emplace
  <2>2. emplace_back(s, v, t) = Vec(Append(w, v), N, b)
    BY EmplaceBackIs
  <2>3. QED BY <1>3, <2>1, <2>2, AppendIs
<1>4. CASE l < n /\ i # l
  <2> DEFINE f == OpenCells(w, n, i)
             g == Set(f, i + 1, v)
             u == Ins(w, i, <<v>>)
  <2>1. /\ f \in Seq(Cell) /\ Len(f) = n
        /\ copy_backward(MoveConstruct(s, s.last, s.last + 1), i, s.last - 1 - i, s.last) = With(s, f)
    BY <1>0, <1>4, OpenIs
  <2>2. /\ Assign(With(s, f), i + 1, v) = With(s, g)
        /\ With(Sized(s, l + 1), g) = Vec(u, n, b)
    BY <1>0, <1>4, FillOpen
  <2>3. N = n
    BY <1>0, <1>4 DEF Grown
  <2> HIDE DEF s, f, g, u, N, l
  <2>4. emplace(s, i, v, t) = [Assign(With(s, f), i + 1, v) EXCEPT !.last = @ + 1]
    BY <1>0, <1>1, <1>4, <2>1 DEF emplace
  <2>5. [With(s, g) EXCEPT !.last = @ + 1] = With(Sized(s, l + 1), g)
    BY <1>1 DEF With, Sized, State
  <2>6. QED BY <2>2, <2>3, <2>4, <2>5 DEF s, u, N, l
<1>5. QED BY <1>0, <1>2, <1>3, <1>4

\* erase: the elements behind move down by one, the last cell is destroyed.
LEMMA EraseIs ==
  ASSUME NEW w \in Seq(Val), NEW n \in Nat, NEW b \in BOOLEAN, Len(w) <= n, NEW i \in 0..Len(w) - 1
  PROVE  erase(Vec(w, n, b), i) = Vec(Without(w, i), n, b)
<1> DEFINE s == Vec(w, n, b)
           l == Len(w)
           F == Buffer(w, n)
           m == l - 1 - i
           f == Carried(F, i + 1, m, i)
           g == Set(f, l, Raw)
           u == Without(w, i)
<1>0. l \in Nat /\ i \in Nat /\ m \in Nat /\ i + 1 \in Nat /\ i < i + 1 /\ (i + 1) + m = l /\ i + m = l - 1 /\ l \in 1..n /\ l - 1 \in Nat
  OBVIOUS
<1>1. s \in State /\ s.cell = F /\ s.last = l
  BY VecIs
<1>2. F \in Seq(Cell) /\ Len(F) = n /\ (\A c \in 1..n : F[c] = IF c <= l THEN w[c] ELSE Raw)
      /\ \A c \in 1..n : c <= l => F[c] # Raw
  BY BufferIs
<1>3. u \in Seq(Val) /\ Len(u) = l - 1 /\ \A c \in 1..l - 1 : u[c] = IF c <= i THEN w[c] ELSE w[c + 1]
  BY WithoutIs
<1> HIDE DEF s, l, F, u
<1>4. copy(s, i + 1, m, i) = With(s, f)
  <2>1. /\ s \in State /\ i + 1 \in Nat /\ m \in Nat /\ i \in Nat /\ i < i + 1 /\ (i + 1) + m <= Len(s.cell)
        /\ (\A c \in (i + 1) + 1 .. (i + 1) + m : s.cell[c] # Raw)
        /\ \A c \in i + 1 .. i + m : s.cell[c] # Raw
    BY <1>0, <1>1, <1>2
  <2>2. copy(s, i + 1, m, i) = With(s, Carried(s.cell, i + 1, m, i))
    BY ONLY <2>1, CopyIs
  <2>3. QED BY <1>1, <2>2
<1>5. f \in Seq(Cell) /\ Len(f) = n
  <2>1. F \in Seq(Cell) /\ i + 1 \in Nat /\ m \in Nat /\ i \in Nat /\ (i + 1) + m <= Len(F) /\ i + m <= Len(F)
    BY <1>0, <1>2
  <2>2. Carried(F, i + 1, m, i) \in Seq(Cell) /\ Len(Carried(F, i + 1, m, i)) = Len(F)
    BY ONLY <2>1, CarriedIs
  <2>3. QED BY <1>2, <2>2
<1>6. ASSUME NEW c \in 1..n PROVE f[c] = IF c \in i + 1 .. i + m THEN F[c - i + (i + 1)]
                                         ELSE IF c \in (i + 1) + 1 .. (i + 1) + m THEN Moved ELSE F[c]
  BY <1>2 DEF Carried
<1> HIDE DEF f
<1>7. f[l] # Raw
  BY <1>0, <1>2, <1>6, Cells
<1>8. g \in Seq(Cell) /\ Len(g) = n
  <2>1. f \in Seq(Cell) /\ l \in 1..Len(f) /\ Raw \in Cell
    BY <1>0, <1>5 DEF Cell
  <2>2. Set(f, l, Raw) \in Seq(Cell) /\ Len(Set(f, l, Raw)) = Len(f)
    BY ONLY <2>1, PutState
  <2>3. QED BY <1>5, <2>2
<1>9. ASSUME NEW c \in 1..n PROVE g[c] = IF c <= Len(u) THEN u[c] ELSE Raw
  <2>1. g[c] = IF c = l THEN Raw ELSE f[c]
    BY <1>5 DEF Set
  <2>2. CASE c <= i
    BY <1>0, <1>2, <1>3, <1>6, <2>1, <2>2
  <2>3. CASE c > i /\ c <= l - 1
    <3>1. f[c] = F[c + 1] /\ c + 1 \in 1..n /\ c + 1 <= l
      <4>1. c \in i + 1 .. i + m /\ c - i + (i + 1) = c + 1
        BY <1>0, <2>3
      <4>2. QED BY <1>0, <1>6, <2>3, <4>1
    <3>2. F[c + 1] = w[c + 1]
      BY <1>2, <3>1
    <3>3. c \in 1..l - 1 /\ ~(c <= i) /\ c # l /\ c <= Len(u)
      BY <1>0, <1>3, <2>3
    <3>4. u[c] = w[c + 1] /\ g[c] = f[c]
      BY <1>3, <2>1, <3>3
    <3>5. QED BY <3>1, <3>2, <3>3, <3>4
  <2>4. CASE c >= l
    BY <1>0, <1>2, <1>3, <1>6, <2>1, <2>4
  <2>5. QED BY <1>0, <2>2, <2>3, <2>4
<1> DEFINE z == Sized(s, l - 1)
<1>10. z \in State /\ [With(s, f) EXCEPT !.last = @ - 1] = With(z, f)
  BY <1>0, <1>1 DEF With, Sized, State
<1>11. Destroy(With(z, f), l) = With(z, g)
  <2> HIDE DEF z
  <2>1. z \in State /\ f \in Seq(Cell) /\ l \in 1..Len(f) /\ f[l] # Raw
    BY <1>0, <1>5, <1>7, <1>10
  <2>2. QED BY ONLY <2>1, DestroyIs
<1>12. With(Sized(Vec(w, n, b), Len(u)), g) = Vec(u, n, b)
  <2> HIDE DEF g
  <2>1. QED BY <1>3, <1>8, <1>9, FinalVec
<1>13. erase(s, i) = Destroy([With(s, f) EXCEPT !.last = @ - 1], l)
  BY <1>1, <1>4 DEF erase
<1>14. QED BY <1>3, <1>10, <1>11, <1>12, <1>13 DEF s, u

\* The e elements from offset i on have moved behind a gap of m cells, which is
\* written in two parts: e objects are assigned, the others constructed.
GapCells(F, i, e, m, p, q) == Written(Written(Carried(F, i, e, i + m), i, e, p), i + e, m - e, q)

\* p and q are the first k values of u and the others.
Parts(p, q, u, k) == (\A a \in 1..k : p[a] = u[a]) /\ \A a \in 1..Len(u) - k : q[a] = u[k + a]

\* m times v.
Same(m, v) == [k \in 1..m |-> v]

\* If the parts make up u, the cells are those of the insertion of u.
LEMMA GapIs ==
  ASSUME NEW w \in Seq(Val), NEW n \in Nat, NEW b \in BOOLEAN, NEW i \in 0..Len(w), NEW u \in Seq(Val),
         Len(w) + Len(u) <= n, Len(w) - i <= Len(u),
         NEW p, NEW q, Parts(p, q, u, Len(w) - i)
  PROVE  With(Sized(Vec(w, n, b), Len(w) + Len(u)), GapCells(Buffer(w, n), i, Len(w) - i, Len(u), p, q))
            = Vec(Ins(w, i, u), n, b)
<1> DEFINE l == Len(w)
           m == Len(u)
           e == l - i
           F == Buffer(w, n)
           f == Carried(F, i, e, i + m)
           g == Written(f, i, e, p)
           h == Written(g, i + e, m - e, q)
           x == Ins(w, i, u)
<1>0. l \in Nat /\ m \in Nat /\ e \in Nat /\ i \in Nat /\ i + e = l /\ m - e \in Nat /\ l + m <= n /\ e <= m /\ i + m \in Nat
  OBVIOUS
<1>1. F \in Seq(Cell) /\ Len(F) = n /\ \A c \in 1..n : F[c] = IF c <= l THEN w[c] ELSE Raw
  BY BufferIs
<1>2. x \in Seq(Val) /\ Len(x) = l + m
      /\ \A c \in 1..l + m : x[c] = IF c <= i THEN w[c] ELSE IF c <= i + m THEN u[c - i] ELSE w[c - m]
  BY InsIs
<1>v. \A k \in 1..m : u[k] \in Val
  OBVIOUS
<1>u. (\A k \in 1..m : u[k] \in Val) /\ (\A k \in 1..e : p[k] = u[k]) /\ (\A k \in 1..m - e : q[k] = u[e + k])
  BY <1>v DEF Parts
<1> HIDE DEF l, m, F, x
<1>3. f \in Seq(Cell) /\ Len(f) = n
  <2>1. F \in Seq(Cell) /\ i \in Nat /\ e \in Nat /\ i + m \in Nat /\ i + e <= Len(F) /\ (i + m) + e <= Len(F)
    BY <1>0, <1>1
  <2>2. QED BY <1>1, <2>1, CarriedIs
<1>4. g \in Seq(Cell) /\ Len(g) = n
  <2>1. f \in Seq(Cell) /\ i \in Nat /\ e \in Nat /\ i + e <= Len(f) /\ \A k \in 1..e : p[k] \in Cell
    BY <1>0, <1>3, <1>u DEF Cell
  <2> HIDE DEF f, e
  <2>2. OneByOne(f, i, e, p)
    BY ONLY <2>1, WrittenSteps
  <2>3. e \in 0..e
    BY <1>0
  <2>4. QED BY <1>3, <2>2, <2>3 DEF OneByOne
<1>5. h \in Seq(Cell) /\ Len(h) = n
  <2>1. g \in Seq(Cell) /\ i + e \in Nat /\ m - e \in Nat /\ (i + e) + (m - e) <= Len(g) /\ \A k \in 1..m - e : q[k] \in Cell
    <3>1. ASSUME NEW k \in 1..m - e PROVE q[k] \in Cell
      <4> HIDE DEF e
      <4>1. e + k \in 1..m
        BY <1>0
      <4>2. q[k] = u[e + k] /\ u[e + k] \in Val
        BY <1>u, <4>1
      <4>3. QED BY <4>2 DEF Cell
    <3> HIDE DEF e, g
    <3>2. QED BY <1>0, <1>4, <3>1
  <2> HIDE DEF g, e
  <2>2. OneByOne(g, i + e, m - e, q)
    BY ONLY <2>1, WrittenSteps
  <2>3. m - e \in 0..m - e
    BY <1>0
  <2>4. QED BY <1>4, <2>2, <2>3 DEF OneByOne
<1>6. ASSUME NEW c \in 1..n PROVE h[c] = IF c <= Len(x) THEN x[c] ELSE Raw
  <2>1. f[c] = IF c \in i + m + 1 .. i + m + e THEN F[c - (i + m) + i] ELSE IF c \in i + 1 .. i + e THEN Moved ELSE F[c]
    BY <1>1 DEF Carried
  <2>2. g[c] = IF c \in i + 1 .. i + e THEN p[c - i] ELSE f[c]
    BY <1>3 DEF Written
  <2>3. h[c] = IF c \in i + e + 1 .. i + e + (m - e) THEN q[c - (i + e)] ELSE g[c]
    BY <1>4 DEF Written
  <2> HIDE DEF f, g, h, e
  <2>4. CASE c <= i
    BY <1>0, <1>1, <1>2, <2>1, <2>2, <2>3, <2>4
  <2>5. CASE c > i /\ c <= i + e
    <3>1. h[c] = p[c - i] /\ c - i \in 1..e
      BY <1>0, <2>2, <2>3, <2>5
    <3>2. p[c - i] = u[c - i]
      BY <1>u, <3>1
    <3>3. x[c] = u[c - i] /\ c <= Len(x)
      BY <1>0, <1>2, <2>5
    <3>4. QED BY <3>1, <3>2, <3>3
  <2>6. CASE c > i + e /\ c <= i + m
    <3>1. h[c] = q[c - (i + e)] /\ c - (i + e) \in 1..m - e /\ e + (c - (i + e)) = c - i
      BY <1>0, <2>2, <2>3, <2>6
    <3>2. q[c - (i + e)] = u[e + (c - (i + e))]
      BY <1>u, <3>1
    <3>3. x[c] = u[c - i] /\ c <= Len(x)
      <4>1. c \in 1..l + m /\ ~(c <= i) /\ c <= i + m
        BY <1>0, <2>6
      <4>2. QED BY <1>2, <4>1
    <3>4. QED BY <3>1, <3>2, <3>3
  <2>7. CASE c > i + m /\ c <= l + m
    <3>1. c \in i + m + 1 .. i + m + e /\ c - (i + m) + i = c - m /\ c - m \in 1..n /\ c - m <= l
      BY <1>0, <2>7
    <3>2. h[c] = F[c - m]
      BY <1>0, <2>1, <2>2, <2>3, <2>7, <3>1
    <3>3. F[c - m] = w[c - m]
      BY <1>1, <3>1
    <3>4. x[c] = w[c - m] /\ c <= Len(x)
      <4>1. c \in 1..l + m /\ ~(c <= i) /\ ~(c <= i + m) /\ c <= l + m
        BY <1>0, <2>7
      <4>2. QED BY <1>2, <4>1
    <3>5. QED BY <3>2, <3>3, <3>4
  <2>8. CASE c > l + m
    <3>1. h[c] = F[c] /\ ~(c <= l) /\ ~(c <= Len(x))
      BY <1>0, <1>2, <2>1, <2>2, <2>3, <2>8
    <3>2. QED BY <1>1, <3>1
  <2>9. QED BY <1>0, <2>4, <2>5, <2>6, <2>7, <2>8
<1>7. h = GapCells(F, i, e, m, p, q)
  BY DEF GapCells
<1> HIDE DEF h
<1>8. With(Sized(Vec(w, n, b), Len(x)), h) = Vec(x, n, b)
  <2>1. /\ w \in Seq(Val) /\ n \in Nat /\ b \in BOOLEAN /\ x \in Seq(Val) /\ h \in Seq(Cell)
        /\ Len(h) = n /\ \A c \in 1..n : h[c] = IF c <= Len(x) THEN x[c] ELSE Raw
    BY <1>2, <1>5, <1>6
  <2>2. QED BY ONLY <2>1, FinalVec
<1>9. QED BY <1>2, <1>7, <1>8 DEF l, m, x, F

\* What is moved for an insertion that fits.
LEMMA TailIs ==
  ASSUME NEW w \in Seq(Val), NEW n \in Nat, NEW b \in BOOLEAN, NEW i \in 0..Len(w), NEW m \in Nat,
         Len(w) + m <= n, Len(w) - i <= m
  PROVE  LET s == Vec(w, n, b)
             e == Len(w) - i
             f == Carried(Buffer(w, n), i, e, i + m)
         IN  /\ f \in Seq(Cell) /\ Len(f) = n /\ \A c \in i + 1 .. i + e : f[c] # Raw
             /\ e = 0 => f = Buffer(w, n)
             /\ uninitialized_move(s, i, e, i + m) = With(s, f)
<1> DEFINE l == Len(w)
           s == Vec(w, n, b)
           e == l - i
           F == Buffer(w, n)
           f == Carried(F, i, e, i + m)
<1>0. l \in Nat /\ e \in Nat /\ i \in Nat /\ i + e = l /\ l + m <= n /\ e <= m /\ i + m \in Nat
  OBVIOUS
<1>1. F \in Seq(Cell) /\ Len(F) = n /\ \A c \in 1..n : c <= l => F[c] # Raw
  BY BufferIs
<1>2. s \in State /\ s.cell = F
  BY VecIs
<1> HIDE DEF l, F, s
<1>3. f \in Seq(Cell) /\ Len(f) = n /\ (e = 0 => f = F)
  <2>1. F \in Seq(Cell) /\ i \in Nat /\ e \in Nat /\ i + m \in Nat /\ i + e <= Len(F) /\ (i + m) + e <= Len(F)
    BY <1>0, <1>1
  <2>2. QED BY <1>1, <2>1, CarriedIs
<1>4. ASSUME NEW c \in i + 1 .. i + e PROVE f[c] # Raw
  <2>1. c \in 1..n /\ c \notin i + m + 1 .. i + m + e
    BY <1>0
  <2>2. f[c] = Moved
    BY <1>1, <2>1 DEF Carried
  <2>3. QED BY <2>2, Cells
<1>5. uninitialized_move(s, i, e, i + m) = With(s, f)
  <2>1. PICK j : j = i + m
    OBVIOUS
  <2>2. /\ s \in State /\ i \in Nat /\ e \in Nat /\ j \in Nat /\ i + e <= j /\ j + e <= Len(s.cell)
        /\ \A c \in i + 1 .. i + e : s.cell[c] # Raw
    <3>1. \A c \in i + 1 .. i + e : c \in 1..n /\ c <= l
      BY <1>0
    <3>2. \A c \in i + 1 .. i + e : s.cell[c] # Raw
      BY <1>1, <1>2, <3>1
    <3>3. i + e <= j /\ j + e <= Len(s.cell)
      BY <1>0, <1>1, <1>2, <2>1
    <3>4. QED BY <1>0, <1>2, <2>1, <3>2, <3>3
  <2> HIDE DEF e
  <2>3. uninitialized_move(s, i, e, j) = With(s, Carried(s.cell, i, e, j))
    BY ONLY <2>2, MoveOutIs
  <2>4. QED BY <1>2, <2>1, <2>3
<1> HIDE DEF e, f
<1>6. QED BY <1>3, <1>4, <1>5 DEF e, f, F, s, l

\* The gap is filled with a value ...
LEMMA FillGap ==
  ASSUME NEW w \in Seq(Val), NEW n \in Nat, NEW b \in BOOLEAN, NEW i \in 0..Len(w), NEW m \in Nat,
         Len(w) + m <= n, Len(w) - i <= m, NEW v \in Val
  PROVE  LET s == Vec(w, n, b)
             e == Len(w) - i
             tail == uninitialized_move(s, i, e, i + m)
             first == fill_n(tail, i, e, v)
         IN  /\ e = 0 => first = s
             /\ uninitialized_fill_n(first, s.last, m - e, v) = With(s, GapCells(Buffer(w, n), i, e, m, Same(e, v), Same(m - e, v)))
<1> DEFINE l == Len(w)
           s == Vec(w, n, b)
           e == l - i
           d == m - e
           F == Buffer(w, n)
           f == Carried(F, i, e, i + m)
           p == [k \in 1..e |-> v]
           q == [k \in 1..m - e |-> v]
           g == Written(f, i, e, p)
           tail == uninitialized_move(s, i, e, i + m)
           first == fill_n(tail, i, e, v)
<1>0. /\ l \in Nat /\ e \in Nat /\ i \in Nat /\ i + e = l /\ d \in Nat /\ e <= m /\ l + d <= n /\ i + e <= n
  OBVIOUS
<1>1. s \in State /\ s.cell = F /\ s.last = l
  BY VecIs
<1>2. /\ f \in Seq(Cell) /\ Len(f) = n /\ (\A c \in i + 1 .. i + e : f[c] # Raw)
      /\ (e = 0 => f = F) /\ tail = With(s, f)
  <2>1. /\ w \in Seq(Val) /\ n \in Nat /\ b \in BOOLEAN /\ i \in 0..Len(w) /\ m \in Nat
        /\ Len(w) + m <= n /\ Len(w) - i <= m
    OBVIOUS
  <2>2. QED BY ONLY <2>1, TailIs
<1>3. v \in Cell /\ \A k \in 1..e : [j \in 1..e |-> v][k] \in Cell
  BY DEF Cell
<1> HIDE DEF l, s, F, f, tail, e, d, p
<1>4. With(s, f) \in State /\ With(s, f).cell = f
  BY <1>1, <1>2, WithIs
<1>5. first = With(s, g)
  <2>1. PICK x : x = With(s, f)
    OBVIOUS
  <2>2. /\ x \in State /\ i \in Nat /\ e \in Nat /\ i + e <= Len(x.cell) /\ v \in Cell
        /\ \A c \in i + 1 .. i + e : x.cell[c] # Raw
    BY <1>0, <1>2, <1>3, <1>4, <2>1
  <2>3. fill_n(x, i, e, v) = With(x, Written(x.cell, i, e, [k \in 1..e |-> v]))
    BY ONLY <2>2, FillIs
  <2>4. With(x, g) = With(s, g)
    BY <1>1, <2>1, WithOwn
  <2>5. QED BY <1>2, <1>4, <2>1, <2>3, <2>4 DEF p
<1> HIDE DEF first
<1>6. g \in Seq(Cell) /\ Len(g) = n /\ (e = 0 => g = f)
  <2>1. f \in Seq(Cell) /\ i \in Nat /\ e \in Nat /\ i + e <= Len(f) /\ \A k \in 1..e : p[k] \in Cell
    BY <1>0, <1>2, <1>3 DEF p
  <2>2. OneByOne(f, i, e, p)
    BY ONLY <2>1, WrittenSteps
  <2>3. e \in 0..e
    BY <1>0
  <2>4. QED BY <1>2, <2>2, <2>3 DEF OneByOne
<1>7. e = 0 => first = s
  BY <1>1, <1>2, <1>5, <1>6, WithOwn
<1> HIDE DEF g, q
<1>8. uninitialized_fill_n(first, s.last, d, v) = With(s, Written(g, i + e, d, q))
  <2>1. PICK x, j : x = With(s, g) /\ j = i + e
    OBVIOUS
  <2>2. x \in State /\ x.cell = g /\ With(x, Written(g, j, d, q)) = With(s, Written(g, j, d, q))
    BY <1>1, <1>6, <2>1, WithIs, WithOwn
  <2>3. x \in State /\ j \in Nat /\ d \in Nat /\ j + d <= Len(x.cell) /\ v \in Cell
    BY <1>0, <1>3, <1>6, <2>1, <2>2
  <2>4. uninitialized_fill_n(x, j, d, v) = With(x, Written(x.cell, j, d, [k \in 1..d |-> v]))
    BY ONLY <2>3, ConstructIs
  <2>5. QED BY <1>0, <1>1, <1>5, <2>1, <2>2, <2>4 DEF q, d
<1>9. Written(g, i + e, d, q) = GapCells(F, i, e, m, p, q)
  BY DEF GapCells, g, f, d
<1>10. QED BY <1>7, <1>8, <1>9 DEF first, tail, s, e, d, p, q, F, l, Same

\* ... or, at offset 0, with copies.
LEMMA CopyGap ==
  ASSUME NEW w \in Seq(Val), NEW n \in Nat, NEW b \in BOOLEAN, NEW i \in 0..Len(w), NEW m \in Nat,
         Len(w) + m <= n, Len(w) - i <= m, NEW u \in Seq(Val), m = Len(u), i = 0
  PROVE  LET s == Vec(w, n, b)
             e == Len(w) - i
             tail == uninitialized_move(s, i, e, i + m)
             first == copy_in(tail, SubSeq(u, 1, e), i)
         IN  /\ e = 0 => first = s
             /\ uninitialized_copy(first, SubSeq(u, e + 1, m), e) = With(s, GapCells(Buffer(w, n), i, e, m, SubSeq(u, 1, e), SubSeq(u, e + 1, m)))
<1> DEFINE l == Len(w)
           s == Vec(w, n, b)
           e == l - i
           d == m - e
           F == Buffer(w, n)
           f == Carried(F, i, e, i + m)
           p == SubSeq(u, 1, e)
           q == SubSeq(u, e + 1, m)
           g == Written(f, i, e, p)
           tail == uninitialized_move(s, i, e, i + m)
           first == copy_in(tail, SubSeq(u, 1, e), i)
<1>0. /\ l \in Nat /\ e \in Nat /\ i \in Nat /\ i + e = l /\ d \in Nat /\ e <= m /\ l + d <= n /\ i + e <= n /\ i + e = e
  OBVIOUS
<1>1. s \in State /\ s.cell = F /\ s.last = l
  BY VecIs
<1>2. /\ f \in Seq(Cell) /\ Len(f) = n /\ (\A c \in i + 1 .. i + e : f[c] # Raw)
      /\ (e = 0 => f = F) /\ tail = With(s, f)
  <2>1. /\ w \in Seq(Val) /\ n \in Nat /\ b \in BOOLEAN /\ i \in 0..Len(w) /\ m \in Nat
        /\ Len(w) + m <= n /\ Len(w) - i <= m
    OBVIOUS
  <2>2. QED BY ONLY <2>1, TailIs
<1>3. /\ p \in Seq(Cell) /\ Len(p) = e /\ (\A k \in 1..e : p[k] \in Cell)
      /\ q \in Seq(Cell) /\ Len(q) = d
  <2> HIDE DEF e, d, l
  <2>1. u \in Seq(Cell)
    BY DEF Cell
  <2>2. e \in 0..Len(u) /\ m = Len(u) /\ d = m - e
    BY <1>0 DEF d
  <2>3. QED BY <1>0, <2>1, <2>2
<1> HIDE DEF l, s, F, f, tail, e, d, p
<1>4. With(s, f) \in State /\ With(s, f).cell = f
  BY <1>1, <1>2, WithIs
<1>5. first = With(s, g)
  <2>1. PICK x : x = With(s, f)
    OBVIOUS
  <2>2. /\ x \in State /\ i \in Nat /\ e \in Nat /\ i + e <= Len(x.cell) /\ p \in Seq(Cell) /\ e = Len(p)
        /\ \A c \in i + 1 .. i + e : x.cell[c] # Raw
    BY <1>0, <1>2, <1>3, <1>4, <2>1
  <2>3. copy_in(x, p, i) = With(x, Written(x.cell, i, e, p))
    BY ONLY <2>2, CopyInIs
  <2>4. With(x, g) = With(s, g)
    BY <1>1, <2>1, WithOwn
  <2>5. QED BY <1>2, <1>4, <2>1, <2>3, <2>4 DEF p
<1> HIDE DEF first
<1>6. g \in Seq(Cell) /\ Len(g) = n /\ (e = 0 => g = f)
  <2>1. f \in Seq(Cell) /\ i \in Nat /\ e \in Nat /\ i + e <= Len(f) /\ \A k \in 1..e : p[k] \in Cell
    BY <1>0, <1>2, <1>3 DEF p
  <2>2. OneByOne(f, i, e, p)
    BY ONLY <2>1, WrittenSteps
  <2>3. e \in 0..e
    BY <1>0
  <2>4. QED BY <1>2, <2>2, <2>3 DEF OneByOne
<1>7. e = 0 => first = s
  BY <1>1, <1>2, <1>5, <1>6, WithOwn
<1> HIDE DEF g, q
<1>8. uninitialized_copy(first, q, e) = With(s, Written(g, i + e, d, q))
  <2>1. PICK x, j : x = With(s, g) /\ j = i + e
    OBVIOUS
  <2>2. x \in State /\ x.cell = g /\ With(x, Written(g, j, d, q)) = With(s, Written(g, j, d, q))
    BY <1>1, <1>6, <2>1, WithIs, WithOwn
  <2>3. x \in State /\ j \in Nat /\ d \in Nat /\ j + d <= Len(x.cell) /\ q \in Seq(Cell) /\ d = Len(q)
    BY <1>0, <1>3, <1>6, <2>1, <2>2
  <2>4. uninitialized_copy(x, q, j) = With(x, Written(x.cell, j, d, q))
    BY ONLY <2>3, CopyConstructIs
  <2>5. QED BY <1>0, <1>1, <1>5, <2>1, <2>2, <2>4
<1>9. Written(g, i + e, d, q) = GapCells(F, i, e, m, p, q)
  BY DEF GapCells, g, f, d
<1>10. QED BY <1>7, <1>8, <1>9 DEF first, tail, s, e, d, p, q, F, l

\* The elements w after an insertion of u at offset i, of which t copies can be made.
Inserted(w, n, b, i, u, t) ==
  IF t < Len(u) THEN Vec(w, n, TRUE) ELSE Vec(Ins(w, i, u), Grown(n, Len(w), Len(u)), b)

\* An insertion of nothing.
LEMMA InsNone ==
  ASSUME NEW w \in Seq(Val), NEW i \in 0..Len(w), NEW u \in Seq(Val), Len(u) = 0
  PROVE  Ins(w, i, u) = w
<1> DEFINE x == Ins(w, i, u)
<1>1. /\ x \in Seq(Val) /\ Len(x) = Len(w) + Len(u)
      /\ \A c \in 1..Len(w) + Len(u) : x[c] = IF c <= i THEN w[c]
                          ELSE IF c <= i + Len(u) THEN u[c - i] ELSE w[c - Len(u)]
  BY InsIs
<1> HIDE DEF x
<1>2. Len(w) \in Nat /\ i \in Nat
  OBVIOUS
<1>3. Len(x) = Len(w)
  BY <1>1, <1>2
<1>4. ASSUME NEW c \in 1..Len(w) PROVE x[c] = w[c]
  <2>1. c - 0 = c /\ Len(w) + Len(u) = Len(w) /\ i + Len(u) = i
    BY <1>2
  <2>2. x[c] = IF c <= i THEN w[c] ELSE IF c <= i THEN u[c - i] ELSE w[c - 0]
    BY <1>1, <2>1
  <2>3. QED BY <2>1, <2>2
<1>5. x = w
  BY <1>1, <1>3, <1>4
<1>6. QED BY <1>5 DEF x

\* A constructor that throws before anything was moved changes no cell.
LEMMA NoneMoved ==
  ASSUME NEW w \in Seq(Val), NEW n \in Nat, NEW b \in BOOLEAN
  PROVE  LET s == Vec(w, n, b) IN
         Threw([s EXCEPT !.cell = [k \in DOMAIN @ |-> IF k <= 0 THEN Moved ELSE @[k]]]) = Vec(w, n, TRUE)
<1> DEFINE s == Vec(w, n, b)
           f == [k \in DOMAIN s.cell |-> IF k <= 0 THEN Moved ELSE s.cell[k]]
<1>1. s \in State
  BY VecIs
<1>2. Threw(s) = Vec(w, n, TRUE)
  BY ThrewIs
<1> HIDE DEF s
<1>3. DOMAIN s.cell = 1..Len(s.cell) /\ Len(s.cell) \in Nat /\ s.cell = [k \in 1..Len(s.cell) |-> s.cell[k]]
  BY <1>1, StateIs
<1>4. f = s.cell
  <2>1. \A k \in 1..Len(s.cell) : ~(k <= 0)
    BY <1>3
  <2>2. QED BY <1>3, <2>1
<1>5. [s EXCEPT !.cell = [k \in DOMAIN @ |-> IF k <= 0 THEN Moved ELSE @[k]]] = s
  <2>1. [s EXCEPT !.cell = s.cell] = s
    BY <1>1 DEF State
  <2>2. QED BY <1>4, <2>1
<1>6. QED BY <1>2, <1>5 DEF s

\* insert(position, n, x) puts n copies of x there, or leaves the elements.
LEMMA InsertFillIs ==
  ASSUME NEW w \in Seq(Val), NEW n \in Nat, NEW b \in BOOLEAN, Len(w) <= n, NEW i \in 0..Len(w),
         NEW m \in Nat, NEW t \in Nat, NEW u \in Seq(Val), Len(u) = m, NEW v \in Val, u = [k \in 1..m |-> v],
         n - Len(w) >= m => Len(w) - i <= m,
         t < m => IF n - Len(w) >= m THEN i = Len(w) ELSE i = 0
  PROVE  insertFillNAux(Vec(w, n, b), i, m, v, t) = Inserted(w, n, b, i, u, t)
<1> DEFINE s == Vec(w, n, b)
           l == Len(w)
           N == Grown(n, l, m)
           x == Ins(w, i, u)
           e == l - i
           room == n - l >= m
<1>0. l \in Nat /\ i \in Nat /\ i <= l /\ e \in Nat /\ m \in Nat /\ n \in Nat /\ N \in Nat /\ l <= n
  BY DEF Grown
<1>1. s \in State /\ s.last = l /\ Capacity(s) = n
  BY VecIs
<1>2. Threw(s) = Vec(w, n, TRUE)
  BY ThrewIs
<1>3. CASE m = 0
  <2>1. ~(t < m) /\ N = n
    BY <1>0, <1>3 DEF Grown
  <2>2. x = w
    BY <1>3, InsNone
  <2> HIDE DEF s, x, N
  <2>3. insertFillNAux(s, i, m, v, t) = s
    BY <1>3 DEF insertFillNAux
  <2>4. QED BY <2>1, <2>2, <2>3 DEF Inserted, s, x, N
<1>4. CASE m > 0 /\ room
  <2> DEFINE tail == uninitialized_move(s, i, e, i + m)
             first == fill_n(tail, i, e, v)
             g == GapCells(Buffer(w, n), i, e, m, Same(e, v), Same(m - e, v))
             y == uninitialized_fill_n(first, s.last, m - e, v)
  <2>1. (e = 0 => first = s) /\ y = With(s, g)
    <3>1. /\ w \in Seq(Val) /\ n \in Nat /\ b \in BOOLEAN /\ i \in 0..Len(w) /\ m \in Nat
          /\ Len(w) + m <= n /\ Len(w) - i <= m /\ v \in Val
      BY <1>0, <1>4
    <3>2. QED BY ONLY <3>1, FillGap
  <2>2. With(Sized(s, l + m), g) = Vec(x, n, b)
    <3>1. PICK p, q : p = Same(e, v) /\ q = Same(m - e, v)
      OBVIOUS
    <3>2. Parts(p, q, u, Len(w) - i)
      <4>1. \A k \in 1..e : k \in 1..m /\ p[k] = v
        BY <1>0, <1>4, <3>1 DEF Same
      <4>2. \A k \in 1..m - e : e + k \in 1..m /\ q[k] = v
        BY <1>0, <1>4, <3>1 DEF Same
      <4>3. QED BY <4>1, <4>2 DEF Parts
    <3>3. /\ w \in Seq(Val) /\ n \in Nat /\ b \in BOOLEAN /\ i \in 0..Len(w) /\ u \in Seq(Val)
          /\ Len(w) + Len(u) <= n /\ Len(w) - i <= Len(u)
      BY <1>0, <1>4
    <3>4. With(Sized(Vec(w, n, b), Len(w) + Len(u)), GapCells(Buffer(w, n), i, Len(w) - i, Len(u), p, q))
            = Vec(Ins(w, i, u), n, b)
      BY ONLY <3>2, <3>3, GapIs
    <3>5. QED BY <3>1, <3>4
  <2>3. N = n /\ e <= m /\ l - i <= m
    BY <1>0, <1>4 DEF Grown
  <2>4. t < m => e = 0
    BY <1>0, <1>4
  <2> HIDE DEF s, x, N, g
  <2>5. [With(s, g) EXCEPT !.last = @ + m] = With(Sized(s, l + m), g)
    BY <1>1 DEF With, Sized, State
  <2>6. CASE t < m
    <3>1. ~(t < e) /\ first = s
      BY <2>1, <2>4, <2>6
    <3> HIDE DEF first, y, e
    <3>2. insertFillNAux(s, i, m, v, t) = Threw(first)
      BY <1>0, <1>1, <1>4, <2>3, <2>6, <3>1 DEF insertFillNAux, tail, first, e
    <3>3. QED BY <1>2, <2>6, <3>1, <3>2 DEF Inserted, s
  <2>7. CASE ~(t < m)
    <3>1. ~(t < e)
      BY <1>0, <2>3, <2>7
    <3> HIDE DEF e
    <3>2. insertFillNAux(s, i, m, v, t) = [y EXCEPT !.last = @ + m]
      BY <1>0, <1>1, <1>4, <2>3, <2>7, <3>1 DEF insertFillNAux, tail, first, y, e
    <3>3. QED BY <2>1, <2>2, <2>3, <2>5, <2>7, <3>2 DEF Inserted, s, x, N
  <2>8. QED BY <2>6, <2>7
<1>5. CASE m > 0 /\ ~room
  <2>1. CASE t < m
    <3>1. i = 0
      BY <1>5, <2>1
    <3>2. Threw([s EXCEPT !.cell = [k \in DOMAIN @ |-> IF k <= 0 THEN Moved ELSE @[k]]]) = Vec(w, n, TRUE)
      BY NoneMoved
    <3> HIDE DEF s
    <3>3. insertFillNAux(s, i, m, v, t) =
            Threw([s EXCEPT !.cell = [k \in DOMAIN @ |-> IF k <= 0 THEN Moved ELSE @[k]]])
      BY <1>0, <1>1, <1>5, <2>1, <3>1 DEF insertFillNAux
    <3>4. QED BY <2>1, <3>2, <3>3 DEF Inserted, s
  <2>2. CASE ~(t < m)
    <3>1. /\ InsCells(s, i, u) = x
          /\ With(Sized(s, l + m), Buffer(x, N)) = Vec(x, N, b)
      <4>1. PICK M : M = N
        OBVIOUS
      <4>2. /\ w \in Seq(Val) /\ n \in Nat /\ b \in BOOLEAN /\ Len(w) <= n /\ i \in 0..Len(w)
            /\ u \in Seq(Val) /\ M \in Nat
        BY <1>0, <4>1
      <4>3. /\ InsCells(Vec(w, n, b), i, u) = Ins(w, i, u)
            /\ With(Sized(Vec(w, n, b), Len(w) + Len(u)), Buffer(Ins(w, i, u), M)) = Vec(Ins(w, i, u), M, b)
        BY ONLY <4>2, InsElems
      <4>4. QED BY <4>1, <4>3
    <3>2. getNewCapacity(s, m) = N
      BY <1>0, <1>1, <1>5 DEF getNewCapacity, Grown
    <3> HIDE DEF s, x, N
    <3>3. insertFillNAux(s, i, m, v, t) = [s EXCEPT !.last = @ + m, !.cell = Buffer(InsCells(s, i, u), N)]
      BY <1>0, <1>1, <1>5, <2>2, <3>2 DEF insertFillNAux, InsCells
    <3>4. \A f : [s EXCEPT !.last = @ + m, !.cell = f] = With(Sized(s, l + m), f)
      BY <1>1 DEF With, Sized, State
    <3>5. QED BY <2>2, <3>1, <3>3, <3>4 DEF Inserted, s, x, N
  <2>3. QED BY <2>1, <2>2
<1>6. m = 0 \/ m > 0
  BY <1>0
<1>7. QED BY <1>3, <1>4, <1>5, <1>6

\* insert(position, first, last), at the beginning if the elements fit.
LEMMA InsertRangeIs ==
  ASSUME NEW w \in Seq(Val), NEW n \in Nat, NEW b \in BOOLEAN, Len(w) <= n, NEW i \in 0..Len(w),
         NEW m \in Nat, NEW t \in Nat, NEW u \in Seq(Val), Len(u) = m, n - Len(w) >= m => i = 0,
         n - Len(w) >= m => Len(w) - i <= m,
         t < m => IF n - Len(w) >= m THEN i = Len(w) ELSE i = 0
  PROVE  insertRangeAux(Vec(w, n, b), i, u, t) = Inserted(w, n, b, i, u, t)
<1> DEFINE s == Vec(w, n, b)
           l == Len(w)
           N == Grown(n, l, m)
           x == Ins(w, i, u)
           e == l - i
           room == n - l >= m
<1>0. l \in Nat /\ i \in Nat /\ i <= l /\ e \in Nat /\ m \in Nat /\ n \in Nat /\ N \in Nat /\ l <= n
  BY DEF Grown
<1>1. s \in State /\ s.last = l /\ Capacity(s) = n
  BY VecIs
<1>2. Threw(s) = Vec(w, n, TRUE)
  BY ThrewIs
<1>3. CASE m = 0
  <2>1. ~(t < m) /\ N = n
    BY <1>0, <1>3 DEF Grown
  <2>2. x = w
    BY <1>3, InsNone
  <2> HIDE DEF s, x, N
  <2>3. insertRangeAux(s, i, u, t) = s
    BY <1>3 DEF insertRangeAux
  <2>4. QED BY <2>1, <2>2, <2>3 DEF Inserted, s, x, N
<1>4. CASE m > 0 /\ room
  <2> DEFINE tail == uninitialized_move(s, i, e, i + m)
             first == copy_in(tail, SubSeq(u, 1, e), i)
             g == GapCells(Buffer(w, n), i, e, m, SubSeq(u, 1, e), SubSeq(u, e + 1, m))
             y == uninitialized_copy(first, SubSeq(u, e + 1, m), e)
  <2>1. (e = 0 => first = s) /\ y = With(s, g)
    <3>1. /\ w \in Seq(Val) /\ n \in Nat /\ b \in BOOLEAN /\ i \in 0..Len(w) /\ m \in Nat
          /\ Len(w) + m <= n /\ Len(w) - i <= m /\ u \in Seq(Val) /\ m = Len(u) /\ i = 0
      BY <1>0, <1>4
    <3>2. QED BY ONLY <3>1, CopyGap
  <2>2. With(Sized(s, l + m), g) = Vec(x, n, b)
    <3>1. PICK p, q : p = SubSeq(u, 1, e) /\ q = SubSeq(u, e + 1, m)
      OBVIOUS
    <3>2. Parts(p, q, u, Len(w) - i)
      <4>1. \A k \in 1..e : p[k] = u[k]
        BY <1>0, <1>4, <3>1
      <4>2. \A k \in 1..m - e : q[k] = u[e + k]
        BY <1>0, <1>4, <3>1
      <4>3. QED BY <4>1, <4>2 DEF Parts
    <3>3. /\ w \in Seq(Val) /\ n \in Nat /\ b \in BOOLEAN /\ i \in 0..Len(w) /\ u \in Seq(Val)
          /\ Len(w) + Len(u) <= n /\ Len(w) - i <= Len(u)
      BY <1>0, <1>4
    <3>4. With(Sized(Vec(w, n, b), Len(w) + Len(u)), GapCells(Buffer(w, n), i, Len(w) - i, Len(u), p, q))
            = Vec(Ins(w, i, u), n, b)
      BY ONLY <3>2, <3>3, GapIs
    <3>5. QED BY <3>1, <3>4
  <2>3. N = n /\ e <= m /\ l - i <= m
    BY <1>0, <1>4 DEF Grown
  <2>4. t < m => e = 0
    BY <1>0, <1>4
  <2> HIDE DEF s, x, N, g
  <2>5. [With(s, g) EXCEPT !.last = @ + m] = With(Sized(s, l + m), g)
    BY <1>1 DEF With, Sized, State
  <2>6. CASE t < m
    <3>1. ~(t < e) /\ first = s
      BY <2>1, <2>4, <2>6
    <3> HIDE DEF first, y, e
    <3>2. insertRangeAux(s, i, u, t) = Threw(first)
      BY <1>0, <1>1, <1>4, <2>3, <2>6, <3>1 DEF insertRangeAux, tail, first, e
    <3>3. QED BY <1>2, <2>6, <3>1, <3>2 DEF Inserted, s
  <2>7. CASE ~(t < m)
    <3>1. ~(t < e)
      BY <1>0, <2>3, <2>7
    <3> HIDE DEF e
    <3>2. insertRangeAux(s, i, u, t) = [y EXCEPT !.last = @ + m]
      BY <1>0, <1>1, <1>4, <2>3, <2>7, <3>1 DEF insertRangeAux, tail, first, y, e
    <3>3. QED BY <2>1, <2>2, <2>3, <2>5, <2>7, <3>2 DEF Inserted, s, x, N
  <2>8. QED BY <2>6, <2>7
<1>5. CASE m > 0 /\ ~room
  <2>1. CASE t < m
    <3>1. i = 0
      BY <1>5, <2>1
    <3>2. Threw([s EXCEPT !.cell = [k \in DOMAIN @ |-> IF k <= 0 THEN Moved ELSE @[k]]]) = Vec(w, n, TRUE)
      BY NoneMoved
    <3> HIDE DEF s
    <3>3. insertRangeAux(s, i, u, t) =
            Threw([s EXCEPT !.cell = [k \in DOMAIN @ |-> IF k <= 0 THEN Moved ELSE @[k]]])
      BY <1>0, <1>1, <1>5, <2>1, <3>1 DEF insertRangeAux
    <3>4. QED BY <2>1, <3>2, <3>3 DEF Inserted, s
  <2>2. CASE ~(t < m)
    <3>1. /\ InsCells(s, i, u) = x
          /\ With(Sized(s, l + m), Buffer(x, N)) = Vec(x, N, b)
      <4>1. PICK M : M = N
        OBVIOUS
      <4>2. /\ w \in Seq(Val) /\ n \in Nat /\ b \in BOOLEAN /\ Len(w) <= n /\ i \in 0..Len(w)
            /\ u \in Seq(Val) /\ M \in Nat
        BY <1>0, <4>1
      <4>3. /\ InsCells(Vec(w, n, b), i, u) = Ins(w, i, u)
            /\ With(Sized(Vec(w, n, b), Len(w) + Len(u)), Buffer(Ins(w, i, u), M)) = Vec(Ins(w, i, u), M, b)
        BY ONLY <4>2, InsElems
      <4>4. QED BY <4>1, <4>3
    <3>2. getNewCapacity(s, m) = N
      BY <1>0, <1>1, <1>5 DEF getNewCapacity, Grown
    <3> HIDE DEF s, x, N
    <3>3. insertRangeAux(s, i, u, t) = [s EXCEPT !.last = @ + m, !.cell = Buffer(InsCells(s, i, u), N)]
      BY <1>0, <1>1, <1>5, <2>2, <3>2 DEF insertRangeAux, InsCells
    <3>4. \A f : [s EXCEPT !.last = @ + m, !.cell = f] = With(Sized(s, l + m), f)
      BY <1>1 DEF With, Sized, State
    <3>5. QED BY <2>2, <3>1, <3>3, <3>4 DEF Inserted, s, x, N
  <2>3. QED BY <2>1, <2>2
<1>6. m = 0 \/ m > 0
  BY <1>0
<1>7. QED BY <1>3, <1>4, <1>5, <1>6

\* insert(position, x)
LEMMA InsertAuxIs ==
  ASSUME NEW w \in Seq(Val), NEW n \in Nat, NEW b \in BOOLEAN, Len(w) <= n, NEW i \in 0..Len(w), NEW v \in Val,
         NEW t \in Nat, t # 0, n - Len(w) >= 1 => i < Len(w)
  PROVE  insertAux(Vec(w, n, b), i, v, t) = Vec(Ins(w, i, <<v>>), Grown(n, Len(w), 1), b)
<1> DEFINE s == Vec(w, n, b)
           l == Len(w)
<1>0. l \in Nat /\ i \in Nat /\ i <= l
  OBVIOUS
<1>1. s \in State /\ s.last = l /\ Capacity(s) = n
  BY VecIs
<1>2. CASE l >= n
  <2>1. PICK u, m : u = <<v>> /\ m = 1
    OBVIOUS
  <2>2. /\ w \in Seq(Val) /\ n \in Nat /\ b \in BOOLEAN /\ Len(w) <= n /\ i \in 0..Len(w)
        /\ m \in Nat /\ t \in Nat /\ u \in Seq(Val) /\ Len(u) = m /\ v \in Val /\ u = [k \in 1..m |-> v]
        /\ (n - Len(w) >= m => Len(w) - i <= m)
        /\ (t < m => IF n - Len(w) >= m THEN i = Len(w) ELSE i = 0)
    BY <1>0, <1>2, <2>1
  <2>3. insertFillNAux(Vec(w, n, b), i, m, v, t) = Inserted(w, n, b, i, u, t)
    BY ONLY <2>2, InsertFillIs
  <2>4. insertAux(s, i, v, t) = insertFillNAux(s, i, m, v, t)
    BY <1>1, <1>2, <2>1 DEF insertAux
  <2>5. Inserted(w, n, b, i, u, t) = Vec(Ins(w, i, u), Grown(n, Len(w), m), b)
    <3>1. Len(u) = m /\ ~(t < Len(u))
      BY <2>1, <2>2
    <3>2. QED BY ONLY <3>1 DEF Inserted
  <2>6. QED BY <2>1, <2>3, <2>4, <2>5
<1>3. CASE l < n
  <2> DEFINE f == OpenCells(w, n, i)
             z == Sized(s, l + 1)
  <2>0. i < l /\ Grown(n, l, 1) = n
    BY <1>0, <1>3 DEF Grown
  <2>1. copy_backward(MoveConstruct(s, s.last, s.last + 1), i, s.last - 1 - i, s.last) = With(s, f)
    BY <1>3, <2>0, OpenIs
  <2>2. Assign(With(z, f), i + 1, v) = Vec(Ins(w, i, <<v>>), n, b)
    BY <1>3, <2>0, FillOpen
  <2> HIDE DEF s, f, l
  <2>3. [With(s, f) EXCEPT !.last = @ + 1] = With(z, f)
    BY <1>1 DEF With, Sized, State
  <2>4. insertAux(s, i, v, t) = Assign([With(s, f) EXCEPT !.last = @ + 1], i + 1, v)
    BY <1>0, <1>1, <1>3, <2>0, <2>1 DEF insertAux
  <2>5. QED BY <2>0, <2>2, <2>3, <2>4 DEF s, l
<1>4. QED BY <1>0, <1>2, <1>3

\* resize to more elements
LEMMA ResizeIs ==
  ASSUME NEW w \in Seq(Val), NEW n \in Nat, NEW b \in BOOLEAN, Len(w) <= n, NEW v \in Val, NEW t \in Nat,
         NEW m \in Nat, m >= Len(w), NEW i, i = Len(w), NEW d, d = m - Len(w),
         NEW u \in Seq(Val), u = Same(d, v), Len(u) = d,
         t < d => n - Len(w) >= d \/ Len(w) = 0
  PROVE  resize(Vec(w, n, b), m, v, t) = Inserted(w, n, b, i, u, t)
<1>1. i = Len(w) /\ d = m - Len(w)
  OBVIOUS
<1>2. i \in Nat /\ m >= i
  BY <1>1
<1>3. /\ w \in Seq(Val) /\ n \in Nat /\ b \in BOOLEAN /\ Len(w) <= n /\ i \in 0..Len(w)
      /\ d \in Nat /\ t \in Nat /\ u \in Seq(Val) /\ Len(u) = d /\ v \in Val /\ u = [k \in 1..d |-> v]
      /\ (n - Len(w) >= d => Len(w) - i <= d)
      /\ (t < d => IF n - Len(w) >= d THEN i = Len(w) ELSE i = 0)
  BY <1>1, <1>2 DEF Same
<1>4. insertFillNAux(Vec(w, n, b), i, d, v, t) = Inserted(w, n, b, i, u, t)
  BY ONLY <1>3, InsertFillIs
<1>5. Vec(w, n, b).last = i
  BY <1>1, VecIs
<1>6. resize(Vec(w, n, b), m, v, t) = insertFillNAux(Vec(w, n, b), i, d, v, t)
  BY <1>1, <1>2, <1>5 DEF resize
<1>7. QED BY <1>1, <1>4, <1>6

-----------------------------------------------------------------------------
(* operator=.                                                              *)

\* w with the first k elements replaced by those of u.
Mixed(w, u, k) == [c \in 1..Len(w) |-> IF c <= k THEN u[c] ELSE w[c]]

\* They are elements, as many as w has.
LEMMA MixedIs ==
  ASSUME NEW w \in Seq(Val), NEW u \in Seq(Val), NEW k \in 0..Len(u)
  PROVE  /\ Mixed(w, u, k) \in Seq(Val) /\ Len(Mixed(w, u, k)) = Len(w)
         /\ \A c \in 1..Len(w) : Mixed(w, u, k)[c] = IF c <= k THEN u[c] ELSE w[c]
<1>1. Len(w) \in Nat /\ Len(u) \in Nat /\ k <= Len(u) /\ (\A c \in 1..Len(w) : w[c] \in Val) /\ \A c \in 1..Len(u) : u[c] \in Val
  OBVIOUS
<1>2. Mixed(w, u, k) \in [1..Len(w) -> Val]
  BY <1>1 DEF Mixed
<1>3. QED BY <1>1, <1>2 DEF Mixed

\* The elements that are there are assigned to, k of them before a copy throws.
LEMMA OverIs ==
  ASSUME NEW w \in Seq(Val), NEW n \in Nat, NEW b \in BOOLEAN, Len(w) <= n, NEW u \in Seq(Val),
         NEW k \in 0..Len(u), k <= Len(w)
  PROVE  copy_in(Vec(w, n, b), SubSeq(u, 1, k), 0) = Vec(Mixed(w, u, k), n, b)
<1> DEFINE s == Vec(w, n, b)
           F == Buffer(w, n)
           p == SubSeq(u, 1, k)
           g == Written(F, 0, k, p)
           x == Mixed(w, u, k)
<1>0. k \in Nat /\ k <= Len(w) /\ Len(w) \in Nat /\ k <= n
  OBVIOUS
<1>1. s \in State /\ s.cell = F /\ s.last = Len(w)
  BY VecIs
<1>2. F \in Seq(Cell) /\ Len(F) = n /\ (\A c \in 1..n : F[c] = IF c <= Len(w) THEN w[c] ELSE Raw)
      /\ \A c \in 1..n : c <= Len(w) => F[c] # Raw
  BY BufferIs
<1>3. p \in Seq(Cell) /\ Len(p) = k /\ \A c \in 1..k : p[c] = u[c] /\ p[c] \in Cell
  <2>1. u \in Seq(Cell)
    BY DEF Cell
  <2>2. QED BY <2>1
<1>4. x \in Seq(Val) /\ Len(x) = Len(w) /\ \A c \in 1..Len(w) : x[c] = IF c <= k THEN u[c] ELSE w[c]
  BY MixedIs
<1> HIDE DEF s, F, p, x
<1>5. copy_in(s, p, 0) = With(s, g)
  <2>1. PICK o : o = 0
    OBVIOUS
  <2>2. /\ s \in State /\ o \in Nat /\ p \in Seq(Cell) /\ k \in Nat /\ k = Len(p) /\ o + k <= Len(s.cell)
        /\ \A c \in o + 1 .. o + k : s.cell[c] # Raw
    BY <1>0, <1>1, <1>2, <1>3, <2>1
  <2>3. copy_in(s, p, o) = With(s, Written(s.cell, o, k, p))
    BY ONLY <2>2, CopyInIs
  <2>4. QED BY <1>1, <2>1, <2>3
<1>6. g \in Seq(Cell) /\ Len(g) = n
  <2>1. PICK o : o = 0
    OBVIOUS
  <2>2. F \in Seq(Cell) /\ o \in Nat /\ k \in Nat /\ o + k <= Len(F) /\ \A c \in 1..k : p[c] \in Cell
    BY <1>0, <1>2, <1>3, <2>1
  <2>3. OneByOne(F, o, k, p)
    BY ONLY <2>2, WrittenSteps
  <2>4. k \in 0..k
    BY <1>0
  <2>5. QED BY <1>2, <2>1, <2>3, <2>4 DEF OneByOne
<1>7. ASSUME NEW c \in 1..n PROVE g[c] = IF c <= Len(x) THEN x[c] ELSE Raw
  <2>1. g[c] = IF c \in 0 + 1 .. 0 + k THEN p[c - 0] ELSE F[c]
    BY <1>2 DEF Written
  <2>2. c - 0 = c /\ 0 + k = k /\ (c \in 0 + 1 .. 0 + k <=> c <= k)
    BY <1>0
  <2>3. CASE c <= k
    <3>1. g[c] = p[c] /\ c \in 1..k /\ c \in 1..Len(w)
      BY <1>0, <2>1, <2>2, <2>3
    <3>2. QED BY <1>3, <1>4, <2>3, <3>1
  <2>4. CASE ~(c <= k)
    <3>1. g[c] = F[c]
      BY <2>1, <2>2, <2>4
    <3>2. CASE c <= Len(w)
      <4>1. c \in 1..Len(w)
        BY <1>0, <3>2
      <4>2. QED BY <1>2, <1>4, <2>4, <3>1, <3>2, <4>1
    <3>3. CASE ~(c <= Len(w))
      BY <1>2, <1>4, <3>1, <3>3
    <3>4. QED BY <3>2, <3>3
  <2>5. QED BY <2>3, <2>4
<1> HIDE DEF g
<1>8. With(Sized(Vec(w, n, b), Len(x)), g) = Vec(x, n, b)
  <2>1. /\ w \in Seq(Val) /\ n \in Nat /\ b \in BOOLEAN /\ x \in Seq(Val) /\ g \in Seq(Cell)
        /\ Len(g) = n /\ \A c \in 1..n : g[c] = IF c <= Len(x) THEN x[c] ELSE Raw
    BY <1>4, <1>6, <1>7
  <2>2. QED BY ONLY <2>1, FinalVec
<1>9. Sized(s, Len(x)) = s
  BY <1>1, <1>4, WithOwn
<1>10. QED BY <1>5, <1>8, <1>9 DEF s, p, x

\* ... the others are destroyed, if there are more than u has ...
LEMMA CutIs ==
  ASSUME NEW x \in Seq(Val), NEW n \in Nat, NEW b \in BOOLEAN, Len(x) <= n, NEW u \in Seq(Val),
         Len(u) <= Len(x), \A c \in 1..Len(u) : x[c] = u[c]
  PROVE  destroy([Vec(x, n, b) EXCEPT !.last = Len(u)], Len(u), Len(x) - Len(u)) = Vec(u, n, b)
<1> DEFINE s == Vec(x, n, b)
           m == Len(u)
           l == Len(x)
           d == l - m
           F == Buffer(x, n)
           q == [k \in 1..d |-> Raw]
           g == Written(F, m, d, q)
           z == Sized(s, m)
<1>0. m \in Nat /\ l \in Nat /\ d \in Nat /\ m + d = l /\ l <= n /\ m <= n
  OBVIOUS
<1>1. s \in State /\ s.cell = F
  BY VecIs
<1>2. F \in Seq(Cell) /\ Len(F) = n /\ (\A c \in 1..n : F[c] = IF c <= l THEN x[c] ELSE Raw)
      /\ \A c \in 1..n : c <= l => F[c] # Raw
  BY BufferIs
<1>u. \A c \in 1..m : x[c] = u[c]
  OBVIOUS
<1> HIDE DEF s, F, l, m, d
<1>3. z \in State /\ z.cell = F /\ [s EXCEPT !.last = m] = z
  BY <1>0, <1>1, SizedIs DEF Sized
<1>4. q = [k \in 1..d |-> Raw] /\ \A k \in 1..d : q[k] = Raw /\ q[k] \in Cell
  BY DEF Cell
<1> HIDE DEF z, q
<1>5. destroy(z, m, d) = With(z, g)
  <2>1. z \in State /\ m \in Nat /\ d \in Nat /\ m + d <= Len(z.cell) /\ \A c \in m + 1 .. m + d : z.cell[c] # Raw
    BY <1>0, <1>2, <1>3
  <2>2. destroy(z, m, d) = With(z, Written(z.cell, m, d, [k \in 1..d |-> Raw]))
    BY ONLY <2>1, DestroyedIs
  <2>3. QED BY <1>3, <1>4, <2>2
<1>6. g \in Seq(Cell) /\ Len(g) = n
  <2>1. F \in Seq(Cell) /\ m \in Nat /\ d \in Nat /\ m + d <= Len(F) /\ \A k \in 1..d : q[k] \in Cell
    BY <1>0, <1>2, <1>4
  <2>2. OneByOne(F, m, d, q)
    BY ONLY <2>1, WrittenSteps
  <2>3. d \in 0..d
    BY <1>0
  <2>4. QED BY <1>2, <2>2, <2>3 DEF OneByOne
<1>7. ASSUME NEW c \in 1..n PROVE g[c] = IF c <= m THEN u[c] ELSE Raw
  <2>1. g[c] = IF c \in m + 1 .. m + d THEN q[c - m] ELSE F[c]
    BY <1>2 DEF Written
  <2>2. CASE c <= m
    <3>1. c \notin m + 1 .. m + d /\ c <= l /\ c \in 1..m
      BY <1>0, <2>2
    <3>2. QED BY <1>2, <1>u, <2>1, <2>2, <3>1
  <2>3. CASE c > m /\ c <= l
    <3>1. c \in m + 1 .. m + d /\ c - m \in 1..d /\ ~(c <= m)
      BY <1>0, <2>3
    <3>2. QED BY <1>4, <2>1, <3>1
  <2>4. CASE c > l
    <3>1. c \notin m + 1 .. m + d /\ ~(c <= l) /\ ~(c <= m)
      BY <1>0, <2>4
    <3>2. QED BY <1>2, <2>1, <3>1
  <2>5. QED BY <1>0, <2>2, <2>3, <2>4
<1> HIDE DEF g
<1>8. With(Sized(Vec(x, n, b), Len(u)), g) = Vec(u, n, b)
  <2>1. /\ x \in Seq(Val) /\ n \in Nat /\ b \in BOOLEAN /\ u \in Seq(Val) /\ g \in Seq(Cell)
        /\ Len(g) = n /\ \A c \in 1..n : g[c] = IF c <= Len(u) THEN u[c] ELSE Raw
    BY <1>6, <1>7 DEF m
  <2>2. QED BY ONLY <2>1, FinalVec
<1>9. QED BY <1>3, <1>5, <1>8 DEF s, m, d, l, z

\* ... and what is missing is constructed.
LEMMA FilledUp ==
  ASSUME NEW x \in Seq(Val), NEW n \in Nat, NEW b \in BOOLEAN, NEW u \in Seq(Val),
         Len(x) <= Len(u), Len(u) <= n, \A c \in 1..Len(x) : x[c] = u[c]
  PROVE  [uninitialized_copy(Vec(x, n, b), SubSeq(u, Len(x) + 1, Len(u)), Len(x)) EXCEPT !.last = Len(u)]
            = Vec(u, n, b)
<1> DEFINE s == Vec(x, n, b)
           m == Len(u)
           l == Len(x)
           d == m - l
           F == Buffer(x, n)
           q == SubSeq(u, l + 1, m)
           g == Written(F, l, d, q)
<1>0. m \in Nat /\ l \in Nat /\ d \in Nat /\ l + d = m /\ l <= n /\ m <= n
  OBVIOUS
<1>1. s \in State /\ s.cell = F
  BY VecIs
<1>2. F \in Seq(Cell) /\ Len(F) = n /\ (\A c \in 1..n : F[c] = IF c <= l THEN x[c] ELSE Raw)
  BY BufferIs
<1>3. q \in Seq(Cell) /\ Len(q) = d /\ \A k \in 1..d : q[k] = u[l + k] /\ q[k] \in Cell
  <2>1. u \in Seq(Cell)
    BY DEF Cell
  <2>2. QED BY <1>0, <2>1
<1>u. \A c \in 1..l : x[c] = u[c]
  OBVIOUS
<1> HIDE DEF s, F, l, m, d, q
<1>5. uninitialized_copy(s, q, l) = With(s, g)
  <2>1. s \in State /\ l \in Nat /\ q \in Seq(Cell) /\ d \in Nat /\ d = Len(q) /\ l + d <= Len(s.cell)
    BY <1>0, <1>1, <1>2, <1>3
  <2>2. uninitialized_copy(s, q, l) = With(s, Written(s.cell, l, d, q))
    BY ONLY <2>1, CopyConstructIs
  <2>3. QED BY <1>1, <2>2
<1>6. g \in Seq(Cell) /\ Len(g) = n
  <2>1. F \in Seq(Cell) /\ l \in Nat /\ d \in Nat /\ l + d <= Len(F) /\ \A k \in 1..d : q[k] \in Cell
    BY <1>0, <1>2, <1>3
  <2>2. OneByOne(F, l, d, q)
    BY ONLY <2>1, WrittenSteps
  <2>3. d \in 0..d
    BY <1>0
  <2>4. QED BY <1>2, <2>2, <2>3 DEF OneByOne
<1>7. ASSUME NEW c \in 1..n PROVE g[c] = IF c <= m THEN u[c] ELSE Raw
  <2>1. g[c] = IF c \in l + 1 .. l + d THEN q[c - l] ELSE F[c]
    BY <1>2 DEF Written
  <2>2. CASE c <= l
    <3>1. c \notin l + 1 .. l + d /\ c <= m /\ c \in 1..l
      BY <1>0, <2>2
    <3>2. QED BY <1>2, <1>u, <2>1, <2>2, <3>1
  <2>3. CASE c > l /\ c <= m
    <3>1. c \in l + 1 .. l + d /\ c - l \in 1..d /\ l + (c - l) = c
      BY <1>0, <2>3
    <3>2. g[c] = q[c - l] /\ q[c - l] = u[l + (c - l)]
      BY <1>3, <2>1, <3>1
    <3>3. QED BY <2>3, <3>1, <3>2
  <2>4. CASE c > m
    <3>1. c \notin l + 1 .. l + d /\ ~(c <= l) /\ ~(c <= m)
      BY <1>0, <2>4
    <3>2. QED BY <1>2, <2>1, <3>1
  <2>5. QED BY <1>0, <2>2, <2>3, <2>4
<1> HIDE DEF g
<1>8. With(Sized(Vec(x, n, b), Len(u)), g) = Vec(u, n, b)
  <2>1. /\ x \in Seq(Val) /\ n \in Nat /\ b \in BOOLEAN /\ u \in Seq(Val) /\ g \in Seq(Cell)
        /\ Len(g) = n /\ \A c \in 1..n : g[c] = IF c <= Len(u) THEN u[c] ELSE Raw
    BY <1>6, <1>7 DEF m
  <2>2. QED BY ONLY <2>1, FinalVec
<1>9. [With(s, g) EXCEPT !.last = m] = With(Sized(s, m), g)
  BY <1>0, <1>1, SizedIs
<1>10. QED BY <1>5, <1>8, <1>9 DEF s, q, l, m

\* What operator= leaves.
Assigned(r, w, n, b, u, t) ==
  IF t < Len(u)
  THEN \E x \in Seq(Val) :
          /\ Len(x) = Len(w)
          /\ \A c \in 1..Len(w) : x[c] = w[c] \/ (c <= Len(u) /\ x[c] = u[c])
          /\ r = Vec(x, n, TRUE)
  ELSE r = Vec(u, IF Len(u) >= n THEN Len(u) ELSE n, b)

\* operator= has one of these outcomes, whatever the sizes.
LEMMA CopyAssignIs ==
  ASSUME NEW w \in Seq(Val), NEW n \in Nat, NEW b \in BOOLEAN, Len(w) <= n, NEW u \in Seq(Val), NEW t \in Nat
  PROVE  Assigned(copyAssign(Vec(w, n, b), u, t), w, n, b, u, t)
<1> DEFINE s == Vec(w, n, b)
           m == Len(u)
           l == Len(w)
           k == IF t < m THEN t ELSE m
           j == IF k < l THEN k ELSE l
           r == copyAssign(s, u, t)
<1>0. /\ m \in Nat /\ l \in Nat /\ k \in Nat /\ k <= m /\ j \in Nat /\ j <= m /\ j <= l
      /\ (~(t < m) => k = m) /\ (m <= l => j = k) /\ (l <= m /\ ~(t < m) => j = l)
  OBVIOUS
<1>1. s \in State /\ s.last = l /\ Capacity(s) = n
  BY VecIs
<1>2. CASE m >= n
  <2>1. CASE t < m
    <3>1. r = Threw(s)
      BY <1>1, <1>2, <2>1 DEF copyAssign
    <3>2. r = Vec(w, n, TRUE)
      BY <3>1, ThrewIs
    <3> HIDE DEF s, r
    <3>3. QED BY <2>1, <3>2 DEF Assigned, r, s
  <2>2. CASE ~(t < m)
    <3>1. u \in Seq(Cell) /\ m \in Nat /\ \A c \in 1..m : u[c] = IF c <= Len(u) THEN u[c] ELSE Raw
      BY DEF Cell
    <3>2. With(Sized(Vec(w, n, b), Len(u)), u) = Vec(u, m, b)
      <4>1. PICK f, M : f = u /\ M = m
        OBVIOUS
      <4>2. /\ w \in Seq(Val) /\ n \in Nat /\ b \in BOOLEAN /\ u \in Seq(Val) /\ f \in Seq(Cell)
            /\ M \in Nat /\ Len(f) = M /\ \A c \in 1..M : f[c] = IF c <= Len(u) THEN u[c] ELSE Raw
        BY <3>1, <4>1
      <4>3. With(Sized(Vec(w, n, b), Len(u)), f) = Vec(u, M, b)
        BY ONLY <4>2, FinalVec
      <4>4. QED BY <4>1, <4>3
    <3> HIDE DEF s
    <3>3. r = [s EXCEPT !.cell = u, !.last = m]
      BY <1>1, <1>2, <2>2 DEF copyAssign
    <3>4. [s EXCEPT !.cell = u, !.last = m] = With(Sized(s, m), u)
      BY <1>1 DEF With, Sized, State
    <3> HIDE DEF r
    <3>5. r = Vec(u, m, b)
      BY <3>2, <3>3, <3>4 DEF s
    <3>6. QED BY <1>2, <2>2, <3>5 DEF Assigned, r, s
  <2>3. QED BY <2>1, <2>2
<1>3. CASE ~(m >= n)
  <2> DEFINE x == Mixed(w, u, j)
             over == copy_in(s, SubSeq(u, 1, j), 0)
  <2>1. over = Vec(x, n, b)
    <3> HIDE DEF k, j
    <3>1. /\ w \in Seq(Val) /\ n \in Nat /\ b \in BOOLEAN /\ Len(w) <= n /\ u \in Seq(Val)
          /\ j \in 0..Len(u) /\ j <= Len(w)
      BY <1>0
    <3>2. QED BY ONLY <3>1, OverIs
  <2>2. x \in Seq(Val) /\ Len(x) = l /\ \A c \in 1..l : x[c] = IF c <= j THEN u[c] ELSE w[c]
    <3> HIDE DEF k, j
    <3>1. w \in Seq(Val) /\ u \in Seq(Val) /\ j \in 0..Len(u)
      BY <1>0
    <3>2. QED BY ONLY <3>1, MixedIs
  <2> HIDE DEF x
  <2>3. Threw(Vec(x, n, b)) = Vec(x, n, TRUE)
    BY <2>2, ThrewIs
  <2>4. CASE t < m
    <3>1. r = Threw(over)
      <4>1. CASE m <= l
        BY <1>0, <1>1, <1>3, <2>4, <4>1 DEF copyAssign
      <4>2. CASE ~(m <= l)
        BY <1>0, <1>1, <1>3, <2>4, <4>2 DEF copyAssign
      <4>3. QED BY <4>1, <4>2
    <3> HIDE DEF r, over, j, k
    <3>2. r = Vec(x, n, TRUE)
      BY <2>1, <2>3, <3>1
    <3>3. \A c \in 1..l : x[c] = w[c] \/ (c <= m /\ x[c] = u[c])
      BY <1>0, <2>2
    <3>4. QED BY <2>2, <2>4, <3>2, <3>3 DEF Assigned, r, s
  <2>5. CASE ~(t < m) /\ m <= l
    <3>1. j = m
      BY <1>0, <2>5
    <3>2. r = destroy([over EXCEPT !.last = m], m, l - m)
      <4>1. k = m
        BY <2>5
      <4> HIDE DEF s
      <4>2. QED BY <1>1, <1>3, <2>5, <3>1, <4>1 DEF copyAssign
    <3> HIDE DEF r, over, j, k
    <3>3. /\ x \in Seq(Val) /\ n \in Nat /\ b \in BOOLEAN /\ Len(x) <= n /\ u \in Seq(Val)
          /\ Len(u) <= Len(x) /\ \A c \in 1..Len(u) : x[c] = u[c]
      BY <1>0, <2>2, <2>5, <3>1
    <3>4. destroy([Vec(x, n, b) EXCEPT !.last = Len(u)], Len(u), Len(x) - Len(u)) = Vec(u, n, b)
      BY ONLY <3>3, CutIs
    <3>5. r = Vec(u, n, b)
      BY <2>1, <2>2, <3>2, <3>4
    <3>6. QED BY <1>3, <2>5, <3>5 DEF Assigned, r, s
  <2>6. CASE ~(t < m) /\ ~(m <= l)
    <3>1. j = l
      BY <1>0, <2>6
    <3>2. r = [uninitialized_copy(over, SubSeq(u, l + 1, m), l) EXCEPT !.last = m]
      <4>1. k = m /\ ~(k < l)
        BY <1>0, <2>6
      <4> HIDE DEF s
      <4>2. QED BY <1>1, <1>3, <2>6, <3>1, <4>1 DEF copyAssign
    <3> HIDE DEF r, over, j, k
    <3>3. /\ x \in Seq(Val) /\ n \in Nat /\ b \in BOOLEAN /\ u \in Seq(Val)
          /\ Len(x) <= Len(u) /\ Len(u) <= n /\ \A c \in 1..Len(x) : x[c] = u[c]
      BY <1>0, <1>3, <2>2, <2>6, <3>1
    <3>4. [uninitialized_copy(Vec(x, n, b), SubSeq(u, Len(x) + 1, Len(u)), Len(x)) EXCEPT !.last = Len(u)]
            = Vec(u, n, b)
      BY ONLY <3>3, FilledUp
    <3>5. r = Vec(u, n, b)
      BY <2>1, <2>2, <3>2, <3>4
    <3>6. QED BY <1>3, <2>6, <3>5 DEF Assigned, r, s
  <2>7. QED BY <2>4, <2>5, <2>6
<1>4. QED BY <1>2, <1>3

-----------------------------------------------------------------------------
(* Calls.                                                                  *)

\* The vector is whole: w are its elements, in a buffer of n cells.
At(w, n, b) ==
  /\ w \in Seq(Val) /\ n \in Nat /\ b \in BOOLEAN /\ Len(w) <= n /\ n <= MaxCapa
  /\ vec = Vec(w, n, b)

\* So the call leaves it.
Ends(w, n, b) ==
  /\ w \in Seq(Val) /\ n \in Nat /\ b \in BOOLEAN /\ Len(w) <= n /\ n <= MaxCapa
  /\ vec' = Vec(w, n, b)

\* A call starts from the same vector, with no exception noted.
LEMMA NowIs ==
  ASSUME NEW w \in Seq(Val), NEW n \in Nat, NEW b \in BOOLEAN, vec = Vec(w, n, b)
  PROVE  now = Vec(w, n, FALSE)
<1> DEFINE s == Vec(w, n, b)
           x == [s EXCEPT !.threw = FALSE]
<1>1. s \in State /\ s.cell = Buffer(w, n) /\ s.last = Len(w) /\ s.defined
  BY VecIs
<1> HIDE DEF s
<1>2. x \in State /\ x.cell = s.cell /\ x.last = s.last /\ x.threw = FALSE /\ x.defined
  BY <1>1 DEF State
<1>3. now = x
  BY DEF now, s
<1> HIDE DEF x
<1>4. Len(Buffer(w, n)) = n /\ \A c \in 1..n : Buffer(w, n)[c] = IF c <= Len(w) THEN w[c] ELSE Raw
  BY BufferIs
<1>5. x \in State /\ w \in Seq(Val) /\ n \in Nat /\ x.last = Len(w) /\ x.defined /\ Len(x.cell) = n
      /\ \A c \in 1..n : x.cell[c] = IF c <= Len(w) THEN w[c] ELSE Raw
  BY <1>1, <1>2, <1>4
<1>6. x = Vec(w, n, x.threw)
  BY ONLY <1>5, SameVec
<1>7. QED BY <1>2, <1>3, <1>6

\* What is known where a call starts ...
LEMMA AtIs ==
  ASSUME NEW w, NEW n, NEW b, At(w, n, b)
  PROVE  /\ w \in Seq(Val) /\ n \in Nat /\ b \in BOOLEAN /\ Len(w) <= n /\ n <= MaxCapa
         /\ now = Vec(w, n, FALSE) /\ vec.last = Len(w) /\ Capacity(vec) = n /\ Elems(vec) = w
         /\ Len(w) \in Nat /\ Offset = 0..Len(w) /\ MaxCapa \in Nat /\ Never \in Nat /\ Never # 0
         /\ Copies \subseteq Nat
<1>1. /\ w \in Seq(Val) /\ n \in Nat /\ b \in BOOLEAN /\ Len(w) <= n /\ n <= MaxCapa /\ vec = Vec(w, n, b)
  BY DEF At
<1>2. vec.last = Len(w) /\ Capacity(vec) = n /\ Elems(vec) = w
  BY <1>1, VecIs, ElemsAre
<1>3. MaxCapa \in Nat /\ Never \in Nat /\ Never # 0 /\ Copies \subseteq Nat
  BY Cells DEF Never, Copies
<1>4. now = Vec(w, n, FALSE)
  BY <1>1, NowIs
<1>5. QED BY <1>1, <1>2, <1>3, <1>4 DEF Offset

\* ... and where it ends.
LEMMA EndsIs ==
  ASSUME NEW w, NEW n, NEW b, Ends(w, n, b)
  PROVE  /\ vec'.last = Len(w) /\ Capacity(vec') = n /\ Elems(vec') = w /\ vec'.threw = b
         /\ w \in Seq(Val) /\ n \in Nat /\ b \in BOOLEAN
<1>1. /\ w \in Seq(Val) /\ n \in Nat /\ b \in BOOLEAN /\ Len(w) <= n /\ vec' = Vec(w, n, b)
  BY DEF Ends
<1>2. QED BY <1>1, VecIs, ElemsAre

\* A buffer that the allocator cannot give leaves the vector as it was.
LEMMA CallIs ==
  ASSUME NEW w, NEW n, NEW b, At(w, n, b), NEW x \in Seq(Val), NEW N \in Nat, NEW t \in BOOLEAN, Len(x) <= N,
         Call(Vec(x, N, t))
  PROVE  Ends(w, n, TRUE) \/ Ends(x, N, t)
<1>1. now = Vec(w, n, FALSE) /\ w \in Seq(Val) /\ n \in Nat /\ Len(w) <= n /\ n <= MaxCapa
  BY AtIs
<1>2. Capacity(Vec(x, N, t)) = N
  BY VecIs
<1>3. Threw(now) = Vec(w, n, TRUE)
  BY <1>1, ThrewIs
<1>4. QED BY <1>1, <1>2, <1>3 DEF Call, Ends

\* A call that adds m elements leaves those of y, or throws.
Result(w, n, m, y) ==
  /\ m \in Nat /\ Len(y) = Len(w) + m
  /\ \/ Ends(w, n, TRUE)
     \/ m = 1 /\ Ends(w, Grown(n, Len(w), m), TRUE)
     \/ Ends(y, Grown(n, Len(w), m), FALSE)

\* The buffer has room for m elements more, and is at least twice as large if it is another.
LEMMA GrownIs ==
  ASSUME NEW n \in Nat, NEW l \in Nat, NEW m \in Nat, l <= n
  PROVE  /\ Grown(n, l, m) \in Nat /\ l + m <= Grown(n, l, m)
         /\ Grown(n, l, m) # n => Grown(n, l, m) >= 2 * n /\ n < l + m
BY DEF Grown

\* emplace_back
LEMMA EmplaceBackStep ==
  ASSUME NEW w, NEW n, NEW b, At(w, n, b), NEW v \in Val, NEW t \in Nat, EmplaceBack(v, t)
  PROVE  Result(w, n, 1, Append(w, v))
<1> DEFINE N == Grown(n, Len(w), 1)
<1>1. now = Vec(w, n, FALSE) /\ w \in Seq(Val) /\ n \in Nat /\ Len(w) <= n /\ Len(w) \in Nat
  BY AtIs
<1>2. N \in Nat /\ Len(w) + 1 <= N
  BY <1>1, GrownIs
<1>3. emplace_back(now, v, t) = IF t = 0 THEN Vec(w, N, TRUE) ELSE Vec(Append(w, v), N, FALSE)
  BY <1>1, EmplaceBackIs
<1>4. Append(w, v) \in Seq(Val) /\ Len(Append(w, v)) = Len(w) + 1
  BY <1>1, AppendIs
<1> HIDE DEF N
<1>5. CASE t = 0
  <2>1. Call(Vec(w, N, TRUE))
    BY <1>3, <1>5 DEF EmplaceBack
  <2>2. Ends(w, n, TRUE) \/ Ends(w, N, TRUE)
    <3>1. PICK c : c = TRUE
      OBVIOUS
    <3>a. At(w, n, b) /\ w \in Seq(Val) /\ N \in Nat /\ Len(w) <= N
      BY <1>1, <1>2
    <3>b. c \in BOOLEAN /\ Call(Vec(w, N, c))
      BY <2>1, <3>1, Zenon
    <3>3. Ends(w, n, TRUE) \/ Ends(w, N, c)
      BY ONLY <3>a, <3>b, CallIs
    <3>4. QED BY <3>1, <3>3
  <2>3. QED BY <1>4, <2>2 DEF Result, N
<1>6. CASE t # 0
  <2>1. Call(Vec(Append(w, v), N, FALSE))
    BY <1>3, <1>6 DEF EmplaceBack
  <2>2. Ends(w, n, TRUE) \/ Ends(Append(w, v), N, FALSE)
    BY <1>1, <1>2, <1>4, <2>1, CallIs
  <2>3. QED BY <1>4, <2>2 DEF Result, N
<1>7. QED BY <1>5, <1>6

\* A call that gives u at offset i.
LEMMA AddStep ==
  ASSUME NEW w, NEW n, NEW b, At(w, n, b), NEW i \in 0..Len(w), NEW u \in Seq(Val), NEW m, m = Len(u),
         Call(Vec(Ins(w, i, u), Grown(n, Len(w), m), FALSE))
  PROVE  Result(w, n, m, Ins(w, i, u))
<1>1. PICK N, x : N = Grown(n, Len(w), m) /\ x = Ins(w, i, u)
  OBVIOUS
<1>0. w \in Seq(Val) /\ n \in Nat /\ Len(w) <= n /\ Len(w) \in Nat
  BY AtIs
<1>2. w \in Seq(Val) /\ n \in Nat /\ Len(w) <= n /\ Len(w) \in Nat /\ m \in Nat
  BY <1>0
<1>3. N \in Nat /\ Len(w) + m <= N
  BY <1>1, <1>2, GrownIs
<1>4. x \in Seq(Val) /\ Len(x) = Len(w) + m
  BY <1>1, <1>2, InsIs
<1>5. Ends(w, n, TRUE) \/ Ends(x, N, FALSE)
  <2>1. At(w, n, b) /\ x \in Seq(Val) /\ N \in Nat /\ FALSE \in BOOLEAN /\ Len(x) <= N /\ Call(Vec(x, N, FALSE))
    BY <1>1, <1>3, <1>4
  <2>2. QED BY ONLY <2>1, CallIs
<1>6. QED BY <1>1, <1>2, <1>4, <1>5 DEF Result

\* A call of which t copies of u can be made.
LEMMA InsertedStep ==
  ASSUME NEW w, NEW n, NEW b, At(w, n, b), NEW i \in 0..Len(w), NEW u \in Seq(Val), NEW m, m = Len(u),
         NEW t \in Nat, Call(Inserted(w, n, FALSE, i, u, t))
  PROVE  Result(w, n, m, Ins(w, i, u))
<1>0. w \in Seq(Val) /\ n \in Nat /\ Len(w) <= n /\ Len(w) \in Nat
  BY AtIs
<1>1. w \in Seq(Val) /\ n \in Nat /\ Len(w) <= n /\ Len(w) \in Nat /\ m \in Nat
  BY <1>0
<1>2. CASE t < m
  <2>1. Call(Vec(w, n, TRUE))
    BY <1>2 DEF Inserted
  <2>2. Ends(w, n, TRUE)
    BY <1>1, <2>1, CallIs
  <2>3. Len(Ins(w, i, u)) = Len(w) + m
    BY <1>1, InsIs
  <2>4. QED BY <1>1, <2>2, <2>3 DEF Result
<1>3. CASE ~(t < m)
  <2>1. Call(Vec(Ins(w, i, u), Grown(n, Len(w), m), FALSE))
    BY <1>3 DEF Inserted
  <2>2. QED BY <2>1, AddStep
<1>4. QED BY <1>2, <1>3

\* emplace and insert of one element
LEMMA EmplaceStep ==
  ASSUME NEW w, NEW n, NEW b, At(w, n, b), NEW v \in Val, NEW i \in Offset,
         Emplace(i, v, Never) \/ SafeInsert(i, v)
  PROVE  Result(w, n, 1, Ins(w, i, <<v>>))
<1>1. /\ now = Vec(w, n, FALSE) /\ w \in Seq(Val) /\ n \in Nat /\ Len(w) <= n /\ Len(w) \in Nat
      /\ i \in 0..Len(w) /\ Never \in Nat /\ Never # 0 /\ vec.last = Len(w) /\ Capacity(vec) = n
  BY AtIs
<1>2. Call(Vec(Ins(w, i, <<v>>), Grown(n, Len(w), 1), FALSE))
  <2>1. CASE Emplace(i, v, Never)
    BY <1>1, <2>1, EmplaceIs DEF Emplace
  <2>2. CASE SafeInsert(i, v)
    <3>1. n - Len(w) >= 1 => i < Len(w)
      BY <1>1, <2>2 DEF SafeInsert, Fits
    <3>2. insertAux(now, i, v, Never) = Vec(Ins(w, i, <<v>>), Grown(n, Len(w), 1), FALSE)
      BY <1>1, <3>1, InsertAuxIs
    <3>3. QED BY <2>2, <3>2 DEF SafeInsert, Insert
  <2>3. QED BY <2>1, <2>2
<1>3. PICK u, m : u = <<v>> /\ m = 1
  OBVIOUS
<1>4. u \in Seq(Val) /\ m = Len(u)
  BY <1>3
<1>5. Result(w, n, m, Ins(w, i, u))
  <2>1. At(w, n, b) /\ i \in 0..Len(w) /\ u \in Seq(Val) /\ m = Len(u) /\ Call(Vec(Ins(w, i, u), Grown(n, Len(w), m), FALSE))
    BY <1>1, <1>2, <1>3, <1>4
  <2>2. QED BY ONLY <2>1, AddStep
<1>6. QED BY <1>3, <1>5

\* What GoesRight gives for an insertion of m elements.
LEMMA RightIn ==
  ASSUME NEW w, NEW n, NEW b, At(w, n, b), NEW i, NEW m \in Nat, m <= MaxCapa, NEW t \in Copies, GoesRight(i, m, t)
  PROVE  /\ n - Len(w) >= m => Len(w) - i <= m
         /\ t < m => IF n - Len(w) >= m THEN i = Len(w) ELSE i = 0
<1>1. vec.last = Len(w) /\ Capacity(vec) = n /\ MaxCapa \in Nat /\ t \in Nat
  BY AtIs
<1>2. t < m => t # Never
  BY <1>1 DEF Never
<1>3. QED BY <1>1, <1>2 DEF GoesRight, Fits

\* m times v.
LEMMA SameIs ==
  ASSUME NEW m \in Nat, NEW v \in Val
  PROVE  Same(m, v) \in Seq(Val) /\ Len(Same(m, v)) = m
BY DEF Same

\* insert(position, n, x)
LEMMA FillStep ==
  ASSUME NEW w, NEW n, NEW b, At(w, n, b), NEW v \in Val, NEW i \in Offset, NEW m \in 0..MaxCapa, NEW t \in Copies,
         SafeFill(i, m, v, t)
  PROVE  Result(w, n, m, Ins(w, i, Same(m, v)))
<1>1. /\ now = Vec(w, n, FALSE) /\ w \in Seq(Val) /\ n \in Nat /\ Len(w) <= n /\ i \in 0..Len(w)
      /\ MaxCapa \in Nat /\ t \in Nat
  BY AtIs
<1>m. m \in Nat /\ m <= MaxCapa
  BY <1>1
<1>2. PICK u : u = Same(m, v)
  OBVIOUS
<1>3. u \in Seq(Val) /\ Len(u) = m /\ u = [k \in 1..m |-> v]
  BY <1>1, <1>m, <1>2, SameIs DEF Same
<1>4. /\ n - Len(w) >= m => Len(w) - i <= m
      /\ t < m => IF n - Len(w) >= m THEN i = Len(w) ELSE i = 0
  BY <1>1, <1>m, RightIn DEF SafeFill
<1>5. insertFillNAux(now, i, m, v, t) = Inserted(w, n, FALSE, i, u, t)
  <2>1. PICK c : c = FALSE
    OBVIOUS
  <2>2. /\ w \in Seq(Val) /\ n \in Nat /\ c \in BOOLEAN /\ Len(w) <= n /\ i \in 0..Len(w)
        /\ m \in Nat /\ t \in Nat /\ u \in Seq(Val) /\ Len(u) = m /\ v \in Val /\ u = [k \in 1..m |-> v]
        /\ (n - Len(w) >= m => Len(w) - i <= m)
        /\ (t < m => IF n - Len(w) >= m THEN i = Len(w) ELSE i = 0)
    BY <1>1, <1>m, <1>3, <1>4, <2>1
  <2>3. insertFillNAux(Vec(w, n, c), i, m, v, t) = Inserted(w, n, c, i, u, t)
    BY ONLY <2>2, InsertFillIs
  <2>4. QED BY <1>1, <1>m, <2>1, <2>3
<1>6. At(w, n, b) /\ i \in 0..Len(w) /\ u \in Seq(Val) /\ m = Len(u) /\ t \in Nat /\ Call(Inserted(w, n, FALSE, i, u, t))
  BY <1>1, <1>m, <1>3, <1>5 DEF SafeFill, InsertFill
<1>7. Result(w, n, m, Ins(w, i, u))
  BY ONLY <1>6, InsertedStep
<1>8. QED BY <1>2, <1>7

\* insert(position, first, last)
LEMMA RangeStep ==
  ASSUME NEW w, NEW n, NEW b, At(w, n, b), NEW i \in Offset, NEW u \in Source, NEW t \in Copies,
         SafeRange(i, u, t)
  PROVE  u \in Seq(Val) /\ Result(w, n, Len(u), Ins(w, i, u))
<1>1. /\ now = Vec(w, n, FALSE) /\ w \in Seq(Val) /\ n \in Nat /\ Len(w) <= n /\ i \in 0..Len(w) /\ t \in Nat
      /\ vec.last = Len(w) /\ Capacity(vec) = n
  BY AtIs
<1>2. PICK m \in 0..MaxCapa : u \in [1..m -> Val]
  BY DEF Source
<1>3. m \in Nat /\ u \in Seq(Val) /\ Len(u) = m /\ m <= MaxCapa
  BY <1>2, AtIs
<1>4. /\ n - Len(w) >= m => Len(w) - i <= m
      /\ t < m => IF n - Len(w) >= m THEN i = Len(w) ELSE i = 0
  BY <1>3, RightIn DEF SafeRange
<1>5. n - Len(w) >= m => i = 0
  BY <1>1, <1>3 DEF SafeRange, Fits
<1>6. insertRangeAux(now, i, u, t) = Inserted(w, n, FALSE, i, u, t)
  <2>1. PICK c : c = FALSE
    OBVIOUS
  <2>2. /\ w \in Seq(Val) /\ n \in Nat /\ c \in BOOLEAN /\ Len(w) <= n /\ i \in 0..Len(w)
        /\ m \in Nat /\ t \in Nat /\ u \in Seq(Val) /\ Len(u) = m
        /\ (n - Len(w) >= m => i = 0)
        /\ (n - Len(w) >= m => Len(w) - i <= m)
        /\ (t < m => IF n - Len(w) >= m THEN i = Len(w) ELSE i = 0)
    BY <1>1, <1>3, <1>4, <1>5, <2>1
  <2>3. insertRangeAux(Vec(w, n, c), i, u, t) = Inserted(w, n, c, i, u, t)
    BY ONLY <2>2, InsertRangeIs
  <2>4. QED BY <1>1, <2>1, <2>3
<1>7. At(w, n, b) /\ i \in 0..Len(w) /\ u \in Seq(Val) /\ m = Len(u) /\ t \in Nat /\ Call(Inserted(w, n, FALSE, i, u, t))
  BY <1>1, <1>3, <1>6 DEF SafeRange, InsertRange
<1>8. Result(w, n, m, Ins(w, i, u))
  BY ONLY <1>7, InsertedStep
<1>9. QED BY <1>3, <1>8

\* resize to m elements
LEMMA ResizeStep ==
  ASSUME NEW w, NEW n, NEW b, At(w, n, b), NEW v \in Val, NEW m \in 0..MaxCapa, NEW t \in Copies,
         SafeResize(m, v, t)
  PROVE  /\ m >= Len(w) /\ m - Len(w) \in Nat
         /\ Result(w, n, m - Len(w), Ins(w, Len(w), Same(m - Len(w), v)))
<1>1. /\ now = Vec(w, n, FALSE) /\ w \in Seq(Val) /\ n \in Nat /\ Len(w) <= n /\ Len(w) \in Nat
      /\ t \in Nat /\ vec.last = Len(w) /\ MaxCapa \in Nat
  BY AtIs
<1>m. m \in Nat /\ m <= MaxCapa
  BY <1>1
<1>2. m >= Len(w)
  BY <1>1, <1>m DEF SafeResize
<1>3. PICK d : d = m - Len(w)
  OBVIOUS
<1>4. d \in Nat /\ d <= MaxCapa
  BY <1>1, <1>m, <1>2, <1>3
<1>5. PICK u : u = Same(d, v)
  OBVIOUS
<1>6. u \in Seq(Val) /\ Len(u) = d /\ u = [k \in 1..d |-> v]
  BY <1>4, <1>5, SameIs DEF Same
<1>7. GoesRight(Len(w), d, t)
  BY <1>1, <1>m, <1>3 DEF SafeResize
<1>8. /\ n - Len(w) >= d => Len(w) - Len(w) <= d
      /\ t < d => IF n - Len(w) >= d THEN Len(w) = Len(w) ELSE Len(w) = 0
  BY <1>4, <1>7, RightIn
<1>10. PICK i : i = Len(w)
  OBVIOUS
<1>9. resize(now, m, v, t) = Inserted(w, n, FALSE, i, u, t)
  <2>1. PICK c : c = FALSE
    OBVIOUS
  <2>2. /\ w \in Seq(Val) /\ n \in Nat /\ c \in BOOLEAN /\ Len(w) <= n /\ v \in Val /\ t \in Nat
        /\ m \in Nat /\ m >= Len(w) /\ i = Len(w) /\ d = m - Len(w)
        /\ u \in Seq(Val) /\ u = Same(d, v) /\ Len(u) = d
        /\ (t < d => n - Len(w) >= d \/ Len(w) = 0)
    BY <1>1, <1>m, <1>2, <1>3, <1>5, <1>6, <1>8, <1>10, <2>1
  <2>3. resize(Vec(w, n, c), m, v, t) = Inserted(w, n, c, i, u, t)
    BY ONLY <2>2, ResizeIs
  <2>4. QED BY <1>1, <2>1, <2>3
<1>14. At(w, n, b) /\ i \in 0..Len(w) /\ u \in Seq(Val) /\ d = Len(u) /\ t \in Nat
  BY <1>1, <1>6, <1>10
<1>11. Call(Inserted(w, n, FALSE, i, u, t))
  <2>1. PICK x : x = resize(now, m, v, t)
    OBVIOUS
  <2>2. Call(x)
    BY <2>1 DEF SafeResize, Resize
  <2>3. QED BY <1>9, <2>1, <2>2
<1>12. Result(w, n, d, Ins(w, i, u))
  BY ONLY <1>11, <1>14, InsertedStep
<1>13. QED BY <1>2, <1>3, <1>4, <1>5, <1>10, <1>12

\* erase(position)
LEMMA EraseStep ==
  ASSUME NEW w, NEW n, NEW b, At(w, n, b), NEW i \in Offset, Erase(i)
  PROVE  Ends(Without(w, i), n, FALSE)
<1>1. /\ now = Vec(w, n, FALSE) /\ w \in Seq(Val) /\ n \in Nat /\ Len(w) <= n /\ Len(w) \in Nat /\ i \in 0..Len(w)
      /\ n <= MaxCapa /\ MaxCapa \in Nat /\ vec.last = Len(w)
  BY AtIs
<1>2. i \in 0..Len(w) - 1
  BY <1>1 DEF Erase
<1>3. PICK x : x = Without(w, i)
  OBVIOUS
<1>4. x \in Seq(Val) /\ Len(x) = Len(w) - 1
  BY <1>1, <1>2, <1>3, WithoutIs
<1>5. erase(now, i) = Vec(x, n, FALSE)
  BY <1>1, <1>2, <1>3, EraseIs
<1>6. Capacity(Vec(x, n, FALSE)) = n
  BY <1>1, <1>4, VecIs
<1>7. vec' = Vec(x, n, FALSE)
  BY <1>1, <1>5, <1>6 DEF Erase, Call
<1>8. QED BY <1>1, <1>3, <1>4, <1>7 DEF Ends

\* reserve
LEMMA ReserveStep ==
  ASSUME NEW w, NEW n, NEW b, At(w, n, b), NEW m \in 0..MaxCapa, Reserve(m)
  PROVE  Ends(w, IF m > n THEN m ELSE n, FALSE)
<1>1. /\ now = Vec(w, n, FALSE) /\ w \in Seq(Val) /\ n \in Nat /\ Len(w) <= n /\ Len(w) \in Nat
      /\ n <= MaxCapa /\ MaxCapa \in Nat
  BY AtIs
<1>m. m \in Nat
  BY <1>1
<1>2. PICK N : N = IF m > n THEN m ELSE n
  OBVIOUS
<1>3. N \in Nat /\ Len(w) <= N /\ N <= MaxCapa
  BY <1>1, <1>m, <1>2
<1>4. reserve(now, m) = Vec(w, N, FALSE)
  BY <1>1, <1>m, <1>2, ReserveIs
<1>5. Capacity(Vec(w, N, FALSE)) = N
  BY <1>1, <1>m, <1>3, VecIs
<1>6. vec' = Vec(w, N, FALSE)
  BY <1>3, <1>4, <1>5 DEF Reserve, Call
<1>7. Ends(w, N, FALSE)
  BY <1>1, <1>m, <1>3, <1>6 DEF Ends
<1>8. QED BY <1>2, <1>7

\* shrink_to_fit
LEMMA ShrinkStep ==
  ASSUME NEW w, NEW n, NEW b, At(w, n, b), ShrinkToFit
  PROVE  Ends(w, Len(w), FALSE)
<1>1. /\ now = Vec(w, n, FALSE) /\ w \in Seq(Val) /\ n \in Nat /\ Len(w) <= n /\ Len(w) \in Nat
      /\ n <= MaxCapa /\ MaxCapa \in Nat
  BY AtIs
<1>2. shrink_to_fit(now) = Vec(w, Len(w), FALSE)
  BY <1>1, ShrinkIs
<1>3. Capacity(Vec(w, Len(w), FALSE)) = Len(w)
  BY <1>1, VecIs
<1>4. vec' = Vec(w, Len(w), FALSE)
  <2>1. PICK x : x = shrink_to_fit(now)
    OBVIOUS
  <2>2. Capacity(x) <= MaxCapa
    <3>1. Capacity(x) = Len(w)
      BY <1>2, <1>3, <2>1
    <3>2. QED BY <1>1, <3>1
  <2>3. vec' = x
    BY <2>1, <2>2 DEF ShrinkToFit, Call
  <2>4. QED BY <1>2, <2>1, <2>3
<1>5. QED BY <1>1, <1>4 DEF Ends

\* operator= leaves u, or as many elements as there were.
Copied(w, n, u, t) ==
  IF t < Len(u)
  THEN \E x : /\ Ends(x, n, TRUE) /\ Len(x) = Len(w)
              /\ \A c \in 1..Len(w) : x[c] = w[c] \/ x[c] = u[c]
  ELSE Ends(u, IF Len(u) >= n THEN Len(u) ELSE n, FALSE)

\* operator= does so: its buffer is one the allocator can give.
LEMMA CopyAssignStep ==
  ASSUME NEW w, NEW n, NEW b, At(w, n, b), NEW u \in Source, NEW t \in Copies, CopyAssign(u, t)
  PROVE  u \in Seq(Val) /\ Len(u) <= MaxCapa /\ Copied(w, n, u, t)
<1>1. /\ now = Vec(w, n, FALSE) /\ w \in Seq(Val) /\ n \in Nat /\ Len(w) <= n /\ Len(w) \in Nat
      /\ n <= MaxCapa /\ MaxCapa \in Nat /\ t \in Nat
  BY AtIs
<1>2. PICK m \in 0..MaxCapa : u \in [1..m -> Val]
  BY DEF Source
<1>3. m \in Nat /\ u \in Seq(Val) /\ Len(u) = m /\ m <= MaxCapa
  BY <1>1, <1>2
<1>4. Assigned(copyAssign(now, u, t), w, n, FALSE, u, t)
  <2>1. PICK c : c = FALSE
    OBVIOUS
  <2>2. w \in Seq(Val) /\ n \in Nat /\ c \in BOOLEAN /\ Len(w) <= n /\ u \in Seq(Val) /\ t \in Nat
    BY <1>1, <1>3, <2>1
  <2>3. Assigned(copyAssign(Vec(w, n, c), u, t), w, n, c, u, t)
    BY ONLY <2>2, CopyAssignIs
  <2>4. QED BY <1>1, <2>1, <2>3
<1>5. CASE t < m
  <2>1. PICK x \in Seq(Val) : /\ Len(x) = Len(w)
                              /\ \A c \in 1..Len(w) : x[c] = w[c] \/ (c <= Len(u) /\ x[c] = u[c])
                              /\ copyAssign(now, u, t) = Vec(x, n, TRUE)
    BY <1>3, <1>4, <1>5 DEF Assigned
  <2>2. Capacity(Vec(x, n, TRUE)) = n
    BY <1>1, VecIs
  <2>3. vec' = Vec(x, n, TRUE)
    BY <1>1, <2>1, <2>2 DEF CopyAssign, Call
  <2>4. Ends(x, n, TRUE)
    BY <1>1, <2>1, <2>3 DEF Ends
  <2>5. QED BY <1>3, <1>5, <2>1, <2>4 DEF Copied
<1>6. CASE ~(t < m)
  <2>1. PICK N : N = IF Len(u) >= n THEN Len(u) ELSE n
    OBVIOUS
  <2>2. N \in Nat /\ N <= MaxCapa /\ Len(u) <= N
    BY <1>1, <1>3, <2>1
  <2>3. copyAssign(now, u, t) = Vec(u, N, FALSE)
    BY <1>3, <1>4, <1>6, <2>1 DEF Assigned
  <2>4. Capacity(Vec(u, N, FALSE)) = N
    BY <1>3, <2>2, VecIs
  <2>5. vec' = Vec(u, N, FALSE)
    BY <2>2, <2>3, <2>4 DEF CopyAssign, Call
  <2>6. Ends(u, N, FALSE)
    BY <1>3, <2>2, <2>5 DEF Ends
  <2>7. QED BY <1>3, <1>6, <2>1, <2>6 DEF Copied
<1>7. QED BY <1>3, <1>5, <1>6

-----------------------------------------------------------------------------
(* The invariant.                                                          *)

\* The vector is the whole vector of some elements in some buffer.
IInv == \E w, n, b : At(w, n, b)

\* The invariant says what Whole says.
LEMMA InvIsWhole ==
  ASSUME IInv
  PROVE  Whole
<1>1. PICK w, n, b : At(w, n, b)
  BY DEF IInv
<1>2. w \in Seq(Val) /\ n \in Nat /\ b \in BOOLEAN /\ Len(w) <= n /\ n <= MaxCapa /\ vec = Vec(w, n, b)
  BY <1>1 DEF At
<1>3. /\ vec.cell = Buffer(w, n) /\ vec.last = Len(w) /\ vec.threw = b /\ vec.defined = TRUE
      /\ Capacity(vec) = n /\ Len(w) \in Nat
  BY <1>2, VecIs
<1>4. /\ Buffer(w, n) \in Seq(Cell)
      /\ \A c \in 1..n : Buffer(w, n)[c] = IF c <= Len(w) THEN w[c] ELSE Raw
      /\ \A c \in 1..n : c <= Len(w) => Buffer(w, n)[c] \in Val
  BY <1>2, BufferIs
<1>5. TypeOK
  <2>1. vec.cell \in Seq(Val \cup {Raw, Moved}) /\ Capacity(vec) <= MaxCapa
    BY <1>2, <1>3, <1>4 DEF Cell
  <2>2. vec.last \in 0..Capacity(vec)
    BY <1>2, <1>3
  <2>3. vec.threw \in BOOLEAN /\ vec.defined \in BOOLEAN
    BY <1>2, <1>3
  <2>4. QED BY <2>1, <2>2, <2>3 DEF TypeOK
<1>6. \A i \in 1..Capacity(vec) : IF i <= vec.last THEN vec.cell[i] \in Val ELSE vec.cell[i] = Raw
  BY <1>3, <1>4
<1>7. vec.defined
  BY <1>3
<1>8. QED BY <1>5, <1>6, <1>7 DEF Whole

\* Both constructors make a whole vector.
LEMMA InitInv ==
  ASSUME Init
  PROVE  IInv
<1>0. MaxCapa \in Nat
  BY Cells
<1>1. /\ vec \in State /\ vec.defined /\ vec.last <= Len(vec.cell) /\ Len(vec.cell) <= MaxCapa
      /\ \A c \in 1..Len(vec.cell) : IF c <= vec.last THEN vec.cell[c] \in Val ELSE vec.cell[c] = Raw
  <2>1. CASE vec = Empty
    <3>1. <<>> \in Seq(Cell) /\ Len(<<>>) = 0
      OBVIOUS
    <3>2. vec \in State /\ vec.cell = <<>> /\ vec.last = 0 /\ vec.defined
      BY <2>1, <3>1 DEF Empty, State
    <3>3. QED BY <1>0, <3>1, <3>2
  <2>2. ASSUME NEW n \in 1..MaxCapa, NEW v \in Val, vec = Filled(n, v)
        PROVE  /\ vec \in State /\ vec.defined /\ vec.last <= Len(vec.cell) /\ Len(vec.cell) <= MaxCapa
               /\ \A c \in 1..Len(vec.cell) : IF c <= vec.last THEN vec.cell[c] \in Val ELSE vec.cell[c] = Raw
    <3>1. PICK f : f = [i \in 1..n |-> v]
      OBVIOUS
    <3>2. f \in Seq(Cell) /\ Len(f) = n /\ (\A c \in 1..n : f[c] = v) /\ n \in Nat /\ n <= MaxCapa
      BY <1>0, <3>1 DEF Cell
    <3>3. vec \in State /\ vec.cell = f /\ vec.last = n /\ vec.defined
      BY <2>2, <3>1, <3>2 DEF Empty, State, Filled
    <3>4. QED BY <3>2, <3>3
  <2>3. QED BY <2>1, <2>2 DEF Init
<1>2. Right(vec, Len(vec.cell))
  BY <1>1, RightIs
<1>3. PICK w \in Seq(Val), b \in BOOLEAN : Len(w) <= Len(vec.cell) /\ vec = Vec(w, Len(vec.cell), b)
  BY <1>2 DEF Right
<1>4. Len(vec.cell) \in Nat
  BY <1>1, StateIs
<1>5. At(w, Len(vec.cell), b)
  BY <1>1, <1>3, <1>4 DEF At
<1>6. QED BY <1>5 DEF IInv

\* A call that ends in a whole vector keeps the invariant.
LEMMA EndsInv ==
  ASSUME NEW w, NEW n, NEW b, Ends(w, n, b)
  PROVE  IInv'
<1>1. At(w, n, b)'
  BY DEF Ends, At
<1>2. QED BY <1>1 DEF IInv

-----------------------------------------------------------------------------
(* Steps.                                                                  *)

\* What a call that adds elements does.
LEMMA ResultIs ==
  ASSUME NEW w, NEW n, NEW b, At(w, n, b), NEW m, NEW y, Result(w, n, m, y)
  PROVE  /\ IInv' /\ GrowthStep
         /\ IF vec'.threw THEN Elems(vec') = w ELSE Elems(vec') = y
<1>1. w \in Seq(Val) /\ n \in Nat /\ Len(w) <= n /\ Len(w) \in Nat /\ Capacity(vec) = n /\ vec.last = Len(w)
  BY AtIs
<1>2. m \in Nat /\ Len(y) = Len(w) + m
  BY DEF Result
<1>3. PICK N : N = Grown(n, Len(w), m)
  OBVIOUS
<1>4. N \in Nat /\ (N # n => N >= 2 * n /\ n < Len(w) + m)
  BY <1>1, <1>2, <1>3, GrownIs
<1>5. CASE Ends(w, n, TRUE)
  <2>1. Capacity(vec') = n /\ Elems(vec') = w /\ vec'.threw
    BY <1>5, EndsIs
  <2>2. QED BY <1>1, <1>5, <2>1, EndsInv DEF GrowthStep
<1>6. CASE m = 1 /\ Ends(w, N, TRUE)
  <2>1. Capacity(vec') = N /\ Elems(vec') = w /\ vec'.threw
    BY <1>6, EndsIs
  <2>2. IInv'
    BY <1>6, EndsInv
  <2>3. GrowthStep
    BY <1>1, <1>4, <1>6, <2>1 DEF GrowthStep
  <2>4. QED BY <2>1, <2>2, <2>3
<1>7. CASE Ends(y, N, FALSE)
  <2>1. Capacity(vec') = N /\ Elems(vec') = y /\ ~vec'.threw /\ vec'.last = Len(y)
    BY <1>7, EndsIs
  <2>2. IInv'
    BY <1>7, EndsInv
  <2>3. GrowthStep
    BY <1>1, <1>2, <1>4, <2>1 DEF GrowthStep
  <2>4. QED BY <2>1, <2>2, <2>3
<1>8. QED BY <1>3, <1>5, <1>6, <1>7 DEF Result

\* The elements a call that throws leaves.
ThrewExact ==
  LET w == Elems(vec)  x == Elems(vec') IN
  vec'.threw => \/ x = w
                \/ \E u \in Source, t \in Copies :
                      /\ CopyAssign(u, t) /\ Len(x) = Len(w)
                      /\ \A k \in DOMAIN x : x[k] = w[k] \/ x[k] = u[k]

\* operator=, which may throw in the middle.
LEMMA CopyAssignLeaves ==
  ASSUME NEW w, NEW n, NEW b, At(w, n, b), NEW u \in Source, NEW t \in Copies, CopyAssign(u, t)
  PROVE  IInv' /\ GrowthStep /\ ThrewExact /\ (t = Never => Elems(vec') = u)
<1>1. w \in Seq(Val) /\ n \in Nat /\ Capacity(vec) = n /\ Elems(vec) = w /\ MaxCapa \in Nat
  BY AtIs
<1>2. u \in Seq(Val) /\ Len(u) <= MaxCapa /\ Copied(w, n, u, t)
  BY CopyAssignStep
<1>3. CASE t < Len(u)
  <2>1. PICK x : Ends(x, n, TRUE) /\ Len(x) = Len(w) /\ \A c \in 1..Len(w) : x[c] = w[c] \/ x[c] = u[c]
    BY <1>2, <1>3 DEF Copied
  <2>2. Capacity(vec') = n /\ Elems(vec') = x /\ vec'.threw /\ x \in Seq(Val)
    BY <2>1, EndsIs
  <2>3. IInv'
    BY <2>1, EndsInv
  <2>4. GrowthStep
    BY <1>1, <2>2 DEF GrowthStep
  <2>5. DOMAIN x = 1..Len(w)
    BY <2>1, <2>2
  <2>6. ThrewExact
    BY <1>1, <2>1, <2>2, <2>5 DEF ThrewExact
  <2>7. t # Never
    BY <1>1, <1>2, <1>3 DEF Never
  <2>8. QED BY <2>3, <2>4, <2>6, <2>7
<1>4. CASE ~(t < Len(u))
  <2>1. PICK N : N = IF Len(u) >= n THEN Len(u) ELSE n
    OBVIOUS
  <2>2. Ends(u, N, FALSE)
    BY <1>2, <1>4, <2>1 DEF Copied
  <2>3. Capacity(vec') = N /\ Elems(vec') = u /\ ~vec'.threw
    BY <2>2, EndsIs
  <2>4. IInv'
    BY <2>2, EndsInv
  <2>5. N = n \/ N = Len(u)
    BY <2>1
  <2>6. GrowthStep
    BY <1>1, <2>3, <2>5 DEF GrowthStep
  <2>7. ThrewExact
    BY <2>3 DEF ThrewExact
  <2>8. QED BY <2>3, <2>4, <2>6, <2>7
<1>5. QED BY <1>3, <1>4

\* erase, reserve and shrink_to_fit do not throw.
LEMMA OthersLeave ==
  ASSUME NEW w, NEW n, NEW b, At(w, n, b)
  PROVE  /\ \A i \in Offset : Erase(i) => IInv' /\ GrowthStep /\ ThrewExact /\ Elems(vec') = Without(w, i)
         /\ \A m \in 0..MaxCapa : Reserve(m) => IInv' /\ GrowthStep /\ ThrewExact /\ Elems(vec') = w
         /\ ShrinkToFit => IInv' /\ GrowthStep /\ ThrewExact /\ Elems(vec') = w
<1>1. n \in Nat /\ Capacity(vec) = n /\ vec.last = Len(w) /\ MaxCapa \in Nat
  BY AtIs
<1>2. ASSUME NEW i \in Offset, Erase(i) PROVE IInv' /\ GrowthStep /\ ThrewExact /\ Elems(vec') = Without(w, i)
  <2>1. Ends(Without(w, i), n, FALSE)
    BY <1>2, EraseStep
  <2>2. Capacity(vec') = n /\ Elems(vec') = Without(w, i) /\ ~vec'.threw
    BY <2>1, EndsIs
  <2>3. IInv'
    BY <2>1, EndsInv
  <2>4. GrowthStep
    BY <1>1, <2>2 DEF GrowthStep
  <2>5. ThrewExact
    BY <2>2 DEF ThrewExact
  <2>6. QED BY <2>2, <2>3, <2>4, <2>5
<1>3. ASSUME NEW m \in 0..MaxCapa, Reserve(m) PROVE IInv' /\ GrowthStep /\ ThrewExact /\ Elems(vec') = w
  <2>1. PICK N : N = IF m > n THEN m ELSE n
    OBVIOUS
  <2>2. Ends(w, N, FALSE)
    BY <1>3, <2>1, ReserveStep
  <2>3. Capacity(vec') = N /\ Elems(vec') = w /\ ~vec'.threw
    BY <2>2, EndsIs
  <2>4. IInv'
    BY <2>2, EndsInv
  <2>5. N = n \/ (N = m /\ m > n)
    BY <2>1
  <2>6. GrowthStep
    BY <1>1, <1>3, <2>3, <2>5 DEF GrowthStep
  <2>7. ThrewExact
    BY <2>3 DEF ThrewExact
  <2>8. QED BY <2>3, <2>4, <2>6, <2>7
<1>4. ASSUME ShrinkToFit PROVE IInv' /\ GrowthStep /\ ThrewExact /\ Elems(vec') = w
  <2>1. PICK N : N = Len(w)
    OBVIOUS
  <2>2. Ends(w, N, FALSE)
    BY <1>4, <2>1, ShrinkStep
  <2>3. Capacity(vec') = N /\ Elems(vec') = w /\ ~vec'.threw
    BY <2>2, EndsIs
  <2>4. IInv'
    BY <2>2, EndsInv
  <2>5. GrowthStep
    BY <1>1, <1>4, <2>1, <2>3 DEF GrowthStep
  <2>6. ThrewExact
    BY <2>3 DEF ThrewExact
  <2>7. QED BY <2>3, <2>4, <2>5, <2>6
<1>5. QED BY <1>2, <1>3, <1>4

\* The same, for the elements that a call that throws leaves.
LEMMA ResultLeaves ==
  ASSUME NEW w, NEW n, NEW b, At(w, n, b), NEW m, NEW y, Result(w, n, m, y)
  PROVE  IInv' /\ GrowthStep /\ ThrewExact /\ (~vec'.threw => Elems(vec') = y)
<1>1. Elems(vec) = w
  BY AtIs
<1>2. /\ IInv' /\ GrowthStep
      /\ IF vec'.threw THEN Elems(vec') = w ELSE Elems(vec') = y
  BY ResultIs
<1>3. ThrewExact
  BY <1>1, <1>2 DEF ThrewExact
<1>4. QED BY <1>2, <1>3

\* Every call leaves a whole vector, with the elements it had if it threw.
LEMMA SoundStep ==
  ASSUME IInv, SoundNext
  PROVE  IInv' /\ GrowthStep /\ ThrewExact
<1>1. PICK w, n, b : At(w, n, b)
  BY DEF IInv
<1>2. Never \in Nat
  BY <1>1, AtIs
<1>3. ASSUME NEW v \in Val, NEW t \in {0, Never}, EmplaceBack(v, t) PROVE IInv' /\ GrowthStep /\ ThrewExact
  <2>1. t \in Nat
    BY <1>2
  <2>2. Result(w, n, 1, Append(w, v))
    BY <1>1, <1>3, <2>1, EmplaceBackStep
  <2>3. QED BY <1>1, <2>2, ResultLeaves
<1>4. ASSUME NEW v \in Val, NEW i \in Offset, Emplace(i, v, Never) \/ SafeInsert(i, v)
      PROVE  IInv' /\ GrowthStep /\ ThrewExact
  <2>1. Result(w, n, 1, Ins(w, i, <<v>>))
    BY <1>1, <1>4, EmplaceStep
  <2>2. QED BY <1>1, <2>1, ResultLeaves
<1>5. ASSUME NEW v \in Val, NEW t \in Copies, NEW m \in 0..MaxCapa, NEW i \in Offset, SafeFill(i, m, v, t)
      PROVE  IInv' /\ GrowthStep /\ ThrewExact
  <2>1. Result(w, n, m, Ins(w, i, Same(m, v)))
    BY <1>1, <1>5, FillStep
  <2>2. QED BY <1>1, <2>1, ResultLeaves
<1>6. ASSUME NEW v \in Val, NEW t \in Copies, NEW m \in 0..MaxCapa, SafeResize(m, v, t)
      PROVE  IInv' /\ GrowthStep /\ ThrewExact
  <2>1. Result(w, n, m - Len(w), Ins(w, Len(w), Same(m - Len(w), v)))
    BY <1>1, <1>6, ResizeStep
  <2>2. QED BY <1>1, <2>1, ResultLeaves
<1>7. ASSUME NEW u \in Source, NEW t \in Copies, NEW i \in Offset, SafeRange(i, u, t)
      PROVE  IInv' /\ GrowthStep /\ ThrewExact
  <2>1. Result(w, n, Len(u), Ins(w, i, u))
    BY <1>1, <1>7, RangeStep
  <2>2. QED BY <1>1, <2>1, ResultLeaves
<1>8. ASSUME NEW u \in Source, NEW t \in Copies, CopyAssign(u, t) PROVE IInv' /\ GrowthStep /\ ThrewExact
  BY <1>1, <1>8, CopyAssignLeaves
<1>9. ASSUME NEW i \in Offset, Erase(i) PROVE IInv' /\ GrowthStep /\ ThrewExact
  BY <1>1, <1>9, OthersLeave
<1>10. ASSUME NEW m \in 0..MaxCapa, Reserve(m) PROVE IInv' /\ GrowthStep /\ ThrewExact
  BY <1>1, <1>10, OthersLeave
<1>11. ASSUME ShrinkToFit PROVE IInv' /\ GrowthStep /\ ThrewExact
  BY <1>1, <1>11, OthersLeave
<1>12. QED BY <1>3, <1>4, <1>5, <1>6, <1>7, <1>8, <1>9, <1>10, <1>11 DEF SoundNext

\* m times v at the end.
LEMMA AtTheEnd ==
  ASSUME NEW w \in Seq(Val), NEW v \in Val, NEW m \in Nat, m >= Len(w)
  PROVE  Ins(w, Len(w), Same(m - Len(w), v)) = w \o SubSeq([k \in 1..m |-> v], 1, m - Len(w))
<1>1. PICK i, d : i = Len(w) /\ d = m - Len(w)
  OBVIOUS
<1>2. i \in Nat /\ d \in Nat /\ i \in 0..Len(w) /\ d <= m
  BY <1>1
<1>3. PICK u : u = Same(d, v)
  OBVIOUS
<1>4. u \in Seq(Val) /\ Len(u) = d /\ \A k \in 1..d : u[k] = v
  BY <1>2, <1>3, SameIs DEF Same
<1>5. PICK z : z = SubSeq([k \in 1..m |-> v], 1, d)
  OBVIOUS
<1>6. z \in Seq(Val) /\ Len(z) = d /\ \A k \in 1..d : z[k] = v
  BY <1>2, <1>5
<1>7. z = u
  BY <1>2, <1>4, <1>6
<1>8. SubSeq(w, 1, Len(w)) = w /\ SubSeq(w, Len(w) + 1, Len(w)) = <<>>
  OBVIOUS
<1>9. Ins(w, i, u) = w \o u \o <<>>
  BY <1>1, <1>8 DEF Ins
<1>10. w \o u \in Seq(Val)
  BY <1>4
<1>11. w \o u \o <<>> = w \o u
  BY <1>10
<1>12. QED BY <1>1, <1>3, <1>5, <1>7, <1>9, <1>11

\* Every call that returns has its effect.
LEMMA ReturnExact ==
  ASSUME IInv, ~vec'.threw, ThrewExact
  PROVE  CallExact
<1>1. PICK w, n, b : At(w, n, b)
  BY DEF IInv
<1>2. Elems(vec) = w /\ vec.last = Len(w) /\ w \in Seq(Val) /\ Len(w) \in Nat /\ Never \in Nat /\ Never \in Copies
  <2>1. MaxCapa \in Nat
    BY Cells
  <2>2. Never \in Copies
    BY <2>1 DEF Never, Copies
  <2>3. QED BY <1>1, <2>2, AtIs
<1>3. \A i, u : Replaced(i, i, u) = Ins(w, i, u)
  BY <1>2 DEF Replaced, Ins
<1>4. ASSUME NEW v \in Val, EmplaceBack(v, Never) PROVE Elems(vec') = Append(w, v)
  <2>1. Result(w, n, 1, Append(w, v))
    BY <1>1, <1>2, <1>4, EmplaceBackStep
  <2>2. QED BY <1>1, <2>1, ResultLeaves
<1>5. ASSUME NEW v \in Val, NEW i \in Offset, Emplace(i, v, Never) \/ SafeInsert(i, v)
      PROVE  Elems(vec') = Replaced(i, i, <<v>>)
  <2>1. Result(w, n, 1, Ins(w, i, <<v>>))
    BY <1>1, <1>5, EmplaceStep
  <2>2. QED BY <1>1, <1>3, <2>1, ResultLeaves
<1>6. ASSUME NEW v \in Val, NEW m \in 0..MaxCapa, NEW i \in Offset, SafeFill(i, m, v, Never)
      PROVE  Elems(vec') = Replaced(i, i, [k \in 1..m |-> v])
  <2>1. Result(w, n, m, Ins(w, i, Same(m, v)))
    BY <1>1, <1>2, <1>6, FillStep
  <2>2. Elems(vec') = Ins(w, i, Same(m, v))
    BY <1>1, <2>1, ResultLeaves
  <2>3. QED BY <1>3, <2>2 DEF Same
<1>7. ASSUME NEW v \in Val, NEW m \in 0..MaxCapa, SafeResize(m, v, Never)
      PROVE  Elems(vec') = w \o SubSeq([k \in 1..m |-> v], 1, m - vec.last)
  <2>1. m >= Len(w) /\ Result(w, n, m - Len(w), Ins(w, Len(w), Same(m - Len(w), v)))
    BY <1>1, <1>2, <1>7, ResizeStep
  <2>2. Elems(vec') = Ins(w, Len(w), Same(m - Len(w), v))
    BY <1>1, <2>1, ResultLeaves
  <2>3. m \in Nat
    OBVIOUS
  <2>4. QED BY <1>2, <2>1, <2>2, <2>3, AtTheEnd
<1>8. ASSUME NEW u \in Source, NEW i \in Offset, SafeRange(i, u, Never) PROVE Elems(vec') = Replaced(i, i, u)
  <2>1. Result(w, n, Len(u), Ins(w, i, u))
    BY <1>1, <1>2, <1>8, RangeStep
  <2>2. QED BY <1>1, <1>3, <2>1, ResultLeaves
<1>9. ASSUME NEW u \in Source, CopyAssign(u, Never) PROVE Elems(vec') = u
  BY <1>1, <1>2, <1>9, CopyAssignLeaves
<1>10. ASSUME NEW i \in Offset, Erase(i) PROVE Elems(vec') = Replaced(i, i + 1, <<>>)
  <2>1. Elems(vec') = Without(w, i)
    BY <1>1, <1>10, OthersLeave
  <2>2. QED BY <1>2, <2>1 DEF Replaced, Without
<1>11. ASSUME NEW m \in 0..MaxCapa, Reserve(m) PROVE Elems(vec') = w
  BY <1>1, <1>11, OthersLeave
<1>12. ASSUME ShrinkToFit PROVE Elems(vec') = w
  BY <1>1, <1>12, OthersLeave
<1>13. QED BY <1>2, <1>4, <1>5, <1>6, <1>7, <1>8, <1>9, <1>10, <1>11, <1>12 DEF CallExact

-----------------------------------------------------------------------------
(* Theorems.                                                               *)

\* Every step of SoundSpec keeps the invariant.
LEMMA InvStep == IInv /\ [SoundNext]_vars => IInv'
<1>1. IInv /\ SoundNext => IInv'
  BY SoundStep
<1>2. IInv /\ UNCHANGED vars => IInv'
  BY DEF IInv, At, vars
<1>3. QED BY <1>1, <1>2

\* Whatever sequence of these calls was made, wherever a copy constructor or the
\* allocator threw, exactly the cells up to last_ hold objects, each with a value,
\* and no loop used a cell against its state (vector.h:474-557, 633-759, 811-826).
THEOREM VectorWhole == SoundSpec => []Whole
<1>1. IInv => Whole
  BY InvIsWhole
<1>2. QED BY InitInv, InvStep, <1>1, PTL DEF SoundSpec

\* A call that returns has the effect of its name on the sequence of elements, and
\* one that throws leaves it as it was, or, operator=, each old or copied
\* (vector.h:474-557, 633-759, 811-826).
THEOREM VectorCallsExact == SoundSpec => CallsExact
<1>1. IInv /\ [SoundNext]_vars => [CallExact]_vars
  <2>1. SUFFICES ASSUME IInv, SoundNext PROVE CallExact
    OBVIOUS
  <2>2. ThrewExact
    BY <2>1, SoundStep
  <2>3. CASE ~vec'.threw
    BY <2>1, <2>2, <2>3, ReturnExact
  <2>4. CASE vec'.threw
    BY <2>2, <2>4 DEF ThrewExact, CallExact
  <2>5. QED BY <2>3, <2>4
<1>2. QED BY InitInv, InvStep, <1>1, PTL DEF SoundSpec, CallsExact

\* The buffer is exchanged only for a call that asks for another or does not fit,
\* and then for one at least twice as large (vector.h:474-518, 851-866).
THEOREM VectorGrowth == SoundSpec => Growth
<1>1. IInv /\ [SoundNext]_vars => [GrowthStep]_vars
  BY SoundStep
<1>2. QED BY InitInv, InvStep, <1>1, PTL DEF SoundSpec, Growth
===============================================================================
