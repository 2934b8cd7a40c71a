------------------------------ MODULE ListProofs ------------------------------
(***************************************************************************)
(* The lists stay whole through every iteration of every member, for any   *)
(* number of lists, nodes and values.                                      *)
(*                                                                         *)
(* A chain is described by next, prev and own: neighbours are in one chain *)
(* and lead back to each other (Ring), and a set that holds the sentinel   *)
(* and is closed under the links holds the whole chain (Reaches).  The     *)
(* first part shows that each way the code has of writing links (insert,   *)
(* erase, transfer, swap, reverse, the constructor, the destructor) keeps  *)
(* this, for links in general; each lemma is proved for one direction and  *)
(* holds for the other by exchanging next and prev.  The second part adds  *)
(* what the loops know at each iteration, takes the actions one by one,    *)
(* and ends with the theorems.                                             *)
(***************************************************************************)
EXTENDS List, Iteration

-----------------------------------------------------------------------------
(* Chains, for links in general.                                           *)

Links == [Cell -> Cell \cup {Nil}]

\* Along nx a cell's neighbour is a cell of the same chain, and pv leads back.
Ring(nx, pv, ow) ==
    \A c \in Cell : ow[c] # Nil =>
        nx[c] \in Cell /\ ow[nx[c]] = ow[c] /\ pv[nx[c]] = c

\* T holds the sentinel o, and the neighbour of each cell of o's chain it holds.
Closed(nx, ow, o, T) == o \in T /\ \A c \in T : ow[c] = o => nx[c] \in T

\* Every cell of a chain is met from its sentinel along nx.
Reaches(nx, ow) ==
    \A o \in Object, T \in SUBSET Cell : ow[o] = o /\ Closed(nx, ow, o, T) =>
        \A c \in Cell : ow[c] = o => c \in T

\* One direction of the chains; the other one is Half(pv, nx, ow).
Half(nx, pv, ow) == nx \in Links /\ Ring(nx, pv, ow) /\ Reaches(nx, ow)

\* A chain is named after its sentinel, which is part of it.
Owners(ow) ==
    /\ ow \in [Cell -> Object \cup {Nil}]
    /\ \A c \in Cell : ow[c] # Nil => ow[ow[c]] = ow[c]
    /\ \A o \in Object : ow[o] \in {o, Nil}

Rings(nx, pv, ow) == Owners(ow) /\ Half(nx, pv, ow) /\ Half(pv, nx, ow)

\* The two directions are alike.
LEMMA RingsSwap ==
  ASSUME NEW nx, NEW pv, NEW ow, Rings(nx, pv, ow)
  PROVE  Rings(pv, nx, ow)
BY DEF Rings

\* No node is its own neighbour: it would not be reached.
LEMMA NoSelfLoop ==
  ASSUME NEW nx, NEW pv, NEW ow, Rings(nx, pv, ow), NEW c \in Node, ow[c] # Nil
  PROVE  nx[c] # c /\ pv[c] # c
<1>0. c \in Cell /\ Object \subseteq Cell /\ c \notin Object /\ ow[c] \in Object /\ ow[ow[c]] = ow[c]
  BY Sorts DEF Rings, Owners, Cell
<1>1. Ring(nx, pv, ow) /\ Ring(pv, nx, ow) /\ Reaches(nx, ow)
  BY DEF Rings, Half
<1>2. nx[c] = c <=> pv[c] = c
  BY <1>0, <1>1 DEF Ring
<1>3. ASSUME nx[c] = c PROVE FALSE
  <2> DEFINE T == Cell \ {c}
  <2>1. ASSUME NEW d \in T, ow[d] = ow[c] PROVE nx[d] \in T
    BY <2>1, <1>0, <1>1, <1>2, <1>3 DEF Ring
  <2>2. Closed(nx, ow, ow[c], T)
    BY <2>1, <1>0 DEF Closed
  <2>3. T \in SUBSET Cell /\ c \notin T
    OBVIOUS
  <2> HIDE DEF T
  <2>4. QED BY <2>2, <2>3, <1>0, <1>1 DEF Reaches
<1>4. QED BY <1>2, <1>3

\* A sentinel that is its own neighbour is alone in its chain.
LEMMA AloneWhenLooped ==
  ASSUME NEW nx, NEW pv, NEW ow, Rings(nx, pv, ow),
         NEW o \in Object, ow[o] = o, nx[o] = o \/ pv[o] = o
  PROVE  \A c \in Cell : ow[c] = o => c = o
<1>1. Ring(nx, pv, ow) /\ Ring(pv, nx, ow) /\ Reaches(nx, ow) /\ o \in Cell /\ o # Nil
  BY Sorts DEF Rings, Half, Cell
<1>2. nx[o] = o
  BY <1>1 DEF Ring
<1>3. Closed(nx, ow, o, {o}) /\ {o} \in SUBSET Cell
  BY <1>1, <1>2 DEF Closed
<1>4. QED BY <1>1, <1>3 DEF Reaches

\* The cells of S are given to l, which may be Nil.
Given(ow, oy, S, l) ==
    oy \in [Cell -> Object \cup {Nil}] /\ \A c \in Cell : oy[c] = IF c \in S THEN l ELSE ow[c]

\* ny is nx with n between q and pos.
Inserts(nx, ny, q, n, pos) ==
    /\ ny \in Links /\ ny[n] = pos /\ ny[q] = n
    /\ \A c \in Cell : c # n /\ c # q => ny[c] = nx[c]

\* One direction of the chains after a new node is linked before pos.
LEMMA InsertHalf ==
  ASSUME NEW nx, NEW pv, NEW ow, Rings(nx, pv, ow),
         NEW pos \in Cell, ow[pos] # Nil, NEW q, q = pv[pos], NEW n \in Node, ow[n] = Nil,
         NEW ny, Inserts(nx, ny, q, n, pos), NEW py, Inserts(pv, py, pos, n, q),
         NEW oy, Given(ow, oy, {n}, ow[pos])
  PROVE  Half(ny, py, oy)
<1>0. nx \in Links /\ pv \in Links /\ Ring(nx, pv, ow) /\ Ring(pv, nx, ow) /\ Reaches(nx, ow)
  BY DEF Rings, Half
<1>1. /\ n \in Cell /\ q \in Cell /\ ow[q] = ow[pos] /\ nx[q] = pos /\ n # pos /\ n # q
      /\ n \notin Object /\ ow[pos] \in Object /\ ow[pos] # n /\ Nil \notin Cell
      /\ ow \in [Cell -> Object \cup {Nil}]
  BY <1>0, Sorts DEF Rings, Owners, Ring, Cell
<1>2. /\ ny \in Links /\ ny[n] = pos /\ ny[q] = n /\ \A c \in Cell : c # n /\ c # q => ny[c] = nx[c]
      /\ py[n] = q /\ py[pos] = n /\ \A c \in Cell : c # n /\ c # pos => py[c] = pv[c]
      /\ oy[n] = ow[pos] /\ \A c \in Cell : c # n => oy[c] = ow[c]
  BY <1>1 DEF Inserts, Given
<1>3. Ring(ny, py, oy)
  <2> SUFFICES ASSUME NEW c \in Cell, oy[c] # Nil
               PROVE  ny[c] \in Cell /\ oy[ny[c]] = oy[c] /\ py[ny[c]] = c
    BY DEF Ring
  <2>1. CASE c = n
    BY <2>1, <1>1, <1>2
  <2>2. CASE c = q
    BY <2>2, <1>1, <1>2
  <2>3. CASE c # n /\ c # q
    <3>1. ow[c] # Nil /\ ny[c] = nx[c] /\ nx[c] \in Cell /\ ow[nx[c]] = ow[c] /\ pv[nx[c]] = c
      BY <2>3, <1>0, <1>1, <1>2 DEF Ring
    <3>2. nx[c] # n /\ nx[c] # pos
      BY <3>1, <2>3, <1>1
    <3>3. QED BY <3>1, <3>2, <2>3, <1>2
  <2>4. QED BY <2>1, <2>2, <2>3
<1>4. Reaches(ny, oy)
  <2> SUFFICES ASSUME NEW o \in Object, NEW T \in SUBSET Cell, oy[o] = o, Closed(ny, oy, o, T),
                      NEW c \in Cell, oy[c] = o
               PROVE  c \in T
    BY DEF Reaches
  <2>1. ow[o] = o /\ o # n /\ o \in Cell
    BY <1>1, <1>2 DEF Cell
  <2>2. Closed(nx, ow, o, T)
    <3>1. ASSUME NEW d \in T, ow[d] = o PROVE nx[d] \in T
      <4>1. d # n /\ ny[d] \in T /\ oy[d] = o
        BY <3>1, <2>1, <1>1, <1>2, Sorts DEF Closed, Cell
      <4>2. CASE d = q
        BY <4>1, <4>2, <3>1, <1>1, <1>2 DEF Closed
      <4>3. QED BY <4>1, <4>2, <1>2
    <3>2. QED BY <3>1 DEF Closed
  <2>3. \A d \in Cell : ow[d] = o => d \in T
    BY <2>1, <2>2, <1>0 DEF Reaches
  <2>4. CASE c = n
    <3>1. ow[q] = o /\ q \in T
      BY <2>3, <2>4, <1>1, <1>2
    <3>2. QED BY <3>1, <2>4, <1>1, <1>2 DEF Closed
  <2>5. QED BY <2>3, <2>4, <1>2
<1>5. QED BY <1>2, <1>3, <1>4 DEF Half

\* Linking a new node keeps the chains whole.
LEMMA InsertRings ==
  ASSUME NEW nx, NEW pv, NEW ow, Rings(nx, pv, ow),
         NEW pos \in Cell, ow[pos] # Nil, NEW q, q = pv[pos], NEW n \in Node, ow[n] = Nil,
         NEW ny, Inserts(nx, ny, q, n, pos), NEW py, Inserts(pv, py, pos, n, q),
         NEW oy, Given(ow, oy, {n}, ow[pos])
  PROVE  Rings(ny, py, oy)
<1>1. Half(ny, py, oy)
  BY InsertHalf
<1>2. q \in Cell /\ ow[q] = ow[pos] /\ pos = nx[q] /\ Rings(pv, nx, ow)
  BY DEF Rings, Half, Ring
<1>3. Half(py, ny, oy)
  BY <1>2, InsertHalf
<1>4. Owners(oy)
  BY Sorts DEF Rings, Owners, Cell, Given
<1>5. QED BY <1>1, <1>3, <1>4 DEF Rings

\* ny is nx without c, which is between q and s.
Removes(nx, ny, q, c, s) ==
    /\ ny \in Links /\ ny[q] = s
    /\ \A d \in Cell : d # c /\ d # q => ny[d] = nx[d]

\* One direction of the chains after a node is unlinked.
LEMMA RemoveHalf ==
  ASSUME NEW nx, NEW pv, NEW ow, Rings(nx, pv, ow),
         NEW c \in Node, ow[c] # Nil, NEW q, q = pv[c], NEW s, s = nx[c],
         NEW ny, Removes(nx, ny, q, c, s), NEW py, Removes(pv, py, s, c, q),
         NEW oy, Given(ow, oy, {c}, Nil)
  PROVE  Half(ny, py, oy)
<1>0. nx \in Links /\ pv \in Links /\ Ring(nx, pv, ow) /\ Ring(pv, nx, ow) /\ Reaches(nx, ow)
  BY DEF Rings, Half
<1>1. /\ c \in Cell /\ q \in Cell /\ s \in Cell /\ ow[q] = ow[c] /\ ow[s] = ow[c]
      /\ nx[q] = c /\ pv[s] = c /\ q # c /\ s # c
      /\ c \notin Object /\ ow[c] \in Object /\ Nil \notin Cell
      /\ ow \in [Cell -> Object \cup {Nil}]
  BY <1>0, NoSelfLoop, Sorts DEF Rings, Owners, Ring, Cell
<1>2. /\ ny \in Links /\ ny[q] = s /\ \A d \in Cell : d # c /\ d # q => ny[d] = nx[d]
      /\ py[s] = q /\ \A d \in Cell : d # c /\ d # s => py[d] = pv[d]
      /\ oy[c] = Nil /\ \A d \in Cell : d # c => oy[d] = ow[d]
  BY <1>1 DEF Removes, Given
<1>3. Ring(ny, py, oy)
  <2> SUFFICES ASSUME NEW d \in Cell, oy[d] # Nil
               PROVE  ny[d] \in Cell /\ oy[ny[d]] = oy[d] /\ py[ny[d]] = d
    BY DEF Ring
  <2>1. d # c
    BY <1>2
  <2>2. CASE d = q
    BY <2>2, <1>1, <1>2
  <2>3. CASE d # q
    <3>1. ow[d] # Nil /\ ny[d] = nx[d] /\ nx[d] \in Cell /\ ow[nx[d]] = ow[d] /\ pv[nx[d]] = d
      BY <2>1, <2>3, <1>0, <1>1, <1>2 DEF Ring
    <3>2. nx[d] # c /\ nx[d] # s
      BY <3>1, <2>1, <2>3, <1>1
    <3>3. QED BY <3>1, <3>2, <2>1, <1>2
  <2>4. QED BY <2>2, <2>3
<1>4. Reaches(ny, oy)
  <2> SUFFICES ASSUME NEW o \in Object, NEW T \in SUBSET Cell, oy[o] = o, Closed(ny, oy, o, T),
                      NEW d \in Cell, oy[d] = o
               PROVE  d \in T
    BY DEF Reaches
  <2>1. ow[o] = o /\ o # c /\ o \in Cell
    BY <1>1, <1>2 DEF Cell
  <2> DEFINE U == (T \ {c}) \cup IF q \in T THEN {c} ELSE {}
  <2>2. Closed(nx, ow, o, U)
    <3>1. ASSUME NEW e \in U, ow[e] = o PROVE nx[e] \in U
      <4>1. CASE e = c
        <5>1. q \in T /\ oy[q] = o
          BY <4>1, <3>1, <1>1, <1>2
        <5>2. s \in T
          BY <5>1, <1>2 DEF Closed
        <5>3. QED BY <5>2, <4>1, <1>1
      <4>2. CASE e = q
        BY <4>2, <3>1, <1>1
      <4>3. CASE e # c /\ e # q
        <5>1. e \in Cell /\ e \in T /\ oy[e] = o /\ ny[e] = nx[e] /\ ny[e] \in T
          BY <4>3, <3>1, <1>2 DEF Closed
        <5>2. nx[e] # c
          BY <5>1, <4>3, <3>1, <2>1, <1>0, <1>1 DEF Ring
        <5>3. QED BY <5>1, <5>2
      <4>4. QED BY <4>1, <4>2, <4>3
    <3>2. o \in U
      BY <2>1 DEF Closed
    <3>3. QED BY <3>1, <3>2 DEF Closed
  <2>3. U \in SUBSET Cell
    BY <1>1
  <2>4. d # c /\ ow[d] = o
    BY <1>1, <1>2, <2>1
  <2>5. d \in U
    <3> HIDE DEF U
    <3> QED BY <2>1, <2>2, <2>3, <2>4, <1>0 DEF Reaches
  <2>6. QED BY <2>4, <2>5
<1>5. QED BY <1>2, <1>3, <1>4 DEF Half

\* Erasing a node keeps the chains whole.
LEMMA RemoveRings ==
  ASSUME NEW nx, NEW pv, NEW ow, Rings(nx, pv, ow),
         NEW c \in Node, ow[c] # Nil, NEW q, q = pv[c], NEW s, s = nx[c],
         NEW ny, Removes(nx, ny, q, c, s), NEW py, Removes(pv, py, s, c, q),
         NEW oy, Given(ow, oy, {c}, Nil)
  PROVE  Rings(ny, py, oy)
<1>1. Half(ny, py, oy)
  BY RemoveHalf
<1>2. Half(py, ny, oy)
  BY RingsSwap, RemoveHalf
<1>3. Owners(oy)
  BY Sorts DEF Rings, Owners, Cell, Given
<1>4. QED BY <1>1, <1>2, <1>3 DEF Rings

\* The nodes S make up one stretch of a chain, from f to e; b is before it and
\* t after it.
Run(nx, pv, S, b, f, e, t) ==
    /\ f \in S /\ e \in S /\ b \notin S /\ t \notin S
    /\ nx[b] = f /\ pv[f] = b /\ nx[e] = t /\ pv[t] = e
    /\ \A c \in S : (c # e => nx[c] \in S) /\ (c # f => pv[c] \in S)

\* ny is nx with the stretch from f to e cut out and put between q and pos.
Moves(nx, ny, q, b, f, e, t, pos) ==
    /\ ny \in Links /\ ny[q] = f /\ ny[b] = t /\ ny[e] = pos
    /\ \A c \in Cell : c \notin {q, b, e} => ny[c] = nx[c]

\* Who closes on the first node of a stretch closes on all of it.
LEMMA RunCovered ==
  ASSUME NEW nx, NEW pv, NEW ow, Rings(nx, pv, ow),
         NEW m \in Object, ow[m] = m,
         NEW S \in SUBSET Node, \A c \in S : ow[c] = m,
         NEW b, NEW f, NEW e, NEW t, Run(nx, pv, S, b, f, e, t),
         NEW T \in SUBSET Cell, f \in T, \A c \in S \cap T : c # e => nx[c] \in T
  PROVE  S \subseteq T
<1>0. Ring(nx, pv, ow) /\ Reaches(nx, ow) /\ m \in Cell /\ m \notin S /\ m # Nil /\ S \subseteq Cell
  BY Sorts DEF Rings, Half, Cell
<1> DEFINE U == Cell \ (S \ T)
<1>1. ASSUME NEW c \in U, ow[c] = m PROVE nx[c] \in U
  <2>1. nx[c] \in Cell /\ pv[nx[c]] = c
    BY <1>1, <1>0 DEF Ring
  <2>2. CASE c \in S
    BY <2>1, <2>2, <1>1 DEF Run
  <2>3. CASE c \notin S /\ nx[c] \in S
    BY <2>1, <2>3 DEF Run
  <2>4. QED BY <2>1, <2>2, <2>3
<1>2. Closed(nx, ow, m, U)
  BY <1>0, <1>1 DEF Closed
<1>3. U \in SUBSET Cell
  OBVIOUS
<1>4. \A c \in Cell : ow[c] = m => c \in U
  <2> HIDE DEF U
  <2> QED BY <1>0, <1>2, <1>3 DEF Reaches
<1>5. QED BY <1>0, <1>4

\* One direction of the chains after a transfer.  A set that holds the stretch
\* exactly when it holds b is closed under the old links if the set is under the new.
LEMMA MoveHalf ==
  ASSUME NEW nx, NEW pv, NEW ow, Rings(nx, pv, ow),
         NEW m \in Object, ow[m] = m,
         NEW S \in SUBSET Node, \A c \in S : ow[c] = m,
         NEW b, NEW f, NEW e, NEW t, Run(nx, pv, S, b, f, e, t),
         NEW pos \in Cell, ow[pos] # Nil, pos \notin S, pos # t, NEW q, q = pv[pos],
         NEW ny, Moves(nx, ny, q, b, f, e, t, pos), NEW py, Moves(pv, py, pos, t, e, f, b, q),
         NEW oy, Given(ow, oy, S, ow[pos])
  PROVE  Half(ny, py, oy)
<1>0. nx \in Links /\ pv \in Links /\ Ring(nx, pv, ow) /\ Ring(pv, nx, ow) /\ Reaches(nx, ow)
  BY DEF Rings, Half
<1>1. /\ S \subseteq Cell /\ S \cap Object = {} /\ m \in Cell /\ m \notin S /\ m # Nil
      /\ pos \in Cell /\ ow[pos] \in Object /\ ow[ow[pos]] = ow[pos] /\ Nil \notin Cell
      /\ Object \subseteq Cell
  BY Sorts DEF Rings, Owners, Cell
<1>2. /\ f \in S /\ e \in S /\ b \notin S /\ t \notin S
      /\ nx[b] = f /\ pv[f] = b /\ nx[e] = t /\ pv[t] = e
      /\ \A c \in S : (c # e => nx[c] \in S) /\ (c # f => pv[c] \in S)
  BY DEF Run
<1>3. /\ b \in Cell /\ t \in Cell /\ ow[b] = m /\ ow[t] = m
      /\ q \in Cell /\ ow[q] = ow[pos] /\ nx[q] = pos
  BY <1>0, <1>1, <1>2 DEF Ring
<1>4. q \notin S /\ q # b /\ q # e /\ b # e
  BY <1>1, <1>2, <1>3
<1>5. /\ ny \in Links /\ ny[q] = f /\ ny[b] = t /\ ny[e] = pos
      /\ \A c \in Cell : c # q /\ c # b /\ c # e => ny[c] = nx[c]
      /\ py[pos] = e /\ py[t] = b /\ py[f] = q
      /\ \A c \in Cell : c # pos /\ c # t /\ c # f => py[c] = pv[c]
  BY DEF Moves
<1>6. \A c \in Cell : oy[c] = IF c \in S THEN ow[pos] ELSE ow[c]
  BY DEF Given
<1>7. Ring(ny, py, oy)
  <2> SUFFICES ASSUME NEW c \in Cell, oy[c] # Nil
               PROVE  ny[c] \in Cell /\ oy[ny[c]] = oy[c] /\ py[ny[c]] = c
    BY DEF Ring
  <2>1. CASE c = q
    BY <2>1, <1>1, <1>2, <1>3, <1>4, <1>5, <1>6
  <2>2. CASE c = b
    BY <2>2, <1>1, <1>2, <1>3, <1>4, <1>5, <1>6
  <2>3. CASE c = e
    BY <2>3, <1>1, <1>2, <1>3, <1>4, <1>5, <1>6
  <2>4. CASE c # q /\ c # b /\ c # e
    <3>1. ow[c] # Nil /\ nx[c] \in Cell /\ ow[nx[c]] = ow[c] /\ pv[nx[c]] = c /\ ny[c] = nx[c]
      BY <2>4, <1>0, <1>1, <1>5, <1>6 DEF Ring
    <3>2. nx[c] # pos /\ nx[c] # t /\ nx[c] # f
      BY <3>1, <2>4, <1>2, <1>3
    <3>3. py[nx[c]] = c
      BY <3>1, <3>2, <1>5
    <3>4. c \in S <=> nx[c] \in S
      BY <3>1, <3>2, <2>4, <1>2
    <3>5. QED BY <3>1, <3>3, <3>4, <1>6
  <2>5. QED BY <2>1, <2>2, <2>3, <2>4
<1>8. Reaches(ny, oy)
  <2> SUFFICES ASSUME NEW o \in Object, NEW T \in SUBSET Cell, oy[o] = o, Closed(ny, oy, o, T),
                      NEW c \in Cell, oy[c] = o
               PROVE  c \in T
    BY DEF Reaches
  <2>1. ow[o] = o /\ o \in Cell /\ o \notin S
    BY <1>1, <1>6
  \* A set that holds the stretch when it holds b, and nothing else of it.
  <2> DEFINE U == (T \ S) \cup IF b \in T THEN S ELSE {}
  <2>2. U \in SUBSET Cell /\ o \in U
    BY <1>1, <2>1 DEF Closed
  <2>3. ASSUME ow[pos] = o, q \in T PROVE S \subseteq T /\ pos \in T
    <3>1. oy[q] = o /\ f \in T
      BY <2>3, <1>3, <1>4, <1>5, <1>6 DEF Closed
    <3>2. \A d \in S \cap T : d # e => nx[d] \in T
      <4> SUFFICES ASSUME NEW d \in S, d \in T, d # e PROVE nx[d] \in T
        OBVIOUS
      <4>1. d # q /\ d # b /\ oy[d] = o
        BY <2>3, <1>1, <1>2, <1>4, <1>6
      <4>2. QED BY <4>1, <1>1, <1>5 DEF Closed
    <3>3. S \subseteq T
      BY <3>1, <3>2, RunCovered
    <3>4. oy[e] = o /\ e \in T /\ e \in Cell
      BY <3>3, <2>3, <1>1, <1>2, <1>6
    <3>5. QED BY <3>3, <3>4, <1>5 DEF Closed
  <2>4. ASSUME NEW d \in U, ow[d] = o PROVE nx[d] \in U
    <3>1. CASE d = q
      <4>1. ow[pos] = o /\ q \in T /\ pos \notin S
        BY <3>1, <2>4, <1>3, <1>4
      <4>2. QED BY <4>1, <3>1, <2>3, <1>3
    <3>2. CASE d = b
      BY <3>2, <2>4, <1>2
    <3>3. CASE d \in S
      <4>1. b \in T /\ m = o /\ oy[b] = o
        BY <3>3, <2>4, <1>2, <1>3, <1>6
      <4>2. t \in T
        BY <4>1, <1>3, <1>5 DEF Closed
      <4>3. QED BY <4>1, <4>2, <3>3, <1>2
    <3>4. CASE d \notin S /\ d # q /\ d # b
      <4>1. d \in T /\ d # e /\ oy[d] = o /\ d \in Cell
        BY <3>4, <2>4, <1>2, <1>6
      <4>2. ny[d] = nx[d] /\ nx[d] \in T /\ pv[nx[d]] = d
        BY <4>1, <3>4, <2>4, <2>1, <1>0, <1>1, <1>5 DEF Closed, Ring
      <4>3. nx[d] \notin S
        BY <4>2, <3>4, <1>2
      <4>4. QED BY <4>2, <4>3
    <3>5. QED BY <3>1, <3>2, <3>3, <3>4
  <2>5. \A d \in Cell : ow[d] = o => d \in U
    <3>1. Closed(nx, ow, o, U)
      BY <2>2, <2>4 DEF Closed
    <3> HIDE DEF U
    <3> QED BY <3>1, <2>1, <2>2, <1>0 DEF Reaches
  <2>6. CASE c \in S
    <3>1. ow[pos] = o /\ q \in T
      BY <2>5, <2>6, <1>3, <1>4, <1>6
    <3>2. QED BY <3>1, <2>3, <2>6
  <2>7. CASE c \notin S
    BY <2>5, <2>7, <1>6
  <2>8. QED BY <2>6, <2>7
<1>9. QED BY <1>5, <1>7, <1>8 DEF Half

\* transfer keeps the chains whole, within one list and from one to another.
LEMMA MoveRings ==
  ASSUME NEW nx, NEW pv, NEW ow, Rings(nx, pv, ow),
         NEW m \in Object, ow[m] = m,
         NEW S \in SUBSET Node, \A c \in S : ow[c] = m,
         NEW b, NEW f, NEW e, NEW t, Run(nx, pv, S, b, f, e, t),
         NEW pos \in Cell, ow[pos] # Nil, pos \notin S, pos # t, NEW q, q = pv[pos],
         NEW ny, Moves(nx, ny, q, b, f, e, t, pos), NEW py, Moves(pv, py, pos, t, e, f, b, q),
         NEW oy, Given(ow, oy, S, ow[pos])
  PROVE  Rings(ny, py, oy)
<1>1. Half(ny, py, oy)
  BY MoveHalf
<1>2. q \in Cell /\ ow[q] = ow[pos] /\ pos = nx[q] /\ Rings(pv, nx, ow)
  BY DEF Rings, Half, Ring
<1>3. Run(pv, nx, S, t, e, f, b)
  BY DEF Run
<1>4. q \notin S /\ q # b
  <2>1. Ring(nx, pv, ow) /\ Ring(pv, nx, ow)
    BY DEF Rings, Half
  <2>2. QED BY <1>2, <2>1 DEF Run, Ring
<1>5. Half(py, ny, oy)
  BY <1>2, <1>3, <1>4, MoveHalf
<1>6. Owners(oy)
  <2>1. ow[pos] \in Object /\ ow[ow[pos]] = ow[pos] /\ S \cap Object = {} /\ Object \subseteq Cell
    BY Sorts DEF Rings, Owners, Cell
  <2>2. Owners(ow)
    BY DEF Rings
  <2>3. QED BY <2>1, <2>2, Sorts DEF Owners, Given, Cell
<1>7. QED BY <1>1, <1>5, <1>6 DEF Rings

\* The cell that takes the place of c when the sentinels o and p change names.
Other(o, p, c) == IF c = o THEN p ELSE IF c = p THEN o ELSE c

\* ny is nx (or the owners) with the sentinels o and p renamed.
Renames(nx, ny, o, p) == \A c \in Cell : ny[c] = Other(o, p, nx[Other(o, p, c)])

\* Renaming two sentinels is its own inverse and leaves nodes and Nil alone.
LEMMA OtherFacts ==
  ASSUME NEW o \in Object, NEW p \in Object
  PROVE  /\ \A c : Other(o, p, Other(o, p, c)) = c
         /\ \A c \in Cell : Other(o, p, c) \in Cell
         /\ \A c \in Object : Other(o, p, c) \in Object
         /\ \A c \in Node : Other(o, p, c) = c
         /\ \A c : Other(o, p, c) = Nil <=> c = Nil
BY Sorts DEF Other, Cell

\* One direction of the chains after swap.
LEMMA ExchangeHalf ==
  ASSUME NEW nx, NEW pv, NEW ow, Rings(nx, pv, ow), NEW o \in Object, NEW p \in Object,
         NEW ny \in Links, Renames(nx, ny, o, p), NEW py, Renames(pv, py, o, p),
         NEW oy, Renames(ow, oy, o, p)
  PROVE  Half(ny, py, oy)
<1> DEFINE N(c) == Other(o, p, c)
<1>0. nx \in Links /\ Ring(nx, pv, ow) /\ Reaches(nx, ow) /\ Object \subseteq Cell
  BY DEF Rings, Half, Cell
<1>1. /\ \A c : N(N(c)) = c
      /\ \A c \in Cell : N(c) \in Cell
      /\ \A c \in Object : N(c) \in Object
      /\ \A c : N(c) = Nil <=> c = Nil
  BY OtherFacts
<1>2. \A c \in Cell : ny[c] = N(nx[N(c)]) /\ py[c] = N(pv[N(c)]) /\ oy[c] = N(ow[N(c)])
  BY DEF Renames
<1> HIDE DEF N
<1>3. Ring(ny, py, oy)
  <2> SUFFICES ASSUME NEW c \in Cell, oy[c] # Nil
               PROVE  ny[c] \in Cell /\ oy[ny[c]] = oy[c] /\ py[ny[c]] = c
    BY DEF Ring
  <2>1. N(c) \in Cell /\ ow[N(c)] # Nil
    BY <1>1, <1>2
  <2>2. nx[N(c)] \in Cell /\ ow[nx[N(c)]] = ow[N(c)] /\ pv[nx[N(c)]] = N(c)
    BY <2>1, <1>0 DEF Ring
  <2>3. ny[c] = N(nx[N(c)]) /\ ny[c] \in Cell /\ N(ny[c]) = nx[N(c)]
    BY <2>2, <1>1, <1>2
  <2>4. QED BY <2>2, <2>3, <1>1, <1>2
<1>4. Reaches(ny, oy)
  <2> SUFFICES ASSUME NEW r \in Object, NEW T \in SUBSET Cell, oy[r] = r, Closed(ny, oy, r, T),
                      NEW c \in Cell, oy[c] = r
               PROVE  c \in T
    BY DEF Reaches
  <2> DEFINE U == {d \in Cell : N(d) \in T}
  <2>1. N(r) \in Object /\ N(r) \in Cell /\ r \in Cell /\ ow[N(r)] = N(r) /\ N(r) \in U
    BY <1>0, <1>1, <1>2 DEF Closed
  <2>2. ASSUME NEW d \in U, ow[d] = N(r) PROVE nx[d] \in U
    <3>1. N(d) \in T /\ N(d) \in Cell /\ oy[N(d)] = r
      BY <2>2, <1>1, <1>2
    <3>2. ny[N(d)] \in T /\ ny[N(d)] = N(nx[d])
      BY <3>1, <1>1, <1>2 DEF Closed
    <3>3. nx[d] \in Cell
      BY <2>1, <2>2, <1>0, <1>1, Sorts DEF Ring, Cell
    <3>4. QED BY <3>2, <3>3
  <2>3. Closed(nx, ow, N(r), U)
    BY <2>1, <2>2 DEF Closed
  <2>4. N(c) \in Cell /\ ow[N(c)] = N(r)
    BY <1>1, <1>2
  <2>5. N(c) \in U
    <3>1. U \in SUBSET Cell
      OBVIOUS
    <3> HIDE DEF U
    <3> QED BY <3>1, <2>1, <2>3, <2>4, <1>0 DEF Reaches
  <2>6. QED BY <2>5, <1>1
<1>5. QED BY <1>3, <1>4 DEF Half

\* swap keeps the chains whole.
LEMMA ExchangeRings ==
  ASSUME NEW nx, NEW pv, NEW ow, Rings(nx, pv, ow), NEW o \in Object, NEW p \in Object,
         NEW ny \in Links, Renames(nx, ny, o, p), NEW py \in Links, Renames(pv, py, o, p),
         NEW oy \in [Cell -> Object \cup {Nil}], Renames(ow, oy, o, p)
  PROVE  Rings(ny, py, oy)
<1>1. Half(ny, py, oy) /\ Half(py, ny, oy)
  BY RingsSwap, ExchangeHalf
<1>2. Owners(oy)
  <2>1. Owners(ow) /\ Object \subseteq Cell
    BY DEF Rings, Cell
  <2>2. \A c \in Cell : oy[c] # Nil => oy[oy[c]] = oy[c]
    BY <2>1, OtherFacts, Sorts DEF Owners, Renames
  <2>3. \A r \in Object : oy[r] \in {r, Nil}
    BY <2>1, OtherFacts, Sorts DEF Owners, Renames
  <2>4. QED BY <2>2, <2>3 DEF Owners
<1>3. QED BY <1>1, <1>2 DEF Rings

\* ny is nx with the links of the cells of S taken from pv.
Turns(nx, pv, ny, S) ==
    ny \in Links /\ \A c \in Cell : ny[c] = IF c \in S THEN pv[c] ELSE nx[c]

\* One direction of the chains after reverse.
LEMMA ReverseHalf ==
  ASSUME NEW nx, NEW pv, NEW ow, Rings(nx, pv, ow), NEW l \in Object,
         NEW S, S = {c \in Cell : ow[c] = l},
         NEW ny, Turns(nx, pv, ny, S), NEW py, Turns(pv, nx, py, S)
  PROVE  Half(ny, py, ow)
<1>1. Half(nx, pv, ow) /\ Half(pv, nx, ow)
  BY DEF Rings
<1>2. Ring(ny, py, ow)
  BY <1>1 DEF Half, Ring, Turns
<1>3. Reaches(ny, ow)
  <2> SUFFICES ASSUME NEW o \in Object, NEW T \in SUBSET Cell, ow[o] = o, Closed(ny, ow, o, T),
                      NEW c \in Cell, ow[c] = o
               PROVE  c \in T
    BY DEF Reaches
  <2>1. CASE o = l
    <3>1. Closed(pv, ow, o, T)
      BY <2>1 DEF Closed, Turns
    <3>2. QED BY <3>1, <1>1 DEF Half, Reaches
  <2>2. CASE o # l
    <3>1. Closed(nx, ow, o, T)
      BY <2>2 DEF Closed, Turns
    <3>2. QED BY <3>1, <1>1 DEF Half, Reaches
  <2>3. QED BY <2>1, <2>2
<1>4. QED BY <1>2, <1>3 DEF Half, Turns

\* reverse keeps the chains whole.
LEMMA ReverseRings ==
  ASSUME NEW nx, NEW pv, NEW ow, Rings(nx, pv, ow), NEW l \in Object,
         NEW S, S = {c \in Cell : ow[c] = l},
         NEW ny, Turns(nx, pv, ny, S), NEW py, Turns(pv, nx, py, S)
  PROVE  Rings(ny, py, ow)
<1>1. Half(ny, py, ow) /\ Half(py, ny, ow)
  BY RingsSwap, ReverseHalf
<1>2. QED BY <1>1 DEF Rings

\* ny is nx with the cells of S linked to themselves.
Loops(nx, ny, S) ==
    \A c \in Cell : ny[c] = IF c \in S THEN c ELSE nx[c]

\* One direction of the chains after sentinels are linked to themselves.
LEMMA ConstructHalf ==
  ASSUME NEW nx, NEW pv, NEW ow, Rings(nx, pv, ow), NEW S \in SUBSET Object,
         \A c \in Cell : ow[c] \in S => c = ow[c],
         NEW ny \in Links, Loops(nx, ny, S), NEW py, Loops(pv, py, S), NEW oy, Loops(ow, oy, S)
  PROVE  Half(ny, py, oy)
<1>0. Ring(nx, pv, ow) /\ Ring(pv, nx, ow) /\ Reaches(nx, ow) /\ Object \subseteq Cell /\ Nil \notin Cell
  BY Sorts DEF Rings, Half, Cell
<1>1. Owners(ow)
  BY DEF Rings
<1>2. \A c \in Cell : oy[c] \in S => c = oy[c]
  BY DEF Loops
<1>3. Ring(ny, py, oy)
  <2> SUFFICES ASSUME NEW c \in Cell, oy[c] # Nil
               PROVE  ny[c] \in Cell /\ oy[ny[c]] = oy[c] /\ py[ny[c]] = c
    BY DEF Ring
  <2>1. CASE c \in S
    BY <2>1 DEF Loops
  <2>2. CASE c \notin S
    <3>1. ow[c] # Nil /\ nx[c] \in Cell /\ ow[nx[c]] = ow[c] /\ pv[nx[c]] = c /\ ny[c] = nx[c]
      BY <2>2, <1>0 DEF Ring, Loops
    <3>2. nx[c] \notin S
      <4>1. SUFFICES ASSUME nx[c] \in S PROVE FALSE
        OBVIOUS
      <4>2. ow[nx[c]] = nx[c]
        BY <4>1, <3>1, <1>1 DEF Owners
      <4>3. QED BY <4>1, <4>2, <3>1, <2>2
    <3>3. QED BY <3>1, <3>2, <2>2 DEF Loops
  <2>3. QED BY <2>1, <2>2
<1>4. Reaches(ny, oy)
  <2> SUFFICES ASSUME NEW o \in Object, NEW T \in SUBSET Cell, oy[o] = o, Closed(ny, oy, o, T),
                      NEW c \in Cell, oy[c] = o
               PROVE  c \in T
    BY DEF Reaches
  <2>1. CASE o \in S
    BY <2>1, <1>2 DEF Closed
  <2>2. CASE o \notin S
    <3>1. ow[o] = o /\ ow[c] = o
      BY <2>2, <1>0 DEF Loops
    <3>2. Closed(nx, ow, o, T)
      <4>1. ASSUME NEW d \in T, ow[d] = o PROVE nx[d] \in T
        <5>1. d \notin S
          BY <4>1, <2>2, <1>0, <1>1 DEF Owners
        <5>2. oy[d] = o /\ ny[d] = nx[d]
          BY <4>1, <5>1 DEF Loops
        <5>3. QED BY <5>2 DEF Closed
      <4>2. QED BY <4>1 DEF Closed
    <3>3. QED BY <3>1, <3>2, <1>0 DEF Reaches
  <2>3. QED BY <2>1, <2>2
<1>5. QED BY <1>3, <1>4 DEF Half

\* The construction of sentinels whose chains are empty keeps the chains whole.
LEMMA ConstructRings ==
  ASSUME NEW nx, NEW pv, NEW ow, Rings(nx, pv, ow), NEW S \in SUBSET Object,
         \A c \in Cell : ow[c] \in S => c = ow[c],
         NEW ny \in Links, Loops(nx, ny, S), NEW py \in Links, Loops(pv, py, S),
         NEW oy \in [Cell -> Object \cup {Nil}], Loops(ow, oy, S)
  PROVE  Rings(ny, py, oy)
<1>1. Half(ny, py, oy) /\ Half(py, ny, oy)
  BY RingsSwap, ConstructHalf
<1>2. Owners(oy)
  <2>1. Owners(ow) /\ Object \subseteq Cell /\ Nil \notin Object
    BY Sorts DEF Rings, Cell
  <2>2. ASSUME NEW c \in Cell, oy[c] # Nil PROVE oy[oy[c]] = oy[c]
    BY <2>1, <2>2 DEF Owners, Loops
  <2>3. \A o \in Object : oy[o] \in {o, Nil}
    BY <2>1 DEF Owners, Loops
  <2>4. QED BY <2>2, <2>3 DEF Owners
<1>3. QED BY <1>1, <1>2 DEF Rings

\* Of the cells in a chain, ny links all but o as nx does.
Drops(nx, ny, ow, o) == \A c \in Cell : c # o /\ ow[c] # Nil => ny[c] = nx[c]

\* The sentinel o is nobody's any more.
Dropped(ow, oy, o) == \A c \in Cell : oy[c] = IF c = o THEN Nil ELSE ow[c]

\* One direction of the chains after a sentinel is given up.
LEMMA DropHalf ==
  ASSUME NEW nx, NEW pv, NEW ow, Rings(nx, pv, ow), NEW o \in Object,
         \A c \in Cell : ow[c] = o => c = o,
         NEW ny \in Links, Drops(nx, ny, ow, o), NEW py, Drops(pv, py, ow, o),
         NEW oy, Dropped(ow, oy, o)
  PROVE  Half(ny, py, oy)
<1>0. Ring(nx, pv, ow) /\ Reaches(nx, ow) /\ Object \subseteq Cell /\ Nil \notin Cell /\ Owners(ow)
  BY Sorts DEF Rings, Half, Cell
<1>1. Ring(ny, py, oy)
  <2> SUFFICES ASSUME NEW c \in Cell, oy[c] # Nil
               PROVE  ny[c] \in Cell /\ oy[ny[c]] = oy[c] /\ py[ny[c]] = c
    BY DEF Ring
  <2>1. c # o /\ ow[c] # Nil /\ ny[c] = nx[c] /\ oy[c] = ow[c]
    BY DEF Drops, Dropped
  <2>2. nx[c] \in Cell /\ ow[nx[c]] = ow[c] /\ pv[nx[c]] = c
    BY <2>1, <1>0 DEF Ring
  <2>3. nx[c] # o
    BY <2>1, <2>2, <1>0 DEF Owners
  <2>4. QED BY <2>1, <2>2, <2>3 DEF Drops, Dropped
<1>2. Reaches(ny, oy)
  <2> SUFFICES ASSUME NEW r \in Object, NEW T \in SUBSET Cell, oy[r] = r, Closed(ny, oy, r, T),
                      NEW c \in Cell, oy[c] = r
               PROVE  c \in T
    BY DEF Reaches
  <2>1. r # o /\ c # o /\ ow[r] = r /\ ow[c] = r
    BY <1>0 DEF Dropped
  <2>2. ASSUME NEW d \in T, ow[d] = r PROVE nx[d] \in T
    <3>1. d # o
      BY <2>1, <2>2, <1>0 DEF Owners
    <3>2. QED BY <3>1, <2>1, <2>2, <1>0 DEF Drops, Dropped, Closed
  <2>3. Closed(nx, ow, r, T)
    BY <2>2 DEF Closed
  <2>4. QED BY <2>1, <2>3, <1>0 DEF Reaches
<1>3. QED BY <1>1, <1>2 DEF Half

\* A sentinel alone in its chain can be given up.
LEMMA DropRings ==
  ASSUME NEW nx, NEW pv, NEW ow, Rings(nx, pv, ow), NEW o \in Object,
         \A c \in Cell : ow[c] = o => c = o,
         NEW ny \in Links, Drops(nx, ny, ow, o), NEW py \in Links, Drops(pv, py, ow, o),
         NEW oy \in [Cell -> Object \cup {Nil}], Dropped(ow, oy, o)
  PROVE  Rings(ny, py, oy)
<1>1. Half(ny, py, oy) /\ Half(py, ny, oy)
  BY RingsSwap, DropHalf
<1>2. Owners(oy)
  <2>1. Owners(ow) /\ Object \subseteq Cell /\ Nil \notin Object
    BY Sorts DEF Rings, Cell
  <2>2. ASSUME NEW c \in Cell, oy[c] # Nil PROVE oy[oy[c]] = oy[c]
    <3>1. c # o /\ oy[c] = ow[c] /\ ow[c] # o /\ ow[c] \in Cell
      BY <2>1, <2>2 DEF Owners, Dropped
    <3>2. QED BY <3>1, <2>1, <2>2 DEF Owners, Dropped
  <2>3. \A r \in Object : oy[r] \in {r, Nil}
    BY <2>1 DEF Owners, Dropped
  <2>4. QED BY <2>2, <2>3 DEF Owners
<1>3. QED BY <1>1, <1>2 DEF Rings

-----------------------------------------------------------------------------
(* The inductive invariant.                                                *)

\* The links, and the values the nodes of chains hold.
Shape ==
    /\ data \in [Node -> Value \cup {Nil}]
    /\ \A n \in Node : own[n] # Nil => data[n] # Nil
    /\ Rings(next, prev, own)

\* The chain of o is the sentinel alone.
Alone(o) == \A c \in Cell : own[c] = o => c = o

\* The lists a member constructs for itself.
Local == {Carry} \cup Counter

\* How many nodes a chain has.
Size(o) == Cardinality(Members(o))

\* The types of the cursors.
RegsOK ==
    /\ x \in Cell \cup {Nil} /\ y \in Cell \cup {Nil} /\ i \in Nat /\ fill \in 0..Fills
    /\ at \in {"idle", "clear", "take_over", "fill", "range", "remove", "unique", "merge",
               "deal", "carry", "carried", "settle", "settled"}

\* Between calls the local lists are empty and the counters are at rest.
IdleInv == at = "idle" => i = 0 /\ fill = 0 /\ back = "idle" /\ \A o \in Local : Alone(o)

\* clear: x is the first node left, and the call that cleared has what it needs next.
ClearInv == at = "clear" =>
    /\ y \in Object /\ own[y] = y /\ x = next[y]
    /\ call.op \in {"clear", "assign", "assign_range", "move", "copy"}
    /\ IF call.op = "copy" THEN y = Carry ELSE y = call.l /\ call.l \in List
    /\ call.op = "assign" => call.v \in Value
    /\ call.op \in {"assign_range", "move"} => call.m \in List /\ own[call.m] = call.m
    /\ call.op = "assign_range" => call.m # call.l
    /\ \A o \in Local \ {y} : Alone(o)

\* The move assignment: the list assigned to has nothing left.
TakeOverInv == at = "take_over" =>
    /\ call.l \in List /\ call.m \in List /\ own[call.m] = call.m /\ Alone(call.l)
    /\ \A o \in Local : Alone(o)

\* insert(pos, n, v): the place is in a list of the caller.
FillInv == at = "fill" =>
    /\ y \in Cell /\ own[y] \in List /\ call.v \in Value
    /\ \A o \in Local : Alone(o)

\* insert(pos, first, last): the source and the place are in different chains.
RangeInv == at = "range" =>
    /\ call.m \in List /\ x \in Cell /\ own[x] = call.m /\ y \in Cell /\ own[y] \in Object
    /\ own[y] # call.m
    /\ IF call.op = "copy" THEN call.l \in List /\ y = Carry /\ own[y] = Carry
                           ELSE own[y] \in List
    /\ \A o \in Local \ {y} : Alone(o)

\* remove and unique: the cursor is in the list.
ReadInv == at \in {"remove", "unique"} =>
    /\ call.l \in List /\ x \in Cell /\ own[x] = call.l
    /\ at = "unique" => x \in Node
    /\ \A o \in Local : Alone(o)

\* merge: two lists, x in one, and y the first node left in the other.
MergeInv == at = "merge" =>
    /\ Into \in Object /\ From \in Object /\ Into # From
    /\ x \in Cell /\ own[x] = Into /\ own[From] = From /\ y = next[From]
    /\ call.op = "merge" => /\ call.l \in List /\ call.m \in List /\ back = "idle"
                            /\ \A o \in Local : Alone(o)
    /\ call.op # "merge" => back \in {"carried", "settled"}

\* sort deals...
Dealt == at \in {"deal", "carry", "carried"} \/ (at = "merge" /\ call.op # "merge" /\ back = "carried")
\* ... or settles.
Settles == at \in {"settle", "settled"} \/ (at = "merge" /\ call.op # "merge" /\ back = "settled")

\* sort: the counters from fill on are empty.
SortInv == Dealt \/ Settles =>
    /\ call.op = "sort" /\ call.l \in List /\ own[call.l] = call.l
    /\ \A o \in Local : own[o] = o
    /\ \A k \in Counter : k >= fill => Alone(k)

\* While sort deals, counter k is empty or holds 2^k nodes at least, which is why
\* the counters never run out.
DealInv == Dealt =>
    /\ \A k \in Counter : k < fill => Alone(k) \/ Size(k) >= 2^k
    /\ at = "deal" => Alone(Carry) /\ (fill = 0 => next[call.l] # call.l)
    /\ at = "carry" => i <= fill /\ Size(Carry) >= 2^i
    /\ at \in {"merge", "carried"} =>
            i < fill /\ Cardinality(Members(i) \cup Members(Carry)) >= 2^(i + 1)
    /\ at = "merge" => Size(i) >= 2^i
    /\ at = "carried" => Alone(Carry)

\* While sort settles, the nodes are in counters from i - 1 on.
SettleInv == Settles =>
    /\ Alone(call.l) /\ Alone(Carry)
    /\ i \in 1..fill
    /\ \A k \in Counter : k < i - 1 => Alone(k)
    /\ at # "settle" => i < fill
    /\ at = "settled" => Alone(i - 1)

\* The inductive invariant.
IInv ==
    /\ Shape /\ RegsOK /\ IdleInv /\ ClearInv /\ TakeOverInv /\ FillInv /\ RangeInv
    /\ ReadInv /\ MergeInv /\ SortInv /\ DealInv /\ SettleInv

-----------------------------------------------------------------------------
(* What the operations on links do to Shape.                               *)

\* What Shape says of a cell in a chain: its neighbours are cells of the chain.
LEMMA ShapeFacts ==
  ASSUME Shape
  PROVE  /\ next \in Links /\ prev \in Links /\ own \in [Cell -> Object \cup {Nil}]
         /\ Object \subseteq Cell /\ Node \subseteq Cell /\ Nil \notin Cell /\ Node \cap Object = {}
         /\ \A c \in Cell : own[c] # Nil =>
                /\ own[c] \in Object /\ own[own[c]] = own[c]
                /\ next[c] \in Cell /\ own[next[c]] = own[c] /\ prev[next[c]] = c
                /\ prev[c] \in Cell /\ own[prev[c]] = own[c] /\ next[prev[c]] = c
                /\ c \in Node => next[c] # c /\ prev[c] # c
         /\ \A o \in Object : own[o] \in {o, Nil}
<1>1. Rings(next, prev, own)
  BY DEF Shape
<1>2. \A c \in Node : own[c] # Nil => next[c] # c /\ prev[c] # c
  BY <1>1, NoSelfLoop
<1>3. QED BY <1>1, <1>2, Sorts DEF Rings, Half, Ring, Owners, Cell

\* insert and emplace.
LEMMA LinkStep ==
  ASSUME Shape, NEW pos \in Cell, own[pos] # Nil, NEW n \in Node, own[n] = Nil, NEW v \in Value,
         Link(pos, n, v)
  PROVE  /\ Shape'
         /\ \A c \in Cell : own'[c] = IF c = n THEN own[pos] ELSE own[c]
         /\ \A c \in Cell : c # n /\ c # prev[pos] => next'[c] = next[c]
<1>1. /\ prev[pos] \in Cell /\ own[prev[pos]] = own[pos] /\ n \in Cell /\ n # pos /\ n # prev[pos]
      /\ own[pos] \in Object /\ v # Nil
      /\ next \in Links /\ prev \in Links /\ own \in [Cell -> Object \cup {Nil}]
  BY ShapeFacts, Sorts
<1>2. Inserts(next, next', prev[pos], n, pos) /\ Inserts(prev, prev', pos, n, prev[pos])
  BY <1>1 DEF Link, Inserts, Links
<1>3. Given(own, own', {n}, own[pos])
  BY <1>1 DEF Link, Given
<1>4. Rings(next', prev', own')
  BY <1>1, <1>2, <1>3, InsertRings DEF Shape
<1>5. data' \in [Node -> Value \cup {Nil}] /\ \A m \in Node : own'[m] # Nil => data'[m] # Nil
  BY <1>1, <1>3, Sorts DEF Shape, Link, Given, Cell
<1>6. QED BY <1>2, <1>3, <1>4, <1>5 DEF Shape, Inserts, Given

\* erase(pos).
LEMMA UnlinkStep ==
  ASSUME Shape, NEW c \in Node, own[c] # Nil, Unlink(c)
  PROVE  /\ Shape'
         /\ \A d \in Cell : own'[d] = IF d = c THEN Nil ELSE own[d]
         /\ next'[prev[c]] = next[c]
         /\ \A d \in Cell : d # c /\ d # prev[c] => next'[d] = next[d]
<1>1. /\ prev[c] \in Cell /\ next[c] \in Cell /\ c \in Cell /\ prev[c] # c /\ next[c] # c
      /\ next[prev[c]] = c /\ prev[next[c]] = c
      /\ next \in Links /\ prev \in Links /\ own \in [Cell -> Object \cup {Nil}]
  BY ShapeFacts
<1>2. Removes(next, next', prev[c], c, next[c]) /\ Removes(prev, prev', next[c], c, prev[c])
  BY <1>1 DEF Unlink, Removes, Links
<1>3. Given(own, own', {c}, Nil)
  BY <1>1 DEF Unlink, Given
<1>4. Rings(next', prev', own')
  BY <1>1, <1>2, <1>3, RemoveRings DEF Shape
<1>5. data' \in [Node -> Value \cup {Nil}] /\ \A m \in Node : own'[m] # Nil => data'[m] # Nil
  BY <1>1, <1>3, Sorts DEF Shape, Unlink, Given, Cell
<1>6. QED BY <1>2, <1>3, <1>4, <1>5 DEF Shape, Removes, Given

\* A run of nodes ends just before last, and begins after a cell outside it.
LEMMA RunFacts ==
  ASSUME Shape, NEW m \in Object, own[m] = m, NEW S \in SUBSET Members(m),
         NEW first, NEW last \in Positions(m), IsRun(S, first, last)
  PROVE  /\ Run(next, prev, S, prev[first], first, prev[last], last)
         /\ first \in Cell /\ own[first] = m
<1>1. /\ first \in S /\ last \notin S /\ S \subseteq Cell /\ m \notin S /\ m \in Cell /\ m # Nil
      /\ last \in Cell /\ own[last] = m
      /\ \A c \in S : own[c] = m /\ next[c] \in S \cup {last} /\ (c # first => prev[c] \in S)
  BY Sorts DEF IsRun, Members, Positions, Cell
<1>2. /\ \A c \in Cell : own[c] = m =>
            /\ next[c] \in Cell /\ own[next[c]] = m /\ prev[next[c]] = c
            /\ prev[c] \in Cell /\ own[prev[c]] = m /\ next[prev[c]] = c
  BY <1>1, ShapeFacts
<1>3. Reaches(next, own) /\ Reaches(prev, own)
  BY DEF Shape, Rings, Half
<1> DEFINE U == Cell \ S
<1>4. U \in SUBSET Cell /\ m \in U
  BY <1>1
<1>5. prev[first] \notin S
  <2>1. SUFFICES ASSUME prev[first] \in S PROVE FALSE
    OBVIOUS
  <2>2. ASSUME NEW c \in U, own[c] = m PROVE next[c] \in U
    BY <2>1, <2>2, <1>1, <1>2
  <2>3. Closed(next, own, m, U)
    BY <2>2, <1>4 DEF Closed
  <2>4. QED
    <3>1. first \in U
      <4> HIDE DEF U
      <4> QED BY <2>3, <1>1, <1>3, <1>4 DEF Reaches
    <3>2. QED BY <3>1, <1>1
<1>6. prev[last] \in S
  <2>1. SUFFICES ASSUME prev[last] \notin S PROVE FALSE
    OBVIOUS
  <2>2. ASSUME NEW c \in U, own[c] = m PROVE prev[c] \in U
    BY <2>1, <2>2, <1>1, <1>2
  <2>3. Closed(prev, own, m, U)
    BY <2>2, <1>4 DEF Closed
  <2>4. QED
    <3>1. first \in U
      <4> HIDE DEF U
      <4> QED BY <2>3, <1>1, <1>3, <1>4 DEF Reaches
    <3>2. QED BY <3>1, <1>1
<1>7. \A c \in S : c # prev[last] => next[c] \in S
  BY <1>1, <1>2
<1>8. QED BY <1>1, <1>2, <1>5, <1>6, <1>7 DEF Run

\* transfer, wherever it is called.
LEMMA TransferStep ==
  ASSUME Shape, NEW m \in Object, own[m] = m, NEW S \in SUBSET Members(m),
         NEW first, NEW last \in Positions(m), IsRun(S, first, last),
         NEW pos \in Cell, own[pos] # Nil, pos \notin S, pos # last,
         Transfer(pos, first, last, S)
  PROVE  /\ Shape'
         /\ \A c \in Cell : own'[c] = IF c \in S THEN own[pos] ELSE own[c]
         /\ next'[prev[first]] = last
<1> DEFINE b == prev[first]
           e == prev[last]
           q == prev[pos]
<1>1. Run(next, prev, S, b, first, e, last) /\ first \in Cell /\ own[first] = m /\ m # Nil /\ m \in Cell
  BY RunFacts, Sorts DEF Cell
<1>2. last \in Cell /\ own[last] = m /\ S \subseteq Node /\ \A c \in S : own[c] = m
  BY <1>1, ShapeFacts DEF Positions, Members, Cell
<1>3. /\ b \in Cell /\ e \in Cell /\ q \in Cell /\ own[pos] \in Object
      /\ next[b] = first /\ next[e] = last /\ next[q] = pos
      /\ next \in Links /\ prev \in Links /\ own \in [Cell -> Object \cup {Nil}]
  BY <1>1, <1>2, ShapeFacts
<1>4. first \in S /\ last \notin S /\ first # pos /\ first # last /\ pos # last
  BY <1>1 DEF Run
<1>5. q # b /\ q # e /\ b # e
  BY <1>3, <1>4
<1>6. Moves(next, next', q, b, first, e, last, pos)
  BY <1>1, <1>2, <1>3, <1>4, <1>5 DEF Transfer, Moves, Links
<1>7. Moves(prev, prev', pos, last, e, first, b, q)
  BY <1>1, <1>2, <1>3, <1>4, <1>5 DEF Transfer, Moves, Links
<1>8. Given(own, own', S, own[pos])
  BY <1>3 DEF Transfer, Given
<1> HIDE DEF b, e, q
<1>9. Rings(next', prev', own')
  BY <1>1, <1>2, <1>3, <1>6, <1>7, <1>8, MoveRings DEF Shape, q
<1>10. data' \in [Node -> Value \cup {Nil}] /\ \A n \in Node : own'[n] # Nil => data'[n] # Nil
  BY <1>1, <1>2, <1>8, Sorts DEF Shape, Transfer, Given, Cell
<1>11. QED BY <1>6, <1>8, <1>9, <1>10 DEF Shape, Moves, Given, b

\* swap, the two that sort and operator= run included.
LEMMA ExchangeStep ==
  ASSUME Shape, NEW o \in Object, NEW p \in Object, Exchange(o, p)
  PROVE  /\ Shape'
         /\ \A c \in Cell : own'[c] = Other(o, p, own[Other(o, p, c)])
<1>1. /\ next \in Links /\ prev \in Links /\ own \in [Cell -> Object \cup {Nil}]
      /\ Node \subseteq Cell /\ Object \subseteq Cell
  BY ShapeFacts
<1>2. /\ next' = [c \in Cell |-> Other(o, p, next[Other(o, p, c)])]
      /\ prev' = [c \in Cell |-> Other(o, p, prev[Other(o, p, c)])]
      /\ own' = [c \in Cell |-> Other(o, p, own[Other(o, p, c)])]
      /\ data' = data
  BY DEF Exchange, Other
<1>3. /\ \A c \in Cell : Other(o, p, c) \in Cell
      /\ \A c \in Object : Other(o, p, c) \in Object
      /\ \A c \in Node : Other(o, p, c) = c
      /\ \A c : Other(o, p, c) = Nil <=> c = Nil
  BY OtherFacts
<1>4. next' \in Links /\ prev' \in Links /\ own' \in [Cell -> Object \cup {Nil}]
  BY <1>1, <1>2, <1>3 DEF Links
<1>5. Renames(next, next', o, p) /\ Renames(prev, prev', o, p) /\ Renames(own, own', o, p)
  BY <1>2 DEF Renames
<1>6. Rings(next', prev', own')
  BY <1>4, <1>5, ExchangeRings DEF Shape
<1>7. \A n \in Node : own'[n] # Nil => data'[n] # Nil
  BY <1>1, <1>2, <1>3 DEF Shape
<1>8. QED BY <1>2, <1>6, <1>7 DEF Shape

\* The constructor of the local lists of sort and operator=.
LEMMA ConstructStep ==
  ASSUME Shape, NEW T \in SUBSET Object, \A o \in T : Alone(o), Construct(T)
  PROVE  /\ Shape'
         /\ \A c \in Cell : own'[c] = IF c \in T THEN c ELSE own[c]
         /\ \A c \in Cell : next'[c] = IF c \in T THEN c ELSE next[c]
<1>1. /\ next \in Links /\ prev \in Links /\ own \in [Cell -> Object \cup {Nil}]
      /\ Node \subseteq Cell /\ Object \subseteq Cell /\ Node \cap Object = {}
  BY ShapeFacts
<1>2. next' \in Links /\ prev' \in Links /\ own' \in [Cell -> Object \cup {Nil}]
  BY <1>1 DEF Construct, Links
<1>3. Loops(next, next', T) /\ Loops(prev, prev', T) /\ Loops(own, own', T)
  BY DEF Construct, Loops
<1>4. \A c \in Cell : own[c] \in T => c = own[c]
  BY DEF Alone
<1>5. Rings(next', prev', own')
  BY <1>2, <1>3, <1>4, ConstructRings DEF Shape
<1>6. \A n \in Node : own'[n] # Nil => data'[n] # Nil
  BY <1>1, <1>3 DEF Shape, Construct, Loops
<1>7. QED BY <1>3, <1>5, <1>6 DEF Shape, Construct, Loops

\* reverse.
LEMMA TurnStep ==
  ASSUME Shape, NEW l \in List, Reverse(l)
  PROVE  Shape' /\ own' = own
<1>1. l \in Object /\ next \in Links /\ prev \in Links /\ Positions(l) = {c \in Cell : own[c] = l}
  BY ShapeFacts DEF Object, Positions
<1>2. Turns(next, prev, next', Positions(l)) /\ Turns(prev, next, prev', Positions(l))
  BY <1>1 DEF Reverse, Turns, Links
<1>3. Rings(next', prev', own)
  BY <1>1, <1>2, ReverseRings DEF Shape
<1>4. QED BY <1>3 DEF Reverse, Shape

\* A sentinel that is its own neighbour is alone, and one that is not has a node.
LEMMA EmptyIsAlone ==
  ASSUME Shape, NEW o \in Object, own[o] = o
  PROVE  /\ Empty(o) <=> Alone(o)
         /\ ~Empty(o) => next[o] \in Members(o)
<1>1. o \in Cell /\ o # Nil /\ Rings(next, prev, own) /\ next[o] \in Cell /\ own[next[o]] = o
  BY ShapeFacts DEF Shape
<1>2. next[o] = o => Alone(o)
  BY <1>1, AloneWhenLooped DEF Alone
<1>3. QED BY <1>1, <1>2 DEF Empty, Alone, Members, Positions

\* The members of a chain are nodes, and there are none when the list is moved from.
LEMMA MembersAreNodes ==
  ASSUME Shape, NEW o \in Object
  PROVE  /\ Members(o) \in SUBSET Node
         /\ own[o] # o => Members(o) = {} /\ Alone(o)
         /\ Alone(o) <=> Members(o) = {}
<1>1. o \in Cell /\ o # Nil
  BY ShapeFacts
<1>2. QED BY <1>1, ShapeFacts DEF Members, Positions, Alone, Cell

\* The move assignment takes the sentinel of the other list.
LEMMA TakeOverStep ==
  ASSUME Shape, TakeOver, call.l \in List, call.m \in List, own[call.m] = call.m, Alone(call.l)
  PROVE  /\ Shape'
         /\ \A c \in Cell, o \in Local : own'[c] = o => own[c] = o
<1> DEFINE l == call.l
           m == call.m
<1>0. /\ l \in Object /\ m \in Object /\ l \in Cell /\ m \in Cell /\ l # Nil /\ m # Nil
      /\ next \in Links /\ prev \in Links /\ own \in [Cell -> Object \cup {Nil}]
      /\ Object \subseteq Cell /\ Node \subseteq Cell /\ Node \cap Object = {}
      /\ l \notin Local /\ m \notin Local
  BY ShapeFacts, Sorts DEF Object, Local
<1>1. Alone(l) /\ own[m] = m
  OBVIOUS
<1>2. CASE l = m
  <2>1. /\ next' = [next EXCEPT ![l] = Nil] /\ prev' = [prev EXCEPT ![l] = Nil]
        /\ own' = [own EXCEPT ![l] = Nil] /\ data' = data
    BY <1>2 DEF TakeOver
  <2> HIDE DEF l, m
  <2>2. /\ next' \in Links /\ prev' \in Links /\ own' \in [Cell -> Object \cup {Nil}]
        /\ Drops(next, next', own, l) /\ Drops(prev, prev', own, l) /\ Dropped(own, own', l)
    BY <2>1, <1>0 DEF Links, Drops, Dropped
  <2>3. Rings(next', prev', own')
    BY <2>2, <1>0, <1>1, DropRings DEF Shape, Alone
  <2>4. \A n \in Node : own'[n] # Nil => data'[n] # Nil
    BY <2>1, <2>2, <1>0 DEF Shape, Dropped
  <2>5. \A c \in Cell : own'[c] \in {own[c], Nil}
    BY <2>2 DEF Dropped
  <2>6. Nil \notin List /\ Nil \notin Local
    BY Sorts DEF Local, Cell, Object
  <2>7. QED BY <2>1, <2>3, <2>4, <2>5, <2>6 DEF Shape
<1>3. CASE l # m
  \* The sentinels change names, then the one that is left alone goes.
  <2> DEFINE nx == [c \in Cell |-> Other(l, m, next[Other(l, m, c)])]
             pv == [c \in Cell |-> Other(l, m, prev[Other(l, m, c)])]
             ow == [c \in Cell |-> Other(l, m, own[Other(l, m, c)])]
             name(c) == IF c = m THEN l ELSE c
             source(c) == IF c = l THEN m ELSE c
  <2>1. /\ next' = [c \in Cell |-> IF c = m THEN Nil ELSE name(next[source(c)])]
        /\ prev' = [c \in Cell |-> IF c = m THEN Nil ELSE name(prev[source(c)])]
        /\ own' = [c \in Cell |-> IF c = m THEN Nil ELSE name(own[source(c)])]
        /\ data' = data
    BY <1>3 DEF TakeOver
  <2> HIDE DEF l, m
  <2>2. nx \in Links /\ pv \in Links /\ ow \in [Cell -> Object \cup {Nil}]
    BY <1>0, OtherFacts DEF Links
  <2>3. Renames(next, nx, l, m) /\ Renames(prev, pv, l, m) /\ Renames(own, ow, l, m)
    BY DEF Renames
  <2>4. Rings(nx, pv, ow)
    <3> HIDE DEF nx, pv, ow
    <3> QED BY <1>0, <2>2, <2>3, ExchangeRings DEF Shape
  <2>5. \A c \in Cell : ow[c] = m => c = m
    BY <1>0, <1>1, <1>3 DEF Other, Alone
  <2>6. \A c \in Cell : c # m => source(c) = Other(l, m, c) /\ source(c) \in Cell /\ source(c) # l
    BY <1>0, <1>3 DEF Other
  <2>7. Dropped(ow, own', m)
    <3>1. SUFFICES ASSUME NEW c \in Cell, c # m PROVE own'[c] = ow[c]
      BY <2>1 DEF Dropped
    <3>2. own[source(c)] # l
      BY <3>1, <2>6, <1>1 DEF Alone
    <3>3. QED BY <3>1, <3>2, <2>1, <2>6 DEF Other
  <2>8. ASSUME NEW c \in Cell, c # m, ow[c] # Nil
        PROVE  next'[c] = nx[c] /\ prev'[c] = pv[c]
    <3>1. own[source(c)] # Nil /\ own[source(c)] # l
      BY <2>6, <2>8, <1>0, <1>1 DEF Other, Alone
    <3>2. next[source(c)] # l /\ prev[source(c)] # l
      <4>1. own[l] \in {l, Nil} /\ own[next[source(c)]] = own[source(c)]
            /\ own[prev[source(c)]] = own[source(c)]
        BY <3>1, <2>6, <2>8, <1>0, ShapeFacts
      <4>2. QED BY <3>1, <4>1
    <3>3. QED BY <3>2, <2>1, <2>6, <2>8 DEF Other
  <2>9. Drops(nx, next', ow, m) /\ Drops(pv, prev', ow, m)
    BY <2>8 DEF Drops
  <2>10. next' \in Links /\ prev' \in Links /\ own' \in [Cell -> Object \cup {Nil}]
    BY <2>1, <1>0 DEF Links
  <2>11. Rings(next', prev', own')
    <3> HIDE DEF nx, pv, ow
    <3> QED BY <1>0, <2>2, <2>4, <2>5, <2>7, <2>9, <2>10, DropRings
  <2>12. \A c \in Cell : own'[c] # Nil => own[Other(l, m, c)] # Nil
    BY <2>7, <1>0 DEF Dropped, Other
  <2>13. \A n \in Node : own'[n] # Nil => data'[n] # Nil
    BY <2>1, <2>12, <1>0, OtherFacts DEF Shape
  <2>14. ASSUME NEW c \in Cell, NEW o \in Local, own'[c] = o PROVE own[c] = o
    <3>1. o # Nil /\ c # m /\ Other(l, m, own[Other(l, m, c)]) = o
      BY <2>14, <2>7, <1>0, Sorts DEF Dropped, Local, Object, Cell
    <3>2. own[Other(l, m, c)] = o
      BY <3>1, <1>0 DEF Other
    <3>3. QED BY <3>1, <3>2, <1>0, <1>1 DEF Other
  <2>15. QED BY <2>1, <2>11, <2>13, <2>14 DEF Shape
<1>4. QED BY <1>2, <1>3

\* The kinds of list objects.
LEMMA LocalFacts ==
  /\ Local \subseteq Object /\ List \cap Local = {} /\ Object = List \cup Local /\ Carry \notin Counter
  /\ Carry \in Local /\ Counter \subseteq Local /\ Counter \subseteq Nat /\ Nil \notin Object
BY Sorts DEF Local, Object, Counter, Cell

\* What a member that does not loop, and a loop that ends, have to leave.
LEMMA IdleAfter ==
  ASSUME Shape', RegsOK', at' = "idle", i' = 0, fill' = 0, back' = "idle", \A o \in Local : Alone(o)'
  PROVE  IInv'
BY DEF IInv, IdleInv, ClearInv, TakeOverInv, FillInv, RangeInv, ReadInv, MergeInv, SortInv,
       DealInv, SettleInv, Dealt, Settles

\* A member that does not loop leaves the local lists as they are.
LEMMA StillIdle ==
  ASSUME IInv, at = "idle", UNCHANGED regs, Shape',
         \A c \in Cell, o \in Local : own'[c] = o => own[c] = o
  PROVE  IInv'
<1>1. RegsOK' /\ at' = "idle" /\ i' = 0 /\ fill' = 0 /\ back' = "idle"
  BY DEF IInv, RegsOK, IdleInv, regs
<1>2. \A o \in Local : Alone(o)'
  BY DEF IInv, IdleInv, Alone
<1>3. QED BY <1>1, <1>2, IdleAfter

\* A loop that ends.
LEMMA ReturnStep ==
  ASSUME Shape', Return, \A o \in Local : Alone(o)'
  PROVE  IInv'
<1>1. at' = "idle" /\ i' = 0 /\ fill' = 0 /\ x' = Nil /\ y' = Nil /\ back' = "idle"
  BY DEF Return
<1>2. RegsOK'
  BY <1>1, Sorts DEF RegsOK
<1>3. QED BY <1>1, <1>2, IdleAfter

\* The invariant holds of the empty lists.
LEMMA InitInv == Init => IInv
<1> SUFFICES ASSUME Init PROVE IInv
  OBVIOUS
<1>0. Object \subseteq Cell /\ Node \subseteq Cell /\ Node \cap Object = {} /\ Nil \notin Cell
  BY Sorts DEF Cell
<1>1. /\ next \in Links /\ own \in [Cell -> Object \cup {Nil}] /\ prev = next /\ own = next
      /\ \A c \in Cell : own[c] # Nil => c \in Object /\ own[c] = c
      /\ \A o \in Object : own[o] = o
  BY <1>0 DEF Init, Links
<1>2. Rings(next, prev, own)
  BY <1>0, <1>1 DEF Rings, Half, Ring, Reaches, Owners, Closed
<1>3. Shape
  BY <1>0, <1>1, <1>2 DEF Shape, Init
<1>4. \A o \in Local : Alone(o)
  BY <1>0, <1>1, LocalFacts DEF Alone
<1>5. RegsOK /\ at = "idle" /\ i = 0 /\ fill = 0 /\ back = "idle"
  BY Sorts DEF Init, RegsOK
<1>6. QED BY <1>3, <1>4, <1>5 DEF IInv, IdleInv, ClearInv, TakeOverInv, FillInv, RangeInv, ReadInv,
    MergeInv, SortInv, DealInv, SettleInv, Dealt, Settles

-----------------------------------------------------------------------------
(* Members that do not loop.                                               *)

\* insert, and push_front and push_back through it.
LEMMA InsertInv ==
  ASSUME IInv, NEW l \in List, NEW pos, NEW n, NEW v \in Value, Insert(l, pos, n, v)
  PROVE  IInv'
<1>1. /\ at = "idle" /\ pos \in Cell /\ own[pos] = l /\ n \in Node /\ own[n] = Nil
      /\ Link(pos, n, v) /\ UNCHANGED regs /\ l # Nil /\ Shape /\ l \notin Local
  BY LocalFacts DEF Insert, Positions, Free, IInv
<1>2. Shape' /\ \A c \in Cell : own'[c] = IF c = n THEN own[pos] ELSE own[c]
  BY <1>1, LinkStep
<1>3. QED BY <1>1, <1>2, StillIdle

\* erase, and pop_front and pop_back through it.
LEMMA EraseInv ==
  ASSUME IInv, NEW l \in List, NEW pos, Erase(l, pos)
  PROVE  IInv'
<1>1. /\ at = "idle" /\ pos \in Members(l) /\ Unlink(pos) /\ UNCHANGED regs /\ Shape
      /\ l \in Object /\ Nil \notin Local
  BY LocalFacts DEF Erase, IInv
<1>2. pos \in Node /\ own[pos] = l /\ own[pos] # Nil
  BY <1>1, MembersAreNodes, LocalFacts DEF Members, Positions
<1>3. Shape' /\ \A d \in Cell : own'[d] = IF d = pos THEN Nil ELSE own[d]
  BY <1>1, <1>2, UnlinkStep
<1>4. QED BY <1>1, <1>3, StillIdle

\* swap of two lists of the caller.
LEMMA SwapInv ==
  ASSUME IInv, NEW l \in List, NEW m \in List, Swap(l, m)
  PROVE  IInv'
<1>1. at = "idle" /\ Exchange(l, m) /\ UNCHANGED regs /\ Shape /\ l \in Object /\ m \in Object
  BY LocalFacts DEF Swap, IInv
<1>2. Shape' /\ \A c \in Cell : own'[c] = Other(l, m, own[Other(l, m, c)])
  BY <1>1, ExchangeStep
<1>3. ASSUME NEW c \in Cell, NEW o \in Local, own'[c] = o PROVE own[c] = o
  <2>1. Other(l, m, own[Other(l, m, c)]) = o /\ o # l /\ o # m
    BY <1>2, <1>3, LocalFacts
  <2>2. own[Other(l, m, c)] = o
    BY <2>1 DEF Other
  <2>3. Other(l, m, c) = o /\ Alone(o)
    BY <1>1, <1>3, <2>2, OtherFacts DEF IInv, IdleInv, Alone
  <2>4. QED BY <2>1, <2>2, <2>3 DEF Other
<1>4. QED BY <1>1, <1>2, <1>3, StillIdle

\* reverse.
LEMMA ReverseInv ==
  ASSUME IInv, NEW l \in List, Reverse(l)
  PROVE  IInv'
<1>1. at = "idle" /\ UNCHANGED regs /\ Shape' /\ own' = own
  BY TurnStep DEF Reverse, IInv
<1>2. QED BY <1>1, StillIdle

\* splice of a range, within one list or from one to another.
LEMMA SpliceRangeInv ==
  ASSUME IInv, NEW l \in List, NEW pos, NEW m \in List, NEW first, NEW last, NEW S \in SUBSET Members(m),
         SpliceRange(l, pos, m, first, last, S)
  PROVE  IInv'
<1>1. /\ at = "idle" /\ pos \in Cell /\ own[pos] = l /\ last \in Positions(m) /\ IsRun(S, first, last)
      /\ first \in Cell /\ own[first] = m
      /\ pos \notin S /\ pos # last /\ Transfer(pos, first, last, S) /\ UNCHANGED regs /\ Shape
      /\ l \in Object /\ m \in Object /\ l \notin Local /\ l # Nil /\ m # Nil
  BY LocalFacts DEF SpliceRange, Positions, Members, IInv
<1>2. own[m] = m
  BY <1>1, ShapeFacts
<1>3. Shape' /\ \A c \in Cell : own'[c] = IF c \in S THEN own[pos] ELSE own[c]
  BY <1>1, <1>2, TransferStep
<1>4. QED BY <1>1, <1>3, StillIdle

\* splice of one node is one of the range that holds it.
LEMMA SpliceOneInv ==
  ASSUME IInv, NEW l \in List, NEW pos, NEW m \in List, NEW it, SpliceOne(l, pos, m, it)
  PROVE  IInv'
<1>1. /\ pos \in Positions(l) /\ it \in Members(m) /\ pos # it /\ pos # next[it]
      /\ Transfer(pos, it, next[it], {it}) /\ UNCHANGED regs /\ at = "idle" /\ Shape
      /\ m \in Object /\ m # Nil /\ Nil \notin Cell
  BY LocalFacts, ShapeFacts DEF SpliceOne, IInv
<1>2. it \in Node /\ it \in Cell /\ own[it] = m
  BY <1>1, MembersAreNodes DEF Members, Positions
<1>3. next[it] \in Positions(m) /\ next[it] # it
  BY <1>1, <1>2, ShapeFacts DEF Positions
<1>4. SpliceRange(l, pos, m, it, next[it], {it})
  BY <1>1, <1>3 DEF SpliceRange, IsRun
<1>5. {it} \in SUBSET Members(m)
  BY <1>1
<1>6. QED BY <1>4, <1>5, SpliceRangeInv

\* splice of a whole list is one of the range up to its sentinel.
LEMMA SpliceAllInv ==
  ASSUME IInv, NEW l \in List, NEW pos, NEW m \in List, SpliceAll(l, pos, m)
  PROVE  IInv'
<1>1. /\ pos \in Positions(l) /\ own[m] = m /\ l # m /\ ~Empty(m)
      /\ Transfer(pos, next[m], m, Members(m)) /\ UNCHANGED regs /\ at = "idle" /\ Shape
      /\ m \in Object /\ m # Nil /\ m \in Cell
  BY LocalFacts, ShapeFacts DEF SpliceAll, Live, IInv
<1>2. next[m] \in Members(m) /\ m \in Positions(m) /\ m \notin Members(m)
  BY <1>1, EmptyIsAlone DEF Positions, Members
<1>3. \A c \in Cell : own[c] = m =>
        /\ next[c] \in Cell /\ own[next[c]] = m /\ prev[next[c]] = c
        /\ prev[c] \in Cell /\ own[prev[c]] = m /\ next[prev[c]] = c
  BY <1>1, ShapeFacts
<1>4. IsRun(Members(m), next[m], m)
  BY <1>1, <1>2, <1>3 DEF IsRun, Members, Positions
<1>5. pos \notin Members(m) /\ pos # m
  BY <1>1 DEF Positions, Members
<1>6. SpliceRange(l, pos, m, next[m], m, Members(m))
  BY <1>1, <1>2, <1>4, <1>5 DEF SpliceRange
<1>7. QED BY <1>6, SpliceRangeInv

-----------------------------------------------------------------------------
(* The start of a loop.                                                    *)

\* What holds when a member is called.
LEMMA CallFacts ==
  ASSUME IInv, at = "idle"
  PROVE  /\ Shape /\ i = 0 /\ fill = 0 /\ back = "idle" /\ \A o \in Local : Alone(o)
         /\ \A l \in List : Live(l) =>
                /\ l \in Cell /\ l # Nil /\ l \in Object /\ l \notin Local /\ own[l] = l
                /\ next[l] \in Cell /\ own[next[l]] = l
BY ShapeFacts, LocalFacts DEF IInv, IdleInv, Live

\* Begin leaves the links alone: what is to be shown is of the loop that begins.
LEMMA BeginStep ==
  ASSUME IInv, NEW c, NEW loop, NEW p \in Cell \cup {Nil}, NEW q \in Cell \cup {Nil}, Begin(c, loop, p, q),
         c.n \in Nat,
         loop \in {"clear", "take_over", "fill", "range", "remove", "unique", "merge"},
         ClearInv', TakeOverInv', FillInv', RangeInv', ReadInv', MergeInv',
         loop = "merge" => c.op = "merge"
  PROVE  IInv'
<1>1. /\ at = "idle" /\ at' = loop /\ call' = c /\ x' = p /\ y' = q /\ i' = c.n
      /\ UNCHANGED <<next, prev, data, own, fill>>
  BY DEF Begin, links
<1>2. Shape' /\ RegsOK'
  BY <1>1 DEF IInv, Shape, RegsOK
<1>3. IdleInv' /\ ~Dealt' /\ ~Settles'
  BY <1>1 DEF IdleInv, Dealt, Settles
<1>4. QED BY <1>2, <1>3 DEF IInv, SortInv, DealInv, SettleInv

\* clear starts.
LEMMA CallClearInv ==
  ASSUME IInv, NEW l \in List, CallClear(l)
  PROVE  IInv'
<1> DEFINE c == Arg("clear", l, l, 0, 0, Nil)
<1>1. Begin(c, "clear", next[l], l) /\ c.l = l /\ c.op = "clear" /\ c.n = 0
  BY DEF CallClear, Arg
<1> HIDE DEF c
<1>2. at = "idle" /\ Live(l) /\ at' = "clear" /\ call' = c /\ x' = next[l] /\ y' = l /\ next' = next /\ own' = own
  BY <1>1 DEF Begin, links
<1>3. /\ \A o \in Local : Alone(o)'
      /\ l \in Cell /\ l # Nil /\ l \in Object /\ l \notin Local /\ own[l] = l /\ next[l] \in Cell
  BY <1>2, CallFacts DEF Alone
<1>4. ClearInv' /\ TakeOverInv' /\ FillInv' /\ RangeInv' /\ ReadInv' /\ MergeInv'
  BY <1>1, <1>2, <1>3 DEF ClearInv, TakeOverInv, FillInv, RangeInv, ReadInv, MergeInv
<1>5. QED BY <1>1, <1>3, <1>4, BeginStep

\* assign(n, v) starts with clear.
LEMMA CallAssignInv ==
  ASSUME IInv, NEW l \in List, NEW n \in Nat, NEW v \in Value, CallAssign(l, n, v)
  PROVE  IInv'
<1> DEFINE c == Arg("assign", l, l, 0, n, v)
<1>1. Begin(c, "clear", next[l], l) /\ c.l = l /\ c.op = "assign" /\ c.n = n /\ c.v = v
  BY DEF CallAssign, Arg
<1> HIDE DEF c
<1>2. at = "idle" /\ Live(l) /\ at' = "clear" /\ call' = c /\ x' = next[l] /\ y' = l /\ next' = next /\ own' = own
  BY <1>1 DEF Begin, links
<1>3. /\ \A o \in Local : Alone(o)'
      /\ l \in Cell /\ l # Nil /\ l \in Object /\ l \notin Local /\ own[l] = l /\ next[l] \in Cell
  BY <1>2, CallFacts DEF Alone
<1>4. ClearInv' /\ TakeOverInv' /\ FillInv' /\ RangeInv' /\ ReadInv' /\ MergeInv'
  BY <1>1, <1>2, <1>3 DEF ClearInv, TakeOverInv, FillInv, RangeInv, ReadInv, MergeInv
<1>5. QED BY <1>1, <1>3, <1>4, BeginStep

\* assign(first, last) starts with clear.
LEMMA CallAssignRangeInv ==
  ASSUME IInv, NEW l \in List, NEW m \in List, CallAssignRange(l, m)
  PROVE  IInv'
<1> DEFINE c == Arg("assign_range", l, m, 0, 0, Nil)
<1>1. /\ Begin(c, "clear", next[l], l) /\ c.l = l /\ c.op = "assign_range" /\ c.n = 0 /\ c.m = m
      /\ Live(m) /\ l # m
  BY DEF CallAssignRange, Arg
<1> HIDE DEF c
<1>2. at = "idle" /\ Live(l) /\ at' = "clear" /\ call' = c /\ x' = next[l] /\ y' = l /\ next' = next /\ own' = own
  BY <1>1 DEF Begin, links
<1>3. /\ \A o \in Local : Alone(o)'
      /\ l \in Cell /\ l # Nil /\ l \in Object /\ l \notin Local /\ own[l] = l /\ next[l] \in Cell
      /\ own[m] = m
  BY <1>1, <1>2, CallFacts DEF Alone
<1>4. ClearInv' /\ TakeOverInv' /\ FillInv' /\ RangeInv' /\ ReadInv' /\ MergeInv'
  BY <1>1, <1>2, <1>3 DEF ClearInv, TakeOverInv, FillInv, RangeInv, ReadInv, MergeInv
<1>5. QED BY <1>1, <1>3, <1>4, BeginStep

\* remove and remove_if start.
LEMMA CallRemoveInv ==
  ASSUME IInv, NEW l \in List, NEW v \in Value, CallRemove(l, v)
  PROVE  IInv'
<1> DEFINE c == Arg("remove", l, l, 0, 0, v)
<1>1. Begin(c, "remove", next[l], Nil) /\ c.l = l /\ c.op = "remove" /\ c.n = 0
  BY DEF CallRemove, Arg
<1> HIDE DEF c
<1>2. at = "idle" /\ Live(l) /\ at' = "remove" /\ call' = c /\ x' = next[l] /\ next' = next /\ own' = own
  BY <1>1 DEF Begin, links
<1>3. /\ \A o \in Local : Alone(o)'
      /\ l \in Cell /\ l # Nil /\ l \notin Local /\ own[l] = l /\ next[l] \in Cell /\ own[next[l]] = l
  BY <1>2, CallFacts DEF Alone
<1>4. ClearInv' /\ TakeOverInv' /\ FillInv' /\ RangeInv' /\ ReadInv' /\ MergeInv'
  BY <1>1, <1>2, <1>3 DEF ClearInv, TakeOverInv, FillInv, RangeInv, ReadInv, MergeInv
<1>5. QED BY <1>1, <1>3, <1>4, BeginStep

\* unique starts, on a list that is not empty.
LEMMA CallUniqueInv ==
  ASSUME IInv, NEW l \in List, CallUnique(l)
  PROVE  IInv'
<1> DEFINE c == Arg("unique", l, l, 0, 0, Nil)
<1>1. ~Empty(l) /\ Begin(c, "unique", next[l], Nil) /\ c.l = l /\ c.op = "unique" /\ c.n = 0
  BY DEF CallUnique, Arg
<1> HIDE DEF c
<1>2. at = "idle" /\ Live(l) /\ at' = "unique" /\ call' = c /\ x' = next[l] /\ next' = next /\ own' = own
  BY <1>1 DEF Begin, links
<1>3. /\ Shape /\ \A o \in Local : Alone(o)'
      /\ l \in Cell /\ l # Nil /\ l \in Object /\ own[l] = l /\ next[l] \in Cell /\ own[next[l]] = l
  BY <1>2, CallFacts DEF Alone
<1>4. next[l] \in Node
  BY <1>1, <1>3, EmptyIsAlone, MembersAreNodes
<1>5. ClearInv' /\ TakeOverInv' /\ FillInv' /\ RangeInv' /\ ReadInv' /\ MergeInv'
  BY <1>1, <1>2, <1>3, <1>4 DEF ClearInv, TakeOverInv, FillInv, RangeInv, ReadInv, MergeInv
<1>6. QED BY <1>1, <1>3, <1>5, BeginStep

\* merge of two different lists starts.
LEMMA CallMergeInv ==
  ASSUME IInv, NEW l \in List, NEW m \in List, CallMerge(l, m)
  PROVE  IInv'
<1> DEFINE c == Arg("merge", l, m, 0, 0, Nil)
<1>1. /\ Begin(c, "merge", next[l], next[m]) /\ c.l = l /\ c.m = m /\ c.op = "merge" /\ c.n = 0
      /\ Live(m) /\ l # m
  BY DEF CallMerge, Arg
<1> HIDE DEF c
<1>2. /\ at = "idle" /\ Live(l) /\ at' = "merge" /\ call' = c /\ x' = next[l] /\ y' = next[m]
      /\ next' = next /\ own' = own /\ back' = back
  BY <1>1 DEF Begin, links
<1>3. /\ back = "idle" /\ \A o \in Local : Alone(o)'
      /\ l \in Object /\ m \in Object /\ own[l] = l /\ next[l] \in Cell /\ own[next[l]] = l
      /\ own[m] = m /\ next[m] \in Cell
  BY <1>1, <1>2, CallFacts DEF Alone
<1>4. Into' = l /\ From' = m
  <2>1. call'.op = "merge" /\ call'.l = l /\ call'.m = m /\ back' # "carried"
    BY <1>1, <1>2, <1>3
  <2>2. QED BY <2>1 DEF Into, From
<1>5. ClearInv' /\ TakeOverInv' /\ FillInv' /\ RangeInv' /\ ReadInv' /\ MergeInv'
  BY <1>1, <1>2, <1>3, <1>4 DEF ClearInv, TakeOverInv, FillInv, RangeInv, ReadInv, MergeInv
<1>6. QED BY <1>1, <1>3, <1>5, BeginStep

\* insert(pos, n, v) starts.
LEMMA CallInsertInv ==
  ASSUME IInv, NEW l \in List, NEW pos, NEW n \in Nat, NEW v \in Value, CallInsert(l, pos, n, v)
  PROVE  IInv'
<1> DEFINE c == Arg("insert", l, l, Index(l, pos), n, v)
<1>1. /\ Begin(c, "fill", Nil, pos) /\ c.l = l /\ c.op = "insert" /\ c.n = n /\ c.v = v
      /\ pos \in Cell /\ own[pos] = l
  BY DEF CallInsert, Arg, Positions
<1> HIDE DEF c
<1>2. at = "idle" /\ Live(l) /\ at' = "fill" /\ call' = c /\ y' = pos /\ own' = own
  BY <1>1 DEF Begin, links
<1>3. \A o \in Local : Alone(o)'
  BY <1>2, CallFacts DEF Alone
<1>4. ClearInv' /\ TakeOverInv' /\ FillInv' /\ RangeInv' /\ ReadInv' /\ MergeInv'
  BY <1>1, <1>2, <1>3 DEF ClearInv, TakeOverInv, FillInv, RangeInv, ReadInv, MergeInv
<1>5. QED BY <1>1, <1>4, BeginStep

\* insert(pos, first, last) starts.
LEMMA CallInsertRangeInv ==
  ASSUME IInv, NEW l \in List, NEW pos, NEW m \in List, CallInsertRange(l, pos, m)
  PROVE  IInv'
<1> DEFINE c == Arg("insert_range", l, m, Index(l, pos), 0, Nil)
<1>1. /\ Begin(c, "range", next[m], pos) /\ c.l = l /\ c.m = m /\ c.op = "insert_range" /\ c.n = 0
      /\ pos \in Cell /\ own[pos] = l /\ Live(m) /\ l # m
  BY DEF CallInsertRange, Arg, Positions
<1> HIDE DEF c
<1>2. at = "idle" /\ Live(l) /\ at' = "range" /\ call' = c /\ x' = next[m] /\ y' = pos /\ own' = own
  BY <1>1 DEF Begin, links
<1>3. /\ \A o \in Local : Alone(o)'
      /\ l \in Object /\ m \in Object /\ next[m] \in Cell /\ own[next[m]] = m
  BY <1>1, <1>2, CallFacts DEF Alone
<1>4. ClearInv' /\ TakeOverInv' /\ FillInv' /\ RangeInv' /\ ReadInv' /\ MergeInv'
  BY <1>1, <1>2, <1>3 DEF ClearInv, TakeOverInv, FillInv, RangeInv, ReadInv, MergeInv
<1>5. QED BY <1>1, <1>3, <1>4, BeginStep

\* operator=(list const&) constructs tmp and starts to fill it.
LEMMA CallCopyInv ==
  ASSUME IInv, NEW l \in List, NEW m \in List, CallCopy(l, m)
  PROVE  IInv'
<1>1. /\ at = "idle" /\ Live(m) /\ Construct({Carry})
      /\ call'.op = "copy" /\ call'.l = l /\ call'.m = m
      /\ at' = "range" /\ x' = next[m] /\ y' = Carry /\ i' = i /\ fill' = fill
  BY DEF CallCopy, Arg
<1>2. /\ Shape /\ i = 0 /\ fill = 0 /\ Carry \in Object /\ Carry \in Cell /\ {Carry} \in SUBSET Object
      /\ m \in Object /\ m # Nil /\ m # Carry
      /\ own[m] = m /\ next[m] \in Cell /\ own[next[m]] = m
      /\ \A o \in Local : Alone(o)
  BY <1>1, CallFacts, LocalFacts, ShapeFacts
<1>3. Shape' /\ \A c \in Cell : own'[c] = IF c \in {Carry} THEN c ELSE own[c]
  BY <1>1, <1>2, LocalFacts, ConstructStep
<1>4. \A o \in Local : Alone(o)'
  BY <1>2, <1>3 DEF Alone
<1>5. own'[next[m]] = m /\ own'[Carry] = Carry
  BY <1>2, <1>3, ShapeFacts
<1>6. RangeInv'
  BY <1>1, <1>2, <1>4, <1>5 DEF RangeInv
<1>7. RegsOK' /\ ~Dealt' /\ ~Settles'
  BY <1>1, <1>2 DEF IInv, RegsOK, Dealt, Settles
<1>8. QED BY <1>1, <1>3, <1>6, <1>7 DEF IInv, IdleInv, ClearInv, TakeOverInv, FillInv, ReadInv,
            MergeInv, SortInv, DealInv, SettleInv

\* operator=(list&&) starts, with clear when there is something to clear.
LEMMA CallMoveInv ==
  ASSUME IInv, NEW l \in List, NEW m \in List, CallMove(l, m)
  PROVE  IInv'
<1>1. /\ at = "idle" /\ own[m] = m /\ call'.op = "move" /\ call'.l = l /\ call'.m = m
      /\ UNCHANGED <<next, prev, data, own, i, fill>>
      /\ \/ own[l] = l /\ at' = "clear" /\ x' = next[l] /\ y' = l
         \/ own[l] # l /\ at' = "take_over" /\ UNCHANGED <<x, y>>
  BY DEF CallMove, Arg, Live, links
<1>2. /\ Shape /\ Shape' /\ i = 0 /\ fill = 0 /\ \A o \in Local : Alone(o) /\ Alone(o)'
      /\ l \in Object /\ l \in Cell /\ l # Nil /\ next[l] \in Cell \cup {Nil}
  BY <1>1, CallFacts, LocalFacts, ShapeFacts DEF Shape, Alone, Links
<1>3. RegsOK' /\ ~Dealt' /\ ~Settles'
  BY <1>1, <1>2 DEF IInv, RegsOK, Dealt, Settles
<1>4. CASE at' = "clear"
  <2>1. ClearInv'
    BY <1>1, <1>2, <1>4 DEF ClearInv
  <2>2. QED BY <1>2, <1>3, <1>4, <2>1 DEF IInv, IdleInv, TakeOverInv, FillInv, RangeInv, ReadInv,
            MergeInv, SortInv, DealInv, SettleInv
<1>5. CASE at' = "take_over"
  <2>1. Alone(l)'
    BY <1>1, <1>2, <1>5, MembersAreNodes DEF Alone
  <2>2. TakeOverInv'
    BY <1>1, <1>2, <1>5, <2>1 DEF TakeOverInv, Alone
  <2>3. QED BY <1>2, <1>3, <1>5, <2>2 DEF IInv, IdleInv, ClearInv, FillInv, RangeInv, ReadInv,
            MergeInv, SortInv, DealInv, SettleInv
<1>6. QED BY <1>1, <1>4, <1>5

\* sort constructs carry and the counters, and starts to deal.
LEMMA CallSortInv ==
  ASSUME IInv, NEW l \in List, CallSort(l)
  PROVE  IInv'
<1>1. /\ at = "idle" /\ Live(l) /\ next[next[l]] # l /\ Construct(Local)
      /\ call'.op = "sort" /\ call'.l = l
      /\ at' = "deal" /\ i' = i /\ fill' = fill /\ x' = x /\ y' = y
  BY DEF CallSort, Arg, Local
<1>2. /\ Shape /\ i = 0 /\ fill = 0 /\ Local \in SUBSET Object /\ Local \subseteq Cell
      /\ l \in Object /\ l \in Cell /\ own[l] = l /\ l \notin Local
      /\ \A o \in Local : Alone(o)
  BY <1>1, CallFacts, LocalFacts, ShapeFacts
<1>3. /\ Shape'
      /\ \A c \in Cell : own'[c] = IF c \in Local THEN c ELSE own[c]
      /\ \A c \in Cell : next'[c] = IF c \in Local THEN c ELSE next[c]
  BY <1>1, <1>2, ConstructStep
<1>4. \A o \in Local : Alone(o)' /\ own'[o] = o
  BY <1>2, <1>3 DEF Alone
<1>5. own'[l] = l /\ next'[l] # l
  BY <1>1, <1>2, <1>3
<1>6. RegsOK' /\ Dealt' /\ ~Settles'
  BY <1>1, <1>2 DEF IInv, RegsOK, Dealt, Settles
<1>7. SortInv'
  BY <1>1, <1>4, <1>5, LocalFacts DEF SortInv
<1>8. DealInv'
  BY <1>1, <1>2, <1>4, <1>5, LocalFacts DEF DealInv
<1>9. QED BY <1>1, <1>3, <1>6, <1>7, <1>8 DEF IInv, IdleInv, ClearInv, TakeOverInv, FillInv, RangeInv,
            ReadInv, MergeInv, SettleInv

-----------------------------------------------------------------------------
(* Iterations.                                                             *)

\* A cell of list m's chain that is not its sentinel is a node.
LEMMA ChainNode ==
  ASSUME Shape, NEW o \in Object, NEW c \in Cell, own[c] = o, c # o
  PROVE  c \in Node /\ own[c] # Nil
<1>1. o # Nil
  BY LocalFacts
<1>2. c \in Members(o)
  BY DEF Members, Positions
<1>3. QED BY <1>1, <1>2, MembersAreNodes

\* An iteration of clear; at its end the loop of the call that cleared goes on.
LEMMA ClearingInv ==
  ASSUME IInv, Clearing
  PROVE  IInv'
<1>0. /\ Shape /\ RegsOK /\ at = "clear" /\ y \in Object /\ own[y] = y /\ x = next[y]
      /\ call.op \in {"clear", "assign", "assign_range", "move", "copy"}
      /\ IF call.op = "copy" THEN y = Carry ELSE y = call.l /\ call.l \in List
      /\ call.op = "assign" => call.v \in Value
      /\ call.op \in {"assign_range", "move"} => call.m \in List /\ own[call.m] = call.m
      /\ call.op = "assign_range" => call.m # call.l
      /\ \A o \in Local \ {y} : Alone(o)
  BY DEF IInv, ClearInv, Clearing
<1>1. /\ x \in Cell /\ y \in Cell /\ y # Nil /\ own[x] = y /\ prev[x] = y
      /\ List \subseteq Object /\ Object \subseteq Cell /\ List \cap Local = {} /\ Nil \notin Object
      /\ Local \subseteq Object /\ Node \cap Object = {}
  BY <1>0, ShapeFacts, LocalFacts
<1>2. CASE x # y
  <2>1. /\ Unlink(x) /\ x' = next[x] /\ UNCHANGED <<call, at, y, i, fill, back>>
    BY <1>2 DEF Clearing
  <2>2. x \in Node /\ own[x] # Nil
    BY <1>0, <1>1, <1>2, ChainNode
  <2>3. /\ Shape' /\ \A d \in Cell : own'[d] = IF d = x THEN Nil ELSE own[d]
        /\ next'[y] = next[x] /\ next[x] \in Cell
    BY <1>0, <1>1, <2>1, <2>2, UnlinkStep, ShapeFacts
  <2>4. \A o \in Local \ {y} : Alone(o)'
    BY <1>0, <1>1, <2>3 DEF Alone
  <2>5. ClearInv'
    BY <1>0, <1>1, <1>2, <2>1, <2>2, <2>3, <2>4 DEF ClearInv
  <2>6. RegsOK' /\ ~Dealt' /\ ~Settles'
    BY <1>0, <2>1, <2>3 DEF RegsOK, Dealt, Settles
  <2>7. QED BY <1>0, <2>1, <2>3, <2>5, <2>6 DEF IInv, IdleInv, TakeOverInv, FillInv, RangeInv, ReadInv,
            MergeInv, SortInv, DealInv, SettleInv
<1>3. CASE x = y
  <2>1. /\ UNCHANGED <<next, prev, data, own>>
        /\ CASE call.op = "assign" -> Go("fill") /\ UNCHANGED <<x, y, i, fill>>
             [] call.op = "assign_range" -> Go("range") /\ x' = next[call.m] /\ UNCHANGED <<y, i, fill>>
             [] call.op = "move" -> Go("take_over") /\ UNCHANGED <<x, y, i, fill>>
             [] OTHER -> Return
    BY <1>3 DEF Clearing, links
  <2>2. /\ Shape' /\ Alone(y) /\ \A o \in Local : Alone(o) /\ Alone(o)'
    BY <1>0, <1>3, <2>1, EmptyIsAlone DEF Shape, Alone, Empty
  <2>3. CASE call.op = "assign"
    <3>1. at' = "fill" /\ UNCHANGED <<call, x, y, i, fill>>
      BY <2>1, <2>3 DEF Go
    <3>2. FillInv'
      BY <1>0, <1>1, <2>1, <2>2, <2>3, <3>1 DEF FillInv
    <3>3. RegsOK' /\ ~Dealt' /\ ~Settles'
      BY <1>0, <3>1 DEF RegsOK, Dealt, Settles
    <3>4. QED BY <2>2, <3>1, <3>2, <3>3 DEF IInv, IdleInv, ClearInv, TakeOverInv, RangeInv, ReadInv,
              MergeInv, SortInv, DealInv, SettleInv
  <2>4. CASE call.op = "assign_range"
    <3>1. at' = "range" /\ x' = next[call.m] /\ UNCHANGED <<call, y, i, fill>>
      BY <2>1, <2>4 DEF Go
    <3>2. call.m \in Cell /\ call.m # Nil /\ next[call.m] \in Cell /\ own[next[call.m]] = call.m
      BY <1>0, <1>1, <2>4, ShapeFacts
    <3>3. RangeInv'
      BY <1>0, <1>1, <2>1, <2>2, <2>4, <3>1, <3>2 DEF RangeInv
    <3>4. RegsOK' /\ ~Dealt' /\ ~Settles'
      BY <1>0, <3>1, <3>2 DEF RegsOK, Dealt, Settles
    <3>5. QED BY <2>2, <3>1, <3>3, <3>4 DEF IInv, IdleInv, ClearInv, TakeOverInv, FillInv, ReadInv,
              MergeInv, SortInv, DealInv, SettleInv
  <2>5. CASE call.op = "move"
    <3>1. at' = "take_over" /\ UNCHANGED <<call, x, y, i, fill>>
      BY <2>1, <2>5 DEF Go
    <3>2. TakeOverInv'
      BY <1>0, <1>1, <2>1, <2>2, <2>5, <3>1 DEF TakeOverInv, Alone
    <3>3. RegsOK' /\ ~Dealt' /\ ~Settles'
      BY <1>0, <3>1 DEF RegsOK, Dealt, Settles
    <3>4. QED BY <2>2, <3>1, <3>2, <3>3 DEF IInv, IdleInv, ClearInv, FillInv, RangeInv, ReadInv,
              MergeInv, SortInv, DealInv, SettleInv
  <2>6. CASE call.op \notin {"assign", "assign_range", "move"}
    <3>1. Return
      BY <2>1, <2>6
    <3>2. QED BY <2>2, <3>1, ReturnStep
  <2>7. QED BY <2>3, <2>4, <2>5, <2>6
<1>4. QED BY <1>2, <1>3

\* The last step of the move assignment.
LEMMA TakingOverInv ==
  ASSUME IInv, TakeOver
  PROVE  IInv'
<1>1. /\ Shape /\ call.l \in List /\ call.m \in List /\ own[call.m] = call.m /\ Alone(call.l)
      /\ \A o \in Local : Alone(o)
  BY DEF IInv, TakeOverInv, TakeOver
<1>2. Shape' /\ \A c \in Cell, o \in Local : own'[c] = o => own[c] = o
  BY <1>1, TakeOverStep
<1>3. \A o \in Local : Alone(o)'
  BY <1>1, <1>2 DEF Alone
<1>4. QED BY <1>2, <1>3, ReturnStep DEF TakeOver

\* An iteration of insert(pos, n, v).
LEMMA FillingInv ==
  ASSUME IInv, Filling
  PROVE  IInv'
<1>0. /\ Shape /\ RegsOK /\ at = "fill" /\ y \in Cell /\ own[y] \in List /\ call.v \in Value
      /\ \A o \in Local : Alone(o)
      /\ List \cap Local = {} /\ Nil \notin List /\ Object \subseteq Cell /\ Node \subseteq Cell
  BY LocalFacts, ShapeFacts DEF IInv, FillInv, Filling
<1>1. CASE i # 0
  <2>1. PICK n \in Free : Link(y, n, call.v)
    BY <1>1 DEF Filling
  <2>2. i' = i - 1 /\ UNCHANGED <<call, at, x, y, fill, back>>
    BY <1>1 DEF Filling
  <2>3. n \in Node /\ own[n] = Nil /\ own[y] # Nil
    BY <1>0 DEF Free
  <2>4. Shape' /\ \A c \in Cell : own'[c] = IF c = n THEN own[y] ELSE own[c]
    BY <1>0, <2>1, <2>3, LinkStep
  <2>5. own'[y] = own[y] /\ \A o \in Local : Alone(o)'
    BY <1>0, <2>3, <2>4 DEF Alone
  <2>6. FillInv'
    BY <1>0, <2>2, <2>5 DEF FillInv
  <2>7. RegsOK' /\ ~Dealt' /\ ~Settles'
    BY <1>0, <1>1, <2>2 DEF RegsOK, Dealt, Settles
  <2>8. QED BY <1>0, <2>2, <2>4, <2>6, <2>7 DEF IInv, IdleInv, ClearInv, TakeOverInv, RangeInv, ReadInv,
            MergeInv, SortInv, DealInv, SettleInv
<1>2. CASE i = 0
  <2>1. Return /\ UNCHANGED <<next, prev, data, own>>
    BY <1>2 DEF Filling, links
  <2>2. Shape' /\ \A o \in Local : Alone(o)'
    BY <1>0, <2>1 DEF Shape, Alone
  <2>3. QED BY <2>1, <2>2, ReturnStep
<1>3. QED BY <1>1, <1>2

\* An iteration of insert(pos, first, last); operator= then swaps and clears.
LEMMA RangingInv ==
  ASSUME IInv, Ranging
  PROVE  IInv'
<1>0. /\ Shape /\ RegsOK /\ at = "range" /\ call.m \in List /\ x \in Cell /\ own[x] = call.m
      /\ y \in Cell /\ own[y] \in Object /\ own[y] # call.m
      /\ IF call.op = "copy" THEN call.l \in List /\ y = Carry /\ own[y] = Carry
                             ELSE own[y] \in List
      /\ \A o \in Local \ {y} : Alone(o)
  BY DEF IInv, RangeInv, Ranging
<1>1. /\ List \subseteq Object /\ List \cap Local = {} /\ Local \subseteq Object /\ Nil \notin Object
      /\ Object \subseteq Cell /\ Node \subseteq Cell /\ Node \cap Object = {}
      /\ Carry \in Local
  BY <1>0, LocalFacts, ShapeFacts
<1>2. CASE x # call.m
  <2>1. PICK n \in Free : Link(y, n, data[x])
    BY <1>2 DEF Ranging
  <2>2. x' = next'[x] /\ UNCHANGED <<call, at, y, i, fill, back>>
    BY <1>2 DEF Ranging
  <2>3. x \in Node /\ own[x] # Nil /\ data[x] \in Value
    BY <1>0, <1>1, <1>2, ChainNode DEF Shape
  <2>4. n \in Node /\ own[n] = Nil /\ own[y] # Nil
    BY <1>0, <1>1 DEF Free
  <2>5. /\ Shape' /\ \A c \in Cell : own'[c] = IF c = n THEN own[y] ELSE own[c]
        /\ \A c \in Cell : c # n /\ c # prev[y] => next'[c] = next[c]
    BY <1>0, <2>1, <2>3, <2>4, LinkStep
  <2>6. own[prev[y]] = own[y] /\ next[x] \in Cell /\ own[next[x]] = call.m
    BY <1>0, <1>1, ShapeFacts
  <2>7. x' = next[x]
    BY <1>0, <1>1, <2>2, <2>4, <2>5, <2>6
  <2>8. own'[x'] = call.m /\ own'[y] = own[y]
    BY <1>0, <1>1, <2>4, <2>5, <2>6, <2>7
  <2>9. \A o \in Local \ {y} : Alone(o)'
    BY <1>0, <1>1, <2>5 DEF Alone
  <2>10. RangeInv'
    BY <1>0, <2>2, <2>6, <2>7, <2>8, <2>9 DEF RangeInv
  <2>11. RegsOK' /\ ~Dealt' /\ ~Settles'
    BY <1>0, <2>2, <2>6, <2>7 DEF RegsOK, Dealt, Settles
  <2>12. QED BY <1>0, <2>2, <2>5, <2>10, <2>11 DEF IInv, IdleInv, ClearInv, TakeOverInv, FillInv, ReadInv,
            MergeInv, SortInv, DealInv, SettleInv
<1>3. CASE x = call.m /\ call.op # "copy"
  <2>1. Return /\ UNCHANGED <<next, prev, data, own>>
    BY <1>3 DEF Ranging, links
  <2>2. y \notin Local
    BY <1>0, <1>1, <1>3, ShapeFacts
  <2>3. Shape' /\ \A o \in Local : Alone(o)'
    BY <1>0, <2>1, <2>2 DEF Shape, Alone
  <2>4. QED BY <2>1, <2>3, ReturnStep
<1>4. CASE x = call.m /\ call.op = "copy"
  <2>1. /\ Exchange(call.l, Carry)
        /\ IF own'[Carry] = Carry
           THEN Go("clear") /\ x' = next'[Carry] /\ y' = Carry /\ UNCHANGED <<i, fill>>
           ELSE Return
    BY <1>4 DEF Ranging
  <2>2. /\ Shape'
        /\ \A c \in Cell : own'[c] = Other(call.l, Carry, own[Other(call.l, Carry, c)])
    BY <1>0, <1>1, <1>4, <2>1, ExchangeStep
  <2>3. \A o \in Local \ {Carry} : Alone(o)'
    <3>1. SUFFICES ASSUME NEW o \in Local, o # Carry, NEW c \in Cell, own'[c] = o
                   PROVE  c = o
      BY DEF Alone
    <3>2. own[Other(call.l, Carry, c)] = o /\ Other(call.l, Carry, c) \in Cell
      BY <1>0, <1>1, <1>4, <2>2, <3>1, OtherFacts DEF Other
    <3>3. Other(call.l, Carry, c) = o
      BY <1>0, <1>4, <3>1, <3>2 DEF Alone
    <3>4. QED BY <3>1, <3>3, <1>0, <1>1, <1>4 DEF Other
  <2>4. CASE own'[Carry] = Carry
    <3>1. at' = "clear" /\ x' = next'[Carry] /\ y' = Carry /\ UNCHANGED <<call, i, fill, back>>
      BY <2>1, <2>4 DEF Go
    <3>2. ClearInv'
      BY <1>0, <1>1, <1>4, <2>3, <2>4, <3>1 DEF ClearInv
    <3>3. next'[Carry] \in Cell \cup {Nil}
      BY <2>2, <1>1 DEF Shape, Rings, Half, Links
    <3>4. RegsOK' /\ ~Dealt' /\ ~Settles'
      BY <1>0, <1>1, <3>1, <3>3 DEF RegsOK, Dealt, Settles
    <3>5. QED BY <2>2, <3>1, <3>2, <3>4 DEF IInv, IdleInv, TakeOverInv, FillInv, RangeInv, ReadInv,
              MergeInv, SortInv, DealInv, SettleInv
  <2>5. CASE own'[Carry] # Carry
    <3>1. Alone(Carry)'
      BY <1>1, <2>2, <2>5 DEF Shape, Rings, Owners, Alone
    <3>2. \A o \in Local : Alone(o)'
      BY <2>3, <3>1
    <3>3. QED BY <2>1, <2>2, <2>5, <3>2, ReturnStep
  <2>6. QED BY <2>4, <2>5
<1>5. QED BY <1>2, <1>3, <1>4

\* An iteration of remove.
LEMMA RemovingInv ==
  ASSUME IInv, Removing
  PROVE  IInv'
<1>0. /\ Shape /\ RegsOK /\ at = "remove" /\ call.l \in List /\ x \in Cell /\ own[x] = call.l
      /\ \A o \in Local : Alone(o)
      /\ call.l \in Object /\ call.l # Nil /\ Nil \notin Local
  BY LocalFacts DEF IInv, ReadInv, Removing
<1>1. CASE x # call.l
  <2>1. /\ IF data[x] = call.v THEN Unlink(x) ELSE UNCHANGED <<next, prev, data, own>>
        /\ x' = next[x] /\ UNCHANGED <<call, at, y, i, fill, back>>
    BY <1>1 DEF Removing, links
  <2>2. x \in Node /\ own[x] # Nil
    BY <1>0, <1>1, ChainNode
  <2>3. next[x] \in Cell /\ own[next[x]] = call.l /\ next[x] # x
    BY <1>0, <2>2, ShapeFacts
  <2>4. Shape' /\ \A d \in Cell : own'[d] = own[d] \/ (d = x /\ own'[d] = Nil)
    <3>1. CASE data[x] = call.v
      BY <1>0, <2>1, <2>2, <3>1, UnlinkStep
    <3>2. CASE data[x] # call.v
      BY <1>0, <2>1, <3>2 DEF Shape
    <3>3. QED BY <3>1, <3>2
  <2>5. \A o \in Local : Alone(o)'
    BY <1>0, <2>4 DEF Alone
  <2>6. ReadInv'
    BY <1>0, <2>1, <2>3, <2>4, <2>5 DEF ReadInv
  <2>7. RegsOK' /\ ~Dealt' /\ ~Settles'
    BY <1>0, <2>1, <2>3 DEF RegsOK, Dealt, Settles
  <2>8. QED BY <1>0, <2>1, <2>4, <2>6, <2>7 DEF IInv, IdleInv, ClearInv, TakeOverInv, FillInv, RangeInv,
            MergeInv, SortInv, DealInv, SettleInv
<1>2. CASE x = call.l
  <2>1. Return /\ UNCHANGED <<next, prev, data, own>>
    BY <1>2 DEF Removing, links
  <2>2. Shape' /\ \A o \in Local : Alone(o)'
    BY <1>0, <2>1 DEF Shape, Alone
  <2>3. QED BY <2>1, <2>2, ReturnStep
<1>3. QED BY <1>1, <1>2

\* An iteration of unique.
LEMMA UniquingInv ==
  ASSUME IInv, Uniquing
  PROVE  IInv'
<1>0. /\ Shape /\ RegsOK /\ at = "unique" /\ call.l \in List /\ x \in Node /\ x \in Cell
      /\ own[x] = call.l /\ \A o \in Local : Alone(o)
      /\ call.l \in Object /\ call.l # Nil /\ Nil \notin Local
  BY LocalFacts, ShapeFacts DEF IInv, ReadInv, Uniquing
<1>1. CASE next[x] # call.l
  <2> DEFINE c == next[x]
  <2>1. /\ \/ Unlink(c) /\ x' = x
           \/ UNCHANGED <<next, prev, data, own>> /\ x' = c
        /\ UNCHANGED <<call, at, y, i, fill, back>>
    BY <1>1 DEF Uniquing, links
  <2>2. c \in Cell /\ own[c] = call.l /\ c # x
    BY <1>0, ShapeFacts
  <2>3. c \in Node /\ own[c] # Nil
    BY <1>0, <1>1, <2>2, ChainNode
  <2>4. /\ Shape' /\ own'[x'] = call.l /\ x' \in Node /\ x' \in Cell
        /\ \A d \in Cell : own'[d] = own[d] \/ own'[d] = Nil
    <3> HIDE DEF c
    <3>1. CASE Unlink(c) /\ x' = x
      <4>1. Shape' /\ \A d \in Cell : own'[d] = IF d = c THEN Nil ELSE own[d]
        BY <1>0, <2>3, <3>1, UnlinkStep
      <4>2. QED BY <4>1, <1>0, <2>2, <3>1
    <3>2. CASE UNCHANGED <<next, prev, data, own>> /\ x' = c
      BY <1>0, <2>2, <2>3, <3>2 DEF Shape
    <3>3. QED BY <2>1, <3>1, <3>2
  <2>5. \A o \in Local : Alone(o)'
    BY <1>0, <2>4 DEF Alone
  <2>6. ReadInv'
    BY <1>0, <2>1, <2>4, <2>5 DEF ReadInv
  <2>7. RegsOK' /\ ~Dealt' /\ ~Settles'
    BY <1>0, <2>1, <2>4 DEF RegsOK, Dealt, Settles
  <2>8. QED BY <1>0, <2>1, <2>4, <2>6, <2>7 DEF IInv, IdleInv, ClearInv, TakeOverInv, FillInv, RangeInv,
            MergeInv, SortInv, DealInv, SettleInv
<1>2. CASE next[x] = call.l
  <2>1. Return /\ UNCHANGED <<next, prev, data, own>>
    BY <1>2 DEF Uniquing, links
  <2>2. Shape' /\ \A o \in Local : Alone(o)'
    BY <1>0, <2>1 DEF Shape, Alone
  <2>3. QED BY <2>1, <2>2, ReturnStep
<1>3. QED BY <1>1, <1>2

-----------------------------------------------------------------------------
(* Merges, and the counters of sort.                                       *)

\* Chains are finite, no longer than there are nodes, and disjoint.
LEMMA SizeFacts ==
  ASSUME Shape
  PROVE  /\ \A o \in Object : IsFiniteSet(Members(o)) /\ Size(o) \in Nat /\ Size(o) <= Cardinality(Node)
         /\ Cardinality(Node) \in Nat
         /\ \A o, p \in Object : o # p => Members(o) \cap Members(p) = {}
<1>1. IsFiniteSet(Node)
  BY Capacity
<1>2. Cardinality(Node) \in Nat
  BY ONLY <1>1, FS_CardinalityType
<1>3. ASSUME NEW o \in Object
      PROVE  IsFiniteSet(Members(o)) /\ Size(o) \in Nat /\ Size(o) <= Cardinality(Node)
  <2>1. Members(o) \in SUBSET Node
    BY MembersAreNodes
  <2>2. IsFiniteSet(Members(o)) /\ Cardinality(Members(o)) <= Cardinality(Node)
    BY ONLY <1>1, <2>1, FS_Subset
  <2>3. Cardinality(Members(o)) \in Nat
    BY ONLY <2>2, FS_CardinalityType
  <2>4. QED BY <2>2, <2>3 DEF Size
<1>4. \A o, p \in Object : o # p => Members(o) \cap Members(p) = {}
  BY DEF Members, Positions
<1>5. QED BY <1>2, <1>3, <1>4

\* A chain without members is its sentinel.
LEMMA AloneIsEmpty ==
  ASSUME NEW o \in Object
  PROVE  Alone(o) <=> Members(o) = {}
BY DEF Alone, Members, Positions

\* The nodes S go from m's chain to q's.
Gone(m, q, S) == \A c \in Cell : own'[c] = IF c \in S THEN q ELSE own[c]

\* What the chains hold after such a move.
LEMMA GoneMembers ==
  ASSUME Shape, NEW m \in Object, NEW q \in Object, m # q, NEW S \in SUBSET Members(m), Gone(m, q, S)
  PROVE  /\ Members(m)' = Members(m) \ S
         /\ Members(q)' = Members(q) \cup S
         /\ \A o \in Object : o # m /\ o # q => Members(o)' = Members(o)
         /\ \A o \in Object : own'[o] = own[o] /\ (Alone(o)' <=> Members(o)' = {})
<1>1. S \subseteq Node /\ Node \cap Object = {} /\ Object \subseteq Cell
  BY MembersAreNodes, ShapeFacts
<1>2. QED BY <1>1 DEF Gone, Members, Positions, Alone

\* A step of a merge moves nodes S from one list to the other; it may be the last.
LEMMA MergeMoved ==
  ASSUME IInv, at = "merge", NEW m, From = m, NEW q, Into = q,
         NEW S \in SUBSET Members(m), Gone(m, q, S),
         Shape', RegsOK', UNCHANGED <<call, i, fill, back>>,
         \/ at' = "merge" /\ MergeInv'
         \/ call.op # "merge" /\ at' = back /\ S = Members(m)
  PROVE  IInv'
<1>0. /\ Shape /\ RegsOK /\ q \in Object /\ m \in Object /\ q # m
      /\ call.op # "merge" => back \in {"carried", "settled"}
      /\ SortInv /\ DealInv /\ SettleInv
  BY DEF IInv, MergeInv
<1>1. /\ Members(m)' = Members(m) \ S
      /\ Members(q)' = Members(q) \cup S
      /\ \A o \in Object : o # m /\ o # q => Members(o)' = Members(o)
      /\ \A o \in Object : own'[o] = own[o] /\ (Alone(o)' <=> Members(o)' = {})
      /\ \A o \in Object : Alone(o) <=> Members(o) = {}
  BY <1>0, GoneMembers, AloneIsEmpty
<1>2. IdleInv' /\ ClearInv' /\ TakeOverInv' /\ FillInv' /\ RangeInv' /\ ReadInv' /\ MergeInv'
  BY <1>0 DEF IdleInv, ClearInv, TakeOverInv, FillInv, RangeInv, ReadInv, MergeInv
<1>3. PICK j \in Nat : i = j /\ i' = j
  BY <1>0 DEF RegsOK
<1>4. PICK g \in 0..Fills : fill = g /\ fill' = g
  BY <1>0 DEF RegsOK
<1>5. PICK l : call.l = l /\ call'.l = l
  OBVIOUS
<1>6. call' = call /\ back' = back
  OBVIOUS
<1>7. CASE call.op = "merge"
  BY <1>2, <1>7 DEF IInv, SortInv, DealInv, SettleInv, Dealt, Settles
<1>8. CASE call.op # "merge" /\ back = "carried"
  <2>1. q = j /\ m = Carry /\ Dealt /\ ~Settles /\ Dealt' /\ ~Settles'
    BY <1>3, <1>6, <1>8 DEF Into, From, Dealt, Settles
  <2>2. /\ call.op = "sort" /\ l \in List /\ own[l] = l
        /\ \A o \in Local : own[o] = o
        /\ \A k \in Counter : k >= g => Alone(k)
    BY <1>0, <1>4, <1>5, <2>1 DEF SortInv
  <2>3. /\ \A k \in Counter : k < g => Alone(k) \/ Size(k) >= 2^k
        /\ j < g /\ Cardinality(Members(j) \cup Members(Carry)) >= 2^(j + 1)
        /\ Size(j) >= 2^j
    BY <1>0, <1>3, <1>4, <2>1 DEF DealInv
  <2>4. /\ Counter \subseteq Object /\ Local \subseteq Object /\ List \subseteq Object /\ Carry \notin Counter
        /\ Counter \subseteq Nat /\ Carry \in Object
    BY LocalFacts
  <2>5. j \in Counter
    BY <1>4, <2>3, Sorts DEF Counter
  <2>6. \A k \in Counter : k # j => Members(k)' = Members(k) /\ (Alone(k)' <=> Alone(k))
    BY <1>1, <2>1, <2>4
  <2>7. SortInv'
    <3>1. /\ call'.op = "sort" /\ own'[l] = l /\ \A o \in Local : own'[o] = o
      BY <1>1, <1>6, <2>2, <2>4
    <3>2. ASSUME NEW k \in Counter, k >= g PROVE Alone(k)'
      BY <2>2, <2>3, <2>4, <2>6, <1>4, <3>2
    <3>3. QED BY <1>4, <1>5, <2>2, <3>1, <3>2 DEF SortInv
  <2>8. Members(j)' \cup Members(Carry)' = Members(j) \cup Members(Carry)
    BY <1>1, <2>1
  <2>9. Cardinality(Members(j)') >= 2^j
    <3> DEFINE A == Members(j)
               B == Members(j)'
    <3>1. IsFiniteSet(A) /\ Cardinality(A) \in Nat /\ IsFiniteSet(Members(Carry)) /\ Cardinality(A) >= 2^j
      BY <1>0, <2>1, <2>3, <2>4, SizeFacts DEF Size
    <3>2. B \in SUBSET (A \cup Members(Carry)) /\ A \in SUBSET B
      BY <1>1, <2>1, <2>8
    <3> HIDE DEF A, B
    <3>3. IsFiniteSet(A \cup Members(Carry))
      BY ONLY <3>1, FS_Union
    <3>4. IsFiniteSet(B)
      BY ONLY <3>2, <3>3, FS_Subset
    <3>5. Cardinality(A) <= Cardinality(B) /\ Cardinality(B) \in Nat
      BY ONLY <3>2, <3>4, FS_Subset, FS_CardinalityType
    <3>6. 2^j \in Nat
      BY PowerOfTwo
    <3>7. Cardinality(B) >= 2^j
      BY <3>1, <3>5, <3>6
    <3>8. QED BY <3>7 DEF B
  <2>10. \A k \in Counter : k < g => Alone(k)' \/ Cardinality(Members(k)') >= 2^k
    <3>1. SUFFICES ASSUME NEW k \in Counter, k < g PROVE Alone(k)' \/ Cardinality(Members(k)') >= 2^k
      OBVIOUS
    <3>2. CASE k = j
      BY <2>9, <3>2
    <3>3. CASE k # j
      BY <2>3, <2>6, <3>1, <3>3 DEF Size
    <3>4. QED BY <3>2, <3>3
  <2>11. at' = "carried" => Alone(Carry)'
    BY <1>1, <1>8, <2>1, <2>4
  <2>12. DealInv'
    BY <1>3, <1>4, <1>8, <2>1, <2>3, <2>8, <2>9, <2>10, <2>11 DEF DealInv, Size
  <2>13. QED BY <1>0, <1>2, <2>1, <2>7, <2>12 DEF IInv, SettleInv
<1>9. CASE call.op # "merge" /\ back = "settled"
  <2>1. q = j /\ m = j - 1 /\ ~Dealt /\ Settles /\ ~Dealt' /\ Settles'
    BY <1>3, <1>6, <1>9 DEF Into, From, Dealt, Settles
  <2>2. /\ call.op = "sort" /\ l \in List /\ own[l] = l
        /\ \A o \in Local : own[o] = o
        /\ \A k \in Counter : k >= g => Alone(k)
    BY <1>0, <1>4, <1>5, <2>1 DEF SortInv
  <2>3. /\ Alone(l) /\ Alone(Carry)
        /\ j \in 1..g /\ j < g
        /\ \A k \in Counter : k < j - 1 => Alone(k)
    BY <1>0, <1>3, <1>4, <1>5, <2>1 DEF SettleInv
  <2>4. /\ Counter \subseteq Object /\ Local \subseteq Object /\ List \subseteq Object /\ Carry \notin Counter
        /\ Counter \subseteq Nat /\ Carry \in Object /\ List \cap Local = {} /\ Counter \subseteq Local
    BY LocalFacts
  <2>5. j \in Counter /\ j - 1 \in Counter
    BY <1>4, <2>3, Sorts DEF Counter
  <2>6. \A o \in Object : o # j /\ o # j - 1 => (Alone(o)' <=> Alone(o))
    BY <1>1, <2>1
  <2>7. SortInv'
    <3>1. /\ call'.op = "sort" /\ own'[l] = l /\ \A o \in Local : own'[o] = o
      BY <1>1, <1>6, <2>2, <2>4
    <3>2. ASSUME NEW k \in Counter, k >= g PROVE Alone(k)'
      BY <2>2, <2>3, <2>4, <2>6, <1>4, <3>2
    <3>3. QED BY <1>4, <1>5, <2>2, <3>1, <3>2 DEF SortInv
  <2>8. Alone(l)' /\ Alone(Carry)'
    BY <2>2, <2>3, <2>4, <2>5, <2>6
  <2>9. \A k \in Counter : k < j - 1 => Alone(k)'
    BY <2>3, <2>4, <2>6
  <2>10. at' = "settled" => Alone(j - 1)'
    <3>1. SUFFICES ASSUME at' = "settled" PROVE Alone(m)'
      BY <2>1
    <3>2. S = Members(m)
      BY <3>1
    <3>3. QED BY <3>2, <1>0, <1>1
  <2>11. at' # "settle"
    BY <1>9
  <2>12. SettleInv'
    BY <1>3, <1>4, <1>5, <2>3, <2>8, <2>9, <2>10, <2>11 DEF SettleInv, Alone
  <2>13. QED BY <1>0, <1>2, <2>1, <2>7, <2>12 DEF IInv, DealInv
<1>10. QED BY <1>0, <1>7, <1>8, <1>9

\* From the head of a list, every run that ends at the sentinel is all of it.
LEMMA RunIsAll ==
  ASSUME Shape, NEW o \in Object, own[o] = o, NEW S \in SUBSET Members(o), IsRun(S, next[o], o)
  PROVE  S = Members(o)
<1>1. o \in Cell /\ Reaches(next, own) /\ S \cup {o} \in SUBSET Cell /\ o \notin S
  BY ShapeFacts DEF Shape, Rings, Half, Members, Positions
<1>2. Closed(next, own, o, S \cup {o})
  BY DEF Closed, IsRun
<1>3. \A c \in Cell : own[c] = o => c \in S \cup {o}
  BY <1>1, <1>2 DEF Reaches
<1>4. QED BY <1>3 DEF Members, Positions

\* An iteration of merge, whether the caller runs it or sort does.
LEMMA MergingInv ==
  ASSUME IInv, Merging
  PROVE  IInv'
<1>1. /\ Shape /\ RegsOK /\ at = "merge" /\ Into \in Object /\ From \in Object /\ Into # From
      /\ x \in Cell /\ own[x] = Into /\ own[From] = From /\ y = next[From]
      /\ call.op = "merge" => /\ call.l \in List /\ call.m \in List /\ back = "idle"
                              /\ \A o \in Local : Alone(o)
      /\ call.op # "merge" => back \in {"carried", "settled"}
  BY DEF IInv, MergeInv, Merging
<1>2. PICK m, q : m = From /\ q = Into
  OBVIOUS
<1>3. /\ m \in Object /\ q \in Object /\ q # m /\ m \in Cell /\ m # Nil /\ q # Nil
      /\ own[x] = q /\ own[m] = m /\ y = next[m] /\ y \in Cell /\ own[y] = m
      /\ next[x] \in Cell /\ own[next[x]] = q /\ prev[y] = m
      /\ Object \subseteq Cell /\ Node \subseteq Cell /\ Nil \notin Cell
      /\ own[x] # Nil
  BY <1>1, <1>2, ShapeFacts
<1>4. ASSUME call' = call, i' = i, back' = back PROVE Into' = q /\ From' = m
  BY <1>2, <1>4 DEF Into, From
<1>5. CASE x # q /\ y # m /\ Transfer(x, y, next[y], {y}) /\ y' = next[y] /\ UNCHANGED <<call, at, x, i, fill, back>>
  <2>1. y \in Members(m) /\ y \in Node /\ next[y] \in Cell /\ own[next[y]] = m /\ next[y] # y
    BY <1>1, <1>3, <1>5, ChainNode, ShapeFacts DEF Members, Positions
  <2>2. next[y] \in Positions(m) /\ {y} \in SUBSET Members(m) /\ IsRun({y}, y, next[y])
    BY <2>1 DEF Positions, IsRun
  <2>3. x \notin {y} /\ x # next[y]
    BY <1>3, <2>1
  <2>4. /\ Shape'
        /\ \A c \in Cell : own'[c] = IF c \in {y} THEN own[x] ELSE own[c]
        /\ next'[prev[y]] = next[y]
    <3>1. PICK S : S = {y}
      OBVIOUS
    <3>2. S \in SUBSET Members(m) /\ IsRun(S, y, next[y]) /\ x \notin S /\ Transfer(x, y, next[y], S)
      BY <1>5, <2>2, <2>3, <3>1
    <3>3. /\ Shape'
          /\ \A c \in Cell : own'[c] = IF c \in S THEN own[x] ELSE own[c]
          /\ next'[prev[y]] = next[y]
      BY <1>1, <1>3, <2>2, <2>3, <3>2, TransferStep
    <3>4. QED BY <3>1, <3>3
  <2>5. Gone(m, q, {y})
    BY <1>3, <2>4 DEF Gone
  <2>6. own'[x] = q /\ own'[m] = m /\ y' = next'[m]
    BY <1>1, <1>3, <1>5, <2>1, <2>4, ShapeFacts
  <2>7. at' = "merge" /\ Into' = q /\ From' = m /\ call' = call /\ back' = back
    BY <1>1, <1>4, <1>5
  <2>8. call.op = "merge" => \A o \in Local : Alone(o)'
    <3>1. SUFFICES ASSUME call.op = "merge", NEW o \in Local PROVE Alone(o)'
      OBVIOUS
    <3>2. q \in List /\ q # o
      BY <1>1, <1>2, <3>1, LocalFacts DEF Into
    <3>3. QED BY <1>1, <3>1, <3>2, <2>5 DEF Gone, Alone
  <2>9. MergeInv'
    BY <1>1, <1>3, <1>5, <2>6, <2>7, <2>8 DEF MergeInv
  <2>10. RegsOK'
    BY <1>1, <1>3, <1>5, <2>1 DEF RegsOK
  <2>11. QED BY <1>1, <1>2, <1>5, <2>2, <2>4, <2>5, <2>7, <2>9, <2>10, MergeMoved
<1>6. CASE x' = next[x] /\ UNCHANGED <<next, prev, data, own, call, at, y, i, fill, back>>
  <2>1. Shape' /\ Gone(m, q, {}) /\ {} \in SUBSET Members(m)
    BY <1>1, <1>6 DEF Shape, Gone
  <2>2. at' = "merge" /\ Into' = q /\ From' = m
    BY <1>1, <1>4, <1>6
  <2>3. MergeInv'
    BY <1>1, <1>3, <1>6, <2>2 DEF MergeInv, Alone
  <2>4. RegsOK'
    BY <1>1, <1>3, <1>6 DEF RegsOK
  <2>5. QED BY <1>1, <1>2, <1>6, <2>1, <2>2, <2>3, <2>4, MergeMoved
<1>7. ASSUME NEW S, S = Members(m), Shape', Gone(m, q, S), Merged
      PROVE  IInv'
  <2>1. CASE call.op = "merge"
    <3>1. Return
      BY <2>1, <1>7 DEF Merged
    <3>2. q \in List
      BY <1>1, <1>2, <2>1 DEF Into
    <3>3. \A o \in Local : Alone(o)'
      BY <1>1, <1>7, <2>1, <3>2, LocalFacts DEF Gone, Alone
    <3>4. QED BY <1>7, <3>1, <3>3, ReturnStep
  <2>2. CASE call.op # "merge"
    <3>1. at' = back /\ UNCHANGED <<call, x, y, i, fill, back>>
      BY <2>2, <1>7 DEF Merged
    <3>2. RegsOK'
      BY <1>1, <2>2, <3>1 DEF RegsOK
    <3>3. S \in SUBSET Members(m)
      BY <1>7
    <3>4. QED BY <1>1, <1>2, <1>7, <2>2, <3>1, <3>2, <3>3, MergeMoved
  <2>3. QED BY <2>1, <2>2
<1>8. CASE /\ x = q /\ y # m
           /\ \E S \in SUBSET Members(m) : IsRun(S, y, m) /\ Transfer(q, y, m, S)
           /\ Merged
  <2>1. PICK S \in SUBSET Members(m) : IsRun(S, y, m) /\ Transfer(q, y, m, S)
    BY <1>8
  <2>2. S = Members(m)
    BY <1>1, <1>3, <2>1, RunIsAll
  <2>3. m \in Positions(m) /\ q \in Cell /\ own[q] = q /\ q \notin S
    BY <1>1, <1>3, <1>8, <2>1, ShapeFacts DEF Positions, Members
  <2>4. Shape' /\ \A c \in Cell : own'[c] = IF c \in S THEN own[q] ELSE own[c]
    BY <1>1, <1>3, <2>1, <2>3, TransferStep
  <2>5. Gone(m, q, S)
    BY <2>3, <2>4 DEF Gone
  <2>6. QED BY <1>7, <1>8, <2>2, <2>4, <2>5
<1>9. CASE y = m /\ UNCHANGED <<next, prev, data, own>> /\ Merged
  <2>1. Members(m) = {}
    BY <1>1, <1>3, <1>9, EmptyIsAlone, MembersAreNodes DEF Empty
  <2>2. Shape' /\ Gone(m, q, {})
    BY <1>1, <1>9 DEF Shape, Gone
  <2>3. QED BY <1>7, <1>9, <2>1, <2>2
<1>10. QED
  BY <1>2, <1>5, <1>6, <1>8, <1>9 DEF Merging, links

\* What sort has dealt, in terms of rigid names for its cursors.
LEMMA DealtFacts ==
  ASSUME IInv, Dealt, NEW j, i = j, NEW g, fill = g, NEW l, call.l = l
  PROVE  /\ Shape /\ RegsOK /\ call.op = "sort" /\ l \in List /\ own[l] = l /\ l \in Object /\ l \notin Local
         /\ \A o \in Local : own[o] = o
         /\ g \in 0..Fills /\ j \in Nat
         /\ \A k \in Counter : k >= g => Alone(k)
         /\ \A k \in Counter : k < g => Alone(k) \/ Size(k) >= 2^k
<1>1. Shape /\ RegsOK /\ SortInv /\ DealInv
  BY DEF IInv
<1>2. /\ call.op = "sort" /\ l \in List /\ own[l] = l
      /\ \A o \in Local : own[o] = o
      /\ \A k \in Counter : k >= g => Alone(k)
      /\ \A k \in Counter : k < g => Alone(k) \/ Size(k) >= 2^k
  BY <1>1 DEF SortInv, DealInv
<1>3. g \in 0..Fills /\ j \in Nat
  BY <1>1 DEF RegsOK
<1>4. QED BY <1>1, <1>2, <1>3, LocalFacts

\* What is to be shown while sort deals...
LEMMA DealtAfter ==
  ASSUME Shape', RegsOK', at' \in {"deal", "carry", "carried"} \/ (at' = "merge" /\ back' = "carried" /\ MergeInv'),
         NEW g \in 0..Fills, fill' = g, NEW l \in List, call'.l = l, call'.op = "sort", own'[l] = l,
         NEW j \in Nat, i' = j,
         \A o \in Local : own'[o] = o,
         \A k \in Counter : k >= g => Alone(k)',
         \A k \in Counter : k < g => Alone(k)' \/ Cardinality(Members(k)') >= 2^k,
         at' = "deal" => Alone(Carry)' /\ (g = 0 => next'[l] # l),
         at' = "carry" => j <= g /\ Cardinality(Members(Carry)') >= 2^j,
         at' \in {"merge", "carried"} =>
            j < g /\ Cardinality(Members(j)' \cup Members(Carry)') >= 2^(j + 1),
         at' = "merge" => Cardinality(Members(j)') >= 2^j,
         at' = "carried" => Alone(Carry)'
  PROVE  IInv'
<1>1. Dealt' /\ ~Settles'
  BY DEF Dealt, Settles
<1>2. SortInv'
  BY DEF SortInv
<1>3. DealInv'
  BY DEF DealInv, Size
<1>4. QED BY <1>1, <1>2, <1>3 DEF IInv, IdleInv, ClearInv, TakeOverInv, FillInv, RangeInv, ReadInv, MergeInv, SettleInv

\* ... and while it settles.
LEMMA SettlesAfter ==
  ASSUME Shape', RegsOK', at' \in {"settle", "settled"} \/ (at' = "merge" /\ back' = "settled" /\ MergeInv'),
         NEW g \in 0..Fills, fill' = g, NEW l \in List, call'.l = l, call'.op = "sort", own'[l] = l,
         NEW j \in Nat, i' = j,
         \A o \in Local : own'[o] = o,
         \A k \in Counter : k >= g => Alone(k)',
         Alone(l)', Alone(Carry)', j \in 1..g,
         \A k \in Counter : k < j - 1 => Alone(k)',
         at' # "settle" => j < g,
         at' = "settled" => Alone(j - 1)'
  PROVE  IInv'
<1>1. ~Dealt' /\ Settles'
  BY DEF Dealt, Settles
<1>2. SortInv'
  BY DEF SortInv
<1>3. SettleInv'
  BY DEF SettleInv, Alone
<1>4. QED BY <1>1, <1>2, <1>3 DEF IInv, IdleInv, ClearInv, TakeOverInv, FillInv, RangeInv, ReadInv, MergeInv, DealInv

\* swap of two sentinels swaps what their chains hold.
LEMMA ExchangeMembers ==
  ASSUME Shape, NEW o \in Object, NEW p \in Object, own[o] = o, own[p] = p, Exchange(o, p)
  PROVE  /\ Shape'
         /\ Members(o)' = Members(p) /\ Members(p)' = Members(o)
         /\ \A r \in Object : r # o /\ r # p => Members(r)' = Members(r)
         /\ \A r \in Object : own'[r] = own[r] /\ (Alone(r)' <=> Members(r)' = {})
<1>1. /\ Shape' /\ \A c \in Cell : own'[c] = Other(o, p, own[Other(o, p, c)])
  BY ExchangeStep
<1>2. /\ \A r \in Object : Members(r) \in SUBSET Node /\ own[r] \in {r, Nil}
      /\ Object \subseteq Cell /\ Node \subseteq Cell /\ Node \cap Object = {} /\ Nil \notin Object
  BY MembersAreNodes, ShapeFacts, LocalFacts
<1>3. \A r \in Object : own'[r] = own[r]
  BY <1>1, <1>2 DEF Other
<1>4. \A n \in Node : own'[n] = Other(o, p, own[n])
  BY <1>1, <1>2, OtherFacts
<1>5. ASSUME NEW r \in Object PROVE Members(r)' = {n \in Node : own'[n] = r}
  BY <1>2, <1>3 DEF Members, Positions, Cell
<1>6. ASSUME NEW r \in Object PROVE Members(r) = {n \in Node : own[n] = r}
  BY <1>2 DEF Members, Positions, Cell
<1>7. Members(o)' = Members(p) /\ Members(p)' = Members(o)
  BY <1>4, <1>5, <1>6 DEF Other
<1>8. \A r \in Object : r # o /\ r # p => Members(r)' = Members(r)
  BY <1>4, <1>5, <1>6 DEF Other
<1>9. \A r \in Object : Alone(r)' <=> Members(r)' = {}
  BY DEF Alone, Members, Positions
<1>10. QED BY <1>1, <1>3, <1>7, <1>8, <1>9

\* sort takes the next element into carry, or has dealt them all.
LEMMA DealingInv ==
  ASSUME IInv, Dealing
  PROVE  IInv'
<1>1. PICK j, g, l : i = j /\ fill = g /\ call.l = l
  OBVIOUS
<1>2. at = "deal" /\ Dealt
  BY DEF Dealing, Dealt
<1>3. /\ Shape /\ RegsOK /\ call.op = "sort" /\ l \in List /\ own[l] = l /\ l \in Object /\ l \notin Local
      /\ \A o \in Local : own[o] = o
      /\ g \in 0..Fills /\ j \in Nat
      /\ \A k \in Counter : k >= g => Alone(k)
      /\ \A k \in Counter : k < g => Alone(k) \/ Size(k) >= 2^k
      /\ Alone(Carry) /\ (g = 0 => next[l] # l)
  <2>1. Alone(Carry) /\ (g = 0 => next[l] # l)
    BY <1>1, <1>2 DEF IInv, DealInv
  <2>2. QED BY <1>1, <1>2, <2>1, DealtFacts
<1>4. /\ Carry \in Local /\ Counter \subseteq Local /\ Local \subseteq Object /\ Carry \notin Counter
      /\ Counter \subseteq Nat /\ Object \subseteq Cell /\ Node \subseteq Cell /\ Nil \notin Cell
  BY LocalFacts, <1>3, ShapeFacts
<1>5. CASE ~Empty(l)
  <2>1. PICK f, S : f = next[l] /\ S = {f}
    OBVIOUS
  <2>2. Transfer(next[Carry], f, next[f], S) /\ i' = 0 /\ at' = "carry" /\ UNCHANGED <<call, x, y, fill, back>>
    BY <1>1, <1>5, <2>1 DEF Dealing, Go
  <2>3. f \in Members(l) /\ f \in Node /\ f \in Cell /\ own[f] = l /\ next[f] \in Cell /\ own[next[f]] = l /\ next[f] # f
    <3>1. f \in Members(l) /\ f \in Node
      BY <1>3, <1>5, <2>1, EmptyIsAlone, MembersAreNodes
    <3>2. f \in Cell /\ own[f] = l /\ l # Nil
      BY <1>4, <3>1, <1>3 DEF Members, Positions
    <3>3. QED BY <1>3, <3>1, <3>2, ShapeFacts
  <2>4. next[Carry] = Carry /\ own[Carry] = Carry /\ Carry # Nil /\ Carry \in Cell /\ Carry # l
    BY <1>3, <1>4, EmptyIsAlone DEF Empty
  <2>5. S \in SUBSET Members(l) /\ IsRun(S, f, next[f]) /\ next[f] \in Positions(l) /\ Carry \notin S /\ Carry # next[f]
    BY <2>1, <2>3, <2>4 DEF IsRun, Positions
  <2>6. Transfer(Carry, f, next[f], S)
    BY <2>2, <2>4
  <2>7. Shape' /\ \A c \in Cell : own'[c] = IF c \in S THEN own[Carry] ELSE own[c]
    BY <1>3, <2>4, <2>5, <2>6, TransferStep
  <2>8. Gone(l, Carry, S)
    BY <2>4, <2>7 DEF Gone
  <2>9. /\ Members(Carry)' = Members(Carry) \cup S
        /\ \A o \in Object : o # l /\ o # Carry => Members(o)' = Members(o)
        /\ \A o \in Object : own'[o] = own[o] /\ (Alone(o)' <=> Members(o)' = {})
    BY <1>3, <1>4, <2>4, <2>5, <2>8, GoneMembers
  <2>10. Members(Carry)' = {f}
    BY <1>3, <1>4, <2>1, <2>9, AloneIsEmpty
  <2>11. Cardinality(Members(Carry)') >= 2^0
    <3>1. Cardinality({f}) = 1
      BY FS_Singleton
    <3>2. 2^0 = 1
      OBVIOUS
    <3>3. QED BY <2>10, <3>1, <3>2
  <2>12. \A k \in Counter : (Alone(k)' <=> Alone(k)) /\ Members(k)' = Members(k)
    BY <1>3, <1>4, <2>9, AloneIsEmpty
  <2>13. RegsOK'
    BY <1>3, <2>2 DEF RegsOK
  <2>14. \A o \in Local : own'[o] = o
    BY <1>3, <1>4, <2>9
  <2>15. \A k \in Counter : k >= g => Alone(k)'
    BY <1>3, <2>12
  <2>16. \A k \in Counter : k < g => Alone(k)' \/ Cardinality(Members(k)') >= 2^k
    BY <1>3, <2>12 DEF Size
  <2>17. at' = "carry" /\ own'[l] = l /\ fill' = g /\ call'.l = l /\ call'.op = "sort" /\ i' = 0 /\ 0 <= g
    BY <1>1, <1>3, <2>2, <2>9
  <2>18. QED
    BY <1>3, <2>7, <2>11, <2>13, <2>14, <2>15, <2>16, <2>17, DealtAfter
<1>6. CASE Empty(l)
  <2>1. UNCHANGED <<next, prev, data, own>> /\ i' = 1 /\ at' = "settle" /\ UNCHANGED <<call, x, y, fill, back>>
    BY <1>1, <1>6 DEF Dealing, Go, links
  <2>2. Shape' /\ RegsOK'
    BY <1>3, <2>1 DEF Shape, RegsOK
  <2>3. Alone(l)
    BY <1>3, <1>6, EmptyIsAlone
  <2>4. \A o : Alone(o)' <=> Alone(o)
    BY <2>1 DEF Alone
  <2>5. g >= 1
    BY <1>3, <1>6 DEF Empty
  <2>6. /\ at' = "settle" /\ own'[l] = l /\ fill' = g /\ call'.l = l /\ call'.op = "sort" /\ i' = 1
        /\ \A o \in Local : own'[o] = o
    BY <1>1, <1>3, <2>1
  <2>7. /\ Alone(l)' /\ Alone(Carry)'
        /\ \A k \in Counter : k >= g => Alone(k)'
        /\ \A k \in Counter : k < 1 - 1 => Alone(k)'
    BY <1>3, <1>4, <2>3, <2>4
  <2>8. QED
    BY <1>3, <2>2, <2>5, <2>6, <2>7, SettlesAfter
<1>7. QED BY <1>5, <1>6

\* sort finds the place for carry.  A carry at counter i holds 2^i nodes at least,
\* so that there is a counter for it as long as there are fewer than 2^Fills nodes.
LEMMA CarryingInv ==
  ASSUME IInv, Carrying
  PROVE  IInv'
<1>1. PICK j, g, l : i = j /\ fill = g /\ call.l = l
  OBVIOUS
<1>2. at = "carry" /\ Dealt
  BY DEF Carrying, Dealt
<1>3. /\ Shape /\ RegsOK /\ call.op = "sort" /\ l \in List /\ own[l] = l /\ l \in Object /\ l \notin Local
      /\ \A o \in Local : own[o] = o
      /\ g \in 0..Fills /\ j \in Nat
      /\ \A k \in Counter : k >= g => Alone(k)
      /\ \A k \in Counter : k < g => Alone(k) \/ Size(k) >= 2^k
      /\ j <= g /\ Size(Carry) >= 2^j
  <2>1. j <= g /\ Size(Carry) >= 2^j
    BY <1>1, <1>2 DEF IInv, DealInv
  <2>2. QED BY <1>1, <1>2, <2>1, DealtFacts
<1>4. /\ Carry \in Local /\ Counter \subseteq Local /\ Local \subseteq Object /\ Carry \notin Counter
      /\ Counter \subseteq Nat /\ Object \subseteq Cell /\ Carry \in Object /\ Nil \notin Object
  BY LocalFacts, <1>3, ShapeFacts
<1>5. CASE /\ j < g /\ ~Empty(j)
           /\ at' = "merge" /\ back' = "carried" /\ x' = next[j] /\ y' = next[Carry]
           /\ UNCHANGED <<next, prev, data, own, call, i, fill>>
  <2>1. j \in Counter
    BY <1>3, <1>5, Sorts DEF Counter
  <2>2. j \in Object /\ own[j] = j /\ own[Carry] = Carry /\ j # Carry
    BY <1>3, <1>4, <2>1
  <2>3. next[j] \in Cell /\ own[next[j]] = j /\ next[Carry] \in Cell
    BY <1>3, <1>4, <2>2, ShapeFacts
  <2>4. ~Alone(j)
    BY <1>3, <1>5, <2>2, EmptyIsAlone
  <2>5. Size(j) >= 2^j
    BY <1>3, <1>5, <2>1, <2>4
  <2>6. Cardinality(Members(j) \cup Members(Carry)) >= 2^(j + 1)
    <3> DEFINE A == Members(j)
               B == Members(Carry)
    <3>1. IsFiniteSet(A) /\ IsFiniteSet(B) /\ A \cap B = {} /\ Cardinality(A) \in Nat /\ Cardinality(B) \in Nat
          /\ Cardinality(A) >= 2^j /\ Cardinality(B) >= 2^j
      BY <1>3, <1>4, <2>2, <2>5, SizeFacts DEF Size
    <3> HIDE DEF A, B
    <3>2. Cardinality(A \cup B) = Cardinality(A) + Cardinality(B) - Cardinality(A \cap B)
      BY ONLY <3>1, FS_Union
    <3>3. Cardinality(A \cap B) = 0
      BY ONLY <3>1, FS_EmptySet
    <3>4. 2^j \in Nat /\ 2^(j + 1) = 2 * 2^j
      BY <1>3, PowerOfTwo
    <3>5. Cardinality(A \cup B) >= 2^(j + 1)
      BY ONLY <3>1, <3>2, <3>3, <3>4
    <3>6. QED BY <3>5 DEF A, B
  <2>7. Shape' /\ (\A o : Alone(o)' <=> Alone(o)) /\ (\A o \in Object : Members(o)' = Members(o))
    BY <1>3, <1>5 DEF Shape, Alone, Members, Positions
  <2>8. RegsOK'
    BY <1>3, <1>5, <2>3 DEF RegsOK
  <2>9. Into' = j /\ From' = Carry
    BY <1>1, <1>3, <1>5 DEF Into, From
  <2>10. MergeInv'
    BY <1>3, <1>4, <1>5, <2>2, <2>3, <2>9 DEF MergeInv
  <2>11. /\ at' = "merge" /\ back' = "carried" /\ own'[l] = l /\ fill' = g /\ call'.l = l /\ call'.op = "sort" /\ i' = j
         /\ \A o \in Local : own'[o] = o
    BY <1>1, <1>3, <1>5
  <2>12. /\ \A k \in Counter : k >= g => Alone(k)'
         /\ \A k \in Counter : k < g => Alone(k)' \/ Cardinality(Members(k)') >= 2^k
         /\ Cardinality(Members(j)') >= 2^j
         /\ Cardinality(Members(j)' \cup Members(Carry)') >= 2^(j + 1)
    BY <1>3, <1>4, <2>2, <2>5, <2>6, <2>7 DEF Size
  <2>13. QED
    BY <1>3, <1>5, <2>7, <2>8, <2>10, <2>11, <2>12, DealtAfter
<1>6. CASE /\ j = g \/ Empty(j)
           /\ Exchange(Carry, j)
           /\ fill' = IF j = g THEN g + 1 ELSE g
           /\ at' = "deal" /\ UNCHANGED <<call, back, x, y, i>>
  <2>1. j # Fills
    <3>1. 2^j \in Nat /\ Size(Carry) \in Nat /\ Cardinality(Node) \in Nat /\ Size(Carry) <= Cardinality(Node)
      BY <1>3, <1>4, SizeFacts, PowerOfTwo
    <3>2. Cardinality(Node) < 2^Fills
      BY Capacity
    <3>3. SUFFICES ASSUME j = Fills PROVE FALSE
      OBVIOUS
    <3>4. Cardinality(Node) < 2^j
      BY <3>2, <3>3
    <3>5. QED BY ONLY <1>3, <3>1, <3>4
  <2>2. j \in Counter /\ j \in Object /\ own[j] = j /\ own[Carry] = Carry /\ j # Carry
    <3>1. j \in Counter
      BY <1>3, <2>1, Sorts DEF Counter
    <3>2. QED BY <3>1, <1>3, <1>4
  <2>3. Alone(j) /\ Members(j) = {}
    BY <1>3, <1>6, <2>2, EmptyIsAlone, AloneIsEmpty
  <2>4. PICK h : h = IF j = g THEN g + 1 ELSE g
    OBVIOUS
  <2>5. h \in 0..Fills /\ h # 0 /\ h >= g /\ h > j /\ fill' = h
    <3>1. j < Fills
      BY <2>2, Sorts DEF Counter
    <3>2. fill' = h /\ j \in Nat /\ j <= g /\ g \in Nat /\ g <= Fills /\ Fills \in Nat
      BY <1>3, <1>6, <2>4, Sorts
    <3>3. CASE j = g
      BY <2>4, <3>1, <3>2, <3>3
    <3>4. CASE j # g
      BY <2>4, <3>1, <3>2, <3>4
    <3>5. QED BY <3>3, <3>4
  <2>6. /\ Shape'
        /\ Members(Carry)' = Members(j) /\ Members(j)' = Members(Carry)
        /\ \A r \in Object : r # Carry /\ r # j => Members(r)' = Members(r)
        /\ \A r \in Object : own'[r] = own[r] /\ (Alone(r)' <=> Members(r)' = {})
    BY <1>3, <1>4, <1>6, <2>2, ExchangeMembers
  <2>7. RegsOK'
    BY <1>3, <1>6, <2>5 DEF RegsOK
  <2>8. \A k \in Counter : k # j => (Alone(k)' <=> Alone(k)) /\ Members(k)' = Members(k)
    BY <1>4, <2>2, <2>6, AloneIsEmpty
  <2>9. \A k \in Counter : k >= h => Alone(k)'
    BY <1>3, <1>4, <2>5, <2>8
  <2>10. \A k \in Counter : k < h => Alone(k)' \/ Cardinality(Members(k)') >= 2^k
    <3>1. SUFFICES ASSUME NEW k \in Counter, k < h PROVE Alone(k)' \/ Cardinality(Members(k)') >= 2^k
      OBVIOUS
    <3>2. CASE k = j
      BY <1>3, <2>6, <3>2 DEF Size
    <3>3. CASE k # j
      <4>1. k < g
        BY <1>3, <1>4, <2>4, <3>1, <3>3
      <4>2. QED BY <1>3, <2>8, <3>3, <4>1 DEF Size
    <3>4. QED BY <3>2, <3>3
  <2>11. /\ at' = "deal" /\ own'[l] = l /\ call'.l = l /\ call'.op = "sort" /\ i' = j
         /\ \A o \in Local : own'[o] = o
    BY <1>1, <1>3, <1>4, <1>6, <2>6
  <2>12. Alone(Carry)'
    BY <1>4, <2>3, <2>6
  <2>13. QED
    BY <1>3, <2>5, <2>6, <2>7, <2>9, <2>10, <2>11, <2>12, DealtAfter
<1>7. QED
  BY <1>1, <1>5, <1>6 DEF Carrying, Go, links

\* After a merge into counter i, carry takes its place and goes one further.
LEMMA CarriedInv ==
  ASSUME IInv, Carried
  PROVE  IInv'
<1>1. PICK j, g, l : i = j /\ fill = g /\ call.l = l
  OBVIOUS
<1>2. at = "carried" /\ Dealt
  BY DEF Carried, Dealt
<1>3. /\ Shape /\ RegsOK /\ call.op = "sort" /\ l \in List /\ own[l] = l /\ l \in Object /\ l \notin Local
      /\ \A o \in Local : own[o] = o
      /\ g \in 0..Fills /\ j \in Nat
      /\ \A k \in Counter : k >= g => Alone(k)
      /\ \A k \in Counter : k < g => Alone(k) \/ Size(k) >= 2^k
      /\ j < g /\ Cardinality(Members(j) \cup Members(Carry)) >= 2^(j + 1) /\ Alone(Carry)
  <2>1. j < g /\ Cardinality(Members(j) \cup Members(Carry)) >= 2^(j + 1) /\ Alone(Carry)
    BY <1>1, <1>2 DEF IInv, DealInv
  <2>2. QED BY <1>1, <1>2, <2>1, DealtFacts
<1>4. /\ Carry \in Local /\ Counter \subseteq Local /\ Local \subseteq Object /\ Carry \notin Counter
      /\ Counter \subseteq Nat /\ Object \subseteq Cell /\ Carry \in Object
  BY LocalFacts, <1>3, ShapeFacts
<1>5. j \in Counter /\ j \in Object /\ own[j] = j /\ own[Carry] = Carry /\ j # Carry
  <2>1. j \in Counter
    BY <1>3, Sorts DEF Counter
  <2>2. QED BY <2>1, <1>3, <1>4
<1>6. Exchange(Carry, j) /\ i' = j + 1 /\ at' = "carry" /\ UNCHANGED <<call, back, x, y, fill>>
  BY <1>1 DEF Carried, Go
<1>7. /\ Shape'
      /\ Members(Carry)' = Members(j) /\ Members(j)' = Members(Carry)
      /\ \A r \in Object : r # Carry /\ r # j => Members(r)' = Members(r)
      /\ \A r \in Object : own'[r] = own[r] /\ (Alone(r)' <=> Members(r)' = {})
  BY <1>3, <1>4, <1>5, <1>6, ExchangeMembers
<1>8. Members(Carry) = {} /\ Alone(j)'
  BY <1>3, <1>4, <1>5, <1>7, AloneIsEmpty
<1>9. Cardinality(Members(Carry)') >= 2^(j + 1)
  <2>1. Members(j) \cup Members(Carry) = Members(j)
    BY <1>8
  <2>2. QED BY <1>3, <1>7, <2>1
<1>10. \A k \in Counter : k # j => (Alone(k)' <=> Alone(k)) /\ Members(k)' = Members(k)
  BY <1>4, <1>5, <1>7, AloneIsEmpty
<1>11. /\ \A k \in Counter : k >= g => Alone(k)'
       /\ \A k \in Counter : k < g => Alone(k)' \/ Cardinality(Members(k)') >= 2^k
  BY <1>3, <1>8, <1>10 DEF Size
<1>12. RegsOK'
  BY <1>3, <1>6 DEF RegsOK
<1>13. /\ at' = "carry" /\ own'[l] = l /\ call'.l = l /\ call'.op = "sort" /\ fill' = g
       /\ i' = j + 1 /\ j + 1 \in Nat /\ j + 1 <= g
       /\ \A o \in Local : own'[o] = o
  BY <1>1, <1>3, <1>4, <1>6, <1>7
<1>14. QED
  BY <1>3, <1>7, <1>9, <1>11, <1>12, <1>13, DealtAfter

\* What sort settles, in terms of rigid names for its cursors.
LEMMA SettlesFacts ==
  ASSUME IInv, Settles, NEW j, i = j, NEW g, fill = g, NEW l, call.l = l
  PROVE  /\ Shape /\ RegsOK /\ call.op = "sort" /\ l \in List /\ own[l] = l /\ l \in Object /\ l \notin Local
         /\ \A o \in Local : own[o] = o
         /\ g \in 0..Fills /\ j \in 1..g
         /\ \A k \in Counter : k >= g => Alone(k)
         /\ Alone(l) /\ Alone(Carry) /\ \A k \in Counter : k < j - 1 => Alone(k)
         /\ Carry \in Local /\ Counter \subseteq Local /\ Local \subseteq Object /\ Carry \notin Counter
         /\ Counter \subseteq Nat /\ Object \subseteq Cell /\ Carry \in Object /\ Local = {Carry} \cup Counter
<1>1. Shape /\ RegsOK /\ SortInv /\ SettleInv
  BY DEF IInv
<1>2. /\ call.op = "sort" /\ l \in List /\ own[l] = l
      /\ \A o \in Local : own[o] = o
      /\ \A k \in Counter : k >= g => Alone(k)
      /\ Alone(l) /\ Alone(Carry) /\ j \in 1..g /\ \A k \in Counter : k < j - 1 => Alone(k)
  BY <1>1 DEF SortInv, SettleInv
<1>3. g \in 0..Fills
  BY <1>1 DEF RegsOK
<1>4. Object \subseteq Cell
  BY <1>1, ShapeFacts
<1>5. QED BY <1>1, <1>2, <1>3, <1>4, LocalFacts DEF Local

\* sort merges each counter into the next, and gives the last one to the list.
LEMMA SettlingInv ==
  ASSUME IInv, Settling
  PROVE  IInv'
<1>1. PICK j, g, l : i = j /\ fill = g /\ call.l = l
  OBVIOUS
<1>2. at = "settle" /\ Settles
  BY DEF Settling, Settles
<1>3. /\ Shape /\ RegsOK /\ call.op = "sort" /\ l \in List /\ own[l] = l /\ l \in Object /\ l \notin Local
      /\ \A o \in Local : own[o] = o
      /\ g \in 0..Fills /\ j \in 1..g
      /\ \A k \in Counter : k >= g => Alone(k)
      /\ Alone(l) /\ Alone(Carry) /\ \A k \in Counter : k < j - 1 => Alone(k)
      /\ Carry \in Local /\ Counter \subseteq Local /\ Local \subseteq Object /\ Carry \notin Counter
      /\ Counter \subseteq Nat /\ Object \subseteq Cell /\ Carry \in Object /\ Local = {Carry} \cup Counter
  BY <1>1, <1>2, SettlesFacts
<1>4. CASE /\ j # g /\ at' = "merge" /\ back' = "settled" /\ x' = next[j] /\ y' = next[j - 1]
           /\ UNCHANGED <<next, prev, data, own, call, i, fill>>
  <2>1. j \in Counter /\ j - 1 \in Counter /\ j \in Nat /\ j # j - 1 /\ j < g
    BY <1>3, <1>4, Sorts DEF Counter
  <2>2. j \in Object /\ own[j] = j /\ j - 1 \in Object /\ own[j - 1] = j - 1
    BY <1>3, <2>1
  <2>3. next[j] \in Cell /\ own[next[j]] = j /\ next[j - 1] \in Cell /\ j \in Cell
    <3>1. PICK k : k = j - 1
      OBVIOUS
    <3>2. k \in Object /\ k \in Cell /\ own[k] = k /\ k # Nil /\ j # Nil
      BY <1>3, <2>2, <3>1, LocalFacts
    <3>3. next[j] \in Cell /\ own[next[j]] = j /\ next[k] \in Cell /\ j \in Cell
      BY <1>3, <2>2, <3>2, ShapeFacts
    <3>4. QED BY <3>1, <3>3
  <2>4. Shape' /\ (\A o : Alone(o)' <=> Alone(o))
    BY <1>3, <1>4 DEF Shape, Alone
  <2>5. RegsOK'
    BY <1>3, <1>4, <2>3 DEF RegsOK
  <2>6. Into' = j /\ From' = j - 1
    BY <1>1, <1>3, <1>4 DEF Into, From
  <2>7. MergeInv'
    BY <1>3, <1>4, <2>1, <2>2, <2>3, <2>6 DEF MergeInv
  <2>8. /\ at' = "merge" /\ back' = "settled" /\ own'[l] = l /\ fill' = g /\ call'.l = l /\ call'.op = "sort" /\ i' = j
        /\ \A o \in Local : own'[o] = o
    BY <1>1, <1>3, <1>4
  <2>9. /\ \A k \in Counter : k >= g => Alone(k)'
        /\ Alone(l)' /\ Alone(Carry)' /\ \A k \in Counter : k < j - 1 => Alone(k)'
    BY <1>3, <2>4
  <2>10. QED
    BY <1>3, <2>1, <2>4, <2>5, <2>7, <2>8, <2>9, SettlesAfter
<1>5. CASE j = g /\ Exchange(l, g - 1) /\ Return
  <2>1. PICK k : k = g - 1
    OBVIOUS
  <2>2. k \in Counter /\ k \in Object /\ own[k] = k
    <3>1. k \in Counter
      BY <1>3, <1>5, <2>1, Sorts DEF Counter
    <3>2. QED BY <3>1, <1>3
  <2>3. /\ Shape'
        /\ Members(l)' = Members(k) /\ Members(k)' = Members(l)
        /\ \A r \in Object : r # l /\ r # k => Members(r)' = Members(r)
        /\ \A r \in Object : own'[r] = own[r] /\ (Alone(r)' <=> Members(r)' = {})
    BY <1>3, <1>5, <2>1, <2>2, ExchangeMembers
  <2>4. ASSUME NEW o \in Local PROVE Alone(o)'
    <3>1. CASE o = k
      BY <1>3, <2>2, <2>3, <3>1, AloneIsEmpty
    <3>2. CASE o # k
      <4>1. Alone(o)
        BY <1>3, <1>5, <2>1, <2>2, <3>2
      <4>2. o \in Object /\ o # l
        BY <1>3
      <4>3. QED BY <2>3, <3>2, <4>1, <4>2, AloneIsEmpty
    <3>3. QED BY <3>1, <3>2
  <2>5. QED BY <1>5, <2>3, <2>4, ReturnStep
<1>6. QED
  BY <1>1, <1>4, <1>5 DEF Settling, links

\* The next counter.
LEMMA SettledInv ==
  ASSUME IInv, Settled
  PROVE  IInv'
<1>1. PICK j, g, l : i = j /\ fill = g /\ call.l = l
  OBVIOUS
<1>2. at = "settled" /\ Settles
  BY DEF Settled, Settles
<1>3. /\ Shape /\ RegsOK /\ call.op = "sort" /\ l \in List /\ own[l] = l /\ l \in Object /\ l \notin Local
      /\ \A o \in Local : own[o] = o
      /\ g \in 0..Fills /\ j \in 1..g
      /\ \A k \in Counter : k >= g => Alone(k)
      /\ Alone(l) /\ Alone(Carry) /\ \A k \in Counter : k < j - 1 => Alone(k)
      /\ Counter \subseteq Nat
  BY <1>1, <1>2, SettlesFacts
<1>4. j < g /\ Alone(j - 1)
  BY <1>1, <1>2 DEF IInv, SettleInv, Alone
<1>5. i' = j + 1 /\ at' = "settle" /\ UNCHANGED <<next, prev, data, own, call, back, x, y, fill>>
  BY <1>1 DEF Settled, Go, links
<1>6. Shape' /\ (\A o : Alone(o)' <=> Alone(o)) /\ RegsOK'
  BY <1>3, <1>5 DEF Shape, Alone, RegsOK
<1>7. \A k \in Counter : k < (j + 1) - 1 => Alone(k)'
  <2>1. ASSUME NEW k \in Counter, k < (j + 1) - 1 PROVE Alone(k)
    <3>1. k < j - 1 \/ k = j - 1
      BY <1>3, <2>1
    <3>2. QED BY <1>3, <1>4, <3>1
  <2>2. QED BY <2>1, <1>6
<1>8. /\ at' = "settle" /\ own'[l] = l /\ call'.l = l /\ call'.op = "sort" /\ fill' = g
      /\ i' = j + 1 /\ j + 1 \in Nat /\ j + 1 \in 1..g
      /\ \A o \in Local : own'[o] = o
      /\ \A k \in Counter : k >= g => Alone(k)'
      /\ Alone(l)' /\ Alone(Carry)'
  BY <1>1, <1>3, <1>4, <1>5, <1>6
<1>9. QED
  BY <1>3, <1>6, <1>7, <1>8, SettlesAfter

\* Elements walks along next, and is a sequence.
LEMMA ElementsWalk ==
  ASSUME NEW o, NEW S, \A c \in S : next[c] \in S, o \in S, NEW size \in Nat, size = Cardinality(Members(o))
  PROVE  \E st \in [0..size -> S] :
            /\ Orbit(st, next, o, size)
            /\ Len(Elements(o)) = size
            /\ \A k \in 1..size : Elements(o)[k] = [node |-> st[k], data |-> data[st[k]]]
<1> DEFINE n == Cardinality(Members(o))
           st == CHOOSE h : h = [k \in 0..n |-> IF k = 0 THEN o ELSE next[h[k - 1]]]
<1>1. Elements(o) = [k \in 1..n |-> [node |-> st[k], data |-> data[st[k]]]]
  BY DEF Elements
<1>2. st \in [0..n -> S] /\ Orbit(st, next, o, n)
  <2> HIDE DEF n
  <2>0. n \in Nat
    BY DEF n
  <2>1. PICK h \in [0..n -> S] : Solves(h, next, o, n)
    BY <2>0, SolutionExists
  <2>2. h = [k \in 0..n |-> IF k = 0 THEN o ELSE next[h[k - 1]]]
    BY <2>1 DEF Solves
  <2>3. st = [k \in 0..n |-> IF k = 0 THEN o ELSE next[st[k - 1]]]
    BY <2>2
  <2>4. st = [k \in 0..n |-> st[k]] /\ Solves(st, next, o, n)
    BY <2>3 DEF Solves
  <2> HIDE DEF st
  <2> QED BY <2>0, <2>4, OrbitFunction
<1> HIDE DEF st
<1>3. n = size
  OBVIOUS
<1> HIDE DEF n
<1>4. Elements(o) \in Seq({[node |-> st[k], data |-> data[st[k]]] : k \in 1..size})
  BY <1>1, <1>3
<1>5. Len(Elements(o)) = size
  BY <1>1, <1>3, <1>4
<1>6. \A k \in 1..size : Elements(o)[k] = [node |-> st[k], data |-> data[st[k]]]
  BY <1>1, <1>3
<1>7. QED BY <1>2, <1>3, <1>5, <1>6

\* Along next a chain comes back to its sentinel exactly when all its nodes are passed.
LEMMA WalkEnumerates ==
  ASSUME Shape, NEW o \in Object, own[o] = o, NEW size \in Nat, size = Cardinality(Members(o)),
         NEW st \in [0..size -> Positions(o)], Orbit(st, next, o, size)
  PROVE  Members(o) = {st[k] : k \in 1..size}
<1> DEFINE P == Positions(o)
<1>1. /\ o \in P /\ o # Nil /\ P \subseteq Cell /\ Members(o) = P \ {o}
      /\ \A c \in P : next[c] \in P /\ prev[next[c]] = c
  BY ShapeFacts DEF Members, Positions
<1>2. IsFiniteSet(P) /\ Cardinality(P) = size + 1
  <2>1. IsFiniteSet(Members(o)) /\ o \notin Members(o) /\ P = Members(o) \cup {o}
    <3> HIDE DEF P
    <3>1. IsFiniteSet(Members(o))
      BY SizeFacts
    <3>2. QED BY <3>1, <1>1
  <2>2. IsFiniteSet(Members(o) \cup {o}) /\ Cardinality(Members(o) \cup {o}) = Cardinality(Members(o)) + 1
    BY ONLY <2>1, FS_AddElement
  <2>3. QED BY <2>1, <2>2
<1> HIDE DEF P
<1>3. PICK f \in [0..size + 1 -> P] : Orbit(f, next, o, size + 1)
  <2>1. (\A c \in P : next[c] \in P) /\ o \in P /\ size + 1 \in Nat
    BY <1>1
  <2>2. QED BY ONLY <2>1, OrbitExists
<1>4. f[0] = o /\ \A k \in 0..size : f[k + 1] = next[f[k]]
  BY <1>3 DEF Orbit
<1>5. \A k \in 0..size : f[k] = st[k]
  <2>1. Orbit(f, next, o, size)
    BY <1>4 DEF Orbit
  <2>2. QED BY <2>1, OrbitUnique
<1> DEFINE T == {b \in 1..size + 1 : \E a \in 0..b - 1 : f[a] = f[b]}
<1>6. T # {}
  <2>1. IsFiniteSet(0..size + 1) /\ Cardinality(0..size + 1) = size + 2
    <3>1. 0 \in Int /\ size + 1 \in Int
      OBVIOUS
    <3>2. IsFiniteSet(0..size + 1) /\ Cardinality(0..size + 1) = IF 0 > size + 1 THEN 0 ELSE (size + 1) - 0 + 1
      BY ONLY <3>1, FS_Interval
    <3>3. QED BY <3>2
  <2>2. Cardinality(P) < Cardinality(0..size + 1)
    BY <1>2, <2>1
  <2>3. PICK a, b \in 0..size + 1 : a # b /\ f[a] = f[b]
    BY ONLY <1>2, <2>1, <2>2, f \in [0..size + 1 -> P], FS_PigeonHole
  <2>4. CASE a < b
    BY <2>3, <2>4
  <2>5. CASE b < a
    BY <2>3, <2>5
  <2>6. QED BY <2>3, <2>4, <2>5
<1>7. PICK b \in T : \A c \in T : b <= c
  <2>1. T \subseteq Nat
    OBVIOUS
  <2> HIDE DEF T
  <2>2. QED BY <1>6, <2>1, LeastNatural
<1>8. f[b] = o
  <2>1. PICK a \in 0..b - 1 : f[a] = f[b]
    OBVIOUS
  <2>2. CASE a = 0
    BY <2>1, <2>2, <1>4
  <2>3. CASE a # 0
    <3>1. a - 1 \in 0..size /\ b - 1 \in 0..size /\ b - 1 \in 1..size + 1 /\ a - 1 \in 0..(b - 1) - 1
          /\ (a - 1) + 1 = a /\ (b - 1) + 1 = b
      BY <2>3
    <3>2. f[a] = next[f[a - 1]] /\ f[b] = next[f[b - 1]]
      BY <3>1, <1>4
    <3>3. f[a - 1] \in P /\ f[b - 1] \in P
      BY <3>1
    <3>4. f[a - 1] = f[b - 1]
      BY <2>1, <3>2, <3>3, <1>1
    <3>5. b - 1 \in T
      BY <3>1, <3>4
    <3>6. QED BY <3>5, <1>7
  <2>4. QED BY <2>2, <2>3
<1> DEFINE U == {f[k] : k \in 0..b - 1}
<1>9. P = U
  <2>1. b \in 1..size + 1
    OBVIOUS
  <2> HIDE DEF T
  <2>2. U \subseteq P /\ o \in U
    BY <1>4, <2>1
  <2>3. ASSUME NEW c \in U PROVE next[c] \in U
    <3>1. PICK k \in 0..b - 1 : c = f[k]
      OBVIOUS
    <3>2. k \in 0..size /\ next[c] = f[k + 1]
      BY <3>1, <2>1, <1>4
    <3>3. CASE k = b - 1
      BY <3>2, <3>3, <2>1, <2>2, <1>8
    <3>4. CASE k # b - 1
      <4>1. k + 1 \in 0..b - 1
        BY <3>4, <2>1
      <4>2. QED BY <3>2, <4>1
    <3>5. QED BY <3>3, <3>4
  <2>4. Closed(next, own, o, U) /\ U \in SUBSET Cell
    BY <1>1, <2>2, <2>3 DEF Closed
  <2> HIDE DEF U
  <2>5. Reaches(next, own)
    BY DEF Shape, Rings, Half
  <2>6. \A c \in Cell : own[c] = o => c \in U
    BY <2>4, <2>5 DEF Reaches
  <2>7. QED BY <2>2, <2>6 DEF P, Positions
<1>10. b = size + 1
  <2>1. b \in 1..size + 1
    OBVIOUS
  <2> DEFINE h == [k \in 0..b - 1 |-> f[k]]
  <2>2. h \in Surjection(0..b - 1, P)
    <3>1. h \in [0..b - 1 -> P] /\ \A c \in P : \E k \in 0..b - 1 : h[k] = c
      BY <1>9, <2>1
    <3>2. QED BY <3>1 DEF Surjection
  <2>3. IsFiniteSet(0..b - 1) /\ Cardinality(0..b - 1) = b
    <3>1. 0 \in Int /\ b - 1 \in Int
      BY <2>1
    <3>2. IsFiniteSet(0..b - 1) /\ Cardinality(0..b - 1) = IF 0 > b - 1 THEN 0 ELSE (b - 1) - 0 + 1
      BY ONLY <3>1, FS_Interval
    <3>3. QED BY <3>2, <2>1
  <2> HIDE DEF h
  <2>4. Cardinality(P) <= b
    BY ONLY <2>2, <2>3, FS_Surjection
  <2>5. QED BY <2>1, <2>4, <1>2
<1>11. \A k \in 1..size : f[k] # o
  <2>1. ASSUME NEW k \in 1..size, f[k] = o PROVE FALSE
    <3>1. k \in T
      BY <1>4, <2>1
    <3>2. QED BY <3>1, <1>7, <1>10
  <2>2. QED BY <2>1
<1>12. P \ {o} = {f[k] : k \in 1..size}
  <2> HIDE DEF T
  <2>1. ASSUME NEW c \in P, c # o PROVE \E k \in 1..size : c = f[k]
    <3>1. PICK k \in 0..b - 1 : c = f[k]
      BY <1>9
    <3>2. k # 0
      BY <3>1, <2>1, <1>4
    <3>3. QED BY <3>1, <3>2, <1>10
  <2>2. ASSUME NEW k \in 1..size PROVE f[k] \in P /\ f[k] # o
    BY <1>11
  <2>3. QED BY <2>1, <2>2
<1>13. {f[k] : k \in 1..size} = {st[k] : k \in 1..size}
  BY <1>5
<1>14. QED BY <1>1, <1>12, <1>13

\* The invariant gives Whole.
LEMMA WholeFromInv == IInv => Whole
<1> SUFFICES ASSUME IInv PROVE Whole
  OBVIOUS
<1>1. Shape /\ RegsOK /\ IdleInv
  BY DEF IInv
<1>2. Linked
  BY <1>1, ShapeFacts DEF Linked, TypeOK, RegsOK, Shape, Links
<1>3. ASSUME NEW o \in Object, own[o] = o
      PROVE  Members(o) = {Elements(o)[k].node : k \in 1..Len(Elements(o))}
  <2>1. PICK size \in Nat : size = Cardinality(Members(o))
    BY <1>1, SizeFacts DEF Size
  <2>2. o \in Positions(o) /\ \A c \in Positions(o) : next[c] \in Positions(o)
    BY <1>1, <1>3, ShapeFacts, LocalFacts DEF Positions
  <2>3. PICK st \in [0..size -> Positions(o)] :
            /\ Orbit(st, next, o, size)
            /\ Len(Elements(o)) = size
            /\ \A k \in 1..size : Elements(o)[k] = [node |-> st[k], data |-> data[st[k]]]
    BY <2>1, <2>2, ElementsWalk
  <2>4. Members(o) = {st[k] : k \in 1..size}
    BY <1>1, <1>3, <2>1, <2>3, WalkEnumerates
  <2>5. \A k \in 1..size : Elements(o)[k].node = st[k]
    BY <2>3
  <2>6. QED BY <2>3, <2>4, <2>5
<1>4. at = "idle" => \A o \in {Carry} \cup Counter : Members(o) = {}
  BY <1>1, AloneIsEmpty, LocalFacts DEF IdleInv, Local
<1>5. QED BY <1>2, <1>3, <1>4 DEF Whole

\* The invariant is a state predicate of the variables.
LEMMA StutterInv == IInv /\ UNCHANGED vars => IInv'
<1> SUFFICES ASSUME IInv, UNCHANGED vars PROVE IInv'
  OBVIOUS
<1>1. UNCHANGED <<next, prev, data, own, call, at, x, y, i, fill, back>>
  BY DEF vars, links, regs
<1>2. Shape' /\ RegsOK' /\ IdleInv' /\ ClearInv' /\ TakeOverInv' /\ FillInv' /\ RangeInv' /\ ReadInv'
  BY <1>1 DEF IInv, Shape, RegsOK, IdleInv, ClearInv, TakeOverInv, FillInv, RangeInv, ReadInv, Alone
<1>3. Into' = Into /\ From' = From
  BY <1>1 DEF Into, From
<1>4. (Dealt' <=> Dealt) /\ (Settles' <=> Settles)
  BY <1>1 DEF Dealt, Settles
<1>5. MergeInv' /\ SortInv' /\ SettleInv'
  BY <1>1, <1>3, <1>4 DEF IInv, MergeInv, SortInv, SettleInv, Alone
<1>6. DealInv'
  BY <1>1, <1>4 DEF IInv, DealInv, Alone, Size, Members, Positions
<1>7. QED BY <1>2, <1>5, <1>6 DEF IInv

\* Every iteration of every loop keeps the invariant.
LEMMA LoopInv == IInv /\ Loop => IInv'
BY ClearingInv, TakingOverInv, FillingInv, RangingInv, RemovingInv, UniquingInv, MergingInv, DealingInv,
   CarryingInv, CarriedInv, SettlingInv, SettledInv DEF Loop

\* Every step keeps the invariant.
LEMMA StepInv == IInv /\ [Next]_vars => IInv'
<1> SUFFICES ASSUME IInv, [Next]_vars PROVE IInv'
  OBVIOUS
<1>1. CASE UNCHANGED vars
  BY <1>1, StutterInv
<1>2. CASE Loop
  BY <1>2, LoopInv
<1>3. ASSUME NEW l \in List, NEW pos, NEW n, NEW v \in Value,
             Insert(l, pos, n, v) \/ PushFront(l, n, v) \/ PushBack(l, n, v)
      PROVE  IInv'
  BY <1>3, InsertInv DEF PushFront, PushBack
<1>4. ASSUME NEW l \in List, (\E pos : Erase(l, pos)) \/ PopFront(l) \/ PopBack(l)
      PROVE  IInv'
  BY <1>4, EraseInv DEF PopFront, PopBack
<1>5. ASSUME NEW l \in List, Reverse(l) \/ CallClear(l) \/ CallUnique(l) \/ CallSort(l)
      PROVE  IInv'
  BY <1>5, ReverseInv, CallClearInv, CallUniqueInv, CallSortInv
<1>6. ASSUME NEW l \in List, NEW v \in Value, CallRemove(l, v)
      PROVE  IInv'
  BY <1>6, CallRemoveInv
<1>7. ASSUME NEW l \in List, NEW n \in 0..MaxCount, NEW v \in Value, NEW pos,
             CallAssign(l, n, v) \/ CallInsert(l, pos, n, v)
      PROVE  IInv'
  <2>1. n \in Nat
    BY Sorts
  <2>2. QED BY <1>7, <2>1, CallAssignInv, CallInsertInv
<1>8. ASSUME NEW l \in List, NEW m \in List,
             Swap(l, m) \/ CallCopy(l, m) \/ CallMove(l, m) \/ CallMerge(l, m) \/ CallAssignRange(l, m)
      PROVE  IInv'
  BY <1>8, SwapInv, CallCopyInv, CallMoveInv, CallMergeInv, CallAssignRangeInv
<1>9. ASSUME NEW l \in List, NEW m \in List, NEW pos,
             SpliceAll(l, pos, m) \/ CallInsertRange(l, pos, m) \/ \E it : SpliceOne(l, pos, m, it)
      PROVE  IInv'
  BY <1>9, SpliceAllInv, CallInsertRangeInv, SpliceOneInv
<1>10. ASSUME NEW l \in List, NEW m \in List, NEW pos, NEW first, NEW last, NEW S \in SUBSET Members(m),
              SpliceRange(l, pos, m, first, last, S)
       PROVE  IInv'
  BY <1>10, SpliceRangeInv
<1>11. CASE Next
  <2>1. ASSUME NEW l \in List,
               \/ \E pos \in Positions(l), n \in Free, v \in Value : Insert(l, pos, n, v)
               \/ \E n \in Free, v \in Value : PushFront(l, n, v) \/ PushBack(l, n, v)
               \/ \E pos \in Members(l) : Erase(l, pos)
               \/ PopFront(l)
               \/ PopBack(l)
               \/ Reverse(l)
               \/ CallClear(l)
               \/ CallUnique(l)
               \/ CallSort(l)
               \/ \E v \in Value : CallRemove(l, v)
        PROVE  IInv'
    BY <2>1, <1>3, <1>4, <1>5, <1>6
  <2>2. ASSUME NEW l \in List, NEW n \in 0..MaxCount, NEW v \in Value,
               \/ CallAssign(l, n, v)
               \/ \E pos \in Positions(l) : CallInsert(l, pos, n, v)
        PROVE  IInv'
    BY <2>2, <1>7
  <2>3. ASSUME NEW l \in List, NEW m \in List,
                \/ Swap(l, m)
                \/ CallCopy(l, m)
                \/ CallMove(l, m)
                \/ CallMerge(l, m)
                \/ CallAssignRange(l, m)
                \/ \E pos \in Positions(l) :
                    \/ SpliceAll(l, pos, m)
                    \/ CallInsertRange(l, pos, m)
                    \/ \E it \in Members(m) : SpliceOne(l, pos, m, it)
                    \/ \E first \in Members(m), last \in Positions(m), S \in SUBSET Members(m) :
                            SpliceRange(l, pos, m, first, last, S)
        PROVE  IInv'
    BY <2>3, <1>8, <1>9, <1>10
  <2>4. QED BY <1>2, <1>11, <2>1, <2>2, <2>3 DEF Next
<1>12. QED BY <1>1, <1>11

\* The invariant holds of every behaviour: at each iteration of each loop the chains
\* are rings and the cursors, the locals of sort included, are where the code expects them.
THEOREM Invariance == Spec => []IInv
<1>1. Init => IInv
  BY InitInv
<1>2. IInv /\ [Next]_vars => IInv'
  BY StepInv
<1>3. QED BY <1>1, <1>2, PTL DEF Spec

\* At every iteration of every member (Whole): the links are two-way and stay in one
\* chain, every node of a list is reached from its sentinel, and sort and operator=
\* leave nothing behind in their local lists.
THEOREM ListsWhole == Spec => []Whole
<1>1. IInv => Whole
  BY WholeFromInv
<1>2. QED BY <1>1, Invariance, PTL
===============================================================================
