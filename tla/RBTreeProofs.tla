---------------------------- MODULE RBTreeProofs ----------------------------
(***************************************************************************)
(* Proofs about RBTree, for any number of nodes and any keys.              *)
(*                                                                         *)
(* The first part is about the operators: what rotations, linking and      *)
(* unlinking, walks and searches do to a tree of any size, in the words of *)
(* RBTreeInv.  The second is about QueueSpec: insertions of any kind, with *)
(* any hint, and erasures at begin().  Good is the inductive invariant: at *)
(* every iteration of either loop there are a set below every node and a   *)
(* black height that make the tree Fine but for what the loop has left to  *)
(* do.                                                                     *)
(***************************************************************************)
EXTENDS RBTreeInv, Iteration, FiniteSetTheorems, TLAPS

-----------------------------------------------------------------------------
(* Below a node.                                                           *)

\* The other way round.
LEMMA TiedMirror ==
    ASSUME NEW pa, NEW lf, NEW rt, NEW L, NEW sub, Tied(pa, lf, rt, L, sub)
    PROVE  Tied(pa, rt, lf, L, sub)
<1>1. Links(pa, rt, lf)
  BY DEF Tied, Links
<1>2. \A n \in L :
        /\ pa[n] \in L \cup {Header} /\ rt[n] \in L \cup {Nil} /\ lf[n] \in L \cup {Nil}
        /\ pa[n] = Header => n = pa[Header]
        /\ pa[n] # Header => rt[pa[n]] = n \/ lf[pa[n]] = n
        /\ rt[n] # Nil => pa[rt[n]] = n
        /\ lf[n] # Nil => pa[lf[n]] = n
  BY DEF Tied
<1>3. \A n \in L :
        /\ sub[n] = {n} \cup Under(sub, lf[n]) \cup Under(sub, rt[n])
        /\ n \notin Under(sub, lf[n]) \cup Under(sub, rt[n])
        /\ Under(sub, lf[n]) \cap Under(sub, rt[n]) = {}
  BY DEF Tied
<1>4. \A n \in L :
        /\ sub[n] = {n} \cup Under(sub, rt[n]) \cup Under(sub, lf[n])
        /\ n \notin Under(sub, rt[n]) \cup Under(sub, lf[n])
        /\ Under(sub, rt[n]) \cap Under(sub, lf[n]) = {}
  <2>1. ASSUME NEW n \in L
        PROVE  /\ sub[n] = {n} \cup Under(sub, rt[n]) \cup Under(sub, lf[n])
               /\ n \notin Under(sub, rt[n]) \cup Under(sub, lf[n])
               /\ Under(sub, rt[n]) \cap Under(sub, lf[n]) = {}
    <3>1. /\ sub[n] = {n} \cup Under(sub, lf[n]) \cup Under(sub, rt[n])
          /\ n \notin Under(sub, lf[n]) \cup Under(sub, rt[n])
          /\ Under(sub, lf[n]) \cap Under(sub, rt[n]) = {}
      BY ONLY <1>3, <2>1
    <3>2. QED BY ONLY <3>1
  <2>2. QED BY ONLY <2>1
<1>5. /\ L \subseteq Node /\ sub \in [L -> SUBSET L]
      /\ pa[Header] \in L \cup {Nil}
      /\ pa[Header] = Nil <=> L = {}
      /\ pa[Header] # Nil => pa[pa[Header]] = Header /\ sub[pa[Header]] = L
  BY DEF Tied
<1>6. /\ Links(pa, rt, lf)
      /\ L \subseteq Node /\ sub \in [L -> SUBSET L]
      /\ pa[Header] \in L \cup {Nil}
      /\ pa[Header] = Nil <=> L = {}
      /\ pa[Header] # Nil => pa[pa[Header]] = Header /\ sub[pa[Header]] = L
      /\ \A n \in L :
           /\ pa[n] \in L \cup {Header} /\ rt[n] \in L \cup {Nil} /\ lf[n] \in L \cup {Nil}
           /\ pa[n] = Header => n = pa[Header]
           /\ pa[n] # Header => rt[pa[n]] = n \/ lf[pa[n]] = n
           /\ rt[n] # Nil => pa[rt[n]] = n
           /\ lf[n] # Nil => pa[lf[n]] = n
           /\ sub[n] = {n} \cup Under(sub, rt[n]) \cup Under(sub, lf[n])
           /\ n \notin Under(sub, rt[n]) \cup Under(sub, lf[n])
           /\ Under(sub, rt[n]) \cap Under(sub, lf[n]) = {}
  BY ONLY <1>1, <1>2, <1>4, <1>5
<1>7. QED BY ONLY <1>6 DEF Tied

\* What the addresses are.
LEMMA NilNotAddr == Nil \notin Addr /\ Header \in Addr /\ Header \notin Node /\ Nil \notin Node /\ Node \subseteq Addr /\ Nil # Header
BY Addresses DEF Addr

\* What is below a node, and how much of it there is.
LEMMA Below ==
    ASSUME NEW pa, NEW lf, NEW rt, NEW L, NEW sub, Tied(pa, lf, rt, L, sub)
    PROVE  /\ L \subseteq Node /\ IsFiniteSet(L) /\ Nil \notin L /\ Header \notin L
           /\ \A n \in L : /\ n \in sub[n] /\ sub[n] \subseteq L
                           /\ IsFiniteSet(sub[n]) /\ Cardinality(sub[n]) \in Nat
                           /\ Cardinality(sub[n]) <= Cardinality(L)
           /\ Cardinality(L) \in Nat
           /\ \A n \in L : /\ lf[n] # Nil => lf[n] \in L /\ Cardinality(sub[lf[n]]) < Cardinality(sub[n]) /\ sub[lf[n]] \subseteq sub[n]
                           /\ rt[n] # Nil => rt[n] \in L /\ Cardinality(sub[rt[n]]) < Cardinality(sub[n]) /\ sub[rt[n]] \subseteq sub[n]
<1>1. L \subseteq Node /\ IsFiniteSet(L) /\ Nil \notin L /\ Header \notin L
  <2>1. L \subseteq Node
    BY DEF Tied
  <2>2. QED BY <2>1, Addresses, FS_Subset, NilNotAddr
<1>2. ASSUME NEW n \in L PROVE n \in sub[n] /\ sub[n] \subseteq L
  BY DEF Tied
<1>3. ASSUME NEW n \in L PROVE IsFiniteSet(sub[n]) /\ Cardinality(sub[n]) \in Nat /\ Cardinality(sub[n]) <= Cardinality(L)
  BY <1>1, <1>2, FS_Subset, FS_CardinalityType
<1>4. ASSUME NEW n \in L, NEW c \in {lf[n], rt[n]}, c # Nil
      PROVE  c \in L /\ Cardinality(sub[c]) < Cardinality(sub[n]) /\ sub[c] \subseteq sub[n]
  <2>1. c \in L /\ sub[c] \subseteq sub[n] /\ n \in sub[n] /\ n \notin sub[c]
    BY <1>4 DEF Tied, Under
  <2>2. sub[c] # sub[n]
    BY <2>1
  <2>3. QED BY <2>1, <2>2, <1>3, FS_Subset
<1>5. QED BY <1>1, <1>2, <1>3, <1>4, FS_CardinalityType

\* Among some nodes there is one with no more below it than any other.
LEMMA Lowest ==
    ASSUME NEW pa, NEW lf, NEW rt, NEW L, NEW sub, Tied(pa, lf, rt, L, sub), NEW S \in SUBSET L, S # {}
    PROVE  \E a \in S : \A b \in S : Cardinality(sub[a]) <= Cardinality(sub[b])
<1> DEFINE T == {Cardinality(sub[a]) : a \in S}
<1>1. T \subseteq Nat /\ T # {}
  BY Below
<1>2. PICK x \in T : \A y \in T : x <= y
  <2> HIDE DEF T
  <2> QED BY <1>1, LeastNatural
<1>3. QED BY <1>2

\* ... and one with no less.
LEMMA Highest ==
    ASSUME NEW pa, NEW lf, NEW rt, NEW L, NEW sub, Tied(pa, lf, rt, L, sub), NEW S \in SUBSET L, S # {}
    PROVE  \E a \in S : \A b \in S : Cardinality(sub[b]) <= Cardinality(sub[a])
<1> DEFINE T == {Cardinality(L) - Cardinality(sub[a]) : a \in S}
<1>1. T \subseteq Nat /\ T # {}
  BY Below
<1>2. PICK x \in T : \A y \in T : x <= y
  <2> HIDE DEF T
  <2> QED BY <1>1, LeastNatural
<1>3. PICK a \in S : x = Cardinality(L) - Cardinality(sub[a])
  BY <1>2
<1>4. ASSUME NEW b \in S PROVE Cardinality(sub[b]) <= Cardinality(sub[a])
  <2>1. x <= Cardinality(L) - Cardinality(sub[b])
    BY <1>2
  <2>2. Cardinality(L) \in Nat /\ Cardinality(sub[a]) \in Nat /\ Cardinality(sub[b]) \in Nat
    BY Below
  <2>3. QED BY <2>1, <2>2, <1>3
<1>5. QED BY <1>4

\* Every node but the root is the child of its parent, and a part of what its
\* parent has below it.
LEMMA Parents ==
    ASSUME NEW pa, NEW lf, NEW rt, NEW L, NEW sub, Tied(pa, lf, rt, L, sub), NEW n \in L
    PROVE  \/ n = pa[Header] /\ pa[n] = Header
           \/ /\ pa[n] \in L /\ n # pa[Header] /\ n \in sub[pa[n]]
              /\ n = lf[pa[n]] \/ n = rt[pa[n]]
<1>1. pa[n] \in L \cup {Header} /\ Header \notin L
  <2>1. pa[n] \in L \cup {Header}
    BY DEF Tied
  <2>2. QED BY <2>1, Below
<1>2. CASE pa[n] = Header
  BY <1>2 DEF Tied
<1>3. CASE pa[n] # Header
  <2>1. pa[n] \in L /\ (lf[pa[n]] = n \/ rt[pa[n]] = n)
    BY <1>1, <1>3 DEF Tied
  <2>2. n # pa[Header]
    BY <1>3, NilNotAddr, Below DEF Tied
  <2>3. n \in sub[pa[n]] /\ n # Nil
    BY <2>1, Below
  <2>4. QED BY <2>1, <2>2, <2>3
<1>4. QED BY <1>2, <1>3

\* What holds a node holds its parent, or is it.
LEMMA Climbing ==
    ASSUME NEW pa, NEW lf, NEW rt, NEW L, NEW sub, Tied(pa, lf, rt, L, sub),
           NEW n \in L, NEW c \in {lf[n], rt[n]}, c # Nil, NEW a \in L, c \in sub[a]
    PROVE  a = c \/ n \in sub[a]
<1> DEFINE S == {b \in L : c \in sub[b] /\ b # c /\ n \notin sub[b]}
<1>1. CASE S = {}
  BY <1>1
<1>2. CASE S # {}
  <2>1. PICK b \in S : \A d \in S : Cardinality(sub[b]) <= Cardinality(sub[d])
    <3>1. S \in SUBSET L
      OBVIOUS
    <3> HIDE DEF S
    <3>2. QED BY <1>2, <3>1, Lowest
  <2>2. PICK d \in {lf[b], rt[b]} : d # Nil /\ c \in sub[d]
    BY DEF Tied, Under
  <2>3. d \in L /\ Cardinality(sub[d]) < Cardinality(sub[b]) /\ sub[d] \subseteq sub[b]
    BY <2>2, Below
  <2>4. d \notin S
    <3>1. Cardinality(sub[d]) \in Nat /\ Cardinality(sub[b]) \in Nat
      BY <2>3, Below
    <3>2. d \in S => Cardinality(sub[b]) <= Cardinality(sub[d])
      BY <2>1
    <3>3. QED BY <3>1, <3>2, <2>3
  <2>5. d = c
    BY <2>2, <2>3, <2>4
  <2>6. b = n
    <3>1. pa[d] = b
      BY <2>2 DEF Tied
    <3>2. pa[c] = n
      BY DEF Tied
    <3>3. QED BY <3>1, <3>2, <2>5
  <2>7. QED BY <2>6, Below
<1>3. QED BY <1>1, <1>2

\* What is below a node has what is below itself there too.
LEMMA Nested ==
    ASSUME NEW pa, NEW lf, NEW rt, NEW L, NEW sub, Tied(pa, lf, rt, L, sub),
           NEW n \in L, NEW m \in sub[n]
    PROVE  m \in L /\ sub[m] \subseteq sub[n]
<1> DEFINE S == {b \in L : m \in sub[b] /\ ~ (sub[m] \subseteq sub[b])}
<1>0. m \in L
  BY Below
<1>1. CASE S = {}
  BY <1>0, <1>1
<1>2. CASE S # {}
  <2>1. PICK b \in S : \A d \in S : Cardinality(sub[b]) <= Cardinality(sub[d])
    <3>1. S \in SUBSET L
      OBVIOUS
    <3> HIDE DEF S
    <3>2. QED BY <1>2, <3>1, Lowest
  <2>2. b # m
    OBVIOUS
  <2>3. PICK d \in {lf[b], rt[b]} : d # Nil /\ m \in sub[d]
    BY <2>2 DEF Tied, Under
  <2>4. d \in L /\ Cardinality(sub[d]) < Cardinality(sub[b]) /\ sub[d] \subseteq sub[b]
    BY <2>3, Below
  <2>5. d \in S
    BY <2>3, <2>4
  <2>6. Cardinality(sub[d]) \in Nat /\ Cardinality(sub[b]) \in Nat
    BY <2>4, Below
  <2>7. QED BY <2>1, <2>4, <2>5, <2>6
<1>3. QED BY <1>1, <1>2

\* Of two nodes above a third, one is above the other.
LEMMA Chain ==
    ASSUME NEW pa, NEW lf, NEW rt, NEW L, NEW sub, Tied(pa, lf, rt, L, sub),
           NEW a \in L, NEW b \in L, NEW p, p \in sub[a], p \in sub[b]
    PROVE  a \in sub[b] \/ b \in sub[a]
<1> DEFINE S == {e \in L : p \in sub[e] /\ e \notin sub[b] /\ b \notin sub[e]}
<1>1. CASE S = {}
  BY <1>1
<1>2. CASE S # {}
  <2>1. PICK e \in S : \A d \in S : Cardinality(sub[e]) <= Cardinality(sub[d])
    <3>1. S \in SUBSET L
      OBVIOUS
    <3> HIDE DEF S
    <3>2. QED BY <1>2, <3>1, Lowest
  <2>2. e # p
    OBVIOUS
  <2>3. PICK d \in {lf[e], rt[e]} : d # Nil /\ p \in sub[d]
    BY <2>2 DEF Tied, Under
  <2>4. d \in L /\ Cardinality(sub[d]) < Cardinality(sub[e]) /\ sub[d] \subseteq sub[e]
    BY <2>3, Below
  <2>5. d \notin S
    <3>1. Cardinality(sub[d]) \in Nat /\ Cardinality(sub[e]) \in Nat
      BY <2>4, Below
    <3>2. d \in S => Cardinality(sub[e]) <= Cardinality(sub[d])
      BY <2>1
    <3>3. QED BY <3>1, <3>2, <2>4
  <2>6. d \in sub[b] /\ b \notin sub[d]
    BY <2>3, <2>4, <2>5
  <2>7. b = d \/ e \in sub[b]
    BY <2>3, <2>6, Climbing
  <2>8. QED BY <2>4, <2>6, <2>7, Below
<1>3. QED BY <1>1, <1>2

\* Where the paths from the root to two nodes part.
LEMMA Meet ==
    ASSUME NEW pa, NEW lf, NEW rt, NEW L, NEW sub, Tied(pa, lf, rt, L, sub), NEW m \in L, NEW p \in L
    PROVE  \E a \in L : /\ m \in sub[a] /\ p \in sub[a]
                        /\ ~ (m \in Under(sub, lf[a]) /\ p \in Under(sub, lf[a]))
                        /\ ~ (m \in Under(sub, rt[a]) /\ p \in Under(sub, rt[a]))
<1> DEFINE S == {e \in L : m \in sub[e] /\ p \in sub[e]}
<1>1. S \in SUBSET L /\ S # {}
  <2>1. pa[Header] \in L /\ sub[pa[Header]] = L
    BY DEF Tied
  <2>2. QED BY <2>1
<1>2. PICK e \in S : \A d \in S : Cardinality(sub[e]) <= Cardinality(sub[d])
  <2> HIDE DEF S
  <2>2. QED BY <1>1, Lowest
<1>3. ASSUME NEW d \in {lf[e], rt[e]}, d # Nil, m \in sub[d], p \in sub[d] PROVE FALSE
  <2>1. d \in L /\ Cardinality(sub[d]) < Cardinality(sub[e])
    BY <1>3, Below
  <2>2. Cardinality(sub[d]) \in Nat /\ Cardinality(sub[e]) \in Nat
    BY <2>1, Below
  <2>3. d \in S
    BY <2>1, <1>3
  <2>4. QED BY <2>1, <2>2, <2>3, <1>2
<1>4. QED BY <1>3 DEF Under

\* A set that holds the root and the children of its nodes holds every node.
LEMMA TopDown ==
    ASSUME NEW pa, NEW lf, NEW rt, NEW L, NEW sub, Tied(pa, lf, rt, L, sub), NEW G,
           pa[Header] # Nil => pa[Header] \in G,
           \A n \in L : n \in G => (lf[n] # Nil => lf[n] \in G) /\ (rt[n] # Nil => rt[n] \in G)
    PROVE  L \subseteq G
<1> DEFINE S == L \ G
<1>1. CASE S = {}
  BY <1>1
<1>2. CASE S # {}
  <2>1. PICK b \in S : \A d \in S : Cardinality(sub[d]) <= Cardinality(sub[b])
    <3>1. S \in SUBSET L
      OBVIOUS
    <3> HIDE DEF S
    <3>2. QED BY <1>2, <3>1, Highest
  <2>2. b # Nil /\ b # pa[Header]
    BY Below
  <2>3. pa[b] \in L /\ (b = lf[pa[b]] \/ b = rt[pa[b]])
    BY <2>2, Parents
  <2>4. pa[b] \in S
    BY <2>2, <2>3
  <2>5. Cardinality(sub[b]) < Cardinality(sub[pa[b]])
    BY <2>2, <2>3, Below
  <2>6. Cardinality(sub[b]) \in Nat /\ Cardinality(sub[pa[b]]) \in Nat
    BY <2>3, Below
  <2>7. QED BY <2>1, <2>4, <2>5, <2>6
<1>3. QED BY <1>1, <1>2

-----------------------------------------------------------------------------
(* A rotation.                                                             *)

\* The nodes around x and its rt child are all different.
LEMMA AroundIt ==
    ASSUME NEW pa, NEW lf, NEW rt, NEW L, NEW sub, Tied(pa, lf, rt, L, sub), NEW x \in L, rt[x] # Nil
    PROVE  Around(pa, lf, rt, L, sub, x, rt[x], lf[rt[x]], pa[x])
<1>1. PICK y, z, p : y = rt[x] /\ z = lf[y] /\ p = pa[x]
  OBVIOUS
<1>2. Nil \notin L /\ Header \notin L /\ L \subseteq Addr
  BY Below, NilNotAddr
<1>3. y \in L /\ x \in sub[x] /\ x \notin sub[y] /\ y \in sub[y] /\ sub[y] \subseteq sub[x]
  <2>1. y \in L /\ x \in sub[x] /\ y \in sub[y] /\ sub[y] \subseteq sub[x]
    BY <1>1, Below
  <2>2. x \notin sub[y]
    BY <1>1 DEF Tied, Under
  <2>3. QED BY <2>1, <2>2
<1>4. z \in L \cup {Nil} /\ p \in L \cup {Header} /\ pa[y] = x
  BY <1>1, <1>3 DEF Tied
<1>5. z # Nil => sub[z] \subseteq sub[y] /\ z \in sub[z] /\ y \notin sub[z] /\ pa[z] = y
  <2>1. z # Nil => z \in L /\ sub[z] \subseteq sub[y] /\ z \in sub[z]
    BY <1>1, <1>3, Below
  <2>2. z # Nil => y \notin sub[z] /\ pa[z] = y
    BY <1>1, <1>3 DEF Tied, Under
  <2>3. QED BY <2>1, <2>2
<1>6. x # y /\ z # x /\ z # y
  BY <1>2, <1>3, <1>4, <1>5
<1>7. p # Header => p \in L /\ p \notin sub[x] /\ (lf[p] = x \/ rt[p] = x) /\ ~ (lf[p] = x /\ rt[p] = x)
  <2>1. ASSUME p # Header PROVE p \in L /\ (lf[p] = x \/ rt[p] = x)
    BY <1>1, <2>1 DEF Tied
  <2>2. ASSUME p # Header PROVE p \notin sub[x] /\ ~ (lf[p] = x /\ rt[p] = x)
    BY <2>1, <2>2, <1>2, <1>3 DEF Tied, Under
  <2>3. QED BY <2>1, <2>2
<1>8. p # x /\ p # y /\ p # z
  <2>1. x \in sub[x] /\ y \in sub[x] /\ (z # Nil => z \in sub[x])
    BY <1>3, <1>5
  <2>2. CASE p = Header
    BY <2>2, <1>2, <1>3, <1>4, NilNotAddr
  <2>3. CASE p # Header
    BY <2>1, <2>3, <1>2, <1>7
  <2>4. QED BY <2>2, <2>3
<1>9. p = Header <=> x = pa[Header]
  BY <1>1, Parents, <1>2
<1>10. lf[x] # x /\ lf[x] # y /\ rt[y] # x /\ rt[y] # y
  <2>1. \A n \in L : lf[n] # n /\ rt[n] # n
    <3>1. ASSUME NEW n \in L PROVE lf[n] # n /\ rt[n] # n
      <4>1. /\ lf[n] # Nil => lf[n] \in L /\ Cardinality(sub[lf[n]]) < Cardinality(sub[n])
            /\ rt[n] # Nil => rt[n] \in L /\ Cardinality(sub[rt[n]]) < Cardinality(sub[n])
            /\ Cardinality(sub[n]) \in Nat
        BY Below
      <4>2. QED BY <4>1, <1>2
    <3>2. QED BY <3>1
  <2>2. lf[x] # y
    <3>1. rt[x] # Nil => Under(sub, lf[x]) \cap Under(sub, rt[x]) = {}
      BY DEF Tied
    <3>2. QED BY <1>1, <1>2, <1>3, <3>1 DEF Under
  <2>3. rt[y] # x
    <3>1. rt[y] # Nil => sub[rt[y]] \subseteq sub[y]
      BY <1>3, Below
    <3>2. QED BY <3>1, <1>2, <1>3
  <2>4. QED BY <2>1, <2>2, <2>3, <1>3
<1>11. QED BY <1>1, <1>2, <1>3, <1>4, <1>5, <1>6, <1>7, <1>8, <1>9, <1>10 DEF Around

\* The links after it, node by node.
LEMMA TurnedLinks ==
    ASSUME NEW pa, NEW lf, NEW rt, NEW L, NEW sub, Tied(pa, lf, rt, L, sub), NEW x, NEW y, NEW z, NEW p,
           Around(pa, lf, rt, L, sub, x, y, z, p),
           NEW pb, NEW lg, NEW rg, Turned(pa, lf, rt, x, y, pb, lg, rg)
    PROVE  /\ pb[x] = y /\ pb[y] = p /\ (z # Nil => pb[z] = x)
           /\ \A n \in L : n \notin {x, y, z} => pb[n] = pa[n]
           /\ pb[Header] = IF p = Header THEN y ELSE pa[Header]
           /\ lg[x] = lf[x] /\ rg[x] = z /\ lg[y] = x /\ rg[y] = rt[y]
           /\ \A n \in L : n \notin {x, y, p} => lg[n] = lf[n] /\ rg[n] = rt[n]
           /\ p # Header => \/ lf[p] = x /\ lg[p] = y /\ rg[p] = rt[p]
                            \/ rt[p] = x /\ rg[p] = y /\ lg[p] = lf[p]
           /\ Links(pb, lg, rg)
<1>1. x \in Addr /\ y \in Addr /\ z \in Addr \cup {Nil} /\ p \in Addr /\ Header \in Addr /\ Nil \notin Addr /\ L \subseteq Addr
      /\ Header \notin L
  BY NilNotAddr DEF Around
<1>2. pb[x] = y /\ pb[y] = p /\ (z # Nil => pb[z] = x)
  BY <1>1 DEF Around, Turned
<1>3. \A n \in L : n \notin {x, y, z} => pb[n] = pa[n]
  BY <1>1 DEF Around, Turned
<1>4. pb[Header] = IF p = Header THEN y ELSE pa[Header]
  BY <1>1 DEF Around, Turned
<1>5. lg[x] = lf[x] /\ rg[x] = z /\ lg[y] = x /\ rg[y] = rt[y]
  BY <1>1 DEF Around, Turned
<1>6. \A n \in L : n \notin {x, y, p} => lg[n] = lf[n] /\ rg[n] = rt[n]
  BY <1>1 DEF Around, Turned
<1>7. p # Header => \/ lf[p] = x /\ lg[p] = y /\ rg[p] = rt[p]
                    \/ rt[p] = x /\ rg[p] = y /\ lg[p] = lf[p]
  BY <1>1 DEF Around, Turned
<1>8. Links(pb, lg, rg)
  <2>1. Links(pa, lf, rt)
    BY DEF Tied
  <2>2. pb \in [Addr -> Addr \cup {Nil}]
    BY <2>1, <1>1 DEF Links, Turned, Around
  <2>3. lg \in [Addr -> Addr \cup {Nil}]
    BY <2>1, <1>1 DEF Links, Turned, Around
  <2>4. rg \in [Addr -> Addr \cup {Nil}]
    BY <2>1, <1>1 DEF Links, Turned, Around
  <2>5. QED BY <2>2, <2>3, <2>4 DEF Links
<1>9. QED BY <1>2, <1>3, <1>4, <1>5, <1>6, <1>7, <1>8

\* What is below the nodes around a rotation, before and after it.
LEMMA TurnedUnder ==
    ASSUME NEW pa, NEW lf, NEW rt, NEW L, NEW sub, Tied(pa, lf, rt, L, sub), NEW x, NEW y, NEW z, NEW p,
           Around(pa, lf, rt, L, sub, x, y, z, p), NEW sb, sb = TurnedSub(sub, lf, x, y)
    PROVE  /\ sb \in [L -> SUBSET L]
           /\ sb[y] = sub[x] /\ sb[x] = {x} \cup Under(sub, lf[x]) \cup Under(sub, z)
           /\ \A n \in L : n \notin {x, y} => sb[n] = sub[n]
           /\ \A c \in L \cup {Nil} : c \notin {x, y} => Under(sb, c) = Under(sub, c)
           /\ Under(sb, x) = sb[x] /\ Under(sb, y) = sub[x]
           /\ sub[x] = {x} \cup Under(sub, lf[x]) \cup sub[y] /\ sub[y] = {y} \cup Under(sub, z) \cup Under(sub, rt[y])
           /\ x \notin Under(sub, lf[x]) /\ x \notin sub[y] /\ Under(sub, lf[x]) \cap sub[y] = {}
           /\ y \notin Under(sub, z) /\ y \notin Under(sub, rt[y]) /\ Under(sub, z) \cap Under(sub, rt[y]) = {}
<1>1. /\ x \in L /\ y \in L /\ x # y /\ z = lf[y] /\ y = rt[x] /\ Nil \notin L
  BY DEF Around
<1>2. /\ sub[x] = {x} \cup Under(sub, lf[x]) \cup sub[y] /\ sub[y] = {y} \cup Under(sub, z) \cup Under(sub, rt[y])
      /\ x \notin Under(sub, lf[x]) /\ x \notin sub[y] /\ Under(sub, lf[x]) \cap sub[y] = {}
      /\ y \notin Under(sub, z) /\ y \notin Under(sub, rt[y]) /\ Under(sub, z) \cap Under(sub, rt[y]) = {}
      /\ sub \in [L -> SUBSET L]
  <2>1. y # Nil /\ Under(sub, y) = sub[y]
    BY <1>1 DEF Under
  <2>2. \A n \in L : /\ sub[n] = {n} \cup Under(sub, lf[n]) \cup Under(sub, rt[n])
                     /\ n \notin Under(sub, lf[n]) \cup Under(sub, rt[n])
                     /\ Under(sub, lf[n]) \cap Under(sub, rt[n]) = {}
    BY DEF Tied
  <2>3. sub \in [L -> SUBSET L]
    BY DEF Tied
  <2>4. QED BY <1>1, <2>1, <2>2, <2>3
<1>3. /\ sb \in [L -> SUBSET L]
      /\ sb[y] = sub[x] /\ sb[x] = {x} \cup Under(sub, lf[x]) \cup Under(sub, z)
      /\ \A n \in L : n \notin {x, y} => sb[n] = sub[n]
  BY <1>1, <1>2 DEF TurnedSub
<1>4. \A c \in L \cup {Nil} : c \notin {x, y} => Under(sb, c) = Under(sub, c)
  BY <1>3 DEF Under
<1>5. Under(sb, x) = sb[x] /\ Under(sb, y) = sub[x]
  BY <1>1, <1>3 DEF Under
<1>6. QED BY <1>2, <1>3, <1>4, <1>5

\* A node away from x and y has below it what it had, on each side.
LEMMA TurnedElsewhere ==
    ASSUME NEW pa, NEW lf, NEW rt, NEW L, NEW sub, Tied(pa, lf, rt, L, sub), NEW x, NEW y, NEW z, NEW p,
           Around(pa, lf, rt, L, sub, x, y, z, p), NEW sb, sb = TurnedSub(sub, lf, x, y),
           NEW pb, NEW lg, NEW rg, Turned(pa, lf, rt, x, y, pb, lg, rg),
           NEW n \in L, n \notin {x, y}
    PROVE  Under(sb, lg[n]) = Under(sub, lf[n]) /\ Under(sb, rg[n]) = Under(sub, rt[n])
<1>1. lf[n] \in L \cup {Nil} /\ rt[n] \in L \cup {Nil} /\ Nil \notin L /\ x \in L /\ y \in L
  BY DEF Tied, Around
<1>2. lf[n] # y /\ rt[n] # y
  <2>1. (lf[n] # Nil => pa[lf[n]] = n) /\ (rt[n] # Nil => pa[rt[n]] = n)
    BY DEF Tied
  <2>2. QED BY <2>1, <1>1 DEF Around
<1>3. Under(sub, x) = sub[x] /\ Under(sb, y) = sub[x]
  BY <1>1, TurnedUnder DEF Under
<1>4. \A c \in L \cup {Nil} : c \notin {x, y} => Under(sb, c) = Under(sub, c)
  BY TurnedUnder
<1>5. CASE n # p
  <2>1. lf[n] # x /\ rt[n] # x
    <3>1. (lf[n] # Nil => pa[lf[n]] = n) /\ (rt[n] # Nil => pa[rt[n]] = n)
      BY DEF Tied
    <3>2. QED BY <3>1, <1>1, <1>5 DEF Around
  <2>2. lg[n] = lf[n] /\ rg[n] = rt[n]
    BY <1>5, TurnedLinks
  <2>3. QED BY <1>1, <1>2, <1>4, <2>1, <2>2
<1>6. CASE n = p
  <2>1. p # Header
    BY <1>6 DEF Around
  <2>2. \/ lf[p] = x /\ lg[p] = y /\ rg[p] = rt[p]
        \/ rt[p] = x /\ rg[p] = y /\ lg[p] = lf[p]
    BY <2>1, TurnedLinks
  <2>3. ~ (lf[p] = x /\ rt[p] = x)
    BY <2>1 DEF Around
  <2>4. QED BY <1>1, <1>2, <1>3, <1>4, <1>6, <2>2, <2>3
<1>7. QED BY <1>5, <1>6

\* After a rotation the links agree again.
LEMMA TurnedTied ==
    ASSUME NEW pa, NEW lf, NEW rt, NEW L, NEW sub, Tied(pa, lf, rt, L, sub), NEW x, NEW y, NEW z, NEW p,
           Around(pa, lf, rt, L, sub, x, y, z, p), NEW sb, sb = TurnedSub(sub, lf, x, y),
           NEW pb, NEW lg, NEW rg, Turned(pa, lf, rt, x, y, pb, lg, rg)
    PROVE  Tied(pb, lg, rg, L, sb)
<1>1. /\ pb[x] = y /\ pb[y] = p /\ (z # Nil => pb[z] = x)
      /\ \A n \in L : n \notin {x, y, z} => pb[n] = pa[n]
      /\ pb[Header] = IF p = Header THEN y ELSE pa[Header]
      /\ lg[x] = lf[x] /\ rg[x] = z /\ lg[y] = x /\ rg[y] = rt[y]
      /\ \A n \in L : n \notin {x, y, p} => lg[n] = lf[n] /\ rg[n] = rt[n]
      /\ p # Header => \/ lf[p] = x /\ lg[p] = y /\ rg[p] = rt[p]
                       \/ rt[p] = x /\ rg[p] = y /\ lg[p] = lf[p]
      /\ Links(pb, lg, rg)
  BY TurnedLinks
<1>2. /\ x \in L /\ y \in L /\ z \in L \cup {Nil} /\ p \in L \cup {Header}
      /\ y = rt[x] /\ z = lf[y] /\ p = pa[x] /\ pa[y] = x
      /\ x # y /\ z # x /\ z # y /\ p # x /\ p # y /\ p # z
      /\ Nil \notin L /\ Header \notin L
      /\ p = Header <=> x = pa[Header]
      /\ lf[x] # x /\ lf[x] # y /\ rt[y] # x /\ rt[y] # y
  BY DEF Around
<1>3. /\ sb \in [L -> SUBSET L]
      /\ sb[y] = sub[x] /\ sb[x] = {x} \cup Under(sub, lf[x]) \cup Under(sub, z)
      /\ \A n \in L : n \notin {x, y} => sb[n] = sub[n]
      /\ \A c \in L \cup {Nil} : c \notin {x, y} => Under(sb, c) = Under(sub, c)
      /\ Under(sb, x) = sb[x] /\ Under(sb, y) = sub[x]
      /\ sub[x] = {x} \cup Under(sub, lf[x]) \cup sub[y] /\ sub[y] = {y} \cup Under(sub, z) \cup Under(sub, rt[y])
      /\ x \notin Under(sub, lf[x]) /\ x \notin sub[y] /\ Under(sub, lf[x]) \cap sub[y] = {}
      /\ y \notin Under(sub, z) /\ y \notin Under(sub, rt[y]) /\ Under(sub, z) \cap Under(sub, rt[y]) = {}
  BY TurnedUnder
<1>4. /\ L \subseteq Node
      /\ pa[Header] \in L \cup {Nil} /\ (pa[Header] = Nil <=> L = {})
      /\ pa[Header] # Nil => pa[pa[Header]] = Header /\ sub[pa[Header]] = L
  BY DEF Tied
<1>5. \A n \in L : /\ pa[n] \in L \cup {Header} /\ lf[n] \in L \cup {Nil} /\ rt[n] \in L \cup {Nil}
                   /\ pa[n] = Header => n = pa[Header]
                   /\ pa[n] # Header => lf[pa[n]] = n \/ rt[pa[n]] = n
                   /\ lf[n] # Nil => pa[lf[n]] = n
                   /\ rt[n] # Nil => pa[rt[n]] = n
  BY DEF Tied
<1>6. /\ pb[Header] \in L \cup {Nil} /\ (pb[Header] = Nil <=> L = {})
      /\ pb[Header] # Nil => pb[pb[Header]] = Header /\ sb[pb[Header]] = L
  <2>1. CASE p = Header
    <3>1. pb[Header] = y /\ pb[y] = Header
      BY <2>1, <1>1
    <3>2. x = pa[Header] /\ x # Nil /\ y \in L /\ y # Nil
      BY <2>1, <1>2
    <3>3. sb[y] = sub[x] /\ sub[x] = L
      BY <3>2, <1>3, <1>4
    <3>4. QED BY ONLY <3>1, <3>2, <3>3
  <2>2. CASE p # Header
    <3>1. pa[Header] \notin {x, y, z}
      <4>1. pa[Header] # y
        BY <1>2, <1>4
      <4>2. pa[Header] # z
        BY <1>2, <1>4, <1>5
      <4>3. QED BY <4>1, <4>2, <2>2, <1>2
    <3>2. QED BY <2>2, <3>1, <1>1, <1>2, <1>3, <1>4
  <2>3. QED BY <2>1, <2>2
<1>7. ASSUME NEW n \in L
      PROVE  pb[n] \in L \cup {Header} /\ lg[n] \in L \cup {Nil} /\ rg[n] \in L \cup {Nil}
  BY <1>1, <1>2, <1>5
<1>8. ASSUME NEW n \in L, pb[n] = Header PROVE n = pb[Header]
  <2>1. n # x /\ (n = z => z # Nil)
    BY <1>8, <1>1, <1>2
  <2>2. n # z
    BY <2>1, <1>8, <1>1, <1>2
  <2>3. CASE n = y
    BY <2>3, <1>8, <1>1, <1>2
  <2>4. CASE n # y
    BY <2>1, <2>2, <2>4, <1>8, <1>1, <1>2, <1>5
  <2>5. QED BY <2>3, <2>4
<1>9. ASSUME NEW n \in L, pb[n] # Header PROVE lg[pb[n]] = n \/ rg[pb[n]] = n
  <2>1. CASE n = x
    BY <2>1, <1>1
  <2>2. CASE n = y
    BY <2>2, <1>9, <1>1
  <2>3. CASE n = z
    BY <2>3, <1>1, <1>2
  <2>4. CASE n \notin {x, y, z}
    <3>1. pb[n] = pa[n] /\ pa[n] \in L /\ (lf[pa[n]] = n \/ rt[pa[n]] = n)
      BY <2>4, <1>1, <1>5, <1>9
    <3>2. CASE pa[n] = x
      BY <3>1, <3>2, <2>4, <1>1, <1>2
    <3>3. CASE pa[n] = y
      BY <3>1, <3>3, <2>4, <1>1, <1>2
    <3>4. CASE pa[n] = p
      BY <3>1, <3>4, <2>4, <1>1, <1>2
    <3>5. CASE pa[n] \notin {x, y, p}
      BY <3>1, <3>5, <1>1
    <3>6. QED BY <3>2, <3>3, <3>4, <3>5
  <2>5. QED BY <2>1, <2>2, <2>3, <2>4
<1>10. ASSUME NEW n \in L PROVE (lg[n] # Nil => pb[lg[n]] = n) /\ (rg[n] # Nil => pb[rg[n]] = n)
  <2>0. \A c \in L : c \notin {x, y, z} => pb[c] = pa[c]
    BY <1>1
  <2>1. CASE n = x
    <3>1. lf[x] # Nil => lf[x] # z
      BY <1>2, <1>5
    <3>2. lf[x] # Nil => pb[lf[x]] = x
      BY <3>1, <2>0, <1>2, <1>5
    <3>3. QED BY <2>1, <3>2, <1>1
  <2>2. CASE n = y
    <3>1. rt[y] # Nil => rt[y] # z
      <4>1. ASSUME rt[y] # Nil, rt[y] = z PROVE FALSE
        <5>1. z \in L /\ z \in sub[z]
          BY <4>1, <1>2, Below
        <5>2. z \in Under(sub, z) /\ z \in Under(sub, rt[y])
          BY <4>1, <5>1 DEF Under
        <5>3. QED BY <5>2, <1>3
      <4>2. QED BY <4>1
    <3>2. rt[y] # Nil => pb[rt[y]] = y
      BY <3>1, <2>0, <1>2, <1>5
    <3>3. QED BY <2>2, <3>2, <1>1
  <2>3. CASE n \notin {x, y}
    <3>1. \A c \in L : pa[c] = n /\ c # x => pb[c] = n
      <4>1. ASSUME NEW c \in L, pa[c] = n, c # x PROVE pb[c] = n
        <5>1. c # y
          BY <4>1, <2>3, <1>2
        <5>2. c # z
          BY <4>1, <2>3, <1>2, <1>5
        <5>3. QED BY <4>1, <5>1, <5>2, <2>0
      <4>2. QED BY <4>1
    <3>2. CASE n = p
      <4>1. pb[y] = p /\ \A c \in L : pa[c] = p /\ c # x => pb[c] = p
        BY <3>1, <3>2, <1>1
      <4>2. lf[p] \in L \cup {Nil} /\ rt[p] \in L \cup {Nil} /\ (lf[p] # Nil => pa[lf[p]] = p) /\ (rt[p] # Nil => pa[rt[p]] = p)
        BY <3>2, <1>5
      <4>3. p # Header
        BY <3>2, <1>2
      <4>4. \/ lf[p] = x /\ rt[p] # x /\ lg[p] = y /\ rg[p] = rt[p]
            \/ rt[p] = x /\ lf[p] # x /\ rg[p] = y /\ lg[p] = lf[p]
        BY <4>3, <1>1 DEF Around
      <4>5. QED BY <4>1, <4>2, <4>4, <3>2
    <3>3. CASE n # p
      <4>1. lg[n] = lf[n] /\ rg[n] = rt[n]
        BY <3>3, <2>3, <1>1
      <4>2. QED BY <4>1, <3>1, <3>3, <1>2, <1>5
    <3>4. QED BY <3>2, <3>3
  <2>4. QED BY <2>1, <2>2, <2>3
<1>11. ASSUME NEW n \in L
       PROVE  /\ sb[n] = {n} \cup Under(sb, lg[n]) \cup Under(sb, rg[n])
              /\ n \notin Under(sb, lg[n]) \cup Under(sb, rg[n])
              /\ Under(sb, lg[n]) \cap Under(sb, rg[n]) = {}
  <2>1. CASE n = x
    <3>1. Under(sb, lg[x]) = Under(sub, lf[x]) /\ Under(sb, rg[x]) = Under(sub, z)
      BY <1>1, <1>2, <1>3, <1>5
    <3>2. QED BY <2>1, <3>1, <1>3
  <2>2. CASE n = y
    <3>1. Under(sb, lg[y]) = sb[x] /\ Under(sb, rg[y]) = Under(sub, rt[y])
      BY <1>1, <1>2, <1>3, <1>5
    <3>2. y \notin {x} /\ y \in sub[y]
      BY <1>2, <1>3
    <3>3. QED BY <2>2, <3>1, <3>2, <1>3
  <2>3. CASE n \notin {x, y}
    <3>1. Under(sb, lg[n]) = Under(sub, lf[n]) /\ Under(sb, rg[n]) = Under(sub, rt[n])
      BY <2>3, TurnedElsewhere
    <3>2. sb[n] = sub[n]
      BY <2>3, <1>3
    <3>3. QED BY <3>1, <3>2 DEF Tied
  <2>4. QED BY <2>1, <2>2, <2>3
<1>12. L \subseteq Node /\ Links(pb, lg, rg) /\ sb \in [L -> SUBSET L]
  BY <1>1, <1>3, <1>4
<1>13. \A n \in L :
         /\ pb[n] \in L \cup {Header} /\ lg[n] \in L \cup {Nil} /\ rg[n] \in L \cup {Nil}
         /\ pb[n] = Header => n = pb[Header]
         /\ pb[n] # Header => lg[pb[n]] = n \/ rg[pb[n]] = n
         /\ lg[n] # Nil => pb[lg[n]] = n
         /\ rg[n] # Nil => pb[rg[n]] = n
         /\ sb[n] = {n} \cup Under(sb, lg[n]) \cup Under(sb, rg[n])
         /\ n \notin Under(sb, lg[n]) \cup Under(sb, rg[n])
         /\ Under(sb, lg[n]) \cap Under(sb, rg[n]) = {}
  BY ONLY <1>7, <1>8, <1>9, <1>10, <1>11
<1>14. QED BY ONLY <1>6, <1>12, <1>13 DEF Tied

\* The situation, for use by name: the links,
LEMMA RotatedFacts ==
    ASSUME NEW pa, NEW lf, NEW rt, NEW L, NEW sub, NEW x, NEW y, NEW z, NEW p, NEW sb, NEW pb, NEW lg, NEW rg,
           Rotated(pa, lf, rt, L, sub, x, y, z, p, sb, pb, lg, rg)
    PROVE  /\ x \in L /\ y \in L /\ z \in L \cup {Nil} /\ p \in L \cup {Header} /\ Nil \notin L /\ Header \notin L
           /\ y = rt[x] /\ z = lf[y] /\ p = pa[x] /\ pa[y] = x /\ x # y /\ z # x /\ z # y /\ p # x /\ p # y
           /\ \A n \in L : lf[n] \in L \cup {Nil} /\ rt[n] \in L \cup {Nil}
           /\ lf[x] # x /\ lf[x] # y /\ rt[y] # x /\ rt[y] # y
           /\ lg[x] = lf[x] /\ rg[x] = z /\ lg[y] = x /\ rg[y] = rt[y]
           /\ \A n \in L : n \notin {x, y, p} => lg[n] = lf[n] /\ rg[n] = rt[n]
           /\ p # Header => \/ lf[p] = x /\ rt[p] # x /\ lg[p] = y /\ rg[p] = rt[p]
                            \/ rt[p] = x /\ lf[p] # x /\ rg[p] = y /\ lg[p] = lf[p]
           /\ Tied(pb, lg, rg, L, sb)
<1>1. /\ x \in L /\ y \in L /\ z \in L \cup {Nil} /\ p \in L \cup {Header} /\ Nil \notin L /\ Header \notin L
      /\ y = rt[x] /\ z = lf[y] /\ p = pa[x] /\ pa[y] = x /\ x # y /\ z # x /\ z # y /\ p # x /\ p # y
      /\ lf[x] # x /\ lf[x] # y /\ rt[y] # x /\ rt[y] # y
      /\ p # Header => ~ (lf[p] = x /\ rt[p] = x)
  BY DEF Rotated, Around
<1>2. \A n \in L : lf[n] \in L \cup {Nil} /\ rt[n] \in L \cup {Nil}
  BY DEF Rotated, Tied
<1>3. /\ lg[x] = lf[x] /\ rg[x] = z /\ lg[y] = x /\ rg[y] = rt[y]
      /\ \A n \in L : n \notin {x, y, p} => lg[n] = lf[n] /\ rg[n] = rt[n]
      /\ p # Header => \/ lf[p] = x /\ lg[p] = y /\ rg[p] = rt[p]
                       \/ rt[p] = x /\ rg[p] = y /\ lg[p] = lf[p]
  <2>1. Tied(pa, lf, rt, L, sub) /\ Around(pa, lf, rt, L, sub, x, y, z, p) /\ Turned(pa, lf, rt, x, y, pb, lg, rg)
    BY DEF Rotated
  <2>2. QED BY <2>1, TurnedLinks
<1>4. Tied(pb, lg, rg, L, sb)
  <2>1. /\ Tied(pa, lf, rt, L, sub) /\ Around(pa, lf, rt, L, sub, x, y, z, p) /\ Turned(pa, lf, rt, x, y, pb, lg, rg)
        /\ sb = TurnedSub(sub, lf, x, y)
    BY DEF Rotated
  <2>2. QED BY <2>1, TurnedTied
<1>5. QED BY <1>1, <1>2, <1>3, <1>4

\* and what is below them.
LEMMA RotatedUnder ==
    ASSUME NEW pa, NEW lf, NEW rt, NEW L, NEW sub, NEW x, NEW y, NEW z, NEW p, NEW sb, NEW pb, NEW lg, NEW rg,
           Rotated(pa, lf, rt, L, sub, x, y, z, p, sb, pb, lg, rg)
    PROVE  /\ sb[y] = sub[x] /\ sb[x] = {x} \cup Under(sub, lf[x]) \cup Under(sub, z)
           /\ \A n \in L : n \notin {x, y} => sb[n] = sub[n]
           /\ \A n \in L : n \notin {x, y} => Under(sb, lg[n]) = Under(sub, lf[n]) /\ Under(sb, rg[n]) = Under(sub, rt[n])
           /\ Under(sb, lg[x]) = Under(sub, lf[x]) /\ Under(sb, rg[x]) = Under(sub, z)
           /\ Under(sb, lg[y]) = sb[x] /\ Under(sb, rg[y]) = Under(sub, rt[y])
           /\ sub[x] = {x} \cup Under(sub, lf[x]) \cup sub[y] /\ sub[y] = {y} \cup Under(sub, z) \cup Under(sub, rt[y])
           /\ x \notin Under(sub, lf[x]) /\ x \notin sub[y] /\ Under(sub, lf[x]) \cap sub[y] = {}
           /\ y \notin Under(sub, z) /\ y \notin Under(sub, rt[y]) /\ Under(sub, z) \cap Under(sub, rt[y]) = {}
           /\ Under(sub, rt[x]) = sub[y] /\ Under(sub, lf[y]) = Under(sub, z)
<1>1. /\ Tied(pa, lf, rt, L, sub) /\ Around(pa, lf, rt, L, sub, x, y, z, p) /\ Turned(pa, lf, rt, x, y, pb, lg, rg)
      /\ sb = TurnedSub(sub, lf, x, y)
  BY DEF Rotated
<1>2. /\ sb[y] = sub[x] /\ sb[x] = {x} \cup Under(sub, lf[x]) \cup Under(sub, z)
      /\ \A n \in L : n \notin {x, y} => sb[n] = sub[n]
      /\ \A c \in L \cup {Nil} : c \notin {x, y} => Under(sb, c) = Under(sub, c)
      /\ Under(sb, x) = sb[x]
      /\ sub[x] = {x} \cup Under(sub, lf[x]) \cup sub[y] /\ sub[y] = {y} \cup Under(sub, z) \cup Under(sub, rt[y])
      /\ x \notin Under(sub, lf[x]) /\ x \notin sub[y] /\ Under(sub, lf[x]) \cap sub[y] = {}
      /\ y \notin Under(sub, z) /\ y \notin Under(sub, rt[y]) /\ Under(sub, z) \cap Under(sub, rt[y]) = {}
  BY <1>1, TurnedUnder
<1>3. \A n \in L : n \notin {x, y} => Under(sb, lg[n]) = Under(sub, lf[n]) /\ Under(sb, rg[n]) = Under(sub, rt[n])
  BY <1>1, TurnedElsewhere
<1>4. /\ Under(sb, lg[x]) = Under(sub, lf[x]) /\ Under(sb, rg[x]) = Under(sub, z)
      /\ Under(sb, lg[y]) = sb[x] /\ Under(sb, rg[y]) = Under(sub, rt[y])
  BY <1>2, RotatedFacts
<1>5. Under(sub, rt[x]) = sub[y] /\ Under(sub, lf[y]) = Under(sub, z)
  BY RotatedFacts DEF Under
<1>6. QED BY <1>2, <1>3, <1>4, <1>5

\* A rotation keeps the order of the keys,
LEMMA RotatedSorted ==
    ASSUME NEW pa, NEW lf, NEW rt, NEW L, NEW sub, NEW x, NEW y, NEW z, NEW p, NEW sb, NEW pb, NEW lg, NEW rg,
           Rotated(pa, lf, rt, L, sub, x, y, z, p, sb, pb, lg, rg),
           NEW key \in [Node -> Int], Sorted(key, lf, rt, L, sub)
    PROVE  Sorted(key, lg, rg, L, sb)
<1>1. x \in L /\ y \in L
  BY RotatedFacts
<1>2. /\ sb[x] = {x} \cup Under(sub, lf[x]) \cup Under(sub, z)
      /\ \A n \in L : n \notin {x, y} => Under(sb, lg[n]) = Under(sub, lf[n]) /\ Under(sb, rg[n]) = Under(sub, rt[n])
      /\ Under(sb, lg[x]) = Under(sub, lf[x]) /\ Under(sb, rg[x]) = Under(sub, z)
      /\ Under(sb, lg[y]) = sb[x] /\ Under(sb, rg[y]) = Under(sub, rt[y])
      /\ sub[y] = {y} \cup Under(sub, z) \cup Under(sub, rt[y])
      /\ Under(sub, rt[x]) = sub[y] /\ Under(sub, lf[y]) = Under(sub, z)
  BY RotatedUnder
<1>3. \A n \in L : key[n] \in Int
  BY Below DEF Rotated
<1>4. \A n \in L : /\ \A m \in Under(sub, lf[n]) : key[m] <= key[n]
                   /\ \A m \in Under(sub, rt[n]) : key[n] <= key[m]
                   /\ Under(sub, lf[n]) \subseteq L /\ Under(sub, rt[n]) \subseteq L
  <2>1. \A n \in L : Under(sub, lf[n]) \subseteq L /\ Under(sub, rt[n]) \subseteq L
    BY DEF Rotated, Tied
  <2>2. QED BY <2>1 DEF Sorted
<1>5. ASSUME NEW n \in L
      PROVE  /\ \A m \in Under(sb, lg[n]) : key[m] <= key[n]
             /\ \A m \in Under(sb, rg[n]) : key[n] <= key[m]
  <2>1. CASE n = x
    BY <2>1, <1>1, <1>2, <1>4
  <2>2. CASE n = y
    <3>1. key[x] <= key[y]
      BY <1>1, <1>2, <1>4
    <3>2. \A m \in Under(sub, lf[x]) : key[m] <= key[y]
      BY <3>1, <1>1, <1>3, <1>4
    <3>3. \A m \in Under(sub, z) : key[m] <= key[y]
      BY <1>1, <1>2, <1>4
    <3>4. QED BY <2>2, <3>1, <3>2, <3>3, <1>1, <1>2, <1>4
  <2>3. CASE n \notin {x, y}
    BY <2>3, <1>2, <1>4
  <2>4. QED BY <2>1, <2>2, <2>3
<1>6. QED BY <1>5 DEF Sorted

\* and both ends.
LEMMA RotatedFirst ==
    ASSUME NEW pa, NEW lf, NEW rt, NEW L, NEW sub, NEW x, NEW y, NEW z, NEW p, NEW sb, NEW pb, NEW lg, NEW rg,
           Rotated(pa, lf, rt, L, sub, x, y, z, p, sb, pb, lg, rg), NEW e
    PROVE  /\ First(lf, L, sub, e) => First(lg, L, sb, e) /\ (e \in sub[x] => e \in sb[x])
           /\ First(rt, L, sub, e) => First(rg, L, sb, e)
<1>1. /\ x \in L /\ y \in L /\ Nil \notin L /\ Header \notin L /\ p \in L \cup {Header} /\ y = rt[x] /\ x # y
      /\ lg[x] = lf[x] /\ rg[x] = z /\ lg[y] = x /\ rg[y] = rt[y]
      /\ \A n \in L : n \notin {x, y, p} => lg[n] = lf[n] /\ rg[n] = rt[n]
      /\ p # Header => \/ lf[p] = x /\ rt[p] # x /\ lg[p] = y /\ rg[p] = rt[p]
                       \/ rt[p] = x /\ lf[p] # x /\ rg[p] = y /\ lg[p] = lf[p]
  BY RotatedFacts
<1>2. /\ sb[y] = sub[x] /\ sb[x] = {x} \cup Under(sub, lf[x]) \cup Under(sub, z)
      /\ \A n \in L : n \notin {x, y} => sb[n] = sub[n]
      /\ \A n \in L : n \notin {x, y} => Under(sb, lg[n]) = Under(sub, lf[n]) /\ Under(sb, rg[n]) = Under(sub, rt[n])
      /\ Under(sb, lg[x]) = Under(sub, lf[x]) /\ Under(sb, rg[x]) = Under(sub, z)
      /\ Under(sb, lg[y]) = sb[x] /\ Under(sb, rg[y]) = Under(sub, rt[y])
      /\ sub[x] = {x} \cup Under(sub, lf[x]) \cup sub[y] /\ sub[y] = {y} \cup Under(sub, z) \cup Under(sub, rt[y])
      /\ x \notin Under(sub, lf[x]) /\ x \notin sub[y] /\ Under(sub, lf[x]) \cap sub[y] = {}
      /\ y \notin Under(sub, z) /\ y \notin Under(sub, rt[y]) /\ Under(sub, z) \cap Under(sub, rt[y]) = {}
      /\ Under(sub, rt[x]) = sub[y] /\ Under(sub, lf[y]) = Under(sub, z)
  BY RotatedUnder
<1>3. ASSUME First(lf, L, sub, e) PROVE First(lg, L, sb, e) /\ (e \in sub[x] => e \in sb[x])
  <2>1. e \in L /\ lf[e] = Nil /\ \A a \in L : e \in sub[a] => a = e \/ e \in Under(sub, lf[a])
    BY <1>3 DEF First
  <2>2. e \in sub[x] => e = x \/ e \in Under(sub, lf[x])
    BY <2>1, <1>1
  <2>3. e # y
    BY <2>2, <1>1, <1>2
  <2>4. lg[e] = Nil
    <3>1. CASE e = p
      BY <3>1, <2>1, <1>1
    <3>2. CASE e # p
      BY <3>2, <2>1, <2>3, <1>1
    <3>3. QED BY <3>1, <3>2
  <2>5. ASSUME NEW a \in L, e \in sb[a] PROVE a = e \/ e \in Under(sb, lg[a])
    <3>1. CASE a = x
      <4>1. e \in sub[x]
        BY <3>1, <2>5, <1>2
      <4>2. QED BY <3>1, <4>1, <2>2, <1>2
    <3>2. CASE a = y
      BY <3>2, <2>5, <2>2, <1>2
    <3>3. CASE a \notin {x, y}
      BY <3>3, <2>5, <2>1, <1>2
    <3>4. QED BY <3>1, <3>2, <3>3
  <2>6. QED BY <2>1, <2>2, <2>4, <2>5, <1>2 DEF First
<1>4. ASSUME First(rt, L, sub, e) PROVE First(rg, L, sb, e)
  <2>1. e \in L /\ rt[e] = Nil /\ \A a \in L : e \in sub[a] => a = e \/ e \in Under(sub, rt[a])
    BY <1>4 DEF First
  <2>2. e # x
    BY <2>1, <1>1
  <2>3. e \in sub[x] => e \in sub[y]
    BY <2>1, <2>2, <1>1, <1>2
  <2>4. e \in sub[y] => e = y \/ e \in Under(sub, rt[y])
    BY <2>1, <1>1
  <2>5. rg[e] = Nil
    <3>1. CASE e = p
      BY <3>1, <2>1, <1>1
    <3>2. CASE e # p
      BY <3>2, <2>1, <2>2, <1>1
    <3>3. QED BY <3>1, <3>2
  <2>6. ASSUME NEW a \in L, e \in sb[a] PROVE a = e \/ e \in Under(sb, rg[a])
    <3>1. CASE a = x
      <4>1. e \notin sb[x]
        BY <2>2, <2>3, <2>4, <1>2
      <4>2. QED BY <3>1, <4>1, <2>6
    <3>2. CASE a = y
      BY <3>2, <2>6, <2>3, <2>4, <1>2
    <3>3. CASE a \notin {x, y}
      BY <3>3, <2>6, <2>1, <1>2
    <3>4. QED BY <3>1, <3>2, <3>3
  <2>7. QED BY <2>1, <2>5, <2>6 DEF First
<1>5. QED BY <1>3, <1>4

\* A height per node that the rotation hands from x to y.
LEMMA RotatedHeight ==
    ASSUME NEW pa, NEW lf, NEW rt, NEW L, NEW sub, NEW x, NEW y, NEW z, NEW p, NEW sb, NEW pb, NEW lg, NEW rg,
           Rotated(pa, lf, rt, L, sub, x, y, z, p, sb, pb, lg, rg),
           NEW h, NEW hb, hb[y] = h[x], NEW n \in L, n \notin {x, y},
           SameBelow(pa, L, x, n, h, hb)
    PROVE  H(hb, lg[n]) = H(h, lf[n]) /\ H(hb, rg[n]) = H(h, rt[n])
<1>1. /\ x \in L /\ y \in L /\ Nil \notin L /\ Header \notin L /\ p \in L \cup {Header} /\ pa[x] = p
      /\ \A k \in L : k \notin {x, y, p} => lg[k] = lf[k] /\ rg[k] = rt[k]
      /\ p # Header => \/ lf[p] = x /\ rt[p] # x /\ lg[p] = y /\ rg[p] = rt[p]
                       \/ rt[p] = x /\ lf[p] # x /\ rg[p] = y /\ lg[p] = lf[p]
  BY RotatedFacts
<1>2. /\ lf[n] \in L \cup {Nil} /\ rt[n] \in L \cup {Nil}
      /\ lf[n] # Nil => pa[lf[n]] = n
      /\ rt[n] # Nil => pa[rt[n]] = n
  BY DEF Rotated, Tied
<1>3. CASE n = p
  <2>1. H(hb, y) = H(h, x)
    BY <1>1 DEF H
  <2>2. \A c \in {lf[n], rt[n]} : c # x => H(hb, c) = H(h, c)
    BY <1>2 DEF H, SameBelow
  <2>3. QED BY <1>1, <1>3, <2>1, <2>2
<1>4. CASE n # p
  <2>1. lg[n] = lf[n] /\ rg[n] = rt[n]
    BY <1>1, <1>4
  <2>2. lf[n] # x /\ rt[n] # x
    BY <1>1, <1>2, <1>4
  <2>3. QED BY <1>2, <2>1, <2>2 DEF H, SameBelow
<1>5. QED BY <1>3, <1>4

\* A black node and its red child swap their colours: every path keeps its blacks.
LEMMA SwapHeights ==
    ASSUME NEW pa, NEW lf, NEW rt, NEW L, NEW sub, NEW x, NEW y, NEW z, NEW p, NEW sb, NEW pb, NEW lg, NEW rg,
           Rotated(pa, lf, rt, L, sub, x, y, z, p, sb, pb, lg, rg),
           NEW co \in [Addr -> {Red, Black}], NEW h, NEW hl, NEW hr, Heights(lf, rt, co, L, h, hl, hr),
           co[y] = Red, hl # y, hr # x, hr # y,
           NEW cp, cp = Swapped(co, x, y), NEW hb, hb = Swapped(h, x, y)
    PROVE  Heights(lg, rg, cp, L, hb, hl, hr)
<1>1. /\ x \in L /\ y \in L /\ Nil \notin L /\ x # y /\ y = rt[x] /\ z = lf[y] /\ z \in L \cup {Nil} /\ z # x /\ z # y
      /\ lf[x] # x /\ lf[x] # y /\ rt[y] # x /\ rt[y] # y
      /\ lg[x] = lf[x] /\ rg[x] = z /\ lg[y] = x /\ rg[y] = rt[y]
      /\ \A n \in L : lf[n] \in L \cup {Nil} /\ rt[n] \in L \cup {Nil}
      /\ L \subseteq Addr
  <2>1. L \subseteq Addr
    BY DEF Rotated, Around
  <2>2. QED BY <2>1, RotatedFacts
<1>2. /\ h \in [L -> Nat]
      /\ \A n \in L : /\ h[n] = Bk(co, n) + H(h, lf[n]) + Gap(hl, n)
                      /\ h[n] = Bk(co, n) + H(h, rt[n]) + Gap(hr, n)
  BY DEF Heights
<1>3. /\ hb \in [L -> Nat] /\ hb[x] = h[y] /\ hb[y] = h[x]
      /\ \A n \in L : n \notin {x, y} => hb[n] = h[n]
  BY <1>1, <1>2 DEF Swapped
<1>4. /\ cp[x] = Red /\ cp[y] = co[x]
      /\ \A n \in L : n \notin {x, y} => cp[n] = co[n]
  BY <1>1 DEF Swapped
<1>5. ASSUME NEW c \in L \cup {Nil}, c \notin {x, y} PROVE H(hb, c) = H(h, c)
  BY <1>3, <1>5 DEF H
<1>6. \A c \in L \cup {Nil} : H(h, c) \in Nat
  BY <1>2 DEF H
<1>7. /\ h[y] = H(h, z) /\ h[y] = H(h, rt[y])
      /\ h[x] = Bk(co, x) + H(h, lf[x]) + Gap(hl, x) /\ h[x] = Bk(co, x) + h[y]
      /\ h[y] = H(h, lf[x]) + Gap(hl, x)
  <2>1. Bk(co, y) = 0 /\ Gap(hl, y) = 0 /\ Gap(hr, x) = 0 /\ Gap(hr, y) = 0 /\ Bk(co, x) \in Nat /\ Gap(hl, x) \in Nat
    BY DEF Bk, Gap, Red, Black
  <2>2. H(h, rt[x]) = h[y] /\ h[x] \in Nat /\ h[y] \in Nat
    BY <1>1, <1>2 DEF H
  <2>3. H(h, z) \in Nat /\ H(h, rt[y]) \in Nat /\ H(h, lf[x]) \in Nat
    BY <1>1, <1>6
  <2>4. h[y] = 0 + H(h, z) + 0 /\ h[y] = 0 + H(h, rt[y]) + 0
    BY <1>1, <1>2, <2>1
  <2>5. h[x] = Bk(co, x) + H(h, lf[x]) + Gap(hl, x) /\ h[x] = Bk(co, x) + h[y] + 0
    BY <1>1, <1>2, <2>1, <2>2
  <2>6. QED BY <2>1, <2>2, <2>3, <2>4, <2>5
<1>8. ASSUME NEW n \in L
      PROVE  /\ hb[n] = Bk(cp, n) + H(hb, lg[n]) + Gap(hl, n)
             /\ hb[n] = Bk(cp, n) + H(hb, rg[n]) + Gap(hr, n)
  <2>1. CASE n = x
    <3>1. Bk(cp, x) = 0 /\ Gap(hr, x) = 0 /\ Gap(hl, x) \in Nat
      BY <1>4 DEF Bk, Gap, Red, Black
    <3>2. H(hb, lg[x]) = H(h, lf[x]) /\ H(hb, rg[x]) = H(h, z) /\ H(h, lf[x]) \in Nat /\ H(h, z) \in Nat
      BY <1>1, <1>5, <1>6
    <3>3. QED BY <2>1, <3>1, <3>2, <1>3, <1>7
  <2>2. CASE n = y
    <3>1. Bk(cp, y) = Bk(co, x) /\ Gap(hr, y) = 0 /\ Gap(hl, y) = 0 /\ Bk(co, x) \in Nat
      BY <1>4 DEF Bk, Gap
    <3>2. H(hb, lg[y]) = h[y] /\ H(hb, rg[y]) = H(h, rt[y])
      <4>1. H(hb, x) = h[y]
        BY <1>1, <1>3 DEF H
      <4>2. rt[y] \in L \cup {Nil} /\ rt[y] \notin {x, y}
        BY <1>1
      <4>3. QED BY <4>1, <4>2, <1>1, <1>5
    <3>3. h[y] \in Nat
      BY <1>1, <1>2
    <3>4. QED BY <2>2, <3>1, <3>2, <3>3, <1>3, <1>7
  <2>3. CASE n \notin {x, y}
    <3>1. SameBelow(pa, L, x, n, h, hb)
      <4>1. pa[y] = x
        BY RotatedFacts
      <4>2. QED BY <4>1, <2>3, <1>3 DEF SameBelow
    <3>2. H(hb, lg[n]) = H(h, lf[n]) /\ H(hb, rg[n]) = H(h, rt[n])
      <4>1. hb[y] = h[x]
        BY <1>3
      <4>2. Rotated(pa, lf, rt, L, sub, x, y, z, p, sb, pb, lg, rg)
        OBVIOUS
      <4>3. n \in L /\ n \notin {x, y}
        BY <2>3
      <4>4. QED BY ONLY <3>1, <4>1, <4>2, <4>3, RotatedHeight
    <3>3. Bk(cp, n) = Bk(co, n) /\ hb[n] = h[n]
      BY <2>3, <1>3, <1>4 DEF Bk
    <3>4. QED BY <3>2, <3>3, <1>2
  <2>4. QED BY <2>1, <2>2, <2>3
<1>9. QED BY <1>3, <1>8 DEF Heights

\* The last rotation of the erase fixup: the black missing left of x comes from w.
LEMMA NephewHeights ==
    ASSUME NEW pa, NEW lf, NEW rt, NEW L, NEW sub, NEW x, NEW y, NEW z, NEW p, NEW sb, NEW pb, NEW lg, NEW rg,
           Rotated(pa, lf, rt, L, sub, x, y, z, p, sb, pb, lg, rg),
           NEW co \in [Addr -> {Red, Black}], NEW h, Heights(lf, rt, co, L, h, x, Nil),
           NEW w, w = rt[y], w # Nil, co[y] = Black, co[w] = Red,
           NEW cp, cp = NephewColours(co, x, y, w), NEW hb, hb = NephewBlacks(h, x, y, w)
    PROVE  Heights(lg, rg, cp, L, hb, Nil, Nil)
<1>1. /\ x \in L /\ y \in L /\ Nil \notin L /\ x # y /\ y = rt[x] /\ z = lf[y] /\ z \in L \cup {Nil} /\ z # x /\ z # y
      /\ lf[x] # x /\ lf[x] # y /\ rt[y] # x /\ rt[y] # y
      /\ lg[x] = lf[x] /\ rg[x] = z /\ lg[y] = x /\ rg[y] = rt[y]
      /\ \A n \in L : lf[n] \in L \cup {Nil} /\ rt[n] \in L \cup {Nil}
      /\ L \subseteq Addr
  <2>1. L \subseteq Addr
    BY DEF Rotated, Around
  <2>2. QED BY <2>1, RotatedFacts
<1>2. /\ h \in [L -> Nat]
      /\ \A n \in L : /\ h[n] = Bk(co, n) + H(h, lf[n]) + Gap(x, n)
                      /\ h[n] = Bk(co, n) + H(h, rt[n]) + Gap(Nil, n)
  BY DEF Heights
<1>3. w \in L /\ w # x /\ w # y /\ pa[w] = y /\ pa[y] = x
  BY <1>1, RotatedFacts DEF Rotated, Tied
<1>4. lf[x] # w /\ z # w
  <2>1. \A n \in L : (lf[n] # Nil => pa[lf[n]] = n) /\ (rt[n] # Nil => pa[rt[n]] = n)
    BY DEF Rotated, Tied
  <2>2. z # w
    <3>1. Under(sub, z) \cap Under(sub, rt[y]) = {}
      BY RotatedUnder
    <3>2. w \in sub[w]
      BY <1>3, Below DEF Rotated
    <3>3. QED BY <3>1, <3>2, <1>3, <1>1 DEF Under
  <2>3. QED BY <2>1, <2>2, <1>1, <1>3
<1>5. /\ hb \in [L -> Nat] /\ hb[x] = h[w] + 1 /\ hb[y] = h[x] /\ hb[w] = h[w] + 1
      /\ \A n \in L : n \notin {x, y, w} => hb[n] = h[n]
  BY <1>1, <1>2, <1>3 DEF NephewBlacks
<1>6. /\ cp[x] = Black /\ cp[y] = co[x] /\ cp[w] = Black
      /\ \A n \in L : n \notin {x, y, w} => cp[n] = co[n]
  BY <1>1, <1>3 DEF NephewColours
<1>7. ASSUME NEW c \in L \cup {Nil}, c \notin {x, y, w} PROVE H(hb, c) = H(h, c)
  BY <1>5, <1>7 DEF H
<1>8. \A c \in L \cup {Nil} : H(h, c) \in Nat
  BY <1>2 DEF H
<1>9. \A n \in L : Gap(Nil, n) = 0
  BY <1>1 DEF Gap
<1>10. H(h, z) = h[w] /\ H(h, lf[x]) = h[w] /\ h[x] = Bk(co, x) + h[w] + 1 /\ h[w] \in Nat
  <2>1. Bk(co, y) = 1 /\ Gap(x, y) = 0 /\ Gap(x, x) = 1 /\ Bk(co, x) \in Nat
    BY <1>1 DEF Bk, Gap
  <2>2. H(h, rt[x]) = h[y] /\ h[x] \in Nat /\ h[y] \in Nat /\ H(h, rt[y]) = h[w] /\ h[w] \in Nat
    BY <1>1, <1>2, <1>3 DEF H
  <2>3. H(h, z) \in Nat /\ H(h, lf[x]) \in Nat
    BY <1>1, <1>8
  <2>4. h[y] = 1 + H(h, z) + 0 /\ h[y] = 1 + h[w] + 0
    BY <1>1, <1>2, <1>9, <2>1, <2>2
  <2>5. h[x] = Bk(co, x) + H(h, lf[x]) + 1 /\ h[x] = Bk(co, x) + h[y] + 0
    BY <1>1, <1>2, <1>9, <2>1, <2>2
  <2>6. QED BY <2>1, <2>2, <2>3, <2>4, <2>5
<1>11. ASSUME NEW n \in L
       PROVE  /\ hb[n] = Bk(cp, n) + H(hb, lg[n]) + Gap(Nil, n)
              /\ hb[n] = Bk(cp, n) + H(hb, rg[n]) + Gap(Nil, n)
  <2>1. CASE n = x
    <3>1. Bk(cp, x) = 1
      BY <1>6 DEF Bk
    <3>2. H(hb, lg[x]) = h[w] /\ H(hb, rg[x]) = h[w]
      <4>1. lf[x] \in L \cup {Nil} /\ lf[x] \notin {x, y, w} /\ z \notin {x, y, w}
        BY <1>1, <1>3, <1>4
      <4>2. QED BY <4>1, <1>1, <1>7, <1>10
    <3>3. QED BY <2>1, <3>1, <3>2, <1>5, <1>9, <1>10
  <2>2. CASE n = y
    <3>1. Bk(cp, y) = Bk(co, x) /\ Bk(co, x) \in Nat
      BY <1>6 DEF Bk
    <3>2. H(hb, lg[y]) = h[w] + 1 /\ H(hb, rg[y]) = h[w] + 1
      BY <1>1, <1>3, <1>5 DEF H
    <3>3. QED BY <2>2, <3>1, <3>2, <1>5, <1>9, <1>10
  <2>3. CASE n = w
    <3>1. Bk(cp, w) = 1 /\ Bk(co, w) = 0 /\ Gap(x, w) = 0
      BY <1>3, <1>6 DEF Bk, Red, Black, Gap
    <3>2. SameBelow(pa, L, x, w, h, hb)
      <4>1. w \notin sub[w] \/ \A c \in L : pa[c] = w => c # w
        <5>1. \A c \in L : pa[c] # c
          <6>1. ASSUME NEW c \in L, pa[c] = c PROVE FALSE
            <7>1. c # Header /\ (lf[c] = c \/ rt[c] = c)
              <8>1. Header \notin L
                BY RotatedFacts
              <8>2. QED BY <8>1, <6>1 DEF Rotated, Tied
            <7>2. Cardinality(sub[c]) < Cardinality(sub[c]) /\ Cardinality(sub[c]) \in Nat
              BY <7>1, <1>1, Below DEF Rotated
            <7>3. QED BY <7>2
          <6>2. QED BY <6>1
        <5>2. QED BY <5>1
      <4>2. w \in sub[w]
        BY <1>3, Below DEF Rotated
      <4>3. QED BY <4>1, <4>2, <1>1, <1>3, <1>5 DEF SameBelow
    <3>3. H(hb, lg[w]) = H(h, lf[w]) /\ H(hb, rg[w]) = H(h, rt[w])
      <4>1. hb[y] = h[x]
        BY <1>5
      <4>2. Rotated(pa, lf, rt, L, sub, x, y, z, p, sb, pb, lg, rg)
        OBVIOUS
      <4>3. w \in L /\ w \notin {x, y}
        BY <1>3
      <4>4. QED BY ONLY <3>2, <4>1, <4>2, <4>3, RotatedHeight
    <3>4. H(h, lf[w]) \in Nat /\ H(h, rt[w]) \in Nat
      BY <1>1, <1>3, <1>8
    <3>5. h[w] = 0 + H(h, lf[w]) + 0 /\ h[w] = 0 + H(h, rt[w]) + 0
      BY <3>1, <1>2, <1>3, <1>9
    <3>6. QED BY <2>3, <3>1, <3>3, <3>4, <3>5, <1>5, <1>9
  <2>4. CASE n \notin {x, y, w}
    <3>1. SameBelow(pa, L, x, n, h, hb)
      BY <2>4, <1>3, <1>5 DEF SameBelow
    <3>2. H(hb, lg[n]) = H(h, lf[n]) /\ H(hb, rg[n]) = H(h, rt[n])
      <4>1. hb[y] = h[x]
        BY <1>5
      <4>2. Rotated(pa, lf, rt, L, sub, x, y, z, p, sb, pb, lg, rg)
        OBVIOUS
      <4>3. n \in L /\ n \notin {x, y}
        BY <2>4
      <4>4. QED BY ONLY <3>1, <4>1, <4>2, <4>3, RotatedHeight
    <3>3. Bk(cp, n) = Bk(co, n) /\ hb[n] = h[n] /\ Gap(x, n) = 0
      BY <2>4, <1>5, <1>6 DEF Bk, Gap
    <3>4. QED BY <3>2, <3>3, <1>2, <1>9
  <2>5. QED BY <2>1, <2>2, <2>3, <2>4
<1>12. QED BY <1>5, <1>11 DEF Heights

\* The writes are those of a rotation.
LEMMA TurnedWrites ==
    ASSUME NEW pa, NEW lf, NEW rt, NEW L, NEW sub, NEW x, NEW y, NEW z, NEW p,
           Around(pa, lf, rt, L, sub, x, y, z, p), Links(pa, lf, rt)
    PROVE  Turned(pa, lf, rt, x, y, NewParents(pa, x, y, z, p), NewUp(pa, lf, rt, x, y, p), NewDown(pa, rt, x, y, z, p))
<1>1. x \in Addr /\ y \in Addr /\ z \in Addr \cup {Nil} /\ p \in Addr /\ Header \in Addr /\ Nil \notin Addr
      /\ p # x /\ p # y
      /\ x # y /\ z # x /\ z # y /\ x # Header /\ y # Header /\ z # Header /\ z = lf[y] /\ p = pa[x] /\ y = rt[x]
  BY NilNotAddr DEF Around
<1>2. pa \in [Addr -> Addr \cup {Nil}] /\ rt \in [Addr -> Addr \cup {Nil}] /\ lf \in [Addr -> Addr \cup {Nil}]
  BY DEF Links
<1>3. PICK q : q = IF z = Nil THEN [pa EXCEPT ![x] = y, ![y] = p] ELSE [[pa EXCEPT ![x] = y, ![y] = p] EXCEPT ![z] = x]
  OBVIOUS
<1>4. q = [a \in Addr |-> IF a = x THEN y ELSE IF a = y THEN p ELSE IF a = z THEN x ELSE pa[a]]
  BY <1>1, <1>2, <1>3
<1>5. NewParents(pa, x, y, z, p) = IF x = pa[Header] THEN [q EXCEPT ![Header] = y] ELSE q
  BY <1>3 DEF NewParents
<1>6. NewParents(pa, x, y, z, p) =
           [a \in Addr |-> IF a = x THEN y ELSE IF a = y THEN pa[x] ELSE IF a = lf[y] THEN x
                           ELSE IF a = Header /\ x = pa[Header] THEN y ELSE pa[a]]
  BY <1>1, <1>4, <1>5
<1>7. NewDown(pa, rt, x, y, z, p) =
              [a \in Addr |-> IF a = x THEN lf[y]
                              ELSE IF a = pa[x] /\ x # pa[Header] /\ rt[a] = x THEN y ELSE rt[a]]
  BY <1>1, <1>2 DEF NewDown
<1>8. NewUp(pa, lf, rt, x, y, p) =
              [a \in Addr |-> IF a = y THEN x
                              ELSE IF a = pa[x] /\ x # pa[Header] /\ rt[a] # x THEN y ELSE lf[a]]
  BY <1>1, <1>2 DEF NewUp
<1>9. QED BY <1>1, <1>6, <1>7, <1>8 DEF Turned

\* Rotate(), by the names of its parts.
LEMMA RotateUnfolded ==
    ASSUME NEW t, NEW x, NEW u, NEW down
    PROVE  Rotate(t, x, u, down)
             = LET y == t[down][x]
                   z == t[u][y]
                   p == t.parent[x]
               IN  RotateOutside(t, x, u, down, y, p,
                       RotateInside(t, x, u, down, y, z, RotateParents(t.parent, x, y, z, p)))
BY ONLY ZenonT(40) DEF Rotate, RotateOutside, RotateInside, RotateParents

\* ... with those names given.
LEMMA RotateNamed ==
    ASSUME NEW t, NEW x, NEW u, NEW down, NEW y, y = t[down][x], NEW z, z = t[u][y], NEW p, p = t.parent[x],
           NEW q, q = RotateParents(t.parent, x, y, z, p), NEW s, s = RotateInside(t, x, u, down, y, z, q)
    PROVE  Rotate(t, x, u, down) = RotateOutside(t, x, u, down, y, p, s)
BY RotateUnfolded

\* Rotate() is a rotation to the left,
LEMMA RotateLeft ==
    ASSUME NEW t, NEW pa, NEW lf, NEW rt, NEW co, Fields(t, pa, lf, rt, co), co \in [Addr -> {Red, Black}],
           NEW L, NEW sub, Tied(pa, lf, rt, L, sub), NEW x \in L, rt[x] # Nil
    PROVE  \E pb, lg, rg : /\ Fields(Rotate(t, x, "left", "right"), pb, lg, rg, co)
                           /\ Turned(pa, lf, rt, x, rt[x], pb, lg, rg)
<1>1. PICK y : y = rt[x]
  OBVIOUS
<1>2. PICK z : z = lf[y]
  OBVIOUS
<1>3. PICK p : p = pa[x]
  OBVIOUS
<1>4. Around(pa, lf, rt, L, sub, x, y, z, p) /\ Links(pa, lf, rt)
  BY <1>1, <1>2, <1>3, AroundIt DEF Tied
<1>5. PICK q : q = IF z = Nil THEN [pa EXCEPT ![x] = y, ![y] = p] ELSE [[pa EXCEPT ![x] = y, ![y] = p] EXCEPT ![z] = x]
  OBVIOUS
<1>6. PICK r, l : r = [rt EXCEPT ![x] = z] /\ l = [lf EXCEPT ![y] = x]
  OBVIOUS
<1>7. t.parent = pa /\ t["right"] = rt /\ t["left"] = lf /\ Root(t) = pa[Header]
  BY DEF Fields, Root
<1>8. SetChild(SetChild([t EXCEPT !.parent = q], "right", x, z), "left", y, x)
          = [parent |-> q, left |-> l, right |-> r, color |-> co]
  BY <1>6 DEF Fields, SetChild
<1>9. PICK s : s = [parent |-> q, left |-> l, right |-> r, color |-> co]
  OBVIOUS
<1>10. Rotate(t, x, "left", "right")
          = IF x = pa[Header] THEN [s EXCEPT !.parent[Header] = y]
            ELSE SetChild(s, IF rt[p] = x THEN "right" ELSE "left", p, y)
  <2>1. y = t["right"][x] /\ z = t["left"][y] /\ p = t.parent[x]
    BY <1>1, <1>2, <1>3, <1>7
  <2>2. q = RotateParents(t.parent, x, y, z, p)
    BY ONLY <1>5, <1>7 DEF RotateParents
  <2>3. s = RotateInside(t, x, "left", "right", y, z, q)
    BY ONLY <1>8, <1>9 DEF RotateInside
  <2>4. Rotate(t, x, "left", "right") = RotateOutside(t, x, "left", "right", y, p, s)
    BY ONLY <2>1, <2>2, <2>3, RotateNamed
  <2>5. QED BY ONLY <2>4, <1>7 DEF RotateOutside
<1>11. PICK pb, lg, rg : /\ pb = IF x = pa[Header] THEN [q EXCEPT ![Header] = y] ELSE q
                         /\ lg = IF x # pa[Header] /\ rt[p] # x THEN [l EXCEPT ![p] = y] ELSE l
                         /\ rg = IF x # pa[Header] /\ rt[p] = x THEN [r EXCEPT ![p] = y] ELSE r
  OBVIOUS
<1>12. Fields(Rotate(t, x, "left", "right"), pb, lg, rg, co)
  <2>1. CASE x = pa[Header]
    BY <2>1, <1>9, <1>10, <1>11 DEF Fields
  <2>2. CASE x # pa[Header] /\ rt[p] = x
    BY <2>2, <1>9, <1>10, <1>11 DEF Fields, SetChild
  <2>3. CASE x # pa[Header] /\ rt[p] # x
    BY <2>3, <1>9, <1>10, <1>11 DEF Fields, SetChild
  <2>4. QED BY <2>1, <2>2, <2>3
<1>13. pb = NewParents(pa, x, y, z, p) /\ lg = NewUp(pa, lf, rt, x, y, p) /\ rg = NewDown(pa, rt, x, y, z, p)
  BY <1>5, <1>6, <1>11 DEF NewParents, NewUp, NewDown
<1>16. Turned(pa, lf, rt, x, y, pb, lg, rg)
  BY <1>4, <1>13, TurnedWrites
<1>17. QED BY <1>1, <1>12, <1>16

\* and one to the right.
LEMMA RotateRight ==
    ASSUME NEW t, NEW pa, NEW lf, NEW rt, NEW co, Fields(t, pa, lf, rt, co), co \in [Addr -> {Red, Black}],
           NEW L, NEW sub, Tied(pa, lf, rt, L, sub), NEW x \in L, lf[x] # Nil
    PROVE  \E pb, lg, rg : /\ Fields(Rotate(t, x, "right", "left"), pb, lg, rg, co)
                           /\ Turned(pa, rt, lf, x, lf[x], pb, rg, lg)
<1>1. PICK y : y = lf[x]
  OBVIOUS
<1>2. PICK z : z = rt[y]
  OBVIOUS
<1>3. PICK p : p = pa[x]
  OBVIOUS
<1>4. Around(pa, rt, lf, L, sub, x, y, z, p) /\ Links(pa, rt, lf)
  <2>1. Tied(pa, rt, lf, L, sub)
    BY TiedMirror
  <2>2. Links(pa, rt, lf)
    BY <2>1 DEF Tied
  <2>3. QED BY <1>1, <1>2, <1>3, <2>1, <2>2, AroundIt
<1>5. PICK q : q = IF z = Nil THEN [pa EXCEPT ![x] = y, ![y] = p] ELSE [[pa EXCEPT ![x] = y, ![y] = p] EXCEPT ![z] = x]
  OBVIOUS
<1>6. PICK r, l : r = [rt EXCEPT ![y] = x] /\ l = [lf EXCEPT ![x] = z]
  OBVIOUS
<1>7. t.parent = pa /\ t["right"] = rt /\ t["left"] = lf /\ Root(t) = pa[Header]
  BY DEF Fields, Root
<1>8. SetChild(SetChild([t EXCEPT !.parent = q], "left", x, z), "right", y, x)
          = [parent |-> q, left |-> l, right |-> r, color |-> co]
  BY <1>6 DEF Fields, SetChild
<1>9. PICK s : s = [parent |-> q, left |-> l, right |-> r, color |-> co]
  OBVIOUS
<1>10. Rotate(t, x, "right", "left")
          = IF x = pa[Header] THEN [s EXCEPT !.parent[Header] = y]
            ELSE SetChild(s, IF lf[p] = x THEN "left" ELSE "right", p, y)
  <2>1. y = t["left"][x] /\ z = t["right"][y] /\ p = t.parent[x]
    BY <1>1, <1>2, <1>3, <1>7
  <2>2. q = RotateParents(t.parent, x, y, z, p)
    BY ONLY <1>5, <1>7 DEF RotateParents
  <2>3. s = RotateInside(t, x, "right", "left", y, z, q)
    BY ONLY <1>8, <1>9 DEF RotateInside
  <2>4. Rotate(t, x, "right", "left") = RotateOutside(t, x, "right", "left", y, p, s)
    BY ONLY <2>1, <2>2, <2>3, RotateNamed
  <2>5. QED BY ONLY <2>4, <1>7 DEF RotateOutside
<1>11. PICK pb, lg, rg : /\ pb = IF x = pa[Header] THEN [q EXCEPT ![Header] = y] ELSE q
                         /\ rg = IF x # pa[Header] /\ lf[p] # x THEN [r EXCEPT ![p] = y] ELSE r
                         /\ lg = IF x # pa[Header] /\ lf[p] = x THEN [l EXCEPT ![p] = y] ELSE l
  OBVIOUS
<1>12. Fields(Rotate(t, x, "right", "left"), pb, lg, rg, co)
  <2>1. CASE x = pa[Header]
    BY <2>1, <1>9, <1>10, <1>11 DEF Fields
  <2>2. CASE x # pa[Header] /\ lf[p] = x
    BY <2>2, <1>9, <1>10, <1>11 DEF Fields, SetChild
  <2>3. CASE x # pa[Header] /\ lf[p] # x
    BY <2>3, <1>9, <1>10, <1>11 DEF Fields, SetChild
  <2>4. QED BY <2>1, <2>2, <2>3
<1>13. pb = NewParents(pa, x, y, z, p) /\ rg = NewUp(pa, rt, lf, x, y, p) /\ lg = NewDown(pa, lf, x, y, z, p)
  BY <1>5, <1>6, <1>11 DEF NewParents, NewUp, NewDown
<1>16. Turned(pa, rt, lf, x, y, pb, rg, lg)
  BY <1>4, <1>13, TurnedWrites
<1>17. QED BY <1>1, <1>12, <1>16

\* Two red nodes, child and parent, change places: the link between them stays
\* the only one that is red at both ends.
LEMMA RedPairTurned ==
    ASSUME NEW pa, NEW lf, NEW rt, NEW L, NEW sub, NEW x, NEW y, NEW z, NEW p, NEW sb, NEW pb, NEW lg, NEW rg,
           Rotated(pa, lf, rt, L, sub, x, y, z, p, sb, pb, lg, rg),
           NEW co, RedFree(pa, co, L, y, Nil), co[x] = Red, co[y] = Red
    PROVE  RedFree(pb, co, L, x, Nil)
<1>1. /\ pb[x] = y /\ pb[y] = p /\ (z # Nil => pb[z] = x) /\ \A n \in L : n \notin {x, y, z} => pb[n] = pa[n]
  <2>1. Tied(pa, lf, rt, L, sub) /\ Around(pa, lf, rt, L, sub, x, y, z, p) /\ Turned(pa, lf, rt, x, y, pb, lg, rg)
    BY DEF Rotated
  <2>2. QED BY <2>1, TurnedLinks
<1>2. x \in L /\ y \in L /\ x # y /\ p = pa[x] /\ pa[y] = x /\ Nil \notin L /\ z # y
  BY RotatedFacts
<1>3. z # Nil => z \in L /\ pa[z] = y
  BY DEF Rotated, Around
<1>4. \A n \in L : pa[n] # Nil
  <2>1. Header # Nil /\ Nil \notin L
    BY <1>2, NilNotAddr
  <2>2. QED BY <2>1 DEF Rotated, Tied
<1>5. \A n \in L : co[n] = Red /\ co[pa[n]] = Red => n = y
  BY <1>4 DEF RedFree
<1>6. co[p] # Red
  BY <1>2, <1>5
<1>7. z # Nil => co[z] # Red
  BY <1>2, <1>3, <1>5
<1>8. ASSUME NEW n \in L, co[n] = Red, co[pb[n]] = Red PROVE n = x
  <2>1. n # y
    BY <1>1, <1>6, <1>8
  <2>2. n # z
    BY <1>2, <1>7, <1>8
  <2>3. n # x => pb[n] = pa[n]
    BY <1>1, <2>1, <2>2
  <2>4. QED BY <2>1, <2>3, <1>5, <1>8
<1>9. QED BY <1>8 DEF RedFree

\* The last rotation of the insert fixup leaves no two red nodes in a row.
LEMMA SwapRedFree ==
    ASSUME NEW pa, NEW lf, NEW rt, NEW L, NEW sub, NEW x, NEW y, NEW z, NEW p, NEW sb, NEW pb, NEW lg, NEW rg,
           Rotated(pa, lf, rt, L, sub, x, y, z, p, sb, pb, lg, rg),
           NEW co \in [Addr -> {Red, Black}], NEW a, RedFree(pa, co, L, a, Nil), a = Nil \/ a = rt[y],
           co[x] = Black, co[y] = Red, lf[x] # Nil => co[lf[x]] = Black,
           NEW cp, cp = Swapped(co, x, y)
    PROVE  RedFree(pb, cp, L, Nil, Nil)
<1>1. /\ pb[x] = y /\ pb[y] = p /\ (z # Nil => pb[z] = x) /\ \A n \in L : n \notin {x, y, z} => pb[n] = pa[n]
  <2>1. Tied(pa, lf, rt, L, sub) /\ Around(pa, lf, rt, L, sub, x, y, z, p) /\ Turned(pa, lf, rt, x, y, pb, lg, rg)
    BY DEF Rotated
  <2>2. QED BY <2>1, TurnedLinks
<1>2. x \in L /\ y \in L /\ x # y /\ p = pa[x] /\ pa[y] = x /\ Nil \notin L /\ z # y /\ z # x /\ Header \notin L
  BY RotatedFacts
<1>3. z # Nil => z \in L /\ pa[z] = y /\ z # rt[y]
  <2>1. z # Nil => z \in L /\ pa[z] = y
    BY DEF Rotated, Around
  <2>2. Under(sub, z) \cap Under(sub, rt[y]) = {}
    BY RotatedUnder
  <2>3. z # Nil => z \in sub[z]
    BY <2>1, Below DEF Rotated
  <2>4. QED BY <2>1, <2>2, <2>3 DEF Under
<1>4. L \subseteq Addr /\ Header \in Addr
  BY NilNotAddr DEF Rotated, Around
<1>5. cp[x] = Red /\ cp[y] = Black /\ \A n \in Addr : n \notin {x, y} => cp[n] = co[n]
  BY <1>2, <1>4 DEF Swapped
<1>6. Red # Black
  BY DEF Red, Black
<1>7. /\ \A n \in L : pa[n] \in L \cup {Header}
      /\ \A n \in L : pa[n] = x => n = y \/ n = lf[x]
      /\ \A n \in L : pa[n] = y => n = z \/ n = rt[y]
      /\ \A n \in L : pa[n] # Nil
  <2>1. \A n \in L : pa[n] \in L \cup {Header} /\ (pa[n] # Header => lf[pa[n]] = n \/ rt[pa[n]] = n)
    BY DEF Rotated, Tied
  <2>2. y = rt[x] /\ z = lf[y]
    BY RotatedFacts
  <2>3. Nil # Header
    BY NilNotAddr
  <2>4. QED BY <2>1, <2>2, <2>3, <1>2
<1>8. \A n \in L : co[n] = Red /\ co[pa[n]] = Red => n = rt[y]
  BY <1>7, <1>2 DEF RedFree
<1>9. z # Nil => co[z] # Red
  BY <1>2, <1>3, <1>8
<1>10. ASSUME NEW n \in L, cp[n] = Red, cp[pb[n]] = Red PROVE FALSE
  <2>1. n # y /\ n # x
    BY <1>1, <1>5, <1>6, <1>10
  <2>2. n # z
    BY <1>2, <1>4, <1>5, <1>9, <1>10, <2>1
  <2>3. pb[n] = pa[n] /\ co[n] = Red
    BY <1>1, <1>4, <1>5, <1>10, <2>1, <2>2
  <2>4. pa[n] # y
    BY <2>3, <1>5, <1>6, <1>10
  <2>5. pa[n] # x
    <3>1. n \in Addr /\ Nil \notin L
      BY <1>2, <1>4
    <3>2. QED BY <3>1, <2>1, <2>3, <1>6, <1>7
  <2>6. co[pa[n]] = Red
    BY <2>3, <2>4, <2>5, <1>4, <1>5, <1>7, <1>10
  <2>7. n = rt[y] /\ rt[y] # Nil
    BY <2>3, <2>6, <1>2, <1>8
  <2>8. pa[n] = y
    BY <2>7, <1>2 DEF Rotated, Tied
  <2>9. QED BY <2>4, <2>8
<1>11. QED BY <1>10 DEF RedFree

\* Nor does the last one of the erase fixup.
LEMMA NephewRedFree ==
    ASSUME NEW pa, NEW lf, NEW rt, NEW L, NEW sub, NEW x, NEW y, NEW z, NEW p, NEW sb, NEW pb, NEW lg, NEW rg,
           Rotated(pa, lf, rt, L, sub, x, y, z, p, sb, pb, lg, rg),
           NEW co \in [Addr -> {Red, Black}], RedFree(pa, co, L, Nil, Nil),
           NEW w, w = rt[y], w # Nil,
           NEW cp, cp = NephewColours(co, x, y, w)
    PROVE  RedFree(pb, cp, L, Nil, Nil)
<1>1. /\ pb[x] = y /\ pb[y] = p /\ (z # Nil => pb[z] = x) /\ \A n \in L : n \notin {x, y, z} => pb[n] = pa[n]
  <2>1. Tied(pa, lf, rt, L, sub) /\ Around(pa, lf, rt, L, sub, x, y, z, p) /\ Turned(pa, lf, rt, x, y, pb, lg, rg)
    BY DEF Rotated
  <2>2. QED BY <2>1, TurnedLinks
<1>2. x \in L /\ y \in L /\ x # y /\ p = pa[x] /\ p # y /\ p # x /\ p \in L \cup {Header} /\ pa[y] = x /\ Nil \notin L /\ z # y /\ z # x /\ Header \notin L
      /\ rt[y] \in L \cup {Nil} /\ rt[y] # x /\ rt[y] # y
  BY RotatedFacts
<1>3. w \in L /\ w # x /\ w # y
  BY <1>2
<1>4. L \subseteq Addr /\ Header \in Addr
  BY NilNotAddr DEF Rotated, Around
<1>5. cp[x] = Black /\ cp[y] = co[x] /\ cp[w] = Black /\ \A n \in Addr : n \notin {x, y, w} => cp[n] = co[n]
  BY <1>2, <1>3, <1>4 DEF NephewColours
<1>6. Red # Black
  BY DEF Red, Black
<1>7. /\ \A n \in L : pa[n] \in L \cup {Header}
      /\ \A n \in L : pa[n] = y => n = z \/ n = w
      /\ \A n \in L : pa[n] # Nil
  <2>1. \A n \in L : pa[n] \in L \cup {Header} /\ (pa[n] # Header => lf[pa[n]] = n \/ rt[pa[n]] = n)
    BY DEF Rotated, Tied
  <2>2. z = lf[y]
    BY RotatedFacts
  <2>3. Nil # Header
    BY NilNotAddr
  <2>4. QED BY <2>1, <2>2, <2>3, <1>2
<1>8. \A n \in L : ~ (co[n] = Red /\ co[pa[n]] = Red)
  BY <1>7, <1>2 DEF RedFree
<1>9. ASSUME NEW n \in L, cp[n] = Red, cp[pb[n]] = Red PROVE FALSE
  <2>1. n # x /\ n # w
    BY <1>5, <1>6, <1>9
  <2>2. n # z
    BY <1>1, <1>2, <1>5, <1>6, <1>9
  <2>3. n # y
    <3>1. p \in Addr
      BY <1>2, <1>4
    <3>2. ASSUME n = y PROVE FALSE
      <4>1. co[x] = Red /\ cp[p] = Red
        BY <3>2, <1>1, <1>5, <1>9
      <4>2. p # w
        BY <4>1, <1>5, <1>6
      <4>3. co[p] = Red
        BY <3>1, <4>1, <4>2, <1>2, <1>5
      <4>4. QED BY <4>1, <4>3, <1>2, <1>8
    <3>3. QED BY <3>2
  <2>4. pb[n] = pa[n] /\ co[n] = Red
    BY <1>1, <1>4, <1>5, <1>9, <2>1, <2>2, <2>3
  <2>5. pa[n] \notin {x, w}
    BY <2>4, <1>5, <1>6, <1>9
  <2>6. pa[n] # y
    BY <2>1, <2>2, <1>7
  <2>7. co[pa[n]] = Red
    BY <2>4, <2>5, <2>6, <1>4, <1>5, <1>7, <1>9
  <2>8. QED BY <2>4, <2>7, <1>8
<1>10. QED BY <1>9 DEF RedFree

-----------------------------------------------------------------------------
(* All of it together, and its mirror image.                               *)

\* With every key negated the tree read from right to left is ordered.
LEMMA SortedMirror ==
    ASSUME NEW pa, NEW lf, NEW rt, NEW L, NEW sub, Tied(pa, lf, rt, L, sub), NEW key \in [Node -> Int],
           Sorted(key, lf, rt, L, sub)
    PROVE  Sorted(Neg(key), rt, lf, L, sub)
<1>1. L \subseteq Node /\ \A n \in L : Under(sub, lf[n]) \subseteq L /\ Under(sub, rt[n]) \subseteq L
  BY DEF Tied
<1>2. PICK q : q = Neg(key)
  OBVIOUS
<1>3. \A n \in L : q[n] = - key[n] /\ key[n] \in Int
  BY <1>1, <1>2 DEF Neg
<1>4. ASSUME NEW n \in L
      PROVE  (\A m \in Under(sub, rt[n]) : q[m] <= q[n]) /\ (\A m \in Under(sub, lf[n]) : q[n] <= q[m])
  <2>1. \A m \in Under(sub, rt[n]) : m \in L /\ key[n] <= key[m]
    BY <1>1 DEF Sorted
  <2>2. \A m \in Under(sub, lf[n]) : m \in L /\ key[m] <= key[n]
    BY <1>1 DEF Sorted
  <2>3. QED BY <2>1, <2>2, <1>3
<1>5. Sorted(q, rt, lf, L, sub)
  BY <1>4 DEF Sorted
<1>6. QED BY <1>2, <1>5

\* Negation is its own inverse.
LEMMA NegNeg ==
    ASSUME NEW key \in [Node -> Int]
    PROVE  Neg(key) \in [Node -> Int] /\ Neg(Neg(key)) = key
BY DEF Neg

\* So a lemma about one side serves for the other.
LEMMA FineMirror ==
    ASSUME NEW pa, NEW lf, NEW rt, NEW co, NEW key, NEW L, NEW sub, NEW h, NEW hl, NEW hr, NEW a,
           Fine(pa, lf, rt, co, key, L, sub, h, hl, hr, a)
    PROVE  Fine(pa, rt, lf, co, Neg(key), L, sub, h, hr, hl, a)
<1>1. Tied(pa, rt, lf, L, sub)
  BY TiedMirror DEF Fine
<1>2. Sorted(Neg(key), rt, lf, L, sub)
  BY SortedMirror DEF Fine
<1>3. Heights(rt, lf, co, L, h, hr, hl)
  BY DEF Fine, Heights
<1>4. QED BY <1>1, <1>2, <1>3, NegNeg DEF Fine

\* A rotation does not touch the cached ends.
LEMMA TurnedHeader ==
    ASSUME NEW pa, NEW lf, NEW rt, NEW L, NEW sub, NEW x, NEW y, NEW z, NEW p,
           Around(pa, lf, rt, L, sub, x, y, z, p), NEW pb, NEW lg, NEW rg, Turned(pa, lf, rt, x, y, pb, lg, rg)
    PROVE  lg[Header] = lf[Header] /\ rg[Header] = rt[Header]
<1>1. Header \in Addr /\ x # Header /\ y # Header /\ ~ (Header = pa[x] /\ x # pa[Header])
  BY NilNotAddr DEF Around
<1>2. QED BY <1>1 DEF Turned

\* What a rotation keeps, whatever it does to the colours.
LEMMA FineTurned ==
    ASSUME NEW pa, NEW lf, NEW rt, NEW co, NEW key, NEW L, NEW sub, NEW h, NEW hl, NEW hr, NEW a,
           Fine(pa, lf, rt, co, key, L, sub, h, hl, hr, a),
           NEW x \in L, NEW y, y = rt[x], y # Nil, NEW pb, NEW lg, NEW rg, Turned(pa, lf, rt, x, y, pb, lg, rg),
           NEW cp, cp \in [Addr -> {Red, Black}], cp[Header] = Red
    PROVE  \E sb : TurnKeeps(pa, lf, rt, cp, key, L, sub, x, y, sb, pb, lg, rg)
<1>1. PICK z, p : z = lf[y] /\ p = pa[x]
  OBVIOUS
<1>2. PICK sb : sb = TurnedSub(sub, lf, x, y)
  OBVIOUS
<1>3. Tied(pa, lf, rt, L, sub)
  BY DEF Fine
<1>4. Around(pa, lf, rt, L, sub, x, y, z, p)
  BY <1>1, <1>3, AroundIt
<1>5. Rotated(pa, lf, rt, L, sub, x, y, z, p, sb, pb, lg, rg)
  BY <1>2, <1>3, <1>4 DEF Rotated
<1>6. Tied(pb, lg, rg, L, sb) /\ lg[x] = lf[x] /\ lg[y] = x
  BY ONLY <1>5, RotatedFacts
<1>7. lg[Header] = lf[Header] /\ rg[Header] = rt[Header]
  BY ONLY <1>4, Turned(pa, lf, rt, x, y, pb, lg, rg), TurnedHeader
<1>8. pb[Header] = IF x = pa[Header] THEN y ELSE pa[Header]
  <2>1. pb[Header] = IF p = Header THEN y ELSE pa[Header]
    BY ONLY <1>3, <1>4, Turned(pa, lf, rt, x, y, pb, lg, rg), TurnedLinks
  <2>2. p = Header <=> x = pa[Header]
    BY <1>4 DEF Around
  <2>3. QED BY <2>1, <2>2
<1>9. Sorted(key, lg, rg, L, sb)
  <2>1. key \in [Node -> Int] /\ Sorted(key, lf, rt, L, sub)
    BY DEF Fine
  <2>2. QED BY ONLY <2>1, <1>5, RotatedSorted
<1>10. First(lg, L, sb, lg[Header]) /\ First(rg, L, sb, rg[Header]) /\ (lf[Header] \in sub[x] => lf[Header] \in sb[x])
  <2>1. First(lf, L, sub, lf[Header]) /\ First(rt, L, sub, rt[Header])
    BY DEF Fine
  <2>2. PICK e, e2 : e = lf[Header] /\ e2 = rt[Header]
    OBVIOUS
  <2>3. First(lg, L, sb, e) /\ (e \in sub[x] => e \in sb[x])
    BY <2>1, <2>2, <1>5, RotatedFirst
  <2>4. First(rg, L, sb, e2)
    BY <2>1, <2>2, <1>5, RotatedFirst
  <2>5. QED BY <2>2, <2>3, <2>4, <1>7
<1>11. ASSUME NEW hb, NEW kl, NEW kr, NEW b, Heights(lg, rg, cp, L, hb, kl, kr), RedFree(pb, cp, L, b, Nil)
       PROVE  Fine(pb, lg, rg, cp, key, L, sb, hb, kl, kr, b)
  BY <1>6, <1>9, <1>10, <1>11 DEF Fine
<1>12. QED BY <1>1, <1>5, <1>6, <1>7, <1>8, <1>10, <1>11 DEF TurnKeeps

\* A black node and its red child swap places and colours.
LEMMA FineSwap ==
    ASSUME NEW pa, NEW lf, NEW rt, NEW co, NEW key, NEW L, NEW sub, NEW h, NEW hl, NEW hr, NEW a,
           Fine(pa, lf, rt, co, key, L, sub, h, hl, hr, a),
           NEW x \in L, NEW y, y = rt[x], y # Nil, NEW pb, NEW lg, NEW rg, Turned(pa, lf, rt, x, y, pb, lg, rg),
           co[x] = Black, co[y] = Red, hl # y, hr # x, hr # y, a = Nil \/ a = rt[y],
           lf[x] # Nil => co[lf[x]] = Black,
           NEW cp, cp = Swapped(co, x, y)
    PROVE  TurnedTo(pa, lf, rt, key, L, sub, x, y, pb, lg, rg, cp, hl, hr, Nil)
<1>1. co \in [Addr -> {Red, Black}] /\ co[Header] = Red /\ RedFree(pa, co, L, a, Nil) /\ Heights(lf, rt, co, L, h, hl, hr)
      /\ Tied(pa, lf, rt, L, sub)
  BY DEF Fine
<1>2. y \in L /\ L \subseteq Addr /\ Header \notin L
  BY <1>1, Below, NilNotAddr
<1>3. cp \in [Addr -> {Red, Black}] /\ cp[Header] = Red
  BY <1>1, <1>2, NilNotAddr DEF Swapped
<1>4. PICK sb : TurnKeeps(pa, lf, rt, cp, key, L, sub, x, y, sb, pb, lg, rg)
  BY ONLY <1>3, Fine(pa, lf, rt, co, key, L, sub, h, hl, hr, a), x \in L, y = rt[x], y # Nil, Turned(pa, lf, rt, x, y, pb, lg, rg), FineTurned
<1>5. PICK z, p : z = lf[y] /\ p = pa[x]
  OBVIOUS
<1>6. Rotated(pa, lf, rt, L, sub, x, y, z, p, sb, pb, lg, rg)
  BY <1>4, <1>5 DEF TurnKeeps
<1>7. PICK hb : hb = Swapped(h, x, y)
  OBVIOUS
<1>9. Heights(lg, rg, cp, L, hb, hl, hr)
  BY <1>1, <1>6, <1>7, SwapHeights
<1>10. RedFree(pb, cp, L, Nil, Nil)
  BY <1>1, <1>6, SwapRedFree
<1>11. QED BY <1>4, <1>9, <1>10 DEF TurnKeeps, TurnedTo

\* A red node and its red child swap places.
LEMMA FineRedPair ==
    ASSUME NEW pa, NEW lf, NEW rt, NEW co, NEW key, NEW L, NEW sub, NEW h, NEW hl, NEW hr,
           NEW x \in L, NEW y, y = rt[x], y # Nil, Fine(pa, lf, rt, co, key, L, sub, h, hl, hr, y),
           NEW pb, NEW lg, NEW rg, Turned(pa, lf, rt, x, y, pb, lg, rg),
           co[x] = Red, co[y] = Red, hl # y, hr # x, hr # y
    PROVE  TurnedTo(pa, lf, rt, key, L, sub, x, y, pb, lg, rg, co, hl, hr, x)
<1>1. co \in [Addr -> {Red, Black}] /\ co[Header] = Red /\ RedFree(pa, co, L, y, Nil) /\ Heights(lf, rt, co, L, h, hl, hr)
      /\ Tied(pa, lf, rt, L, sub)
  BY DEF Fine
<1>4. PICK sb : TurnKeeps(pa, lf, rt, co, key, L, sub, x, y, sb, pb, lg, rg)
  BY ONLY <1>1, Fine(pa, lf, rt, co, key, L, sub, h, hl, hr, y), x \in L, y = rt[x], y # Nil, Turned(pa, lf, rt, x, y, pb, lg, rg), FineTurned
<1>5. PICK z, p : z = lf[y] /\ p = pa[x]
  OBVIOUS
<1>6. Rotated(pa, lf, rt, L, sub, x, y, z, p, sb, pb, lg, rg)
  BY <1>4, <1>5 DEF TurnKeeps
<1>7. PICK hb : hb = Swapped(h, x, y)
  OBVIOUS
<1>8. co = Swapped(co, x, y)
  BY <1>1 DEF Swapped
<1>9. Heights(lg, rg, co, L, hb, hl, hr)
  BY <1>1, <1>6, <1>7, <1>8, SwapHeights
<1>10. RedFree(pb, co, L, x, Nil)
  BY <1>1, <1>6, RedPairTurned
<1>11. QED BY <1>4, <1>9, <1>10 DEF TurnKeeps, TurnedTo

\* The black missing left of x is made good.
LEMMA FineNephew ==
    ASSUME NEW pa, NEW lf, NEW rt, NEW co, NEW key, NEW L, NEW sub, NEW h, NEW x \in L,
           Fine(pa, lf, rt, co, key, L, sub, h, x, Nil, Nil),
           NEW y, y = rt[x], y # Nil, NEW w, w = rt[y], w # Nil,
           NEW pb, NEW lg, NEW rg, Turned(pa, lf, rt, x, y, pb, lg, rg), co[y] = Black, co[w] = Red,
           NEW cp, cp = NephewColours(co, x, y, w)
    PROVE  TurnedTo(pa, lf, rt, key, L, sub, x, y, pb, lg, rg, cp, Nil, Nil, Nil)
<1>1. co \in [Addr -> {Red, Black}] /\ co[Header] = Red /\ RedFree(pa, co, L, Nil, Nil) /\ Heights(lf, rt, co, L, h, x, Nil)
      /\ Tied(pa, lf, rt, L, sub)
  BY DEF Fine
<1>2. y \in L /\ L \subseteq Addr /\ Header \notin L /\ Header \in Addr
  BY <1>1, Below, NilNotAddr
<1>3. w \in L
  BY <1>1, <1>2, Below
<1>4. cp \in [Addr -> {Red, Black}] /\ cp[Header] = Red
  BY <1>1, <1>2, <1>3 DEF NephewColours
<1>5. PICK sb : TurnKeeps(pa, lf, rt, cp, key, L, sub, x, y, sb, pb, lg, rg)
  BY ONLY <1>4, Fine(pa, lf, rt, co, key, L, sub, h, x, Nil, Nil), x \in L, y = rt[x], y # Nil, Turned(pa, lf, rt, x, y, pb, lg, rg), FineTurned
<1>6. PICK z, p : z = lf[y] /\ p = pa[x]
  OBVIOUS
<1>7. Rotated(pa, lf, rt, L, sub, x, y, z, p, sb, pb, lg, rg)
  BY <1>5, <1>6 DEF TurnKeeps
<1>8. PICK hb : hb = NephewBlacks(h, x, y, w)
  OBVIOUS
<1>9. Heights(lg, rg, cp, L, hb, Nil, Nil)
  BY <1>1, <1>7, <1>8, NephewHeights
<1>10. RedFree(pb, cp, L, Nil, Nil)
  BY <1>1, <1>7, NephewRedFree
<1>11. QED BY <1>5, <1>9, <1>10 DEF TurnKeeps, TurnedTo

-----------------------------------------------------------------------------
(* New colours.                                                            *)

\* A tree is Fine as long as these agree.
LEMMA FineSame ==
    ASSUME NEW pa, NEW lf, NEW rt, NEW co, NEW key, NEW L, NEW sub, NEW h, NEW hl, NEW hr, NEW a,
           Fine(pa, lf, rt, co, key, L, sub, h, hl, hr, a),
           NEW pb, NEW lg, NEW rg, NEW cp, Links(pb, lg, rg), cp \in [Addr -> {Red, Black}],
           Agree(pa, pb, L), Agree(lf, lg, L), Agree(rt, rg, L), Agree(co, cp, L)
    PROVE  Fine(pb, lg, rg, cp, key, L, sub, h, hl, hr, a)
<1>1. Tied(pa, lf, rt, L, sub) /\ Header \notin L /\ Nil \notin L
  BY Below DEF Fine
<1>2. Tied(pb, lg, rg, L, sub)
  <2>1. /\ L \subseteq Node /\ sub \in [L -> SUBSET L]
        /\ pb[Header] \in L \cup {Nil} /\ (pb[Header] = Nil <=> L = {})
        /\ pb[Header] # Nil => pb[pb[Header]] = Header /\ sub[pb[Header]] = L
    BY <1>1 DEF Tied, Agree
  <2>2. ASSUME NEW n \in L
        PROVE  /\ pb[n] \in L \cup {Header} /\ lg[n] \in L \cup {Nil} /\ rg[n] \in L \cup {Nil}
               /\ pb[n] = Header => n = pb[Header]
               /\ pb[n] # Header => lg[pb[n]] = n \/ rg[pb[n]] = n
               /\ lg[n] # Nil => pb[lg[n]] = n
               /\ rg[n] # Nil => pb[rg[n]] = n
               /\ sub[n] = {n} \cup Under(sub, lg[n]) \cup Under(sub, rg[n])
               /\ n \notin Under(sub, lg[n]) \cup Under(sub, rg[n])
               /\ Under(sub, lg[n]) \cap Under(sub, rg[n]) = {}
    <3>1. pb[n] = pa[n] /\ lg[n] = lf[n] /\ rg[n] = rt[n]
      BY DEF Agree
    <3>2. /\ pa[n] \in L \cup {Header} /\ lf[n] \in L \cup {Nil} /\ rt[n] \in L \cup {Nil}
          /\ pa[n] = Header => n = pa[Header]
          /\ pa[n] # Header => lf[pa[n]] = n \/ rt[pa[n]] = n
          /\ lf[n] # Nil => pa[lf[n]] = n
          /\ rt[n] # Nil => pa[rt[n]] = n
          /\ sub[n] = {n} \cup Under(sub, lf[n]) \cup Under(sub, rt[n])
          /\ n \notin Under(sub, lf[n]) \cup Under(sub, rt[n])
          /\ Under(sub, lf[n]) \cap Under(sub, rt[n]) = {}
      BY <1>1 DEF Tied
    <3>3. QED BY <3>1, <3>2 DEF Agree
  <2>3. QED BY <2>1, <2>2 DEF Tied
<1>3. Sorted(key, lg, rg, L, sub)
  BY DEF Fine, Sorted, Agree
<1>4. L # {} => First(lg, L, sub, lg[Header]) /\ First(rg, L, sub, rg[Header])
  BY DEF Fine, First, Agree
<1>5. Heights(lg, rg, cp, L, h, hl, hr)
  <2>1. Heights(lf, rt, co, L, h, hl, hr)
    BY DEF Fine
  <2>2. \A n \in L : lg[n] = lf[n] /\ rg[n] = rt[n] /\ Bk(cp, n) = Bk(co, n)
    BY DEF Agree, Bk
  <2>3. QED BY <2>1, <2>2 DEF Heights
<1>6. RedFree(pb, cp, L, a, Nil)
  <2>1. \A n \in L : pa[n] \in L \cup {Header}
    BY <1>1 DEF Tied
  <2>2. QED BY <2>1 DEF Fine, RedFree, Agree
<1>7. cp[Header] = Red /\ key \in [Node -> Int]
  BY DEF Fine, Agree
<1>8. QED BY <1>2, <1>3, <1>4, <1>5, <1>6, <1>7 DEF Fine

\* Colours alone.
LEMMA FineRecoloured ==
    ASSUME NEW pa, NEW lf, NEW rt, NEW co, NEW key, NEW L, NEW sub, NEW h, NEW hl, NEW hr, NEW a,
           Fine(pa, lf, rt, co, key, L, sub, h, hl, hr, a),
           NEW cp, NEW hb, NEW kl, NEW kr, NEW b, cp \in [Addr -> {Red, Black}], cp[Header] = Red,
           Heights(lf, rt, cp, L, hb, kl, kr), RedFree(pa, cp, L, b, Nil)
    PROVE  Fine(pa, lf, rt, cp, key, L, sub, hb, kl, kr, b)
BY DEF Fine

\* The parent and the grandparent of the node that breaks the rule.
LEMMA Grandparent ==
    ASSUME NEW pa, NEW lf, NEW rt, NEW co, NEW key, NEW L, NEW sub, NEW h, NEW hl, NEW hr, NEW c \in L,
           Fine(pa, lf, rt, co, key, L, sub, h, hl, hr, c), c # pa[Header], co[pa[c]] = Red,
           NEW p, p = pa[c], NEW g, g = pa[p]
    PROVE  /\ p \in L /\ g \in L /\ p # pa[Header] /\ co[g] = Black /\ p # c /\ g # c /\ g # p
           /\ p = lf[g] \/ p = rt[g]
           /\ c = lf[p] \/ c = rt[p]
<1>1. Tied(pa, lf, rt, L, sub) /\ RedFree(pa, co, L, c, Nil) /\ co \in [Addr -> {Red, Black}] /\ co[Header] = Red
  BY DEF Fine
<1>2. Nil \notin L /\ Header \notin L /\ L \subseteq Addr
  BY <1>1, Below, NilNotAddr
<1>3. p \in L /\ (c = lf[p] \/ c = rt[p]) /\ Cardinality(sub[c]) < Cardinality(sub[p]) /\ Cardinality(sub[c]) \in Nat /\ Cardinality(sub[p]) \in Nat
  <2>1. p \in L /\ (c = lf[p] \/ c = rt[p])
    BY <1>1, Parents
  <2>2. QED BY <1>1, <1>2, <2>1, Below
<1>4. p # c
  BY <1>3
<1>5. co[g] # Red
  <2>1. g # Nil
    BY <1>1, <1>2, <1>3, NilNotAddr DEF Tied
  <2>2. co[p] = Red
    OBVIOUS
  <2>3. co[p] = Red /\ co[pa[p]] = Red => p = c \/ pa[p] = Nil
    <3>1. RedFree(pa, co, L, c, Nil) /\ p \in L
      BY <1>1, <1>3
    <3>2. QED BY ONLY <3>1 DEF RedFree
  <2>4. QED BY <2>1, <2>2, <2>3, <1>4
<1>6. g # Header
  BY <1>1, <1>5
<1>7. p # pa[Header] /\ g \in L /\ (p = lf[g] \/ p = rt[g])
  <2>1. p # pa[Header]
    BY <1>1, <1>2, <1>3, <1>6 DEF Tied
  <2>2. QED BY <1>1, <1>3, <2>1, Parents
<1>8. Cardinality(sub[p]) < Cardinality(sub[g]) /\ Cardinality(sub[g]) \in Nat
  BY <1>1, <1>2, <1>3, <1>7, Below
<1>9. g # p /\ g # c
  BY <1>3, <1>8
<1>10. co[g] = Black
  BY <1>1, <1>2, <1>5, <1>7
<1>11. QED BY <1>3, <1>4, <1>7, <1>9, <1>10

\* A node's height is in the equations of itself and its parent alone.
LEMMA HeightElsewhere ==
    ASSUME NEW pa, NEW lf, NEW rt, NEW L, NEW sub, Tied(pa, lf, rt, L, sub), NEW h, NEW hb, NEW n \in L,
           SameBelow(pa, L, Nil, n, h, hb)
    PROVE  H(hb, lf[n]) = H(h, lf[n]) /\ H(hb, rt[n]) = H(h, rt[n])
<1>1. lf[n] \in L \cup {Nil} /\ rt[n] \in L \cup {Nil} /\ (lf[n] # Nil => pa[lf[n]] = n) /\ (rt[n] # Nil => pa[rt[n]] = n)
  BY DEF Tied
<1>2. QED BY <1>1 DEF H, SameBelow

\* A red uncle: parent and uncle become black, the grandparent red.
LEMMA FineRedUncle ==
    ASSUME NEW pa, NEW lf, NEW rt, NEW co, NEW key, NEW L, NEW sub, NEW h, NEW c \in L,
           Fine(pa, lf, rt, co, key, L, sub, h, Nil, Nil, c), c # pa[Header], co[pa[c]] = Red,
           NEW p, p = pa[c], NEW g, g = pa[p], NEW u, u # Nil, u \in {lf[g], rt[g]}, u # p, co[u] = Red,
           NEW cp, cp = UncleColours(co, p, u, g)
    PROVE  \E hb : Fine(pa, lf, rt, cp, key, L, sub, hb, Nil, Nil, g)
<1>1. /\ p \in L /\ g \in L /\ p # pa[Header] /\ co[g] = Black /\ p # c /\ g # c /\ g # p
      /\ p = lf[g] \/ p = rt[g]
      /\ c = lf[p] \/ c = rt[p]
  BY ONLY Fine(pa, lf, rt, co, key, L, sub, h, Nil, Nil, c), c # pa[Header], co[pa[c]] = Red, p = pa[c], g = pa[p], c \in L, Grandparent
<1>2. /\ Tied(pa, lf, rt, L, sub) /\ RedFree(pa, co, L, c, Nil) /\ co \in [Addr -> {Red, Black}] /\ co[Header] = Red
      /\ Heights(lf, rt, co, L, h, Nil, Nil)
  BY DEF Fine
<1>3. Nil \notin L /\ Header \notin L /\ L \subseteq Addr /\ Header \in Addr
  BY <1>2, Below, NilNotAddr
<1>4. u \in L /\ pa[u] = g
  BY <1>1, <1>2, <1>3 DEF Tied
<1>5. u # g
  BY <1>2, <1>4, <1>1 DEF Red, Black
<1>6. cp[p] = Black /\ cp[u] = Black /\ cp[g] = Red /\ \A n \in Addr : n \notin {p, u, g} => cp[n] = co[n]
  BY <1>1, <1>2, <1>3, <1>4, <1>5 DEF UncleColours
<1>7. cp \in [Addr -> {Red, Black}] /\ cp[Header] = Red
  <2>1. cp \in [Addr -> {Red, Black}]
    BY <1>1, <1>2, <1>3, <1>4 DEF UncleColours
  <2>2. QED BY <2>1, <1>1, <1>2, <1>3, <1>4, <1>6
<1>8. PICK hb : hb = UncleBlacks(h, p, u)
  OBVIOUS
<1>9. /\ h \in [L -> Nat]
      /\ \A n \in L : /\ h[n] = Bk(co, n) + H(h, lf[n]) + Gap(Nil, n)
                      /\ h[n] = Bk(co, n) + H(h, rt[n]) + Gap(Nil, n)
  BY <1>2 DEF Heights
<1>10. /\ hb \in [L -> Nat] /\ hb[p] = h[p] + 1 /\ hb[u] = h[u] + 1
       /\ \A n \in L : n \notin {p, u} => hb[n] = h[n]
  BY <1>1, <1>4, <1>8, <1>9 DEF UncleBlacks
<1>11. Heights(lf, rt, cp, L, hb, Nil, Nil)
  <2>1. \A n \in L : Gap(Nil, n) = 0 /\ h[n] \in Nat /\ H(h, lf[n]) \in Nat /\ H(h, rt[n]) \in Nat
    BY <1>2, <1>3, <1>9 DEF Gap, H, Tied
  <2>2. ASSUME NEW n \in L
        PROVE  /\ hb[n] = Bk(cp, n) + H(hb, lf[n]) + Gap(Nil, n)
               /\ hb[n] = Bk(cp, n) + H(hb, rt[n]) + Gap(Nil, n)
    <3>1. CASE n = g
      <4>1. Bk(co, g) = 1 /\ Bk(cp, g) = 0
        BY <1>1, <1>6 DEF Bk, Red, Black
      <4>2. h[g] = 1 + H(h, lf[g]) + 0 /\ h[g] = 1 + H(h, rt[g]) + 0
        BY <1>1, <1>9, <2>1, <4>1
      <4>3. H(hb, lf[g]) = H(h, lf[g]) + 1 /\ H(hb, rt[g]) = H(h, rt[g]) + 1
        <5>1. H(hb, p) = H(h, p) + 1 /\ H(hb, u) = H(h, u) + 1
          BY <1>1, <1>3, <1>4, <1>10 DEF H
        <5>2. {p, u} = {lf[g], rt[g]}
          BY <1>1
        <5>3. QED BY <5>1, <5>2
      <4>4. hb[g] = h[g]
        BY <1>1, <1>5, <1>10
      <4>5. H(h, lf[g]) \in Nat /\ H(h, rt[g]) \in Nat /\ Gap(Nil, g) = 0
        BY <1>1, <2>1
      <4>6. QED BY <3>1, <4>1, <4>2, <4>3, <4>4, <4>5
    <3>2. CASE n # g
      <4>1. SameBelow(pa, L, Nil, n, h, hb)
        BY <3>2, <1>4, <1>10 DEF SameBelow
      <4>2. H(hb, lf[n]) = H(h, lf[n]) /\ H(hb, rt[n]) = H(h, rt[n])
        BY ONLY <1>2, <4>1, n \in L, HeightElsewhere
      <4>3. h[n] = Bk(co, n) + H(h, lf[n]) + 0 /\ h[n] = Bk(co, n) + H(h, rt[n]) + 0 /\ Gap(Nil, n) = 0
            /\ H(h, lf[n]) \in Nat /\ H(h, rt[n]) \in Nat
        BY <1>9, <2>1
      <4>4. CASE n \in {p, u}
        <5>1. co[p] = Red /\ co[u] = Red
          OBVIOUS
        <5>2. Bk(co, n) = 0 /\ Bk(cp, n) = 1 /\ hb[n] = h[n] + 1
          BY <4>4, <5>1, <1>6, <1>10 DEF Bk, Red, Black
        <5>3. QED BY <4>2, <4>3, <5>2
      <4>5. CASE n \notin {p, u}
        <5>1. Bk(cp, n) = Bk(co, n) /\ hb[n] = h[n]
          BY <3>2, <4>5, <1>3, <1>6, <1>10 DEF Bk
        <5>2. QED BY <4>2, <4>3, <5>1
      <4>6. QED BY <4>4, <4>5
    <3>3. QED BY <3>1, <3>2
  <2>3. QED BY <2>2, <1>10 DEF Heights
<1>12. RedFree(pa, cp, L, g, Nil)
  <2>1. \A n \in L : pa[n] \in L \cup {Header} /\ pa[n] # Nil
    BY <1>2, <1>3, NilNotAddr DEF Tied
  <2>2. ASSUME NEW n \in L, cp[n] = Red, cp[pa[n]] = Red, n # g PROVE FALSE
    <3>1. n \notin {p, u} /\ pa[n] \notin {p, u}
      BY <2>2, <1>6 DEF Red, Black
    <3>2. co[n] = Red /\ n \in Addr
      BY <2>2, <3>1, <1>3, <1>6
    <3>3. pa[n] # g
      <4>1. pa[n] = g => n = lf[g] \/ n = rt[g]
        BY <1>1, <1>2, <1>3 DEF Tied
      <4>2. {p, u} = {lf[g], rt[g]}
        BY <1>1
      <4>3. QED BY <4>1, <4>2, <3>1
    <3>4. co[pa[n]] = Red
      BY <2>1, <2>2, <3>1, <3>3, <1>3, <1>6
    <3>5. n = c
      BY <1>2, <2>1, <3>2, <3>4 DEF RedFree
    <3>6. QED BY <3>1, <3>5
  <2>3. QED BY <2>2 DEF RedFree
<1>13. Fine(pa, lf, rt, cp, key, L, sub, hb, Nil, Nil, g)
  BY ONLY Fine(pa, lf, rt, co, key, L, sub, h, Nil, Nil, c), <1>7, <1>11, <1>12, FineRecoloured
<1>14. QED BY <1>13

\* The root becomes black.
LEMMA FineRootBlack ==
    ASSUME NEW pa, NEW lf, NEW rt, NEW co, NEW key, NEW L, NEW sub, NEW h, NEW c,
           Fine(pa, lf, rt, co, key, L, sub, h, Nil, Nil, c), c = pa[Header] \/ co[pa[c]] = Black,
           NEW r, r = pa[Header], r \in L, NEW cp, cp = RootColours(co, r)
    PROVE  \E hb : Fine(pa, lf, rt, cp, key, L, sub, hb, Nil, Nil, Nil)
<1>2. /\ Tied(pa, lf, rt, L, sub) /\ RedFree(pa, co, L, c, Nil) /\ co \in [Addr -> {Red, Black}] /\ co[Header] = Red
      /\ Heights(lf, rt, co, L, h, Nil, Nil)
  BY DEF Fine
<1>3. Nil \notin L /\ Header \notin L /\ L \subseteq Addr /\ Header \in Addr
  BY <1>2, Below, NilNotAddr
<1>4. cp[r] = Black /\ (\A n \in Addr : n # r => cp[n] = co[n]) /\ cp \in [Addr -> {Red, Black}] /\ cp[Header] = Red
  BY <1>2, <1>3 DEF RootColours
<1>5. PICK hb : hb = RootBlacks(h, co, r)
  OBVIOUS
<1>6. /\ h \in [L -> Nat]
      /\ \A n \in L : /\ h[n] = Bk(co, n) + H(h, lf[n]) + Gap(Nil, n)
                      /\ h[n] = Bk(co, n) + H(h, rt[n]) + Gap(Nil, n)
  BY <1>2 DEF Heights
<1>7. /\ hb \in [L -> Nat] /\ hb[r] = IF co[r] = Red THEN h[r] + 1 ELSE h[r]
      /\ \A n \in L : n # r => hb[n] = h[n]
  BY <1>5, <1>6 DEF RootBlacks
<1>8. Heights(lf, rt, cp, L, hb, Nil, Nil)
  <2>1. \A n \in L : Gap(Nil, n) = 0 /\ h[n] \in Nat /\ H(h, lf[n]) \in Nat /\ H(h, rt[n]) \in Nat
    BY <1>2, <1>3, <1>6 DEF Gap, H, Tied
  <2>2. ASSUME NEW n \in L
        PROVE  /\ hb[n] = Bk(cp, n) + H(hb, lf[n]) + Gap(Nil, n)
               /\ hb[n] = Bk(cp, n) + H(hb, rt[n]) + Gap(Nil, n)
    <3>1. SameBelow(pa, L, Nil, n, h, hb)
      <4>1. pa[r] = Header
        BY <1>2, <1>3 DEF Tied
      <4>2. QED BY <4>1, <1>3, <1>7 DEF SameBelow
    <3>2. H(hb, lf[n]) = H(h, lf[n]) /\ H(hb, rt[n]) = H(h, rt[n])
      BY ONLY <1>2, <3>1, n \in L, HeightElsewhere
    <3>3. h[n] = Bk(co, n) + H(h, lf[n]) + 0 /\ h[n] = Bk(co, n) + H(h, rt[n]) + 0 /\ Gap(Nil, n) = 0
          /\ H(h, lf[n]) \in Nat /\ H(h, rt[n]) \in Nat
      BY <1>6, <2>1
    <3>4. CASE n = r
      <4>1. co[r] \in {Red, Black}
        BY <1>2, <1>3
      <4>2. CASE co[r] = Red
        <5>1. Bk(co, r) = 0 /\ Bk(cp, r) = 1 /\ hb[r] = h[r] + 1
          BY <4>2, <1>4, <1>7 DEF Bk, Red, Black
        <5>2. QED BY <3>2, <3>3, <3>4, <5>1
      <4>3. CASE co[r] = Black
        <5>1. Bk(co, r) = Bk(cp, r) /\ hb[r] = h[r]
          BY <4>3, <1>4, <1>7 DEF Bk, Red, Black
        <5>2. QED BY <3>2, <3>3, <3>4, <5>1
      <4>4. QED BY <4>1, <4>2, <4>3
    <3>5. CASE n # r
      <4>1. Bk(cp, n) = Bk(co, n) /\ hb[n] = h[n]
        BY <3>5, <1>3, <1>4, <1>7 DEF Bk
      <4>2. QED BY <3>2, <3>3, <4>1
    <3>6. QED BY <3>4, <3>5
  <2>3. QED BY <2>2, <1>7 DEF Heights
<1>9. RedFree(pa, cp, L, Nil, Nil)
  <2>1. \A n \in L : pa[n] \in L \cup {Header} /\ pa[n] # Nil
    BY <1>2, <1>3, NilNotAddr DEF Tied
  <2>2. ASSUME NEW n \in L, cp[n] = Red, cp[pa[n]] = Red PROVE FALSE
    <3>1. n # r /\ pa[n] # r
      BY <2>2, <1>4 DEF Red, Black
    <3>2. co[n] = Red /\ co[pa[n]] = Red
      BY <2>1, <2>2, <3>1, <1>3, <1>4
    <3>3. n = c
      BY <1>2, <2>1, <3>2 DEF RedFree
    <3>4. QED BY <3>1, <3>2, <3>3 DEF Red, Black
  <2>3. QED BY <2>2 DEF RedFree
<1>10. Fine(pa, lf, rt, cp, key, L, sub, hb, Nil, Nil, Nil)
  BY ONLY Fine(pa, lf, rt, co, key, L, sub, h, Nil, Nil, c), <1>4, <1>8, <1>9, FineRecoloured
<1>11. QED BY <1>10

-----------------------------------------------------------------------------
(* A new leaf.                                                             *)

\* The sibling y becomes red: the black missing left of x is missing above x now,
\* unless x was red and can supply it.
LEMMA FineMoved ==
    ASSUME NEW pa, NEW lf, NEW rt, NEW co, NEW key, NEW L, NEW sub, NEW h, NEW x \in L,
           Fine(pa, lf, rt, co, key, L, sub, h, x, Nil, Nil),
           NEW y, y = rt[x], y # Nil, co[y] = Black, lf[y] # Nil => co[lf[y]] = Black, rt[y] # Nil => co[rt[y]] = Black,
           x # pa[Header] => lf[pa[x]] = x,
           NEW cp, cp = MovedColours(co, x, y),
           NEW k, k = IF co[x] = Black /\ x # pa[Header] THEN pa[x] ELSE Nil
    PROVE  \E hb : Fine(pa, lf, rt, cp, key, L, sub, hb, k, Nil, Nil)
<1>1. /\ Tied(pa, lf, rt, L, sub) /\ RedFree(pa, co, L, Nil, Nil) /\ co \in [Addr -> {Red, Black}] /\ co[Header] = Red
      /\ Heights(lf, rt, co, L, h, x, Nil)
  BY DEF Fine
<1>2. Nil \notin L /\ Header \notin L /\ L \subseteq Addr /\ Header \in Addr /\ Header # Nil
  BY <1>1, Below, NilNotAddr
<1>3. y \in L /\ pa[y] = x
  BY <1>1 DEF Tied
<1>4. /\ \A n \in L : n # pa[n] /\ (lf[n] = Nil \/ lf[n] # rt[n])
      /\ \A n \in L : lf[n] \in L \cup {Nil} /\ rt[n] \in L \cup {Nil} /\ lf[n] # n /\ rt[n] # n
  <2>1. ASSUME NEW n \in L
        PROVE  /\ lf[n] \in L \cup {Nil} /\ rt[n] \in L \cup {Nil} /\ lf[n] # n /\ rt[n] # n
               /\ lf[n] = Nil \/ lf[n] # rt[n]
    <3>1. lf[n] \in L \cup {Nil} /\ rt[n] \in L \cup {Nil} /\ n \notin Under(sub, lf[n]) \cup Under(sub, rt[n])
          /\ Under(sub, lf[n]) \cap Under(sub, rt[n]) = {}
      BY <1>1 DEF Tied
    <3>2. \A m \in L : m \in sub[m]
      BY <1>1, Below
    <3>3. QED BY <3>1, <3>2, <1>2 DEF Under
  <2>2. ASSUME NEW n \in L PROVE n # pa[n]
    BY <2>1, <1>1, <1>2 DEF Tied
  <2>3. QED BY <2>1, <2>2
<1>5. x # y /\ y # lf[x]
  BY <1>2, <1>3, <1>4
<1>6. cp[y] = Red /\ cp[x] = Black /\ (\A n \in Addr : n \notin {x, y} => cp[n] = co[n]) /\ cp \in [Addr -> {Red, Black}] /\ cp[Header] = Red
  BY <1>1, <1>2, <1>3, <1>5 DEF MovedColours
<1>7. PICK hb : hb = MovedBlacks(h, co, x, y)
  OBVIOUS
<1>8. /\ h \in [L -> Nat]
      /\ \A n \in L : /\ h[n] = Bk(co, n) + H(h, lf[n]) + Gap(x, n)
                      /\ h[n] = Bk(co, n) + H(h, rt[n]) + Gap(Nil, n)
  BY <1>1 DEF Heights
<1>9. \A n \in L : Gap(Nil, n) = 0 /\ h[n] \in Nat /\ H(h, lf[n]) \in Nat /\ H(h, rt[n]) \in Nat
  BY <1>2, <1>4, <1>8 DEF Gap, H
<1>10. Gap(x, y) = 0 /\ Gap(x, x) = 1 /\ Bk(co, y) = 1 /\ H(h, rt[x]) = h[y]
  BY <1>2, <1>3, <1>5 DEF Gap, Bk, H
<1>11. /\ h[y] = 1 + H(h, lf[y]) + 0 /\ h[y] = 1 + H(h, rt[y]) + 0
       /\ h[x] = Bk(co, x) + H(h, lf[x]) + 1 /\ h[x] = Bk(co, x) + h[y] + 0
  BY <1>3, <1>8, <1>9, <1>10
<1>12. h[y] - 1 \in Nat /\ (co[x] = Black => h[x] - 1 \in Nat)
  <2>1. co[x] = Black => Bk(co, x) = 1
    BY DEF Bk
  <2>2. QED BY <2>1, <1>3, <1>9, <1>11
<1>13. /\ hb \in [L -> Nat] /\ hb[y] = h[y] - 1 /\ hb[x] = IF co[x] = Black THEN h[x] - 1 ELSE h[x]
       /\ \A n \in L : n \notin {x, y} => hb[n] = h[n]
  BY <1>3, <1>5, <1>7, <1>8, <1>12 DEF MovedBlacks
<1>14. x # pa[Header] => pa[x] \in L /\ lf[pa[x]] = x /\ rt[pa[x]] # x /\ pa[x] # x /\ pa[x] # y
  <2>1. ASSUME x # pa[Header] PROVE pa[x] \in L /\ lf[pa[x]] = x /\ rt[pa[x]] # x
    BY <2>1, <1>1, <1>2, <1>4, Parents
  <2>2. ASSUME x # pa[Header] PROVE pa[x] # y
    <3>1. Cardinality(sub[x]) < Cardinality(sub[pa[x]]) /\ Cardinality(sub[y]) < Cardinality(sub[x])
      BY <2>1, <2>2, <1>1, <1>2, Below
    <3>2. Cardinality(sub[x]) \in Nat /\ Cardinality(sub[y]) \in Nat
      BY <1>1, <1>3, Below
    <3>3. QED BY <3>1, <3>2
  <2>3. QED BY <2>1, <2>2, <1>4
<1>15. Heights(lf, rt, cp, L, hb, k, Nil)
  <2>1. ASSUME NEW n \in L
        PROVE  /\ hb[n] = Bk(cp, n) + H(hb, lf[n]) + Gap(k, n)
               /\ hb[n] = Bk(cp, n) + H(hb, rt[n]) + Gap(Nil, n)
    <3>0. lf[n] \in L \cup {Nil} /\ rt[n] \in L \cup {Nil} /\ (lf[n] # Nil => pa[lf[n]] = n) /\ (rt[n] # Nil => pa[rt[n]] = n)
      BY <1>1 DEF Tied
    <3>1. CASE n = x
      <4>1. H(hb, lf[x]) = H(h, lf[x]) /\ H(hb, rt[x]) = h[y] - 1
        <5>1. lf[x] # x /\ lf[x] # y
          BY <1>4, <1>5
        <5>2. lf[x] # Nil => lf[x] \in L /\ hb[lf[x]] = h[lf[x]]
          BY <5>1, <3>0, <3>1, <1>13
        <5>3. QED BY <5>2, <1>2, <1>3, <1>13 DEF H
      <4>2. Bk(cp, x) = 1 /\ Gap(k, x) = 0
        BY <1>2, <1>6, <1>14 DEF Bk, Gap
      <4>3. co[x] = Black => Bk(co, x) = 1
        BY DEF Bk
      <4>4. co[x] # Black => Bk(co, x) = 0
        BY DEF Bk
      <4>5. Gap(Nil, x) = 0 /\ H(h, lf[x]) \in Nat /\ h[y] \in Nat /\ h[x] \in Nat
        BY <1>3, <1>9
      <4>6. QED BY <3>1, <4>1, <4>2, <4>3, <4>4, <4>5, <1>11, <1>13
    <3>2. CASE n = y
      <4>1. H(hb, lf[y]) = H(h, lf[y]) /\ H(hb, rt[y]) = H(h, rt[y])
        <5>1. SameBelow(pa, L, Nil, y, h, hb)
          BY <1>3, <1>4, <1>5, <1>13, <1>14, <1>2, <1>1 DEF SameBelow, Tied
        <5>2. QED BY ONLY <1>1, <1>3, <5>1, HeightElsewhere
      <4>2. Bk(cp, y) = 0 /\ Gap(k, y) = 0
        BY <1>2, <1>3, <1>6, <1>14 DEF Bk, Gap, Red, Black
      <4>3. Gap(Nil, y) = 0 /\ H(h, lf[y]) \in Nat /\ H(h, rt[y]) \in Nat
        BY <1>3, <1>9
      <4>4. QED BY <3>2, <4>1, <4>2, <4>3, <1>11, <1>13
    <3>3. CASE n \notin {x, y}
      <4>1. hb[n] = h[n] /\ Bk(cp, n) = Bk(co, n) /\ Gap(x, n) = 0
        BY <3>3, <1>2, <1>6, <1>13 DEF Bk, Gap
      <4>2. h[n] = Bk(co, n) + H(h, lf[n]) + 0 /\ h[n] = Bk(co, n) + H(h, rt[n]) + 0
        BY <4>1, <1>8, <1>9
      <4>3. H(hb, rt[n]) = H(h, rt[n])
        <5>1. rt[n] # x /\ rt[n] # y
          BY <3>0, <3>3, <1>2, <1>3, <1>14, <1>1 DEF Tied
        <5>2. QED BY <3>0, <5>1, <1>13 DEF H
      <4>4. CASE k = n
        <5>1. n = pa[x] /\ co[x] = Black /\ x # pa[Header]
          BY <4>4, <1>2
        <5>2. lf[n] = x /\ H(hb, lf[n]) = h[x] - 1 /\ H(h, lf[n]) = h[x]
          BY <5>1, <1>2, <1>13, <1>14 DEF H
        <5>3. Gap(k, n) = 1 /\ h[x] \in Nat /\ Gap(Nil, n) = 0
          BY <4>4, <1>9 DEF Gap
        <5>4. Bk(co, n) \in Nat
          BY DEF Bk
        <5>5. QED BY <4>1, <4>2, <4>3, <5>2, <5>3, <5>4
      <4>5. CASE k # n
        <5>1. H(hb, lf[n]) = H(h, lf[n])
          <6>1. lf[n] # y
            BY <3>0, <3>3, <1>2, <1>3
          <6>2. CASE lf[n] = x
            <7>1. n = pa[x] /\ x # pa[Header]
              BY <3>0, <6>2, <1>1, <1>2 DEF Tied
            <7>2. co[x] # Black
              BY <7>1, <4>5
            <7>3. hb[x] = h[x]
              BY <7>2, <1>13
            <7>4. QED BY <7>3, <6>2 DEF H
          <6>3. CASE lf[n] # x
            BY <6>1, <6>3, <3>0, <1>13 DEF H
          <6>4. QED BY <6>2, <6>3
        <5>2. Gap(k, n) = 0 /\ Gap(Nil, n) = 0
          BY <4>5, <1>9 DEF Gap
        <5>3. QED BY <4>1, <4>2, <4>3, <5>1, <5>2
      <4>6. QED BY <4>4, <4>5
    <3>4. QED BY <3>1, <3>2, <3>3
  <2>2. QED BY <2>1, <1>13 DEF Heights
<1>16. RedFree(pa, cp, L, Nil, Nil)
  <2>1. \A n \in L : pa[n] \in L \cup {Header} /\ pa[n] # Nil /\ n # Nil
    BY <1>1, <1>2 DEF Tied
  <2>2. ASSUME NEW n \in L, cp[n] = Red, cp[pa[n]] = Red PROVE FALSE
    <3>1. n # x /\ pa[n] # x
      BY <2>2, <1>6 DEF Red, Black
    <3>2. n # y
      BY <3>1, <1>3
    <3>3. co[n] = Red
      BY <2>2, <3>1, <3>2, <1>2, <1>6
    <3>4. pa[n] # y
      <4>1. pa[n] = y => n = lf[y] \/ n = rt[y]
        BY <1>1, <1>2, <1>3 DEF Tied
      <4>2. n # Nil
        BY <1>2
      <4>3. QED BY <4>1, <4>2, <3>3 DEF Red, Black
    <3>5. co[pa[n]] = Red
      BY <2>1, <2>2, <3>1, <3>4, <1>2, <1>6
    <3>6. QED BY <1>1, <2>1, <3>3, <3>5 DEF RedFree
  <2>3. QED BY <2>2 DEF RedFree
<1>17. Fine(pa, lf, rt, cp, key, L, sub, hb, k, Nil, Nil)
  BY ONLY Fine(pa, lf, rt, co, key, L, sub, h, x, Nil, Nil), <1>6, <1>15, <1>16, FineRecoloured
<1>18. QED BY <1>17

\* The links of n, of p and of the others, after n was hung left of p.
LEMMA HungLinks ==
    ASSUME NEW pa, NEW lf, NEW rt, NEW co, NEW L, NEW sub, Tied(pa, lf, rt, L, sub), co \in [Addr -> {Red, Black}],
           NEW n \in Node, n \notin L, NEW p \in L, lf[p] = Nil,
           NEW pb, NEW lg, NEW rg, NEW cp, Hung(pa, lf, rt, co, n, p, pb, lg, rg, cp)
    PROVE  /\ pb[n] = p /\ lg[n] = Nil /\ rg[n] = Nil /\ cp[n] = Red /\ lg[p] = n
           /\ \A m \in Addr : m # n => pb[m] = pa[m] /\ rg[m] = rt[m] /\ cp[m] = co[m]
           /\ \A m \in L : m # p => lg[m] = lf[m]
           /\ lg[Header] = IF lf[Header] = p THEN n ELSE lf[Header]
           /\ Links(pb, lg, rg) /\ cp \in [Addr -> {Red, Black}]
           /\ Nil \notin L \cup {n} /\ Header \notin L \cup {n} /\ L \subseteq Addr /\ n \in Addr /\ Header \in Addr /\ p # n
<1>1. Nil \notin L \cup {n} /\ Header \notin L \cup {n} /\ L \subseteq Addr /\ n \in Addr /\ Header \in Addr /\ p # n
  BY Below, NilNotAddr
<1>2. pa \in [Addr -> Addr \cup {Nil}] /\ lf \in [Addr -> Addr \cup {Nil}] /\ rt \in [Addr -> Addr \cup {Nil}]
  BY DEF Tied, Links
<1>3. pb[n] = p /\ lg[n] = Nil /\ rg[n] = Nil /\ cp[n] = Red /\ lg[p] = n
  <2>1. pb[n] = p /\ rg[n] = Nil /\ cp[n] = Red
    BY <1>1, <1>2 DEF Hung
  <2>2. p \in Addr
    BY <1>1
  <2>3. lg[n] = Nil /\ lg[p] = n
    <3>1. lg = [a \in Addr |-> IF a = n THEN Nil ELSE IF a = p \/ (a = Header /\ lf[Header] = p) THEN n ELSE lf[a]]
      BY DEF Hung
    <3>2. n \in Addr /\ p # n
      BY <1>1
    <3>3. \A a \in Addr : lg[a] = IF a = n THEN Nil ELSE IF a = p \/ (a = Header /\ lf[Header] = p) THEN n ELSE lf[a]
      BY ONLY <3>1
    <3>4. lg[n] = Nil
      BY ONLY <3>2, <3>3
    <3>5. lg[p] = n
      BY ONLY <2>2, <3>2, <3>3
    <3>6. QED BY ONLY <3>4, <3>5
  <2>4. QED BY <2>1, <2>3
<1>4. \A m \in Addr : m # n => pb[m] = pa[m] /\ rg[m] = rt[m] /\ cp[m] = co[m]
  BY <1>1, <1>2 DEF Hung
<1>5. \A m \in L : m # p => lg[m] = lf[m]
  BY <1>1 DEF Hung
<1>6. lg[Header] = IF lf[Header] = p THEN n ELSE lf[Header]
  BY <1>1 DEF Hung
<1>7. pb \in [Addr -> Addr \cup {Nil}] /\ rg \in [Addr -> Addr \cup {Nil}] /\ cp \in [Addr -> {Red, Black}]
  BY <1>1, <1>2 DEF Hung
<1>8. lg \in [Addr -> Addr \cup {Nil}]
  BY <1>1, <1>2 DEF Hung
<1>9. QED BY <1>1, <1>3, <1>4, <1>5, <1>6, <1>7, <1>8 DEF Links

\* What is below each node then.
LEMMA HungUnder ==
    ASSUME NEW pa, NEW lf, NEW rt, NEW co, NEW L, NEW sub, Tied(pa, lf, rt, L, sub), co \in [Addr -> {Red, Black}],
           NEW n \in Node, n \notin L, NEW p \in L, lf[p] = Nil,
           NEW pb, NEW lg, NEW rg, NEW cp, Hung(pa, lf, rt, co, n, p, pb, lg, rg, cp),
           NEW sb, sb = HungSub(sub, L, n, p)
    PROVE  HangsUnder(lf, rt, L, sub, n, p, lg, rg, sb)
<1>1. /\ lg[n] = Nil /\ rg[n] = Nil /\ lg[p] = n
      /\ \A m \in Addr : m # n => rg[m] = rt[m]
      /\ \A m \in L : m # p => lg[m] = lf[m]
      /\ Nil \notin L \cup {n} /\ L \subseteq Addr /\ p # n
  BY HungLinks
<1>2. \A m \in L : lf[m] \in L \cup {Nil} /\ rt[m] \in L \cup {Nil} /\ sub[m] \subseteq L
  BY DEF Tied
<1>3. sb[n] = {n} /\ \A m \in L : sb[m] = IF p \in sub[m] THEN sub[m] \cup {n} ELSE sub[m]
  BY DEF HungSub
<1>4. sb \in [L \cup {n} -> SUBSET (L \cup {n})]
  BY <1>2 DEF HungSub
<1>5. \A c \in L \cup {Nil} : Under(sb, c) = IF p \in Under(sub, c) THEN Under(sub, c) \cup {n} ELSE Under(sub, c)
  BY <1>1, <1>3 DEF Under
<1>6. Under(sb, Nil) = {} /\ Under(sb, n) = {n}
  BY <1>1, <1>3 DEF Under
<1>7. \A m \in L : Under(sb, rg[m]) = IF p \in Under(sub, rt[m]) THEN Under(sub, rt[m]) \cup {n} ELSE Under(sub, rt[m])
  <2>1. ASSUME NEW m \in L PROVE Under(sb, rg[m]) = IF p \in Under(sub, rt[m]) THEN Under(sub, rt[m]) \cup {n} ELSE Under(sub, rt[m])
    <3>1. rg[m] = rt[m] /\ rt[m] \in L \cup {Nil}
      BY <1>1, <1>2
    <3>2. QED BY ONLY <3>1, <1>5
  <2>2. QED BY <2>1
<1>8. \A m \in L : Under(sb, lg[m]) = IF m = p THEN {n}
                                     ELSE IF p \in Under(sub, lf[m]) THEN Under(sub, lf[m]) \cup {n} ELSE Under(sub, lf[m])
  <2>1. ASSUME NEW m \in L, m # p
        PROVE  Under(sb, lg[m]) = IF p \in Under(sub, lf[m]) THEN Under(sub, lf[m]) \cup {n} ELSE Under(sub, lf[m])
    <3>1. lg[m] = lf[m] /\ lf[m] \in L \cup {Nil}
      BY <2>1, <1>1, <1>2
    <3>2. QED BY ONLY <3>1, <1>5
  <2>2. QED BY <2>1, <1>1, <1>6
<1>9. QED BY <1>1, <1>3, <1>4, <1>6, <1>7, <1>8 DEF HangsUnder

\* The links agree again.
LEMMA HungTied ==
    ASSUME NEW pa, NEW lf, NEW rt, NEW co, NEW L, NEW sub, Tied(pa, lf, rt, L, sub), co \in [Addr -> {Red, Black}],
           NEW n \in Node, n \notin L, NEW p \in L, lf[p] = Nil,
           NEW pb, NEW lg, NEW rg, NEW cp, Hung(pa, lf, rt, co, n, p, pb, lg, rg, cp),
           NEW sb, sb = HungSub(sub, L, n, p)
    PROVE  Tied(pb, lg, rg, L \cup {n}, sb)
<1>1. /\ pb[n] = p /\ lg[n] = Nil /\ rg[n] = Nil /\ lg[p] = n
      /\ \A m \in Addr : m # n => pb[m] = pa[m] /\ rg[m] = rt[m]
      /\ \A m \in L : m # p => lg[m] = lf[m]
      /\ Links(pb, lg, rg)
      /\ Nil \notin L \cup {n} /\ Header \notin L \cup {n} /\ L \subseteq Addr /\ n \in Addr /\ Header \in Addr /\ p # n
  BY HungLinks
<1>2. /\ sb \in [L \cup {n} -> SUBSET (L \cup {n})] /\ sb[n] = {n}
      /\ \A m \in L : sb[m] = IF p \in sub[m] THEN sub[m] \cup {n} ELSE sub[m]
      /\ Under(sb, lg[n]) = {} /\ Under(sb, rg[n]) = {}
      /\ \A m \in L : Under(sb, rg[m]) = IF p \in Under(sub, rt[m]) THEN Under(sub, rt[m]) \cup {n} ELSE Under(sub, rt[m])
      /\ \A m \in L : Under(sb, lg[m]) = IF m = p THEN {n}
                                         ELSE IF p \in Under(sub, lf[m]) THEN Under(sub, lf[m]) \cup {n} ELSE Under(sub, lf[m])
  <2>1. HangsUnder(lf, rt, L, sub, n, p, lg, rg, sb)
    BY HungUnder
  <2>2. QED BY ONLY <2>1 DEF HangsUnder
<1>3. /\ L \subseteq Node /\ L # {}
      /\ pa[Header] \in L /\ pa[pa[Header]] = Header /\ sub[pa[Header]] = L
  BY <1>1 DEF Tied
<1>4. \A m \in L : /\ pa[m] \in L \cup {Header} /\ lf[m] \in L \cup {Nil} /\ rt[m] \in L \cup {Nil}
                   /\ pa[m] = Header => m = pa[Header]
                   /\ pa[m] # Header => lf[pa[m]] = m \/ rt[pa[m]] = m
                   /\ lf[m] # Nil => pa[lf[m]] = m
                   /\ rt[m] # Nil => pa[rt[m]] = m
                   /\ sub[m] = {m} \cup Under(sub, lf[m]) \cup Under(sub, rt[m])
                   /\ m \notin Under(sub, lf[m]) \cup Under(sub, rt[m])
                   /\ Under(sub, lf[m]) \cap Under(sub, rt[m]) = {}
                   /\ sub[m] \subseteq L
  BY DEF Tied
<1>5. /\ pb[Header] \in L \cup {n} /\ pb[Header] # Nil /\ pb[pb[Header]] = Header /\ sb[pb[Header]] = L \cup {n}
  BY <1>1, <1>2, <1>3
<1>6. ASSUME NEW m \in L \cup {n}
      PROVE  /\ pb[m] \in (L \cup {n}) \cup {Header} /\ lg[m] \in (L \cup {n}) \cup {Nil} /\ rg[m] \in (L \cup {n}) \cup {Nil}
             /\ pb[m] = Header => m = pb[Header]
             /\ pb[m] # Header => lg[pb[m]] = m \/ rg[pb[m]] = m
             /\ lg[m] # Nil => pb[lg[m]] = m
             /\ rg[m] # Nil => pb[rg[m]] = m
  <2>1. CASE m = n
    BY <2>1, <1>1
  <2>2. CASE m \in L /\ m # n
    <3>1. m \in Addr /\ pb[m] = pa[m] /\ rg[m] = rt[m] /\ pb[Header] = pa[Header]
      BY <2>2, <1>1
    <3>2. (lg[m] = n /\ m = p) \/ lg[m] = lf[m]
      BY <2>2, <1>1
    <3>3. rt[m] # Nil => rt[m] \in L /\ rt[m] # n /\ pb[rt[m]] = m
      BY <2>2, <1>1, <1>4
    <3>4. lf[m] # Nil => lf[m] \in L /\ lf[m] # n /\ pb[lf[m]] = m
      BY <2>2, <1>1, <1>4
    <3>5. pa[m] # Header => pa[m] \in L /\ rg[pa[m]] = rt[pa[m]] /\ (pa[m] = p => lf[pa[m]] # m) /\ (pa[m] # p => lg[pa[m]] = lf[pa[m]])
      <4>1. ASSUME pa[m] # Header PROVE pa[m] \in L
        BY <4>1, <2>2, <1>4
      <4>2. lf[p] # m
        BY <2>2, <1>1
      <4>3. QED BY <4>1, <4>2, <1>1
    <3>6. QED BY <2>2, <3>1, <3>2, <3>3, <3>4, <3>5, <1>1, <1>4
  <2>3. QED BY <2>1, <2>2
<1>7. ASSUME NEW m \in L \cup {n}
      PROVE  /\ sb[m] = {m} \cup Under(sb, lg[m]) \cup Under(sb, rg[m])
             /\ m \notin Under(sb, lg[m]) \cup Under(sb, rg[m])
             /\ Under(sb, lg[m]) \cap Under(sb, rg[m]) = {}
  <2>1. CASE m = n
    BY <2>1, <1>2
  <2>2. CASE m = p
    <3>1. Under(sub, lf[p]) = {}
      BY DEF Under
    <3>2. p \notin Under(sub, rt[p]) /\ sub[p] = {p} \cup Under(sub, rt[p]) /\ n \notin Under(sub, rt[p]) /\ p \in sub[p]
      BY <3>1, <1>4
    <3>3. sb[p] = sub[p] \cup {n} /\ Under(sb, lg[p]) = {n} /\ Under(sb, rg[p]) = Under(sub, rt[p])
      BY <3>2, <1>2
    <3>4. p # n
      BY <1>1
    <3>5. QED BY ONLY <2>2, <3>2, <3>3, <3>4
  <2>3. CASE m \in L /\ m # p
    <3>1. /\ sub[m] = {m} \cup Under(sub, lf[m]) \cup Under(sub, rt[m])
          /\ m \notin Under(sub, lf[m]) \cup Under(sub, rt[m])
          /\ Under(sub, lf[m]) \cap Under(sub, rt[m]) = {}
          /\ n \notin Under(sub, lf[m]) /\ n \notin Under(sub, rt[m]) /\ m # n
      BY <2>3, <1>4
    <3>2. p \in sub[m] <=> p \in Under(sub, lf[m]) \/ p \in Under(sub, rt[m])
      BY <2>3, <3>1
    <3>3. /\ sb[m] = IF p \in sub[m] THEN sub[m] \cup {n} ELSE sub[m]
          /\ Under(sb, rg[m]) = IF p \in Under(sub, rt[m]) THEN Under(sub, rt[m]) \cup {n} ELSE Under(sub, rt[m])
          /\ Under(sb, lg[m]) = IF p \in Under(sub, lf[m]) THEN Under(sub, lf[m]) \cup {n} ELSE Under(sub, lf[m])
      BY <2>3, <1>2
    <3>4. CASE p \in Under(sub, lf[m])
      <4>1. p \in sub[m] /\ p \notin Under(sub, rt[m])
        BY <3>4, <3>1
      <4>2. sb[m] = sub[m] \cup {n} /\ Under(sb, rg[m]) = Under(sub, rt[m]) /\ Under(sb, lg[m]) = Under(sub, lf[m]) \cup {n}
        BY ONLY <3>3, <3>4, <4>1
      <4>3. QED BY ONLY <4>2, <3>1
    <3>5. CASE p \in Under(sub, rt[m])
      <4>1. p \in sub[m] /\ p \notin Under(sub, lf[m])
        BY <3>5, <3>1
      <4>2. sb[m] = sub[m] \cup {n} /\ Under(sb, rg[m]) = Under(sub, rt[m]) \cup {n} /\ Under(sb, lg[m]) = Under(sub, lf[m])
        BY ONLY <3>3, <3>5, <4>1
      <4>3. QED BY ONLY <4>2, <3>1
    <3>6. CASE p \notin sub[m]
      <4>1. p \notin Under(sub, lf[m]) /\ p \notin Under(sub, rt[m])
        BY <3>6, <3>2
      <4>2. sb[m] = sub[m] /\ Under(sb, rg[m]) = Under(sub, rt[m]) /\ Under(sb, lg[m]) = Under(sub, lf[m])
        BY ONLY <3>3, <3>6, <4>1
      <4>3. QED BY ONLY <4>2, <3>1
    <3>7. QED BY <3>2, <3>4, <3>5, <3>6
  <2>4. QED BY <2>1, <2>2, <2>3
<1>8. L \cup {n} \subseteq Node /\ L \cup {n} # {}
  BY <1>3
<1>9. Links(pb, lg, rg) /\ sb \in [L \cup {n} -> SUBSET (L \cup {n})]
  BY <1>1, <1>2
<1>10. QED BY ONLY <1>5, <1>6, <1>7, <1>8, <1>9 DEF Tied

\* A node whose key fits is linked.
LEMMA FineHung ==
    ASSUME NEW pa, NEW lf, NEW rt, NEW co, NEW key, NEW L, NEW sub, NEW h,
           Fine(pa, lf, rt, co, key, L, sub, h, Nil, Nil, Nil),
           NEW n \in Node, n \notin L, NEW p \in L, lf[p] = Nil, Fits(key, lf, rt, L, sub, key[n], key[n], p),
           NEW pb, NEW lg, NEW rg, NEW cp, Hung(pa, lf, rt, co, n, p, pb, lg, rg, cp)
    PROVE  \E sb, hb : Fine(pb, lg, rg, cp, key, L \cup {n}, sb, hb, Nil, Nil, n)
<1>1. /\ Tied(pa, lf, rt, L, sub) /\ RedFree(pa, co, L, Nil, Nil) /\ co \in [Addr -> {Red, Black}] /\ co[Header] = Red
      /\ Heights(lf, rt, co, L, h, Nil, Nil) /\ Sorted(key, lf, rt, L, sub) /\ key \in [Node -> Int]
      /\ First(lf, L, sub, lf[Header]) /\ First(rt, L, sub, rt[Header])
  BY DEF Fine
<1>2. PICK sb : sb = HungSub(sub, L, n, p)
  OBVIOUS
<1>3. Tied(pb, lg, rg, L \cup {n}, sb)
  BY <1>1, <1>2, HungTied
<1>4. /\ pb[n] = p /\ lg[n] = Nil /\ rg[n] = Nil /\ cp[n] = Red /\ lg[p] = n
      /\ \A m \in Addr : m # n => pb[m] = pa[m] /\ rg[m] = rt[m] /\ cp[m] = co[m]
      /\ \A m \in L : m # p => lg[m] = lf[m]
      /\ lg[Header] = IF lf[Header] = p THEN n ELSE lf[Header]
      /\ cp \in [Addr -> {Red, Black}]
      /\ Nil \notin L \cup {n} /\ Header \notin L \cup {n} /\ L \subseteq Addr /\ n \in Addr /\ Header \in Addr /\ p # n
  BY <1>1, HungLinks
<1>5. /\ sb[n] = {n}
      /\ \A m \in L : sb[m] = IF p \in sub[m] THEN sub[m] \cup {n} ELSE sub[m]
      /\ Under(sb, lg[n]) = {} /\ Under(sb, rg[n]) = {}
      /\ \A m \in L : Under(sb, rg[m]) = IF p \in Under(sub, rt[m]) THEN Under(sub, rt[m]) \cup {n} ELSE Under(sub, rt[m])
      /\ \A m \in L : Under(sb, lg[m]) = IF m = p THEN {n}
                                         ELSE IF p \in Under(sub, lf[m]) THEN Under(sub, lf[m]) \cup {n} ELSE Under(sub, lf[m])
  <2>0. Tied(pa, lf, rt, L, sub) /\ co \in [Addr -> {Red, Black}]
    BY <1>1
  <2>1. HangsUnder(lf, rt, L, sub, n, p, lg, rg, sb)
    BY ONLY <2>0, <1>2, n \in Node, n \notin L, p \in L, lf[p] = Nil, Hung(pa, lf, rt, co, n, p, pb, lg, rg, cp), HungUnder
  <2>2. QED BY ONLY <2>1 DEF HangsUnder
<1>6. Sorted(key, lg, rg, L \cup {n}, sb)
  <2>1. ASSUME NEW m \in L
        PROVE  /\ \A j \in Under(sb, lg[m]) : key[j] <= key[m]
               /\ \A j \in Under(sb, rg[m]) : key[m] <= key[j]
    <3>1. (\A j \in Under(sub, lf[m]) : key[j] <= key[m]) /\ (\A j \in Under(sub, rt[m]) : key[m] <= key[j])
      BY <1>1 DEF Sorted
    <3>2. key[n] <= key[p] /\ (p \in Under(sub, lf[m]) => key[n] <= key[m]) /\ (p \in Under(sub, rt[m]) => key[m] <= key[n])
      BY DEF Fits
    <3>3. QED BY <3>1, <3>2, <1>5
  <2>2. QED BY <2>1, <1>5 DEF Sorted
<1>7. First(lg, L \cup {n}, sb, lg[Header])
  <2>1. PICK e : e = lf[Header]
    OBVIOUS
  <2>2. e \in L /\ lf[e] = Nil /\ \A a \in L : e \in sub[a] => a = e \/ e \in Under(sub, lf[a])
    BY <1>1, <2>1 DEF First
  <2>3. CASE e = p
    <3>1. lg[Header] = n
      BY <2>1, <2>3, <1>4
    <3>2. ASSUME NEW a \in L \cup {n}, n \in sb[a] PROVE a = n \/ n \in Under(sb, lg[a])
      <4>1. CASE a \in L
        <5>1. p \in sub[a]
          <6>1. n \notin sub[a]
            BY <4>1, <1>1 DEF Tied
          <6>2. QED BY <4>1, <6>1, <3>2, <1>5
        <5>2. a = p \/ p \in Under(sub, lf[a])
          BY <4>1, <5>1, <2>2, <2>3
        <5>3. QED BY <4>1, <5>2, <1>5
      <4>2. QED BY <4>1, <3>2
    <3>3. QED BY <3>1, <3>2, <1>4 DEF First
  <2>4. CASE e # p
    <3>1. lg[Header] = e /\ lg[e] = Nil
      BY <2>1, <2>2, <2>4, <1>4
    <3>2. ASSUME NEW a \in L \cup {n}, e \in sb[a] PROVE a = e \/ e \in Under(sb, lg[a])
      <4>1. a # n /\ e # n
        BY <2>2, <3>2, <1>5
      <4>2. e \in sub[a]
        BY <4>1, <3>2, <1>5
      <4>3. a = e \/ e \in Under(sub, lf[a])
        BY <4>1, <4>2, <3>2, <2>2
      <4>4. a # p \/ e \notin Under(sub, lf[a])
        BY DEF Under
      <4>5. QED BY <4>1, <4>3, <4>4, <3>2, <1>5
    <3>3. QED BY <3>1, <3>2, <2>2 DEF First
  <2>5. QED BY <2>3, <2>4
<1>8. First(rg, L \cup {n}, sb, rg[Header])
  <2>1. PICK e : e = rt[Header]
    OBVIOUS
  <2>2. e \in L /\ rt[e] = Nil /\ \A a \in L : e \in sub[a] => a = e \/ e \in Under(sub, rt[a])
    BY <1>1, <2>1 DEF First
  <2>3. e # n /\ e \in Addr /\ Header # n
    BY <2>2, <1>4
  <2>4. rg[Header] = e /\ rg[e] = Nil
    BY <2>1, <2>2, <2>3, <1>4
  <2>5. ASSUME NEW a \in L \cup {n}, e \in sb[a] PROVE a = e \/ e \in Under(sb, rg[a])
    <3>1. a # n
      BY <2>3, <2>5, <1>5
    <3>2. e \in sub[a]
      BY <3>1, <2>3, <2>5, <1>5
    <3>3. a = e \/ e \in Under(sub, rt[a])
      BY <3>1, <3>2, <2>5, <2>2
    <3>4. QED BY <3>1, <3>3, <2>5, <1>5
  <2>6. QED BY <2>2, <2>4, <2>5 DEF First
<1>9. PICK hb : hb = HungBlacks(h, L, n)
  OBVIOUS
<1>10. Heights(lg, rg, cp, L \cup {n}, hb, Nil, Nil)
  <2>1. /\ h \in [L -> Nat]
        /\ \A m \in L : /\ h[m] = Bk(co, m) + H(h, lf[m]) + Gap(Nil, m)
                        /\ h[m] = Bk(co, m) + H(h, rt[m]) + Gap(Nil, m)
    BY <1>1 DEF Heights
  <2>2. hb \in [L \cup {n} -> Nat] /\ hb[n] = 0 /\ \A m \in L : hb[m] = h[m]
    <3>1. hb[n] = 0 /\ \A m \in L : hb[m] = h[m]
      BY <1>9 DEF HungBlacks
    <3>2. hb \in [L \cup {n} -> Nat]
      BY <1>9, <2>1 DEF HungBlacks
    <3>3. QED BY <3>1, <3>2
  <2>3. ASSUME NEW m \in L \cup {n}
        PROVE  /\ hb[m] = Bk(cp, m) + H(hb, lg[m]) + Gap(Nil, m)
               /\ hb[m] = Bk(cp, m) + H(hb, rg[m]) + Gap(Nil, m)
    <3>1. CASE m = n
      <4>1. Bk(cp, n) = 0 /\ Gap(Nil, n) = 0 /\ H(hb, lg[n]) = 0 /\ H(hb, rg[n]) = 0
        BY <1>4 DEF Bk, Gap, H, Red, Black
      <4>2. QED BY <3>1, <4>1, <2>2
    <3>2. CASE m \in L /\ m # n
      <4>1. lf[m] \in L \cup {Nil} /\ rt[m] \in L \cup {Nil}
        BY <3>2, <1>1 DEF Tied
      <4>2. H(hb, lf[m]) = H(h, lf[m]) /\ H(hb, rt[m]) = H(h, rt[m])
        BY <4>1, <2>2, <1>4 DEF H
      <4>3. rg[m] = rt[m] /\ Bk(cp, m) = Bk(co, m)
        BY <3>2, <1>4 DEF Bk
      <4>4. H(hb, lg[m]) = H(hb, lf[m])
        BY <3>2, <1>4, <2>2 DEF H
      <4>5. QED BY <3>2, <4>2, <4>3, <4>4, <2>1, <2>2
    <3>3. QED BY <3>1, <3>2
  <2>4. QED BY <2>2, <2>3 DEF Heights
<1>11. RedFree(pb, cp, L \cup {n}, n, Nil)
  <2>1. \A m \in L : pa[m] \in L \cup {Header} /\ pa[m] # n /\ pa[m] \in Addr
    BY <1>1, <1>4 DEF Tied
  <2>2. ASSUME NEW m \in L \cup {n}, cp[m] = Red, cp[pb[m]] = Red, m # n PROVE pb[m] = Nil
    <3>1. m \in L /\ m \in Addr /\ pb[m] = pa[m] /\ co[m] = Red /\ co[pa[m]] = Red
      BY <2>1, <2>2, <1>4
    <3>2. QED BY <3>1, <1>1, <1>4 DEF RedFree
  <2>3. QED BY <2>2 DEF RedFree
<1>12. cp[Header] = Red
  BY <1>1, <1>4
<1>13. Fine(pb, lg, rg, cp, key, L \cup {n}, sb, hb, Nil, Nil, n)
  BY <1>1, <1>3, <1>4, <1>6, <1>7, <1>8, <1>10, <1>11, <1>12 DEF Fine
<1>14. QED BY <1>13

\* The left links Link() writes, as one function.
LEMMA LinkedLeftIs ==
    ASSUME NEW lf \in [Addr -> Addr \cup {Nil}], NEW n \in Node, NEW p \in Node, p # n
    PROVE  LinkedLeft(lf, n, p)
             = [a \in Addr |-> IF a = n THEN Nil ELSE IF a = p \/ (a = Header /\ lf[Header] = p) THEN n ELSE lf[a]]
<1>1. n \in Addr /\ p \in Addr /\ Header \in Addr /\ n # Header /\ p # Header
  BY NilNotAddr
<1>2. CASE p = lf[Header]
  BY <1>1, <1>2 DEF LinkedLeft
<1>3. CASE p # lf[Header]
  BY <1>1, <1>3 DEF LinkedLeft
<1>4. QED BY <1>2, <1>3

\* Link hangs the node on the side it is told.
LEMMA LinkLeft ==
    ASSUME NEW t, NEW pa, NEW lf, NEW rt, NEW co, Fields(t, pa, lf, rt, co), Links(pa, lf, rt),
           NEW n \in Node, NEW p \in Node, p # n
    PROVE  \E pb, lg, rg, cp : /\ Fields(Link(t, n, p, TRUE), pb, lg, rg, cp)
                               /\ Hung(pa, lf, rt, co, n, p, pb, lg, rg, cp)
<1>1. t.parent = pa /\ t.left = lf /\ t.right = rt /\ t.color = co
  BY DEF Fields
<1>2. p # Header
  BY NilNotAddr
<1>3. LeftMost(t) = lf[Header]
  BY <1>1 DEF LeftMost
<1>4. Link(t, n, p, TRUE) = [parent |-> [pa EXCEPT ![n] = p], left |-> LinkedLeft(lf, n, p),
                             right |-> [rt EXCEPT ![n] = Nil], color |-> [co EXCEPT ![n] = Red]]
  <2>1. CASE p = lf[Header]
    BY <1>1, <1>2, <1>3, <2>1 DEF Link, LinkedLeft
  <2>2. CASE p # lf[Header]
    BY <1>1, <1>2, <1>3, <2>2 DEF Link, LinkedLeft
  <2>3. QED BY <2>1, <2>2
<1>5. LinkedLeft(lf, n, p)
        = [a \in Addr |-> IF a = n THEN Nil ELSE IF a = p \/ (a = Header /\ lf[Header] = p) THEN n ELSE lf[a]]
  BY LinkedLeftIs DEF Links
<1>6. PICK pb, lg, rg, cp : pb = [pa EXCEPT ![n] = p] /\ lg = LinkedLeft(lf, n, p)
                            /\ rg = [rt EXCEPT ![n] = Nil] /\ cp = [co EXCEPT ![n] = Red]
  OBVIOUS
<1>7. Fields(Link(t, n, p, TRUE), pb, lg, rg, cp)
  BY <1>4, <1>6 DEF Fields
<1>8. Hung(pa, lf, rt, co, n, p, pb, lg, rg, cp)
  BY <1>5, <1>6 DEF Hung
<1>9. QED BY <1>7, <1>8

\* Link() on the other side.
LEMMA LinkRight ==
    ASSUME NEW t, NEW pa, NEW lf, NEW rt, NEW co, Fields(t, pa, lf, rt, co), Links(pa, lf, rt),
           NEW n \in Node, NEW p \in Node, p # n
    PROVE  \E pb, lg, rg, cp : /\ Fields(Link(t, n, p, FALSE), pb, lg, rg, cp)
                               /\ Hung(pa, rt, lf, co, n, p, pb, rg, lg, cp)
<1>1. t.parent = pa /\ t.left = lf /\ t.right = rt /\ t.color = co
  BY DEF Fields
<1>2. p # Header
  BY NilNotAddr
<1>3. RightMost(t) = rt[Header]
  BY <1>1 DEF RightMost
<1>4. Link(t, n, p, FALSE) = [parent |-> [pa EXCEPT ![n] = p], left |-> [lf EXCEPT ![n] = Nil],
                              right |-> LinkedLeft(rt, n, p), color |-> [co EXCEPT ![n] = Red]]
  <2>1. CASE p = rt[Header]
    BY <1>1, <1>2, <1>3, <2>1 DEF Link, LinkedLeft
  <2>2. CASE p # rt[Header]
    BY <1>1, <1>2, <1>3, <2>2 DEF Link, LinkedLeft
  <2>3. QED BY <2>1, <2>2
<1>5. LinkedLeft(rt, n, p)
        = [a \in Addr |-> IF a = n THEN Nil ELSE IF a = p \/ (a = Header /\ rt[Header] = p) THEN n ELSE rt[a]]
  BY LinkedLeftIs DEF Links
<1>6. PICK pb, lg, rg, cp : pb = [pa EXCEPT ![n] = p] /\ rg = LinkedLeft(rt, n, p)
                            /\ lg = [lf EXCEPT ![n] = Nil] /\ cp = [co EXCEPT ![n] = Red]
  OBVIOUS
<1>7. Fields(Link(t, n, p, FALSE), pb, lg, rg, cp)
  BY <1>4, <1>6 DEF Fields
<1>8. Hung(pa, rt, lf, co, n, p, pb, rg, lg, cp)
  BY <1>5, <1>6 DEF Hung
<1>9. QED BY <1>7, <1>8

\* The first node.
LEMMA FineSeed ==
    ASSUME NEW t, NEW pa, NEW lf, NEW rt, NEW co, Fields(t, pa, lf, rt, co), Links(pa, lf, rt),
           co \in [Addr -> {Red, Black}], co[Header] = Red, NEW key \in [Node -> Int], NEW n \in Node
    PROVE  \E pb, lg, rg, cp, sb, hb : /\ Fields(Link(t, n, Header, TRUE), pb, lg, rg, cp)
                                       /\ Fine(pb, lg, rg, cp, key, {n}, sb, hb, Nil, Nil, n)
                                       /\ cp[n] = Red
<1>1. t.parent = pa /\ t.left = lf /\ t.right = rt /\ t.color = co
  BY DEF Fields
<1>2. n \in Addr /\ Header \in Addr /\ n # Header /\ n # Nil /\ Nil # Header
  BY NilNotAddr
<1>3. PICK pb, lg, rg, cp : pb = [[pa EXCEPT ![n] = Header] EXCEPT ![Header] = n] /\ lg = [[lf EXCEPT ![n] = Nil] EXCEPT ![Header] = n]
                            /\ rg = [[rt EXCEPT ![n] = Nil] EXCEPT ![Header] = n] /\ cp = [co EXCEPT ![n] = Red]
  OBVIOUS
<1>4. Fields(Link(t, n, Header, TRUE), pb, lg, rg, cp)
  BY <1>1, <1>3 DEF Fields, Link
<1>5. pa \in [Addr -> Addr \cup {Nil}] /\ lf \in [Addr -> Addr \cup {Nil}] /\ rt \in [Addr -> Addr \cup {Nil}]
  BY DEF Links
<1>6. pb[n] = Header /\ pb[Header] = n /\ lg[n] = Nil /\ lg[Header] = n /\ rg[n] = Nil /\ rg[Header] = n
      /\ cp[n] = Red /\ cp[Header] = Red
  BY <1>2, <1>3, <1>5
<1>7. Links(pb, lg, rg) /\ cp \in [Addr -> {Red, Black}]
  BY <1>2, <1>3, <1>5 DEF Links
<1>8. PICK sb, hb : sb = SeedSub(n) /\ hb = SeedBlacks(n)
  OBVIOUS
<1>9. sb[n] = {n} /\ hb[n] = 0 /\ sb \in [{n} -> SUBSET {n}] /\ hb \in [{n} -> Nat]
  BY <1>8 DEF SeedSub, SeedBlacks
<1>10. Under(sb, lg[n]) = {} /\ Under(sb, rg[n]) = {}
  BY <1>6 DEF Under
<1>11. Tied(pb, lg, rg, {n}, sb)
  BY <1>2, <1>6, <1>7, <1>9, <1>10 DEF Tied
<1>12. Sorted(key, lg, rg, {n}, sb)
  BY <1>10 DEF Sorted
<1>13. First(lg, {n}, sb, lg[Header]) /\ First(rg, {n}, sb, rg[Header])
  BY <1>6 DEF First
<1>14. Heights(lg, rg, cp, {n}, hb, Nil, Nil)
  <2>1. Bk(cp, n) = 0 /\ H(hb, lg[n]) = 0 /\ H(hb, rg[n]) = 0 /\ Gap(Nil, n) = 0
    BY <1>2, <1>6 DEF Bk, H, Gap, Red, Black
  <2>2. QED BY <2>1, <1>9 DEF Heights
<1>15. RedFree(pb, cp, {n}, n, Nil)
  BY DEF RedFree
<1>16. Fine(pb, lg, rg, cp, key, {n}, sb, hb, Nil, Nil, n)
  BY <1>6, <1>7, <1>11, <1>12, <1>13, <1>14, <1>15 DEF Fine
<1>17. QED BY <1>4, <1>6, <1>16

-----------------------------------------------------------------------------
(* The first node taken out.                                               *)

\* z, its right child and its parent when z is the first node.
LEMMA AtFirstFacts ==
    ASSUME NEW pa, NEW lf, NEW rt, NEW co, NEW key, NEW L, NEW sub, NEW h,
           Fine(pa, lf, rt, co, key, L, sub, h, Nil, Nil, Nil), L # {},
           NEW z, z = lf[Header], NEW x, x = rt[z], NEW p, p = pa[z]
    PROVE  AtFirst(pa, lf, rt, co, L, sub, z, x, p)
<1>1. /\ Tied(pa, lf, rt, L, sub) /\ RedFree(pa, co, L, Nil, Nil) /\ co \in [Addr -> {Red, Black}] /\ co[Header] = Red
      /\ Heights(lf, rt, co, L, h, Nil, Nil)
      /\ First(lf, L, sub, z) /\ First(rt, L, sub, rt[Header])
  BY DEF Fine
<1>2. Nil \notin L /\ Header \notin L /\ L \subseteq Addr /\ Header \in Addr /\ Header # Nil
  BY <1>1, Below, NilNotAddr
<1>3. z \in L /\ lf[z] = Nil /\ (\A a \in L : z \in sub[a] => a = z \/ z \in Under(sub, lf[a]))
  BY <1>1 DEF First
<1>4. /\ x \in L \cup {Nil} /\ p \in L \cup {Header} /\ (x # Nil => pa[x] = z)
      /\ p = Header => z = pa[Header]
      /\ z \notin Under(sub, rt[z]) /\ sub[z] = {z} \cup Under(sub, lf[z]) \cup Under(sub, rt[z])
  BY <1>1, <1>3 DEF Tied
<1>5. \A n \in L : n \in sub[n]
  BY <1>1, Below
<1>6. x # Nil => x # z
  BY <1>4, <1>5 DEF Under
<1>7. \A n \in L : co[n] = Red => co[pa[n]] # Red
  <2>1. \A n \in L : n # Nil /\ pa[n] # Nil
    BY <1>1, <1>2 DEF Tied
  <2>2. QED BY <2>1, <1>1 DEF RedFree
<1>8. x # Nil => lf[x] = Nil /\ rt[x] = Nil /\ co[x] = Red /\ co[z] = Black
  <2>1. ASSUME x # Nil PROVE lf[x] = Nil /\ rt[x] = Nil /\ co[x] = Red
    <3>0. x \in L
      BY <2>1, <1>4
    <3>1. /\ h \in [L -> Nat]
          /\ \A n \in L : /\ h[n] = Bk(co, n) + H(h, lf[n]) + Gap(Nil, n)
                          /\ h[n] = Bk(co, n) + H(h, rt[n]) + Gap(Nil, n)
      BY <1>1 DEF Heights
    <3>2. Gap(Nil, z) = 0 /\ Gap(Nil, x) = 0 /\ H(h, lf[z]) = 0 /\ H(h, rt[z]) = h[x] /\ Bk(co, z) \in Nat /\ h[x] \in Nat
      BY <2>1, <1>2, <1>3, <3>0, <3>1 DEF Gap, H, Bk
    <3>3. h[x] = 0
      <4>1. h[z] = Bk(co, z) + 0 + 0 /\ h[z] = Bk(co, z) + h[x] + 0
        BY <3>1, <3>2, <1>3
      <4>2. QED BY <4>1, <3>2
    <3>4. lf[x] \in L \cup {Nil} /\ rt[x] \in L \cup {Nil} /\ (lf[x] # Nil => pa[lf[x]] = x) /\ (rt[x] # Nil => pa[rt[x]] = x)
      BY <3>0, <1>1 DEF Tied
    <3>5. Bk(co, x) \in Nat /\ H(h, lf[x]) \in Nat /\ H(h, rt[x]) \in Nat
      BY <3>1, <3>4 DEF Bk, H
    <3>6. h[x] = Bk(co, x) + H(h, lf[x]) + 0 /\ h[x] = Bk(co, x) + H(h, rt[x]) + 0
      BY <3>0, <3>1, <3>2
    <3>7. Bk(co, x) = 0 /\ H(h, lf[x]) = 0 /\ H(h, rt[x]) = 0
      BY <3>3, <3>5, <3>6
    <3>8. co[x] = Red
      BY <3>0, <3>7, <1>1, <1>2 DEF Bk
    <3>9. ASSUME NEW c \in {lf[x], rt[x]}, c # Nil PROVE FALSE
      <4>1. c \in L /\ pa[c] = x /\ h[c] = 0
        BY <3>9, <3>4, <3>7 DEF H
      <4>2. co[c] = Black
        BY <4>1, <3>8, <1>7, <1>1, <1>2
      <4>3. lf[c] \in L \cup {Nil}
        BY <4>1, <1>1 DEF Tied
      <4>4. Bk(co, c) = 1 /\ H(h, lf[c]) \in Nat /\ Gap(Nil, c) = 0
        BY <4>1, <4>2, <4>3, <3>1, <1>2 DEF Bk, H, Gap
      <4>5. h[c] = 1 + H(h, lf[c]) + 0
        BY <4>1, <4>4, <3>1
      <4>6. QED BY <4>1, <4>4, <4>5
    <3>10. QED BY <3>8, <3>9
  <2>2. ASSUME x # Nil PROVE co[z] = Black
    BY <2>1, <2>2, <1>1, <1>2, <1>3, <1>4, <1>7
  <2>3. QED BY <2>1, <2>2
<1>9. p = Header => z = pa[Header] /\ co[z] = Black
  BY <1>1, <1>2, <1>3, <1>4, <1>7
<1>10. p # Header => p \in L /\ p # z /\ pa[p] # z /\ lf[p] = z /\ rt[p] # z /\ z # pa[Header]
  <2>1. ASSUME p # Header PROVE p \in L /\ z \in sub[p] /\ z # pa[Header] /\ (z = lf[p] \/ z = rt[p])
    BY <2>1, <1>1, <1>2, <1>3, Parents
  <2>2. ASSUME p # Header PROVE p # z
    BY <2>1, <2>2, <1>2, <1>3, <1>6
  <2>3. ASSUME p # Header PROVE z \in Under(sub, lf[p]) /\ Under(sub, lf[p]) \cap Under(sub, rt[p]) = {}
    BY <2>1, <2>2, <2>3, <1>3, <1>1 DEF Tied
  <2>4. ASSUME p # Header PROVE lf[p] = z /\ rt[p] # z
    BY <2>1, <2>3, <2>4, <1>2, <1>3, <1>5 DEF Under
  <2>5. ASSUME p # Header, pa[p] = z PROVE FALSE
    <3>1. p = lf[z] \/ p = rt[z]
      BY <2>1, <2>5, <1>1, <1>2, <1>3 DEF Tied
    <3>2. Cardinality(sub[p]) < Cardinality(sub[z]) /\ Cardinality(sub[z]) < Cardinality(sub[p])
      BY <3>1, <2>1, <2>5, <1>1, <1>2, <1>3, Below
    <3>3. Cardinality(sub[p]) \in Nat /\ Cardinality(sub[z]) \in Nat
      BY <2>1, <2>5, <1>1, <1>3, Below
    <3>4. QED BY <3>2, <3>3
  <2>6. QED BY <2>1, <2>2, <2>4, <2>5
<1>11. p = Header /\ x = Nil <=> L = {z}
  <2>1. ASSUME p = Header, x = Nil PROVE L = {z}
    <3>1. sub[z] = L
      BY <2>1, <1>9, <1>1, <1>2, <1>3 DEF Tied
    <3>2. Under(sub, lf[z]) = {} /\ Under(sub, rt[z]) = {}
      BY <2>1, <1>3 DEF Under
    <3>3. QED BY <3>1, <3>2, <1>4
  <2>2. ASSUME L = {z} PROVE p = Header /\ x = Nil
    BY <2>2, <1>4, <1>6, <1>10
  <2>3. QED BY <2>1, <2>2
<1>12. rt[Header] \in L /\ rt[rt[Header]] = Nil /\ \A a \in L : rt[Header] \in sub[a] => a = rt[Header] \/ rt[Header] \in Under(sub, rt[a])
  BY <1>1 DEF First
<1>13. L # {z} => rt[Header] # z
  <2>1. ASSUME L # {z}, rt[Header] = z PROVE FALSE
    <3>1. x = Nil
      BY <2>1, <1>12
    <3>2. p # Header
      BY <3>1, <2>1, <1>11
    <3>3. PICK r : r = pa[Header]
      OBVIOUS
    <3>4. r \in L /\ r # z /\ sub[r] = L /\ Under(sub, lf[r]) \cap Under(sub, rt[r]) = {}
      <4>1. p \in L /\ z # pa[Header] /\ Nil \notin L
        BY <3>2, <1>10, <1>2
      <4>2. r \in L /\ r # z
        BY <4>1, <3>3, <1>1 DEF Tied
      <4>3. r # Nil
        BY ONLY <4>1, <4>2
      <4>4. sub[r] = L /\ Under(sub, lf[r]) \cap Under(sub, rt[r]) = {}
        BY <4>2, <4>3, <3>3, <1>1 DEF Tied
      <4>5. QED BY ONLY <4>2, <4>4
    <3>5. z \in Under(sub, lf[r]) /\ z \in Under(sub, rt[r])
      BY <3>4, <2>1, <1>3, <1>12
    <3>6. QED BY <3>4, <3>5
  <2>2. QED BY <2>1
<1>14. L = {z} => rt[Header] = z
  BY <1>12
<1>15. x # Nil => x # p
  <2>1. ASSUME x # Nil, x = p PROVE FALSE
    BY <2>1, <1>2, <1>4, <1>10
  <2>2. QED BY <2>1
<1>16. QED BY <1>2, <1>3, <1>4, <1>6, <1>8, <1>9, <1>10, <1>11, <1>13, <1>14, <1>15 DEF AtFirst

\* The writes that take z out are those functions.
LEMMA UnhungWrites ==
    ASSUME NEW pa, NEW lf, NEW rt, NEW co, NEW L, NEW sub, Tied(pa, lf, rt, L, sub), NEW z, NEW x, NEW p,
           AtFirst(pa, lf, rt, co, L, sub, z, x, p)
    PROVE  Unhung(pa, lf, rt, x, p, UnhungParents(pa, x, p), UnhungLeft(lf, x, p), UnhungRight(rt, x, p))
<1>1. Nil \notin L /\ Header \notin L /\ L \subseteq Addr /\ Header \in Addr /\ Header # Nil /\ Nil \notin Addr
  BY Below, NilNotAddr
<1>2. pa \in [Addr -> Addr \cup {Nil}] /\ lf \in [Addr -> Addr \cup {Nil}] /\ rt \in [Addr -> Addr \cup {Nil}]
  BY DEF Tied, Links
<1>3. (x # Nil => x \in L) /\ (p # Header => p \in L)
  BY DEF AtFirst
<1>4. UnhungParents(pa, x, p) = [a \in Addr |-> IF a = x THEN p ELSE IF a = Header /\ p = Header THEN x ELSE pa[a]]
  <2>1. CASE x = Nil
    BY <1>1, <1>2, <2>1 DEF UnhungParents
  <2>2. CASE x # Nil
    BY <1>1, <1>2, <1>3, <2>2 DEF UnhungParents
  <2>3. QED BY <2>1, <2>2
<1>5. UnhungLeft(lf, x, p) = [a \in Addr |-> IF a = Header THEN IF x = Nil THEN p ELSE x ELSE IF a = p THEN x ELSE lf[a]]
  <2>1. CASE p = Header
    BY <1>1, <1>2, <2>1 DEF UnhungLeft
  <2>2. CASE p # Header
    BY <1>1, <1>2, <1>3, <2>2 DEF UnhungLeft
  <2>3. QED BY <2>1, <2>2
<1>6. UnhungRight(rt, x, p) = [a \in Addr |-> IF a = Header /\ p = Header /\ x = Nil THEN Nil ELSE rt[a]]
  BY <1>1, <1>2 DEF UnhungRight
<1>7. QED BY <1>4, <1>5, <1>6 DEF Unhung

\* A recursive function whose every value comes from the one before by g is an orbit of g.
LEMMA FollowsOrbit ==
    ASSUME NEW S, NEW g, \A e \in S : g[e] \in S, NEW a \in S, NEW n \in Nat, NEW r, Follows(r, g, S, a, n)
    PROVE  r \in [0..n -> S] /\ Orbit(r, g, a, n)
<1>1. /\ r = [k \in 0..n |-> r[k]]
      /\ r[0] = a
      /\ \A k \in 0..n - 1 : r[k] \in S => r[k + 1] = g[r[k]]
  BY DEF Follows
<1> DEFINE T == {k \in Nat : k <= n => r[k] \in S}
<1>2. 0 \in T
  BY <1>1
<1>3. ASSUME NEW k \in Nat, k \in T PROVE k + 1 \in T
  <2>1. SUFFICES ASSUME k + 1 <= n PROVE r[k + 1] \in S
    OBVIOUS
  <2>2. r[k] \in S /\ k \in 0..n - 1
    BY <2>1, <1>3
  <2>3. QED BY <2>2, <1>1
<1>4. Nat \subseteq T
  <2> HIDE DEF T
  <2> QED BY <1>2, <1>3, SetInduction
<1>5. \A k \in 0..n : r[k] \in S
  BY <1>4
<1>6. r \in [0..n -> S]
  BY <1>1, <1>5
<1>7. Orbit(r, g, a, n)
  <2>1. ASSUME NEW k \in 0..n - 1 PROVE r[k + 1] = g[r[k]]
    <3>1. k \in 0..n
      OBVIOUS
    <3>2. QED BY <3>1, <1>1, <1>5
  <2>2. QED BY <2>1, <1>1 DEF Orbit
<1>8. QED BY <1>6, <1>7

\* Extreme is the end of the walk along side s.
LEMMA ExtremeIs ==
    ASSUME NEW t, NEW s, NEW sd, t[s] = sd, sd \in [Addr -> Addr \cup {Nil}], NEW x \in Addr,
           NEW N, N = Cardinality(Node)
    PROVE  N \in Nat /\ \E f \in [0..N + 1 -> Addr] : Orbit(f, Ahead(sd), x, N + 1) /\ Extreme(t, x, s) = f[N]
<1>1. N \in Nat /\ Steps = 0..N + 1
  BY FS_CardinalityType, Addresses DEF Steps
<1>2. PICK g : g = Ahead(sd)
  OBVIOUS
<1>3. \A a \in Addr : g[a] \in Addr /\ g[a] = IF sd[a] = Nil THEN a ELSE sd[a]
  BY <1>2 DEF Ahead
<1>4. N + 1 \in Nat
  BY <1>1
<1>5. PICK f \in [0..N + 1 -> Addr] : Solves(f, g, x, N + 1)
  BY <1>3, <1>4, SolutionExists
<1> DEFINE walk == CHOOSE w : w = [i \in Steps |-> IF i = 0 THEN x ELSE IF t[s][w[i - 1]] = Nil THEN w[i - 1] ELSE t[s][w[i - 1]]]
<1>6. f = [i \in Steps |-> IF i = 0 THEN x ELSE IF t[s][f[i - 1]] = Nil THEN f[i - 1] ELSE t[s][f[i - 1]]]
  <2>1. ASSUME NEW i \in 0..N + 1 PROVE f[i] = IF i = 0 THEN x ELSE IF sd[f[i - 1]] = Nil THEN f[i - 1] ELSE sd[f[i - 1]]
    <3>1. f[i] = IF i = 0 THEN x ELSE g[f[i - 1]]
      BY <1>5 DEF Solves
    <3>2. i # 0 => i - 1 \in 0..N + 1
      BY <1>1
    <3>3. i # 0 => f[i - 1] \in Addr
      BY <3>2, <1>5
    <3>4. QED BY <3>1, <3>3, <1>3
  <2>2. f = [i \in 0..N + 1 |-> f[i]]
    BY <1>5
  <2>3. QED BY <2>1, <2>2, <1>1
<1>7. PICK w : w = walk
  OBVIOUS
<1>8. w = [i \in Steps |-> IF i = 0 THEN x ELSE IF t[s][w[i - 1]] = Nil THEN w[i - 1] ELSE t[s][w[i - 1]]]
  <2>1. \E v : v = [i \in Steps |-> IF i = 0 THEN x ELSE IF t[s][v[i - 1]] = Nil THEN v[i - 1] ELSE t[s][v[i - 1]]]
    BY ONLY <1>6
  <2>2. QED BY ONLY <2>1, <1>7
<1> HIDE DEF walk
<1>9. \A i \in 0..N + 1 : w[i] = IF i = 0 THEN x ELSE IF sd[w[i - 1]] = Nil THEN w[i - 1] ELSE sd[w[i - 1]]
  <2>1. \A i \in Steps : w[i] = IF i = 0 THEN x ELSE IF t[s][w[i - 1]] = Nil THEN w[i - 1] ELSE t[s][w[i - 1]]
    BY ONLY <1>8
  <2>2. QED BY <2>1, <1>1
<1>10. Follows(w, g, Addr, x, N + 1)
  <2>1. w = [i \in 0..N + 1 |-> w[i]]
    BY ONLY <1>1, <1>8
  <2>2. w[0] = x
    BY <1>1, <1>9
  <2>3. ASSUME NEW k \in 0..(N + 1) - 1, w[k] \in Addr PROVE w[k + 1] = g[w[k]]
    <3>1. k + 1 \in 0..N + 1 /\ k + 1 # 0 /\ (k + 1) - 1 = k
      BY <1>1
    <3>2. w[k + 1] = IF sd[w[k]] = Nil THEN w[k] ELSE sd[w[k]]
      BY ONLY <3>1, <1>9
    <3>3. QED BY <3>2, <2>3, <1>3
  <2>4. QED BY <2>1, <2>2, <2>3 DEF Follows
<1>11. w \in [0..N + 1 -> Addr] /\ Orbit(w, g, x, N + 1)
  BY ONLY <1>3, <1>4, <1>10, x \in Addr, FollowsOrbit
<1>12. Extreme(t, x, s) = w[N]
  BY <1>7 DEF Extreme, walk
<1>13. QED BY <1>1, <1>2, <1>11, <1>12

\* A step of the walk stays on the spine.
LEMMA StepSpine ==
    ASSUME NEW pa, NEW lf, NEW rt, NEW L, NEW sub, Tied(pa, lf, rt, L, sub), NEW c \in L, NEW e \in L, e \in sub[c],
           \A a \in L : a \in sub[c] /\ e \in sub[a] => a = e \/ e \in Under(sub, rt[a]),
           NEW d, d = rt[e], d # Nil
    PROVE  d \in L /\ d \in sub[c] /\ \A a \in L : a \in sub[c] /\ d \in sub[a] => a = d \/ d \in Under(sub, rt[a])
<1>1. d \in L /\ sub[d] \subseteq sub[e] /\ d \in sub[d]
  BY Below
<1>2. sub[e] \subseteq sub[c]
  BY Nested
<1>3. ASSUME NEW a \in L, a \in sub[c], d \in sub[a] PROVE a = d \/ d \in Under(sub, rt[a])
  <2>1. a = d \/ e \in sub[a]
    BY ONLY Tied(pa, lf, rt, L, sub), e \in L, d \in {lf[e], rt[e]}, d # Nil, a \in L, d \in sub[a], d = rt[e], <1>3, Climbing
  <2>2. CASE a = e
    BY <2>2, <1>1 DEF Under
  <2>3. CASE e \in sub[a] /\ a # e
    <3>1. e \in Under(sub, rt[a])
      BY <2>3, <1>3
    <3>2. rt[a] # Nil /\ e \in sub[rt[a]] /\ rt[a] \in L
      BY <3>1, Below DEF Under
    <3>3. sub[e] \subseteq sub[rt[a]]
      BY <3>2, Nested
    <3>4. QED BY <3>2, <3>3, <1>1 DEF Under
  <2>4. QED BY <2>1, <2>2, <2>3
<1>4. QED BY <1>1, <1>2, <1>3

\* Extreme finds it.
LEMMA ExtremeSpine ==
    ASSUME NEW pa, NEW lf, NEW rt, NEW L, NEW sub, Tied(pa, lf, rt, L, sub), NEW c \in L,
           NEW t, NEW s, t[s] = rt
    PROVE  Spine(rt, L, sub, c, Extreme(t, c, s))
<1>1. rt \in [Addr -> Addr \cup {Nil}] /\ L \subseteq Addr /\ Nil \notin Addr /\ Nil \notin L
  BY Below, NilNotAddr DEF Tied, Links
<1>2. PICK N : N = Cardinality(Node)
  OBVIOUS
<1>3. N \in Nat /\ \E f \in [0..N + 1 -> Addr] : Orbit(f, Ahead(rt), c, N + 1) /\ Extreme(t, c, s) = f[N]
  <2>1. c \in Addr
    BY <1>1
  <2>2. rt \in [Addr -> Addr \cup {Nil}]
    BY <1>1
  <2>3. QED BY ONLY <2>1, <2>2, <1>2, t[s] = rt, ExtremeIs
<1>4. PICK f \in [0..N + 1 -> Addr] : Orbit(f, Ahead(rt), c, N + 1) /\ Extreme(t, c, s) = f[N]
  BY <1>3
<1>5. f[0] = c /\ \A k \in 0..N : f[k + 1] = IF rt[f[k]] = Nil THEN f[k] ELSE rt[f[k]]
  <2>1. f[0] = c /\ \A k \in 0..N : f[k + 1] = Ahead(rt)[f[k]]
    BY <1>3, <1>4 DEF Orbit
  <2>2. \A k \in 0..N : f[k] \in Addr
    BY <1>3
  <2>3. QED BY <2>1, <2>2 DEF Ahead
<1>6. Cardinality(L) \in Nat /\ Cardinality(L) <= N
  <2>1. L \subseteq Node /\ IsFiniteSet(Node)
    BY Below, Addresses
  <2>2. QED BY ONLY <2>1, <1>2, FS_Subset, FS_CardinalityType
<1> DEFINE On(e) == /\ e \in L /\ e \in sub[c]
                    /\ \A a \in L : a \in sub[c] /\ e \in sub[a] => a = e \/ e \in Under(sub, rt[a])
           Soon(e, i) == rt[e] = Nil \/ Cardinality(sub[e]) + i <= N
           T == {i \in Nat : i <= N => On(f[i]) /\ Soon(f[i], i)}
<1>7. ASSUME NEW e, On(e) PROVE rt[e] # Nil => On(rt[e])
  <2> SUFFICES ASSUME rt[e] # Nil PROVE On(rt[e])
    OBVIOUS
  <2>1. PICK d : d = rt[e]
    OBVIOUS
  <2>2. On(d)
    BY <1>7, <2>1, StepSpine
  <2>3. QED BY <2>1, <2>2
<1>8. On(c)
  <2>1. c \in sub[c]
    BY Below
  <2>2. ASSUME NEW a \in L, a \in sub[c], c \in sub[a], a # c PROVE FALSE
    <3>1. sub[a] \subseteq sub[c] /\ sub[c] \subseteq sub[a]
      BY <2>2, Nested
    <3>2. sub[a] = sub[c] /\ sub[a] = {a} \cup Under(sub, lf[a]) \cup Under(sub, rt[a])
      BY <3>1 DEF Tied
    <3>3. PICK d \in {lf[a], rt[a]} : d # Nil /\ c \in sub[d]
      BY <2>2, <3>2 DEF Under
    <3>4. d \in L /\ Cardinality(sub[d]) < Cardinality(sub[a])
      BY <3>3, Below
    <3>5. sub[c] \subseteq sub[d]
      BY <3>3, <3>4, Nested
    <3>6. sub[d] \subseteq sub[a]
      BY <3>3, Below
    <3>7. sub[d] = sub[a]
      BY <3>1, <3>5, <3>6
    <3>8. Cardinality(sub[a]) \in Nat
      BY Below
    <3>9. QED BY <3>4, <3>7, <3>8
  <2>3. QED BY <2>1, <2>2
<1>9. 0 \in T
  <2>1. Cardinality(sub[c]) \in Nat /\ Cardinality(sub[c]) <= Cardinality(L)
    BY Below
  <2>2. QED BY <2>1, <1>3, <1>5, <1>6, <1>8
<1>10. ASSUME NEW i \in Nat, i \in T PROVE i + 1 \in T
  <2>1. SUFFICES ASSUME i + 1 <= N PROVE On(f[i + 1]) /\ Soon(f[i + 1], i + 1)
    OBVIOUS
  <2>2. PICK e : e = f[i]
    OBVIOUS
  <2>3. On(e) /\ Soon(e, i) /\ f[i + 1] = IF rt[e] = Nil THEN e ELSE rt[e]
    BY <2>1, <2>2, <1>3, <1>5, <1>10
  <2>4. CASE rt[e] = Nil
    BY <2>3, <2>4
  <2>5. CASE rt[e] # Nil
    <3>1. rt[e] \in L /\ Cardinality(sub[rt[e]]) < Cardinality(sub[e])
      BY <2>3, <2>5, Below
    <3>2. Cardinality(sub[e]) \in Nat /\ Cardinality(sub[rt[e]]) \in Nat
      BY <2>3, <3>1, Below
    <3>3. Soon(rt[e], i + 1)
      BY <2>3, <2>5, <3>1, <3>2, <1>3
    <3>4. On(rt[e])
      BY <2>3, <2>5, <1>7
    <3>5. QED BY <2>3, <2>5, <3>3, <3>4
  <2>6. QED BY <2>4, <2>5
<1>11. Nat \subseteq T
  <2> HIDE DEF T
  <2> QED BY <1>9, <1>10, SetInduction
<1>12. On(f[N]) /\ Soon(f[N], N)
  BY <1>3, <1>11
<1>13. rt[f[N]] = Nil
  <2>1. ASSUME rt[f[N]] # Nil PROVE FALSE
    <3>1. PICK e : e = f[N]
      OBVIOUS
    <3>2. rt[e] \in L /\ Cardinality(sub[rt[e]]) < Cardinality(sub[e])
      BY <2>1, <3>1, <1>12, Below
    <3>3. Cardinality(sub[e]) \in Nat /\ Cardinality(sub[rt[e]]) \in Nat
      BY <3>1, <3>2, <1>12, Below
    <3>4. Cardinality(sub[e]) + N <= N
      BY <2>1, <3>1, <1>12
    <3>5. QED BY <3>2, <3>3, <3>4, <1>3
  <2>2. QED BY <2>1
<1>14. QED BY <1>4, <1>12, <1>13 DEF Spine

\* There is one.
LEMMA SpineUnique ==
    ASSUME NEW pa, NEW lf, NEW rt, NEW L, NEW sub, Tied(pa, lf, rt, L, sub), NEW c \in L, NEW e, NEW d,
           Spine(rt, L, sub, c, e), Spine(rt, L, sub, c, d)
    PROVE  e = d
<1>1. /\ e \in L /\ e \in sub[c] /\ rt[e] = Nil /\ \A a \in L : a \in sub[c] /\ e \in sub[a] => a = e \/ e \in Under(sub, rt[a])
      /\ d \in L /\ d \in sub[c] /\ rt[d] = Nil /\ \A a \in L : a \in sub[c] /\ d \in sub[a] => a = d \/ d \in Under(sub, rt[a])
  BY DEF Spine
<1>2. PICK a \in L : /\ e \in sub[a] /\ d \in sub[a]
                     /\ ~ (e \in Under(sub, lf[a]) /\ d \in Under(sub, lf[a]))
                     /\ ~ (e \in Under(sub, rt[a]) /\ d \in Under(sub, rt[a]))
  BY <1>1, Meet
<1>3. a \in sub[c]
  <2>1. a \in sub[c] \/ c \in sub[a]
    BY ONLY Tied(pa, lf, rt, L, sub), a \in L, c \in L, <1>1, <1>2, Chain
  <2>2. ASSUME c \in sub[a], c # a PROVE FALSE
    <3>1. sub[a] = {a} \cup Under(sub, lf[a]) \cup Under(sub, rt[a])
      BY DEF Tied
    <3>2. PICK b \in {lf[a], rt[a]} : b # Nil /\ c \in sub[b]
      BY <2>2, <3>1 DEF Under
    <3>3. b \in L
      BY <3>2, Below
    <3>4. sub[c] \subseteq sub[b]
      BY <3>2, <3>3, Nested
    <3>5. e \in sub[b] /\ d \in sub[b]
      BY <3>4, <1>1
    <3>6. QED BY <3>2, <3>5, <1>2 DEF Under
  <2>3. c \in sub[c]
    BY Below
  <2>4. QED BY <2>1, <2>2, <2>3
<1>4. (a = e \/ e \in Under(sub, rt[a])) /\ (a = d \/ d \in Under(sub, rt[a]))
  BY <1>1, <1>2, <1>3
<1>5. QED BY <1>1, <1>2, <1>4 DEF Under

\* The walk ends at the node that ends the spine.
LEMMA FirstIsExtreme ==
    ASSUME NEW pa, NEW lf, NEW rt, NEW L, NEW sub, Tied(pa, lf, rt, L, sub), NEW c \in L,
           NEW t, NEW s, t[s] = rt, NEW e, First(rt, L, sub, e), e \in sub[c]
    PROVE  Extreme(t, c, s) = e
<1>1. Spine(rt, L, sub, c, e)
  BY DEF First, Spine
<1>2. Spine(rt, L, sub, c, Extreme(t, c, s))
  BY ExtremeSpine
<1>3. QED BY <1>1, <1>2, SpineUnique

\* The links without z,
LEMMA OutLinksHold ==
    ASSUME NEW pa, NEW lf, NEW rt, NEW co, NEW L, NEW sub, NEW z, NEW x, NEW p, NEW pb, NEW lg, NEW rg, NEW M, NEW sb,
           FirstOut(pa, lf, rt, co, L, sub, z, x, p, pb, lg, rg, M, sb)
    PROVE  OutLinks(pa, lf, rt, x, p, pb, lg, rg, M)
<1>1. Tied(pa, lf, rt, L, sub) /\ AtFirst(pa, lf, rt, co, L, sub, z, x, p) /\ Unhung(pa, lf, rt, x, p, pb, lg, rg) /\ M = L \ {z}
  BY DEF FirstOut
<1>2. Nil \notin L /\ Header \notin L /\ L \subseteq Addr /\ Header \in Addr /\ Header # Nil /\ Nil \notin Addr
  BY <1>1, Below, NilNotAddr
<1>3. pa \in [Addr -> Addr \cup {Nil}] /\ lf \in [Addr -> Addr \cup {Nil}] /\ rt \in [Addr -> Addr \cup {Nil}]
  BY <1>1 DEF Tied, Links
<1>4. (x # Nil => x \in L) /\ (p # Header => p \in L) /\ (p = Header /\ x = Nil <=> L = {z})
  BY <1>1 DEF AtFirst
<1>5. /\ \A a \in Addr : pb[a] = IF a = x THEN p ELSE IF a = Header /\ p = Header THEN x ELSE pa[a]
      /\ \A a \in Addr : lg[a] = IF a = Header THEN IF x = Nil THEN p ELSE x ELSE IF a = p THEN x ELSE lf[a]
      /\ \A a \in Addr : rg[a] = IF a = Header /\ p = Header /\ x = Nil THEN Nil ELSE rt[a]
  BY <1>1 DEF Unhung
<1>6. Links(pb, lg, rg)
  <2>1. p \in Addr /\ x \in Addr \cup {Nil}
    BY <1>2, <1>4
  <2>2. pb \in [Addr -> Addr \cup {Nil}]
    BY <1>1, <1>3, <2>1 DEF Unhung
  <2>3. lg \in [Addr -> Addr \cup {Nil}]
    BY <1>1, <1>3, <2>1 DEF Unhung
  <2>4. rg \in [Addr -> Addr \cup {Nil}]
    BY <1>1, <1>3, <2>1 DEF Unhung
  <2>5. QED BY <2>2, <2>3, <2>4 DEF Links
<1>7. x # Nil => pb[x] = p
  BY <1>2, <1>4, <1>5
<1>8. \A m \in M : m # x => pb[m] = pa[m]
  BY <1>1, <1>2, <1>5
<1>9. pb[Header] = IF p = Header THEN x ELSE pa[Header]
  BY <1>2, <1>4, <1>5
<1>10. p # Header => lg[p] = x
  BY <1>2, <1>4, <1>5
<1>11. \A m \in M : m # p => lg[m] = lf[m]
  BY <1>1, <1>2, <1>5
<1>12. lg[Header] = IF x = Nil THEN p ELSE x
  BY <1>2, <1>5
<1>13. \A m \in M : rg[m] = rt[m]
  BY <1>1, <1>2, <1>5
<1>14. M # {} => rg[Header] = rt[Header]
  <2>1. M # {} => L # {z}
    BY <1>1
  <2>2. QED BY <2>1, <1>2, <1>4, <1>5
<1>15. QED BY <1>6, <1>7, <1>8, <1>9, <1>10, <1>11, <1>12, <1>13, <1>14 DEF OutLinks

\* what is below the nodes,
LEMMA OutUnderHolds ==
    ASSUME NEW pa, NEW lf, NEW rt, NEW co, NEW L, NEW sub, NEW z, NEW x, NEW p, NEW pb, NEW lg, NEW rg, NEW M, NEW sb,
           FirstOut(pa, lf, rt, co, L, sub, z, x, p, pb, lg, rg, M, sb)
    PROVE  OutUnder(lf, rt, L, sub, z, lg, rg, M, sb)
<1>1. Tied(pa, lf, rt, L, sub) /\ AtFirst(pa, lf, rt, co, L, sub, z, x, p) /\ M = L \ {z} /\ sb = UnhungSub(sub, L, z)
  BY DEF FirstOut
<1>2. OutLinks(pa, lf, rt, x, p, pb, lg, rg, M)
  BY OutLinksHold
<1>3. Nil \notin L /\ Header \notin L
  BY <1>1, Below
<1>4. /\ z \in L /\ z = lf[Header] /\ x = rt[z] /\ p = pa[z] /\ lf[z] = Nil
      /\ x # Nil => x \in L /\ x # z /\ pa[x] = z
      /\ p # Header => p \in L /\ p # z /\ lf[p] = z /\ rt[p] # z
  BY <1>1 DEF AtFirst
<1>5. \A m \in L : /\ lf[m] \in L \cup {Nil} /\ rt[m] \in L \cup {Nil} /\ sub[m] \subseteq L
                   /\ (lf[m] # Nil => pa[lf[m]] = m) /\ (rt[m] # Nil => pa[rt[m]] = m)
  BY <1>1 DEF Tied
<1>6. \A m \in M : sb[m] = sub[m] \ {z}
  BY <1>1 DEF UnhungSub
<1>7. sb \in [M -> SUBSET M]
  BY <1>1, <1>5 DEF UnhungSub
<1>8. \A c \in M \cup {Nil} : Under(sb, c) = Under(sub, c) \ {z}
  BY <1>1, <1>3, <1>6 DEF Under
<1>9. Under(sub, x) = Under(sub, z) \ {z}
  <2>1. sub[z] = {z} \cup Under(sub, lf[z]) \cup Under(sub, rt[z]) /\ z \notin Under(sub, rt[z])
    BY <1>1, <1>4 DEF Tied
  <2>2. Under(sub, lf[z]) = {} /\ Under(sub, z) = sub[z]
    BY <1>3, <1>4 DEF Under
  <2>3. QED BY <2>1, <2>2, <1>4
<1>10. ASSUME NEW m \in M PROVE Under(sb, rg[m]) = Under(sub, rt[m]) \ {z}
  <2>1. rg[m] = rt[m]
    BY <1>2 DEF OutLinks
  <2>2. rt[m] # z
    BY <1>1, <1>3, <1>4, <1>5
  <2>3. rt[m] \in M \cup {Nil}
    BY <2>2, <1>1, <1>5
  <2>4. QED BY <2>1, <2>3, <1>8
<1>11. ASSUME NEW m \in M PROVE Under(sb, lg[m]) = Under(sub, lf[m]) \ {z}
  <2>1. CASE m = p
    <3>1. m # Header /\ lf[m] = z
      BY <2>1, <1>1, <1>4, Below
    <3>2. lg[m] = x
      BY <2>1, <3>1, <1>2 DEF OutLinks
    <3>3. x \in M \cup {Nil}
      BY <1>1, <1>4
    <3>4. Under(sb, x) = Under(sub, x)
      BY <3>3, <1>8, <1>9
    <3>5. QED BY <3>1, <3>2, <3>4, <1>9
  <2>2. CASE m # p
    <3>1. lg[m] = lf[m]
      BY <2>2, <1>2 DEF OutLinks
    <3>2. lf[m] # z
      BY <2>2, <1>1, <1>3, <1>4, <1>5
    <3>3. lf[m] \in M \cup {Nil}
      BY <3>2, <1>1, <1>5
    <3>4. QED BY <3>1, <3>3, <1>8
  <2>3. QED BY <2>1, <2>2
<1>12. QED BY <1>6, <1>7, <1>10, <1>11 DEF OutUnder

\* and that the links agree.
LEMMA OutTied ==
    ASSUME NEW pa, NEW lf, NEW rt, NEW co, NEW L, NEW sub, NEW z, NEW x, NEW p, NEW pb, NEW lg, NEW rg, NEW M, NEW sb,
           FirstOut(pa, lf, rt, co, L, sub, z, x, p, pb, lg, rg, M, sb)
    PROVE  Tied(pb, lg, rg, M, sb)
<1>1. Tied(pa, lf, rt, L, sub) /\ AtFirst(pa, lf, rt, co, L, sub, z, x, p) /\ M = L \ {z}
  BY DEF FirstOut
<1>2. /\ x # Nil => pb[x] = p
      /\ \A m \in M : m # x => pb[m] = pa[m]
      /\ pb[Header] = IF p = Header THEN x ELSE pa[Header]
      /\ p # Header => lg[p] = x
      /\ \A m \in M : m # p => lg[m] = lf[m]
      /\ \A m \in M : rg[m] = rt[m]
      /\ Links(pb, lg, rg)
  BY OutLinksHold DEF OutLinks
<1>3. /\ sb \in [M -> SUBSET M]
      /\ \A m \in M : sb[m] = sub[m] \ {z} /\ Under(sb, lg[m]) = Under(sub, lf[m]) \ {z} /\ Under(sb, rg[m]) = Under(sub, rt[m]) \ {z}
  BY OutUnderHolds DEF OutUnder
<1>4. Nil \notin L /\ Header \notin L /\ Header # Nil
  BY <1>1, Below, NilNotAddr
<1>5. /\ z \in L /\ z = lf[Header] /\ x = rt[z] /\ p = pa[z] /\ lf[z] = Nil
      /\ x # Nil => x \in L /\ x # z /\ x # p /\ pa[x] = z
      /\ p = Header => z = pa[Header]
      /\ p # Header => p \in L /\ p # z /\ pa[p] # z /\ lf[p] = z /\ rt[p] # z /\ z # pa[Header]
      /\ p = Header /\ x = Nil <=> L = {z}
  BY <1>1 DEF AtFirst
<1>6. /\ L \subseteq Node /\ pa[Header] \in L \cup {Nil}
      /\ pa[Header] # Nil => pa[pa[Header]] = Header /\ sub[pa[Header]] = L
      /\ pa[Header] = Nil <=> L = {}
  BY <1>1 DEF Tied
<1>7. \A m \in L : /\ pa[m] \in L \cup {Header} /\ lf[m] \in L \cup {Nil} /\ rt[m] \in L \cup {Nil}
                   /\ pa[m] = Header => m = pa[Header]
                   /\ pa[m] # Header => lf[pa[m]] = m \/ rt[pa[m]] = m
                   /\ lf[m] # Nil => pa[lf[m]] = m
                   /\ rt[m] # Nil => pa[rt[m]] = m
                   /\ sub[m] = {m} \cup Under(sub, lf[m]) \cup Under(sub, rt[m])
                   /\ m \notin Under(sub, lf[m]) \cup Under(sub, rt[m])
                   /\ Under(sub, lf[m]) \cap Under(sub, rt[m]) = {}
  BY <1>1 DEF Tied
<1>8. pb[Header] \in M \cup {Nil} /\ (pb[Header] = Nil <=> M = {})
  <2>1. CASE p = Header
    BY <2>1, <1>1, <1>2, <1>5
  <2>2. CASE p # Header
    BY <2>2, <1>1, <1>2, <1>4, <1>5, <1>6
  <2>3. QED BY <2>1, <2>2
<1>9. pb[Header] # Nil => pb[pb[Header]] = Header /\ sb[pb[Header]] = M
  <2>1. CASE p = Header /\ x # Nil
    <3>1. pb[Header] = x /\ pb[x] = Header
      BY <2>1, <1>2
    <3>2. sub[z] = L /\ Under(sub, lf[z]) = {} /\ Under(sub, rt[z]) = sub[x]
      BY <2>1, <1>4, <1>5, <1>6 DEF Under
    <3>3. sub[x] \ {z} = M
      BY <3>2, <1>1, <1>5, <1>7
    <3>4. QED BY <3>1, <3>3, <2>1, <1>1, <1>3, <1>5
  <2>2. CASE p # Header
    <3>1. pb[Header] = pa[Header] /\ pa[Header] \in M /\ pa[Header] # x
      BY <2>2, <1>1, <1>2, <1>4, <1>5, <1>6
    <3>2. QED BY <3>1, <1>1, <1>2, <1>3, <1>4, <1>6
  <2>3. CASE p = Header /\ x = Nil
    BY <2>3, <1>2
  <2>4. QED BY <2>1, <2>2, <2>3
<1>10. ASSUME NEW m \in M
       PROVE  /\ pb[m] \in M \cup {Header} /\ (pb[m] = Header => m = pb[Header])
              /\ pb[m] # Header => lg[pb[m]] = m \/ rg[pb[m]] = m
  <2>1. CASE m = x
    BY <2>1, <1>1, <1>2, <1>4, <1>5
  <2>2. CASE m # x
    <3>1. pb[m] = pa[m] /\ m \in L /\ m # z
      BY <2>2, <1>1, <1>2
    <3>2. pa[m] # z
      BY <2>2, <3>1, <1>4, <1>5, <1>7
    <3>3. pa[m] = Header => m = pb[Header]
      BY <3>1, <1>2, <1>5, <1>7
    <3>4. ASSUME pa[m] # Header PROVE lg[pa[m]] = m \/ rg[pa[m]] = m
      <4>1. pa[m] \in M /\ (lf[pa[m]] = m \/ rt[pa[m]] = m)
        BY <3>1, <3>2, <3>4, <1>1, <1>7
      <4>2. lf[pa[m]] = m => pa[m] # p
        BY <3>1, <3>4, <1>5
      <4>3. QED BY <4>1, <4>2, <1>2
    <3>5. QED BY <3>1, <3>2, <3>3, <3>4, <1>1, <1>7
  <2>3. QED BY <2>1, <2>2
<1>11. ASSUME NEW m \in M
       PROVE  lg[m] \in M \cup {Nil} /\ (lg[m] # Nil => pb[lg[m]] = m)
  <2>1. CASE m = p
    <3>1. m # Header
      BY <2>1, <1>1, <1>4
    <3>2. lg[m] = x
      BY <2>1, <3>1, <1>2
    <3>3. QED BY <2>1, <3>2, <1>1, <1>2, <1>5
  <2>2. CASE m # p
    <3>1. lg[m] = lf[m] /\ m \in L /\ m # z
      BY <2>2, <1>1, <1>2
    <3>2. lf[m] # Nil => lf[m] # z /\ lf[m] # x /\ lf[m] \in M /\ pa[lf[m]] = m
      BY <2>2, <3>1, <1>1, <1>4, <1>5, <1>7
    <3>3. QED BY <3>1, <3>2, <1>2
  <2>3. QED BY <2>1, <2>2
<1>12. ASSUME NEW m \in M
       PROVE  rg[m] \in M \cup {Nil} /\ (rg[m] # Nil => pb[rg[m]] = m)
  <2>1. rg[m] = rt[m] /\ m \in L /\ m # z
    BY <1>1, <1>2
  <2>2. rt[m] # Nil => rt[m] \in L /\ pa[rt[m]] = m
    BY <2>1, <1>7
  <2>3. rt[m] # Nil => rt[m] # z
    BY <2>1, <2>2, <1>4, <1>5
  <2>4. rt[m] # Nil => rt[m] # x
    BY <2>1, <2>2, <1>5
  <2>5. QED BY <2>1, <2>2, <2>3, <2>4, <1>1, <1>2
<1>13. ASSUME NEW m \in M
       PROVE  /\ sb[m] = {m} \cup Under(sb, lg[m]) \cup Under(sb, rg[m])
              /\ m \notin Under(sb, lg[m]) \cup Under(sb, rg[m])
              /\ Under(sb, lg[m]) \cap Under(sb, rg[m]) = {}
  <2>1. m \in L /\ m # z
    BY <1>1
  <2>2. /\ sub[m] = {m} \cup Under(sub, lf[m]) \cup Under(sub, rt[m])
        /\ m \notin Under(sub, lf[m]) \cup Under(sub, rt[m])
        /\ Under(sub, lf[m]) \cap Under(sub, rt[m]) = {}
    BY <2>1, <1>7
  <2>3. QED BY <2>1, <2>2, <1>3
<1>14. M \subseteq Node
  BY <1>1, <1>6
<1>15. QED BY <1>2, <1>3, <1>8, <1>9, <1>10, <1>11, <1>12, <1>13, <1>14 DEF Tied

\* Two nodes are not below each other.
LEMMA NotBoth ==
    ASSUME NEW pa, NEW lf, NEW rt, NEW L, NEW sub, Tied(pa, lf, rt, L, sub), NEW a \in L, NEW c \in L, a \in sub[c], c \in sub[a]
    PROVE  a = c
<1> SUFFICES ASSUME a # c PROVE FALSE
  OBVIOUS
<1>1. sub[a] \subseteq sub[c] /\ sub[c] \subseteq sub[a]
  BY Nested
<1>2. sub[a] = sub[c] /\ sub[a] = {a} \cup Under(sub, lf[a]) \cup Under(sub, rt[a])
  <2>1. sub[a] = sub[c]
    BY ONLY <1>1
  <2>2. sub[a] = {a} \cup Under(sub, lf[a]) \cup Under(sub, rt[a])
    BY DEF Tied
  <2>3. QED BY ONLY <2>1, <2>2
<1>3. PICK d \in {lf[a], rt[a]} : d # Nil /\ c \in sub[d]
  BY <1>2 DEF Under
<1>4. d \in L /\ Cardinality(sub[d]) < Cardinality(sub[a]) /\ sub[d] \subseteq sub[a]
  BY <1>3, Below
<1>5. sub[c] \subseteq sub[d]
  BY <1>3, <1>4, Nested
<1>6. sub[d] = sub[a]
  BY <1>1, <1>4, <1>5
<1>7. Cardinality(sub[a]) \in Nat
  BY Below
<1>8. QED BY <1>4, <1>6, <1>7

\* What holds a child on one side holds what is below the child there too.
LEMMA Side1 ==
    ASSUME NEW pa, NEW lf, NEW rt, NEW L, NEW sub, Tied(pa, lf, rt, L, sub), NEW a \in L, NEW n, NEW m,
           n \in L, m \in sub[n]
    PROVE  (n \in Under(sub, lf[a]) => m \in Under(sub, lf[a])) /\ (n \in Under(sub, rt[a]) => m \in Under(sub, rt[a]))
<1>1. ASSUME NEW d \in {lf[a], rt[a]}, n \in Under(sub, d) PROVE m \in Under(sub, d)
  <2>1. d # Nil /\ n \in sub[d]
    BY <1>1 DEF Under
  <2>2. d \in L
    BY <2>1, Below
  <2>3. sub[n] \subseteq sub[d]
    BY <2>1, <2>2, Nested
  <2>4. QED BY <2>1, <2>3 DEF Under
<1>2. QED BY <1>1

\* Both ends are known again.
LEMMA OutFirst ==
    ASSUME NEW pa, NEW lf, NEW rt, NEW co, NEW L, NEW sub, NEW z, NEW x, NEW p, NEW pb, NEW lg, NEW rg, NEW M, NEW sb,
           FirstOut(pa, lf, rt, co, L, sub, z, x, p, pb, lg, rg, M, sb),
           First(lf, L, sub, lf[Header]), First(rt, L, sub, rt[Header]), M # {}
    PROVE  First(lg, M, sb, lg[Header]) /\ First(rg, M, sb, rg[Header])
<1>1. Tied(pa, lf, rt, L, sub) /\ AtFirst(pa, lf, rt, co, L, sub, z, x, p) /\ M = L \ {z}
  BY DEF FirstOut
<1>2. /\ p # Header => lg[p] = x
      /\ \A m \in M : m # p => lg[m] = lf[m]
      /\ lg[Header] = IF x = Nil THEN p ELSE x
      /\ \A m \in M : rg[m] = rt[m]
      /\ rg[Header] = rt[Header]
  BY OutLinksHold DEF OutLinks
<1>3. \A m \in M : sb[m] = sub[m] \ {z} /\ Under(sb, lg[m]) = Under(sub, lf[m]) \ {z} /\ Under(sb, rg[m]) = Under(sub, rt[m]) \ {z}
  BY OutUnderHolds DEF OutUnder
<1>4. /\ z \in L /\ z = lf[Header] /\ x = rt[z] /\ p = pa[z] /\ lf[z] = Nil
      /\ x # Nil => x \in L /\ x # z /\ x # p /\ pa[x] = z /\ lf[x] = Nil
      /\ p # Header => p \in L /\ p # z /\ lf[p] = z
      /\ p = Header /\ x = Nil <=> L = {z}
      /\ L # {z} => rt[Header] # z
  BY <1>1 DEF AtFirst
<1>5. Nil \notin L /\ Header \notin L /\ \A m \in L : m \in sub[m] /\ sub[m] \subseteq L
  BY <1>1, Below
<1>6. \A a \in L : z \in sub[a] => a = z \/ z \in Under(sub, lf[a])
  BY <1>4 DEF First
<1>7. First(lg, M, sb, lg[Header])
  <2>1. CASE x # Nil
    <3>1. lg[Header] = x /\ x \in M /\ lg[x] = Nil
      BY <2>1, <1>1, <1>2, <1>4
    <3>2. ASSUME NEW a \in M, x \in sb[a] PROVE a = x \/ x \in Under(sb, lg[a])
      <4>1. a \in L /\ a # z /\ x \in sub[a]
        BY <3>2, <1>1, <1>3
      <4>2. x \in {lf[z], rt[z]} /\ x \in L
        BY <2>1, <1>4
      <4>3. a = x \/ z \in sub[a]
        <5>1. Tied(pa, lf, rt, L, sub) /\ z \in L /\ x \in {lf[z], rt[z]} /\ x # Nil /\ a \in L /\ x \in sub[a]
          BY <1>1, <1>4, <2>1, <4>1, <4>2
        <5>2. QED BY ONLY <5>1, Climbing
      <4>4. ASSUME z \in sub[a] PROVE x \in Under(sub, lf[a])
        <5>1. z \in Under(sub, lf[a])
          BY <4>1, <4>4, <1>6
        <5>2. x \in sub[z]
          BY <2>1, <1>1, <1>4, <1>5, Below
        <5>3. QED BY ONLY <1>1, <4>1, <5>1, <5>2, <1>4, Side1
      <4>5. QED BY <4>3, <4>4, <1>3, <1>4, <2>1
    <3>3. QED BY <3>1, <3>2 DEF First
  <2>2. CASE x = Nil
    <3>1. lg[Header] = p /\ p # Header /\ p \in M /\ lg[p] = Nil
      BY <2>2, <1>1, <1>2, <1>4
    <3>2. ASSUME NEW a \in M, p \in sb[a] PROVE a = p \/ p \in Under(sb, lg[a])
      <4>1. SUFFICES ASSUME a # p PROVE p \in Under(sb, lg[a])
        OBVIOUS
      <4>2. a \in L /\ a # z /\ p \in sub[a] /\ p \in L /\ p # z /\ lf[p] = z
        BY <3>1, <3>2, <1>1, <1>3, <1>4
      <4>3. p \in Under(sub, lf[a]) \/ p \in Under(sub, rt[a])
        BY <4>1, <4>2, <1>1 DEF Tied
      <4>4. z \in sub[p]
        BY <4>2, <1>1, <1>4, <1>5, Below
      <4>5. p \in Under(sub, rt[a]) => z \in Under(sub, rt[a])
        BY ONLY <1>1, <4>2, <4>4, Side1
      <4>6. z \in sub[a]
        BY <4>2, <4>4, <1>1, Nested
      <4>7. z \in Under(sub, lf[a])
        BY <4>2, <4>6, <1>6
      <4>8. Under(sub, lf[a]) \cap Under(sub, rt[a]) = {}
        BY <4>2, <1>1 DEF Tied
      <4>9. p \in Under(sub, lf[a])
        BY <4>3, <4>5, <4>7, <4>8
      <4>10. QED BY <4>2, <4>9, <1>3
    <3>3. QED BY <3>1, <3>2 DEF First
  <2>3. QED BY <2>1, <2>2
<1>8. First(rg, M, sb, rg[Header])
  <2>1. PICK e : e = rt[Header]
    OBVIOUS
  <2>2. e \in L /\ rt[e] = Nil /\ \A a \in L : e \in sub[a] => a = e \/ e \in Under(sub, rt[a])
    BY <2>1 DEF First
  <2>3. e # z /\ e \in M
    BY <2>1, <2>2, <1>1, <1>4
  <2>4. rg[Header] = e /\ rg[e] = Nil
    BY <2>1, <2>2, <2>3, <1>2
  <2>5. ASSUME NEW a \in M, e \in sb[a] PROVE a = e \/ e \in Under(sb, rg[a])
    BY <2>2, <2>3, <2>5, <1>1, <1>3
  <2>6. QED BY <2>3, <2>4, <2>5 DEF First
<1>9. QED BY <1>7, <1>8

\* The tree without its first node: a black is missing above x if z had it.
LEMMA FineUnhung ==
    ASSUME NEW pa, NEW lf, NEW rt, NEW co, NEW key, NEW L, NEW sub, NEW h,
           Fine(pa, lf, rt, co, key, L, sub, h, Nil, Nil, Nil), L # {},
           NEW z, NEW x, NEW p, AtFirst(pa, lf, rt, co, L, sub, z, x, p),
           NEW pb, NEW lg, NEW rg, Unhung(pa, lf, rt, x, p, pb, lg, rg),
           NEW M, M = L \ {z}, NEW cp, cp = Mended(co, x),
           NEW k, k = IF co[z] = Black /\ x = Nil /\ p # Header THEN p ELSE Nil
    PROVE  FineWithout(pb, lg, rg, cp, key, M, k, p)
<1>1. /\ Tied(pa, lf, rt, L, sub) /\ RedFree(pa, co, L, Nil, Nil) /\ co \in [Addr -> {Red, Black}] /\ co[Header] = Red
      /\ Heights(lf, rt, co, L, h, Nil, Nil) /\ Sorted(key, lf, rt, L, sub) /\ key \in [Node -> Int]
      /\ First(lf, L, sub, lf[Header]) /\ First(rt, L, sub, rt[Header])
  BY DEF Fine
<1>2. PICK sb, hb : sb = UnhungSub(sub, L, z) /\ hb = UnhungBlacks(h, L, z, x)
  OBVIOUS
<1>3. FirstOut(pa, lf, rt, co, L, sub, z, x, p, pb, lg, rg, M, sb)
  BY <1>1, <1>2 DEF FirstOut
<1>4. Tied(pb, lg, rg, M, sb)
  BY <1>3, OutTied
<1>5. /\ x # Nil => pb[x] = p
      /\ \A m \in M : m # x => pb[m] = pa[m]
      /\ pb[Header] = IF p = Header THEN x ELSE pa[Header]
      /\ p # Header => lg[p] = x
      /\ \A m \in M : m # p => lg[m] = lf[m]
      /\ \A m \in M : rg[m] = rt[m]
      /\ lg[Header] = IF x = Nil THEN p ELSE x
  BY <1>3, OutLinksHold DEF OutLinks
<1>6. \A m \in M : sb[m] = sub[m] \ {z} /\ Under(sb, lg[m]) = Under(sub, lf[m]) \ {z} /\ Under(sb, rg[m]) = Under(sub, rt[m]) \ {z}
  BY <1>3, OutUnderHolds DEF OutUnder
<1>7. /\ z \in L /\ z = lf[Header] /\ x = rt[z] /\ p = pa[z] /\ lf[z] = Nil
      /\ x # Nil => x \in L /\ x # z /\ x # p /\ pa[x] = z /\ lf[x] = Nil /\ rt[x] = Nil /\ co[x] = Red /\ co[z] = Black
      /\ p # Header => p \in L /\ p # z /\ lf[p] = z /\ rt[p] # z
  BY DEF AtFirst
<1>8. Nil \notin L /\ Header \notin L /\ L \subseteq Addr /\ Header \in Addr /\ Header # Nil
  BY <1>1, Below, NilNotAddr
<1>9. Sorted(key, lg, rg, M, sb)
  <2>1. ASSUME NEW m \in M
        PROVE  /\ \A j \in Under(sb, lg[m]) : key[j] <= key[m]
               /\ \A j \in Under(sb, rg[m]) : key[m] <= key[j]
    BY <1>1, <1>6 DEF Sorted
  <2>2. QED BY <2>1 DEF Sorted
<1>10. M # {} => First(lg, M, sb, lg[Header]) /\ First(rg, M, sb, rg[Header])
  <2>1. First(lf, L, sub, lf[Header]) /\ First(rt, L, sub, rt[Header])
    BY <1>1
  <2>2. QED BY ONLY <1>3, <2>1, OutFirst
<1>11. /\ cp \in [Addr -> {Red, Black}] /\ cp[Header] = Red /\ (x # Nil => cp[x] = Black)
       /\ \A m \in L \cup {Header} : m # x => cp[m] = co[m]
  <2>1. CASE x = Nil
    BY <2>1, <1>1 DEF Mended
  <2>2. CASE x # Nil
    <3>1. x \in Addr /\ x # Header /\ cp = [co EXCEPT ![x] = Black]
      BY <2>2, <1>7, <1>8 DEF Mended
    <3>2. QED BY ONLY <3>1, <1>1, <1>8
  <2>3. QED BY <2>1, <2>2
<1>12. Heights(lg, rg, cp, M, hb, k, Nil)
  <2>1. /\ h \in [L -> Nat]
        /\ \A n \in L : /\ h[n] = Bk(co, n) + H(h, lf[n]) + Gap(Nil, n)
                        /\ h[n] = Bk(co, n) + H(h, rt[n]) + Gap(Nil, n)
    BY <1>1 DEF Heights
  <2>2. /\ hb \in [M -> Nat]
        /\ \A m \in M : hb[m] = IF m = x THEN 1 ELSE h[m]
    BY <1>2, <2>1 DEF UnhungBlacks
  <2>3. \A n \in L : Gap(Nil, n) = 0 /\ lf[n] \in L \cup {Nil} /\ rt[n] \in L \cup {Nil}
                     /\ (lf[n] # Nil => pa[lf[n]] = n) /\ (rt[n] # Nil => pa[rt[n]] = n)
    BY <1>1, <1>8 DEF Gap, Tied
  <2>4. h[z] = IF co[z] = Black THEN 1 ELSE 0
    BY <1>7, <2>1, <2>3 DEF Bk, H
  <2>5. ASSUME NEW n \in M
        PROVE  /\ hb[n] = Bk(cp, n) + H(hb, lg[n]) + Gap(k, n)
               /\ hb[n] = Bk(cp, n) + H(hb, rg[n]) + Gap(Nil, n)
    <3>0. n \in L /\ n # z /\ n # Header /\ n # Nil
      BY <1>8
    <3>1. CASE n = x
      <4>1. lg[x] = Nil /\ rg[x] = Nil /\ x # Nil
        BY <3>0, <3>1, <1>5, <1>7
      <4>2. H(hb, lg[x]) = 0 /\ H(hb, rg[x]) = 0 /\ Bk(cp, x) = 1 /\ Gap(k, x) = 0 /\ Gap(Nil, x) = 0
        BY <3>0, <3>1, <4>1, <1>7, <1>11 DEF H, Bk, Gap
      <4>3. QED BY <3>1, <4>2, <2>2
    <3>2. CASE n # x
      <4>1. hb[n] = h[n] /\ Bk(cp, n) = Bk(co, n)
        BY <3>0, <3>2, <2>2, <1>11 DEF Bk
      <4>2. h[n] = Bk(co, n) + H(h, lf[n]) + 0 /\ h[n] = Bk(co, n) + H(h, rt[n]) + 0
        BY <3>0, <2>1, <2>3
      <4>3. H(hb, rg[n]) = H(h, rt[n])
        <5>1. rt[n] # Nil => rt[n] \in M /\ rt[n] # x
          BY <3>0, <2>3, <1>7
        <5>2. QED BY <5>1, <1>5, <2>2 DEF H
      <4>4. CASE n = p
        <5>1. lf[n] = z /\ lg[n] = x
          BY <3>0, <4>4, <1>5, <1>7
        <5>2. H(h, lf[n]) = IF co[z] = Black THEN 1 ELSE 0
          BY <5>1, <1>7, <1>8, <2>4 DEF H
        <5>3. H(hb, x) = IF x = Nil THEN 0 ELSE 1
          BY <1>7, <2>2 DEF H
        <5>4. Gap(k, n) = IF co[z] = Black /\ x = Nil THEN 1 ELSE 0
          BY <3>0, <4>4 DEF Gap
        <5>5. H(hb, lg[n]) + Gap(k, n) = H(h, lf[n])
          BY <5>1, <5>2, <5>3, <5>4, <1>7
        <5>6. Bk(co, n) \in Nat /\ H(hb, lg[n]) \in Nat /\ Gap(k, n) \in Nat /\ Gap(Nil, n) = 0
          BY <3>0, <5>1, <5>3, <5>4, <2>3 DEF Bk
        <5>7. QED BY <4>1, <4>2, <4>3, <5>5, <5>6
      <4>5. CASE n # p
        <5>1. lf[n] # Nil => lf[n] \in M /\ lf[n] # x
          BY <3>0, <4>5, <2>3, <1>7
        <5>2. H(hb, lg[n]) = H(h, lf[n])
          BY <4>5, <5>1, <1>5, <2>2 DEF H
        <5>3. Gap(k, n) = 0 /\ Gap(Nil, n) = 0
          BY <3>0, <4>5 DEF Gap
        <5>4. QED BY <4>1, <4>2, <4>3, <5>2, <5>3
      <4>6. QED BY <4>4, <4>5
    <3>3. QED BY <3>1, <3>2
  <2>6. QED BY <2>2, <2>5 DEF Heights
<1>13. RedFree(pb, cp, M, Nil, Nil)
  <2>1. \A n \in L : pa[n] \in L \cup {Header} /\ (n # pa[Header] => lf[pa[n]] = n \/ rt[pa[n]] = n)
    BY <1>1, <1>8 DEF Tied
  <2>2. ASSUME NEW n \in M, cp[n] = Red, cp[pb[n]] = Red PROVE FALSE
    <3>1. n \in L /\ n # x /\ n # Nil
      BY <2>2, <1>8, <1>11 DEF Red, Black
    <3>2. pb[n] = pa[n] /\ pa[n] \in L \cup {Header} /\ pa[n] # Nil
      BY <3>1, <2>1, <1>5, <1>8
    <3>3. pa[n] # x
      BY <2>2, <3>2, <1>8, <1>7, <1>11 DEF Red, Black
    <3>4. co[n] = Red /\ co[pa[n]] = Red
      BY <2>2, <3>1, <3>2, <3>3, <1>11
    <3>5. QED BY <3>1, <3>2, <3>4, <1>1 DEF RedFree
  <2>3. QED BY <2>2 DEF RedFree
<1>14. Fine(pb, lg, rg, cp, key, M, sb, hb, k, Nil, Nil)
  BY <1>1, <1>4, <1>9, <1>10, <1>11, <1>12, <1>13 DEF Fine
<1>15. ASSUME p # Header PROVE lg[Header] \in sb[p]
  <2>1. p \in M /\ lg[p] = x
    BY <1>15, <1>5, <1>7
  <2>2. p \in sb[p] /\ (x # Nil => x \in M /\ x \in sb[x] /\ sb[x] \subseteq sb[p])
    BY <2>1, <1>4, <1>7, Below
  <2>3. QED BY <2>2, <1>5
<1>16. QED BY <1>14, <1>15 DEF FineWithout

\* The walk from a node without a child on that side.
LEMMA LeafExtreme ==
    ASSUME NEW t, NEW s, NEW sd, t[s] = sd, sd \in [Addr -> Addr \cup {Nil}], NEW x \in Addr, sd[x] = Nil
    PROVE  Extreme(t, x, s) = x
<1>1. PICK N : N = Cardinality(Node)
  OBVIOUS
<1>2. N \in Nat /\ \E f \in [0..N + 1 -> Addr] : Orbit(f, Ahead(sd), x, N + 1) /\ Extreme(t, x, s) = f[N]
  BY <1>1, ExtremeIs
<1>3. PICK f \in [0..N + 1 -> Addr] : Orbit(f, Ahead(sd), x, N + 1) /\ Extreme(t, x, s) = f[N]
  BY <1>2
<1>4. f[0] = x /\ \A k \in 0..N : f[k + 1] = Ahead(sd)[f[k]]
  BY <1>2, <1>3 DEF Orbit
<1>5. Ahead(sd)[x] = x
  BY DEF Ahead
<1> DEFINE T == {i \in Nat : i <= N => f[i] = x}
<1>6. 0 \in T
  BY <1>4
<1>7. ASSUME NEW i \in Nat, i \in T PROVE i + 1 \in T
  BY <1>2, <1>4, <1>5, <1>7
<1>8. Nat \subseteq T
  <2> HIDE DEF T
  <2> QED BY <1>6, <1>7, SetInduction
<1>9. QED BY <1>2, <1>3, <1>8

\* Transplant() at the first node,
LEMMA TransplantFirst ==
    ASSUME NEW t, NEW pa, NEW lf, NEW rt, NEW co, Fields(t, pa, lf, rt, co),
           NEW L, NEW sub, NEW z, NEW x, NEW p, AtFirst(pa, lf, rt, co, L, sub, z, x, p)
    PROVE  Fields(Transplant(t, z, x), UnhungParents(pa, x, p), CutLeft(lf, x, p), UnhungRight(rt, x, p), co)
<1>1. t = [parent |-> pa, left |-> lf, right |-> rt, color |-> co] /\ t.parent = pa /\ t.left = lf /\ t.right = rt /\ t.color = co
  BY DEF Fields
<1>2. /\ z = lf[Header] /\ p = pa[z]
      /\ pa[p] = z /\ co[z] = Black <=> p = Header
      /\ p # Header => lf[p] = z /\ rt[p] # z
      /\ p = Header => (x = Nil <=> rt[Header] = z)
  BY DEF AtFirst
<1>3. PICK q, l, r :
         /\ q = IF p = Header THEN [pa EXCEPT ![Header] = x] ELSE pa
         /\ l = IF ~ (rt[p] = z) /\ lf[p] = z THEN [lf EXCEPT ![p] = x] ELSE lf
         /\ r = IF rt[p] = z THEN [rt EXCEPT ![p] = x] ELSE rt
  OBVIOUS
<1>4. Transplant(t, z, x) = [parent |-> IF x = Nil THEN q ELSE [q EXCEPT ![x] = p], left |-> l, right |-> r, color |-> co]
  BY ONLY <1>1, <1>2, <1>3 DEF Transplant
<1>5. l = CutLeft(lf, x, p)
  BY <1>2, <1>3 DEF CutLeft
<1>6. r = UnhungRight(rt, x, p)
  BY <1>2, <1>3 DEF UnhungRight
<1>7. (IF x = Nil THEN q ELSE [q EXCEPT ![x] = p]) = UnhungParents(pa, x, p)
  BY <1>3 DEF UnhungParents
<1>8. QED BY ONLY <1>4, <1>5, <1>6, <1>7 DEF Fields

\* and Unlink() there, with the header's left link.
LEMMA UnlinkFirst ==
    ASSUME NEW t, NEW pa, NEW lf, NEW rt, NEW co, Fields(t, pa, lf, rt, co),
           NEW L, NEW sub, Tied(pa, lf, rt, L, sub), NEW z, NEW x, NEW p, AtFirst(pa, lf, rt, co, L, sub, z, x, p)
    PROVE  /\ \E pb, lg, rg : Fields(Unlink(t, z).t, pb, lg, rg, co) /\ Unhung(pa, lf, rt, x, p, pb, lg, rg)
           /\ Unlink(t, z).x = x /\ Unlink(t, z).x_parent = p /\ Unlink(t, z).lost = co[z]
<1>1. t.parent = pa /\ t.left = lf /\ t.right = rt /\ t.color = co
  BY DEF Fields
<1>2. /\ z \in L /\ z = lf[Header] /\ x = rt[z] /\ p = pa[z] /\ lf[z] = Nil
      /\ x # Nil => x \in L /\ x # z /\ x # p /\ lf[x] = Nil
      /\ p # Header => p \in L
  BY DEF AtFirst
<1>3. lf \in [Addr -> Addr \cup {Nil}] /\ L \subseteq Addr /\ Header \in Addr /\ Header \notin L /\ z # Nil
  BY <1>2, Below, NilNotAddr DEF Tied, Links
<1>4. PICK s : s = Transplant(t, z, x)
  OBVIOUS
<1>5. Fields(s, UnhungParents(pa, x, p), CutLeft(lf, x, p), UnhungRight(rt, x, p), co)
  BY <1>4, TransplantFirst
<1>6. /\ s = [parent |-> UnhungParents(pa, x, p), left |-> CutLeft(lf, x, p), right |-> UnhungRight(rt, x, p), color |-> co]
      /\ s.left = CutLeft(lf, x, p) /\ s["left"] = CutLeft(lf, x, p)
  BY <1>5 DEF Fields
<1>7. Unlink(t, z) = [t |-> IF LeftMost(s) # z THEN s ELSE [s EXCEPT !.left[Header] = IF x = Nil THEN p ELSE Minimum(s, x)],
                      x |-> x, x_parent |-> p, lost |-> co[z]]
  BY <1>1, <1>2, <1>4 DEF Unlink, UnlinkNoLeft
<1>8. PICK u : u = Unlink(t, z).t
  OBVIOUS
<1>9. u = IF LeftMost(s) # z THEN s ELSE [s EXCEPT !.left[Header] = IF x = Nil THEN p ELSE Minimum(s, x)]
  BY <1>7, <1>8
<1>10. Fields(u, UnhungParents(pa, x, p), UnhungLeft(lf, x, p), UnhungRight(rt, x, p), co)
  <2>1. CASE p = Header /\ x = Nil
    <3>1. s.left = lf /\ LeftMost(s) = z
      BY <2>1, <1>2, <1>6 DEF CutLeft, LeftMost
    <3>2. u = [s EXCEPT !.left[Header] = p]
      BY <2>1, <3>1, <1>9
    <3>3. u = [parent |-> UnhungParents(pa, x, p), left |-> [lf EXCEPT ![Header] = p], right |-> UnhungRight(rt, x, p), color |-> co]
      BY <3>1, <3>2, <1>6
    <3>4. QED BY <2>1, <3>3 DEF Fields, UnhungLeft
  <2>2. CASE p = Header /\ x # Nil
    <3>1. s.left = [lf EXCEPT ![p] = x] /\ LeftMost(s) = x
      BY <2>2, <1>3, <1>6 DEF CutLeft, LeftMost
    <3>2. u = s
      BY <2>2, <3>1, <1>2, <1>9
    <3>3. QED BY <2>2, <3>1, <3>2, <1>6 DEF Fields, UnhungLeft
  <2>3. CASE p # Header
    <3>1. s.left = [lf EXCEPT ![p] = x] /\ LeftMost(s) = z
      BY <2>3, <1>2, <1>3, <1>6 DEF CutLeft, LeftMost
    <3>2. x # Nil => Minimum(s, x) = x
      <4>1. SUFFICES ASSUME x # Nil PROVE Minimum(s, x) = x
        OBVIOUS
      <4>2. PICK sd : sd = [lf EXCEPT ![p] = x]
        OBVIOUS
      <4>3. sd \in [Addr -> Addr \cup {Nil}] /\ x \in Addr /\ sd[x] = Nil /\ s["left"] = sd
        <5>1. x \in L /\ x # p /\ lf[x] = Nil
          BY <4>1, <1>2
        <5>2. s["left"] = sd
          BY <2>3, <4>2, <1>6 DEF CutLeft
        <5>3. QED BY <5>1, <5>2, <4>2, <1>3
      <4>4. Extreme(s, x, "left") = x
        BY ONLY <4>3, LeafExtreme
      <4>5. QED BY <4>4 DEF Minimum
    <3>3. u = [s EXCEPT !.left[Header] = IF x = Nil THEN p ELSE x]
      BY <3>1, <3>2, <1>9
    <3>4. u = [parent |-> UnhungParents(pa, x, p), left |-> [[lf EXCEPT ![p] = x] EXCEPT ![Header] = IF x = Nil THEN p ELSE x],
               right |-> UnhungRight(rt, x, p), color |-> co]
      <4>1. s = [parent |-> UnhungParents(pa, x, p), left |-> [lf EXCEPT ![p] = x], right |-> UnhungRight(rt, x, p), color |-> co]
        BY <2>3, <1>6 DEF CutLeft
      <4>2. QED BY ONLY <4>1, <3>3
    <3>5. QED BY <2>3, <3>4 DEF Fields, UnhungLeft
  <2>4. QED BY <2>1, <2>2, <2>3
<1>11. Unhung(pa, lf, rt, x, p, UnhungParents(pa, x, p), UnhungLeft(lf, x, p), UnhungRight(rt, x, p))
  BY UnhungWrites
<1>12. QED BY <1>7, <1>8, <1>10, <1>11

-----------------------------------------------------------------------------
(* The neighbours of a node.                                               *)

\* The parent of a node the climb passes.
LEMMA PassedUp ==
    ASSUME NEW pa, NEW lf, NEW rt, NEW L, NEW sub, Tied(pa, lf, rt, L, sub), NEW n \in L,
           NEW d \in L, n \in Under(sub, rt[d]), NEW m, m \in Passed(rt, L, sub, n)
    PROVE  /\ m \in L /\ pa[m] \in L /\ Cardinality(sub[m]) < Cardinality(sub[pa[m]])
           /\ lf[pa[m]] = m => pa[m] \in Passed(rt, L, sub, n)
           /\ lf[pa[m]] # m => Turn(rt, L, sub, n, pa[m]) /\ rt[pa[m]] = m
<1>1. m \in L /\ n \in sub[m] /\ \A a \in L : a \in sub[m] => n \notin Under(sub, rt[a])
  BY DEF Passed
<1>2. Nil \notin L /\ Header \notin L
  BY Below
<1>3. pa[m] \in L /\ (m = lf[pa[m]] \/ m = rt[pa[m]])
  <2>1. pa[m] # Header
    <3>1. ASSUME pa[m] = Header PROVE FALSE
      <4>1. sub[m] = L
        BY <3>1, <1>1, <1>2 DEF Tied
      <4>2. QED BY <4>1, <1>1
    <3>2. QED BY <3>1
  <2>2. QED BY <2>1, <1>1, <1>2, Parents
<1>4. Cardinality(sub[m]) < Cardinality(sub[pa[m]]) /\ sub[m] \subseteq sub[pa[m]]
  BY <1>1, <1>2, <1>3, Below
<1>5. PICK p : p = pa[m]
  OBVIOUS
<1>6. p \in L /\ n \in sub[p] /\ sub[p] = {p} \cup Under(sub, lf[p]) \cup Under(sub, rt[p]) /\ Under(sub, lf[p]) \cap Under(sub, rt[p]) = {}
  BY <1>1, <1>3, <1>4, <1>5 DEF Tied
<1>7. ASSUME lf[p] = m PROVE p \in Passed(rt, L, sub, n)
  <2>1. n \in Under(sub, lf[p])
    BY <1>7, <1>1, <1>2 DEF Under
  <2>2. ASSUME NEW a \in L, a \in sub[p], n \in Under(sub, rt[a]) PROVE FALSE
    <3>1. a # p
      BY <2>1, <2>2, <1>6
    <3>2. n \in sub[a]
      BY <2>2, <1>6 DEF Tied
    <3>3. CASE a \in Under(sub, lf[p])
      BY <3>3, <2>2, <1>1, <1>2, <1>7 DEF Under
    <3>4. CASE a \in Under(sub, rt[p])
      <4>0. Tied(pa, lf, rt, L, sub) /\ p \in L /\ a \in L /\ n \in sub[a] /\ a \in Under(sub, rt[p])
        BY <1>6, <2>2, <3>2, <3>4
      <4>1. n \in Under(sub, rt[p])
        BY ONLY <4>0, Side1
      <4>2. QED BY <4>1, <2>1, <1>6
    <3>5. QED BY <3>1, <3>3, <3>4, <2>2, <1>6
  <2>3. QED BY <2>2, <1>6 DEF Passed
<1>8. ASSUME lf[p] # m PROVE Turn(rt, L, sub, n, p) /\ rt[p] = m
  <2>1. rt[p] = m /\ n \in Under(sub, rt[p])
    BY <1>8, <1>1, <1>2, <1>3, <1>5 DEF Under
  <2>2. ASSUME NEW a \in L, n \in Under(sub, rt[a]) PROVE p \in sub[a]
    <3>1. n \in sub[a]
      BY <2>2 DEF Tied
    <3>2. a \in sub[p] \/ p \in sub[a]
      BY ONLY Tied(pa, lf, rt, L, sub), a \in L, <1>6, <3>1, Chain
    <3>3. ASSUME a \in sub[p], a # p PROVE FALSE
      <4>1. CASE a \in Under(sub, rt[p])
        BY <4>1, <2>1, <2>2, <1>1, <1>2 DEF Under
      <4>2. CASE a \in Under(sub, lf[p])
        <5>0. Tied(pa, lf, rt, L, sub) /\ p \in L /\ a \in L /\ n \in sub[a] /\ a \in Under(sub, lf[p])
          BY <1>6, <2>2, <3>1, <4>2
        <5>1. n \in Under(sub, lf[p])
          BY ONLY <5>0, Side1
        <5>2. QED BY <5>1, <2>1, <1>6
      <4>3. QED BY <4>1, <4>2, <3>3, <1>6
    <3>4. p \in sub[p]
      BY <1>6
    <3>5. QED BY <3>2, <3>3, <3>4
  <2>3. QED BY <2>1, <2>2, <1>6 DEF Turn
<1>9. QED BY <1>1, <1>3, <1>4, <1>5, <1>7, <1>8

\* Climb is the end of that walk.
LEMMA ClimbIs ==
    ASSUME NEW t, NEW s, NEW pa, NEW lf, t[s] = lf, t.parent = pa, NEW n, NEW S, <<n, pa[n]>> \in S,
           \A w \in S : Upward(S, pa, lf)[w] \in S, NEW N, N = Cardinality(Node)
    PROVE  /\ N \in Nat
           /\ \E f \in [0..N + 1 -> S] : Orbit(f, Upward(S, pa, lf), <<n, pa[n]>>, N + 1) /\ Climb(t, n, s) = f[N + 1]
<1>1. N \in Nat /\ Steps = 0..N + 1
  BY FS_CardinalityType, Addresses DEF Steps
<1>2. PICK g, x : g = Upward(S, pa, lf) /\ x = <<n, pa[n]>>
  OBVIOUS
<1>3. \A w \in S : g[w] \in S /\ g[w] = IF lf[w[2]] = w[1] THEN <<w[2], pa[w[2]]>> ELSE w
  BY <1>2 DEF Upward
<1>4. N + 1 \in Nat /\ x \in S
  BY <1>1, <1>2
<1>5. PICK f \in [0..N + 1 -> S] : Solves(f, g, x, N + 1)
  BY <1>3, <1>4, SolutionExists
<1> DEFINE walk == CHOOSE v : v = [i \in Steps |-> IF i = 0 THEN <<n, t.parent[n]>>
                                      ELSE IF t[s][v[i - 1][2]] = v[i - 1][1] THEN <<v[i - 1][2], t.parent[v[i - 1][2]]>> ELSE v[i - 1]]
<1>6. f = [i \in Steps |-> IF i = 0 THEN <<n, t.parent[n]>>
                           ELSE IF t[s][f[i - 1][2]] = f[i - 1][1] THEN <<f[i - 1][2], t.parent[f[i - 1][2]]>> ELSE f[i - 1]]
  <2>1. ASSUME NEW i \in 0..N + 1
        PROVE  f[i] = IF i = 0 THEN <<n, t.parent[n]>>
                      ELSE IF t[s][f[i - 1][2]] = f[i - 1][1] THEN <<f[i - 1][2], t.parent[f[i - 1][2]]>> ELSE f[i - 1]
    <3>1. f[i] = IF i = 0 THEN x ELSE g[f[i - 1]]
      BY <1>5 DEF Solves
    <3>2. i # 0 => i - 1 \in 0..N + 1
      BY <1>1
    <3>3. i # 0 => f[i - 1] \in S
      BY <3>2, <1>5
    <3>4. CASE i = 0
      BY <3>1, <3>4, <1>2
    <3>5. CASE i # 0
      <4>1. PICK w : w = f[i - 1]
        OBVIOUS
      <4>2. w \in S /\ f[i] = g[w]
        BY <3>1, <3>3, <3>5, <4>1
      <4>3. f[i] = IF lf[w[2]] = w[1] THEN <<w[2], pa[w[2]]>> ELSE w
        BY <4>2, <1>3
      <4>4. QED BY <4>1, <4>3, <3>5
    <3>6. QED BY <3>4, <3>5
  <2>2. f = [i \in 0..N + 1 |-> f[i]]
    BY <1>5
  <2>3. QED BY ONLY <2>1, <2>2, <1>1
<1>7. PICK v : v = walk
  OBVIOUS
<1>8. v = [i \in Steps |-> IF i = 0 THEN <<n, t.parent[n]>>
                           ELSE IF t[s][v[i - 1][2]] = v[i - 1][1] THEN <<v[i - 1][2], t.parent[v[i - 1][2]]>> ELSE v[i - 1]]
  <2>1. \E u : u = [i \in Steps |-> IF i = 0 THEN <<n, t.parent[n]>>
                                    ELSE IF t[s][u[i - 1][2]] = u[i - 1][1] THEN <<u[i - 1][2], t.parent[u[i - 1][2]]>> ELSE u[i - 1]]
    BY ONLY <1>6
  <2>2. QED BY ONLY <2>1, <1>7
<1> HIDE DEF walk
<1>9. \A i \in 0..N + 1 : v[i] = IF i = 0 THEN x ELSE IF lf[v[i - 1][2]] = v[i - 1][1] THEN <<v[i - 1][2], pa[v[i - 1][2]]>> ELSE v[i - 1]
  <2>1. \A i \in Steps : v[i] = IF i = 0 THEN <<n, t.parent[n]>>
                                ELSE IF t[s][v[i - 1][2]] = v[i - 1][1] THEN <<v[i - 1][2], t.parent[v[i - 1][2]]>> ELSE v[i - 1]
    BY ONLY <1>8
  <2>2. t[s] = lf /\ t.parent = pa
    OBVIOUS
  <2>3. QED BY ONLY <2>1, <2>2, <1>1, <1>2
<1>10. Follows(v, g, S, x, N + 1)
  <2>1. v = [i \in 0..N + 1 |-> v[i]]
    BY ONLY <1>1, <1>8
  <2>2. v[0] = x
    <3>1. 0 \in 0..N + 1
      BY <1>1
    <3>2. QED BY ONLY <3>1, <1>9
  <2>3. ASSUME NEW k \in 0..(N + 1) - 1, v[k] \in S PROVE v[k + 1] = g[v[k]]
    <3>1. k + 1 \in 0..N + 1 /\ k + 1 # 0 /\ (k + 1) - 1 = k
      BY <1>1
    <3>2. v[k + 1] = IF lf[v[k][2]] = v[k][1] THEN <<v[k][2], pa[v[k][2]]>> ELSE v[k]
      BY ONLY <3>1, <1>9
    <3>3. QED BY ONLY <3>2, <2>3, <1>3
  <2>4. QED BY <2>1, <2>2, <2>3 DEF Follows
<1>11. v \in [0..N + 1 -> S] /\ Orbit(v, g, x, N + 1)
  BY ONLY <1>3, <1>4, <1>10, FollowsOrbit
<1>12. Climb(t, n, s) = v[N + 1]
  <2>1. N + 1 = Cardinality(Node) + 1
    OBVIOUS
  <2>2. QED BY ONLY <2>1, <1>7 DEF Climb, walk
<1>13. QED BY <1>1, <1>2, <1>11, <1>12

\* The climb passes the node it starts at.
LEMMA PassedSelf ==
    ASSUME NEW pa, NEW lf, NEW rt, NEW L, NEW sub, Tied(pa, lf, rt, L, sub), NEW n \in L
    PROVE  n \in Passed(rt, L, sub, n)
<1>1. n \in sub[n] /\ n \notin Under(sub, rt[n])
  BY DEF Tied
<1>2. ASSUME NEW a \in L, a \in sub[n], n \in Under(sub, rt[a]) PROVE FALSE
  <2>1. n \in sub[a]
    BY <1>2 DEF Tied
  <2>2. Tied(pa, lf, rt, L, sub) /\ a \in L /\ n \in L /\ a \in sub[n] /\ n \in sub[a]
    BY <1>2, <2>1
  <2>3. a = n
    BY ONLY <2>2, NotBoth
  <2>4. QED BY <2>3, <1>1, <1>2
<1>3. QED BY <1>1, <1>2 DEF Passed

\* One step of the climb.
LEMMA AscentStep ==
    ASSUME NEW pa, NEW lf, NEW rt, NEW L, NEW sub, Tied(pa, lf, rt, L, sub), NEW n \in L,
           NEW d \in L, n \in Under(sub, rt[d]), NEW S, S = Ascent(pa, rt, L, sub, n), NEW w \in S
    PROVE  /\ w[1] \in L /\ w[2] = pa[w[1]] /\ w[2] \in L /\ w = <<w[1], w[2]>>
           /\ lf[w[2]] = w[1] => /\ <<w[2], pa[w[2]]>> \in S
                                /\ Cardinality(sub[w[1]]) < Cardinality(sub[w[2]])
           /\ lf[w[2]] # w[1] => Turn(rt, L, sub, n, w[2]) /\ rt[w[2]] = w[1]
<1>1. PICK m \in Passed(rt, L, sub, n) : w = <<m, pa[m]>>
  BY DEF Ascent
<1>2. /\ m \in L /\ pa[m] \in L /\ Cardinality(sub[m]) < Cardinality(sub[pa[m]])
      /\ lf[pa[m]] = m => pa[m] \in Passed(rt, L, sub, n)
      /\ lf[pa[m]] # m => Turn(rt, L, sub, n, pa[m]) /\ rt[pa[m]] = m
  BY <1>1, PassedUp
<1>3. lf[pa[m]] = m => <<pa[m], pa[pa[m]]>> \in S
  BY <1>2 DEF Ascent
<1>4. w[1] = m /\ w[2] = pa[m]
  BY <1>1
<1>5. QED BY <1>1, <1>2, <1>3, <1>4

\* Climb finds it.
LEMMA ClimbTurn ==
    ASSUME NEW pa, NEW lf, NEW rt, NEW L, NEW sub, Tied(pa, lf, rt, L, sub), NEW n \in L,
           NEW d \in L, n \in Under(sub, rt[d]), NEW t, NEW s, t[s] = lf, t.parent = pa
    PROVE  Turn(rt, L, sub, n, Climb(t, n, s)[2]) /\ rt[Climb(t, n, s)[2]] = Climb(t, n, s)[1]
<1>1. PICK S, N : S = Ascent(pa, rt, L, sub, n) /\ N = Cardinality(Node)
  OBVIOUS
<1>2. <<n, pa[n]>> \in S
  BY <1>1, PassedSelf DEF Ascent
<1>3. \A w \in S : /\ w[1] \in L /\ w[2] = pa[w[1]] /\ w[2] \in L /\ w = <<w[1], w[2]>>
                   /\ lf[w[2]] = w[1] => /\ <<w[2], pa[w[2]]>> \in S
                                        /\ Cardinality(sub[w[1]]) < Cardinality(sub[w[2]])
                   /\ lf[w[2]] # w[1] => Turn(rt, L, sub, n, w[2]) /\ rt[w[2]] = w[1]
  BY <1>1, AscentStep
<1>4. \A w \in S : Upward(S, pa, lf)[w] \in S
  BY <1>3 DEF Upward
<1>5. /\ N \in Nat
      /\ \E f \in [0..N + 1 -> S] : Orbit(f, Upward(S, pa, lf), <<n, pa[n]>>, N + 1) /\ Climb(t, n, s) = f[N + 1]
  BY <1>1, <1>2, <1>4, ClimbIs
<1>6. PICK f \in [0..N + 1 -> S] : Orbit(f, Upward(S, pa, lf), <<n, pa[n]>>, N + 1) /\ Climb(t, n, s) = f[N + 1]
  BY <1>5
<1>7. f[0] = <<n, pa[n]>> /\ \A k \in 0..N : f[k + 1] = IF lf[f[k][2]] = f[k][1] THEN <<f[k][2], pa[f[k][2]]>> ELSE f[k]
  <2>1. f[0] = <<n, pa[n]>> /\ \A k \in 0..(N + 1) - 1 : f[k + 1] = Upward(S, pa, lf)[f[k]]
    BY ONLY <1>6 DEF Orbit
  <2>2. (N + 1) - 1 = N
    BY <1>5
  <2>3. \A w \in S : Upward(S, pa, lf)[w] = IF lf[w[2]] = w[1] THEN <<w[2], pa[w[2]]>> ELSE w
    BY DEF Upward
  <2>4. ASSUME NEW k \in 0..N PROVE f[k] \in S
    BY <2>4, <1>5, <1>6
  <2>5. QED BY ONLY <2>1, <2>2, <2>3, <2>4
<1>8. \A a \in L : Cardinality(sub[a]) \in Nat /\ Cardinality(sub[a]) <= N
  <2>1. \A a \in L : Cardinality(sub[a]) \in Nat /\ Cardinality(sub[a]) <= Cardinality(L) /\ Cardinality(L) \in Nat /\ L \subseteq Node
    BY Below
  <2>2. L # {} => Cardinality(L) <= N
    BY <2>1, <1>1, Addresses, FS_Subset
  <2>3. QED BY <2>1, <2>2, <1>5
<1> DEFINE T == {k \in Nat : k <= N + 1 => Risen(f, lf, sub, k)}
<1>9. 0 \in T
  <2>1. f[0][1] = n /\ n \in sub[n] /\ IsFiniteSet(sub[n])
    BY <1>7, Below
  <2>2. Cardinality(sub[n]) # 0
    BY <2>1, FS_EmptySet
  <2>3. QED BY <2>1, <2>2, <1>8 DEF Risen
<1>10. ASSUME NEW k \in Nat, k \in T PROVE k + 1 \in T
  <2>1. SUFFICES ASSUME k + 1 <= N + 1 PROVE Risen(f, lf, sub, k + 1)
    OBVIOUS
  <2>2. k \in 0..N /\ k \in 0..N + 1 /\ Risen(f, lf, sub, k) /\ f[k] \in S
    BY <2>1, <1>5, <1>6, <1>10
  <2>3. PICK w : w = f[k]
    OBVIOUS
  <2>4. w \in S /\ f[k + 1] = IF lf[w[2]] = w[1] THEN <<w[2], pa[w[2]]>> ELSE w
    BY <2>2, <2>3, <1>7
  <2>5. CASE lf[w[2]] # w[1]
    BY <2>3, <2>4, <2>5 DEF Risen
  <2>6. CASE lf[w[2]] = w[1]
    <3>1. Cardinality(sub[w[1]]) >= k + 1
      BY <2>2, <2>3, <2>6 DEF Risen
    <3>2. Cardinality(sub[w[1]]) < Cardinality(sub[w[2]]) /\ w[1] \in L /\ w[2] \in L
      BY <2>4, <2>6, <1>3
    <3>3. f[k + 1][1] = w[2]
      BY <2>4, <2>6
    <3>4. Cardinality(sub[w[2]]) >= (k + 1) + 1
      BY <3>1, <3>2, <1>8
    <3>5. QED BY <3>3, <3>4 DEF Risen
  <2>7. QED BY <2>5, <2>6
<1>11. Nat \subseteq T
  <2> HIDE DEF T
  <2>1. QED BY <1>9, <1>10, SetInduction
<1>12. Risen(f, lf, sub, N + 1) /\ f[N + 1] \in S
  BY <1>5, <1>6, <1>11
<1>13. PICK w : w = f[N + 1]
  OBVIOUS
<1>14. lf[w[2]] # w[1]
  <2>1. w[1] \in L
    BY <1>3, <1>12, <1>13
  <2>2. Cardinality(sub[w[1]]) \in Nat /\ Cardinality(sub[w[1]]) <= N
    BY <1>8, <2>1
  <2>3. lf[w[2]] # w[1] \/ Cardinality(sub[w[1]]) >= (N + 1) + 1
    BY <1>12, <1>13 DEF Risen
  <2>4. QED BY <1>5, <2>2, <2>3
<1>15. Turn(rt, L, sub, n, w[2]) /\ rt[w[2]] = w[1]
  BY <1>3, <1>12, <1>13, <1>14
<1>16. QED BY <1>6, <1>13, <1>15

\* A node that is not the first has something on its left or is on the right of something.
LEMMA NotFirst ==
    ASSUME NEW pa, NEW lf, NEW rt, NEW L, NEW sub, Tied(pa, lf, rt, L, sub), NEW n \in L,
           NEW e, First(lf, L, sub, e), n # e, lf[n] = Nil
    PROVE  \E d \in L : n \in Under(sub, rt[d])
<1>1. e \in L /\ lf[e] = Nil
  BY DEF First
<1>2. PICK a \in L : /\ n \in sub[a] /\ e \in sub[a]
                     /\ ~ (n \in Under(sub, lf[a]) /\ e \in Under(sub, lf[a]))
  BY <1>1, Meet
<1>3. a = e \/ e \in Under(sub, lf[a])
  BY <1>1, <1>2 DEF First
<1>4. sub[a] = {a} \cup Under(sub, lf[a]) \cup Under(sub, rt[a])
  BY DEF Tied
<1>5. CASE a = e
  <2>1. Under(sub, lf[a]) = {}
    BY <1>1, <1>5 DEF Under
  <2>2. QED BY <2>1, <1>2, <1>4, <1>5
<1>6. CASE e \in Under(sub, lf[a])
  <2>1. n # a
    BY <1>6 DEF Under
  <2>2. QED BY <2>1, <1>2, <1>4, <1>6
<1>7. QED BY <1>3, <1>5, <1>6

\* Two nodes are not each other's children.
LEMMA NoCycle ==
    ASSUME NEW pa, NEW lf, NEW rt, NEW L, NEW sub, Tied(pa, lf, rt, L, sub), NEW a \in L, NEW b \in L,
           b = lf[a] \/ b = rt[a]
    PROVE  a # lf[b] /\ a # rt[b]
<1>1. Cardinality(sub[b]) < Cardinality(sub[a]) /\ Cardinality(sub[a]) \in Nat /\ Cardinality(sub[b]) \in Nat
  BY Below
<1>2. a = lf[b] \/ a = rt[b] => Cardinality(sub[a]) < Cardinality(sub[b])
  BY Below
<1>3. QED BY <1>1, <1>2

\* The root of a tree at rest is black.
LEMMA RootIsBlack ==
    ASSUME NEW pa, NEW lf, NEW rt, NEW co, NEW key, NEW L, NEW sub, NEW h, NEW hl, NEW hr,
           Fine(pa, lf, rt, co, key, L, sub, h, hl, hr, Nil), L # {}
    PROVE  pa[Header] \in L /\ pa[pa[Header]] = Header /\ co[pa[Header]] = Black
<1>1. pa[Header] \in L /\ pa[pa[Header]] = Header
  BY DEF Fine, Tied
<1>2. PICK r : r = pa[Header]
  OBVIOUS
<1>3. Nil \notin L /\ Nil # Header /\ r \in Addr
  BY <1>1, <1>2, NilNotAddr DEF Fine, Tied
<1>4. co[r] \in {Red, Black} /\ co[Header] = Red
  BY <1>3 DEF Fine
<1>5. co[r] = Red => r = Nil \/ pa[r] = Nil
  BY <1>1, <1>2, <1>4 DEF Fine, RedFree
<1>6. QED BY <1>1, <1>2, <1>3, <1>4, <1>5

\* RBTreeDecrement finds the neighbour before n,
LEMMA DecrementIs ==
    ASSUME NEW t, NEW pa, NEW lf, NEW rt, NEW co, Fields(t, pa, lf, rt, co),
           NEW key, NEW L, NEW sub, NEW h, Fine(pa, lf, rt, co, key, L, sub, h, Nil, Nil, Nil),
           NEW n \in L, n # lf[Header]
    PROVE  PredOf(lf, rt, L, sub, n, RBTreeDecrement(t, n))
<1>1. Tied(pa, lf, rt, L, sub) /\ First(lf, L, sub, lf[Header])
  BY DEF Fine
<1>2. t.parent = pa /\ t.left = lf /\ t.right = rt /\ t.color = co /\ t["left"] = lf /\ t["right"] = rt
  BY DEF Fields
<1>3. ~ (pa[pa[n]] = n /\ co[n] = Red)
  <2>1. SUFFICES ASSUME pa[pa[n]] = n, co[n] = Red PROVE FALSE
    OBVIOUS
  <2>2. CASE n = pa[Header]
    BY <2>1, <2>2, RootIsBlack DEF Red, Black
  <2>3. CASE n # pa[Header]
    <3>1. pa[n] \in L /\ (n = lf[pa[n]] \/ n = rt[pa[n]])
      BY <1>1, <2>3, Parents
    <3>2. PICK p : p = pa[n]
      OBVIOUS
    <3>3. p # pa[Header]
      <4>1. ASSUME p = pa[Header] PROVE FALSE
        <5>1. pa[pa[Header]] = Header
          BY RootIsBlack
        <5>2. n = Header
          BY <5>1, <4>1, <3>2, <2>1
        <5>3. Header \notin L
          BY <1>1, Below
        <5>4. QED BY <5>2, <5>3
      <4>2. QED BY <4>1
    <3>4. p = lf[n] \/ p = rt[n]
      BY <3>1, <3>2, <3>3, <2>1, <1>1, Parents
    <3>5. QED BY <3>1, <3>2, <3>4, <1>1, NoCycle
  <2>4. QED BY <2>2, <2>3
<1>4. RBTreeDecrement(t, n) = IF lf[n] # Nil THEN Extreme(t, lf[n], "right") ELSE Climb(t, n, "left")[2]
  BY <1>2, <1>3 DEF RBTreeDecrement, Maximum
<1>5. CASE lf[n] # Nil
  <2>1. lf[n] \in L
    BY <1>1, <1>5 DEF Tied
  <2>2. Spine(rt, L, sub, lf[n], Extreme(t, lf[n], "right"))
    BY <1>1, <1>2, <2>1, ExtremeSpine
  <2>3. Extreme(t, lf[n], "right") \in L
    BY <2>2 DEF Spine
  <2>4. QED BY <1>4, <1>5, <2>2, <2>3 DEF PredOf
<1>6. CASE lf[n] = Nil
  <2>1. PICK d \in L : n \in Under(sub, rt[d])
    BY <1>1, <1>6, NotFirst
  <2>2. Turn(rt, L, sub, n, Climb(t, n, "left")[2])
    BY <1>1, <1>2, <2>1, ClimbTurn
  <2>3. Climb(t, n, "left")[2] \in L
    BY <2>2 DEF Turn
  <2>4. QED BY <1>4, <1>6, <2>2, <2>3 DEF PredOf
<1>7. QED BY <1>5, <1>6

\* RBTreeIncrement the one after it.
LEMMA IncrementIs ==
    ASSUME NEW t, NEW pa, NEW lf, NEW rt, NEW co, Fields(t, pa, lf, rt, co),
           NEW key, NEW L, NEW sub, NEW h, Fine(pa, lf, rt, co, key, L, sub, h, Nil, Nil, Nil),
           NEW n \in L, n # rt[Header]
    PROVE  PredOf(rt, lf, L, sub, n, RBTreeIncrement(t, n))
<1>1. Tied(pa, lf, rt, L, sub) /\ Tied(pa, rt, lf, L, sub) /\ First(rt, L, sub, rt[Header])
  BY TiedMirror DEF Fine
<1>2. t.parent = pa /\ t.left = lf /\ t.right = rt /\ t.color = co /\ t["left"] = lf /\ t["right"] = rt
  BY DEF Fields
<1>5. CASE rt[n] # Nil
  <2>1. rt[n] \in L
    BY <1>1, <1>5 DEF Tied
  <2>2. Spine(lf, L, sub, rt[n], Extreme(t, rt[n], "left"))
    BY <1>1, <1>2, <2>1, ExtremeSpine
  <2>3. Extreme(t, rt[n], "left") \in L
    BY <2>2 DEF Spine
  <2>4. RBTreeIncrement(t, n) = Extreme(t, rt[n], "left")
    BY <1>2, <1>5 DEF RBTreeIncrement, Minimum
  <2>5. QED BY <2>4, <1>5, <2>2, <2>3 DEF PredOf
<1>6. CASE rt[n] = Nil
  <2>1. PICK d \in L : n \in Under(sub, lf[d])
    BY <1>1, <1>6, NotFirst
  <2>2. PICK c : c = Climb(t, n, "right")
    OBVIOUS
  <2>3. Turn(lf, L, sub, n, c[2]) /\ lf[c[2]] = c[1]
    BY <1>1, <1>2, <2>1, <2>2, ClimbTurn
  <2>4. c[2] \in L
    BY <2>3 DEF Turn
  <2>5. c[1] \in L
    <3>1. lf[c[2]] # Nil
      BY <2>3 DEF Turn, Under
    <3>2. QED BY <3>1, <2>3, <2>4, <1>1 DEF Tied
  <2>6. rt[c[1]] # c[2]
    BY <2>3, <2>4, <2>5, <1>1, NoCycle
  <2>7. RBTreeIncrement(t, n) = c[2]
    BY <1>2, <1>6, <2>2, <2>6 DEF RBTreeIncrement
  <2>8. QED BY <2>7, <1>6, <2>3, <2>4 DEF PredOf
<1>7. QED BY <1>5, <1>6

-----------------------------------------------------------------------------
(* The place for a key.                                                    *)

\* An ordered tree, for use by name.
LEMMA OrderedFacts ==
    ASSUME NEW pa, NEW lf, NEW rt, NEW key, NEW L, NEW sub, Ordered(pa, lf, rt, key, L, sub), NEW a \in L
    PROVE  /\ a \in Node /\ key[a] \in Int
           /\ \A m \in Under(sub, lf[a]) : m \in L /\ m \in Node /\ key[m] \in Int /\ key[m] <= key[a]
           /\ \A m \in Under(sub, rt[a]) : m \in L /\ m \in Node /\ key[m] \in Int /\ key[a] <= key[m]
           /\ sub[a] = {a} \cup Under(sub, lf[a]) \cup Under(sub, rt[a])
           /\ a \notin Under(sub, lf[a]) /\ a \notin Under(sub, rt[a])
           /\ Under(sub, lf[a]) \cap Under(sub, rt[a]) = {}
<1>1. L \subseteq Node /\ key \in [Node -> Int]
  BY DEF Ordered, Tied
<1>2. sub[a] = {a} \cup Under(sub, lf[a]) \cup Under(sub, rt[a])
  BY DEF Ordered, Tied
<1>3. sub[a] \subseteq L
  BY Below DEF Ordered
<1>4. QED BY <1>1, <1>2, <1>3 DEF Ordered, Sorted, Tied

\* ... read from right to left.
LEMMA OrderedMirror ==
    ASSUME NEW pa, NEW lf, NEW rt, NEW key, NEW L, NEW sub, Ordered(pa, lf, rt, key, L, sub)
    PROVE  Ordered(pa, rt, lf, Neg(key), L, sub)
BY TiedMirror, SortedMirror, NegNeg DEF Ordered

\* What is below b is on the side of a that b is on.
LEMMA SameSide ==
    ASSUME NEW pa, NEW lf, NEW rt, NEW L, NEW sub, Tied(pa, lf, rt, L, sub), NEW a \in L, NEW b \in L, NEW m \in sub[b]
    PROVE  (b \in Under(sub, lf[a]) => m \in Under(sub, lf[a])) /\ (b \in Under(sub, rt[a]) => m \in Under(sub, rt[a]))
<1>1. Tied(pa, lf, rt, L, sub) /\ a \in L /\ b \in L /\ m \in sub[b]
  OBVIOUS
<1>2. QED BY ONLY <1>1, Side1

\* Between b and n, neighbours, a key fits on the left of n...
LEMMA FitsLeftOf ==
    ASSUME NEW pa, NEW lf, NEW rt, NEW key, NEW L, NEW sub, Ordered(pa, lf, rt, key, L, sub), NEW n \in L,
           NEW b \in L, Turn(rt, L, sub, n, b), NEW lo \in Int, NEW hi \in Int, key[b] <= lo, hi <= key[n]
    PROVE  Fits(key, lf, rt, L, sub, lo, hi, n)
<1>0. Tied(pa, lf, rt, L, sub)
  BY DEF Ordered
<1>1. ASSUME NEW a \in L, n \in Under(sub, lf[a]) PROVE hi <= key[a]
  BY <1>1, OrderedFacts
<1>2. ASSUME NEW a \in L, n \in Under(sub, rt[a]) PROVE key[a] <= lo
  <2>1. b \in sub[a] /\ n \in Under(sub, rt[b])
    BY <1>2 DEF Turn
  <2>2. n \in sub[b]
    BY <2>1, OrderedFacts
  <2>3. b \notin Under(sub, lf[a])
    <3>1. b \in Under(sub, lf[a]) => n \in Under(sub, lf[a])
      BY <1>0, <2>2, SameSide
    <3>2. QED BY <3>1, <1>2, OrderedFacts
  <2>4. b = a \/ b \in Under(sub, rt[a])
    BY <2>1, <2>3, OrderedFacts
  <2>5. key[a] \in Int /\ key[b] \in Int /\ key[a] <= key[b]
    BY <2>4, OrderedFacts
  <2>6. QED BY <2>5
<1>3. QED BY <1>1, <1>2 DEF Fits

\* ... or on the right of b.
LEMMA FitsRightOf ==
    ASSUME NEW pa, NEW lf, NEW rt, NEW key, NEW L, NEW sub, Ordered(pa, lf, rt, key, L, sub), NEW n \in L,
           NEW b \in L, lf[n] # Nil, Spine(rt, L, sub, lf[n], b), NEW lo \in Int, NEW hi \in Int, key[b] <= lo, hi <= key[n]
    PROVE  Fits(Neg(key), rt, lf, L, sub, - hi, - lo, b)
<1>0. Tied(pa, lf, rt, L, sub) /\ \A m \in L : Neg(key)[m] = - key[m]
  BY DEF Ordered, Tied, Neg
<1>1. ASSUME NEW a \in L, b \in Under(sub, rt[a]) PROVE - lo <= Neg(key)[a]
  <2>1. key[a] \in Int /\ key[b] \in Int /\ key[a] <= key[b]
    BY <1>1, OrderedFacts
  <2>2. QED BY <2>1, <1>0
<1>2. ASSUME NEW a \in L, b \in Under(sub, lf[a]) PROVE hi <= key[a]
  <2>1. b \in sub[lf[n]] /\ b \in Under(sub, lf[n]) /\ b \in sub[n] /\ b \in sub[a]
    BY <1>2, OrderedFacts DEF Spine, Under
  <2>2. a \in sub[n] \/ n \in sub[a]
    BY <1>0, <2>1, Chain
  <2>3. CASE n \in sub[a]
    <3>1. n \notin Under(sub, rt[a])
      <4>1. n \in Under(sub, rt[a]) => b \in Under(sub, rt[a])
        BY <1>0, <2>1, SameSide
      <4>2. QED BY <4>1, <1>2, OrderedFacts
    <3>2. n = a \/ n \in Under(sub, lf[a])
      BY <3>1, <2>3, OrderedFacts
    <3>3. key[a] \in Int /\ key[n] \in Int /\ key[n] <= key[a]
      BY <3>2, OrderedFacts
    <3>4. QED BY <3>3
  <2>4. CASE a \in sub[n] /\ a # n
    <3>1. a \notin Under(sub, rt[n])
      <4>1. a \in Under(sub, rt[n]) => b \in Under(sub, rt[n])
        BY <1>0, <2>1, SameSide
      <4>2. QED BY <4>1, <2>1, OrderedFacts
    <3>2. a \in sub[lf[n]]
      BY <3>1, <2>4, OrderedFacts DEF Under
    <3>3. a = b \/ b \in Under(sub, rt[a])
      BY <3>2, <2>1 DEF Spine
    <3>4. QED BY <3>3, <1>2, OrderedFacts
  <2>5. CASE a = n
    BY <2>5
  <2>6. QED BY <2>2, <2>3, <2>4, <2>5
<1>3. ASSUME NEW a \in L, b \in Under(sub, lf[a]) PROVE Neg(key)[a] <= - hi
  <2>1. key[a] \in Int /\ hi <= key[a]
    BY <1>2, <1>3, OrderedFacts
  <2>2. QED BY <2>1, <1>0
<1>4. - lo <= Neg(key)[b]
  <2>1. key[b] \in Int
    BY OrderedFacts
  <2>2. QED BY <2>1, <1>0
<1>5. QED BY <1>1, <1>3, <1>4 DEF Fits

\* Which of the two, the links tell.
LEMMA FitsBeside ==
    ASSUME NEW pa, NEW lf, NEW rt, NEW key, NEW L, NEW sub, Ordered(pa, lf, rt, key, L, sub), NEW n \in L,
           NEW b, PredOf(lf, rt, L, sub, n, b), NEW lo \in Int, NEW hi \in Int, key[b] <= lo, hi <= key[n]
    PROVE  /\ rt[b] = Nil => Fits(Neg(key), rt, lf, L, sub, - hi, - lo, b)
           /\ rt[b] # Nil => lf[n] = Nil /\ Fits(key, lf, rt, L, sub, lo, hi, n)
<1>1. b \in L
  BY DEF PredOf
<1>2. CASE lf[n] # Nil
  <2>1. Spine(rt, L, sub, lf[n], b)
    BY <1>2 DEF PredOf
  <2>2. rt[b] = Nil
    BY <2>1 DEF Spine
  <2>3. QED BY <1>1, <1>2, <2>1, <2>2, FitsRightOf
<1>3. CASE lf[n] = Nil
  <2>1. Turn(rt, L, sub, n, b)
    BY <1>3 DEF PredOf
  <2>2. rt[b] # Nil
    BY <2>1 DEF Turn, Under
  <2>3. QED BY <1>1, <1>3, <2>1, <2>2, FitsLeftOf
<1>4. QED BY <1>2, <1>3

\* Before the first node too.
LEMMA FitsFirst ==
    ASSUME NEW pa, NEW lf, NEW rt, NEW key, NEW L, NEW sub, Ordered(pa, lf, rt, key, L, sub),
           NEW e, First(lf, L, sub, e), NEW lo \in Int, NEW hi \in Int, hi <= key[e]
    PROVE  e \in L /\ lf[e] = Nil /\ Fits(key, lf, rt, L, sub, lo, hi, e)
<1>1. e \in L /\ lf[e] = Nil
  BY DEF First
<1>2. ASSUME NEW a \in L, e \in Under(sub, lf[a]) PROVE hi <= key[a]
  BY <1>1, <1>2, OrderedFacts
<1>3. ASSUME NEW a \in L, e \in Under(sub, rt[a]) PROVE FALSE
  <2>1. e \in sub[a] /\ e # a /\ e \notin Under(sub, lf[a])
    BY <1>3, OrderedFacts
  <2>2. QED BY <2>1 DEF First
<1>4. QED BY <1>1, <1>2, <1>3 DEF Fits

\* Where a key fits strictly, no node has it.
LEMMA FitsStrictly ==
    ASSUME NEW pa, NEW lf, NEW rt, NEW key, NEW L, NEW sub, Ordered(pa, lf, rt, key, L, sub),
           NEW p \in L, lf[p] = Nil, NEW k \in Int, Fits(key, lf, rt, L, sub, k - 1, k + 1, p), NEW m \in L
    PROVE  key[m] # k
<1>0. Tied(pa, lf, rt, L, sub) /\ key[m] \in Int /\ key[p] \in Int
  BY OrderedFacts DEF Ordered
<1>1. PICK a \in L : /\ m \in sub[a] /\ p \in sub[a]
                     /\ ~ (m \in Under(sub, lf[a]) /\ p \in Under(sub, lf[a]))
                     /\ ~ (m \in Under(sub, rt[a]) /\ p \in Under(sub, rt[a]))
  BY <1>0, Meet
<1>2. key[a] \in Int
  BY OrderedFacts
<1>3. CASE p \in Under(sub, lf[a])
  <2>1. k + 1 <= key[a]
    BY <1>3 DEF Fits
  <2>2. m = a \/ m \in Under(sub, rt[a])
    BY <1>1, <1>3, OrderedFacts
  <2>3. key[a] <= key[m]
    BY <2>2, <1>2, OrderedFacts
  <2>4. QED BY <2>1, <2>3, <1>0, <1>2
<1>4. CASE p \in Under(sub, rt[a])
  <2>1. key[a] <= k - 1
    BY <1>4 DEF Fits
  <2>2. m = a \/ m \in Under(sub, lf[a])
    BY <1>1, <1>4, OrderedFacts
  <2>3. key[m] <= key[a]
    BY <2>2, <1>2, OrderedFacts
  <2>4. QED BY <2>1, <2>3, <1>0, <1>2
<1>5. CASE p = a
  <2>1. k + 1 <= key[p]
    BY DEF Fits
  <2>2. Under(sub, lf[p]) = {}
    BY DEF Under
  <2>3. m = p \/ m \in Under(sub, rt[p])
    BY <2>2, <1>1, <1>5, OrderedFacts
  <2>4. key[p] <= key[m]
    BY <2>3, <1>0, OrderedFacts
  <2>5. QED BY <2>1, <2>4, <1>0
<1>6. QED BY <1>1, <1>3, <1>4, <1>5, OrderedFacts

\* A descent ends at a null link.
LEMMA DescentEnds ==
    ASSUME NEW pa, NEW lf, NEW rt, NEW L, NEW sub, Tied(pa, lf, rt, L, sub),
           NEW S, NEW g, Descends(g, S, lf, rt, L), NEW N, N = Cardinality(Node),
           NEW a, NEW f \in [0..N + 1 -> S], Orbit(f, g, a, N + 1)
    PROVE  N \in Nat /\ f[N + 1] \in S /\ f[N + 1][2] = Nil
<1>1. N \in Nat
  BY FS_CardinalityType, Addresses
<1>2. \A b \in L : Cardinality(sub[b]) \in Nat /\ Cardinality(sub[b]) <= N
  <2>1. \A b \in L : Cardinality(sub[b]) \in Nat /\ Cardinality(sub[b]) <= Cardinality(L) /\ Cardinality(L) \in Nat /\ L \subseteq Node
    BY Below
  <2>2. L # {} => Cardinality(L) <= N
    BY <2>1, Addresses, FS_Subset
  <2>3. QED BY <2>1, <2>2, <1>1
<1>3. \A b \in L : /\ lf[b] # Nil => lf[b] \in L /\ Cardinality(sub[lf[b]]) < Cardinality(sub[b])
                   /\ rt[b] # Nil => rt[b] \in L /\ Cardinality(sub[rt[b]]) < Cardinality(sub[b])
  BY Below
<1>4. \A k \in 0..N + 1 : f[k] \in S
  OBVIOUS
<1>5. \A k \in 0..N : f[k + 1] = g[f[k]]
  <2>1. (N + 1) - 1 = N
    BY <1>1
  <2>2. QED BY <2>1 DEF Orbit
<1> DEFINE T == {k \in Nat : k <= N + 1 => f[k][2] = Nil \/ Cardinality(sub[f[k][2]]) <= N - k}
<1>6. 0 \in T
  <2>1. f[0] \in S
    BY <1>1, <1>4
  <2>2. f[0][2] \in L \cup {Nil}
    BY <2>1 DEF Descends
  <2>3. QED BY <2>2, <1>1, <1>2
<1>7. ASSUME NEW k \in Nat, k \in T PROVE k + 1 \in T
  <2>1. SUFFICES ASSUME k + 1 <= N + 1 PROVE f[k + 1][2] = Nil \/ Cardinality(sub[f[k + 1][2]]) <= N - (k + 1)
    OBVIOUS
  <2>2. k \in 0..N /\ k \in 0..N + 1 /\ (f[k][2] = Nil \/ Cardinality(sub[f[k][2]]) <= N - k)
    BY <2>1, <1>1, <1>7
  <2>3. PICK w : w = f[k]
    OBVIOUS
  <2>4. w \in S /\ f[k + 1] = g[w]
    BY <2>2, <2>3, <1>4, <1>5
  <2>5. CASE w[2] = Nil
    BY <2>4, <2>5 DEF Descends
  <2>6. CASE w[2] # Nil
    <3>1. w[2] \in L /\ (g[w][2] = lf[w[2]] \/ g[w][2] = rt[w[2]])
      BY <2>4, <2>6 DEF Descends
    <3>2. PICK c : c = g[w][2]
      OBVIOUS
    <3>3. c # Nil => c \in L /\ Cardinality(sub[c]) < Cardinality(sub[w[2]])
      BY <3>1, <3>2, <1>3
    <3>4. Cardinality(sub[w[2]]) <= N - k /\ Cardinality(sub[w[2]]) \in Nat
      BY <2>2, <2>3, <2>6, <3>1, <1>2
    <3>5. c # Nil => Cardinality(sub[c]) <= N - (k + 1)
      BY <3>3, <3>4, <1>1, <1>2
    <3>6. QED BY <3>5, <3>2, <2>4
  <2>7. QED BY <2>5, <2>6
<1>8. Nat \subseteq T
  <2> HIDE DEF T
  <2>1. QED BY <1>6, <1>7, SetInduction
<1>9. f[N + 1] \in S /\ (f[N + 1][2] = Nil \/ Cardinality(sub[f[N + 1][2]]) <= N - (N + 1))
  BY <1>1, <1>4, <1>8
<1>10. PICK w : w = f[N + 1]
  OBVIOUS
<1>11. w[2] \in L \cup {Nil}
  BY <1>9, <1>10 DEF Descends
<1>12. QED BY <1>1, <1>2, <1>9, <1>10, <1>11

\* Hole is the end of its descent.
LEMMA HoleIs ==
    ASSUME NEW t, NEW pa, NEW lf, NEW rt, NEW co, Fields(t, pa, lf, rt, co), NEW k, NEW S, <<Header, pa[Header]>> \in S,
           \A w \in S : Downward(S, lf, rt, k)[w] \in S, NEW N, N = Cardinality(Node)
    PROVE  /\ N \in Nat
           /\ \E f \in [0..N + 1 -> S] : Orbit(f, Downward(S, lf, rt, k), <<Header, pa[Header]>>, N + 1) /\ Hole(t, k) = f[N + 1][1]
<1>1. N \in Nat /\ Steps = 0..N + 1
  BY FS_CardinalityType, Addresses DEF Steps
<1>2. PICK g, x : g = Downward(S, lf, rt, k) /\ x = <<Header, pa[Header]>>
  OBVIOUS
<1>3. \A w \in S : g[w] \in S /\ g[w] = IF w[2] = Nil THEN w ELSE <<w[2], IF k < KeyOf[w[2]] THEN lf[w[2]] ELSE rt[w[2]]>>
  BY <1>2 DEF Downward
<1>4. N + 1 \in Nat /\ x \in S
  BY <1>1, <1>2
<1>5. PICK f \in [0..N + 1 -> S] : Solves(f, g, x, N + 1)
  BY <1>3, <1>4, SolutionExists
<1>f. t.left = lf /\ t.right = rt /\ x = <<Header, Root(t)>>
  BY <1>2 DEF Fields, Root
<1> DEFINE walk == CHOOSE v : v = [i \in Steps |-> IF i = 0 THEN <<Header, Root(t)>>
                       ELSE IF v[i - 1][2] = Nil THEN v[i - 1]
                            ELSE <<v[i - 1][2], IF k < KeyOf[v[i - 1][2]] THEN t.left[v[i - 1][2]] ELSE t.right[v[i - 1][2]]>>]
<1>6. f = [i \in Steps |-> IF i = 0 THEN <<Header, Root(t)>>
                       ELSE IF f[i - 1][2] = Nil THEN f[i - 1]
                            ELSE <<f[i - 1][2], IF k < KeyOf[f[i - 1][2]] THEN t.left[f[i - 1][2]] ELSE t.right[f[i - 1][2]]>>]
  <2>1. ASSUME NEW i \in 0..N + 1
        PROVE  f[i] = IF i = 0 THEN <<Header, Root(t)>>
                       ELSE IF f[i - 1][2] = Nil THEN f[i - 1]
                            ELSE <<f[i - 1][2], IF k < KeyOf[f[i - 1][2]] THEN t.left[f[i - 1][2]] ELSE t.right[f[i - 1][2]]>>
    <3>1. f[i] = IF i = 0 THEN x ELSE g[f[i - 1]]
      BY <1>5 DEF Solves
    <3>2. i # 0 => i - 1 \in 0..N + 1
      BY <1>1
    <3>3. i # 0 => f[i - 1] \in S
      BY <3>2, <1>5
    <3>4. CASE i = 0
      BY <3>1, <3>4, <1>f
    <3>5. CASE i # 0
      <4>1. PICK w : w = f[i - 1]
        OBVIOUS
      <4>2. w \in S /\ f[i] = g[w]
        BY <3>1, <3>3, <3>5, <4>1
      <4>3. f[i] = IF w[2] = Nil THEN w ELSE <<w[2], IF k < KeyOf[w[2]] THEN lf[w[2]] ELSE rt[w[2]]>>
        BY <4>2, <1>3
      <4>4. QED BY ONLY <4>1, <4>3, <3>5, <1>f
    <3>6. QED BY <3>4, <3>5
  <2>2. f = [i \in 0..N + 1 |-> f[i]]
    BY <1>5
  <2>3. QED BY ONLY <2>1, <2>2, <1>1
<1>7. PICK v : v = walk
  OBVIOUS
<1>8. v = [i \in Steps |-> IF i = 0 THEN <<Header, Root(t)>>
                       ELSE IF v[i - 1][2] = Nil THEN v[i - 1]
                            ELSE <<v[i - 1][2], IF k < KeyOf[v[i - 1][2]] THEN t.left[v[i - 1][2]] ELSE t.right[v[i - 1][2]]>>]
  <2>1. \E u : u = [i \in Steps |-> IF i = 0 THEN <<Header, Root(t)>>
                       ELSE IF u[i - 1][2] = Nil THEN u[i - 1]
                            ELSE <<u[i - 1][2], IF k < KeyOf[u[i - 1][2]] THEN t.left[u[i - 1][2]] ELSE t.right[u[i - 1][2]]>>]
    BY ONLY <1>6
  <2>2. QED BY ONLY <2>1, <1>7
<1> HIDE DEF walk
<1>9. \A i \in 0..N + 1 : v[i] = IF i = 0 THEN x
                       ELSE IF v[i - 1][2] = Nil THEN v[i - 1]
                            ELSE <<v[i - 1][2], IF k < KeyOf[v[i - 1][2]] THEN lf[v[i - 1][2]] ELSE rt[v[i - 1][2]]>>
  <2>1. \A i \in Steps : v[i] = IF i = 0 THEN <<Header, Root(t)>>
                       ELSE IF v[i - 1][2] = Nil THEN v[i - 1]
                            ELSE <<v[i - 1][2], IF k < KeyOf[v[i - 1][2]] THEN t.left[v[i - 1][2]] ELSE t.right[v[i - 1][2]]>>
    BY ONLY <1>8
  <2>2. QED BY ONLY <2>1, <1>1, <1>f
<1>10. Follows(v, g, S, x, N + 1)
  <2>1. v = [i \in 0..N + 1 |-> v[i]]
    BY ONLY <1>1, <1>8
  <2>2. v[0] = x
    <3>1. 0 \in 0..N + 1
      BY <1>1
    <3>2. QED BY ONLY <3>1, <1>9
  <2>3. ASSUME NEW i \in 0..(N + 1) - 1, v[i] \in S PROVE v[i + 1] = g[v[i]]
    <3>1. i + 1 \in 0..N + 1 /\ i + 1 # 0 /\ (i + 1) - 1 = i
      BY <1>1
    <3>2. v[i + 1] = IF v[i][2] = Nil THEN v[i] ELSE <<v[i][2], IF k < KeyOf[v[i][2]] THEN lf[v[i][2]] ELSE rt[v[i][2]]>>
      BY ONLY <3>1, <1>9
    <3>3. QED BY ONLY <3>2, <2>3, <1>3
  <2>4. QED BY <2>1, <2>2, <2>3 DEF Follows
<1>11. v \in [0..N + 1 -> S] /\ Orbit(v, g, x, N + 1)
  BY ONLY <1>3, <1>4, <1>10, FollowsOrbit
<1>12. Hole(t, k) = v[N + 1][1]
  <2>1. N + 1 = Cardinality(Node) + 1
    OBVIOUS
  <2>2. QED BY ONLY <2>1, <1>7 DEF Hole, walk
<1>13. QED BY <1>1, <1>2, <1>11, <1>12

\* At the root nothing has been compared.
LEMMA ReachedRoot ==
    ASSUME NEW pa, NEW lf, NEW rt, NEW key, NEW L, NEW sub, Ordered(pa, lf, rt, key, L, sub), NEW k \in Int,
           NEW r, r = pa[Header], r \in L
    PROVE  Reached(key, lf, rt, L, sub, k, r)
<1>1. ASSUME NEW a \in L, r \in Under(sub, lf[a]) \cup Under(sub, rt[a]) PROVE FALSE
  <2>1. Tied(pa, lf, rt, L, sub) /\ a \in L /\ r \in L /\ r \in sub[a] /\ a \in sub[r]
    <3>1. Tied(pa, lf, rt, L, sub)
      BY DEF Ordered
    <3>2. Nil \notin L
      BY <3>1, Below
    <3>3. sub[r] = L
      BY <3>1, <3>2 DEF Tied
    <3>4. r \in sub[a]
      BY <1>1, OrderedFacts
    <3>5. QED BY <3>1, <3>3, <3>4
  <2>2. a = r
    BY ONLY <2>1, NotBoth
  <2>3. QED BY <2>2, <1>1, OrderedFacts
<1>2. QED BY <1>1 DEF Reached

\* A step to a child compares with the node it leaves.
LEMMA ReachedChild ==
    ASSUME NEW pa, NEW lf, NEW rt, NEW key, NEW L, NEW sub, Ordered(pa, lf, rt, key, L, sub), NEW k \in Int,
           NEW y \in L, Reached(key, lf, rt, L, sub, k, y),
           NEW x, x = (IF k < key[y] THEN lf[y] ELSE rt[y]), x # Nil
    PROVE  x \in L /\ Reached(key, lf, rt, L, sub, k, x)
<1>0. Tied(pa, lf, rt, L, sub) /\ key[y] \in Int
  BY OrderedFacts DEF Ordered
<1>1. x \in L /\ x \in {lf[y], rt[y]}
  BY <1>0 DEF Tied
<1>2. x \in sub[x] /\ (x = lf[y] => x \in Under(sub, lf[y])) /\ (x = rt[y] => x \in Under(sub, rt[y]))
  BY <1>1, OrderedFacts DEF Under
<1>3. x \in sub[y]
  BY <1>1, <1>2, OrderedFacts
<1>4. ASSUME NEW a \in L, x \in sub[a], a # x
      PROVE  \/ a = y
             \/ y \in Under(sub, lf[a]) /\ x \in Under(sub, lf[a])
             \/ y \in Under(sub, rt[a]) /\ x \in Under(sub, rt[a])
  <2>1. y \in sub[a]
    BY <1>0, <1>1, <1>4, Climbing
  <2>2. y = a \/ y \in Under(sub, lf[a]) \/ y \in Under(sub, rt[a])
    BY <2>1, OrderedFacts
  <2>3. QED BY <2>2, <1>0, <1>3, SameSide
<1>5. ASSUME NEW a \in L, x \in Under(sub, lf[a]) PROVE k < key[a]
  <2>1. x \in sub[a] /\ a # x /\ x \notin Under(sub, rt[a])
    BY <1>5, OrderedFacts
  <2>2. a = y \/ y \in Under(sub, lf[a])
    BY <2>1, <1>4
  <2>3. CASE a = y
    BY <2>1, <2>3, <1>2
  <2>4. QED BY <2>2, <2>3 DEF Reached
<1>6. ASSUME NEW a \in L, x \in Under(sub, rt[a]) PROVE key[a] <= k
  <2>1. x \in sub[a] /\ a # x /\ x \notin Under(sub, lf[a])
    BY <1>6, OrderedFacts
  <2>2. a = y \/ y \in Under(sub, rt[a])
    BY <2>1, <1>4
  <2>3. CASE a = y
    <3>1. ~ (k < key[y])
      BY <2>1, <2>3, <1>2
    <3>2. QED BY <3>1, <2>3, <1>0
  <2>4. QED BY <2>2, <2>3 DEF Reached
<1>7. QED BY <1>1, <1>5, <1>6 DEF Reached

\* Where Hole ends.
LEMMA HoleEnds ==
    ASSUME NEW t, NEW pa, NEW lf, NEW rt, NEW co, Fields(t, pa, lf, rt, co),
           NEW L, NEW sub, Ordered(pa, lf, rt, KeyOf, L, sub), NEW k \in Int, NEW y, y = Hole(t, k)
    PROVE  /\ L = {} => y = Header
           /\ L # {} => /\ y \in L /\ Reached(KeyOf, lf, rt, L, sub, k, y)
                        /\ k < KeyOf[y] => lf[y] = Nil
                        /\ ~ (k < KeyOf[y]) => rt[y] = Nil
<1>0. Tied(pa, lf, rt, L, sub)
  BY DEF Ordered
<1>1. PICK S, N : S = Descent(pa, KeyOf, lf, rt, L, sub, k) /\ N = Cardinality(Node)
  OBVIOUS
<1>2. pa[Header] \in L \cup {Nil} /\ (L = {} <=> pa[Header] = Nil) /\ Nil \notin L /\ Header \notin L
  <2>1. Nil \notin L /\ Header \notin L
    BY <1>0, Below
  <2>2. pa[Header] \in L \cup {Nil} /\ (L = {} <=> pa[Header] = Nil)
    BY <1>0 DEF Tied
  <2>3. QED BY <2>1, <2>2
<1>3. <<Header, pa[Header]>> \in S
  BY <1>1, <1>2 DEF Descent
<1>4. PICK g : g = Downward(S, lf, rt, k)
  OBVIOUS
<1>5. \A w \in S : g[w] = IF w[2] = Nil THEN w ELSE <<w[2], IF k < KeyOf[w[2]] THEN lf[w[2]] ELSE rt[w[2]]>>
  BY <1>4 DEF Downward
<1>6. ASSUME NEW w \in S, w[2] # Nil PROVE g[w] \in S /\ w[2] \in L
  <2>1. w[2] \in L
    BY <1>1, <1>6 DEF Descent
  <2>2. PICK x : x = w[2]
    OBVIOUS
  <2>3. Reached(KeyOf, lf, rt, L, sub, k, x)
    <3>1. CASE w = <<Header, pa[Header]>>
      <4>1. x = pa[Header] /\ x \in L
        BY <3>1, <2>1, <2>2
      <4>2. QED BY <4>1, ReachedRoot
    <3>2. CASE w # <<Header, pa[Header]>>
      <4>1. PICK z : z = w[1]
        OBVIOUS
      <4>2. z \in L /\ Reached(KeyOf, lf, rt, L, sub, k, z) /\ x = (IF k < KeyOf[z] THEN lf[z] ELSE rt[z])
        BY <3>2, <4>1, <2>2, <1>1 DEF Descent
      <4>3. x # Nil
        BY <1>6, <2>2
      <4>4. QED BY <4>2, <4>3, ReachedChild
    <3>3. QED BY <3>1, <3>2
  <2>4. PICK c : c = IF k < KeyOf[x] THEN lf[x] ELSE rt[x]
    OBVIOUS
  <2>5. c \in L \cup {Nil} /\ g[w] = <<x, c>> /\ x \in L
    BY <1>0, <1>5, <1>6, <2>1, <2>2, <2>4 DEF Tied
  <2>6. <<x, c>> \in S
    BY <1>1, <2>3, <2>4, <2>5 DEF Descent
  <2>7. QED BY <2>1, <2>5, <2>6
<1>7. \A w \in S : g[w] \in S
  BY <1>5, <1>6
<1>8. Descends(g, S, lf, rt, L)
  <2>1. \A w \in S : w[2] \in L \cup {Nil}
    BY <1>1 DEF Descent
  <2>2. ASSUME NEW w \in S, w[2] # Nil PROVE g[w][2] = lf[w[2]] \/ g[w][2] = rt[w[2]]
    <3>1. PICK c : c = IF k < KeyOf[w[2]] THEN lf[w[2]] ELSE rt[w[2]]
      OBVIOUS
    <3>2. g[w] = <<w[2], c>>
      BY <2>2, <3>1, <1>5
    <3>3. g[w][2] = c
      BY <3>2
    <3>4. QED BY <3>1, <3>3
  <2>3. \A w \in S : w[2] = Nil => g[w] = w
    BY <1>5
  <2>4. QED BY <2>1, <2>2, <2>3, <1>7 DEF Descends
<1>9. PICK f \in [0..N + 1 -> S] : Orbit(f, g, <<Header, pa[Header]>>, N + 1) /\ y = f[N + 1][1]
  BY <1>1, <1>3, <1>4, <1>7, HoleIs
<1>10. N \in Nat /\ f[N + 1] \in S /\ f[N + 1][2] = Nil
  BY <1>0, <1>1, <1>8, <1>9, DescentEnds
<1>11. PICK w : w = f[N + 1]
  OBVIOUS
<1>12. w \in S /\ w[2] = Nil /\ w[1] = y
  BY <1>9, <1>10, <1>11
<1>13. CASE L = {}
  <2>1. y = Header
    BY <1>1, <1>12, <1>13 DEF Descent
  <2>2. QED BY <2>1, <1>13
<1>14. CASE L # {}
  <2>1. w # <<Header, pa[Header]>>
    BY <1>2, <1>12, <1>14
  <2>2. y \in L /\ Reached(KeyOf, lf, rt, L, sub, k, y) /\ Nil = IF k < KeyOf[y] THEN lf[y] ELSE rt[y]
    BY <2>1, <1>1, <1>12 DEF Descent
  <2>3. QED BY <2>2, <1>14
<1>15. QED BY <1>13, <1>14

\* Where the descent ends the key fits.
LEMMA ReachedFits ==
    ASSUME NEW pa, NEW lf, NEW rt, NEW L, NEW sub, Ordered(pa, lf, rt, KeyOf, L, sub), NEW k \in Int,
           NEW y \in L, Reached(KeyOf, lf, rt, L, sub, k, y), NEW lo \in Int, NEW hi \in Int, hi <= k + 1
    PROVE  /\ k < KeyOf[y] /\ k <= lo => Fits(KeyOf, lf, rt, L, sub, lo, hi, y)
           /\ KeyOf[y] <= lo => Fits(Neg(KeyOf), rt, lf, L, sub, - hi, - lo, y)
<1>0. \A a \in L : KeyOf[a] \in Int /\ Neg(KeyOf)[a] = - KeyOf[a]
  BY OrderedFacts DEF Ordered, Neg
<1>1. ASSUME k < KeyOf[y], k <= lo PROVE Fits(KeyOf, lf, rt, L, sub, lo, hi, y)
  <2>1. hi <= KeyOf[y]
    BY <1>0, <1>1
  <2>2. ASSUME NEW a \in L PROVE /\ y \in Under(sub, lf[a]) => hi <= KeyOf[a]
                                 /\ y \in Under(sub, rt[a]) => KeyOf[a] <= lo
    <3>1. /\ y \in Under(sub, lf[a]) => k < KeyOf[a]
          /\ y \in Under(sub, rt[a]) => KeyOf[a] <= k
      BY DEF Reached
    <3>2. KeyOf[a] \in Int
      BY <1>0
    <3>3. QED BY <3>1, <3>2, <1>1
  <2>3. QED BY <2>1, <2>2 DEF Fits
<1>2. ASSUME KeyOf[y] <= lo PROVE Fits(Neg(KeyOf), rt, lf, L, sub, - hi, - lo, y)
  <2>1. - lo <= Neg(KeyOf)[y]
    <3>1. KeyOf[y] \in Int /\ Neg(KeyOf)[y] = - KeyOf[y]
      BY <1>0
    <3>2. QED BY <3>1, <1>2
  <2>2. ASSUME NEW a \in L PROVE /\ y \in Under(sub, rt[a]) => - lo <= Neg(KeyOf)[a]
                                 /\ y \in Under(sub, lf[a]) => Neg(KeyOf)[a] <= - hi
    <3>1. /\ y \in Under(sub, lf[a]) => k < KeyOf[a]
          /\ y \in Under(sub, rt[a]) => KeyOf[a] <= KeyOf[y]
      BY OrderedFacts DEF Reached
    <3>2. KeyOf[a] \in Int /\ KeyOf[y] \in Int /\ Neg(KeyOf)[a] = - KeyOf[a]
      BY <1>0
    <3>3. QED BY <3>1, <3>2, <1>2
  <2>3. QED BY <2>1, <2>2 DEF Fits
<1>3. QED BY <1>1, <1>2

\* A tree at rest, for use by name.
LEMMA RestingFacts ==
    ASSUME NEW t, NEW pa, NEW lf, NEW rt, NEW co, NEW L, NEW sub, NEW h, Resting(t, pa, lf, rt, co, L, sub, h)
    PROVE  /\ t.parent = pa /\ t.left = lf /\ t.right = rt /\ t.color = co /\ t["left"] = lf /\ t["right"] = rt
           /\ Root(t) = pa[Header] /\ LeftMost(t) = lf[Header] /\ RightMost(t) = rt[Header]
           /\ Ordered(pa, lf, rt, KeyOf, L, sub) /\ Tied(pa, lf, rt, L, sub)
           /\ Nil \notin L /\ Header \notin L /\ Nil # Header
           /\ L # {} => First(lf, L, sub, lf[Header]) /\ First(rt, L, sub, rt[Header])
           /\ \A a \in L : KeyOf[a] \in Int
<1>1. Fields(t, pa, lf, rt, co) /\ Ordered(pa, lf, rt, KeyOf, L, sub) /\ Tied(pa, lf, rt, L, sub)
  BY DEF Resting, Fine, Ordered
<1>2. t.parent = pa /\ t.left = lf /\ t.right = rt /\ t.color = co /\ t["left"] = lf /\ t["right"] = rt
  BY <1>1 DEF Fields
<1>3. Nil \notin L /\ Header \notin L
  BY <1>1, Below
<1>4. \A a \in L : KeyOf[a] \in Int
  BY <1>1, OrderedFacts
<1>5. L # {} => First(lf, L, sub, lf[Header]) /\ First(rt, L, sub, rt[Header])
  BY DEF Resting, Fine
<1>6. QED BY <1>1, <1>2, <1>3, <1>4, <1>5, NilNotAddr DEF Root, LeftMost, RightMost

\* Places next to a node, by its neighbour.
LEMMA PlaceBefore ==
    ASSUME NEW t, NEW pa, NEW lf, NEW rt, NEW co, NEW L, NEW sub, NEW h, Resting(t, pa, lf, rt, co, L, sub, h),
           NEW k \in Int, NEW lo \in Int, NEW hi \in Int, lo <= k, k <= hi, NEW n \in L, hi <= KeyOf[n],
           NEW b, b = RBTreeDecrement(t, n)
    PROVE  /\ n = lf[Header] => Place(lf, rt, L, sub, n, n, k, lo, hi)
           /\ n # lf[Header] /\ KeyOf[b] <= lo =>
                /\ rt[b] = Nil => b \in L /\ Place(lf, rt, L, sub, Nil, b, k, lo, hi)
                /\ rt[b] # Nil => Place(lf, rt, L, sub, n, n, k, lo, hi)
<1>1. Ordered(pa, lf, rt, KeyOf, L, sub) /\ Nil \notin L /\ First(lf, L, sub, lf[Header])
  BY RestingFacts
<1>2. ASSUME n = lf[Header] PROVE Place(lf, rt, L, sub, n, n, k, lo, hi)
  <2>1. First(lf, L, sub, n)
    BY <1>1, <1>2
  <2>2. lf[n] = Nil /\ Fits(KeyOf, lf, rt, L, sub, lo, hi, n)
    BY <1>1, <2>1, FitsFirst
  <2>3. QED BY <2>2, <1>1 DEF Place
<1>3. ASSUME n # lf[Header], KeyOf[b] <= lo
      PROVE  /\ rt[b] = Nil => b \in L /\ Place(lf, rt, L, sub, Nil, b, k, lo, hi)
             /\ rt[b] # Nil => Place(lf, rt, L, sub, n, n, k, lo, hi)
  <2>1. PredOf(lf, rt, L, sub, n, b)
    <3>1. Fields(t, pa, lf, rt, co) /\ Fine(pa, lf, rt, co, KeyOf, L, sub, h, Nil, Nil, Nil)
      BY DEF Resting
    <3>2. QED BY <3>1, <1>3, DecrementIs
  <2>2. /\ rt[b] = Nil => Fits(Neg(KeyOf), rt, lf, L, sub, - hi, - lo, b)
        /\ rt[b] # Nil => lf[n] = Nil /\ Fits(KeyOf, lf, rt, L, sub, lo, hi, n)
    BY <1>1, <1>3, <2>1, FitsBeside
  <2>3. b \in L
    BY <2>1 DEF PredOf
  <2>4. KeyOf[b] \in Int
    BY <2>3, RestingFacts
  <2>5. ~ (k < KeyOf[b])
    BY <2>4, <1>3
  <2>6. QED BY <2>2, <2>3, <2>5, <1>1 DEF Place
<1>4. QED BY <1>2, <1>3

\* ... and after it.
LEMMA PlaceAfter ==
    ASSUME NEW t, NEW pa, NEW lf, NEW rt, NEW co, NEW L, NEW sub, NEW h, Resting(t, pa, lf, rt, co, L, sub, h),
           NEW k \in Int, NEW lo \in Int, NEW hi \in Int, lo <= k, k <= hi, NEW n \in L, KeyOf[n] <= lo,
           NEW b, b = RBTreeIncrement(t, n)
    PROVE  /\ n = rt[Header] => Place(lf, rt, L, sub, Nil, n, k, lo, hi)
           /\ n # rt[Header] /\ hi <= KeyOf[b] =>
                /\ lf[b] = Nil => b \in L /\ Place(lf, rt, L, sub, b, b, k, lo, hi)
                /\ lf[b] # Nil => Place(lf, rt, L, sub, Nil, n, k, lo, hi)
<1>1. Ordered(pa, lf, rt, KeyOf, L, sub) /\ Nil \notin L /\ First(rt, L, sub, rt[Header]) /\ KeyOf[n] \in Int
  BY RestingFacts
<1>2. Ordered(pa, rt, lf, Neg(KeyOf), L, sub)
  BY <1>1, OrderedMirror
<1>3. /\ - lo \in Int /\ - hi \in Int /\ \A a \in L : KeyOf[a] \in Int /\ Neg(KeyOf)[a] = - KeyOf[a]
      /\ KeyOf \in [Node -> Int] /\ Neg(Neg(KeyOf)) = KeyOf
  BY <1>1, OrderedFacts, NegNeg DEF Ordered, Neg
<1>4. ~ (k < KeyOf[n]) /\ - lo <= Neg(KeyOf)[n]
  <2>1. KeyOf[n] \in Int /\ Neg(KeyOf)[n] = - KeyOf[n]
    BY <1>3
  <2>2. QED BY <2>1
<1>5. ASSUME n = rt[Header] PROVE Place(lf, rt, L, sub, Nil, n, k, lo, hi)
  <2>1. First(rt, L, sub, n)
    BY <1>1, <1>5
  <2>2. rt[n] = Nil /\ Fits(Neg(KeyOf), rt, lf, L, sub, - hi, - lo, n)
    BY <1>2, <1>3, <1>4, <2>1, FitsFirst
  <2>3. QED BY <2>2, <1>1, <1>4 DEF Place
<1>6. ASSUME n # rt[Header], hi <= KeyOf[b]
      PROVE  /\ lf[b] = Nil => b \in L /\ Place(lf, rt, L, sub, b, b, k, lo, hi)
             /\ lf[b] # Nil => Place(lf, rt, L, sub, Nil, n, k, lo, hi)
  <2>1. PredOf(rt, lf, L, sub, n, b)
    <3>1. Fields(t, pa, lf, rt, co) /\ Fine(pa, lf, rt, co, KeyOf, L, sub, h, Nil, Nil, Nil)
      BY DEF Resting
    <3>2. QED BY <3>1, <1>6, IncrementIs
  <2>2. b \in L
    BY <2>1 DEF PredOf
  <2>3. Neg(KeyOf)[b] <= - hi
    <3>1. KeyOf[b] \in Int /\ Neg(KeyOf)[b] = - KeyOf[b]
      BY <1>3, <2>2
    <3>2. QED BY <3>1, <1>6
  <2>4. PICK ll, hh, kk : ll = - hi /\ hh = - lo /\ kk = Neg(KeyOf)
    OBVIOUS
  <2>5. /\ lf[b] = Nil => Fits(Neg(kk), lf, rt, L, sub, - hh, - ll, b)
        /\ lf[b] # Nil => rt[n] = Nil /\ Fits(kk, rt, lf, L, sub, ll, hh, n)
    <3>1. Ordered(pa, rt, lf, kk, L, sub) /\ ll \in Int /\ hh \in Int /\ kk[b] <= ll /\ hh <= kk[n]
      BY <1>2, <1>3, <1>4, <2>3, <2>4
    <3>2. QED BY <3>1, <2>1, FitsBeside
  <2>6. - hh = lo /\ - ll = hi /\ Neg(kk) = KeyOf
    BY <2>4, <1>3
  <2>7. /\ lf[b] = Nil => Fits(KeyOf, lf, rt, L, sub, lo, hi, b)
        /\ lf[b] # Nil => rt[n] = Nil /\ Fits(Neg(KeyOf), rt, lf, L, sub, - hi, - lo, n)
    BY ONLY <2>4, <2>5, <2>6
  <2>8. QED BY <2>7, <2>2, <1>1, <1>4 DEF Place
<1>7. QED BY <1>5, <1>6

\* At the hole.
LEMMA PlaceHole ==
    ASSUME NEW t, NEW pa, NEW lf, NEW rt, NEW co, NEW L, NEW sub, NEW h, Resting(t, pa, lf, rt, co, L, sub, h),
           NEW k \in Int, NEW y, y = Hole(t, k)
    PROVE  Place(lf, rt, L, sub, Nil, y, k, k, k)
<1>1. Fields(t, pa, lf, rt, co) /\ Ordered(pa, lf, rt, KeyOf, L, sub)
  BY RestingFacts DEF Resting
<1>2. /\ L = {} => y = Header
      /\ L # {} => /\ y \in L /\ Reached(KeyOf, lf, rt, L, sub, k, y)
                   /\ k < KeyOf[y] => lf[y] = Nil
                   /\ ~ (k < KeyOf[y]) => rt[y] = Nil
  BY <1>1, HoleEnds
<1>3. CASE L = {}
  BY <1>2, <1>3 DEF Place
<1>4. CASE L # {}
  <2>1. KeyOf[y] \in Int
    BY <1>2, <1>4, RestingFacts
  <2>2. y \in L /\ Reached(KeyOf, lf, rt, L, sub, k, y) /\ k <= k + 1 /\ k <= k
    BY <1>2, <1>4
  <2>3. /\ k < KeyOf[y] => Fits(KeyOf, lf, rt, L, sub, k, k, y)
        /\ KeyOf[y] <= k => Fits(Neg(KeyOf), rt, lf, L, sub, - k, - k, y)
    BY <1>1, <2>2, ReachedFits
  <2>4. ~ (k < KeyOf[y]) => KeyOf[y] <= k
    BY <2>1
  <2>5. QED BY <1>2, <1>4, <2>3, <2>4 DEF Place
<1>5. QED BY <1>3, <1>4

\* GetInsertUniquePos answers so,
LEMMA UniquePos ==
    ASSUME NEW t, NEW pa, NEW lf, NEW rt, NEW co, NEW L, NEW sub, NEW h, Resting(t, pa, lf, rt, co, L, sub, h),
           NEW k \in Int
    PROVE  UniqueAnswer(lf, rt, L, sub, GetInsertUniquePos(t, k), k)
<1>1. PICK y, pre, at : y = Hole(t, k) /\ pre = RBTreeDecrement(t, y) /\ at = GetInsertUniquePos(t, k)
  OBVIOUS
<1>2. Fields(t, pa, lf, rt, co) /\ Ordered(pa, lf, rt, KeyOf, L, sub) /\ LeftMost(t) = lf[Header] /\ Nil \notin L /\ Header \notin L /\ Nil # Header
  BY RestingFacts DEF Resting
<1>3. /\ L = {} => y = Header
      /\ L # {} => /\ y \in L /\ Reached(KeyOf, lf, rt, L, sub, k, y)
                   /\ k < KeyOf[y] => lf[y] = Nil
                   /\ ~ (k < KeyOf[y]) => rt[y] = Nil
  BY <1>1, <1>2, HoleEnds
<1>4. at = IF (y = Header \/ k < KeyOf[y]) /\ y = lf[Header] THEN <<Nil, y>>
           ELSE IF KeyOf[IF y = Header \/ k < KeyOf[y] THEN pre ELSE y] < k
                THEN <<IF y = Header \/ k < KeyOf[y] THEN y ELSE Nil, y>>
           ELSE <<IF y = Header \/ k < KeyOf[y] THEN pre ELSE y, Nil>>
  BY ONLY <1>1, <1>2 DEF GetInsertUniquePos
<1>5. CASE L = {}
  <2>1. y = Header /\ lf[Header] = Header
    BY <1>3, <1>5 DEF Resting
  <2>2. at = <<Nil, Header>>
    BY ONLY <1>4, <2>1
  <2>3. at[1] = Nil /\ at[2] = Header
    BY <2>2
  <2>4. QED BY <2>3, <1>1, <1>2, <1>5 DEF UniqueAnswer, Place
<1>6. CASE L # {}
  <2>1. y \in L /\ y # Header /\ Reached(KeyOf, lf, rt, L, sub, k, y) /\ KeyOf[y] \in Int /\ y # Nil
    BY <1>2, <1>3, <1>6, RestingFacts
  <2>2. PICK lo, hi : lo = k - 1 /\ hi = k + 1
    OBVIOUS
  <2>3. lo \in Int /\ hi \in Int /\ lo <= k /\ k <= hi /\ hi <= k + 1
    BY <2>2
  <2>4. CASE k < KeyOf[y]
    <3>1. lf[y] = Nil
      BY <1>3, <1>6, <2>4
    <3>2. CASE y = lf[Header]
      <4>1. at = <<Nil, y>>
        BY ONLY <1>4, <2>4, <3>2
      <4>2. First(lf, L, sub, y)
        BY <1>6, <3>2, RestingFacts
      <4>3. hi <= KeyOf[y]
        BY <2>1, <2>2, <2>4
      <4>4. Fits(KeyOf, lf, rt, L, sub, lo, hi, y)
        BY <1>2, <2>3, <4>2, <4>3, FitsFirst
      <4>5. at[1] = Nil /\ at[2] = y
        BY <4>1
      <4>6. QED BY ONLY <4>4, <4>5, <3>1, <2>1, <2>2, <2>4, <1>1 DEF UniqueAnswer, Place
    <3>3. CASE y # lf[Header]
      <4>1. PredOf(lf, rt, L, sub, y, pre)
        <5>1. Fields(t, pa, lf, rt, co) /\ Fine(pa, lf, rt, co, KeyOf, L, sub, h, Nil, Nil, Nil)
          BY DEF Resting
        <5>2. QED BY <5>1, <1>1, <2>1, <3>3, DecrementIs
      <4>2. pre \in L /\ Turn(rt, L, sub, y, pre)
        BY <4>1, <3>1 DEF PredOf
      <4>3. KeyOf[pre] \in Int /\ KeyOf[pre] <= k
        <5>1. y \in Under(sub, rt[pre])
          BY <4>2 DEF Turn
        <5>2. QED BY <5>1, <4>2, <2>1, RestingFacts DEF Reached
      <4>4. CASE KeyOf[pre] < k
        <5>1. at = <<y, y>>
          BY ONLY <1>4, <2>4, <3>3, <4>4
        <5>2. KeyOf[pre] <= lo /\ hi <= KeyOf[y]
          BY <4>3, <4>4, <2>1, <2>2, <2>4
        <5>3. Fits(KeyOf, lf, rt, L, sub, lo, hi, y)
          BY <1>2, <2>1, <2>3, <4>2, <5>2, FitsLeftOf
        <5>4. at[1] = y /\ at[2] = y
          BY <5>1
        <5>5. QED BY ONLY <5>3, <5>4, <3>1, <2>1, <2>2, <1>1 DEF UniqueAnswer, Place
      <4>5. CASE ~ (KeyOf[pre] < k)
        <5>1. at = <<pre, Nil>>
          BY ONLY <1>4, <2>4, <3>3, <4>5
        <5>2. KeyOf[pre] = k
          BY <4>3, <4>5
        <5>3. at[1] = pre /\ at[2] = Nil
          BY <5>1
        <5>4. QED BY ONLY <5>2, <5>3, <4>2, <1>1 DEF UniqueAnswer
      <4>6. QED BY <4>4, <4>5
    <3>4. QED BY <3>2, <3>3
  <2>5. CASE ~ (k < KeyOf[y])
    <3>1. rt[y] = Nil
      BY <1>3, <1>6, <2>5
    <3>2. CASE KeyOf[y] < k
      <4>1. at = <<Nil, y>>
        BY ONLY <1>4, <2>1, <2>5, <3>2
      <4>2. KeyOf[y] <= lo
        BY <3>2, <2>1, <2>2
      <4>3. Fits(Neg(KeyOf), rt, lf, L, sub, - hi, - lo, y)
        BY <1>2, <2>1, <2>3, <4>2, ReachedFits
      <4>4. at[1] = Nil /\ at[2] = y
        BY <4>1
      <4>5. QED BY ONLY <4>3, <4>4, <3>1, <2>1, <2>2, <2>5, <1>1 DEF UniqueAnswer, Place
    <3>3. CASE ~ (KeyOf[y] < k)
      <4>1. at = <<y, Nil>>
        BY ONLY <1>4, <2>1, <2>5, <3>3
      <4>2. KeyOf[y] = k
        BY <2>1, <2>5, <3>3
      <4>3. at[1] = y /\ at[2] = Nil
        BY <4>1
      <4>4. QED BY ONLY <4>2, <4>3, <2>1, <1>1 DEF UniqueAnswer
    <3>4. QED BY <3>2, <3>3
  <2>6. QED BY <2>4, <2>5
<1>7. QED BY <1>5, <1>6

\* A pair that is a place.
LEMMA PairUnique ==
    ASSUME NEW lf, NEW rt, NEW L, NEW sub, NEW c, NEW p, NEW k, NEW lo, NEW hi, lo = k - 1, hi = k + 1,
           Place(lf, rt, L, sub, c, p, k, lo, hi), Nil \notin L, Nil # Header
    PROVE  UniqueAnswer(lf, rt, L, sub, <<c, p>>, k)
<1>1. p # Nil
  BY DEF Place
<1>2. <<c, p>>[1] = c /\ <<c, p>>[2] = p
  OBVIOUS
<1>3. QED BY <1>1, <1>2 DEF UniqueAnswer

\* and GetInsertUniqueHintPos, whatever the hint.
LEMMA HintUniquePos ==
    ASSUME NEW t, NEW pa, NEW lf, NEW rt, NEW co, NEW L, NEW sub, NEW h, Resting(t, pa, lf, rt, co, L, sub, h),
           NEW k \in Int, NEW size, size > 0 => L # {}, NEW pos \in L \cup {Header}
    PROVE  UniqueAnswer(lf, rt, L, sub, GetInsertUniqueHintPos(t, size, pos, k), k)
<1>1. PICK before, after, at, last : /\ before = RBTreeDecrement(t, pos) /\ after = RBTreeIncrement(t, pos)
                                     /\ at = GetInsertUniqueHintPos(t, size, pos, k) /\ last = rt[Header]
  OBVIOUS
<1>2. Nil \notin L /\ Header \notin L /\ Nil # Header /\ LeftMost(t) = lf[Header] /\ RightMost(t) = rt[Header] /\ t.left = lf /\ t.right = rt
  BY RestingFacts
<1>3. UniqueAnswer(lf, rt, L, sub, GetInsertUniquePos(t, k), k)
  BY UniquePos
<1>4. PICK lo, hi : lo = k - 1 /\ hi = k + 1
  OBVIOUS
<1>5. lo \in Int /\ hi \in Int /\ lo <= k /\ k <= hi
  BY <1>4
<1>6. CASE pos = Header
  <2>1. at = IF size > 0 /\ KeyOf[last] < k THEN <<Nil, last>> ELSE GetInsertUniquePos(t, k)
    BY ONLY <1>1, <1>2, <1>6 DEF GetInsertUniqueHintPos
  <2>2. CASE size > 0 /\ KeyOf[last] < k
    <3>1. L # {}
      BY <2>2
    <3>2. last \in L
      BY <1>1, <3>1, RestingFacts DEF First
    <3>3. KeyOf[last] <= lo
      <4>1. KeyOf[last] \in Int
        BY <3>2, RestingFacts
      <4>2. QED BY <4>1, <2>2, <1>4
    <3>4. PICK b : b = RBTreeIncrement(t, last)
      OBVIOUS
    <3>5. Place(lf, rt, L, sub, Nil, last, k, lo, hi)
      BY <1>1, <1>5, <3>2, <3>3, <3>4, PlaceAfter
    <3>6. at = <<Nil, last>>
      BY <2>1, <2>2
    <3>7. QED BY <3>5, <3>6, <1>1, <1>2, <1>4, PairUnique
  <2>3. CASE ~ (size > 0 /\ KeyOf[last] < k)
    BY <2>1, <2>3, <1>1, <1>3
  <2>4. QED BY <2>2, <2>3
<1>7. CASE pos # Header
  <2>1. pos \in L /\ KeyOf[pos] \in Int
    BY <1>7, RestingFacts
  <2>2. at = IF k < KeyOf[pos] THEN
                 IF pos = lf[Header] THEN <<pos, pos>>
                 ELSE IF KeyOf[before] < k THEN
                     IF rt[before] = Nil THEN <<Nil, before>> ELSE <<pos, pos>>
                 ELSE GetInsertUniquePos(t, k)
             ELSE IF KeyOf[pos] < k THEN
                 IF pos = rt[Header] THEN <<Nil, pos>>
                 ELSE IF k < KeyOf[after] THEN
                     IF lf[after] = Nil THEN <<after, after>> ELSE <<Nil, pos>>
                 ELSE GetInsertUniquePos(t, k)
             ELSE <<pos, Nil>>
    BY ONLY <1>1, <1>2, <1>7 DEF GetInsertUniqueHintPos
  <2>3. CASE k < KeyOf[pos]
    <3>1. hi <= KeyOf[pos]
      BY <2>1, <2>3, <1>4
    <3>2. /\ pos = lf[Header] => Place(lf, rt, L, sub, pos, pos, k, lo, hi)
          /\ pos # lf[Header] /\ KeyOf[before] <= lo =>
                /\ rt[before] = Nil => before \in L /\ Place(lf, rt, L, sub, Nil, before, k, lo, hi)
                /\ rt[before] # Nil => Place(lf, rt, L, sub, pos, pos, k, lo, hi)
      BY <1>1, <1>5, <2>1, <3>1, PlaceBefore
    <3>3. CASE pos = lf[Header]
      <4>1. at = <<pos, pos>> /\ Place(lf, rt, L, sub, pos, pos, k, lo, hi)
        BY <2>2, <2>3, <3>2, <3>3
      <4>2. QED BY <4>1, <1>1, <1>2, <1>4, PairUnique
    <3>4. CASE pos # lf[Header] /\ KeyOf[before] < k
      <4>1. KeyOf[before] <= lo
        <5>1. before \in L
          <6>1. Fields(t, pa, lf, rt, co) /\ Fine(pa, lf, rt, co, KeyOf, L, sub, h, Nil, Nil, Nil)
            BY DEF Resting
          <6>2. PredOf(lf, rt, L, sub, pos, before)
            BY <6>1, <1>1, <2>1, <3>4, DecrementIs
          <6>3. QED BY <6>2 DEF PredOf
        <5>2. KeyOf[before] \in Int
          BY <5>1, RestingFacts
        <5>3. QED BY <5>2, <3>4, <1>4
      <4>2. CASE rt[before] = Nil
        <5>1. at = <<Nil, before>> /\ Place(lf, rt, L, sub, Nil, before, k, lo, hi)
          BY <2>2, <2>3, <3>2, <3>4, <4>1, <4>2
        <5>2. QED BY <5>1, <1>1, <1>2, <1>4, PairUnique
      <4>3. CASE rt[before] # Nil
        <5>1. at = <<pos, pos>> /\ Place(lf, rt, L, sub, pos, pos, k, lo, hi)
          BY <2>2, <2>3, <3>2, <3>4, <4>1, <4>3
        <5>2. QED BY <5>1, <1>1, <1>2, <1>4, PairUnique
      <4>4. QED BY <4>2, <4>3
    <3>5. CASE pos # lf[Header] /\ ~ (KeyOf[before] < k)
      BY <2>2, <2>3, <3>5, <1>1, <1>3
    <3>6. QED BY <3>3, <3>4, <3>5
  <2>4. CASE ~ (k < KeyOf[pos]) /\ KeyOf[pos] < k
    <3>1. KeyOf[pos] <= lo
      BY <2>1, <2>4, <1>4
    <3>2. /\ pos = rt[Header] => Place(lf, rt, L, sub, Nil, pos, k, lo, hi)
          /\ pos # rt[Header] /\ hi <= KeyOf[after] =>
                /\ lf[after] = Nil => after \in L /\ Place(lf, rt, L, sub, after, after, k, lo, hi)
                /\ lf[after] # Nil => Place(lf, rt, L, sub, Nil, pos, k, lo, hi)
      BY <1>1, <1>5, <2>1, <3>1, PlaceAfter
    <3>3. CASE pos = rt[Header]
      <4>1. at = <<Nil, pos>> /\ Place(lf, rt, L, sub, Nil, pos, k, lo, hi)
        BY <2>2, <2>4, <3>2, <3>3
      <4>2. QED BY <4>1, <1>1, <1>2, <1>4, PairUnique
    <3>4. CASE pos # rt[Header] /\ k < KeyOf[after]
      <4>1. hi <= KeyOf[after]
        <5>1. after \in L
          <6>1. Fields(t, pa, lf, rt, co) /\ Fine(pa, lf, rt, co, KeyOf, L, sub, h, Nil, Nil, Nil)
            BY DEF Resting
          <6>2. PredOf(rt, lf, L, sub, pos, after)
            BY <6>1, <1>1, <2>1, <3>4, IncrementIs
          <6>3. QED BY <6>2 DEF PredOf
        <5>2. KeyOf[after] \in Int
          BY <5>1, RestingFacts
        <5>3. QED BY <5>2, <3>4, <1>4
      <4>2. CASE lf[after] = Nil
        <5>1. at = <<after, after>> /\ Place(lf, rt, L, sub, after, after, k, lo, hi)
          BY <2>2, <2>4, <3>2, <3>4, <4>1, <4>2
        <5>2. QED BY <5>1, <1>1, <1>2, <1>4, PairUnique
      <4>3. CASE lf[after] # Nil
        <5>1. at = <<Nil, pos>> /\ Place(lf, rt, L, sub, Nil, pos, k, lo, hi)
          BY <2>2, <2>4, <3>2, <3>4, <4>1, <4>3
        <5>2. QED BY <5>1, <1>1, <1>2, <1>4, PairUnique
      <4>4. QED BY <4>2, <4>3
    <3>5. CASE pos # rt[Header] /\ ~ (k < KeyOf[after])
      BY <2>2, <2>4, <3>5, <1>1, <1>3
    <3>6. QED BY <3>3, <3>4, <3>5
  <2>5. CASE ~ (k < KeyOf[pos]) /\ ~ (KeyOf[pos] < k)
    <3>1. at = <<pos, Nil>>
      BY ONLY <2>2, <2>5
    <3>2. at[1] = pos /\ at[2] = Nil /\ KeyOf[pos] = k
      BY <3>1, <2>1, <2>5
    <3>3. QED BY ONLY <3>2, <2>1, <1>1 DEF UniqueAnswer
  <2>6. QED BY <2>3, <2>4, <2>5
<1>8. QED BY <1>6, <1>7

\* A place is such an answer.
LEMMA PairEqual ==
    ASSUME NEW lf, NEW rt, NEW L, NEW sub, NEW c, NEW p, NEW k, Place(lf, rt, L, sub, c, p, k, k, k)
    PROVE  EqualAnswer(lf, rt, L, sub, <<c, p>>, k)
<1>1. <<c, p>>[1] = c /\ <<c, p>>[2] = p
  OBVIOUS
<1>2. QED BY <1>1 DEF EqualAnswer

\* GetInsertEqualHintPos answers so, whatever the hint.
LEMMA HintEqualPos ==
    ASSUME NEW t, NEW pa, NEW lf, NEW rt, NEW co, NEW L, NEW sub, NEW h, Resting(t, pa, lf, rt, co, L, sub, h),
           NEW k \in Int, NEW size, size > 0 => L # {}, NEW pos \in L \cup {Header}
    PROVE  EqualAnswer(lf, rt, L, sub, GetInsertEqualHintPos(t, size, pos, k), k)
<1>1. PICK before, after, at, last, y : /\ before = RBTreeDecrement(t, pos) /\ after = RBTreeIncrement(t, pos)
                                        /\ at = GetInsertEqualHintPos(t, size, pos, k) /\ last = rt[Header]
                                        /\ y = Hole(t, k)
  OBVIOUS
<1>2. Nil \notin L /\ Header \notin L /\ Nil # Header /\ LeftMost(t) = lf[Header] /\ RightMost(t) = rt[Header] /\ t.left = lf /\ t.right = rt
  BY RestingFacts
<1>3. EqualAnswer(lf, rt, L, sub, <<Nil, y>>, k)
  <2>1. Place(lf, rt, L, sub, Nil, y, k, k, k)
    BY <1>1, PlaceHole
  <2>2. QED BY <2>1, PairEqual
<1>4. GetInsertEqualPos(t, k) = <<Nil, y>>
  BY <1>1 DEF GetInsertEqualPos
<1>5. k <= k
  OBVIOUS
<1>6. CASE pos = Header
  <2>1. at = IF size > 0 /\ ~ (k < KeyOf[last]) THEN <<Nil, last>> ELSE <<Nil, y>>
    BY ONLY <1>1, <1>2, <1>4, <1>6 DEF GetInsertEqualHintPos
  <2>2. CASE size > 0 /\ ~ (k < KeyOf[last])
    <3>1. L # {}
      BY <2>2
    <3>2. last \in L
      BY <1>1, <3>1, RestingFacts DEF First
    <3>3. KeyOf[last] <= k
      <4>1. KeyOf[last] \in Int
        BY <3>2, RestingFacts
      <4>2. QED BY <4>1, <2>2
    <3>4. PICK b : b = RBTreeIncrement(t, last)
      OBVIOUS
    <3>5. Place(lf, rt, L, sub, Nil, last, k, k, k)
      BY <1>1, <1>5, <3>2, <3>3, <3>4, PlaceAfter
    <3>6. at = <<Nil, last>>
      BY <2>1, <2>2
    <3>7. QED BY <3>5, <3>6, <1>1, PairEqual
  <2>3. CASE ~ (size > 0 /\ ~ (k < KeyOf[last]))
    BY <2>1, <2>3, <1>1, <1>3
  <2>4. QED BY <2>2, <2>3
<1>7. CASE pos # Header
  <2>1. pos \in L /\ KeyOf[pos] \in Int
    BY <1>7, RestingFacts
  <2>2. at = IF ~ (KeyOf[pos] < k) THEN
                 IF pos = lf[Header] THEN <<pos, pos>>
                 ELSE IF ~ (k < KeyOf[before]) THEN
                     IF rt[before] = Nil THEN <<Nil, before>> ELSE <<pos, pos>>
                 ELSE <<Nil, y>>
             ELSE IF pos = rt[Header] THEN <<Nil, pos>>
             ELSE IF ~ (KeyOf[after] < k) THEN
                 IF lf[after] = Nil THEN <<after, after>> ELSE <<Nil, pos>>
             ELSE <<Nil, y>>
    BY ONLY <1>1, <1>2, <1>4, <1>7 DEF GetInsertEqualHintPos
  <2>3. CASE ~ (KeyOf[pos] < k)
    <3>1. k <= KeyOf[pos]
      BY <2>1, <2>3
    <3>2. /\ pos = lf[Header] => Place(lf, rt, L, sub, pos, pos, k, k, k)
          /\ pos # lf[Header] /\ KeyOf[before] <= k =>
                /\ rt[before] = Nil => before \in L /\ Place(lf, rt, L, sub, Nil, before, k, k, k)
                /\ rt[before] # Nil => Place(lf, rt, L, sub, pos, pos, k, k, k)
      BY <1>1, <1>5, <2>1, <3>1, PlaceBefore
    <3>3. CASE pos = lf[Header]
      <4>1. at = <<pos, pos>> /\ Place(lf, rt, L, sub, pos, pos, k, k, k)
        BY <2>2, <2>3, <3>2, <3>3
      <4>2. QED BY <4>1, <1>1, PairEqual
    <3>4. CASE pos # lf[Header] /\ ~ (k < KeyOf[before])
      <4>1. KeyOf[before] <= k
        <5>1. before \in L
          <6>1. Fields(t, pa, lf, rt, co) /\ Fine(pa, lf, rt, co, KeyOf, L, sub, h, Nil, Nil, Nil)
            BY DEF Resting
          <6>2. PredOf(lf, rt, L, sub, pos, before)
            BY <6>1, <1>1, <2>1, <3>4, DecrementIs
          <6>3. QED BY <6>2 DEF PredOf
        <5>2. KeyOf[before] \in Int
          BY <5>1, RestingFacts
        <5>3. QED BY <5>2, <3>4
      <4>2. CASE rt[before] = Nil
        <5>1. at = <<Nil, before>> /\ Place(lf, rt, L, sub, Nil, before, k, k, k)
          BY <2>2, <2>3, <3>2, <3>4, <4>1, <4>2
        <5>2. QED BY <5>1, <1>1, PairEqual
      <4>3. CASE rt[before] # Nil
        <5>1. at = <<pos, pos>> /\ Place(lf, rt, L, sub, pos, pos, k, k, k)
          BY <2>2, <2>3, <3>2, <3>4, <4>1, <4>3
        <5>2. QED BY <5>1, <1>1, PairEqual
      <4>4. QED BY <4>2, <4>3
    <3>5. CASE pos # lf[Header] /\ ~ ~ (k < KeyOf[before])
      BY <2>2, <2>3, <3>5, <1>1, <1>3
    <3>6. QED BY <3>3, <3>4, <3>5
  <2>4. CASE KeyOf[pos] < k
    <3>1. KeyOf[pos] <= k
      BY <2>1, <2>4
    <3>2. /\ pos = rt[Header] => Place(lf, rt, L, sub, Nil, pos, k, k, k)
          /\ pos # rt[Header] /\ k <= KeyOf[after] =>
                /\ lf[after] = Nil => after \in L /\ Place(lf, rt, L, sub, after, after, k, k, k)
                /\ lf[after] # Nil => Place(lf, rt, L, sub, Nil, pos, k, k, k)
      BY <1>1, <1>5, <2>1, <3>1, PlaceAfter
    <3>3. CASE pos = rt[Header]
      <4>1. at = <<Nil, pos>> /\ Place(lf, rt, L, sub, Nil, pos, k, k, k)
        BY <2>2, <2>4, <3>2, <3>3
      <4>2. QED BY <4>1, <1>1, PairEqual
    <3>4. CASE pos # rt[Header] /\ ~ (KeyOf[after] < k)
      <4>1. k <= KeyOf[after]
        <5>1. after \in L
          <6>1. Fields(t, pa, lf, rt, co) /\ Fine(pa, lf, rt, co, KeyOf, L, sub, h, Nil, Nil, Nil)
            BY DEF Resting
          <6>2. PredOf(rt, lf, L, sub, pos, after)
            BY <6>1, <1>1, <2>1, <3>4, IncrementIs
          <6>3. QED BY <6>2 DEF PredOf
        <5>2. KeyOf[after] \in Int
          BY <5>1, RestingFacts
        <5>3. QED BY <5>2, <3>4
      <4>2. CASE lf[after] = Nil
        <5>1. at = <<after, after>> /\ Place(lf, rt, L, sub, after, after, k, k, k)
          BY <2>2, <2>4, <3>2, <3>4, <4>1, <4>2
        <5>2. QED BY <5>1, <1>1, PairEqual
      <4>3. CASE lf[after] # Nil
        <5>1. at = <<Nil, pos>> /\ Place(lf, rt, L, sub, Nil, pos, k, k, k)
          BY <2>2, <2>4, <3>2, <3>4, <4>1, <4>3
        <5>2. QED BY <5>1, <1>1, PairEqual
      <4>4. QED BY <4>2, <4>3
    <3>5. CASE pos # rt[Header] /\ ~ ~ (KeyOf[after] < k)
      BY <2>2, <2>4, <3>5, <1>1, <1>3
    <3>6. QED BY <3>3, <3>4, <3>5
  <2>6. QED BY <2>3, <2>4
<1>8. QED BY <1>6, <1>7

-----------------------------------------------------------------------------
(* The lookups.                                                            *)

\* LastKept is the end of its descent.
LEMMA LastKeptIs ==
    ASSUME NEW t, NEW pa, NEW lf, NEW rt, NEW s, t[s] = lf, t[Opposite(s)] = rt, t.parent = pa, NEW kept, NEW S, <<Header, pa[Header]>> \in S,
           \A w \in S : Keeping(S, kept, lf, rt)[w] \in S, NEW N, N = Cardinality(Node)
    PROVE  /\ N \in Nat
           /\ \E f \in [0..N + 1 -> S] : Orbit(f, Keeping(S, kept, lf, rt), <<Header, pa[Header]>>, N + 1) /\ LastKept(t, kept, s) = f[N + 1][1]
<1>1. N \in Nat /\ Steps = 0..N + 1
  BY FS_CardinalityType, Addresses DEF Steps
<1>2. PICK g, x : g = Keeping(S, kept, lf, rt) /\ x = <<Header, pa[Header]>>
  OBVIOUS
<1>3. \A w \in S : g[w] \in S /\ g[w] = IF w[2] = Nil THEN w ELSE IF w[2] \in kept THEN <<w[2], lf[w[2]]>> ELSE <<w[1], rt[w[2]]>>
  BY <1>2 DEF Keeping
<1>4. N + 1 \in Nat /\ x \in S
  BY <1>1, <1>2
<1>5. PICK f \in [0..N + 1 -> S] : Solves(f, g, x, N + 1)
  BY <1>3, <1>4, SolutionExists
<1>f. t[s] = lf /\ t[Opposite(s)] = rt /\ x = <<Header, Root(t)>>
  BY <1>2 DEF Root
<1> DEFINE walk == CHOOSE v : v = [i \in Steps |-> IF i = 0 THEN <<Header, Root(t)>>
                       ELSE IF v[i - 1][2] = Nil THEN v[i - 1]
                            ELSE IF v[i - 1][2] \in kept THEN <<v[i - 1][2], t[s][v[i - 1][2]]>> ELSE <<v[i - 1][1], t[Opposite(s)][v[i - 1][2]]>>]
<1>6. f = [i \in Steps |-> IF i = 0 THEN <<Header, Root(t)>>
                       ELSE IF f[i - 1][2] = Nil THEN f[i - 1]
                            ELSE IF f[i - 1][2] \in kept THEN <<f[i - 1][2], t[s][f[i - 1][2]]>> ELSE <<f[i - 1][1], t[Opposite(s)][f[i - 1][2]]>>]
  <2>1. ASSUME NEW i \in 0..N + 1
        PROVE  f[i] = IF i = 0 THEN <<Header, Root(t)>>
                       ELSE IF f[i - 1][2] = Nil THEN f[i - 1]
                            ELSE IF f[i - 1][2] \in kept THEN <<f[i - 1][2], t[s][f[i - 1][2]]>> ELSE <<f[i - 1][1], t[Opposite(s)][f[i - 1][2]]>>
    <3>1. f[i] = IF i = 0 THEN x ELSE g[f[i - 1]]
      BY <1>5 DEF Solves
    <3>2. i # 0 => i - 1 \in 0..N + 1
      BY <1>1
    <3>3. i # 0 => f[i - 1] \in S
      BY <3>2, <1>5
    <3>4. CASE i = 0
      BY <3>1, <3>4, <1>f
    <3>5. CASE i # 0
      <4>1. PICK w : w = f[i - 1]
        OBVIOUS
      <4>2. w \in S /\ f[i] = g[w]
        BY <3>1, <3>3, <3>5, <4>1
      <4>3. f[i] = IF w[2] = Nil THEN w ELSE IF w[2] \in kept THEN <<w[2], lf[w[2]]>> ELSE <<w[1], rt[w[2]]>>
        BY <4>2, <1>3
      <4>4. QED BY ONLY <4>1, <4>3, <3>5, <1>f
    <3>6. QED BY <3>4, <3>5
  <2>2. f = [i \in 0..N + 1 |-> f[i]]
    BY <1>5
  <2>3. QED BY ONLY <2>1, <2>2, <1>1
<1>7. PICK v : v = walk
  OBVIOUS
<1>8. v = [i \in Steps |-> IF i = 0 THEN <<Header, Root(t)>>
                       ELSE IF v[i - 1][2] = Nil THEN v[i - 1]
                            ELSE IF v[i - 1][2] \in kept THEN <<v[i - 1][2], t[s][v[i - 1][2]]>> ELSE <<v[i - 1][1], t[Opposite(s)][v[i - 1][2]]>>]
  <2>1. \E u : u = [i \in Steps |-> IF i = 0 THEN <<Header, Root(t)>>
                       ELSE IF u[i - 1][2] = Nil THEN u[i - 1]
                            ELSE IF u[i - 1][2] \in kept THEN <<u[i - 1][2], t[s][u[i - 1][2]]>> ELSE <<u[i - 1][1], t[Opposite(s)][u[i - 1][2]]>>]
    BY ONLY <1>6
  <2>2. QED BY ONLY <2>1, <1>7
<1> HIDE DEF walk
<1>9. \A i \in 0..N + 1 : v[i] = IF i = 0 THEN x
                       ELSE IF v[i - 1][2] = Nil THEN v[i - 1]
                            ELSE IF v[i - 1][2] \in kept THEN <<v[i - 1][2], lf[v[i - 1][2]]>> ELSE <<v[i - 1][1], rt[v[i - 1][2]]>>
  <2>1. \A i \in Steps : v[i] = IF i = 0 THEN <<Header, Root(t)>>
                       ELSE IF v[i - 1][2] = Nil THEN v[i - 1]
                            ELSE IF v[i - 1][2] \in kept THEN <<v[i - 1][2], t[s][v[i - 1][2]]>> ELSE <<v[i - 1][1], t[Opposite(s)][v[i - 1][2]]>>
    BY ONLY <1>8
  <2>2. QED BY ONLY <2>1, <1>1, <1>f
<1>10. Follows(v, g, S, x, N + 1)
  <2>1. v = [i \in 0..N + 1 |-> v[i]]
    BY ONLY <1>1, <1>8
  <2>2. v[0] = x
    <3>1. 0 \in 0..N + 1
      BY <1>1
    <3>2. QED BY ONLY <3>1, <1>9
  <2>3. ASSUME NEW i \in 0..(N + 1) - 1, v[i] \in S PROVE v[i + 1] = g[v[i]]
    <3>1. i + 1 \in 0..N + 1 /\ i + 1 # 0 /\ (i + 1) - 1 = i
      BY <1>1
    <3>2. v[i + 1] = IF v[i][2] = Nil THEN v[i] ELSE IF v[i][2] \in kept THEN <<v[i][2], lf[v[i][2]]>> ELSE <<v[i][1], rt[v[i][2]]>>
      BY ONLY <3>1, <1>9
    <3>3. QED BY ONLY <3>2, <2>3, <1>3
  <2>4. QED BY <2>1, <2>2, <2>3 DEF Follows
<1>11. v \in [0..N + 1 -> S] /\ Orbit(v, g, x, N + 1)
  BY ONLY <1>3, <1>4, <1>10, FollowsOrbit
<1>12. LastKept(t, kept, s) = v[N + 1][1]
  <2>1. N + 1 = Cardinality(Node) + 1
    OBVIOUS
  <2>2. QED BY ONLY <2>1, <1>7 DEF LastKept, walk
<1>13. QED BY <1>1, <1>2, <1>11, <1>12

\* What holds of every state of the descent holds at its end.
LEMMA LastKeptEnds ==
    ASSUME NEW t, NEW pa, NEW lf, NEW rt, NEW s, Handed(t, s, pa, lf, rt),
           NEW L, NEW sub, Tied(pa, lf, rt, L, sub), NEW kept, NEW S, KeepsIn(S, kept, pa, lf, rt, L)
    PROVE  \E w \in S : w[2] = Nil /\ LastKept(t, kept, s) = w[1]
<1>1. PICK g, N : g = Keeping(S, kept, lf, rt) /\ N = Cardinality(Node)
  OBVIOUS
<1>2. \A w \in S : g[w] = IF w[2] = Nil THEN w
                          ELSE IF w[2] \in kept THEN <<w[2], lf[w[2]]>> ELSE <<w[1], rt[w[2]]>>
  BY <1>1 DEF Keeping
<1>3. ASSUME NEW w \in S PROVE g[w] \in S
  <2>1. w[2] # Nil => IF w[2] \in kept THEN <<w[2], lf[w[2]]>> \in S ELSE <<w[1], rt[w[2]]>> \in S
    BY DEF KeepsIn
  <2>2. g[w] = IF w[2] = Nil THEN w ELSE IF w[2] \in kept THEN <<w[2], lf[w[2]]>> ELSE <<w[1], rt[w[2]]>>
    BY <1>2
  <2>3. CASE w[2] = Nil
    BY <2>2, <2>3
  <2>4. CASE w[2] # Nil /\ w[2] \in kept
    BY <2>1, <2>2, <2>4
  <2>5. CASE w[2] # Nil /\ w[2] \notin kept
    BY <2>1, <2>2, <2>5
  <2>6. QED BY <2>3, <2>4, <2>5
<1>4. Descends(g, S, lf, rt, L)
  <2>1. ASSUME NEW w \in S, w[2] # Nil PROVE g[w][2] = lf[w[2]] \/ g[w][2] = rt[w[2]]
    <3>1. CASE w[2] \in kept
      <4>1. g[w] = <<w[2], lf[w[2]]>>
        BY <1>2, <2>1, <3>1
      <4>2. QED BY <4>1
    <3>2. CASE w[2] \notin kept
      <4>1. g[w] = <<w[1], rt[w[2]]>>
        BY <1>2, <2>1, <3>2
      <4>2. QED BY <4>1
    <3>3. QED BY <3>1, <3>2
  <2>2. \A w \in S : w[2] = Nil => g[w] = w
    BY <1>2
  <2>3. \A w \in S : w[2] \in L \cup {Nil}
    BY DEF KeepsIn
  <2>4. QED BY <2>1, <2>2, <2>3, <1>3 DEF Descends
<1>5. <<Header, pa[Header]>> \in S
  BY DEF KeepsIn
<1>6. PICK f \in [0..N + 1 -> S] : Orbit(f, g, <<Header, pa[Header]>>, N + 1) /\ LastKept(t, kept, s) = f[N + 1][1]
  BY <1>1, <1>3, <1>5, LastKeptIs DEF Handed
<1>7. f[N + 1] \in S /\ f[N + 1][2] = Nil
  BY <1>1, <1>4, <1>6, DescentEnds
<1>8. QED BY <1>6, <1>7

\* It holds at the root,
LEMMA FindingStarts ==
    ASSUME NEW pa, NEW lf, NEW rt, NEW L, NEW sub, Ordered(pa, lf, rt, KeyOf, L, sub), NEW k \in Int
    PROVE  <<Header, pa[Header]>> \in Finding(lf, rt, L, sub, k)
<1>1. Tied(pa, lf, rt, L, sub)
  BY DEF Ordered
<1>2. Header \notin L /\ Nil \notin L
  BY <1>1, Below
<1>3. pa[Header] \in L \cup {Nil} /\ (L # {} => pa[Header] # Nil /\ sub[pa[Header]] = L)
  BY <1>1 DEF Tied
<1>4. PICK r : r = pa[Header]
  OBVIOUS
<1>5. L # {} => Under(sub, r) = L
  BY <1>3, <1>4 DEF Under
<1>6. <<Header, r>>[1] = Header /\ <<Header, r>>[2] = r /\ <<Header, r>> \in (L \cup {Header}) \X (L \cup {Nil})
  BY <1>3, <1>4
<1>7. <<Header, r>> \in Finding(lf, rt, L, sub, k)
  BY ONLY <1>2, <1>5, <1>6 DEF Finding
<1>8. QED BY <1>4, <1>7

\* and one node further down.
LEMMA FindingGoes ==
    ASSUME NEW pa, NEW lf, NEW rt, NEW L, NEW sub, Ordered(pa, lf, rt, KeyOf, L, sub), NEW k \in Int,
           NEW y, NEW x, <<y, x>> \in Finding(lf, rt, L, sub, k), x # Nil
    PROVE  IF ~ (KeyOf[x] < k) THEN <<x, lf[x]>> \in Finding(lf, rt, L, sub, k) ELSE <<y, rt[x]>> \in Finding(lf, rt, L, sub, k)
<1>1. /\ y \in L \cup {Header} /\ x \in L
      /\ y \in L => k <= KeyOf[y] /\ \A m \in Under(sub, x) : KeyOf[m] <= KeyOf[y]
      /\ \A m \in L : KeyOf[m] = k => \/ y \in L /\ KeyOf[y] = k
                                     \/ \E d \in Under(sub, x) : KeyOf[d] = k
  BY DEF Finding
<1>2. /\ KeyOf[x] \in Int /\ Under(sub, x) = {x} \cup Under(sub, lf[x]) \cup Under(sub, rt[x])
      /\ \A m \in Under(sub, lf[x]) : KeyOf[m] \in Int /\ KeyOf[m] <= KeyOf[x]
      /\ \A m \in Under(sub, rt[x]) : KeyOf[m] \in Int /\ KeyOf[x] <= KeyOf[m]
  <2>1. x # Nil
    OBVIOUS
  <2>2. QED BY <1>1, <2>1, OrderedFacts DEF Under
<1>3. lf[x] \in L \cup {Nil} /\ rt[x] \in L \cup {Nil}
  BY <1>1 DEF Ordered, Tied
<1>4. y \in L => KeyOf[y] \in Int
  BY OrderedFacts
<1>5. ASSUME ~ (KeyOf[x] < k) PROVE <<x, lf[x]>> \in Finding(lf, rt, L, sub, k)
  <2>1. PICK c : c = lf[x]
    OBVIOUS
  <2>2. k <= KeyOf[x] /\ \A m \in Under(sub, c) : KeyOf[m] <= KeyOf[x]
    BY <1>2, <1>5, <2>1
  <2>3. ASSUME NEW m \in L, KeyOf[m] = k PROVE KeyOf[x] = k \/ \E d \in Under(sub, c) : KeyOf[d] = k
    <3>1. CASE y \in L /\ KeyOf[y] = k
      <4>1. KeyOf[x] <= KeyOf[y]
        BY <3>1, <1>1, <1>2
      <4>2. QED BY <4>1, <3>1, <1>2, <1>5
    <3>2. CASE \E d \in Under(sub, x) : KeyOf[d] = k
      <4>1. PICK d \in Under(sub, x) : KeyOf[d] = k
        BY <3>2
      <4>2. d \in Under(sub, rt[x]) => KeyOf[x] = k
        <5>1. d \in Under(sub, rt[x]) => KeyOf[x] <= k
          BY <4>1, <1>2
        <5>2. QED BY <5>1, <1>2, <1>5
      <4>3. QED BY <4>1, <4>2, <1>2, <2>1
    <3>3. QED BY <3>1, <3>2, <2>3, <1>1
  <2>4. <<x, c>> \in Finding(lf, rt, L, sub, k)
    <3>1. <<x, c>>[1] = x /\ <<x, c>>[2] = c /\ <<x, c>> \in (L \cup {Header}) \X (L \cup {Nil})
      BY <1>1, <1>3, <2>1
    <3>2. QED BY ONLY <3>1, <2>2, <2>3, <1>1 DEF Finding
  <2>5. QED BY <2>1, <2>4
<1>6. ASSUME KeyOf[x] < k PROVE <<y, rt[x]>> \in Finding(lf, rt, L, sub, k)
  <2>1. PICK c : c = rt[x]
    OBVIOUS
  <2>2. y \in L => k <= KeyOf[y] /\ \A m \in Under(sub, c) : KeyOf[m] <= KeyOf[y]
    BY <1>1, <1>2, <2>1
  <2>3. ASSUME NEW m \in L, KeyOf[m] = k PROVE (y \in L /\ KeyOf[y] = k) \/ \E d \in Under(sub, c) : KeyOf[d] = k
    <3>1. CASE \E d \in Under(sub, x) : KeyOf[d] = k
      <4>1. PICK d \in Under(sub, x) : KeyOf[d] = k
        BY <3>1
      <4>2. d # x
        BY <4>1, <1>2, <1>6
      <4>3. d \notin Under(sub, lf[x])
        <5>1. d \in Under(sub, lf[x]) => k <= KeyOf[x]
          BY <4>1, <1>2
        <5>2. QED BY <5>1, <1>2, <1>6
      <4>4. QED BY <4>1, <4>2, <4>3, <1>2, <2>1
    <3>2. QED BY <3>1, <2>3, <1>1
  <2>4. <<y, c>> \in Finding(lf, rt, L, sub, k)
    <3>1. <<y, c>>[1] = y /\ <<y, c>>[2] = c /\ <<y, c>> \in (L \cup {Header}) \X (L \cup {Nil})
      BY <1>1, <1>3, <2>1
    <3>2. QED BY ONLY <3>1, <2>2, <2>3, <1>1 DEF Finding
  <2>5. QED BY <2>1, <2>4
<1>7. QED BY <1>5, <1>6

\* find() finds an element of the key if there is one.
LEMMA FindIs ==
    ASSUME NEW t, NEW pa, NEW lf, NEW rt, NEW co, NEW L, NEW sub, NEW h, Resting(t, pa, lf, rt, co, L, sub, h),
           NEW k \in Int
    PROVE  /\ (\E m \in L : KeyOf[m] = k) => find(t, k) \in L /\ KeyOf[find(t, k)] = k
           /\ (\A m \in L : KeyOf[m] # k) => find(t, k) = Header
<1>1. PICK S, kept, y : S = Finding(lf, rt, L, sub, k) /\ kept = {x \in Node : ~ (KeyOf[x] < k)} /\ y = LastKept(t, kept, "left")
  OBVIOUS
<1>2. Ordered(pa, lf, rt, KeyOf, L, sub) /\ Tied(pa, lf, rt, L, sub) /\ Header \notin L /\ L \subseteq Node
  <2>1. Ordered(pa, lf, rt, KeyOf, L, sub) /\ Tied(pa, lf, rt, L, sub) /\ Header \notin L
    BY RestingFacts
  <2>2. QED BY <2>1 DEF Tied
<1>3. t["left"] = lf /\ t[Opposite("left")] = rt /\ t.parent = pa
  BY RestingFacts DEF Opposite
<1>4. KeepsIn(S, kept, pa, lf, rt, L)
  <2>1. <<Header, pa[Header]>> \in S
    BY <1>1, <1>2, FindingStarts
  <2>2. ASSUME NEW w \in S PROVE /\ w[2] \in L \cup {Nil}
                                 /\ w[2] # Nil => IF w[2] \in kept THEN <<w[2], lf[w[2]]>> \in S ELSE <<w[1], rt[w[2]]>> \in S
    <3>1. w[2] \in L \cup {Nil} /\ w = <<w[1], w[2]>>
      BY <1>1 DEF Finding
    <3>2. PICK v, x : v = w[1] /\ x = w[2]
      OBVIOUS
    <3>3. x # Nil => IF ~ (KeyOf[x] < k) THEN <<x, lf[x]>> \in S ELSE <<v, rt[x]>> \in S
      <4>1. <<v, x>> \in Finding(lf, rt, L, sub, k)
        BY <3>1, <3>2, <1>1
      <4>2. QED BY <4>1, <1>1, <1>2, FindingGoes
    <3>4. x # Nil => (x \in kept <=> ~ (KeyOf[x] < k))
      BY <3>1, <3>2, <1>1, <1>2
    <3>5. QED BY ONLY <3>1, <3>2, <3>3, <3>4
  <2>3. QED BY <2>1, <2>2 DEF KeepsIn
<1>5. PICK w \in S : w[2] = Nil /\ y = w[1]
  <2>1. PICK s : s = "left"
    OBVIOUS
  <2>2. Handed(t, s, pa, lf, rt) /\ Tied(pa, lf, rt, L, sub)
        /\ KeepsIn(S, kept, pa, lf, rt, L) /\ y = LastKept(t, kept, s)
    BY <2>1, <1>1, <1>2, <1>3, <1>4 DEF Handed
  <2>3. \E w \in S : w[2] = Nil /\ LastKept(t, kept, s) = w[1]
    BY ONLY <2>2, LastKeptEnds
  <2>4. QED BY ONLY <2>2, <2>3
<1>6. /\ y \in L \cup {Header} /\ (y \in L => k <= KeyOf[y])
      /\ \A m \in L : KeyOf[m] = k => y \in L /\ KeyOf[y] = k
  <2>1. Under(sub, w[2]) = {}
    BY <1>5 DEF Under
  <2>2. QED BY <2>1, <1>1, <1>5 DEF Finding
<1>7. find(t, k) = IF y = Header THEN Header ELSE IF k < KeyOf[y] THEN Header ELSE y
  BY <1>1 DEF find
<1>8. y \in L => KeyOf[y] \in Int
  BY RestingFacts
<1>9. QED BY <1>2, <1>6, <1>7, <1>8

\* The root, for use by name.
LEMMA RootFacts ==
    ASSUME NEW pa, NEW lf, NEW rt, NEW L, NEW sub, Tied(pa, lf, rt, L, sub), L # {}, NEW r, r = pa[Header]
    PROVE  /\ r \in L /\ r # Nil /\ sub[r] = L /\ Nil \notin L /\ Header \notin L
           /\ \A a \in L : r \in sub[a] => a = r
<1>1. Nil \notin L /\ Header \notin L
  BY Below
<1>2. r \in L /\ r # Nil /\ sub[r] = L
  BY <1>1 DEF Tied
<1>3. ASSUME NEW a \in L, r \in sub[a] PROVE a = r
  <2>1. Tied(pa, lf, rt, L, sub) /\ a \in L /\ r \in L /\ r \in sub[a] /\ a \in sub[r]
    BY <1>2, <1>3
  <2>2. QED BY ONLY <2>1, NotBoth
<1>4. QED BY <1>1, <1>2, <1>3

-----------------------------------------------------------------------------
(* The way up from a node.                                                 *)

\* UpPath goes from a node to its parent.
LEMMA UpPathIs ==
    ASSUME NEW t, NEW pa, t.parent = pa, NEW lf, NEW rt, NEW L, NEW sub, Tied(pa, lf, rt, L, sub), NEW n \in L,
           NEW N, N = Cardinality(Node)
    PROVE  Steps = 0..N + 1 /\ Rises(UpPath(t, n), pa, L, n, N)
<1>1. N \in Nat /\ Steps = 0..N + 1
  BY FS_CardinalityType, Addresses DEF Steps
<1>2. PICK g, S : g = Upwards(S, pa) /\ S = L \cup {Header}
  <2>1. PICK S : S = L \cup {Header}
    OBVIOUS
  <2>2. QED BY <2>1
<1>a. Header \notin Node /\ L \subseteq Node
  BY NilNotAddr DEF Tied
<1>3. \A a \in S : g[a] \in S /\ g[a] = IF a \in Node THEN pa[a] ELSE a
  <2>1. \A a \in L : pa[a] \in S
    BY <1>2 DEF Tied
  <2>2. QED BY <2>1, <1>2, <1>a DEF Upwards
<1>4. N + 1 \in Nat /\ n \in S
  BY <1>1, <1>2
<1>5. PICK f \in [0..N + 1 -> S] : Solves(f, g, n, N + 1)
  BY <1>3, <1>4, SolutionExists
<1> DEFINE walk == CHOOSE v : v = [i \in Steps |-> IF i = 0 THEN n
                       ELSE IF v[i - 1] \in Node THEN t.parent[v[i - 1]] ELSE v[i - 1]]
<1>6. f = [i \in Steps |-> IF i = 0 THEN n
                       ELSE IF f[i - 1] \in Node THEN t.parent[f[i - 1]] ELSE f[i - 1]]
  <2>1. ASSUME NEW i \in 0..N + 1
        PROVE  f[i] = IF i = 0 THEN n ELSE IF f[i - 1] \in Node THEN t.parent[f[i - 1]] ELSE f[i - 1]
    <3>1. f[i] = IF i = 0 THEN n ELSE g[f[i - 1]]
      BY <1>5 DEF Solves
    <3>2. i # 0 => i - 1 \in 0..N + 1
      BY <1>1
    <3>3. i # 0 => f[i - 1] \in S
      BY <3>2, <1>5
    <3>4. CASE i = 0
      BY <3>1, <3>4
    <3>5. CASE i # 0
      <4>1. f[i - 1] \in S
        BY <3>3, <3>5
      <4>2. g[f[i - 1]] = IF f[i - 1] \in Node THEN pa[f[i - 1]] ELSE f[i - 1]
        BY <4>1, <1>3
      <4>3. QED BY <3>1, <3>5, <4>2
    <3>6. QED BY <3>4, <3>5
  <2>2. f = [i \in 0..N + 1 |-> f[i]]
    BY <1>5
  <2>3. QED BY ONLY <2>1, <2>2, <1>1
<1>7. PICK v : v = walk
  OBVIOUS
<1>8. v = [i \in Steps |-> IF i = 0 THEN n
                       ELSE IF v[i - 1] \in Node THEN t.parent[v[i - 1]] ELSE v[i - 1]]
  <2>1. \E u : u = [i \in Steps |-> IF i = 0 THEN n
                       ELSE IF u[i - 1] \in Node THEN t.parent[u[i - 1]] ELSE u[i - 1]]
    BY ONLY <1>6
  <2>2. QED BY ONLY <2>1, <1>7
<1> HIDE DEF walk
<1>9. \A i \in 0..N + 1 : v[i] = IF i = 0 THEN n ELSE IF v[i - 1] \in Node THEN pa[v[i - 1]] ELSE v[i - 1]
  <2>1. \A i \in Steps : v[i] = IF i = 0 THEN n ELSE IF v[i - 1] \in Node THEN t.parent[v[i - 1]] ELSE v[i - 1]
    BY ONLY <1>8
  <2>2. t.parent = pa
    OBVIOUS
  <2>3. QED BY ONLY <2>1, <2>2, <1>1
<1>10. Follows(v, g, S, n, N + 1)
  <2>1. v = [i \in 0..N + 1 |-> v[i]]
    BY ONLY <1>1, <1>8
  <2>2. v[0] = n
    <3>1. 0 \in 0..N + 1
      BY <1>1
    <3>2. QED BY ONLY <3>1, <1>9
  <2>3. ASSUME NEW i \in 0..(N + 1) - 1, v[i] \in S PROVE v[i + 1] = g[v[i]]
    <3>1. i + 1 \in 0..N + 1 /\ i + 1 # 0 /\ (i + 1) - 1 = i
      BY <1>1
    <3>2. v[i + 1] = IF v[i] \in Node THEN pa[v[i]] ELSE v[i]
      BY ONLY <3>1, <1>9
    <3>3. QED BY ONLY <3>2, <2>3, <1>3
  <2>4. QED BY <2>1, <2>2, <2>3 DEF Follows
<1>11. v \in [0..N + 1 -> S] /\ Orbit(v, g, n, N + 1)
  BY ONLY <1>3, <1>4, <1>10, FollowsOrbit
<1>12. UpPath(t, n) = v
  BY ONLY <1>7 DEF UpPath, walk
<1>13. v[0] = n /\ \A k \in 0..N : v[k + 1] = IF v[k] \in L THEN pa[v[k]] ELSE Header
  <2>1. v[0] = n /\ \A k \in 0..(N + 1) - 1 : v[k + 1] = g[v[k]]
    BY ONLY <1>11 DEF Orbit
  <2>2. (N + 1) - 1 = N
    BY <1>1
  <2>3. \A k \in 0..N : v[k] \in S
    BY <1>1, <1>11
  <2>4. \A a \in S : g[a] = IF a \in L THEN pa[a] ELSE Header
    BY <1>2, <1>3, <1>a
  <2>5. QED BY ONLY <2>1, <2>2, <2>3, <2>4
<1>14. Rises(v, pa, L, n, N)
  <2>1. v \in [0..N + 1 -> L \cup {Header}]
    BY <1>2, <1>11
  <2>2. QED BY <2>1, <1>1, <1>13 DEF Rises
<1>15. QED BY <1>1, <1>12, <1>14

\* It meets only nodes that have n below them,
LEMMA RisesThrough ==
    ASSUME NEW pa, NEW lf, NEW rt, NEW L, NEW sub, Tied(pa, lf, rt, L, sub), NEW n \in L, NEW f, NEW N,
           Rises(f, pa, L, n, N)
    PROVE  \A k \in 0..N + 1 : f[k] \in L => n \in sub[f[k]]
<1>1. N \in Nat /\ (\A k \in 0..N + 1 : f[k] \in L \cup {Header}) /\ f[0] = n
      /\ \A k \in 0..N : f[k + 1] = IF f[k] \in L THEN pa[f[k]] ELSE Header
  BY DEF Rises
<1>2. Header \notin L
  BY Below
<1> DEFINE T == {k \in Nat : k <= N + 1 /\ f[k] \in L => n \in sub[f[k]]}
<1>3. 0 \in T
  BY <1>1, Below
<1>4. ASSUME NEW k \in Nat, k \in T PROVE k + 1 \in T
  <2>1. SUFFICES ASSUME k + 1 <= N + 1, f[k + 1] \in L PROVE n \in sub[f[k + 1]]
    OBVIOUS
  <2>2. k \in 0..N /\ k \in 0..N + 1 /\ (f[k] \in L => n \in sub[f[k]])
    BY <2>1, <1>1, <1>4
  <2>3. PICK c : c = f[k]
    OBVIOUS
  <2>4. c \in L /\ f[k + 1] = pa[c] /\ n \in sub[c]
    BY <2>1, <2>2, <2>3, <1>1, <1>2
  <2>5. c \in sub[pa[c]]
    BY <2>1, <2>4, <1>2, Parents
  <2>6. sub[c] \subseteq sub[pa[c]]
    BY <2>1, <2>4, <2>5, Nested
  <2>7. QED BY <2>4, <2>6
<1>5. Nat \subseteq T
  <2> HIDE DEF T
  <2>1. QED BY <1>3, <1>4, SetInduction
<1>6. QED BY <1>1, <1>5

\* ends at the header,
LEMMA RisesToHeader ==
    ASSUME NEW pa, NEW lf, NEW rt, NEW L, NEW sub, Tied(pa, lf, rt, L, sub), NEW n \in L, NEW f, NEW N,
           Rises(f, pa, L, n, N)
    PROVE  f[N + 1] = Header
<1>1. N \in Nat /\ N = Cardinality(Node) /\ (\A k \in 0..N + 1 : f[k] \in L \cup {Header}) /\ f[0] = n
      /\ \A k \in 0..N : f[k + 1] = IF f[k] \in L THEN pa[f[k]] ELSE Header
  BY DEF Rises
<1>2. \A a \in L : Cardinality(sub[a]) \in Nat /\ Cardinality(sub[a]) <= N
  <2>1. \A a \in L : Cardinality(sub[a]) \in Nat /\ Cardinality(sub[a]) <= Cardinality(L) /\ Cardinality(L) \in Nat /\ L \subseteq Node
    BY Below
  <2>2. L # {} => Cardinality(L) <= N
    BY <2>1, <1>1, Addresses, FS_Subset
  <2>3. QED BY <2>1, <2>2, <1>1
<1> DEFINE T == {k \in Nat : k <= N + 1 => f[k] = Header \/ Cardinality(sub[f[k]]) >= k + 1}
<1>3. 0 \in T
  <2>1. n \in sub[n] /\ IsFiniteSet(sub[n])
    BY Below
  <2>2. Cardinality(sub[n]) # 0
    BY <2>1, FS_EmptySet
  <2>3. QED BY <2>1, <2>2, <1>1, <1>2
<1>4. ASSUME NEW k \in Nat, k \in T PROVE k + 1 \in T
  <2>1. SUFFICES ASSUME k + 1 <= N + 1 PROVE f[k + 1] = Header \/ Cardinality(sub[f[k + 1]]) >= (k + 1) + 1
    OBVIOUS
  <2>2. k \in 0..N /\ k \in 0..N + 1 /\ (f[k] = Header \/ Cardinality(sub[f[k]]) >= k + 1)
    BY <2>1, <1>1, <1>4
  <2>3. PICK c : c = f[k]
    OBVIOUS
  <2>4. c \in L \cup {Header} /\ f[k + 1] = IF c \in L THEN pa[c] ELSE Header
    BY <2>2, <2>3, <1>1
  <2>5. ASSUME c \in L, pa[c] # Header PROVE Cardinality(sub[pa[c]]) >= (k + 1) + 1
    <3>1. pa[c] \in L /\ (c = lf[pa[c]] \/ c = rt[pa[c]])
      BY <2>5, Parents
    <3>2. Nil \notin L /\ Header \notin L
      BY Below
    <3>3. Cardinality(sub[c]) < Cardinality(sub[pa[c]])
      BY <3>1, <3>2, <2>5, Below
    <3>4. Cardinality(sub[c]) >= k + 1
      BY <3>2, <2>2, <2>3, <2>5
    <3>5. Cardinality(sub[c]) \in Nat /\ Cardinality(sub[pa[c]]) \in Nat
      BY <3>1, <2>5, <1>2
    <3>6. QED BY <3>3, <3>4, <3>5
  <2>6. QED BY <2>4, <2>5
<1>5. Nat \subseteq T
  <2> HIDE DEF T
  <2>1. QED BY <1>3, <1>4, SetInduction
<1>6. N + 1 \in Nat /\ N + 1 \in 0..N + 1
  BY <1>1
<1>7. f[N + 1] = Header \/ Cardinality(sub[f[N + 1]]) >= (N + 1) + 1
  BY <1>5, <1>6
<1>8. f[N + 1] # Header => Cardinality(sub[f[N + 1]]) \in Nat /\ Cardinality(sub[f[N + 1]]) <= N
  BY <1>1, <1>2, <1>6
<1>9. QED BY <1>1, <1>7, <1>8

\* and meets every node that has n below it.
LEMMA RisesToAll ==
    ASSUME NEW pa, NEW lf, NEW rt, NEW L, NEW sub, Tied(pa, lf, rt, L, sub), NEW n \in L, NEW f, NEW N,
           Rises(f, pa, L, n, N), NEW a \in L, n \in sub[a]
    PROVE  \E k \in 0..N + 1 : f[k] = a
<1>1. N \in Nat /\ (\A k \in 0..N + 1 : f[k] \in L \cup {Header}) /\ f[0] = n
      /\ \A k \in 0..N : f[k + 1] = IF f[k] \in L THEN pa[f[k]] ELSE Header
  BY DEF Rises
<1>2. Header \notin L /\ Nil \notin L /\ sub[a] \subseteq L
  BY Below
<1> DEFINE T == {k \in Nat : k <= N + 1 => (\E i \in 0..N + 1 : f[i] = a) \/ f[k] \in sub[a]}
<1>3. 0 \in T
  BY <1>1
<1>4. ASSUME NEW k \in Nat, k \in T PROVE k + 1 \in T
  <2>1. SUFFICES ASSUME k + 1 <= N + 1, ~ \E i \in 0..N + 1 : f[i] = a PROVE f[k + 1] \in sub[a]
    OBVIOUS
  <2>2. k \in 0..N /\ k \in 0..N + 1 /\ f[k] \in sub[a] /\ f[k] # a
    BY <2>1, <1>1, <1>4
  <2>3. PICK c : c = f[k]
    OBVIOUS
  <2>4. c \in L /\ c \in sub[a] /\ c # a /\ f[k + 1] = pa[c]
    BY <2>2, <2>3, <1>1, <1>2
  <2>5. pa[c] \in L /\ c \in {lf[pa[c]], rt[pa[c]]}
    <3>1. c # pa[Header]
      BY <2>4, RootFacts
    <3>2. QED BY <2>4, <3>1, Parents
  <2>6. pa[c] \in sub[a]
    <3>1. c # Nil
      BY <2>4, <1>2
    <3>2. QED BY <2>4, <2>5, <3>1, Climbing
  <2>7. QED BY <2>4, <2>6
<1>5. Nat \subseteq T
  <2> HIDE DEF T
  <2>1. QED BY <1>3, <1>4, SetInduction
<1>6. (\E i \in 0..N + 1 : f[i] = a) \/ f[N + 1] \in sub[a]
  BY <1>1, <1>5
<1>7. QED BY <1>2, <1>6, RisesToHeader

\* UpPath is that way, and Above what is above.
LEMMA PathUp ==
    ASSUME NEW t, NEW pa, t.parent = pa, NEW lf, NEW rt, NEW L, NEW sub, Tied(pa, lf, rt, L, sub), NEW n \in L
    PROVE  /\ Rises(UpPath(t, n), pa, L, n, Cardinality(Node))
           /\ Steps = 0..Cardinality(Node) + 1
<1>1. PICK N : N = Cardinality(Node)
  OBVIOUS
<1>2. Steps = 0..N + 1 /\ Rises(UpPath(t, n), pa, L, n, N)
  BY <1>1, UpPathIs
<1>3. QED BY <1>1, <1>2

\* Above is the set of the nodes n is below.
LEMMA AboveIs ==
    ASSUME NEW t, NEW pa, t.parent = pa, NEW lf, NEW rt, NEW L, NEW sub, Tied(pa, lf, rt, L, sub), NEW n \in L
    PROVE  \A a : a \in Above(t, n) <=> a \in L /\ n \in sub[a]
<1>1. PICK N : N = Cardinality(Node)
  OBVIOUS
<1>2. Steps = 0..N + 1 /\ Rises(UpPath(t, n), pa, L, n, N)
  BY <1>1, UpPathIs
<1>3. PICK f : f = UpPath(t, n)
  OBVIOUS
<1>4. Rises(f, pa, L, n, N)
  BY <1>2, <1>3
<1>5. \A k \in 0..N + 1 : f[k] \in L => n \in sub[f[k]]
  BY <1>4, RisesThrough
<1>6. ASSUME NEW a \in L, n \in sub[a] PROVE \E k \in 0..N + 1 : f[k] = a
  BY <1>4, <1>6, RisesToAll
<1>7. N \in Nat /\ \A k \in 0..N + 1 : f[k] \in L \cup {Header}
  BY <1>4 DEF Rises
<1>8. L \subseteq Node /\ Header \notin Node
  BY NilNotAddr DEF Tied
<1>9. Above(t, n) = {f[i] : i \in 0..N + 1} \cap Node
  BY <1>2, <1>3 DEF Above
<1>10. QED BY <1>5, <1>6, <1>7, <1>8, <1>9

-----------------------------------------------------------------------------
(* The invariant.                                                          *)

\* A tree is its four maps.
LEMMA TreeFields ==
    ASSUME NEW t, t \in Trees
    PROVE  /\ Fields(t, t.parent, t.left, t.right, t.color)
           /\ Links(t.parent, t.left, t.right) /\ t.color \in [Addr -> {Red, Black}]
BY DEF Trees, Fields, Links

\* Four maps are a tree.
LEMMA FieldsTree ==
    ASSUME NEW t, NEW pa, NEW lf, NEW rt, NEW co, Fields(t, pa, lf, rt, co), Links(pa, lf, rt), co \in [Addr -> {Red, Black}]
    PROVE  t \in Trees
BY DEF Trees, Fields, Links

\* The maps of a tree, for use by name.
LEMMA FieldsAre ==
    ASSUME NEW t, NEW pa, NEW lf, NEW rt, NEW co, Fields(t, pa, lf, rt, co)
    PROVE  /\ t.parent = pa /\ t.left = lf /\ t.right = rt /\ t.color = co
           /\ t["left"] = lf /\ t["right"] = rt
           /\ Root(t) = pa[Header] /\ LeftMost(t) = lf[Header] /\ RightMost(t) = rt[Header]
BY DEF Fields, Root, LeftMost, RightMost

\* The empty tree.
LEMMA FineEmpty ==
    /\ EmptyTree \in Trees
    /\ LeftMost(EmptyTree) = Header
    /\ \E sub, h : Fine(EmptyTree.parent, EmptyTree.left, EmptyTree.right, EmptyTree.color, KeyOf, {}, sub, h, Nil, Nil, Nil)
<1>1. PICK pa, lf, rt, co : /\ pa = [a \in Addr |-> Nil] /\ lf = [a \in Addr |-> IF a = Header THEN Header ELSE Nil]
                            /\ rt = [a \in Addr |-> IF a = Header THEN Header ELSE Nil] /\ co = [a \in Addr |-> Red]
  <2>1. PICK f : f = [a \in Addr |-> Nil]
    OBVIOUS
  <2>2. PICK g : g = [a \in Addr |-> IF a = Header THEN Header ELSE Nil]
    OBVIOUS
  <2>3. PICK c : c = [a \in Addr |-> Red]
    OBVIOUS
  <2>4. QED BY <2>1, <2>2, <2>3
<1>2. Fields(EmptyTree, pa, lf, rt, co)
  BY <1>1 DEF EmptyTree, Fields
<1>3. Links(pa, lf, rt) /\ co \in [Addr -> {Red, Black}] /\ pa[Header] = Nil /\ lf[Header] = Header /\ co[Header] = Red
  BY <1>1, NilNotAddr DEF Links
<1>4. Tied(pa, lf, rt, {}, NoSub)
  BY <1>3 DEF Tied, NoSub
<1>5. Heights(lf, rt, co, {}, NoBlacks, Nil, Nil) /\ Sorted(KeyOf, lf, rt, {}, NoSub) /\ RedFree(pa, co, {}, Nil, Nil)
  BY DEF Heights, NoBlacks, Sorted, RedFree
<1>6. Fine(pa, lf, rt, co, KeyOf, {}, NoSub, NoBlacks, Nil, Nil, Nil)
  BY <1>3, <1>4, <1>5, Addresses DEF Fine
<1>7. EmptyTree \in Trees
  BY <1>2, <1>3, FieldsTree
<1>8. LeftMost(EmptyTree) = Header
  BY <1>2, <1>3, FieldsAre
<1>9. EmptyTree.parent = pa /\ EmptyTree.left = lf /\ EmptyTree.right = rt /\ EmptyTree.color = co
  BY <1>2, FieldsAre
<1>10. QED BY <1>6, <1>7, <1>8, <1>9

\* Where no two red nodes meet, none do but at a.
LEMMA FineWeaker ==
    ASSUME NEW pa, NEW lf, NEW rt, NEW co, NEW key, NEW L, NEW sub, NEW h, NEW hl, NEW hr, NEW a,
           Fine(pa, lf, rt, co, key, L, sub, h, hl, hr, Nil)
    PROVE  Fine(pa, lf, rt, co, key, L, sub, h, hl, hr, a)
<1>1. Tied(pa, lf, rt, L, sub)
  BY DEF Fine
<1>2. Nil \notin L
  BY <1>1, Below
<1>3. RedFree(pa, co, L, a, Nil)
  BY <1>2 DEF Fine, RedFree
<1>4. QED BY <1>3 DEF Fine

\* A place for a range of keys is one for each of them.
LEMMA FitsWeaker ==
    ASSUME NEW pa, NEW lf, NEW rt, NEW key, NEW L, NEW sub, Ordered(pa, lf, rt, key, L, sub), NEW p \in L,
           NEW lo \in Int, NEW hi \in Int, Fits(key, lf, rt, L, sub, lo, hi, p), NEW k \in Int, lo <= k, k <= hi
    PROVE  Fits(key, lf, rt, L, sub, k, k, p)
<1>1. \A a \in L : key[a] \in Int
  BY OrderedFacts
<1>2. hi <= key[p]
  BY DEF Fits
<1>3. ASSUME NEW a \in L PROVE /\ p \in Under(sub, lf[a]) => k <= key[a]
                               /\ p \in Under(sub, rt[a]) => key[a] <= k
  <2>1. /\ p \in Under(sub, lf[a]) => hi <= key[a]
        /\ p \in Under(sub, rt[a]) => key[a] <= lo
    BY DEF Fits
  <2>2. QED BY <2>1, <1>1
<1>4. k <= key[p]
  BY <1>1, <1>2
<1>5. QED BY <1>3, <1>4 DEF Fits

\* What Held says at rest,
LEMMA HeldRest ==
    ASSUME NEW t, NEW pa, NEW lf, NEW rt, NEW co, Fields(t, pa, lf, rt, co), NEW L, NEW w, w \in {"idle", "drop"},
           NEW c, NEW u, NEW sub, NEW h
    PROVE  Held(t, L, w, c, u, sub, h) <=> Fine(pa, lf, rt, co, KeyOf, L, sub, h, Nil, Nil, Nil)
<1>1. t.parent = pa /\ t.left = lf /\ t.right = rt /\ t.color = co
  BY FieldsAre
<1>2. w # "erase" /\ w # "insert"
  OBVIOUS
<1>3. Held(t, L, w, c, u, sub, h) <=> Fine(t.parent, t.left, t.right, t.color, KeyOf, L, sub, h, Nil, Nil, Nil)
  BY <1>2 DEF Held
<1>4. QED BY <1>1, <1>3

\* in the loop of an insertion,
LEMMA HeldInsert ==
    ASSUME NEW t, NEW pa, NEW lf, NEW rt, NEW co, Fields(t, pa, lf, rt, co), NEW L,
           NEW c, NEW u, NEW sub, NEW h
    PROVE  Held(t, L, "insert", c, u, sub, h) <=> Fine(pa, lf, rt, co, KeyOf, L, sub, h, Nil, Nil, c)
<1>1. t.parent = pa /\ t.left = lf /\ t.right = rt /\ t.color = co
  BY FieldsAre
<1>3. Held(t, L, "insert", c, u, sub, h) <=> Fine(t.parent, t.left, t.right, t.color, KeyOf, L, sub, h, Nil, Nil, c)
  BY DEF Held
<1>4. QED BY <1>1, <1>3

\* and in the loop of a removal.
LEMMA HeldErase ==
    ASSUME NEW t, NEW pa, NEW lf, NEW rt, NEW co, Fields(t, pa, lf, rt, co), NEW L,
           NEW c, NEW u, NEW sub, NEW h, NEW k, k = IF c # pa[Header] /\ (c # Nil => co[c] = Black) THEN u ELSE Nil
    PROVE  Held(t, L, "erase", c, u, sub, h)
             <=> /\ Fine(pa, lf, rt, Mended(co, c), KeyOf, L, sub, h, k, Nil, Nil)
                 /\ c # pa[Header] => u \in L /\ lf[u] = c /\ lf[Header] \in sub[u]
<1>1. t.parent = pa /\ t.left = lf /\ t.right = rt /\ t.color = co /\ Root(t) = pa[Header] /\ LeftMost(t) = lf[Header]
  BY FieldsAre
<1>2. k = IF c # Root(t) /\ IsBlack(t, c) THEN u ELSE Nil
  BY <1>1 DEF IsBlack
<1>3. Held(t, L, "erase", c, u, sub, h)
             <=> /\ Fine(t.parent, t.left, t.right, Mended(t.color, c), KeyOf, L, sub, h, k, Nil, Nil)
                 /\ c # Root(t) => u \in L /\ t.left[u] = c /\ LeftMost(t) \in sub[u]
  BY <1>2 DEF Held
<1>4. QED BY <1>1, <1>3

\* The fields of the state's tree.
LEMMA GoodFields ==
    ASSUME NEW t, NEW nc, NEW al, NEW w, NEW c, NEW u, NEW v, Good(t, nc, al, w, c, u, v)
    PROVE  \E pa, lf, rt, co : /\ Fields(t, pa, lf, rt, co)
                               /\ Links(pa, lf, rt) /\ co \in [Addr -> {Red, Black}]
BY TreeFields DEF Good

\* Link() on the left of p,
LEMMA LinkedAtLeft ==
    ASSUME NEW t, NEW pa, NEW lf, NEW rt, NEW co, NEW L, NEW sub, NEW h, Resting(t, pa, lf, rt, co, L, sub, h),
           NEW n \in Node, n \notin L, NEW p \in L, lf[p] = Nil, Fits(KeyOf, lf, rt, L, sub, KeyOf[n], KeyOf[n], p)
    PROVE  Grown(Link(t, n, p, TRUE), L, n)
<1>1. Fine(pa, lf, rt, co, KeyOf, L, sub, h, Nil, Nil, Nil) /\ Fields(t, pa, lf, rt, co) /\ Tied(pa, lf, rt, L, sub)
  BY DEF Resting, Fine
<1>2. Links(pa, lf, rt) /\ p \in Node /\ p # n
  BY <1>1 DEF Tied
<1>3. PICK pb, lg, rg, cp : Fields(Link(t, n, p, TRUE), pb, lg, rg, cp) /\ Hung(pa, lf, rt, co, n, p, pb, lg, rg, cp)
  BY <1>1, <1>2, LinkLeft
<1>4. PICK sb, hb : Fine(pb, lg, rg, cp, KeyOf, L \cup {n}, sb, hb, Nil, Nil, n)
  BY <1>1, <1>3, FineHung
<1>5. cp[n] = Red
  <2>1. n \in Addr /\ co \in [Addr -> {Red, Black}] /\ cp = [co EXCEPT ![n] = Red]
    BY <1>1, <1>3 DEF Hung, Fine, Addr
  <2>2. QED BY <2>1
<1>6. QED BY <1>3, <1>4, <1>5 DEF Grown

\* on the right of p,
LEMMA LinkedAtRight ==
    ASSUME NEW t, NEW pa, NEW lf, NEW rt, NEW co, NEW L, NEW sub, NEW h, Resting(t, pa, lf, rt, co, L, sub, h),
           NEW n \in Node, n \notin L, NEW p \in L, rt[p] = Nil,
           Fits(Neg(KeyOf), rt, lf, L, sub, - KeyOf[n], - KeyOf[n], p)
    PROVE  Grown(Link(t, n, p, FALSE), L, n)
<1>1. Fine(pa, lf, rt, co, KeyOf, L, sub, h, Nil, Nil, Nil) /\ Fields(t, pa, lf, rt, co) /\ Tied(pa, lf, rt, L, sub)
      /\ KeyOf \in [Node -> Int]
  BY DEF Resting, Fine
<1>2. Links(pa, lf, rt) /\ p \in Node /\ p # n
  BY <1>1 DEF Tied
<1>3. PICK pb, lg, rg, cp : Fields(Link(t, n, p, FALSE), pb, lg, rg, cp) /\ Hung(pa, rt, lf, co, n, p, pb, rg, lg, cp)
  BY <1>1, <1>2, LinkRight
<1>4. PICK kk : kk = Neg(KeyOf)
  OBVIOUS
<1>5. kk[n] = - KeyOf[n] /\ Neg(kk) = KeyOf
  BY <1>1, <1>4, NegNeg DEF Neg
<1>6. Fine(pa, rt, lf, co, kk, L, sub, h, Nil, Nil, Nil)
  BY <1>1, <1>4, FineMirror
<1>7. Fits(kk, rt, lf, L, sub, kk[n], kk[n], p)
  BY <1>4, <1>5
<1>8. PICK sb, hb : Fine(pb, rg, lg, cp, kk, L \cup {n}, sb, hb, Nil, Nil, n)
  BY <1>3, <1>6, <1>7, FineHung
<1>9. Fine(pb, lg, rg, cp, Neg(kk), L \cup {n}, sb, hb, Nil, Nil, n)
  BY <1>8, FineMirror
<1>10. Fine(pb, lg, rg, cp, KeyOf, L \cup {n}, sb, hb, Nil, Nil, n)
  BY <1>5, <1>9
<1>11. cp[n] = Red
  <2>1. n \in Addr /\ co \in [Addr -> {Red, Black}] /\ cp = [co EXCEPT ![n] = Red]
    BY <1>1, <1>3 DEF Hung, Fine, Addr
  <2>2. QED BY <2>1
<1>12. QED BY <1>3, <1>10, <1>11 DEF Grown

\* and at any place.
LEMMA LinkedAtPlace ==
    ASSUME NEW t, NEW pa, NEW lf, NEW rt, NEW co, NEW L, NEW sub, NEW h, Resting(t, pa, lf, rt, co, L, sub, h),
           NEW n \in Node, n \notin L, NEW c, NEW p, NEW k, k = KeyOf[n], NEW lo \in Int, NEW hi \in Int, lo <= k, k <= hi,
           Place(lf, rt, L, sub, c, p, k, lo, hi),
           NEW il \in BOOLEAN, il <=> c # Nil \/ p = Header \/ k < KeyOf[p]
    PROVE  Grown(Link(t, n, p, il), L, n)
<1>1. Fine(pa, lf, rt, co, KeyOf, L, sub, h, Nil, Nil, Nil) /\ Fields(t, pa, lf, rt, co) /\ Tied(pa, lf, rt, L, sub)
      /\ KeyOf \in [Node -> Int] /\ co \in [Addr -> {Red, Black}] /\ co[Header] = Red
  BY DEF Resting, Fine
<1>2. Ordered(pa, lf, rt, KeyOf, L, sub) /\ Header \notin L
  BY RestingFacts
<1>3. k \in Int
  BY <1>1
<1>4. CASE p = Header /\ L = {}
  <2>1. il = TRUE
    BY <1>4
  <2>2. Links(pa, lf, rt)
    BY <1>1 DEF Tied
  <2>3. \E pb, lg, rg, cp, sb, hb : /\ Fields(Link(t, n, Header, TRUE), pb, lg, rg, cp)
                                    /\ Fine(pb, lg, rg, cp, KeyOf, {n}, sb, hb, Nil, Nil, n)
                                    /\ cp[n] = Red
    BY <1>1, <2>2, FineSeed
  <2>4. L \cup {n} = {n}
    BY <1>4
  <2>5. QED BY <2>1, <2>3, <2>4, <1>4 DEF Grown
<1>5. CASE p \in L /\ (c # Nil \/ k < KeyOf[p])
  <2>1. lf[p] = Nil /\ Fits(KeyOf, lf, rt, L, sub, lo, hi, p)
    BY <1>2, <1>5 DEF Place
  <2>2. Fits(KeyOf, lf, rt, L, sub, k, k, p)
    BY <1>2, <1>3, <1>5, <2>1, FitsWeaker
  <2>3. il = TRUE
    BY <1>5
  <2>4. QED BY <2>1, <2>2, <2>3, <1>5, LinkedAtLeft
<1>6. CASE p \in L /\ ~ (c # Nil \/ k < KeyOf[p])
  <2>1. rt[p] = Nil /\ Fits(Neg(KeyOf), rt, lf, L, sub, - hi, - lo, p)
    BY <1>2, <1>6 DEF Place
  <2>2. PICK kk, ll, hh, m : kk = Neg(KeyOf) /\ ll = - hi /\ hh = - lo /\ m = - k
    OBVIOUS
  <2>3. ll \in Int /\ hh \in Int /\ m \in Int /\ ll <= m /\ m <= hh
    BY <2>2, <1>3
  <2>4. Ordered(pa, rt, lf, kk, L, sub) /\ Fits(kk, rt, lf, L, sub, ll, hh, p) /\ p \in L
    BY <1>2, <1>6, <2>1, <2>2, OrderedMirror
  <2>5. Fits(kk, rt, lf, L, sub, m, m, p)
    BY <2>3, <2>4, FitsWeaker
  <2>6. Fits(Neg(KeyOf), rt, lf, L, sub, - KeyOf[n], - KeyOf[n], p)
    BY <2>2, <2>5
  <2>7. il = FALSE
    BY <1>2, <1>6
  <2>8. QED BY <2>1, <2>6, <2>7, <1>6, LinkedAtRight
<1>7. QED BY <1>4, <1>5, <1>6 DEF Place

\* A state between two calls is at rest.
LEMMA GoodRests ==
    ASSUME NEW t, NEW nc, NEW al, NEW c, NEW u, NEW v, Good(t, nc, al, "idle", c, u, v)
    PROVE  /\ v = Nil /\ al \ {v} = al /\ nc = Cardinality(al) /\ al \subseteq Node /\ IsFiniteSet(al)
           /\ \E pa, lf, rt, co, sub, h : Resting(t, pa, lf, rt, co, al, sub, h)
<1>1. v = Nil /\ al \subseteq Node /\ nc = Cardinality(al) /\ (al \ {v} = {} => LeftMost(t) = Header)
  BY DEF Good
<1>2. al \ {v} = al /\ IsFiniteSet(al)
  BY <1>1, NilNotAddr, Addresses, FS_Subset
<1>3. PICK sub, h : Held(t, al \ {v}, "idle", c, u, sub, h)
  BY DEF Good
<1>4. PICK pa, lf, rt, co : Fields(t, pa, lf, rt, co)
  BY GoodFields
<1>5. Held(t, al, "idle", c, u, sub, h)
  BY <1>2, <1>3
<1>6. Fine(pa, lf, rt, co, KeyOf, al, sub, h, Nil, Nil, Nil)
  BY <1>4, <1>5, HeldRest
<1>7. al = {} => lf[Header] = Header
  BY <1>1, <1>2, <1>4, FieldsAre
<1>8. Resting(t, pa, lf, rt, co, al, sub, h)
  BY <1>4, <1>6, <1>7 DEF Resting
<1>9. QED BY <1>1, <1>2, <1>8

\* The state after it.
LEMMA GoodGrown ==
    ASSUME NEW t, NEW nc, NEW al, NEW c, NEW u, Good(t, nc, al, "idle", c, u, Nil),
           NEW n \in Node, n \notin al, NEW t2, Grown(t2, al, n)
    PROVE  Good(t2, nc, al \cup {n}, "insert", n, u, Nil)
<1>1. nc = Cardinality(al) /\ al \subseteq Node /\ IsFiniteSet(al) /\ u \in Addr \cup {Nil}
  BY GoodRests DEF Good
<1>2. PICK pb, lg, rg, cp, sb, hb : /\ Fields(t2, pb, lg, rg, cp)
                                    /\ Fine(pb, lg, rg, cp, KeyOf, al \cup {n}, sb, hb, Nil, Nil, n)
                                    /\ cp[n] = Red
  BY DEF Grown
<1>3. PICK L : L = al \cup {n}
  OBVIOUS
<1>4. L \ {Nil} = L /\ L \subseteq Node /\ L # {} /\ n \in L
  BY <1>1, <1>3, NilNotAddr
<1>5. Cardinality(L) = Cardinality(al) + 1 /\ Cardinality(al) \in Nat
  BY <1>1, <1>3, FS_AddElement, FS_CardinalityType
<1>6. t2 \in Trees
  <2>1. Links(pb, lg, rg) /\ cp \in [Addr -> {Red, Black}]
    BY <1>2 DEF Fine, Tied
  <2>2. QED BY <2>1, <1>2, FieldsTree
<1>7. Held(t2, L, "insert", n, u, sb, hb)
  BY <1>2, <1>3, HeldInsert
<1>8. t2.color[n] = Red
  BY <1>2, FieldsAre
<1>9. n \in Addr
  BY DEF Addr
<1>10. nc = Cardinality(L) - 1
  BY <1>1, <1>5
<1>11. Good(t2, nc, L, "insert", n, u, Nil)
  BY <1>1, <1>4, <1>6, <1>7, <1>8, <1>9, <1>10 DEF Good
<1>12. QED BY <1>3, <1>11

-----------------------------------------------------------------------------
(* The loop of an insertion.                                               *)

\* The state in the loop of an insertion,
LEMMA GoodInserts ==
    ASSUME NEW t, NEW nc, NEW al, NEW c, NEW u, NEW v, Good(t, nc, al, "insert", c, u, v)
    PROVE  /\ v = Nil /\ al \subseteq Node /\ IsFiniteSet(al) /\ nc = Cardinality(al) - 1 /\ u \in Addr \cup {Nil}
           /\ \E pa, lf, rt, co, sub, h : Inserting(t, pa, lf, rt, co, al, sub, h, c)
<1>1. /\ v = Nil /\ al \subseteq Node /\ nc = Cardinality(al) - 1 /\ u \in Addr \cup {Nil}
      /\ c \in al \ {v} /\ t.color[c] = Red
  BY DEF Good
<1>2. al \ {v} = al /\ IsFiniteSet(al)
  BY <1>1, NilNotAddr, Addresses, FS_Subset
<1>3. PICK sub, h : Held(t, al \ {v}, "insert", c, u, sub, h)
  BY DEF Good
<1>4. PICK pa, lf, rt, co : Fields(t, pa, lf, rt, co)
  BY GoodFields
<1>5. Held(t, al, "insert", c, u, sub, h)
  BY <1>2, <1>3
<1>6. Fine(pa, lf, rt, co, KeyOf, al, sub, h, Nil, Nil, c)
  BY <1>4, <1>5, HeldInsert
<1>7. co[c] = Red
  BY <1>1, <1>4, FieldsAre
<1>8. Inserting(t, pa, lf, rt, co, al, sub, h, c)
  BY <1>1, <1>2, <1>4, <1>6, <1>7 DEF Inserting
<1>9. QED BY <1>1, <1>2, <1>8

\* and how it is shown.
LEMMA InsertsGood ==
    ASSUME NEW t, NEW nc, NEW al, NEW c, NEW u, NEW v, Good(t, nc, al, "insert", c, u, v),
           NEW t2, NEW d, NEW pa, NEW lf, NEW rt, NEW co, NEW sub, NEW h, Inserting(t2, pa, lf, rt, co, al, sub, h, d)
    PROVE  Good(t2, nc, al, "insert", d, u, v)
<1>1. /\ v = Nil /\ al \subseteq Node /\ nc = Cardinality(al) - 1 /\ u \in Addr \cup {Nil}
  BY GoodInserts
<1>2. /\ Fields(t2, pa, lf, rt, co) /\ d \in al /\ co[d] = Red
      /\ Fine(pa, lf, rt, co, KeyOf, al, sub, h, Nil, Nil, d)
  BY DEF Inserting
<1>3. t2 \in Trees
  <2>1. Links(pa, lf, rt) /\ co \in [Addr -> {Red, Black}]
    BY <1>2 DEF Fine, Tied
  <2>2. QED BY <2>1, <1>2, FieldsTree
<1>4. Held(t2, al, "insert", d, u, sub, h)
  BY <1>2, HeldInsert
<1>5. al \ {v} = al /\ d \in Addr
  BY <1>1, <1>2, NilNotAddr
<1>6. t2.color[d] = Red
  BY <1>2, FieldsAre
<1>7. al \ {v} # {}
  BY <1>2, <1>5
<1>8. QED BY <1>1, <1>2, <1>3, <1>4, <1>5, <1>6, <1>7 DEF Good

\* New colours are one new map.
LEMMA RecolouredFields ==
    ASSUME NEW t, NEW pa, NEW lf, NEW rt, NEW co, Fields(t, pa, lf, rt, co), NEW cp,
           NEW t2, t2 = [t EXCEPT !.color = cp]
    PROVE  Fields(t2, pa, lf, rt, cp)
BY DEF Fields

\* The loop goes on from the grandparent.
LEMMA RedUncleStep ==
    ASSUME NEW t, NEW nc, NEW al, NEW c, NEW u, NEW v, Good(t, nc, al, "insert", c, u, v),
           NEW p, NEW g, NEW uncle, NEW t2, UncleMended(t, c, p, g, uncle, t2)
    PROVE  Good(t2, nc, al, "insert", g, u, v)
<1>0. /\ p = t.parent[c] /\ g = t.parent[p] /\ t.color[p] = Red /\ c # Root(t)
      /\ uncle = (IF t.left[g] = p THEN t.right[g] ELSE t.left[g]) /\ ~ IsBlack(t, uncle)
      /\ t2 = [t EXCEPT !.color = [@ EXCEPT ![p] = Black, ![uncle] = Black, ![g] = Red]]
  BY DEF UncleMended
<1>1. PICK pa, lf, rt, co, sub, h : Inserting(t, pa, lf, rt, co, al, sub, h, c)
  BY GoodInserts
<1>2. /\ Fields(t, pa, lf, rt, co) /\ c \in al /\ Fine(pa, lf, rt, co, KeyOf, al, sub, h, Nil, Nil, c)
      /\ t.parent = pa /\ t.left = lf /\ t.right = rt /\ t.color = co /\ Root(t) = pa[Header]
  <2>1. Fields(t, pa, lf, rt, co) /\ c \in al /\ Fine(pa, lf, rt, co, KeyOf, al, sub, h, Nil, Nil, c)
    BY ONLY <1>1 DEF Inserting
  <2>2. t.parent = pa /\ t.left = lf /\ t.right = rt /\ t.color = co /\ Root(t) = pa[Header]
    BY ONLY <2>1, FieldsAre
  <2>3. QED BY ONLY <2>1, <2>2
<1>3. c # pa[Header] /\ co[pa[c]] = Red /\ p = pa[c] /\ g = pa[p]
  BY <1>0, <1>2
<1>4. /\ p \in al /\ g \in al /\ g # p /\ (p = lf[g] \/ p = rt[g])
  BY <1>2, <1>3, Grandparent
<1>5. uncle \in {lf[g], rt[g]} /\ uncle # Nil /\ co[uncle] = Red /\ uncle # p
  <2>1. uncle \in {lf[g], rt[g]}
    BY <1>0, <1>2
  <2>2. uncle # Nil /\ co[uncle] # Black
    BY <1>0, <1>2 DEF IsBlack
  <2>3. Tied(pa, lf, rt, al, sub) /\ co \in [Addr -> {Red, Black}]
    BY <1>2 DEF Fine
  <2>4. uncle \in al /\ al \subseteq Addr
    <3>1. al \subseteq Addr
      BY ONLY <2>3, NilNotAddr DEF Tied
    <3>2. lf[g] \in al \cup {Nil} /\ rt[g] \in al \cup {Nil}
      BY ONLY <2>3, <1>4 DEF Tied
    <3>3. uncle \in al
      BY ONLY <3>2, <2>1, <2>2
    <3>4. QED BY ONLY <3>1, <3>3
  <2>5. co[uncle] = Red
    BY <2>2, <2>3, <2>4
  <2>6. uncle # p
    <3>4. p \in al /\ Tied(pa, lf, rt, al, sub)
      BY ONLY <1>4, <2>3
    <3>1. p # Nil
      BY ONLY <3>4, NilNotAddr DEF Tied
    <3>2. ~ (lf[g] = p /\ rt[g] = p)
      <4>3. Under(sub, lf[g]) \cap Under(sub, rt[g]) = {}
        BY ONLY <1>4, <2>3 DEF Tied
      <4>4. p \in sub[p]
        BY ONLY <3>4, Below
      <4>1. Under(sub, lf[g]) \cap Under(sub, rt[g]) = {} /\ p \in sub[p]
        BY ONLY <4>3, <4>4
      <4>2. QED BY <4>1, <3>1 DEF Under
    <3>3. QED BY <1>0, <1>2, <1>4, <3>2
  <2>7. QED BY <2>1, <2>2, <2>5, <2>6
<1>6. PICK cp : cp = UncleColours(co, p, uncle, g)
  OBVIOUS
<1>7. PICK hb : Fine(pa, lf, rt, cp, KeyOf, al, sub, hb, Nil, Nil, g)
  BY <1>2, <1>3, <1>5, <1>6, FineRedUncle
<1>8. Fields(t2, pa, lf, rt, cp)
  <2>1. t2 = [t EXCEPT !.color = cp]
    BY <1>0, <1>2, <1>6 DEF UncleColours
  <2>2. QED BY <2>1, <1>2, RecolouredFields
<1>9. cp[g] = Red
  <2>1. g \in Addr /\ co \in [Addr -> {Red, Black}]
    BY <1>2, <1>4, GoodInserts, NilNotAddr DEF Fine
  <2>2. QED BY <2>1, <1>6 DEF UncleColours
<1>10. Inserting(t2, pa, lf, rt, cp, al, sub, hb, g)
  BY <1>4, <1>7, <1>8, <1>9 DEF Inserting
<1>11. Good(t, nc, al, "insert", c, u, v)
  OBVIOUS
<1>12. QED BY ONLY <1>10, <1>11, InsertsGood

\* CASE3 swaps the colours of parent and grandparent.
LEMMA OuterColoured ==
    ASSUME NEW co \in [Addr -> {Red, Black}], NEW g \in Addr, NEW p \in Addr, NEW c \in Addr, g # p, c # g, c # p,
           co[g] = Black, co[p] = Red, co[c] = Red, NEW cp, cp = OuterColours(co, g, p)
    PROVE  cp = Swapped(co, g, p) /\ cp[c] = Red /\ cp \in [Addr -> {Red, Black}]
BY DEF OuterColours, Swapped

\* CASE3 when cur is on the right,
LEMMA OuterTurnedRight ==
    ASSUME NEW t, NEW pa, NEW lf, NEW rt, NEW co, Fields(t, pa, lf, rt, co), NEW L, NEW sub, NEW h, NEW c, NEW p, NEW g,
           OuterRight(pa, lf, rt, co, L, sub, h, c, p, g),
           NEW cp, cp = OuterColours(co, g, p), NEW t2, Fields(t2, pa, lf, rt, cp)
    PROVE  \E pb, lg, rg, sb, hb : Inserting(Rotate(t2, g, "left", "right"), pb, lg, rg, cp, L, sb, hb, c)
<1>1. /\ Fine(pa, lf, rt, co, KeyOf, L, sub, h, Nil, Nil, c)
      /\ g \in L /\ p \in L /\ c \in L /\ p = rt[g] /\ c = rt[p]
      /\ co[g] = Black /\ co[p] = Red /\ co[c] = Red
      /\ lf[g] # Nil => co[lf[g]] = Black
      /\ c # p /\ c # g /\ p # g
  BY DEF OuterRight
<1>2. Tied(pa, lf, rt, L, sub) /\ co \in [Addr -> {Red, Black}] /\ Nil \notin L /\ L \subseteq Node
  BY <1>1, Below DEF Fine
<1>3. g \in Addr /\ p \in Addr /\ c \in Addr
  BY <1>1, <1>2, NilNotAddr
<1>4. cp = Swapped(co, g, p) /\ cp[c] = Red /\ cp \in [Addr -> {Red, Black}]
  BY <1>1, <1>2, <1>3, OuterColoured
<1>5. rt[g] # Nil /\ p # Nil /\ Nil # g
  BY <1>1, <1>2
<1>6. PICK pb, lg, rg : Fields(Rotate(t2, g, "left", "right"), pb, lg, rg, cp) /\ Turned(pa, lf, rt, g, rt[g], pb, lg, rg)
  BY <1>1, <1>2, <1>4, <1>5, RotateLeft
<1>7. Turned(pa, lf, rt, g, p, pb, lg, rg) /\ (c = Nil \/ c = rt[p])
  BY <1>1, <1>6
<1>8. TurnedTo(pa, lf, rt, KeyOf, L, sub, g, p, pb, lg, rg, cp, Nil, Nil, Nil)
  <2>1. /\ Fine(pa, lf, rt, co, KeyOf, L, sub, h, Nil, Nil, c) /\ g \in L /\ p = rt[g] /\ p # Nil
        /\ Turned(pa, lf, rt, g, p, pb, lg, rg) /\ co[g] = Black /\ co[p] = Red
        /\ Nil # p /\ Nil # g /\ (c = Nil \/ c = rt[p]) /\ (lf[g] # Nil => co[lf[g]] = Black)
        /\ cp = Swapped(co, g, p)
    BY <1>1, <1>4, <1>5, <1>7
  <2>2. QED BY ONLY <2>1, FineSwap
<1>16. PICK sb, hb : Fine(pb, lg, rg, cp, KeyOf, L, sb, hb, Nil, Nil, Nil)
  BY <1>8 DEF TurnedTo
<1>9. Fine(pb, lg, rg, cp, KeyOf, L, sb, hb, Nil, Nil, c)
  BY <1>16, FineWeaker
<1>10. QED BY <1>1, <1>4, <1>6, <1>9 DEF Inserting

\* and on the left.
LEMMA OuterTurned ==
    ASSUME NEW t, NEW pa, NEW lf, NEW rt, NEW co, Fields(t, pa, lf, rt, co), NEW L, NEW sub, NEW h, NEW c, NEW p, NEW g,
           Outer(pa, lf, rt, co, L, sub, h, c, p, g),
           NEW cp, cp = OuterColours(co, g, p), NEW t2, Fields(t2, pa, lf, rt, cp)
    PROVE  \E pb, lg, rg, sb, hb : Inserting(Rotate(t2, g, "right", "left"), pb, lg, rg, cp, L, sb, hb, c)
<1>1. /\ Fine(pa, lf, rt, co, KeyOf, L, sub, h, Nil, Nil, c)
      /\ g \in L /\ p \in L /\ c \in L /\ p = lf[g] /\ c = lf[p]
      /\ co[g] = Black /\ co[p] = Red /\ co[c] = Red
      /\ rt[g] # Nil => co[rt[g]] = Black
      /\ c # p /\ c # g /\ p # g
  BY DEF Outer
<1>2. Tied(pa, lf, rt, L, sub) /\ co \in [Addr -> {Red, Black}] /\ Nil \notin L /\ L \subseteq Node
      /\ KeyOf \in [Node -> Int]
  BY <1>1, Below DEF Fine
<1>3. g \in Addr /\ p \in Addr /\ c \in Addr
  BY <1>1, <1>2, NilNotAddr
<1>4. cp = Swapped(co, g, p) /\ cp[c] = Red /\ cp \in [Addr -> {Red, Black}]
  BY <1>1, <1>2, <1>3, OuterColoured
<1>5. lf[g] # Nil /\ p # Nil /\ Nil # g
  BY <1>1, <1>2
<1>6. PICK pb, lg, rg : Fields(Rotate(t2, g, "right", "left"), pb, lg, rg, cp) /\ Turned(pa, rt, lf, g, lf[g], pb, rg, lg)
  BY <1>1, <1>2, <1>4, <1>5, RotateRight
<1>7. Turned(pa, rt, lf, g, p, pb, rg, lg) /\ (c = Nil \/ c = lf[p])
  BY <1>1, <1>6
<1>8. PICK kk : kk = Neg(KeyOf)
  OBVIOUS
<1>9. Fine(pa, rt, lf, co, kk, L, sub, h, Nil, Nil, c)
  BY <1>1, <1>8, FineMirror
<1>10. TurnedTo(pa, rt, lf, kk, L, sub, g, p, pb, rg, lg, cp, Nil, Nil, Nil)
  <2>1. /\ Fine(pa, rt, lf, co, kk, L, sub, h, Nil, Nil, c) /\ g \in L /\ p = lf[g] /\ p # Nil
        /\ Turned(pa, rt, lf, g, p, pb, rg, lg) /\ co[g] = Black /\ co[p] = Red
        /\ Nil # p /\ Nil # g /\ (c = Nil \/ c = lf[p]) /\ (rt[g] # Nil => co[rt[g]] = Black)
        /\ cp = Swapped(co, g, p)
    BY <1>1, <1>4, <1>5, <1>7, <1>9
  <2>2. QED BY ONLY <2>1, FineSwap
<1>16. PICK sb, hb : Fine(pb, rg, lg, cp, kk, L, sb, hb, Nil, Nil, Nil)
  BY <1>10 DEF TurnedTo
<1>11. Neg(kk) = KeyOf
  BY <1>2, <1>8, NegNeg
<1>12. Fine(pb, lg, rg, cp, Neg(kk), L, sb, hb, Nil, Nil, Nil)
  BY <1>16, FineMirror
<1>13. Fine(pb, lg, rg, cp, KeyOf, L, sb, hb, Nil, Nil, Nil)
  BY <1>11, <1>12
<1>14. Fine(pb, lg, rg, cp, KeyOf, L, sb, hb, Nil, Nil, c)
  BY <1>13, FineWeaker
<1>15. QED BY <1>1, <1>4, <1>6, <1>14 DEF Inserting

\* An inner grandchild changes places with its parent first.
LEMMA InnerTurned ==
    ASSUME NEW t, NEW pa, NEW lf, NEW rt, NEW co, Fields(t, pa, lf, rt, co), NEW L, NEW sub, NEW h, NEW c, NEW p, NEW g,
           Fine(pa, lf, rt, co, KeyOf, L, sub, h, Nil, Nil, c),
           g \in L, p \in L, c \in L, p = lf[g], p # rt[g], c = rt[p], co[g] = Black, co[p] = Red, co[c] = Red,
           rt[g] # Nil => co[rt[g]] = Black, c # p, c # g, p # g
    PROVE  \E pb, lg, rg, sb, hb : /\ Fields(Rotate(t, p, "left", "right"), pb, lg, rg, co)
                                   /\ Outer(pb, lg, rg, co, L, sb, hb, p, c, g) /\ pb[p] = c /\ pb[c] = g
<1>1. Tied(pa, lf, rt, L, sub) /\ co \in [Addr -> {Red, Black}] /\ Nil \notin L /\ L \subseteq Node
  BY Below DEF Fine
<1>2. c # Nil /\ p # Nil /\ rt[p] # Nil
  BY <1>1
<1>3. PICK pb, lg, rg : Fields(Rotate(t, p, "left", "right"), pb, lg, rg, co) /\ Turned(pa, lf, rt, p, rt[p], pb, lg, rg)
  BY <1>1, <1>2, RotateLeft
<1>4. Turned(pa, lf, rt, p, c, pb, lg, rg)
  BY <1>3
<1>5. TurnedTo(pa, lf, rt, KeyOf, L, sub, p, c, pb, lg, rg, co, Nil, Nil, p)
  <2>1. /\ Fine(pa, lf, rt, co, KeyOf, L, sub, h, Nil, Nil, c) /\ p \in L /\ c = rt[p] /\ c # Nil
        /\ Turned(pa, lf, rt, p, c, pb, lg, rg) /\ co[p] = Red /\ co[c] = Red
        /\ Nil # c /\ Nil # p
    BY <1>2, <1>4
  <2>2. QED BY ONLY <2>1, FineRedPair
<1>6. PICK sb, hb : Fine(pb, lg, rg, co, KeyOf, L, sb, hb, Nil, Nil, p) /\ lg[c] = p
  BY <1>5 DEF TurnedTo
<1>7. pa[p] = g /\ p # pa[Header]
  <2>1. pa[p] = g
    BY <1>1, <1>2 DEF Tied
  <2>2. Header \notin L
    BY <1>1, Below
  <2>3. QED BY <1>1, <2>1, <2>2 DEF Tied
<1>8. g \in Addr /\ c \in Addr /\ p \in Addr
  BY <1>1, NilNotAddr
<1>9. lg[g] = c /\ rg[g] = rt[g] /\ pb[p] = c /\ pb[c] = g
  BY <1>4, <1>7, <1>8 DEF Turned
<1>10. Outer(pb, lg, rg, co, L, sb, hb, p, c, g)
  BY <1>6, <1>9 DEF Outer
<1>11. QED BY <1>3, <1>9, <1>10

\* CASE2 when the parent is a left child; the mirror image is next.
LEMMA InnerTurnedRight ==
    ASSUME NEW t, NEW pa, NEW lf, NEW rt, NEW co, Fields(t, pa, lf, rt, co), NEW L, NEW sub, NEW h, NEW c, NEW p, NEW g,
           Fine(pa, lf, rt, co, KeyOf, L, sub, h, Nil, Nil, c),
           g \in L, p \in L, c \in L, p = rt[g], p # lf[g], c = lf[p], co[g] = Black, co[p] = Red, co[c] = Red,
           lf[g] # Nil => co[lf[g]] = Black, c # p, c # g, p # g
    PROVE  \E pb, lg, rg, sb, hb : /\ Fields(Rotate(t, p, "right", "left"), pb, lg, rg, co)
                                   /\ OuterRight(pb, lg, rg, co, L, sb, hb, p, c, g) /\ pb[p] = c /\ pb[c] = g
<1>1. Tied(pa, lf, rt, L, sub) /\ co \in [Addr -> {Red, Black}] /\ Nil \notin L /\ L \subseteq Node
      /\ KeyOf \in [Node -> Int]
  BY Below DEF Fine
<1>2. c # Nil /\ p # Nil /\ lf[p] # Nil
  BY <1>1
<1>3. PICK pb, lg, rg : Fields(Rotate(t, p, "right", "left"), pb, lg, rg, co) /\ Turned(pa, rt, lf, p, lf[p], pb, rg, lg)
  BY <1>1, <1>2, RotateRight
<1>4. Turned(pa, rt, lf, p, c, pb, rg, lg)
  BY <1>3
<1>12. PICK kk : kk = Neg(KeyOf)
  OBVIOUS
<1>13. Fine(pa, rt, lf, co, kk, L, sub, h, Nil, Nil, c)
  BY <1>12, FineMirror
<1>5. TurnedTo(pa, rt, lf, kk, L, sub, p, c, pb, rg, lg, co, Nil, Nil, p)
  <2>1. /\ Fine(pa, rt, lf, co, kk, L, sub, h, Nil, Nil, c) /\ p \in L /\ c = lf[p] /\ c # Nil
        /\ Turned(pa, rt, lf, p, c, pb, rg, lg) /\ co[p] = Red /\ co[c] = Red
        /\ Nil # c /\ Nil # p
    BY <1>2, <1>4, <1>13
  <2>2. QED BY ONLY <2>1, FineRedPair
<1>6. PICK sb, hb : Fine(pb, rg, lg, co, kk, L, sb, hb, Nil, Nil, p) /\ rg[c] = p
  BY <1>5 DEF TurnedTo
<1>14. Neg(kk) = KeyOf
  BY <1>1, <1>12, NegNeg
<1>15. Fine(pb, lg, rg, co, Neg(kk), L, sb, hb, Nil, Nil, p)
  BY <1>6, FineMirror
<1>16. Fine(pb, lg, rg, co, KeyOf, L, sb, hb, Nil, Nil, p)
  BY <1>14, <1>15
<1>7. pa[p] = g /\ p # pa[Header]
  <2>1. pa[p] = g
    BY <1>1, <1>2 DEF Tied
  <2>2. Header \notin L
    BY <1>1, Below
  <2>3. QED BY <1>1, <2>1, <2>2 DEF Tied
<1>8. g \in Addr /\ c \in Addr /\ p \in Addr
  BY <1>1, NilNotAddr
<1>9. rg[g] = c /\ lg[g] = lf[g] /\ pb[p] = c /\ pb[c] = g
  BY <1>4, <1>7, <1>8 DEF Turned
<1>10. OuterRight(pb, lg, rg, co, L, sb, hb, p, c, g)
  BY <1>6, <1>9, <1>16 DEF OuterRight
<1>11. QED BY <1>3, <1>9, <1>10

\* The colours before the last rotation.
LEMMA RotationsAfter ==
    ASSUME NEW t1, NEW pa, NEW lf, NEW rt, NEW co, Fields(t1, pa, lf, rt, co), NEW z, NEW zp, NEW zg,
           NEW t2, t2 = [t1 EXCEPT !.color = [@ EXCEPT ![zg] = Red, ![zp] = Black]]
    PROVE  Fields(t2, pa, lf, rt, OuterColours(co, zg, zp))
<1>1. t1.color = co
  BY FieldsAre
<1>2. t2 = [t1 EXCEPT !.color = OuterColours(co, zg, zp)]
  BY <1>1 DEF OuterColours
<1>3. QED BY <1>2, RecolouredFields

\* The one who stands where: the parent is on the left, or on the right.
LEMMA RotationSides ==
    ASSUME NEW t, NEW pa, NEW lf, NEW rt, NEW co, NEW L, NEW sub, NEW h, NEW c, Inserting(t, pa, lf, rt, co, L, sub, h, c),
           NEW p, p = pa[c], NEW g, g = pa[p], co[p] = Red, c # pa[Header],
           NEW s, s = IF lf[g] = p THEN "left" ELSE "right", NEW o, o = Opposite(s), IsBlack(t, t[o][g])
    PROVE  /\ g \in L /\ p \in L /\ c \in L /\ co[g] = Black /\ co[c] = Red /\ c # p /\ c # g /\ p # g /\ lf[p] # rt[p]
           /\ c = lf[p] \/ c = rt[p]
           /\ \/ /\ s = "left" /\ o = "right" /\ p = lf[g] /\ p # rt[g]
                 /\ rt[g] # Nil => co[rt[g]] = Black
              \/ /\ s = "right" /\ o = "left" /\ p = rt[g] /\ p # lf[g]
                 /\ lf[g] # Nil => co[lf[g]] = Black
<1>1. /\ Fields(t, pa, lf, rt, co) /\ Fine(pa, lf, rt, co, KeyOf, L, sub, h, Nil, Nil, c) /\ c \in L /\ co[c] = Red
  BY DEF Inserting
<1>2. t["left"] = lf /\ t["right"] = rt /\ t.color = co
  BY <1>1, FieldsAre
<1>3. co[pa[c]] = Red
  OBVIOUS
<1>4. /\ p \in L /\ g \in L /\ co[g] = Black /\ p # c /\ g # c /\ g # p
      /\ p = lf[g] \/ p = rt[g]
      /\ c = lf[p] \/ c = rt[p]
  BY <1>1, <1>3, Grandparent
<1>5. Tied(pa, lf, rt, L, sub)
  BY <1>1 DEF Fine
<1>6. p # Nil /\ c # Nil /\ p \in sub[p] /\ c \in sub[c]
  BY <1>1, <1>4, <1>5, Below
<1>7. \A a \in L : Under(sub, lf[a]) \cap Under(sub, rt[a]) = {}
  BY <1>5 DEF Tied
<1>8. ~ (p = lf[g] /\ p = rt[g]) /\ ~ (c = lf[p] /\ c = rt[p])
  BY <1>4, <1>6, <1>7 DEF Under
<1>9. CASE lf[g] = p
  <2>1. s = "left" /\ o = "right"
    BY <1>9 DEF Opposite
  <2>2. rt[g] # Nil => co[rt[g]] = Black
    BY <2>1, <1>2 DEF IsBlack
  <2>3. QED BY <2>1, <2>2, <1>1, <1>4, <1>8, <1>9
<1>10. CASE lf[g] # p
  <2>1. s = "right" /\ o = "left"
    BY <1>10 DEF Opposite
  <2>2. lf[g] # Nil => co[lf[g]] = Black
    BY <2>1, <1>2 DEF IsBlack
  <2>3. QED BY <2>1, <2>2, <1>1, <1>4, <1>8, <1>10
<1>11. QED BY <1>9, <1>10

\* CASE2 and CASE3 together.
LEMMA RotateStep ==
    ASSUME NEW t, NEW nc, NEW al, NEW c, NEW u, NEW v, Good(t, nc, al, "insert", c, u, v),
           NEW p, NEW g, NEW s, NEW o, NEW inner, NEW z, NEW t1, NEW zp, NEW zg, NEW t2,
           Rotations(t, c, p, g, s, o, inner, z, t1, zp, zg, t2),
           t.color[p] = Red, c # Root(t), IsBlack(t, t[o][g])
    PROVE  Good(Rotate(t2, zg, o, s), nc, al, "insert", z, u, v)
<1>1. PICK pa, lf, rt, co, sub, h : Inserting(t, pa, lf, rt, co, al, sub, h, c)
  BY GoodInserts
<1>2. /\ Fields(t, pa, lf, rt, co) /\ Fine(pa, lf, rt, co, KeyOf, al, sub, h, Nil, Nil, c)
      /\ t.parent = pa /\ t.left = lf /\ t.right = rt /\ t.color = co /\ Root(t) = pa[Header]
      /\ t["left"] = lf /\ t["right"] = rt
  BY <1>1, FieldsAre DEF Inserting
<1>3. /\ p = pa[c] /\ g = pa[p] /\ co[p] = Red /\ c # pa[Header]
      /\ s = (IF lf[g] = p THEN "left" ELSE "right") /\ o = Opposite(s) /\ IsBlack(t, t[o][g])
  BY <1>2 DEF Rotations
<1>4. /\ g \in al /\ p \in al /\ c \in al /\ co[g] = Black /\ co[c] = Red /\ c # p /\ c # g /\ p # g /\ lf[p] # rt[p]
      /\ c = lf[p] \/ c = rt[p]
      /\ \/ /\ s = "left" /\ o = "right" /\ p = lf[g] /\ p # rt[g]
            /\ rt[g] # Nil => co[rt[g]] = Black
         \/ /\ s = "right" /\ o = "left" /\ p = rt[g] /\ p # lf[g]
            /\ lf[g] # Nil => co[lf[g]] = Black
  BY ONLY <1>1, <1>3, RotationSides
<1>5. ASSUME NEW pb, NEW lg, NEW rg, NEW cp, NEW sb, NEW hb, Inserting(Rotate(t2, zg, o, s), pb, lg, rg, cp, al, sb, hb, z)
      PROVE  Good(Rotate(t2, zg, o, s), nc, al, "insert", z, u, v)
  BY <1>5, InsertsGood
<1>6. CASE s = "left" /\ c = rt[p]
  <2>1. o = "right" /\ p = lf[g] /\ p # rt[g] /\ (rt[g] # Nil => co[rt[g]] = Black)
    BY <1>4, <1>6
  <2>2. t1 = Rotate(t, p, "left", "right") /\ z = p
    BY <1>2, <1>6, <2>1 DEF Rotations
  <2>3. PICK pb, lg, rg, sb, hb : /\ Fields(t1, pb, lg, rg, co)
                                  /\ Outer(pb, lg, rg, co, al, sb, hb, p, c, g) /\ pb[p] = c /\ pb[c] = g
    <3>1. \E pb, lg, rg, sb, hb : /\ Fields(Rotate(t, p, "left", "right"), pb, lg, rg, co)
                                   /\ Outer(pb, lg, rg, co, al, sb, hb, p, c, g) /\ pb[p] = c /\ pb[c] = g
      <4>1. /\ Fields(t, pa, lf, rt, co) /\ Fine(pa, lf, rt, co, KeyOf, al, sub, h, Nil, Nil, c)
            /\ g \in al /\ p \in al /\ c \in al /\ p = lf[g] /\ p # rt[g] /\ c = rt[p]
            /\ co[g] = Black /\ co[p] = Red /\ co[c] = Red
            /\ (rt[g] # Nil => co[rt[g]] = Black) /\ c # p /\ c # g /\ p # g
        BY <1>2, <1>3, <1>4, <1>6, <2>1
      <4>2. QED BY ONLY <4>1, InnerTurned
    <3>2. QED BY <3>1, <2>2
  <2>4. t1.parent = pb
    BY <2>3, FieldsAre
  <2>5. zp = c /\ zg = g
    BY <2>2, <2>3, <2>4 DEF Rotations
  <2>6. t2 = [t1 EXCEPT !.color = [@ EXCEPT ![g] = Red, ![c] = Black]]
    BY <2>5 DEF Rotations
  <2>7. PICK cp : cp = OuterColours(co, g, c)
    OBVIOUS
  <2>8. Fields(t2, pb, lg, rg, cp)
    BY <2>3, <2>6, <2>7, RotationsAfter
  <2>9. \E pd, ld, rd, sd, hd : Inserting(Rotate(t2, g, "right", "left"), pd, ld, rd, cp, al, sd, hd, p)
    BY ONLY <2>3, <2>7, <2>8, OuterTurned
  <2>10. Rotate(t2, g, "right", "left") = Rotate(t2, zg, o, s)
    BY <1>6, <2>1, <2>5
  <2>11. QED BY <1>5, <2>2, <2>9, <2>10
<1>7. CASE s = "left" /\ c # rt[p]
  <2>1. o = "right" /\ p = lf[g] /\ p # rt[g] /\ (rt[g] # Nil => co[rt[g]] = Black) /\ c = lf[p]
    BY <1>4, <1>7
  <2>2. t1 = t /\ z = c
    BY <1>2, <1>7, <2>1 DEF Rotations
  <2>5. zp = p /\ zg = g
    BY <2>2, <1>2, <1>3 DEF Rotations
  <2>6. t2 = [t EXCEPT !.color = [@ EXCEPT ![g] = Red, ![p] = Black]]
    BY <2>5, <2>2 DEF Rotations
  <2>7. PICK cp : cp = OuterColours(co, g, p)
    OBVIOUS
  <2>8. Fields(t2, pa, lf, rt, cp)
    BY <1>2, <2>6, <2>7, RotationsAfter
  <2>3. Outer(pa, lf, rt, co, al, sub, h, c, p, g)
    BY <1>2, <1>3, <1>4, <2>1 DEF Outer
  <2>9. \E pd, ld, rd, sd, hd : Inserting(Rotate(t2, g, "right", "left"), pd, ld, rd, cp, al, sd, hd, c)
    BY ONLY <1>2, <2>3, <2>7, <2>8, OuterTurned
  <2>10. Rotate(t2, g, "right", "left") = Rotate(t2, zg, o, s)
    BY <1>7, <2>1, <2>5
  <2>11. QED BY <1>5, <2>2, <2>9, <2>10
<1>8. CASE s = "right" /\ c = lf[p]
  <2>1. o = "left" /\ p = rt[g] /\ p # lf[g] /\ (lf[g] # Nil => co[lf[g]] = Black)
    BY <1>4, <1>8
  <2>2. t1 = Rotate(t, p, "right", "left") /\ z = p
    BY <1>2, <1>8, <2>1 DEF Rotations
  <2>3. PICK pb, lg, rg, sb, hb : /\ Fields(t1, pb, lg, rg, co)
                                  /\ OuterRight(pb, lg, rg, co, al, sb, hb, p, c, g) /\ pb[p] = c /\ pb[c] = g
    <3>1. \E pb, lg, rg, sb, hb : /\ Fields(Rotate(t, p, "right", "left"), pb, lg, rg, co)
                                   /\ OuterRight(pb, lg, rg, co, al, sb, hb, p, c, g) /\ pb[p] = c /\ pb[c] = g
      <4>1. /\ Fields(t, pa, lf, rt, co) /\ Fine(pa, lf, rt, co, KeyOf, al, sub, h, Nil, Nil, c)
            /\ g \in al /\ p \in al /\ c \in al /\ p = rt[g] /\ p # lf[g] /\ c = lf[p]
            /\ co[g] = Black /\ co[p] = Red /\ co[c] = Red
            /\ (lf[g] # Nil => co[lf[g]] = Black) /\ c # p /\ c # g /\ p # g
        BY <1>2, <1>3, <1>4, <1>8, <2>1
      <4>2. QED BY ONLY <4>1, InnerTurnedRight
    <3>2. QED BY <3>1, <2>2
  <2>4. t1.parent = pb
    BY <2>3, FieldsAre
  <2>5. zp = c /\ zg = g
    BY <2>2, <2>3, <2>4 DEF Rotations
  <2>6. t2 = [t1 EXCEPT !.color = [@ EXCEPT ![g] = Red, ![c] = Black]]
    BY <2>5 DEF Rotations
  <2>7. PICK cp : cp = OuterColours(co, g, c)
    OBVIOUS
  <2>8. Fields(t2, pb, lg, rg, cp)
    BY <2>3, <2>6, <2>7, RotationsAfter
  <2>9. \E pd, ld, rd, sd, hd : Inserting(Rotate(t2, g, "left", "right"), pd, ld, rd, cp, al, sd, hd, p)
    BY ONLY <2>3, <2>7, <2>8, OuterTurnedRight
  <2>10. Rotate(t2, g, "left", "right") = Rotate(t2, zg, o, s)
    BY <1>8, <2>1, <2>5
  <2>11. QED BY <1>5, <2>2, <2>9, <2>10
<1>9. CASE s = "right" /\ c # lf[p]
  <2>1. o = "left" /\ p = rt[g] /\ p # lf[g] /\ (lf[g] # Nil => co[lf[g]] = Black) /\ c = rt[p]
    BY <1>4, <1>9
  <2>2. t1 = t /\ z = c
    BY <1>2, <1>9, <2>1 DEF Rotations
  <2>5. zp = p /\ zg = g
    BY <2>2, <1>2, <1>3 DEF Rotations
  <2>6. t2 = [t EXCEPT !.color = [@ EXCEPT ![g] = Red, ![p] = Black]]
    BY <2>5, <2>2 DEF Rotations
  <2>7. PICK cp : cp = OuterColours(co, g, p)
    OBVIOUS
  <2>8. Fields(t2, pa, lf, rt, cp)
    BY <1>2, <2>6, <2>7, RotationsAfter
  <2>3. OuterRight(pa, lf, rt, co, al, sub, h, c, p, g)
    BY <1>2, <1>3, <1>4, <2>1 DEF OuterRight
  <2>9. \E pd, ld, rd, sd, hd : Inserting(Rotate(t2, g, "left", "right"), pd, ld, rd, cp, al, sd, hd, c)
    BY ONLY <1>2, <2>3, <2>7, <2>8, OuterTurnedRight
  <2>10. Rotate(t2, g, "left", "right") = Rotate(t2, zg, o, s)
    BY <1>9, <2>1, <2>5
  <2>11. QED BY <1>5, <2>2, <2>9, <2>10
<1>10. QED BY <1>4, <1>6, <1>7, <1>8, <1>9

\* The root black, the member returns.
LEMMA InsertDoneStep ==
    ASSUME NEW t, NEW nc, NEW al, NEW c, NEW u, NEW v, Good(t, nc, al, "insert", c, u, v),
           ~ (t.color[t.parent[c]] = Red /\ c # Root(t)),
           NEW t2, t2 = [t EXCEPT !.color[Root(t)] = Black]
    PROVE  Good(t2, nc + 1, al, "idle", Nil, u, v)
<1>1. /\ v = Nil /\ al \subseteq Node /\ IsFiniteSet(al) /\ nc = Cardinality(al) - 1 /\ u \in Addr \cup {Nil}
  BY GoodInserts
<1>2. PICK pa, lf, rt, co, sub, h : Inserting(t, pa, lf, rt, co, al, sub, h, c)
  BY GoodInserts
<1>3. /\ Fields(t, pa, lf, rt, co) /\ Fine(pa, lf, rt, co, KeyOf, al, sub, h, Nil, Nil, c) /\ c \in al
      /\ t.parent = pa /\ t.color = co /\ Root(t) = pa[Header]
  BY <1>2, FieldsAre DEF Inserting
<1>4. Tied(pa, lf, rt, al, sub) /\ co \in [Addr -> {Red, Black}] /\ co[Header] = Red
  BY <1>3 DEF Fine
<1>5. pa[c] \in Addr
  BY <1>1, <1>3, <1>4, NilNotAddr DEF Tied
<1>6. c = pa[Header] \/ co[pa[c]] = Black
  BY <1>3, <1>4, <1>5
<1>7. PICK r : r = pa[Header]
  OBVIOUS
<1>8. r \in al
  BY <1>3, <1>4, <1>7 DEF Tied
<1>9. PICK cp : cp = RootColours(co, r)
  OBVIOUS
<1>10. PICK hb : Fine(pa, lf, rt, cp, KeyOf, al, sub, hb, Nil, Nil, Nil)
  BY <1>3, <1>6, <1>7, <1>8, <1>9, FineRootBlack
<1>11. Fields(t2, pa, lf, rt, cp)
  <2>1. t2 = [t EXCEPT !.color = cp]
    BY <1>3, <1>7, <1>9 DEF RootColours
  <2>2. QED BY <2>1, <1>3, RecolouredFields
<1>12. Held(t2, al, "idle", Nil, u, sub, hb)
  BY <1>10, <1>11, HeldRest
<1>13. t2 \in Trees
  <2>1. Links(pa, lf, rt) /\ cp \in [Addr -> {Red, Black}]
    BY <1>10 DEF Fine, Tied
  <2>2. QED BY <2>1, <1>11, FieldsTree
<1>14. al \ {v} = al /\ al # {} /\ nc + 1 = Cardinality(al)
  <2>1. Cardinality(al) \in Nat
    BY <1>1, FS_CardinalityType
  <2>2. QED BY <2>1, <1>1, <1>3, NilNotAddr
<1>15. QED BY <1>1, <1>12, <1>13, <1>14 DEF Good

-----------------------------------------------------------------------------
(* The removal of the first node.                                          *)

\* The first node is taken out.
LEMMA EraseFirstStep ==
    ASSUME NEW t, NEW nc, NEW al, NEW c, NEW u, NEW v, Good(t, nc, al, "idle", c, u, v), al # {},
           NEW z, z = LeftMost(t), NEW U, U = Unlink(t, z),
           NEW w, w = IF U.lost = Black THEN "erase" ELSE "drop"
    PROVE  z \in al /\ Good(U.t, nc, al, w, U.x, U.x_parent, z)
<1>1. /\ v = Nil /\ al \subseteq Node /\ IsFiniteSet(al) /\ nc = Cardinality(al)
  BY GoodRests
<1>2. PICK pa, lf, rt, co, sub, h : Resting(t, pa, lf, rt, co, al, sub, h)
  BY GoodRests
<1>3. /\ Fields(t, pa, lf, rt, co) /\ Fine(pa, lf, rt, co, KeyOf, al, sub, h, Nil, Nil, Nil)
      /\ Tied(pa, lf, rt, al, sub) /\ co \in [Addr -> {Red, Black}] /\ LeftMost(t) = lf[Header]
  BY <1>2, FieldsAre DEF Resting, Fine
<1>4. PICK x, p : x = rt[z] /\ p = pa[z]
  OBVIOUS
<1>5. AtFirst(pa, lf, rt, co, al, sub, z, x, p)
  BY <1>3, <1>4, AtFirstFacts
<1>6. /\ z \in al /\ (x # Nil => x \in al /\ x # z /\ co[x] = Red /\ co[z] = Black)
      /\ p # Header => p \in al /\ p # z /\ z # pa[Header]
      /\ p = Header /\ x = Nil <=> al = {z}
  BY <1>5 DEF AtFirst
<1>7. /\ \E pb, lg, rg : Fields(U.t, pb, lg, rg, co) /\ Unhung(pa, lf, rt, x, p, pb, lg, rg)
      /\ U.x = x /\ U.x_parent = p /\ U.lost = co[z]
  BY <1>3, <1>5, UnlinkFirst
<1>8. PICK pb, lg, rg : Fields(U.t, pb, lg, rg, co) /\ Unhung(pa, lf, rt, x, p, pb, lg, rg)
  BY <1>7
<1>9. PICK t2 : t2 = U.t
  OBVIOUS
<1>10. PICK M : M = al \ {z}
  OBVIOUS
<1>11. PICK cp : cp = Mended(co, x)
  OBVIOUS
<1>12. PICK k : k = IF co[z] = Black /\ x = Nil /\ p # Header THEN p ELSE Nil
  OBVIOUS
<1>21. FineWithout(pb, lg, rg, cp, KeyOf, M, k, p)
  BY ONLY <1>3, <1>5, <1>8, <1>10, <1>11, <1>12, al # {}, FineUnhung
<1>13. PICK sb, hb : Fine(pb, lg, rg, cp, KeyOf, M, sb, hb, k, Nil, Nil) /\ (p # Header => lg[Header] \in sb[p])
  BY <1>21 DEF FineWithout
<1>14. Links(pb, lg, rg) /\ t2 \in Trees
  <2>1. Links(pb, lg, rg)
    BY <1>13 DEF Fine, Tied
  <2>2. QED BY <2>1, <1>3, <1>8, <1>9, FieldsTree
<1>15. p \in Addr /\ x \in Addr \cup {Nil} /\ z \in Addr /\ Header \in Addr /\ Nil \notin Addr /\ Header \notin al /\ Nil \notin al
  BY <1>1, <1>3, <1>4, <1>6, NilNotAddr DEF Tied, Links
<1>16. /\ pb[Header] = IF p = Header THEN x ELSE pa[Header]
       /\ p # Header => lg[p] = x
       /\ p = Header /\ x = Nil => lg[Header] = Header
  <2>1. Header # x
    BY <1>6, <1>15
  <2>2. QED BY <1>8, <1>15, <2>1 DEF Unhung
<1>17. M = {} => LeftMost(t2) = Header
  <2>1. M = {} => al = {z}
    BY <1>6, <1>10
  <2>2. LeftMost(t2) = lg[Header]
    BY <1>8, <1>9, FieldsAre
  <2>3. QED BY <2>1, <2>2, <1>6, <1>16
<1>18. CASE co[z] = Black
  <2>1. PICK kk : kk = IF x # pb[Header] /\ (x # Nil => co[x] = Black) THEN p ELSE Nil
    OBVIOUS
  <2>2. pa[Header] # Nil
    BY <1>3, <1>6 DEF Tied
  <2>3. Red # Black
    BY DEF Red, Black
  <2>4. kk = k
    BY <2>1, <2>2, <2>3, <1>12, <1>6, <1>16, <1>18
  <2>5. x # pb[Header] => p \in M /\ lg[p] = x /\ lg[Header] \in sb[p]
    BY <1>6, <1>10, <1>13, <1>16
  <2>6. Held(t2, M, "erase", x, p, sb, hb)
    BY <1>8, <1>9, <1>11, <1>13, <2>1, <2>4, <2>5, HeldErase
  <2>7. x \in M \cup {Nil}
    BY <1>6, <1>10
  <2>8. Good(t2, nc, al, "erase", x, p, z)
    BY <1>1, <1>6, <1>10, <1>14, <1>15, <1>17, <2>6, <2>7 DEF Good
  <2>9. w = "erase"
    BY <1>7, <1>18
  <2>10. QED BY <2>8, <2>9, <1>6, <1>7, <1>9
<1>19. CASE co[z] # Black
  <2>1. x = Nil
    BY <1>6, <1>19
  <2>2. cp = co /\ k = Nil
    BY <2>1, <1>11, <1>12, <1>19 DEF Mended
  <2>3. Fine(pb, lg, rg, co, KeyOf, M, sb, hb, Nil, Nil, Nil)
    BY <2>2, <1>13
  <2>4. Held(t2, M, "drop", x, p, sb, hb)
    BY <1>8, <1>9, <2>3, HeldRest
  <2>8. Good(t2, nc, al, "drop", x, p, z)
    BY <1>1, <1>6, <1>10, <1>14, <1>15, <1>17, <2>4 DEF Good
  <2>9. w = "drop"
    BY <1>7, <1>19
  <2>10. QED BY <2>8, <2>9, <1>6, <1>7, <1>9
<1>20. QED BY <1>18, <1>19

\* The state while a node is removed.
LEMMA GoodErases ==
    ASSUME NEW t, NEW nc, NEW al, NEW w, w \in {"erase", "drop"}, NEW c, NEW u, NEW v, Good(t, nc, al, w, c, u, v)
    PROVE  v \in al /\ al \subseteq Node /\ IsFiniteSet(al) /\ nc = Cardinality(al)
BY Addresses, FS_Subset DEF Good

\* Making a black node black changes nothing.
LEMMA Mending ==
    ASSUME NEW co \in [Addr -> {Red, Black}], NEW c, c # Nil => co[c] = Black
    PROVE  Mended(co, c) = co
BY DEF Mended

\* In the loop the state is such a tree,
LEMMA GoodLacks ==
    ASSUME NEW t, NEW nc, NEW al, NEW c, NEW u, NEW v, Good(t, nc, al, "erase", c, u, v), NEW M, M = al \ {v},
           c # Root(t), IsBlack(t, c)
    PROVE  \E pa, lf, rt, co, sub, h : Lacking(t, pa, lf, rt, co, M, sub, h, c, u)
<1>1. PICK pa, lf, rt, co : /\ Fields(t, pa, lf, rt, co)
                            /\ Links(pa, lf, rt) /\ co \in [Addr -> {Red, Black}]
  BY GoodFields
<1>2. PICK sub, h : Held(t, M, "erase", c, u, sub, h)
  BY DEF Good
<1>3. c # pa[Header] /\ (c # Nil => co[c] = Black)
  BY <1>1, FieldsAre DEF IsBlack
<1>4. u = IF c # pa[Header] /\ (c # Nil => co[c] = Black) THEN u ELSE Nil
  BY <1>3
<1>5. /\ Fine(pa, lf, rt, Mended(co, c), KeyOf, M, sub, h, u, Nil, Nil)
      /\ c # pa[Header] => u \in M /\ lf[u] = c /\ lf[Header] \in sub[u]
  BY ONLY <1>1, <1>2, <1>4, HeldErase
<1>6. Mended(co, c) = co
  BY <1>1, <1>3, Mending
<1>7. Lacking(t, pa, lf, rt, co, M, sub, h, c, u)
  BY <1>1, <1>3, <1>5, <1>6 DEF Lacking
<1>8. QED BY <1>7

\* and such a tree is a state of the loop.
LEMMA LacksGood ==
    ASSUME NEW t, NEW nc, NEW al, NEW c, NEW u, NEW v, Good(t, nc, al, "erase", c, u, v), NEW M, M = al \ {v},
           NEW t2, NEW pa, NEW lf, NEW rt, NEW co, NEW sub, NEW h, Lacking(t2, pa, lf, rt, co, M, sub, h, c, u)
    PROVE  Good(t2, nc, al, "erase", c, u, v)
<1>1. /\ Fields(t2, pa, lf, rt, co)
      /\ Fine(pa, lf, rt, co, KeyOf, M, sub, h, u, Nil, Nil)
      /\ u \in M /\ lf[u] = c /\ lf[Header] \in sub[u]
      /\ c # pa[Header] /\ (c # Nil => co[c] = Black)
  BY DEF Lacking
<1>2. Links(pa, lf, rt) /\ co \in [Addr -> {Red, Black}]
  BY <1>1 DEF Fine, Tied
<1>3. Mended(co, c) = co
  BY <1>1, <1>2, Mending
<1>4. u = IF c # pa[Header] /\ (c # Nil => co[c] = Black) THEN u ELSE Nil
  BY <1>1
<1>5. /\ Fine(pa, lf, rt, Mended(co, c), KeyOf, M, sub, h, u, Nil, Nil)
      /\ c # pa[Header] => u \in M /\ lf[u] = c /\ lf[Header] \in sub[u]
  BY <1>1, <1>3
<1>6. Held(t2, M, "erase", c, u, sub, h)
  BY ONLY <1>1, <1>4, <1>5, HeldErase
<1>7. t2 \in Trees
  BY <1>1, <1>2, FieldsTree
<1>8. v \in al /\ al \subseteq Node /\ nc = Cardinality(al)
  BY GoodErases
<1>9. M # {} /\ c \in M \cup {Nil} /\ c \in Addr \cup {Nil} /\ u \in Addr \cup {Nil}
  BY <1>1 DEF Good
<1>10. QED BY <1>6, <1>7, <1>8, <1>9 DEF Good

\* There is a sibling.
LEMMA SiblingThere ==
    ASSUME NEW t, NEW pa, NEW lf, NEW rt, NEW co, NEW L, NEW sub, NEW h, NEW c, NEW u,
           Lacking(t, pa, lf, rt, co, L, sub, h, c, u), NEW y, y = rt[u]
    PROVE  /\ y # Nil /\ y \in L /\ y # u /\ c # u /\ c # y /\ u # Nil /\ pa[y] = u
           /\ co[y] = Red => co[u] = Black
<1>1. /\ Tied(pa, lf, rt, L, sub) /\ Heights(lf, rt, co, L, h, u, Nil) /\ RedFree(pa, co, L, Nil, Nil)
      /\ u \in L /\ lf[u] = c /\ co \in [Addr -> {Red, Black}]
  BY DEF Lacking, Fine
<1>2. Nil \notin L /\ L \subseteq Node /\ (c # Nil => c \in L /\ c \in sub[c])
  BY <1>1, Below
<1>3. y # Nil
  <2>1. /\ h[u] = Bk(co, u) + H(h, c) + 1
        /\ h[u] = Bk(co, u) + H(h, y) + 0
    BY <1>1, <1>2 DEF Heights, Gap
  <2>2. Bk(co, u) \in Nat
    BY DEF Bk
  <2>3. H(h, c) \in Nat
    BY <1>1, <1>2 DEF H, Heights
  <2>4. y = Nil => H(h, y) = 0
    BY DEF H
  <2>5. QED BY <2>1, <2>2, <2>3, <2>4
<1>4. y \in L /\ y \in sub[y] /\ pa[y] = u
  <2>1. y \in L /\ pa[y] = u
    BY <1>1, <1>3 DEF Tied
  <2>2. QED BY <1>1, <2>1, Below
<1>5. y # u /\ c # u /\ c # y
  <2>1. u \notin Under(sub, c) \cup Under(sub, y) /\ Under(sub, c) \cap Under(sub, y) = {}
    BY <1>1 DEF Tied
  <2>2. u \in sub[u]
    BY <1>1, Below
  <2>3. u # Nil
    BY <1>1, <1>2
  <2>4. y # u
    BY <2>1, <2>2, <1>3, <1>4 DEF Under
  <2>5. c # u
    BY <2>1, <2>2, <2>3, <1>2 DEF Under
  <2>6. c # y
    BY <2>1, <1>2, <1>3, <1>4 DEF Under
  <2>7. QED BY <2>4, <2>5, <2>6
<1>6. co[y] = Red => co[u] = Black
  <2>1. co[y] = Red /\ co[u] = Red => y = Nil \/ u = Nil
    BY <1>1, <1>4 DEF RedFree
  <2>2. u \in Addr
    BY <1>1, <1>2, NilNotAddr
  <2>3. co[u] \in {Red, Black}
    BY <1>1, <2>2
  <2>4. QED BY <2>1, <2>3, <1>1, <1>2, <1>3
<1>7. QED BY <1>1, <1>2, <1>3, <1>4, <1>5, <1>6

\* Such a tree, for use by name.
LEMMA LackingFacts ==
    ASSUME NEW t, NEW pa, NEW lf, NEW rt, NEW co, NEW L, NEW sub, NEW h, NEW c, NEW u,
           Lacking(t, pa, lf, rt, co, L, sub, h, c, u)
    PROVE  /\ Fields(t, pa, lf, rt, co) /\ Fine(pa, lf, rt, co, KeyOf, L, sub, h, u, Nil, Nil)
           /\ u \in L /\ lf[u] = c /\ lf[Header] \in sub[u] /\ c # pa[Header] /\ (c # Nil => co[c] = Black)
           /\ Tied(pa, lf, rt, L, sub) /\ co \in [Addr -> {Red, Black}] /\ L \subseteq Addr /\ Nil \notin L /\ Header \notin L
           /\ t.parent = pa /\ t.left = lf /\ t.right = rt /\ t.color = co /\ Root(t) = pa[Header]
           /\ t["left"] = lf /\ t["right"] = rt
           /\ c \in L \cup {Nil} /\ KeyOf \in [Node -> Int]
<1>1. /\ Fields(t, pa, lf, rt, co) /\ Fine(pa, lf, rt, co, KeyOf, L, sub, h, u, Nil, Nil)
      /\ u \in L /\ lf[u] = c /\ lf[Header] \in sub[u] /\ c # pa[Header] /\ (c # Nil => co[c] = Black)
  BY DEF Lacking
<1>2. Tied(pa, lf, rt, L, sub) /\ co \in [Addr -> {Red, Black}] /\ KeyOf \in [Node -> Int]
  BY <1>1 DEF Fine
<1>3. L \subseteq Addr /\ Nil \notin L /\ Header \notin L /\ c \in L \cup {Nil}
  BY <1>1, <1>2, Below, NilNotAddr
<1>4. /\ t.parent = pa /\ t.left = lf /\ t.right = rt /\ t.color = co /\ Root(t) = pa[Header]
      /\ t["left"] = lf /\ t["right"] = rt
  BY <1>1, FieldsAre
<1>5. QED BY <1>1, <1>2, <1>3, <1>4

\* A red sibling is turned over the parent.
LEMMA RedSiblingStep ==
    ASSUME NEW t, NEW nc, NEW al, NEW c, NEW u, NEW v, Good(t, nc, al, "erase", c, u, v),
           c # Root(t), IsBlack(t, c), NEW y, y = t["right"][u], ~ IsBlack(t, y),
           NEW t1, t1 = [t EXCEPT !.color = [@ EXCEPT ![u] = Red, ![y] = Black]]
    PROVE  Good(Rotate(t1, u, "left", "right"), nc, al, "erase", c, u, v)
<1>1. PICK M : M = al \ {v}
  OBVIOUS
<1>2. PICK pa, lf, rt, co, sub, h : Lacking(t, pa, lf, rt, co, M, sub, h, c, u)
  BY <1>1, GoodLacks
<1>3. /\ Fields(t, pa, lf, rt, co) /\ Fine(pa, lf, rt, co, KeyOf, M, sub, h, u, Nil, Nil)
      /\ u \in M /\ lf[u] = c /\ lf[Header] \in sub[u] /\ c # pa[Header] /\ (c # Nil => co[c] = Black)
      /\ Tied(pa, lf, rt, M, sub) /\ co \in [Addr -> {Red, Black}] /\ M \subseteq Addr /\ Nil \notin M
      /\ t.color = co /\ t["right"] = rt /\ c \in M \cup {Nil}
  BY <1>2, LackingFacts
<1>4. y = rt[u]
  BY <1>3
<1>5. y # Nil /\ y \in M /\ y # u /\ c # u /\ c # y /\ u # Nil /\ (co[y] = Red => co[u] = Black)
  BY <1>2, <1>4, SiblingThere
<1>6. co[y] = Red /\ co[u] = Black
  <2>1. co[y] # Black
    BY <1>3 DEF IsBlack
  <2>2. QED BY <2>1, <1>3, <1>5
<1>7. PICK cp : cp = Swapped(co, u, y)
  OBVIOUS
<1>8. Fields(t1, pa, lf, rt, cp) /\ cp \in [Addr -> {Red, Black}]
  <2>1. cp = [co EXCEPT ![u] = Red, ![y] = Black]
    BY <1>6, <1>7 DEF Swapped
  <2>2. t1 = [t EXCEPT !.color = cp]
    BY <2>1, <1>3
  <2>3. QED BY <2>1, <2>2, <1>3, RecolouredFields
<1>9. rt[u] # Nil
  BY <1>4, <1>5
<1>10. PICK pb, lg, rg : Fields(Rotate(t1, u, "left", "right"), pb, lg, rg, cp) /\ Turned(pa, lf, rt, u, rt[u], pb, lg, rg)
  BY <1>3, <1>8, <1>9, RotateLeft
<1>11. TurnedTo(pa, lf, rt, KeyOf, M, sub, u, y, pb, lg, rg, cp, u, Nil, Nil)
  <2>1. /\ Fine(pa, lf, rt, co, KeyOf, M, sub, h, u, Nil, Nil) /\ u \in M /\ y = rt[u] /\ y # Nil
        /\ Turned(pa, lf, rt, u, y, pb, lg, rg) /\ co[u] = Black /\ co[y] = Red
        /\ u # y /\ Nil # u /\ Nil # y /\ (lf[u] # Nil => co[lf[u]] = Black)
        /\ cp = Swapped(co, u, y)
    BY <1>3, <1>4, <1>5, <1>6, <1>7, <1>10
  <2>2. QED BY ONLY <2>1, FineSwap
<1>12. PICK sb, hb : /\ Fine(pb, lg, rg, cp, KeyOf, M, sb, hb, u, Nil, Nil)
                     /\ lg[u] = lf[u] /\ pb[Header] = (IF u = pa[Header] THEN y ELSE pa[Header])
                     /\ lg[Header] = lf[Header] /\ (lf[Header] \in sub[u] => lf[Header] \in sb[u])
  BY <1>11 DEF TurnedTo
<1>13. c # Nil => cp[c] = Black
  BY <1>3, <1>5, <1>7 DEF Swapped
<1>14. lg[u] = c /\ c # pb[Header] /\ lg[Header] \in sb[u]
  BY <1>3, <1>5, <1>12
<1>15. Lacking(Rotate(t1, u, "left", "right"), pb, lg, rg, cp, M, sb, hb, c, u)
  BY <1>3, <1>10, <1>12, <1>13, <1>14 DEF Lacking
<1>16. QED BY <1>1, <1>15, LacksGood

\* The child on the side of the first node.
LEMMA FirstSide ==
    ASSUME NEW pa, NEW lf, NEW rt, NEW L, NEW sub, Tied(pa, lf, rt, L, sub), NEW e, First(lf, L, sub, e),
           NEW n \in L, e \in sub[n], n # pa[Header], NEW p, p = pa[n]
    PROVE  p \in L /\ lf[p] = n /\ e \in sub[p]
<1>1. p \in L /\ n \in sub[p] /\ (n = lf[p] \/ n = rt[p])
  BY Parents
<1>2. n # Nil /\ p \in sub[p] /\ sub[n] \subseteq sub[p]
  BY <1>1, Below, Nested
<1>3. e \in sub[p]
  BY <1>2
<1>4. p = e \/ e \in Under(sub, lf[p])
  BY <1>1, <1>3 DEF First
<1>5. p \notin Under(sub, lf[p]) \cup Under(sub, rt[p]) /\ Under(sub, lf[p]) \cap Under(sub, rt[p]) = {}
  BY <1>1 DEF Tied
<1>6. n = rt[p] => e \in Under(sub, rt[p])
  BY <1>2 DEF Under
<1>7. n = rt[p] => FALSE
  BY <1>4, <1>5, <1>6
<1>8. QED BY <1>1, <1>3, <1>7

\* The sibling red, the missing black moves up.
LEMMA BlackNephewsStep ==
    ASSUME NEW t, NEW nc, NEW al, NEW c, NEW u, NEW v, Good(t, nc, al, "erase", c, u, v),
           c # Root(t), IsBlack(t, c), NEW y, y = t["right"][u], y # Nil, IsBlack(t, y),
           IsBlack(t, t["left"][y]), IsBlack(t, t["right"][y]),
           NEW t1, t1 = [t EXCEPT !.color[y] = Red], NEW q, q = t.parent[u]
    PROVE  Good(t1, nc, al, "erase", u, q, v)
<1>1. PICK M : M = al \ {v}
  OBVIOUS
<1>2. PICK pa, lf, rt, co, sub, h : Lacking(t, pa, lf, rt, co, M, sub, h, c, u)
  BY <1>1, GoodLacks
<1>3. /\ Fields(t, pa, lf, rt, co) /\ Fine(pa, lf, rt, co, KeyOf, M, sub, h, u, Nil, Nil)
      /\ u \in M /\ lf[u] = c /\ lf[Header] \in sub[u]
      /\ Tied(pa, lf, rt, M, sub) /\ co \in [Addr -> {Red, Black}] /\ M \subseteq Addr /\ Nil \notin M /\ Header \notin M
      /\ t.color = co /\ t["right"] = rt /\ t["left"] = lf /\ t.parent = pa
  BY <1>2, LackingFacts
<1>4. y = rt[u] /\ q = pa[u]
  BY <1>3
<1>5. y # Nil /\ y \in M /\ y # u /\ u # Nil
  BY <1>2, <1>4, SiblingThere
<1>6. co[y] = Black /\ (lf[y] # Nil => co[lf[y]] = Black) /\ (rt[y] # Nil => co[rt[y]] = Black)
  BY <1>3 DEF IsBlack
<1>7. First(lf, M, sub, lf[Header]) /\ M # {}
  BY <1>3 DEF Fine
<1>8. u # pa[Header] => q \in M /\ lf[q] = u /\ lf[Header] \in sub[q]
  BY <1>3, <1>4, <1>7, FirstSide
<1>9. PICK cp, cr, k : /\ cp = MovedColours(co, u, y) /\ cr = [co EXCEPT ![y] = Red]
                       /\ k = IF co[u] = Black /\ u # pa[Header] THEN q ELSE Nil
  <2>1. PICK cp : cp = MovedColours(co, u, y)
    OBVIOUS
  <2>2. PICK cr : cr = [co EXCEPT ![y] = Red]
    OBVIOUS
  <2>3. PICK k : k = IF co[u] = Black /\ u # pa[Header] THEN q ELSE Nil
    OBVIOUS
  <2>4. QED BY <2>1, <2>2, <2>3
<1>10. cp = Mended(cr, u) /\ cr[u] = co[u] /\ cr \in [Addr -> {Red, Black}]
  BY <1>3, <1>5, <1>9 DEF MovedColours, Mended
<1>11. \E hb : Fine(pa, lf, rt, cp, KeyOf, M, sub, hb, k, Nil, Nil)
  <2>1. /\ Fine(pa, lf, rt, co, KeyOf, M, sub, h, u, Nil, Nil) /\ u \in M
        /\ y = rt[u] /\ y # Nil /\ co[y] = Black /\ (lf[y] # Nil => co[lf[y]] = Black) /\ (rt[y] # Nil => co[rt[y]] = Black)
        /\ (u # pa[Header] => lf[pa[u]] = u)
        /\ cp = MovedColours(co, u, y) /\ k = (IF co[u] = Black /\ u # pa[Header] THEN pa[u] ELSE Nil)
    BY <1>3, <1>4, <1>5, <1>6, <1>8, <1>9
  <2>2. QED BY ONLY <2>1, FineMoved
<1>12. PICK hb : Fine(pa, lf, rt, Mended(cr, u), KeyOf, M, sub, hb, k, Nil, Nil)
  BY <1>10, <1>11
<1>13. Fields(t1, pa, lf, rt, cr)
  <2>1. t1 = [t EXCEPT !.color = cr]
    BY <1>3, <1>9
  <2>2. QED BY <2>1, <1>3, RecolouredFields
<1>14. k = IF u # pa[Header] /\ (u # Nil => cr[u] = Black) THEN q ELSE Nil
  BY <1>5, <1>9, <1>10
<1>15. u # pa[Header] => q \in M /\ lf[q] = u /\ lf[Header] \in sub[q]
  BY <1>8
<1>16. Held(t1, M, "erase", u, q, sub, hb)
  BY ONLY <1>12, <1>13, <1>14, <1>15, HeldErase
<1>17. t1 \in Trees /\ q \in Addr \cup {Nil}
  <2>1. Links(pa, lf, rt)
    BY <1>3 DEF Tied
  <2>2. q \in Addr \cup {Nil}
    BY <2>1, <1>3, <1>4 DEF Links
  <2>3. QED BY <2>1, <2>2, <1>10, <1>13, FieldsTree
<1>18. v \in al /\ al \subseteq Node /\ nc = Cardinality(al)
  BY GoodErases
<1>19. M # {} /\ u \in M \cup {Nil} /\ u \in Addr \cup {Nil}
  BY <1>3
<1>20. QED BY <1>1, <1>16, <1>17, <1>18, <1>19 DEF Good

\* The loop is over.
LEMMA BalancedStep ==
    ASSUME NEW t, NEW nc, NEW al, NEW c, NEW u, NEW v, Good(t, nc, al, "erase", c, u, v),
           ~ (c # Root(t) /\ IsBlack(t, c)),
           NEW t1, t1 = IF c = Nil THEN t ELSE [t EXCEPT !.color[c] = Black]
    PROVE  Good(t1, nc, al, "drop", c, u, v)
<1>1. PICK M : M = al \ {v}
  OBVIOUS
<1>2. PICK pa, lf, rt, co : /\ Fields(t, pa, lf, rt, co)
                            /\ Links(pa, lf, rt) /\ co \in [Addr -> {Red, Black}]
  BY GoodFields
<1>3. PICK sub, h : Held(t, M, "erase", c, u, sub, h)
  BY <1>1 DEF Good
<1>4. ~ (c # pa[Header] /\ (c # Nil => co[c] = Black)) /\ t.color = co
  BY <1>2, FieldsAre DEF IsBlack
<1>5. Nil = IF c # pa[Header] /\ (c # Nil => co[c] = Black) THEN u ELSE Nil
  BY <1>4
<1>6. PICK cp : cp = Mended(co, c)
  OBVIOUS
<1>7. Fine(pa, lf, rt, cp, KeyOf, M, sub, h, Nil, Nil, Nil)
  <2>1. Fine(pa, lf, rt, Mended(co, c), KeyOf, M, sub, h, Nil, Nil, Nil)
    BY ONLY <1>2, <1>3, <1>5, HeldErase
  <2>2. QED BY <2>1, <1>6
<1>8. Fields(t1, pa, lf, rt, cp)
  <2>1. CASE c = Nil
    BY <2>1, <1>2, <1>6 DEF Mended
  <2>2. CASE c # Nil
    <3>1. t1 = [t EXCEPT !.color = cp]
      BY <2>2, <1>4, <1>6 DEF Mended
    <3>2. QED BY <3>1, <1>2, RecolouredFields
  <2>3. QED BY <2>1, <2>2
<1>9. Held(t1, M, "drop", c, u, sub, h)
  BY <1>7, <1>8, HeldRest
<1>10. t1 \in Trees
  <2>1. cp \in [Addr -> {Red, Black}]
    BY <1>7 DEF Fine
  <2>2. QED BY <2>1, <1>2, <1>8, FieldsTree
<1>11. v \in al /\ al \subseteq Node /\ nc = Cardinality(al)
  BY GoodErases
<1>12. c \in Addr \cup {Nil} /\ u \in Addr \cup {Nil} /\ (M = {} => LeftMost(t1) = Header)
  <2>1. LeftMost(t) = lf[Header] /\ LeftMost(t1) = lf[Header]
    BY <1>2, <1>8, FieldsAre
  <2>2. QED BY <2>1, <1>1 DEF Good
<1>13. QED BY <1>1, <1>9, <1>10, <1>11, <1>12 DEF Good

\* The node is gone.
LEMMA DropStep ==
    ASSUME NEW t, NEW nc, NEW al, NEW c, NEW u, NEW v, Good(t, nc, al, "drop", c, u, v),
           NEW t1, t1 = [parent |-> [t.parent EXCEPT ![v] = Nil],
                         left   |-> [t.left   EXCEPT ![v] = Nil],
                         right  |-> [t.right  EXCEPT ![v] = Nil],
                         color  |-> [t.color  EXCEPT ![v] = Red]]
    PROVE  Good(t1, nc - 1, al \ {v}, "idle", Nil, Nil, Nil)
<1>1. PICK M : M = al \ {v}
  OBVIOUS
<1>2. PICK pa, lf, rt, co : /\ Fields(t, pa, lf, rt, co)
                            /\ Links(pa, lf, rt) /\ co \in [Addr -> {Red, Black}]
  BY GoodFields
<1>3. PICK sub, h : Held(t, M, "drop", c, u, sub, h)
  BY <1>1 DEF Good
<1>4. Fine(pa, lf, rt, co, KeyOf, M, sub, h, Nil, Nil, Nil)
  BY <1>2, <1>3, HeldRest
<1>5. v \in al /\ al \subseteq Node /\ IsFiniteSet(al) /\ nc = Cardinality(al)
  BY GoodErases
<1>6. v \in Addr /\ v # Header /\ v \notin M /\ M \subseteq Addr /\ Header \in Addr
  BY <1>1, <1>5, NilNotAddr
<1>7. t.parent = pa /\ t.left = lf /\ t.right = rt /\ t.color = co /\ LeftMost(t) = lf[Header]
  BY <1>2, FieldsAre
<1>8. PICK pb, lg, rg, cp : /\ pb = [pa EXCEPT ![v] = Nil] /\ lg = [lf EXCEPT ![v] = Nil]
                            /\ rg = [rt EXCEPT ![v] = Nil] /\ cp = [co EXCEPT ![v] = Red]
  <2>1. PICK f : f = [pa EXCEPT ![v] = Nil]
    OBVIOUS
  <2>2. PICK g : g = [lf EXCEPT ![v] = Nil]
    OBVIOUS
  <2>3. PICK i : i = [rt EXCEPT ![v] = Nil]
    OBVIOUS
  <2>4. PICK d : d = [co EXCEPT ![v] = Red]
    OBVIOUS
  <2>5. QED BY <2>1, <2>2, <2>3, <2>4
<1>9. Fields(t1, pb, lg, rg, cp)
  BY <1>7, <1>8 DEF Fields
<1>10. Links(pb, lg, rg) /\ cp \in [Addr -> {Red, Black}]
  BY <1>2, <1>8 DEF Links
<1>11. Agree(pa, pb, M) /\ Agree(lf, lg, M) /\ Agree(rt, rg, M) /\ Agree(co, cp, M)
  BY <1>2, <1>6, <1>8 DEF Agree, Links
<1>12. Fine(pb, lg, rg, cp, KeyOf, M, sub, h, Nil, Nil, Nil)
  BY ONLY <1>4, <1>10, <1>11, FineSame
<1>13. Held(t1, M, "idle", Nil, Nil, sub, h)
  BY <1>9, <1>12, HeldRest
<1>14. t1 \in Trees
  BY <1>9, <1>10, FieldsTree
<1>15. M = {} => LeftMost(t1) = Header
  <2>1. LeftMost(t1) = lg[Header]
    BY <1>9, FieldsAre
  <2>2. lg[Header] = lf[Header]
    BY <1>11 DEF Agree
  <2>3. M = {} => LeftMost(t) = Header
    BY <1>1 DEF Good
  <2>4. QED BY <2>1, <2>2, <2>3, <1>7
<1>16. nc - 1 = Cardinality(M)
  BY <1>1, <1>5, FS_RemoveElement
<1>17. M \ {Nil} = M /\ M \subseteq Node
  BY <1>1, <1>5, NilNotAddr
<1>18. Good(t1, nc - 1, M, "idle", Nil, Nil, Nil)
  BY <1>13, <1>14, <1>15, <1>16, <1>17 DEF Good
<1>19. QED BY <1>1, <1>18

\* The far nephew w is red: it supplies the missing black.
LEMMA NephewTurned ==
    ASSUME NEW t1, NEW pa, NEW lf, NEW rt, NEW co, Fields(t1, pa, lf, rt, co), NEW L, NEW sub, NEW h, NEW u \in L,
           Fine(pa, lf, rt, co, KeyOf, L, sub, h, u, Nil, Nil),
           NEW y, y = rt[u], y # Nil, NEW w, w = rt[y], w # Nil, co[y] = Black, co[w] = Red,
           NEW t2, t2 = [t1 EXCEPT !.color = [@ EXCEPT ![y] = t1.color[u], ![u] = Black, ![w] = Black]]
    PROVE  \E pb, lg, rg, cp, sb, hb : /\ Fields(Rotate(t2, u, "left", "right"), pb, lg, rg, cp)
                                       /\ Fine(pb, lg, rg, cp, KeyOf, L, sb, hb, Nil, Nil, Nil)
<1>1. /\ Tied(pa, lf, rt, L, sub) /\ co \in [Addr -> {Red, Black}] /\ L \subseteq Addr /\ t1.color = co
  BY Below, NilNotAddr, FieldsAre DEF Fine
<1>2. y \in L /\ w \in L
  BY <1>1, Below
<1>3. PICK cp : cp = NephewColours(co, u, y, w)
  OBVIOUS
<1>4. Fields(t2, pa, lf, rt, cp) /\ cp \in [Addr -> {Red, Black}]
  <2>1. t2 = [t1 EXCEPT !.color = cp]
    BY <1>1, <1>3 DEF NephewColours
  <2>2. cp \in [Addr -> {Red, Black}]
    BY <1>1, <1>2, <1>3 DEF NephewColours
  <2>3. QED BY <2>1, <2>2, RecolouredFields
<1>5. rt[u] # Nil
  OBVIOUS
<1>6. PICK pb, lg, rg : Fields(Rotate(t2, u, "left", "right"), pb, lg, rg, cp) /\ Turned(pa, lf, rt, u, rt[u], pb, lg, rg)
  BY <1>1, <1>4, <1>5, RotateLeft
<1>7. TurnedTo(pa, lf, rt, KeyOf, L, sub, u, y, pb, lg, rg, cp, Nil, Nil, Nil)
  <2>1. /\ u \in L /\ Fine(pa, lf, rt, co, KeyOf, L, sub, h, u, Nil, Nil)
        /\ y = rt[u] /\ y # Nil /\ w = rt[y] /\ w # Nil
        /\ Turned(pa, lf, rt, u, y, pb, lg, rg) /\ co[y] = Black /\ co[w] = Red
        /\ cp = NephewColours(co, u, y, w)
    BY <1>3, <1>6
  <2>2. QED BY ONLY <2>1, FineNephew
<1>8. QED BY <1>6, <1>7 DEF TurnedTo

\* The near nephew is the red one: it takes the place of the sibling first.
LEMMA NearTurned ==
    ASSUME NEW t, NEW pa, NEW lf, NEW rt, NEW co, NEW L, NEW sub, NEW h, NEW c, NEW u,
           Lacking(t, pa, lf, rt, co, L, sub, h, c, u),
           NEW y, y = rt[u], co[y] = Black, NEW near, near = lf[y], near # Nil, co[near] = Red,
           rt[y] # Nil => co[rt[y]] = Black,
           NEW t0, t0 = [t EXCEPT !.color = [@ EXCEPT ![near] = Black, ![y] = Red]]
    PROVE  \E pb, lg, rg, cp, sb, hb : /\ Fields(Rotate(t0, y, "right", "left"), pb, lg, rg, cp)
                                       /\ Fine(pb, lg, rg, cp, KeyOf, L, sb, hb, u, Nil, Nil)
                                       /\ rg[u] = near /\ rg[near] = y /\ cp[near] = Black /\ cp[y] = Red
<1>1. /\ Fields(t, pa, lf, rt, co) /\ Fine(pa, lf, rt, co, KeyOf, L, sub, h, u, Nil, Nil)
      /\ u \in L /\ lf[u] = c
      /\ Tied(pa, lf, rt, L, sub) /\ co \in [Addr -> {Red, Black}] /\ L \subseteq Addr /\ Nil \notin L /\ Header \notin L
      /\ t.color = co /\ KeyOf \in [Node -> Int]
  BY LackingFacts
<1>2. y # Nil /\ y \in L /\ y # u /\ c # y /\ u # Nil /\ pa[y] = u
  BY SiblingThere
<1>3. near \in L /\ near # y
  <2>1. near \in L
    BY <1>1, <1>2, Below
  <2>2. near \in sub[near] /\ y \notin Under(sub, near)
    BY <2>1, <1>1, <1>2, Below DEF Tied
  <2>3. QED BY <2>1, <2>2 DEF Under
<1>4. near # u
  <2>1. u # lf[y]
    BY <1>1, <1>2, NoCycle
  <2>2. QED BY <2>1
<1>5. PICK cp : cp = Swapped(co, y, near)
  OBVIOUS
<1>6. Fields(t0, pa, lf, rt, cp) /\ cp \in [Addr -> {Red, Black}] /\ cp[near] = Black /\ cp[y] = Red
  <2>1. cp = [co EXCEPT ![near] = Black, ![y] = Red]
    BY <1>1, <1>2, <1>3, <1>5 DEF Swapped
  <2>2. t0 = [t EXCEPT !.color = cp]
    BY <2>1, <1>1
  <2>3. y \in Addr /\ near \in Addr
    BY <1>1, <1>2, <1>3
  <2>4. cp \in [Addr -> {Red, Black}] /\ cp[near] = Black /\ cp[y] = Red
    BY <2>1, <2>3, <1>1, <1>3
  <2>5. QED BY <2>2, <2>4, <1>1, RecolouredFields
<1>7. lf[y] # Nil
  OBVIOUS
<1>8. PICK pb, lg, rg : Fields(Rotate(t0, y, "right", "left"), pb, lg, rg, cp) /\ Turned(pa, rt, lf, y, lf[y], pb, rg, lg)
  BY <1>1, <1>2, <1>6, <1>7, RotateRight
<1>9. PICK kk : kk = Neg(KeyOf)
  OBVIOUS
<1>10. Fine(pa, rt, lf, co, kk, L, sub, h, Nil, u, Nil)
  BY <1>1, <1>9, FineMirror
<1>11. Turned(pa, rt, lf, y, near, pb, rg, lg)
  BY <1>8
<1>12. TurnedTo(pa, rt, lf, kk, L, sub, y, near, pb, rg, lg, cp, Nil, u, Nil)
  <2>1. /\ Fine(pa, rt, lf, co, kk, L, sub, h, Nil, u, Nil) /\ y \in L /\ near = lf[y] /\ near # Nil
        /\ Turned(pa, rt, lf, y, near, pb, rg, lg) /\ co[y] = Black /\ co[near] = Red
        /\ Nil # near /\ u # y /\ u # near /\ (rt[y] # Nil => co[rt[y]] = Black)
        /\ cp = Swapped(co, y, near)
    BY <1>2, <1>4, <1>5, <1>10, <1>11
  <2>2. QED BY ONLY <2>1, FineSwap
<1>13. PICK sb, hb : Fine(pb, rg, lg, cp, kk, L, sb, hb, Nil, u, Nil) /\ rg[near] = y
  BY <1>12 DEF TurnedTo
<1>14. Fine(pb, lg, rg, cp, Neg(kk), L, sb, hb, u, Nil, Nil)
  BY <1>13, FineMirror
<1>15. Neg(kk) = KeyOf
  BY <1>1, <1>9, NegNeg
<1>16. Fine(pb, lg, rg, cp, KeyOf, L, sb, hb, u, Nil, Nil)
  BY <1>14, <1>15
<1>17. rg[u] = near
  <2>1. y # pa[Header]
    BY <1>1, <1>2 DEF Tied
  <2>2. u \in Addr
    BY <1>1
  <2>3. rg = [a \in Addr |-> IF a = near THEN y ELSE IF a = pa[y] /\ y # pa[Header] /\ lf[a] # y THEN near ELSE rt[a]]
    BY <1>11 DEF Turned
  <2>4. u = pa[y] /\ lf[u] # y
    BY <1>1, <1>2
  <2>5. QED BY <2>1, <2>2, <2>3, <2>4, <1>4
<1>18. QED BY <1>6, <1>8, <1>13, <1>16, <1>17

\* CASE4 ends the loop.
LEMMA RedNephewTurned ==
    ASSUME NEW t, NEW pa, NEW lf, NEW rt, NEW co, NEW L, NEW sub, NEW h, NEW c, NEW u,
           Lacking(t, pa, lf, rt, co, L, sub, h, c, u),
           NEW y, y = rt[u], IsBlack(t, y), NEW near, NEW far, NEW t1, NEW sib, NEW t2,
           Supplies(t, u, y, near, far, t1, sib, t2), ~ IsBlack(t, near) \/ ~ IsBlack(t, far)
    PROVE  \E pb, lg, rg, cp, sb, hb : /\ Fields(Rotate(t2, u, "left", "right"), pb, lg, rg, cp)
                                       /\ Fine(pb, lg, rg, cp, KeyOf, L, sb, hb, Nil, Nil, Nil)
<1>1. /\ Fields(t, pa, lf, rt, co) /\ Fine(pa, lf, rt, co, KeyOf, L, sub, h, u, Nil, Nil)
      /\ u \in L /\ co \in [Addr -> {Red, Black}] /\ L \subseteq Addr /\ Tied(pa, lf, rt, L, sub)
      /\ t.color = co /\ t["left"] = lf /\ t["right"] = rt
  BY LackingFacts
<1>2. y # Nil /\ y \in L
  BY SiblingThere
<1>3. co[y] = Black /\ near = lf[y] /\ far = rt[y]
  BY <1>1, <1>2 DEF IsBlack, Supplies
<1>4. (near # Nil => near \in Addr) /\ (far # Nil => far \in Addr)
  BY <1>1, <1>2, <1>3 DEF Tied
<1>5. CASE IsBlack(t, far)
  <2>1. near # Nil /\ co[near] = Red
    BY <1>1, <1>4, <1>5 DEF IsBlack
  <2>2. rt[y] # Nil => co[rt[y]] = Black
    BY <1>1, <1>3, <1>5 DEF IsBlack
  <2>3. PICK t0 : t0 = [t EXCEPT !.color = [@ EXCEPT ![near] = Black, ![y] = Red]]
    OBVIOUS
  <2>4. PICK pb, lg, rg, cp, sb, hb : /\ Fields(Rotate(t0, y, "right", "left"), pb, lg, rg, cp)
                                      /\ Fine(pb, lg, rg, cp, KeyOf, L, sb, hb, u, Nil, Nil)
                                      /\ rg[u] = near /\ rg[near] = y /\ cp[near] = Black /\ cp[y] = Red
    BY <1>3, <2>1, <2>2, <2>3, NearTurned
  <2>5. t1 = Rotate(t0, y, "right", "left")
    BY <1>5, <2>3 DEF Supplies
  <2>6. Fields(t1, pb, lg, rg, cp)
    BY <2>4, <2>5
  <2>7. t1["right"] = rg
    BY <2>6, FieldsAre
  <2>8. sib = near /\ t1["right"][sib] = y
    BY <2>4, <2>7 DEF Supplies
  <2>9. t2 = [t1 EXCEPT !.color = [@ EXCEPT ![near] = t1.color[u], ![u] = Black, ![y] = Black]]
    BY <2>8 DEF Supplies
  <2>10. QED BY <1>1, <1>2, <2>1, <2>4, <2>6, <2>9, NephewTurned
<1>6. CASE ~ IsBlack(t, far)
  <2>1. t1 = t
    BY <1>6 DEF Supplies
  <2>2. far # Nil /\ co[far] = Red
    BY <1>1, <1>4, <1>6 DEF IsBlack
  <2>3. sib = y /\ t1["right"][sib] = far
    BY <1>1, <1>3, <2>1 DEF Supplies
  <2>4. t2 = [t EXCEPT !.color = [@ EXCEPT ![y] = t.color[u], ![u] = Black, ![far] = Black]]
    BY <2>1, <2>3 DEF Supplies
  <2>5. QED BY <1>1, <1>2, <1>3, <2>2, <2>4, NephewTurned
<1>7. QED BY <1>5, <1>6

\* CASE3, if needed, and CASE4.
LEMMA RedNephewStep ==
    ASSUME NEW t, NEW nc, NEW al, NEW c, NEW u, NEW v, Good(t, nc, al, "erase", c, u, v),
           c # Root(t), IsBlack(t, c), NEW y, y = t["right"][u], IsBlack(t, y),
           NEW near, NEW far, NEW t1, NEW sib, NEW t2,
           Supplies(t, u, y, near, far, t1, sib, t2), ~ IsBlack(t, near) \/ ~ IsBlack(t, far),
           NEW t3, t3 = Rotate(t2, u, "left", "right"), NEW r, r = Root(t3)
    PROVE  Good(t3, nc, al, "erase", r, u, v)
<1>1. PICK M : M = al \ {v}
  OBVIOUS
<1>2. PICK pa, lf, rt, co, sub, h : Lacking(t, pa, lf, rt, co, M, sub, h, c, u)
  BY <1>1, GoodLacks
<1>3. u \in M /\ t["right"] = rt /\ M \subseteq Addr
  BY <1>2, LackingFacts
<1>4. y = rt[u]
  BY <1>3
<1>5. PICK pb, lg, rg, cp, sb, hb : /\ Fields(t3, pb, lg, rg, cp)
                                    /\ Fine(pb, lg, rg, cp, KeyOf, M, sb, hb, Nil, Nil, Nil)
  <2>1. \E pb, lg, rg, cp, sb, hb : /\ Fields(Rotate(t2, u, "left", "right"), pb, lg, rg, cp)
                                    /\ Fine(pb, lg, rg, cp, KeyOf, M, sb, hb, Nil, Nil, Nil)
    BY ONLY <1>2, <1>4, IsBlack(t, y), Supplies(t, u, y, near, far, t1, sib, t2), ~ IsBlack(t, near) \/ ~ IsBlack(t, far),
            RedNephewTurned
  <2>2. QED BY <2>1
<1>6. M # {}
  BY <1>3
<1>7. pb[Header] \in M /\ cp[pb[Header]] = Black
  BY <1>5, <1>6, RootIsBlack
<1>8. r = pb[Header]
  BY <1>5, FieldsAre
<1>9. cp \in [Addr -> {Red, Black}] /\ Links(pb, lg, rg)
  BY <1>5 DEF Fine, Tied
<1>10. Mended(cp, r) = cp
  BY <1>7, <1>8, <1>9, Mending
<1>11. Nil = IF r # pb[Header] /\ (r # Nil => cp[r] = Black) THEN u ELSE Nil
  BY <1>8
<1>12. /\ Fine(pb, lg, rg, Mended(cp, r), KeyOf, M, sb, hb, Nil, Nil, Nil)
       /\ r # pb[Header] => u \in M /\ lg[u] = r /\ lg[Header] \in sb[u]
  BY <1>5, <1>8, <1>10
<1>13. Held(t3, M, "erase", r, u, sb, hb)
  BY ONLY <1>5, <1>11, <1>12, HeldErase
<1>14. t3 \in Trees
  BY <1>5, <1>9, FieldsTree
<1>15. v \in al /\ al \subseteq Node /\ nc = Cardinality(al)
  BY GoodErases
<1>16. r \in M \cup {Nil} /\ r \in Addr \cup {Nil} /\ u \in Addr \cup {Nil}
  BY <1>3, <1>7, <1>8
<1>17. QED BY <1>1, <1>6, <1>13, <1>14, <1>15, <1>16 DEF Good

-----------------------------------------------------------------------------
(* Steps.                                                                  *)

\* A node linked at such a place,
LEMMA EmplacedStep ==
    ASSUME NEW t, NEW nc, NEW al, NEW c, NEW u, NEW v, Good(t, nc, al, "idle", c, u, v),
           NEW n \in Node, n \notin al, NEW at, Settled(t, al, at, KeyOf[n]),
           NEW il, GoesLeft(il, at, KeyOf[n])
    PROVE  at[2] # Nil /\ Good(Link(t, n, at[2], il), nc, al \cup {n}, "insert", n, u, v)
<1>12. PICK e, p : e = at[1] /\ p = at[2]
  OBVIOUS
<1>1. PICK k : k = KeyOf[n]
  OBVIOUS
<1>2. PICK pa, lf, rt, co, sub, h, lo, hi :
          /\ Resting(t, pa, lf, rt, co, al, sub, h)
          /\ Place(lf, rt, al, sub, e, p, k, lo, hi)
          /\ lo \in Int /\ hi \in Int /\ lo <= k /\ k <= hi
  BY <1>1, <1>12 DEF Settled
<1>3. Nil \notin al /\ Nil # Header
  BY <1>2, RestingFacts
<1>4. p # Nil
  BY <1>2, <1>3 DEF Place
<1>5. il \in BOOLEAN /\ (il <=> e # Nil \/ p = Header \/ k < KeyOf[p])
  BY <1>1, <1>12 DEF GoesLeft
<1>6. PICK t2 : t2 = Link(t, n, p, il)
  OBVIOUS
<1>7. Grown(t2, al, n)
  <2>1. Grown(Link(t, n, p, il), al, n)
    BY ONLY <1>1, <1>2, <1>5, n \in Node, n \notin al, LinkedAtPlace
  <2>2. QED BY <2>1, <1>6
<1>8. v = Nil
  BY GoodRests
<1>9. Good(t, nc, al, "idle", c, u, Nil)
  BY <1>8
<1>10. Good(t2, nc, al \cup {n}, "insert", n, u, Nil)
  BY ONLY <1>7, <1>9, n \in Node, n \notin al, GoodGrown
<1>11. QED BY <1>4, <1>6, <1>8, <1>10, <1>12

\* which the search for a unique key answers
LEMMA SettledUnique ==
    ASSUME NEW t, NEW pa, NEW lf, NEW rt, NEW co, NEW L, NEW sub, NEW h, Resting(t, pa, lf, rt, co, L, sub, h),
           NEW k \in Int, NEW at, UniqueAnswer(lf, rt, L, sub, at, k), at[2] # Nil
    PROVE  Settled(t, L, at, k)
<1>1. PICK lo, hi : lo = k - 1 /\ hi = k + 1
  OBVIOUS
<1>2. lo \in Int /\ hi \in Int /\ lo <= k /\ k <= hi
  BY <1>1
<1>3. Place(lf, rt, L, sub, at[1], at[2], k, lo, hi)
  BY <1>1 DEF UniqueAnswer
<1>4. QED BY <1>2, <1>3 DEF Settled

\* Where the answer is a place, nobody has the key.
LEMMA UniqueIsNew ==
    ASSUME NEW t, NEW pa, NEW lf, NEW rt, NEW co, NEW L, NEW sub, NEW h, Resting(t, pa, lf, rt, co, L, sub, h),
           NEW k \in Int, NEW at, UniqueAnswer(lf, rt, L, sub, at, k), at[2] # Nil, NEW m \in L
    PROVE  KeyOf[m] # k
<1>1. Ordered(pa, lf, rt, KeyOf, L, sub) /\ Header \notin L /\ (\A a \in L : KeyOf[a] \in Int) /\ KeyOf \in [Node -> Int]
  BY RestingFacts, Addresses
<1>2. PICK e, p : e = at[1] /\ p = at[2]
  OBVIOUS
<1>3. PICK lo, hi : lo = k - 1 /\ hi = k + 1
  OBVIOUS
<1>4. Place(lf, rt, L, sub, e, p, k, lo, hi)
  BY <1>2, <1>3 DEF UniqueAnswer
<1>5. p \in L
  BY <1>4 DEF Place
<1>6. CASE e # Nil \/ k < KeyOf[p]
  <2>1. lf[p] = Nil /\ Fits(KeyOf, lf, rt, L, sub, lo, hi, p)
    BY <1>1, <1>4, <1>5, <1>6 DEF Place
  <2>2. Fits(KeyOf, lf, rt, L, sub, k - 1, k + 1, p)
    BY <2>1, <1>3
  <2>3. QED BY ONLY <1>1, <1>5, <2>1, <2>2, k \in Int, m \in L, FitsStrictly
<1>7. CASE e = Nil /\ ~ (k < KeyOf[p])
  <2>1. rt[p] = Nil /\ Fits(Neg(KeyOf), rt, lf, L, sub, - hi, - lo, p)
    BY <1>1, <1>4, <1>5, <1>7 DEF Place
  <2>2. PICK j, kk : j = - k /\ kk = Neg(KeyOf)
    OBVIOUS
  <2>3. j \in Int /\ - hi = j - 1 /\ - lo = j + 1
    BY <2>2, <1>3
  <2>4. Fits(kk, rt, lf, L, sub, j - 1, j + 1, p)
    BY <2>1, <2>2, <2>3
  <2>5. Ordered(pa, rt, lf, kk, L, sub)
    BY <1>1, <2>2, OrderedMirror
  <2>6. kk[m] # j
    BY ONLY <1>5, <2>1, <2>3, <2>4, <2>5, m \in L, FitsStrictly
  <2>7. m \in Node /\ KeyOf[m] \in Int
    BY <1>1, <2>5, OrderedFacts
  <2>8. kk[m] = - KeyOf[m]
    BY <2>2, <2>7 DEF Neg
  <2>9. QED BY <2>2, <2>6, <2>7, <2>8
<1>8. QED BY <1>6, <1>7

\* The three insertions find places.
LEMMA UniqueSettles ==
    ASSUME NEW t, NEW nc, NEW al, NEW c, NEW u, NEW v, Good(t, nc, al, "idle", c, u, v), NEW n \in Node,
           NEW at, at[2] # Nil,
           at = GetInsertUniquePos(t, KeyOf[n]) \/ \E pos \in al \cup {Header} : at = GetInsertUniqueHintPos(t, nc, pos, KeyOf[n])
    PROVE  Settled(t, al, at, KeyOf[n]) /\ \A m \in al : KeyOf[m] # KeyOf[n]
<1>1. PICK k : k = KeyOf[n] /\ k \in Int
  BY Addresses
<1>2. PICK pa, lf, rt, co, sub, h : Resting(t, pa, lf, rt, co, al, sub, h)
  BY GoodRests
<1>3. nc > 0 => al # {}
  BY GoodRests, FS_EmptySet
<1>4. UniqueAnswer(lf, rt, al, sub, at, k)
  <2>1. CASE at = GetInsertUniquePos(t, KeyOf[n])
    <3>1. UniqueAnswer(lf, rt, al, sub, GetInsertUniquePos(t, k), k)
      BY <1>1, <1>2, UniquePos
    <3>2. QED BY <3>1, <2>1, <1>1
  <2>2. ASSUME NEW pos \in al \cup {Header}, at = GetInsertUniqueHintPos(t, nc, pos, KeyOf[n])
        PROVE  UniqueAnswer(lf, rt, al, sub, at, k)
    <3>1. UniqueAnswer(lf, rt, al, sub, GetInsertUniqueHintPos(t, nc, pos, k), k)
      BY <1>1, <1>2, <1>3, HintUniquePos
    <3>2. QED BY <3>1, <2>2, <1>1
  <2>3. QED BY <2>1, <2>2
<1>5. Settled(t, al, at, k)
  BY <1>1, <1>2, <1>4, SettledUnique
<1>6. \A m \in al : KeyOf[m] # k
  BY <1>1, <1>2, <1>4, UniqueIsNew
<1>7. QED BY <1>1, <1>5, <1>6

\* and that for a key that may be there, with a hint.
LEMMA EqualSettles ==
    ASSUME NEW t, NEW nc, NEW al, NEW c, NEW u, NEW v, Good(t, nc, al, "idle", c, u, v), NEW n \in Node,
           NEW pos \in al \cup {Header}, NEW at, at = GetInsertEqualHintPos(t, nc, pos, KeyOf[n])
    PROVE  Settled(t, al, at, KeyOf[n])
<1>1. PICK k : k = KeyOf[n] /\ k \in Int
  BY Addresses
<1>2. PICK pa, lf, rt, co, sub, h : Resting(t, pa, lf, rt, co, al, sub, h)
  BY GoodRests
<1>3. nc > 0 => al # {}
  BY GoodRests, FS_EmptySet
<1>4. EqualAnswer(lf, rt, al, sub, GetInsertEqualHintPos(t, nc, pos, k), k)
  BY <1>1, <1>2, <1>3, HintEqualPos
<1>5. EqualAnswer(lf, rt, al, sub, at, k)
  BY <1>1, <1>4
<1>6. Settled(t, al, at, k)
  BY <1>1, <1>2, <1>5 DEF EqualAnswer, Settled
<1>7. QED BY <1>1, <1>6

\* It holds at the start,
LEMMA StartsGood == Init => QueueInv
<1>1. SUFFICES ASSUME Init PROVE QueueInv
  OBVIOUS
<1>2. /\ EmptyTree \in Trees
      /\ LeftMost(EmptyTree) = Header
      /\ \E sub, h : Fine(EmptyTree.parent, EmptyTree.left, EmptyTree.right, EmptyTree.color, KeyOf, {}, sub, h, Nil, Nil, Nil)
  BY FineEmpty
<1>3. PICK t : t = EmptyTree
  OBVIOUS
<1>4. \E sub, h : Held(t, {}, "idle", Nil, Nil, sub, h)
  BY <1>2, <1>3 DEF Held
<1>5. Cardinality({}) = 0 /\ {} \ {Nil} = {}
  BY FS_EmptySet
<1>6. Good(t, 0, {}, "idle", Nil, Nil, Nil)
  BY <1>2, <1>3, <1>4, <1>5 DEF Good
<1>7. QED BY <1>1, <1>3, <1>6 DEF Init, QueueInv

\* clear()
LEMMA ClearedGood ==
    ASSUME NEW t, NEW nc, NEW al, NEW c, NEW u, NEW v, Good(t, nc, al, "idle", c, u, v), NEW e, e = EmptyTree
    PROVE  Good(e, 0, {}, "idle", c, u, v)
<1>1. /\ EmptyTree \in Trees
      /\ LeftMost(EmptyTree) = Header
      /\ \E sub, h : Fine(EmptyTree.parent, EmptyTree.left, EmptyTree.right, EmptyTree.color, KeyOf, {}, sub, h, Nil, Nil, Nil)
  BY FineEmpty
<1>2. \E sub, h : Held(e, {}, "idle", c, u, sub, h)
  BY <1>1 DEF Held
<1>3. Cardinality({}) = 0 /\ {} \ {v} = {}
  BY FS_EmptySet
<1>4. v = Nil /\ c \in Addr \cup {Nil} /\ u \in Addr \cup {Nil}
  BY DEF Good
<1>5. QED BY <1>1, <1>2, <1>3, <1>4 DEF Good

\* is kept by what every insertion does once it has a place,
LEMMA EmplaceKeeps ==
    ASSUME QueueInv, Idle, NEW n \in Node, NEW at, Settled(tree, alive, at, KeyOf[n]), EmplaceAux(n, at)
    PROVE  QueueInv'
<1>1. PICK t, nc, al, c, u, v : t = tree /\ nc = node_count /\ al = alive /\ c = cur /\ u = up /\ v = victim
  OBVIOUS
<1>2. Good(t, nc, al, "idle", c, u, v)
  BY <1>1 DEF QueueInv, Idle
<1>3. Settled(t, al, at, KeyOf[n])
  BY <1>1
<1>4. n \notin al
  BY <1>1 DEF EmplaceAux
<1>6. PICK il : GoesLeft(il, at, KeyOf[n])
  BY DEF GoesLeft
<1>7. at[2] # Nil /\ Good(Link(t, n, at[2], il), nc, al \cup {n}, "insert", n, u, v)
  BY ONLY <1>2, <1>3, <1>4, <1>6, n \in Node, EmplacedStep
<1>8. /\ tree' = Link(t, n, at[2], at[1] # Nil \/ at[2] = Header \/ KeyOf[n] < KeyOf[at[2]])
      /\ alive' = al \cup {n} /\ pc' = "insert" /\ cur' = n
      /\ node_count' = nc /\ up' = u /\ victim' = v
  BY <1>1, <1>7 DEF EmplaceAux
<1>9. il = (at[1] # Nil \/ at[2] = Header \/ KeyOf[n] < KeyOf[at[2]])
  BY <1>6 DEF GoesLeft
<1>10. tree' = Link(t, n, at[2], il)
  BY <1>8, <1>9
<1>11. QED BY <1>7, <1>8, <1>10 DEF QueueInv

\* and so by each insertion, which meets no equal key if it asks for none,
LEMMA InsertUniqueKeeps ==
    ASSUME QueueInv, NEW n \in Node, InsertUnique(n)
    PROVE  QueueInv' /\ \A m \in alive : KeyOf[m] # KeyOf[n]
<1>1. PICK t, nc, al, c, u, v : t = tree /\ nc = node_count /\ al = alive /\ c = cur /\ u = up /\ v = victim
  OBVIOUS
<1>2. Idle /\ Good(t, nc, al, "idle", c, u, v)
  BY <1>1 DEF QueueInv, Idle, InsertUnique
<1>3. PICK at : at = GetInsertUniquePos(tree, KeyOf[n])
  OBVIOUS
<1>4. at[2] # Nil /\ EmplaceAux(n, at)
  BY <1>3 DEF InsertUnique
<1>5. at = GetInsertUniquePos(t, KeyOf[n])
  BY <1>1, <1>3
<1>6. Settled(t, al, at, KeyOf[n]) /\ \A m \in al : KeyOf[m] # KeyOf[n]
  BY <1>2, <1>4, <1>5, UniqueSettles
<1>7. Settled(tree, alive, at, KeyOf[n])
  BY <1>1, <1>6
<1>8. QED BY <1>1, <1>2, <1>4, <1>6, <1>7, EmplaceKeeps

\* with a hint,
LEMMA InsertHintUniqueKeeps ==
    ASSUME QueueInv, NEW n \in Node, NEW pos \in alive \cup {Header}, InsertHintUnique(pos, n)
    PROVE  QueueInv' /\ \A m \in alive : KeyOf[m] # KeyOf[n]
<1>1. PICK t, nc, al, c, u, v : t = tree /\ nc = node_count /\ al = alive /\ c = cur /\ u = up /\ v = victim
  OBVIOUS
<1>2. Idle /\ Good(t, nc, al, "idle", c, u, v)
  BY <1>1 DEF QueueInv, Idle, InsertHintUnique
<1>3. PICK at : at = GetInsertUniqueHintPos(tree, node_count, pos, KeyOf[n])
  OBVIOUS
<1>4. at[2] # Nil /\ EmplaceAux(n, at)
  BY <1>3 DEF InsertHintUnique
<1>5. at = GetInsertUniqueHintPos(t, nc, pos, KeyOf[n]) /\ pos \in al \cup {Header}
  BY <1>1, <1>3
<1>6. Settled(t, al, at, KeyOf[n]) /\ \A m \in al : KeyOf[m] # KeyOf[n]
  BY <1>2, <1>4, <1>5, UniqueSettles
<1>7. Settled(tree, alive, at, KeyOf[n])
  BY <1>1, <1>6
<1>8. QED BY <1>1, <1>2, <1>4, <1>6, <1>7, EmplaceKeeps

\* and with a key that may be there;
LEMMA InsertHintEqualKeeps ==
    ASSUME QueueInv, NEW n \in Node, NEW pos \in alive \cup {Header}, InsertHintEqual(pos, n)
    PROVE  QueueInv'
<1>1. PICK t, nc, al, c, u, v : t = tree /\ nc = node_count /\ al = alive /\ c = cur /\ u = up /\ v = victim
  OBVIOUS
<1>2. Idle /\ Good(t, nc, al, "idle", c, u, v)
  BY <1>1 DEF QueueInv, Idle, InsertHintEqual
<1>3. PICK at : at = GetInsertEqualHintPos(tree, node_count, pos, KeyOf[n])
  OBVIOUS
<1>4. EmplaceAux(n, at)
  BY <1>3 DEF InsertHintEqual
<1>5. at = GetInsertEqualHintPos(t, nc, pos, KeyOf[n]) /\ pos \in al \cup {Header}
  BY <1>1, <1>3
<1>6. Settled(t, al, at, KeyOf[n])
  BY <1>2, <1>5, EqualSettles
<1>7. Settled(tree, alive, at, KeyOf[n])
  BY <1>1, <1>6
<1>8. QED BY <1>2, <1>4, <1>7, EmplaceKeeps

\* by the loop of an insertion,
LEMMA InsertFixupKeeps ==
    ASSUME QueueInv, InsertFixup
    PROVE  QueueInv'
<1>1. PICK t, nc, al, c, u, v : t = tree /\ nc = node_count /\ al = alive /\ c = cur /\ u = up /\ v = victim
  OBVIOUS
<1>2. Good(t, nc, al, "insert", c, u, v)
  BY <1>1 DEF QueueInv, InsertFixup, InsertRedUncle, InsertRotate, InsertDone
<1>3. CASE InsertRedUncle
  <2>1. PICK p, g : p = t.parent[c] /\ g = t.parent[p]
    OBVIOUS
  <2>2. PICK uncle : uncle = IF t.left[g] = p THEN t.right[g] ELSE t.left[g]
    OBVIOUS
  <2>3. t.color[p] = Red /\ c # Root(t)
    BY <1>1, <1>3, <2>1 DEF InsertRedUncle, InsertUnbalanced
  <2>4. /\ ~ IsBlack(t, uncle)
        /\ tree' = [t EXCEPT !.color = [@ EXCEPT ![p] = Black, ![uncle] = Black, ![g] = Red]]
        /\ cur' = g /\ pc' = "insert" /\ node_count' = nc /\ alive' = al /\ up' = u /\ victim' = v
    BY <1>1, <1>3, <2>1, <2>2 DEF InsertRedUncle
  <2>5. PICK t2 : t2 = [t EXCEPT !.color = [@ EXCEPT ![p] = Black, ![uncle] = Black, ![g] = Red]]
    OBVIOUS
  <2>6. Good(t2, nc, al, "insert", g, u, v)
    <3>1. Good(t, nc, al, "insert", c, u, v)
      BY ONLY <1>2
    <3>2. UncleMended(t, c, p, g, uncle, t2)
      BY ONLY <2>1, <2>2, <2>3, <2>4, <2>5 DEF UncleMended
    <3>3. QED BY ONLY <3>1, <3>2, RedUncleStep
  <2>7. QED BY <2>4, <2>5, <2>6 DEF QueueInv
<1>4. CASE InsertRotate
  <2>1. PICK p, g : p = t.parent[c] /\ g = t.parent[p]
    OBVIOUS
  <2>2. PICK s : s = IF t.left[g] = p THEN "left" ELSE "right"
    OBVIOUS
  <2>3. PICK o : o = Opposite(s)
    OBVIOUS
  <2>4. PICK inner : inner = (t[o][p] = c)
    OBVIOUS
  <2>5. PICK z : z = IF inner THEN p ELSE c
    OBVIOUS
  <2>6. PICK t1 : t1 = IF inner THEN Rotate(t, p, s, o) ELSE t
    OBVIOUS
  <2>7. PICK zp : zp = t1.parent[z]
    OBVIOUS
  <2>8. PICK zg : zg = t1.parent[zp]
    OBVIOUS
  <2>9. PICK t2 : t2 = [t1 EXCEPT !.color = [@ EXCEPT ![zg] = Red, ![zp] = Black]]
    OBVIOUS
  <2>10. t.color[p] = Red /\ c # Root(t)
    BY <1>1, <1>4, <2>1 DEF InsertRotate, InsertUnbalanced
  <2>11. /\ IsBlack(t, t[o][g])
         /\ tree' = Rotate(t2, zg, o, s) /\ cur' = z
         /\ pc' = "insert" /\ node_count' = nc /\ alive' = al /\ up' = u /\ victim' = v
    BY <1>1, <1>4, <2>1, <2>2, <2>3, <2>4, <2>5, <2>6, <2>7, <2>8, <2>9 DEF InsertRotate
  <2>12. Rotations(t, c, p, g, s, o, inner, z, t1, zp, zg, t2)
    BY <2>1, <2>2, <2>3, <2>4, <2>5, <2>6, <2>7, <2>8, <2>9 DEF Rotations
  <2>13. Good(Rotate(t2, zg, o, s), nc, al, "insert", z, u, v)
    BY <1>2, <2>10, <2>11, <2>12, RotateStep
  <2>14. QED BY <2>11, <2>13 DEF QueueInv
<1>5. CASE InsertDone
  <2>1. PICK t2 : t2 = [t EXCEPT !.color[Root(t)] = Black]
    OBVIOUS
  <2>2. ~ (t.color[t.parent[c]] = Red /\ c # Root(t))
    BY <1>1, <1>5 DEF InsertDone, InsertUnbalanced
  <2>3. /\ tree' = t2 /\ node_count' = nc + 1 /\ pc' = "idle" /\ cur' = Nil /\ alive' = al /\ up' = u /\ victim' = v
    BY <1>1, <1>5, <2>1 DEF InsertDone
  <2>4. Good(t2, nc + 1, al, "idle", Nil, u, v)
    BY <1>2, <2>1, <2>2, InsertDoneStep
  <2>5. QED BY <2>3, <2>4 DEF QueueInv
<1>6. QED BY <1>3, <1>4, <1>5 DEF InsertFixup

\* by erase(begin()),
LEMMA EraseFirstKeeps ==
    ASSUME QueueInv, EraseFirst
    PROVE  QueueInv'
<1>1. PICK t, nc, al, c, u, v : t = tree /\ nc = node_count /\ al = alive /\ c = cur /\ u = up /\ v = victim
  OBVIOUS
<1>2. Good(t, nc, al, "idle", c, u, v) /\ al # {}
  BY <1>1 DEF QueueInv, EraseFirst, Erase, Idle
<1>3. PICK z : z = LeftMost(t)
  OBVIOUS
<1>4. PICK U : U = Unlink(t, z)
  OBVIOUS
<1>5. PICK w : w = IF U.lost = Black THEN "erase" ELSE "drop"
  OBVIOUS
<1>6. Good(U.t, nc, al, w, U.x, U.x_parent, z)
  BY <1>2, <1>3, <1>4, <1>5, EraseFirstStep
<1>7. Erase(z)
  BY <1>1, <1>3 DEF EraseFirst
<1>8. /\ tree' = U.t /\ cur' = U.x /\ up' = U.x_parent /\ victim' = z /\ pc' = w /\ node_count' = nc /\ alive' = al
  BY <1>1, <1>4, <1>5, <1>7 DEF Erase
<1>9. QED BY <1>6, <1>8 DEF QueueInv

\* In the loop the missing black is on the left of up, and there is a sibling.
LEMMA SidesKnown ==
    ASSUME QueueInv, pc = "erase", EraseUnbalanced
    PROVE  EraseSide = "left" /\ Sibling = tree["right"][up] /\ Sibling # Nil
<1>1. PICK t, nc, al, c, u, v : t = tree /\ nc = node_count /\ al = alive /\ c = cur /\ u = up /\ v = victim
  OBVIOUS
<1>2. Good(t, nc, al, "erase", c, u, v) /\ c # Root(t) /\ IsBlack(t, c)
  BY <1>1 DEF QueueInv, EraseUnbalanced
<1>3. PICK M : M = al \ {v}
  OBVIOUS
<1>4. PICK pa, lf, rt, co, sub, h : Lacking(t, pa, lf, rt, co, M, sub, h, c, u)
  BY <1>2, <1>3, GoodLacks
<1>5. t.left = lf /\ t["right"] = rt /\ lf[u] = c
  BY <1>4, LackingFacts
<1>6. rt[u] # Nil
  BY <1>4, SiblingThere
<1>7. EraseSide = "left"
  BY <1>1, <1>5 DEF EraseSide
<1>8. QED BY <1>1, <1>5, <1>6, <1>7 DEF Sibling, Opposite

\* The loop of a removal keeps it: the assert and the null link are out of reach,
LEMMA EraseFixupKeeps ==
    ASSUME QueueInv, EraseFixup
    PROVE  QueueInv'
<1>1. PICK t, nc, al, c, u, v : t = tree /\ nc = node_count /\ al = alive /\ c = cur /\ u = up /\ v = victim
  OBVIOUS
<1>2. pc = "erase" => Good(t, nc, al, "erase", c, u, v)
  BY <1>1 DEF QueueInv
<1>3. EraseUnbalanced => c # Root(t) /\ IsBlack(t, c)
  BY <1>1 DEF EraseUnbalanced
<1>4. PICK y : y = t["right"][u]
  OBVIOUS
<1>5. pc = "erase" /\ EraseUnbalanced => EraseSide = "left" /\ Sibling = y /\ y # Nil
  BY <1>1, <1>4, SidesKnown
<1>6. CASE EraseRedSibling
  <2>1. pc = "erase" /\ EraseUnbalanced
    BY <1>6 DEF EraseRedSibling
  <2>2. PICK t1 : t1 = [t EXCEPT !.color = [@ EXCEPT ![u] = Red, ![y] = Black]]
    OBVIOUS
  <2>3. ~ IsBlack(t, y) /\ tree.right[up] # Nil
    BY <1>1, <1>4, <1>5, <1>6, <2>1 DEF EraseRedSibling
  <2>4. /\ tree' = Rotate(t1, u, "left", "right") /\ pc' = "erase"
        /\ node_count' = nc /\ alive' = al /\ cur' = c /\ up' = u /\ victim' = v
    BY <1>1, <1>5, <1>6, <2>1, <2>2, <2>3 DEF EraseRedSibling
  <2>5. Good(Rotate(t1, u, "left", "right"), nc, al, "erase", c, u, v)
    BY <1>2, <1>3, <1>4, <2>1, <2>2, <2>3, RedSiblingStep
  <2>6. QED BY <2>4, <2>5 DEF QueueInv
<1>7. CASE EraseBlackNephews
  <2>1. pc = "erase" /\ EraseUnbalanced
    BY <1>7 DEF EraseBlackNephews
  <2>2. PICK t1, q : t1 = [t EXCEPT !.color[y] = Red] /\ q = t.parent[u]
    OBVIOUS
  <2>3. IsBlack(t, y) /\ \A s \in Side : IsBlack(t, t[s][y])
    BY <1>1, <1>5, <1>7, <2>1 DEF EraseBlackNephews
  <2>4. IsBlack(t, t["left"][y]) /\ IsBlack(t, t["right"][y])
    BY <2>3 DEF Side
  <2>5. /\ tree' = t1 /\ cur' = u /\ up' = q /\ pc' = "erase"
        /\ node_count' = nc /\ alive' = al /\ victim' = v
    BY <1>1, <1>5, <1>7, <2>1, <2>2 DEF EraseBlackNephews
  <2>6. Good(t1, nc, al, "erase", u, q, v)
    BY <1>2, <1>3, <1>4, <1>5, <2>1, <2>2, <2>3, <2>4, BlackNephewsStep
  <2>7. QED BY <2>5, <2>6 DEF QueueInv
<1>8. CASE EraseRedNephew
  <2>1. pc = "erase" /\ EraseUnbalanced
    BY <1>8 DEF EraseRedNephew
  <2>2. EraseSide = "left" /\ Opposite("left") = "right" /\ Sibling = y
    BY <1>5, <2>1 DEF Opposite
  <2>3. PICK near, far : near = t["left"][y] /\ far = t["right"][y]
    OBVIOUS
  <2>4. PICK t1 : t1 = IF IsBlack(t, far)
                       THEN Rotate([t EXCEPT !.color = [@ EXCEPT ![near] = Black, ![y] = Red]], y, "right", "left")
                       ELSE t
    OBVIOUS
  <2>5. PICK sib : sib = t1["right"][u]
    OBVIOUS
  <2>6. PICK t2 : t2 = [t1 EXCEPT !.color = [@ EXCEPT ![sib] = t1.color[u], ![u] = Black, ![t1["right"][sib]] = Black]]
    OBVIOUS
  <2>7. PICK t3 : t3 = Rotate(t2, u, "left", "right")
    OBVIOUS
  <2>8. Supplies(t, u, y, near, far, t1, sib, t2)
    BY <2>3, <2>4, <2>5, <2>6 DEF Supplies
  <2>9. IsBlack(t, y) /\ \E d \in Side : ~ IsBlack(t, t[d][y])
    BY <1>1, <1>8, <2>2 DEF EraseRedNephew
  <2>10. ~ IsBlack(t, near) \/ ~ IsBlack(t, far)
    BY <2>3, <2>9 DEF Side
  <2>11. /\ tree' = t3 /\ cur' = Root(t3)
         /\ node_count' = nc /\ alive' = al /\ pc' = "erase" /\ up' = u /\ victim' = v
    BY <1>1, <1>8, <2>1, <2>2, <2>3, <2>4, <2>5, <2>6, <2>7 DEF EraseRedNephew
  <2>12. PICK r : r = Root(t3)
    OBVIOUS
  <2>13. Good(t3, nc, al, "erase", r, u, v)
    BY <1>2, <1>3, <1>4, <2>1, <2>7, <2>8, <2>9, <2>10, <2>12, RedNephewStep
  <2>14. QED BY <2>11, <2>12, <2>13 DEF QueueInv
<1>9. CASE EraseBalanced
  <2>1. PICK t1 : t1 = IF c = Nil THEN t ELSE [t EXCEPT !.color[c] = Black]
    OBVIOUS
  <2>2. Good(t, nc, al, "erase", c, u, v) /\ ~ (c # Root(t) /\ IsBlack(t, c))
    BY <1>1, <1>2, <1>9 DEF EraseBalanced, EraseUnbalanced
  <2>3. /\ tree' = t1 /\ pc' = "drop" /\ node_count' = nc /\ alive' = al /\ cur' = c /\ up' = u /\ victim' = v
    BY <1>1, <1>9, <2>1 DEF EraseBalanced
  <2>4. Good(t1, nc, al, "drop", c, u, v)
    BY <2>1, <2>2, BalancedStep
  <2>5. QED BY <2>3, <2>4 DEF QueueInv
<1>10. CASE EraseDone
  <2>1. Good(t, nc, al, "drop", c, u, v)
    BY <1>1, <1>10 DEF QueueInv, EraseDone
  <2>2. PICK t1 : t1 = [parent |-> [t.parent EXCEPT ![v] = Nil],
                        left   |-> [t.left   EXCEPT ![v] = Nil],
                        right  |-> [t.right  EXCEPT ![v] = Nil],
                        color  |-> [t.color  EXCEPT ![v] = Red]]
    OBVIOUS
  <2>3. /\ tree' = t1 /\ node_count' = nc - 1 /\ alive' = al \ {v} /\ pc' = "idle"
        /\ cur' = Nil /\ up' = Nil /\ victim' = Nil
    BY <1>1, <1>10, <2>2 DEF EraseDone
  <2>4. Good(t1, nc - 1, al \ {v}, "idle", Nil, Nil, Nil)
    BY <2>1, <2>2, DropStep
  <2>5. QED BY <2>3, <2>4 DEF QueueInv
<1>11. ~ EraseAssertFails
  <2>1. SUFFICES ASSUME EraseAssertFails PROVE FALSE
    OBVIOUS
  <2>2. pc = "erase" /\ EraseUnbalanced /\ EraseAsserts
    BY <2>1 DEF EraseAssertFails
  <2>3. QED BY <2>2, <1>5 DEF EraseAsserts
<1>12. QED BY <1>6, <1>7, <1>8, <1>9, <1>10, <1>11 DEF EraseFixup

\* and clear() does.
LEMMA ClearKeeps ==
    ASSUME QueueInv, Clear
    PROVE  QueueInv'
<1>1. PICK t, nc, al, c, u, v : t = tree /\ nc = node_count /\ al = alive /\ c = cur /\ u = up /\ v = victim
  OBVIOUS
<1>2. Good(t, nc, al, "idle", c, u, v)
  BY <1>1 DEF QueueInv, Clear, Idle
<1>3. PICK e : e = EmptyTree
  OBVIOUS
<1>4. Good(e, 0, {}, "idle", c, u, v)
  BY <1>2, <1>3, ClearedGood
<1>5. tree' = e /\ node_count' = 0 /\ alive' = {} /\ pc' = "idle" /\ cur' = c /\ up' = u /\ victim' = v
  BY <1>1, <1>3 DEF Clear, Idle
<1>6. QED BY <1>4, <1>5 DEF QueueInv

\* So every step keeps it.
LEMMA StepsKeepGood == QueueInv /\ [QueueNext]_vars => QueueInv'
<1>1. SUFFICES ASSUME QueueInv, [QueueNext]_vars PROVE QueueInv'
  OBVIOUS
<1>2. CASE InsertNext
  <2>1. CASE \E n \in Node : InsertUnique(n)
    BY <2>1, <1>1, InsertUniqueKeeps
  <2>2. CASE \E n \in Node, pos \in alive \cup {Header} : InsertHintUnique(pos, n)
    BY <2>2, <1>1, InsertHintUniqueKeeps
  <2>3. CASE \E n \in Node, pos \in alive \cup {Header} : InsertHintEqual(pos, n)
    BY <2>3, <1>1, InsertHintEqualKeeps
  <2>4. CASE InsertFixup
    BY <2>4, <1>1, InsertFixupKeeps
  <2>5. QED BY <1>2, <2>1, <2>2, <2>3, <2>4 DEF InsertNext
<1>3. CASE EraseFirst
  BY <1>3, <1>1, EraseFirstKeeps
<1>4. CASE EraseFixup
  BY <1>4, <1>1, EraseFixupKeeps
<1>5. CASE Clear
  BY <1>5, <1>1, ClearKeeps
<1>6. CASE UNCHANGED vars
  BY <1>6, <1>1 DEF QueueInv, vars
<1>7. QED BY <1>1, <1>2, <1>3, <1>4, <1>5, <1>6 DEF QueueNext

\* The inductive invariant holds in every reachable state.
LEMMA AlwaysGood == QueueSpec => []QueueInv
<1>1. Init => QueueInv
  BY StartsGood
<1>2. QueueInv /\ [QueueNext]_vars => QueueInv'
  BY StepsKeepGood
<1>3. QED BY <1>1, <1>2, PTL DEF QueueSpec

-----------------------------------------------------------------------------
(* What the invariant says: links, order and ends.                         *)

\* A good state is so.
LEMMA GoodShaped ==
    ASSUME NEW t, NEW nc, NEW al, NEW w, NEW c, NEW u, NEW v, Good(t, nc, al, w, c, u, v), NEW L, L = al \ {v}
    PROVE  \E pa, lf, rt, sub : Shaped(t, pa, lf, rt, L, sub)
<1>1. PICK pa, lf, rt, co : Fields(t, pa, lf, rt, co)
  BY GoodFields
<1>2. PICK sub, h : Held(t, L, w, c, u, sub, h)
  BY DEF Good
<1>3. /\ t.parent = pa /\ t.left = lf /\ t.right = rt /\ t["left"] = lf /\ t["right"] = rt
      /\ Root(t) = pa[Header] /\ LeftMost(t) = lf[Header] /\ RightMost(t) = rt[Header]
  BY <1>1, FieldsAre
<1>4. PICK cp, k, a : Fine(pa, lf, rt, cp, KeyOf, L, sub, h, k, Nil, a)
  BY <1>2, <1>3 DEF Held
<1>5. /\ Ordered(pa, lf, rt, KeyOf, L, sub) /\ Tied(pa, lf, rt, L, sub)
      /\ L # {} => First(lf, L, sub, lf[Header]) /\ First(rt, L, sub, rt[Header])
  BY <1>4 DEF Fine, Ordered
<1>6. QED BY <1>3, <1>5 DEF Shaped

\* Type correctness.
LEMMA GoodTyped == QueueInv => TypeOK
<1>1. SUFFICES ASSUME QueueInv PROVE TypeOK
  OBVIOUS
<1>2. PICK t, nc, al, w, c, u, v : t = tree /\ nc = node_count /\ al = alive /\ w = pc /\ c = cur /\ u = up /\ v = victim
  OBVIOUS
<1>3. Good(t, nc, al, w, c, u, v)
  BY <1>1, <1>2 DEF QueueInv
<1>4. /\ t \in Trees /\ al \subseteq Node /\ w \in {"idle", "insert", "erase", "drop"}
      /\ c \in Addr \cup {Nil} /\ u \in Addr \cup {Nil}
      /\ w \in {"idle", "insert"} => v = Nil
      /\ w \in {"erase", "drop"} => v \in al
      /\ nc = (IF w = "insert" THEN Cardinality(al) - 1 ELSE Cardinality(al))
      /\ w = "insert" => c \in al
  BY <1>3 DEF Good
<1>5. IsFiniteSet(al) /\ Cardinality(al) \in Nat /\ (Cardinality(al) = 0 <=> al = {})
  BY <1>4, Addresses, FS_Subset, FS_CardinalityType, FS_EmptySet
<1>6. nc \in Nat
  BY <1>4, <1>5
<1>7. v \in Addr \cup {Nil}
  BY <1>4, NilNotAddr
<1>8. QED BY <1>2, <1>4, <1>6, <1>7 DEF TypeOK, Trees

\* What WellLinked says of one node.
LEMMA ShapedChildren ==
    ASSUME NEW t, NEW pa, NEW lf, NEW rt, NEW L, NEW sub, Shaped(t, pa, lf, rt, L, sub), NEW n \in L
    PROVE  /\ UpPath(t, n)[Cardinality(Node) + 1] = Header
           /\ t.parent[n] = Header => Root(t) = n
           /\ t.parent[n] # Header =>
                 \E s \in Side : t[s][t.parent[n]] = n /\ t[Opposite(s)][t.parent[n]] # n
           /\ \A s \in Side : t[s][n] # Nil => t[s][n] \in L /\ t.parent[t[s][n]] = n
<1>1. /\ t.parent = pa /\ t["left"] = lf /\ t["right"] = rt /\ Root(t) = pa[Header] /\ Tied(pa, lf, rt, L, sub)
  BY DEF Shaped
<1>2. UpPath(t, n)[Cardinality(Node) + 1] = Header
  <2>1. PICK N, f : N = Cardinality(Node) /\ f = UpPath(t, n)
    OBVIOUS
  <2>2. Rises(f, pa, L, n, N)
    BY <1>1, <2>1, PathUp
  <2>3. f[N + 1] = Header
    BY <1>1, <2>1, <2>2, RisesToHeader
  <2>4. QED BY <2>1, <2>3
<1>3. pa[n] = Header => n = pa[Header]
  BY <1>1 DEF Tied
<1>4. /\ lf[n] # Nil => lf[n] \in L /\ pa[lf[n]] = n
      /\ rt[n] # Nil => rt[n] \in L /\ pa[rt[n]] = n
  BY <1>1 DEF Tied
<1>5. ASSUME pa[n] # Header
      PROVE  \E s \in Side : t[s][pa[n]] = n /\ t[Opposite(s)][pa[n]] # n
  <2>1. pa[n] \in L /\ (lf[pa[n]] = n \/ rt[pa[n]] = n)
    BY <1>1, <1>5 DEF Tied
  <2>2. Under(sub, lf[pa[n]]) \cap Under(sub, rt[pa[n]]) = {}
    BY <1>1, <2>1 DEF Tied
  <2>3. n # Nil /\ n \in sub[n]
    BY <1>1, Below
  <2>4. ~ (lf[pa[n]] = n /\ rt[pa[n]] = n)
    BY <2>2, <2>3 DEF Under
  <2>5. CASE lf[pa[n]] = n
    <3>1. Opposite("left") = "right" /\ "left" \in Side
      BY DEF Opposite, Side
    <3>2. QED BY <3>1, <2>4, <2>5, <1>1
  <2>6. CASE rt[pa[n]] = n
    <3>1. Opposite("right") = "left" /\ "right" \in Side
      BY DEF Opposite, Side
    <3>2. QED BY <3>1, <2>4, <2>6, <1>1
  <2>7. QED BY <2>1, <2>5, <2>6
<1>6. \A s \in Side : t[s][n] # Nil => t[s][n] \in L /\ t.parent[t[s][n]] = n
  BY <1>1, <1>4 DEF Side
<1>7. QED BY <1>1, <1>2, <1>3, <1>5, <1>6

\* Links agree.
LEMMA GoodLinked == QueueInv => WellLinked
<1>1. SUFFICES ASSUME QueueInv PROVE WellLinked
  OBVIOUS
<1>2. PICK t, nc, al, w, c, u, v : t = tree /\ nc = node_count /\ al = alive /\ w = pc /\ c = cur /\ u = up /\ v = victim
  OBVIOUS
<1>3. Good(t, nc, al, w, c, u, v)
  BY <1>1, <1>2 DEF QueueInv
<1>4. PICK L : L = al \ {v}
  OBVIOUS
<1>5. PICK pa, lf, rt, sub : Shaped(t, pa, lf, rt, L, sub)
  BY <1>3, <1>4, GoodShaped
<1>6. Root(t) = Nil <=> L = {}
  BY <1>5 DEF Shaped, Tied
<1>7. \A n \in L :
         /\ UpPath(t, n)[Cardinality(Node) + 1] = Header
         /\ t.parent[n] = Header => Root(t) = n
         /\ t.parent[n] # Header =>
               \E s \in Side : t[s][t.parent[n]] = n /\ t[Opposite(s)][t.parent[n]] # n
         /\ \A s \in Side : t[s][n] # Nil => t[s][n] \in L /\ t.parent[t[s][n]] = n
  BY <1>5, ShapedChildren
<1>8. Linked = L
  BY <1>2, <1>4 DEF Linked
<1>9. TypeOK
  BY <1>1, GoodTyped
<1>10. QED BY <1>2, <1>6, <1>7, <1>8, <1>9 DEF WellLinked

\* What SearchOrder says of one node on the way up from another.
LEMMA ShapedOrder ==
    ASSUME NEW t, NEW pa, NEW lf, NEW rt, NEW L, NEW sub, Shaped(t, pa, lf, rt, L, sub), NEW n \in L,
           NEW f, f = UpPath(t, n), NEW i \in Steps \ {0}, f[i] \in Node
    PROVE  IF t.left[f[i]] = f[i - 1] THEN KeyOf[n] <= KeyOf[f[i]] ELSE KeyOf[f[i]] <= KeyOf[n]
<1>1. /\ t.parent = pa /\ t.left = lf /\ Tied(pa, lf, rt, L, sub) /\ Ordered(pa, lf, rt, KeyOf, L, sub)
  BY DEF Shaped
<1>2. PICK N : N = Cardinality(Node)
  OBVIOUS
<1>3. Rises(f, pa, L, n, N) /\ Steps = 0..N + 1
  BY <1>1, <1>2, PathUp
<1>4. PICK j : j = i - 1
  OBVIOUS
<1>5. N \in Nat /\ j \in 0..N /\ i = j + 1 /\ j \in 0..N + 1
  BY <1>3, <1>4 DEF Rises
<1>6. f[i] = IF f[j] \in L THEN pa[f[j]] ELSE Header
  BY <1>3, <1>5 DEF Rises
<1>7. f[i] \in L \cup {Header} /\ Header \notin Node
  BY <1>3, <1>5, NilNotAddr DEF Rises
<1>8. f[j] \in L /\ f[i] \in L /\ f[i] = pa[f[j]]
  BY <1>6, <1>7
<1>9. n \in sub[f[j]]
  BY <1>1, <1>3, <1>5, <1>8, RisesThrough
<1>10. PICK a, b : a = f[i] /\ b = f[j]
  OBVIOUS
<1>11. a \in L /\ b \in L /\ a = pa[b] /\ n \in sub[b] /\ b # Nil
  BY <1>1, <1>8, <1>9, <1>10, Below
<1>12. lf[a] = b \/ rt[a] = b
  <2>1. pa[b] # Header
    BY <1>1, <1>11, Below
  <2>2. QED BY <2>1, <1>1, <1>11 DEF Tied
<1>13. CASE lf[a] = b
  <2>1. n \in Under(sub, lf[a])
    BY <1>11, <1>13 DEF Under
  <2>2. KeyOf[n] <= KeyOf[a]
    BY <1>1, <1>11, <2>1, OrderedFacts
  <2>3. QED BY <2>2, <1>1, <1>4, <1>10, <1>13
<1>14. CASE lf[a] # b
  <2>1. n \in Under(sub, rt[a])
    BY <1>11, <1>12, <1>14 DEF Under
  <2>2. KeyOf[a] <= KeyOf[n]
    BY <1>1, <1>11, <2>1, OrderedFacts
  <2>3. QED BY <2>2, <1>1, <1>4, <1>10, <1>14
<1>15. QED BY <1>13, <1>14

\* Keys are in order.
LEMMA GoodOrder == QueueInv => SearchOrder
<1>1. SUFFICES ASSUME QueueInv PROVE SearchOrder
  OBVIOUS
<1>2. PICK t, nc, al, w, c, u, v : t = tree /\ nc = node_count /\ al = alive /\ w = pc /\ c = cur /\ u = up /\ v = victim
  OBVIOUS
<1>3. Good(t, nc, al, w, c, u, v)
  BY <1>1, <1>2 DEF QueueInv
<1>4. PICK L : L = al \ {v}
  OBVIOUS
<1>5. PICK pa, lf, rt, sub : Shaped(t, pa, lf, rt, L, sub)
  BY <1>3, <1>4, GoodShaped
<1>6. ASSUME NEW n \in L, NEW i \in Steps \ {0}, UpPath(t, n)[i] \in Node
      PROVE  IF t.left[UpPath(t, n)[i]] = UpPath(t, n)[i - 1] THEN KeyOf[n] <= KeyOf[UpPath(t, n)[i]]
             ELSE KeyOf[UpPath(t, n)[i]] <= KeyOf[n]
  <2>1. PICK f : f = UpPath(t, n)
    OBVIOUS
  <2>2. IF t.left[f[i]] = f[i - 1] THEN KeyOf[n] <= KeyOf[f[i]] ELSE KeyOf[f[i]] <= KeyOf[n]
    BY <1>5, <1>6, <2>1, ShapedOrder
  <2>3. QED BY <2>1, <2>2
<1>7. Linked = L
  BY <1>2, <1>4 DEF Linked
<1>8. QED BY <1>2, <1>6, <1>7 DEF SearchOrder

\* The header's ends are those the walks find.
LEMMA ShapedEnds ==
    ASSUME NEW t, NEW pa, NEW lf, NEW rt, NEW L, NEW sub, Shaped(t, pa, lf, rt, L, sub), L # {}
    PROVE  LeftMost(t) = Minimum(t, Root(t)) /\ RightMost(t) = Maximum(t, Root(t))
<1>1. /\ t["left"] = lf /\ t["right"] = rt /\ Root(t) = pa[Header] /\ LeftMost(t) = lf[Header] /\ RightMost(t) = rt[Header]
      /\ Tied(pa, lf, rt, L, sub) /\ First(lf, L, sub, lf[Header]) /\ First(rt, L, sub, rt[Header])
  BY DEF Shaped
<1>2. PICK r : r = pa[Header]
  OBVIOUS
<1>3. r \in L /\ sub[r] = L
  BY <1>1, <1>2, RootFacts
<1>4. Tied(pa, rt, lf, L, sub)
  BY <1>1, TiedMirror
<1>5. PICK e, d : e = lf[Header] /\ d = rt[Header]
  OBVIOUS
<1>6. First(lf, L, sub, e) /\ First(rt, L, sub, d) /\ e \in L /\ d \in L
  BY <1>1, <1>5 DEF First
<1>7. e \in sub[r] /\ d \in sub[r]
  BY <1>3, <1>6
<1>8. Extreme(t, r, "left") = e
  BY ONLY <1>1, <1>3, <1>4, <1>6, <1>7, FirstIsExtreme
<1>9. Extreme(t, r, "right") = d
  BY ONLY <1>1, <1>3, <1>6, <1>7, FirstIsExtreme
<1>10. QED BY <1>1, <1>2, <1>5, <1>8, <1>9 DEF Minimum, Maximum

\* Both ends are tracked.
LEMMA GoodEnds == QueueInv => EndsTracked
<1>1. SUFFICES ASSUME QueueInv PROVE EndsTracked
  OBVIOUS
<1>2. PICK t, nc, al, w, c, u, v : t = tree /\ nc = node_count /\ al = alive /\ w = pc /\ c = cur /\ u = up /\ v = victim
  OBVIOUS
<1>3. Good(t, nc, al, w, c, u, v)
  BY <1>1, <1>2 DEF QueueInv
<1>4. PICK L : L = al \ {v}
  OBVIOUS
<1>5. PICK pa, lf, rt, sub : Shaped(t, pa, lf, rt, L, sub)
  BY <1>3, <1>4, GoodShaped
<1>6. L # {} => LeftMost(t) = Minimum(t, Root(t)) /\ RightMost(t) = Maximum(t, Root(t))
  BY <1>5, ShapedEnds
<1>7. L = {} => LeftMost(t) = Header
  BY <1>3, <1>4 DEF Good
<1>8. Linked = L
  BY <1>2, <1>4 DEF Linked
<1>9. QED BY <1>2, <1>6, <1>7, <1>8 DEF EndsTracked, LeftMostTracked, RightMostTracked, BeginIsEnd

-----------------------------------------------------------------------------
(* Searches and insertions.                                                *)

\* find() and the place of an insertion, for one key.
LEMMA RestingFinds ==
    ASSUME NEW t, NEW pa, NEW lf, NEW rt, NEW co, NEW L, NEW sub, NEW h, Resting(t, pa, lf, rt, co, L, sub, h),
           NEW k \in Int, NEW at, at = GetInsertUniquePos(t, k), NEW S, S = {n \in L : KeyOf[n] = k}
    PROVE  IF S = {} THEN find(t, k) = Header /\ at[2] # Nil
           ELSE find(t, k) \in S /\ at[2] = Nil /\ at[1] \in S
<1>1. UniqueAnswer(lf, rt, L, sub, GetInsertUniquePos(t, k), k)
  BY UniquePos
<1>2. UniqueAnswer(lf, rt, L, sub, at, k)
  BY <1>1
<1>3. at[2] # Nil => \A m \in L : KeyOf[m] # k
  BY <1>2, UniqueIsNew
<1>4. at[2] = Nil => at[1] \in L /\ KeyOf[at[1]] = k
  BY <1>2 DEF UniqueAnswer
<1>5. /\ (\E m \in L : KeyOf[m] = k) => find(t, k) \in L /\ KeyOf[find(t, k)] = k
      /\ (\A m \in L : KeyOf[m] # k) => find(t, k) = Header
  BY FindIs
<1>6. QED BY <1>3, <1>4, <1>5

\* Searches answer as the elements say.
LEMMA GoodSearches == QueueInv => FindCorrect
<1>1. SUFFICES ASSUME QueueInv, Idle PROVE FindCorrect
  BY DEF FindCorrect
<1>2. PICK t, nc, al, c, u, v : t = tree /\ nc = node_count /\ al = alive /\ c = cur /\ u = up /\ v = victim
  OBVIOUS
<1>3. Good(t, nc, al, "idle", c, u, v)
  BY <1>1, <1>2 DEF QueueInv, Idle
<1>4. PICK L : L = al \ {v}
  OBVIOUS
<1>5. PICK pb, lg, rg, cp, sb, h : Resting(t, pb, lg, rg, cp, L, sb, h)
  BY <1>3, <1>4, GoodRests
<1>6. Linked = L
  BY <1>2, <1>4 DEF Linked
<1>7. \A k \in Key : k \in Int
  BY Addresses DEF Key
<1>8. FindCorrect
  <2>1. ASSUME NEW k \in Key
        PROVE  LET at == GetInsertUniquePos(t, k) IN
               IF {n \in L : KeyOf[n] = k} = {} THEN find(t, k) = Header /\ at[2] # Nil
               ELSE find(t, k) \in {n \in L : KeyOf[n] = k} /\ at[2] = Nil /\ at[1] \in {n \in L : KeyOf[n] = k}
    <3>1. PICK S, at : S = {n \in L : KeyOf[n] = k} /\ at = GetInsertUniquePos(t, k)
      OBVIOUS
    <3>2. k \in Int
      BY <1>7
    <3>3. IF S = {} THEN find(t, k) = Header /\ at[2] # Nil
          ELSE find(t, k) \in S /\ at[2] = Nil /\ at[1] \in S
      BY ONLY <1>5, <3>1, <3>2, RestingFinds
    <3>4. QED BY <3>1, <3>3
  <2>2. QED BY <2>1, <1>2, <1>6 DEF FindCorrect, Holds
<1>9. QED BY <1>8

\* What UniqueInsertions says of one step.
LEMMA GoodInsertions ==
    ASSUME QueueInv, [QueueNext]_vars, NEW n \in alive' \ alive,
           InsertUnique(n) \/ (\E pos \in alive \cup {Header} : InsertHintUnique(pos, n))
    PROVE  \A m \in Linked : KeyOf[m] # KeyOf[n]
<1>1. Linked \subseteq alive
  BY DEF Linked
<1>2. n \in Node
  <2>1. QueueInv'
    BY StepsKeepGood
  <2>2. TypeOK'
    BY <2>1, GoodTyped, PTL
  <2>3. QED BY <2>2 DEF TypeOK
<1>3. \A m \in alive : KeyOf[m] # KeyOf[n]
  BY <1>2, InsertUniqueKeeps, InsertHintUniqueKeeps
<1>4. QED BY <1>1, <1>3

-----------------------------------------------------------------------------
(* Blacks and reds.                                                        *)

\* One step down: a child of n has one more node above it, itself.
LEMMA BlacksBelow ==
    ASSUME NEW pa, NEW lf, NEW rt, NEW L, NEW sub, Tied(pa, lf, rt, L, sub), NEW co,
           NEW n \in L, NEW m \in {lf[n], rt[n]}, m # Nil
    PROVE  /\ Cardinality(Blacks(co, L, sub, n)) \in Nat
           /\ Cardinality(Blacks(co, L, sub, m)) = Cardinality(Blacks(co, L, sub, n)) + Bk(co, m)
<1>1. m \in L /\ pa[m] = n /\ m \in Under(sub, lf[n]) \cup Under(sub, rt[n]) /\ m # n
  <2>1. m \in L /\ m \in sub[m] /\ n \notin Under(sub, lf[n]) \cup Under(sub, rt[n]) /\ pa[m] = n
    BY Below DEF Tied
  <2>2. m \in Under(sub, lf[n]) \cup Under(sub, rt[n])
    BY <2>1 DEF Under
  <2>3. QED BY <2>1, <2>2
<1>2. m \in sub[n] /\ m \in sub[m]
  <2>1. sub[n] = {n} \cup Under(sub, lf[n]) \cup Under(sub, rt[n])
    BY DEF Tied
  <2>2. QED BY <1>1, <2>1, Below
<1>3. n \notin sub[m]
  BY <1>1, <1>2, NotBoth
<1>4. ASSUME NEW b \in L PROVE m \in sub[b] <=> b = m \/ n \in sub[b]
  <2>1. m \in sub[b] => b = m \/ n \in sub[b]
    BY Climbing
  <2>2. n \in sub[b] => m \in sub[b]
    BY <1>2, Nested
  <2>3. QED BY <1>2, <2>1, <2>2
<1>5. PICK A, B : A = Blacks(co, L, sub, n) /\ B = Blacks(co, L, sub, m)
  OBVIOUS
<1>6. IsFiniteSet(A) /\ Cardinality(A) \in Nat /\ m \notin A
  <2>1. IsFiniteSet(L) /\ A \subseteq L
    BY <1>5, Below DEF Blacks
  <2>2. QED BY <2>1, <1>3, <1>5, FS_Subset, FS_CardinalityType DEF Blacks
<1>7. CASE co[m] = Black
  <2>1. B = A \cup {m}
    BY <1>1, <1>4, <1>5, <1>7 DEF Blacks
  <2>2. Cardinality(B) = Cardinality(A) + 1
    BY <1>6, <2>1, FS_AddElement
  <2>3. QED BY <1>5, <1>6, <1>7, <2>2 DEF Bk
<1>8. CASE co[m] # Black
  <2>1. B = A
    BY <1>1, <1>4, <1>5, <1>8 DEF Blacks
  <2>2. QED BY <1>5, <1>6, <1>8, <2>1 DEF Bk
<1>9. QED BY <1>7, <1>8

\* ... and may be below the missing one.
LEMMA MissedBelow ==
    ASSUME NEW pa, NEW lf, NEW rt, NEW L, NEW sub, Tied(pa, lf, rt, L, sub), NEW k \in L \cup {Nil},
           NEW n \in L
    PROVE  /\ lf[n] # Nil => Missed(lf, sub, k, lf[n]) = Missed(lf, sub, k, n) + Gap(k, n)
           /\ rt[n] # Nil => Missed(lf, sub, k, rt[n]) = Missed(lf, sub, k, n)
<1>1. Nil \notin L /\ n \notin Under(sub, lf[n]) /\ Under(sub, lf[n]) \cap Under(sub, rt[n]) = {}
  <2>1. Nil \notin L
    BY Below
  <2>2. QED BY <2>1 DEF Tied
<1>2. \A m \in {lf[n], rt[n]} : m # Nil => m \in L /\ m \in sub[m] /\ pa[m] = n
  BY Below DEF Tied
<1>3. CASE k = Nil
  BY <1>1, <1>3 DEF Missed, Gap
<1>4. CASE k = n
  <2>1. lf[n] # Nil => lf[n] \in Under(sub, lf[n])
    BY <1>2 DEF Under
  <2>2. rt[n] # Nil => rt[n] \notin Under(sub, lf[n])
    BY <1>1, <1>2 DEF Under
  <2>3. QED BY <1>1, <1>4, <2>1, <2>2 DEF Missed, Gap
<1>5. CASE k # Nil /\ k # n
  <2>1. ASSUME NEW m \in {lf[n], rt[n]}, m # Nil PROVE m \in Under(sub, lf[k]) <=> n \in Under(sub, lf[k])
    <3>1. m \in sub[n]
      <4>1. sub[n] = {n} \cup Under(sub, lf[n]) \cup Under(sub, rt[n])
        BY DEF Tied
      <4>2. m \in Under(sub, lf[n]) \cup Under(sub, rt[n])
        BY <1>2, <2>1 DEF Under
      <4>3. QED BY <4>1, <4>2
    <3>2. n \in Under(sub, lf[k]) => m \in Under(sub, lf[k])
      BY <1>5, <3>1, Side1
    <3>3. ASSUME m \in Under(sub, lf[k]) PROVE n \in Under(sub, lf[k])
      <4>1. PICK d : d = lf[k]
        OBVIOUS
      <4>2. d # Nil /\ m \in sub[d]
        BY <3>3, <4>1 DEF Under
      <4>3. d \in L /\ pa[d] = k
        BY <1>5, <4>1, <4>2, Below DEF Tied
      <4>4. d # m
        BY <1>2, <1>5, <2>1, <4>3
      <4>5. n \in sub[d]
        BY <2>1, <4>2, <4>3, <4>4, Climbing
      <4>6. QED BY <4>1, <4>2, <4>5 DEF Under
    <3>4. QED BY <3>2, <3>3
  <2>2. Gap(k, n) = 0
    BY <1>5 DEF Gap
  <2>3. QED BY <2>1, <2>2 DEF Missed
<1>6. QED BY <1>3, <1>4, <1>5

\* From the root to a leaf there are as many blacks as the root has height.
LEMMA PathSum ==
    ASSUME NEW pa, NEW lf, NEW rt, NEW L, NEW sub, Tied(pa, lf, rt, L, sub), NEW k \in L \cup {Nil},
           NEW co, NEW h, Heights(lf, rt, co, L, h, k, Nil), NEW n \in L
    PROVE  Cardinality(Blacks(co, L, sub, n)) + Missed(lf, sub, k, n) + h[n] = h[pa[Header]] + Bk(co, n)
<1> DEFINE D(m) == Cardinality(Blacks(co, L, sub, m))
           G == {m \in L : D(m) \in Nat /\ D(m) + Missed(lf, sub, k, m) + h[m] = h[pa[Header]] + Bk(co, m)}
<1>1. /\ \A m \in L : h[m] \in Nat /\ h[m] = Bk(co, m) + H(h, lf[m]) + Gap(k, m) /\ h[m] = Bk(co, m) + H(h, rt[m]) + Gap(Nil, m)
      /\ \A m : Bk(co, m) \in Nat /\ Gap(k, m) \in Nat /\ Missed(lf, sub, k, m) \in Nat
  BY DEF Heights, Bk, Gap, Missed
<1>2. Nil \notin L /\ IsFiniteSet(L)
  BY Below
<1>3. ASSUME pa[Header] # Nil PROVE pa[Header] \in G
  <2>1. PICK r : r = pa[Header]
    OBVIOUS
  <2>2. r \in L /\ pa[r] = Header /\ sub[r] = L /\ r \in sub[r]
    BY <1>3, <2>1, Below DEF Tied
  <2>3. ASSUME NEW b \in L, r \in sub[b] PROVE b = r
    BY <2>2, <2>3, NotBoth
  <2>4. Missed(lf, sub, k, r) = 0
    <3>1. SUFFICES ASSUME k # Nil, r \in Under(sub, lf[k]) PROVE FALSE
      BY DEF Missed
    <3>2. lf[k] # Nil /\ r \in sub[lf[k]]
      BY <3>1 DEF Under
    <3>3. lf[k] \in L /\ pa[lf[k]] = k /\ k \in L
      BY <3>1, <3>2, Below DEF Tied
    <3>4. lf[k] = r
      BY <2>3, <3>2, <3>3
    <3>5. Header \notin L
      BY Below
    <3>6. QED BY <2>2, <3>3, <3>4, <3>5
  <2>5. D(r) = Bk(co, r)
    <3>1. CASE co[r] = Black
      <4>1. Blacks(co, L, sub, r) = {r}
        BY <2>2, <2>3, <3>1 DEF Blacks
      <4>2. QED BY <3>1, <4>1, FS_Singleton DEF Bk
    <3>2. CASE co[r] # Black
      <4>1. Blacks(co, L, sub, r) = {}
        BY <2>2, <2>3, <3>2 DEF Blacks
      <4>2. QED BY <3>2, <4>1, FS_EmptySet DEF Bk
    <3>3. QED BY <3>1, <3>2
  <2>6. h[r] \in Nat /\ Bk(co, r) \in Nat
    BY <1>1, <2>2
  <2> HIDE DEF D
  <2>7. QED BY <2>1, <2>2, <2>4, <2>5, <2>6
<1>4. ASSUME NEW m \in L, m \in G
      PROVE  (lf[m] # Nil => lf[m] \in G) /\ (rt[m] # Nil => rt[m] \in G)
  <2>1. pa[Header] \in L
    BY <1>4 DEF Tied
  <2>2. h[pa[Header]] \in Nat /\ D(m) \in Nat /\ D(m) + Missed(lf, sub, k, m) + h[m] = h[pa[Header]] + Bk(co, m)
    BY <1>1, <1>4, <2>1
  <2>3. ASSUME NEW c \in {lf[m], rt[m]}, c # Nil PROVE c \in L /\ D(c) = D(m) + Bk(co, c)
    <3>1. c \in L
      BY <2>3, Below
    <3>2. D(c) = D(m) + Bk(co, c)
      BY <2>3, BlacksBelow
    <3>3. QED BY <3>1, <3>2
  <2>4. /\ lf[m] # Nil => Missed(lf, sub, k, lf[m]) = Missed(lf, sub, k, m) + Gap(k, m)
        /\ rt[m] # Nil => Missed(lf, sub, k, rt[m]) = Missed(lf, sub, k, m)
    BY MissedBelow
  <2> HIDE DEF D
  <2>5. ASSUME lf[m] # Nil PROVE lf[m] \in G
    <3>1. lf[m] \in L /\ D(lf[m]) = D(m) + Bk(co, lf[m]) /\ Missed(lf, sub, k, lf[m]) = Missed(lf, sub, k, m) + Gap(k, m)
      BY <2>3, <2>4, <2>5
    <3>2. h[m] = Bk(co, m) + h[lf[m]] + Gap(k, m) /\ h[lf[m]] \in Nat /\ h[m] \in Nat
      BY <1>1, <2>5, <3>1 DEF H
    <3>3. D(lf[m]) \in Nat
      BY <1>1, <2>2, <3>1
    <3>4. D(lf[m]) + Missed(lf, sub, k, lf[m]) + h[lf[m]] = h[pa[Header]] + Bk(co, lf[m])
      BY <1>1, <2>2, <3>1, <3>2
    <3>5. QED BY <3>1, <3>3, <3>4
  <2>6. ASSUME rt[m] # Nil PROVE rt[m] \in G
    <3>1. rt[m] \in L /\ D(rt[m]) = D(m) + Bk(co, rt[m]) /\ Missed(lf, sub, k, rt[m]) = Missed(lf, sub, k, m)
      BY <2>3, <2>4, <2>6
    <3>2. Gap(Nil, m) = 0
      BY <1>2 DEF Gap
    <3>3. h[m] = Bk(co, m) + h[rt[m]] /\ h[rt[m]] \in Nat /\ h[m] \in Nat
      BY <1>1, <2>6, <3>1, <3>2 DEF H
    <3>4. D(rt[m]) \in Nat
      BY <1>1, <2>2, <3>1
    <3>5. D(rt[m]) + Missed(lf, sub, k, rt[m]) + h[rt[m]] = h[pa[Header]] + Bk(co, rt[m])
      BY <1>1, <2>2, <3>1, <3>3
    <3>6. QED BY <3>1, <3>4, <3>5
  <2>7. QED BY <2>5, <2>6
<1>5. L \subseteq G
  <2> HIDE DEF G
  <2>1. QED BY <1>3, <1>4, TopDown
<1>6. QED BY <1>5

\* Where n has no child on a side.
LEMMA LeafSum ==
    ASSUME NEW pa, NEW lf, NEW rt, NEW L, NEW sub, Tied(pa, lf, rt, L, sub), NEW k \in L \cup {Nil},
           NEW co, NEW h, Heights(lf, rt, co, L, h, k, Nil), NEW n \in L, NEW d, d = Cardinality(Blacks(co, L, sub, n))
    PROVE  /\ d \in Nat /\ h[pa[Header]] \in Nat
           /\ lf[n] = Nil => d + Missed(lf, sub, k, n) + Gap(k, n) = h[pa[Header]]
           /\ rt[n] = Nil => d + Missed(lf, sub, k, n) = h[pa[Header]]
<1>1. d + Missed(lf, sub, k, n) + h[n] = h[pa[Header]] + Bk(co, n)
  BY PathSum
<1>2. h[n] \in Nat /\ h[n] = Bk(co, n) + H(h, lf[n]) + Gap(k, n) /\ h[n] = Bk(co, n) + H(h, rt[n]) + Gap(Nil, n)
  BY DEF Heights
<1>3. pa[Header] \in L /\ Nil \notin L
  <2>1. Nil \notin L
    BY Below
  <2>2. QED BY <2>1 DEF Tied
<1>4. h[pa[Header]] \in Nat /\ Gap(Nil, n) = 0 /\ Bk(co, n) \in Nat /\ Gap(k, n) \in Nat /\ Missed(lf, sub, k, n) \in Nat
  BY <1>3 DEF Heights, Gap, Bk, Missed
<1>5. d \in Nat
  <2>1. IsFiniteSet(L) /\ Blacks(co, L, sub, n) \subseteq L
    BY Below DEF Blacks
  <2>2. QED BY <2>1, FS_Subset, FS_CardinalityType
<1>6. lf[n] = Nil => H(h, lf[n]) = 0
  BY DEF H
<1>7. rt[n] = Nil => H(h, rt[n]) = 0
  BY DEF H
<1>8. QED BY <1>1, <1>2, <1>4, <1>5, <1>6, <1>7

\* BlackDepth counts those black nodes.
LEMMA DepthIs ==
    ASSUME NEW t, NEW pa, NEW lf, NEW rt, NEW co, Fields(t, pa, lf, rt, co), NEW L, NEW sub,
           Tied(pa, lf, rt, L, sub), NEW n \in L
    PROVE  BlackDepth(t, n) = Cardinality(Blacks(co, L, sub, n)) /\ Above(t, n) = {a \in L : n \in sub[a]}
<1>1. t.parent = pa /\ t.color = co
  BY FieldsAre
<1>2. Above(t, n) = {a \in L : n \in sub[a]}
  <2>1. \A a : a \in Above(t, n) <=> a \in L /\ n \in sub[a]
    BY <1>1, AboveIs
  <2>2. QED BY ONLY <2>1
<1>3. {a \in Above(t, n) : t.color[a] = Black} = Blacks(co, L, sub, n)
  BY <1>1, <1>2 DEF Blacks
<1>4. QED BY <1>2, <1>3 DEF BlackDepth

\* A red node turned black is one black more on the ways through it.
LEMMA MendedBlacks ==
    ASSUME NEW pa, NEW lf, NEW rt, NEW L, NEW sub, Tied(pa, lf, rt, L, sub), NEW co \in [Addr -> {Red, Black}],
           NEW c \in L, co[c] # Black, NEW cp, cp = Mended(co, c), NEW n \in L
    PROVE  Cardinality(Blacks(cp, L, sub, n)) = Cardinality(Blacks(co, L, sub, n)) + IF n \in sub[c] THEN 1 ELSE 0
<1>1. Nil \notin L /\ L \subseteq Addr /\ IsFiniteSet(L)
  BY Below, NilNotAddr
<1>2. cp[c] = Black /\ \A b \in L : b # c => cp[b] = co[b]
  BY <1>1 DEF Mended
<1>3. PICK A, B : A = Blacks(co, L, sub, n) /\ B = Blacks(cp, L, sub, n)
  OBVIOUS
<1>4. IsFiniteSet(A) /\ c \notin A
  <2>1. A \subseteq L
    BY <1>3 DEF Blacks
  <2>2. QED BY <1>1, <1>3, <2>1, FS_Subset DEF Blacks
<1>5. Cardinality(A) \in Nat
  BY <1>4, FS_CardinalityType
<1>6. CASE n \in sub[c]
  <2>1. B = A \cup {c}
    BY <1>2, <1>3, <1>6 DEF Blacks
  <2>2. QED BY <1>3, <1>4, <1>6, <2>1, FS_AddElement
<1>7. CASE n \notin sub[c]
  <2>1. B = A
    BY <1>2, <1>3, <1>7 DEF Blacks
  <2>2. QED BY <1>3, <1>5, <1>7, <2>1
<1>8. QED BY <1>6, <1>7

\* Left and right separately.
LEMMA AlikeBySides ==
    ASSUME NEW t, NEW pa, NEW lf, NEW rt, NEW co, Fields(t, pa, lf, rt, co), NEW w, NEW c, NEW u, NEW L, NEW N \in Nat,
           \A n \in L : /\ lf[n] = Nil => BlackDepth(t, n) + MissingAt(t, w, c, u, n, "left") = N
                        /\ rt[n] = Nil => BlackDepth(t, n) + MissingAt(t, w, c, u, n, "right") = N
    PROVE  LeavesAlike(t, w, c, u, L)
<1>1. t["left"] = lf /\ t["right"] = rt
  BY FieldsAre
<1>2. \A n \in L, s \in Side : t[s][n] = Nil => BlackDepth(t, n) + MissingAt(t, w, c, u, n, s) = N
  BY <1>1 DEF Side
<1>3. QED BY <1>2 DEF LeavesAlike

\* An empty tree has no leaves.
LEMMA NoLeaves == ASSUME NEW t, NEW w, NEW c, NEW u PROVE LeavesAlike(t, w, c, u, {})
BY DEF LeavesAlike

\* The same where nothing is missing.
LEMMA RestSum ==
    ASSUME NEW pa, NEW lf, NEW rt, NEW L, NEW sub, Tied(pa, lf, rt, L, sub),
           NEW co, NEW h, Heights(lf, rt, co, L, h, Nil, Nil), NEW n \in L, NEW d, d = Cardinality(Blacks(co, L, sub, n))
    PROVE  d \in Nat /\ h[pa[Header]] \in Nat /\ (lf[n] = Nil \/ rt[n] = Nil => d = h[pa[Header]])
<1>1. Nil \notin L
  BY Below
<1>2. Missed(lf, sub, Nil, n) = 0 /\ Gap(Nil, n) = 0
  BY <1>1 DEF Missed, Gap
<1>3. PICK k : k = Nil
  OBVIOUS
<1>4. k \in L \cup {Nil} /\ Heights(lf, rt, co, L, h, k, Nil)
  BY <1>3
<1>5. /\ d \in Nat /\ h[pa[Header]] \in Nat
      /\ lf[n] = Nil => d + Missed(lf, sub, k, n) + Gap(k, n) = h[pa[Header]]
      /\ rt[n] = Nil => d + Missed(lf, sub, k, n) = h[pa[Header]]
  BY <1>4, LeafSum
<1>6. QED BY <1>2, <1>3, <1>5

\* Outside the loop of a removal.
LEMMA RestAlike ==
    ASSUME NEW t, NEW pa, NEW lf, NEW rt, NEW co, Fields(t, pa, lf, rt, co), NEW w, w # "erase", NEW c, NEW u,
           NEW L, NEW sub, NEW h, NEW a, Fine(pa, lf, rt, co, KeyOf, L, sub, h, Nil, Nil, a)
    PROVE  LeavesAlike(t, w, c, u, L)
<1>1. Tied(pa, lf, rt, L, sub) /\ Heights(lf, rt, co, L, h, Nil, Nil)
  BY DEF Fine
<1>2. CASE L = {}
  BY <1>2, NoLeaves
<1>3. CASE L # {}
  <2>1. PICK N : N = h[pa[Header]]
    OBVIOUS
  <2>2. Nil \notin L
    BY <1>1, Below
  <2>3. ASSUME NEW n \in L
        PROVE  /\ N \in Nat
               /\ lf[n] = Nil => BlackDepth(t, n) + MissingAt(t, w, c, u, n, "left") = N
               /\ rt[n] = Nil => BlackDepth(t, n) + MissingAt(t, w, c, u, n, "right") = N
    <3>1. PICK d : d = Cardinality(Blacks(co, L, sub, n))
      OBVIOUS
    <3>2. BlackDepth(t, n) = d
      BY <1>1, <3>1, DepthIs
    <3>3. Missed(lf, sub, Nil, n) = 0 /\ Gap(Nil, n) = 0
      BY <2>2 DEF Missed, Gap
    <3>4. /\ d \in Nat /\ N \in Nat
          /\ lf[n] = Nil => d + Missed(lf, sub, Nil, n) + Gap(Nil, n) = N
          /\ rt[n] = Nil => d + Missed(lf, sub, Nil, n) = N
      BY <1>1, <2>1, <3>1, LeafSum
    <3>5. \A s : MissingAt(t, w, c, u, n, s) = 0
      BY DEF MissingAt
    <3>6. QED BY <3>2, <3>3, <3>4, <3>5
  <2>4. N \in Nat
    BY <1>3, <2>3
  <2>5. QED BY <2>3, <2>4, AlikeBySides
<1>4. QED BY <1>2, <1>3

\* In it, the cases of where the missing black is: at a null link,
LEMMA NullAlike ==
    ASSUME NEW t, NEW pa, NEW lf, NEW rt, NEW co, Fields(t, pa, lf, rt, co), NEW u,
           NEW L, NEW sub, NEW h, Fine(pa, lf, rt, co, KeyOf, L, sub, h, u, Nil, Nil), u \in L, lf[u] = Nil
    PROVE  LeavesAlike(t, "erase", Nil, u, L)
<1>1. Tied(pa, lf, rt, L, sub) /\ Heights(lf, rt, co, L, h, u, Nil)
  BY DEF Fine
<1>2. PICK N : N = h[pa[Header]]
  OBVIOUS
<1>3. Nil \notin L /\ t.left = lf
  BY <1>1, Below, FieldsAre
<1>4. ASSUME NEW n \in L
      PROVE  /\ N \in Nat
             /\ lf[n] = Nil => BlackDepth(t, n) + MissingAt(t, "erase", Nil, u, n, "left") = N
             /\ rt[n] = Nil => BlackDepth(t, n) + MissingAt(t, "erase", Nil, u, n, "right") = N
  <2>1. PICK d : d = Cardinality(Blacks(co, L, sub, n))
    OBVIOUS
  <2>2. BlackDepth(t, n) = d
    BY <1>1, <2>1, DepthIs
  <2>3. Missed(lf, sub, u, n) = 0
    BY DEF Missed, Under
  <2>4. /\ d \in Nat /\ N \in Nat
        /\ lf[n] = Nil => d + Missed(lf, sub, u, n) + Gap(u, n) = N
        /\ rt[n] = Nil => d + Missed(lf, sub, u, n) = N
    BY <1>1, <1>2, <2>1, LeafSum
  <2>5. MissingAt(t, "erase", Nil, u, n, "left") = Gap(u, n) /\ MissingAt(t, "erase", Nil, u, n, "right") = 0
    BY <1>3 DEF MissingAt, Gap
  <2>6. QED BY <2>2, <2>3, <2>4, <2>5 DEF Gap
<1>5. QED BY <1>4, AlikeBySides

\* at a red node,
LEMMA RedAlike ==
    ASSUME NEW t, NEW pa, NEW lf, NEW rt, NEW co \in [Addr -> {Red, Black}], Fields(t, pa, lf, rt, co), NEW u,
           NEW L, NEW sub, NEW h, NEW c \in L, co[c] # Black,
           Fine(pa, lf, rt, Mended(co, c), KeyOf, L, sub, h, Nil, Nil, Nil)
    PROVE  LeavesAlike(t, "erase", c, u, L)
<1>1. PICK cp : cp = Mended(co, c)
  OBVIOUS
<1>2. Tied(pa, lf, rt, L, sub) /\ Heights(lf, rt, cp, L, h, Nil, Nil)
  BY <1>1 DEF Fine
<1>3. PICK N : N = h[pa[Header]]
  OBVIOUS
<1>4. Nil \notin L
  BY <1>2, Below
<1>5. ASSUME NEW n \in L
      PROVE  /\ N \in Nat
             /\ lf[n] = Nil => BlackDepth(t, n) + MissingAt(t, "erase", c, u, n, "left") = N
             /\ rt[n] = Nil => BlackDepth(t, n) + MissingAt(t, "erase", c, u, n, "right") = N
  <2>1. PICK d, e : d = Cardinality(Blacks(cp, L, sub, n)) /\ e = Cardinality(Blacks(co, L, sub, n))
    OBVIOUS
  <2>2. BlackDepth(t, n) = e /\ Above(t, n) = {a \in L : n \in sub[a]}
    BY <1>2, <2>1, DepthIs
  <2>3. Missed(lf, sub, Nil, n) = 0 /\ Gap(Nil, n) = 0
    BY <1>4 DEF Missed, Gap
  <2>4. /\ d \in Nat /\ N \in Nat
        /\ lf[n] = Nil => d + Missed(lf, sub, Nil, n) + Gap(Nil, n) = N
        /\ rt[n] = Nil => d + Missed(lf, sub, Nil, n) = N
    BY <1>2, <1>3, <2>1, <2>3, RestSum
  <2>5. d = e + IF n \in sub[c] THEN 1 ELSE 0
    BY <1>1, <1>2, <2>1, MendedBlacks
  <2>6. \A s : MissingAt(t, "erase", c, u, n, s) = IF n \in sub[c] THEN 1 ELSE 0
    BY <1>4, <2>2 DEF MissingAt
  <2>7. QED BY <2>2, <2>3, <2>4, <2>5, <2>6
<1>6. QED BY <1>5, AlikeBySides

\* at a black root,
LEMMA RootAlike ==
    ASSUME NEW t, NEW pa, NEW lf, NEW rt, NEW co, Fields(t, pa, lf, rt, co), NEW u,
           NEW L, NEW sub, NEW h, NEW c \in L, c = pa[Header], Fine(pa, lf, rt, co, KeyOf, L, sub, h, Nil, Nil, Nil)
    PROVE  LeavesAlike(t, "erase", c, u, L)
<1>1. Tied(pa, lf, rt, L, sub) /\ Heights(lf, rt, co, L, h, Nil, Nil)
  BY DEF Fine
<1>2. PICK N : N = h[pa[Header]]
  OBVIOUS
<1>3. Nil \notin L
  BY <1>1, Below
<1>4. sub[c] = L
  BY <1>1, <1>3 DEF Tied
<1>5. ASSUME NEW n \in L
      PROVE  /\ N + 1 \in Nat
             /\ lf[n] = Nil => BlackDepth(t, n) + MissingAt(t, "erase", c, u, n, "left") = N + 1
             /\ rt[n] = Nil => BlackDepth(t, n) + MissingAt(t, "erase", c, u, n, "right") = N + 1
  <2>1. PICK d : d = Cardinality(Blacks(co, L, sub, n))
    OBVIOUS
  <2>2. BlackDepth(t, n) = d /\ Above(t, n) = {a \in L : n \in sub[a]}
    BY <1>1, <2>1, DepthIs
  <2>3. Missed(lf, sub, Nil, n) = 0 /\ Gap(Nil, n) = 0
    BY <1>3 DEF Missed, Gap
  <2>4. /\ d \in Nat /\ N \in Nat
        /\ lf[n] = Nil => d + Missed(lf, sub, Nil, n) + Gap(Nil, n) = N
        /\ rt[n] = Nil => d + Missed(lf, sub, Nil, n) = N
    BY <1>1, <1>2, <2>1, <2>3, RestSum
  <2>5. \A s : MissingAt(t, "erase", c, u, n, s) = 1
    BY <1>3, <1>4, <2>2 DEF MissingAt
  <2>6. QED BY <2>2, <2>3, <2>4, <2>5
<1>6. QED BY <1>5, AlikeBySides

\* at a black node below u.
LEMMA BlackAlike ==
    ASSUME NEW t, NEW pa, NEW lf, NEW rt, NEW co, Fields(t, pa, lf, rt, co), NEW u,
           NEW L, NEW sub, NEW h, NEW c \in L, u \in L, lf[u] = c, Fine(pa, lf, rt, co, KeyOf, L, sub, h, u, Nil, Nil)
    PROVE  LeavesAlike(t, "erase", c, u, L)
<1>1. Tied(pa, lf, rt, L, sub) /\ Heights(lf, rt, co, L, h, u, Nil)
  BY DEF Fine
<1>2. PICK N : N = h[pa[Header]]
  OBVIOUS
<1>3. Nil \notin L
  BY <1>1, Below
<1>5. ASSUME NEW n \in L
      PROVE  /\ N \in Nat
             /\ lf[n] = Nil => BlackDepth(t, n) + MissingAt(t, "erase", c, u, n, "left") = N
             /\ rt[n] = Nil => BlackDepth(t, n) + MissingAt(t, "erase", c, u, n, "right") = N
  <2>1. PICK d : d = Cardinality(Blacks(co, L, sub, n))
    OBVIOUS
  <2>2. BlackDepth(t, n) = d /\ Above(t, n) = {a \in L : n \in sub[a]}
    BY <1>1, <2>1, DepthIs
  <2>3. /\ d \in Nat /\ N \in Nat
        /\ lf[n] = Nil => d + Missed(lf, sub, u, n) + Gap(u, n) = N
        /\ rt[n] = Nil => d + Missed(lf, sub, u, n) = N
    BY <1>1, <1>2, <2>1, LeafSum
  <2>4. lf[n] = Nil => Gap(u, n) = 0
    BY <1>3 DEF Gap
  <2>5. Missed(lf, sub, u, n) = IF n \in sub[c] THEN 1 ELSE 0
    BY <1>3 DEF Missed, Under
  <2>6. \A s : MissingAt(t, "erase", c, u, n, s) = IF n \in sub[c] THEN 1 ELSE 0
    BY <1>3, <2>2 DEF MissingAt
  <2>7. QED BY <2>2, <2>3, <2>4, <2>5, <2>6
<1>6. QED BY <1>5, AlikeBySides

\* The four cases together.
LEMMA EraseAlike ==
    ASSUME NEW t, NEW pa, NEW lf, NEW rt, NEW co \in [Addr -> {Red, Black}], Fields(t, pa, lf, rt, co), NEW u,
           NEW L, NEW sub, NEW h, NEW c \in L \cup {Nil}, Held(t, L, "erase", c, u, sub, h)
    PROVE  LeavesAlike(t, "erase", c, u, L)
<1>1. PICK k : k = IF c # pa[Header] /\ (c # Nil => co[c] = Black) THEN u ELSE Nil
  OBVIOUS
<1>2. /\ Fine(pa, lf, rt, Mended(co, c), KeyOf, L, sub, h, k, Nil, Nil)
      /\ c # pa[Header] => u \in L /\ lf[u] = c /\ lf[Header] \in sub[u]
  BY <1>1, HeldErase
<1>3. Tied(pa, lf, rt, L, sub)
  BY <1>2 DEF Fine
<1>4. Nil \notin L
  BY <1>3, Below
<1>5. CASE c # Nil /\ co[c] # Black
  <2>1. Fine(pa, lf, rt, Mended(co, c), KeyOf, L, sub, h, Nil, Nil, Nil) /\ c \in L
    BY <1>1, <1>2, <1>5
  <2>2. QED BY <1>5, <2>1, RedAlike
<1>6. CASE c # Nil => co[c] = Black
  <2>1. Fine(pa, lf, rt, co, KeyOf, L, sub, h, k, Nil, Nil)
    <3>1. Mended(co, c) = co
      BY <1>6, Mending
    <3>2. QED BY <1>2, <3>1
  <2>2. CASE c = Nil /\ pa[Header] = Nil
    <3>1. L = {}
      BY <1>3, <2>2 DEF Tied
    <3>2. QED BY <3>1, NoLeaves
  <2>3. CASE c = Nil /\ pa[Header] # Nil
    <3>1. u \in L /\ lf[u] = Nil /\ k = u
      BY <1>1, <1>2, <2>3
    <3>2. Fine(pa, lf, rt, co, KeyOf, L, sub, h, u, Nil, Nil)
      BY <2>1, <3>1
    <3>3. LeavesAlike(t, "erase", Nil, u, L)
      BY <3>1, <3>2, NullAlike
    <3>4. QED BY <2>3, <3>3
  <2>4. CASE c # Nil /\ c = pa[Header]
    <3>1. Fine(pa, lf, rt, co, KeyOf, L, sub, h, Nil, Nil, Nil) /\ c \in L
      BY <1>1, <2>1, <2>4
    <3>2. QED BY <2>4, <3>1, RootAlike
  <2>5. CASE c # Nil /\ c # pa[Header]
    <3>1. Fine(pa, lf, rt, co, KeyOf, L, sub, h, u, Nil, Nil) /\ c \in L /\ u \in L /\ lf[u] = c
      BY <1>1, <1>2, <1>6, <2>1, <2>5
    <3>2. QED BY <3>1, BlackAlike
  <2>6. QED BY <2>2, <2>3, <2>4, <2>5
<1>7. QED BY <1>5, <1>6

\* In every state all leaves are under as many blacks.
LEMMA GoodAlike ==
    ASSUME NEW t, NEW nc, NEW al, NEW w, NEW c, NEW u, NEW v, Good(t, nc, al, w, c, u, v), NEW L, L = al \ {v}
    PROVE  LeavesAlike(t, w, c, u, L)
<1>1. PICK pa, lf, rt, co : Fields(t, pa, lf, rt, co) /\ co \in [Addr -> {Red, Black}]
  BY GoodFields
<1>2. PICK sub, h : Held(t, L, w, c, u, sub, h)
  BY DEF Good
<1>3. w \in {"idle", "insert", "erase", "drop"} /\ (w = "erase" => c \in L \cup {Nil})
  BY DEF Good
<1>4. CASE w = "erase"
  <2>1. Held(t, L, "erase", c, u, sub, h) /\ c \in L \cup {Nil}
    BY <1>2, <1>3, <1>4
  <2>2. LeavesAlike(t, "erase", c, u, L)
    BY <1>1, <2>1, EraseAlike
  <2>3. QED BY <1>4, <2>2
<1>5. CASE w = "insert"
  <2>1. Fine(pa, lf, rt, co, KeyOf, L, sub, h, Nil, Nil, c)
    BY <1>1, <1>2, <1>5, HeldInsert
  <2>2. w # "erase"
    BY <1>5
  <2>3. QED BY ONLY <1>1, <2>1, <2>2, RestAlike
<1>6. CASE w \in {"idle", "drop"}
  <2>1. Fine(pa, lf, rt, co, KeyOf, L, sub, h, Nil, Nil, Nil)
    BY <1>1, <1>2, <1>6, HeldRest
  <2>2. w # "erase"
    BY <1>6
  <2>3. QED BY ONLY <1>1, <2>1, <2>2, RestAlike
<1>7. QED BY <1>3, <1>4, <1>5, <1>6

\* Two red nodes in a row are there only at cur.
LEMMA GoodReds ==
    ASSUME NEW t, NEW nc, NEW al, NEW w, NEW c, NEW u, NEW v, Good(t, nc, al, w, c, u, v), NEW L, L = al \ {v},
           NEW n \in L, ~ IsBlack(t, n), ~ IsBlack(t, t.parent[n])
    PROVE  (w = "insert" /\ n = c) \/ (w = "erase" /\ c \in {n, t.parent[n]})
<1>1. PICK pa, lf, rt, co : Fields(t, pa, lf, rt, co) /\ co \in [Addr -> {Red, Black}]
  BY GoodFields
<1>2. PICK sub, h : Held(t, L, w, c, u, sub, h)
  BY DEF Good
<1>3. w \in {"idle", "insert", "erase", "drop"}
  BY DEF Good
<1>4. t.parent = pa /\ t.color = co
  BY <1>1, FieldsAre
<1>5. PICK cp, k, a : /\ Fine(pa, lf, rt, cp, KeyOf, L, sub, h, k, Nil, a)
                      /\ cp = (IF w = "erase" THEN Mended(co, c) ELSE co)
                      /\ a = (IF w = "insert" THEN c ELSE Nil)
  <2>1. t.left = lf /\ t.right = rt
    BY <1>1, FieldsAre
  <2>2. QED BY <1>2, <1>4, <2>1 DEF Held
<1>6. Tied(pa, lf, rt, L, sub) /\ RedFree(pa, cp, L, a, Nil)
  BY <1>5 DEF Fine
<1>7. Nil \notin L /\ n # Nil /\ pa[n] # Nil /\ n \in Addr /\ pa[n] \in Addr
  <2>1. Nil \notin L /\ L \subseteq Addr /\ Header \in Addr /\ Nil # Header
    BY <1>6, Below, NilNotAddr
  <2>2. pa[n] \in L \cup {Header}
    BY <1>6 DEF Tied
  <2>3. QED BY <2>1, <2>2
<1>8. co[n] = Red /\ co[pa[n]] = Red
  BY <1>1, <1>4, <1>7 DEF IsBlack
<1>9. CASE w # "erase"
  <2>1. cp = co
    BY <1>5, <1>9
  <2>2. n = a
    BY <1>6, <1>7, <1>8, <2>1 DEF RedFree
  <2>3. QED BY <1>3, <1>5, <1>7, <2>2
<1>10. CASE w = "erase" /\ c \notin {n, pa[n]}
  <2>1. cp[n] = Red /\ cp[pa[n]] = Red
    BY <1>1, <1>5, <1>7, <1>8, <1>10 DEF Mended
  <2>2. n = a
    BY <1>6, <1>7, <2>1 DEF RedFree
  <2>3. QED BY <1>5, <1>7, <1>10, <2>2
<1>11. QED BY <1>4, <1>9, <1>10

\* So the red-black properties hold as far as RedBlack says.
LEMMA GoodRedBlack == QueueInv => RedBlack
<1>1. SUFFICES ASSUME QueueInv PROVE RedBlack
  OBVIOUS
<1>2. PICK t, nc, al, w, c, u, v : t = tree /\ nc = node_count /\ al = alive /\ w = pc /\ c = cur /\ u = up /\ v = victim
  OBVIOUS
<1>3. Good(t, nc, al, w, c, u, v)
  BY <1>1, <1>2 DEF QueueInv
<1>4. PICK L : L = al \ {v}
  OBVIOUS
<1>5. Linked = L
  BY <1>2, <1>4 DEF Linked
<1>6. LeavesAlike(t, w, c, u, L)
  BY <1>3, <1>4, GoodAlike
<1>7. PICK N : \A n \in L, s \in Side : t[s][n] = Nil => BlackDepth(t, n) + MissingAt(t, w, c, u, n, s) = N
  BY <1>6 DEF LeavesAlike
<1>8. \A n, s : MissingBlack(n, s) = MissingAt(t, w, c, u, n, s)
  BY <1>2 DEF MissingBlack, MissingAt, EraseSide
<1>9. \A n \in Linked, s \in Side : tree[s][n] = Nil => BlackDepth(tree, n) + MissingBlack(n, s) = N
  BY <1>2, <1>5, <1>7, <1>8
<1>10. ASSUME NEW x \in {l \in Linked \X Side : tree[l[2]][l[1]] = Nil}
       PROVE  BlackDepth(tree, x[1]) + MissingBlack(x[1], x[2]) = N
  <2>1. x[1] \in Linked /\ x[2] \in Side /\ tree[x[2]][x[1]] = Nil
    BY <1>10
  <2>2. QED BY <1>9, <2>1
<1>11. ASSUME NEW n \in Linked, ~ IsBlack(tree, n), ~ IsBlack(tree, tree.parent[n])
       PROVE  (pc = "insert" /\ n = cur) \/ (pc = "erase" /\ cur \in {n, tree.parent[n]})
  <2>1. n \in L /\ ~ IsBlack(t, n) /\ ~ IsBlack(t, t.parent[n])
    BY <1>2, <1>5, <1>11
  <2>2. (w = "insert" /\ n = c) \/ (w = "erase" /\ c \in {n, t.parent[n]})
    BY <1>3, <1>4, <2>1, GoodReds
  <2>3. QED BY <1>2, <2>2
<1>12. QED BY <1>10, <1>11 DEF RedBlack

-----------------------------------------------------------------------------
(* The theorems.                                                           *)

\* Parent and child links agree, every node hangs from the root by them and the
\* header knows the root, at every iteration of either loop: neither a rotation
\* nor the unlinking of a node loses a subtree (stl_tree.cc:83-128, 233-250).
THEOREM TreeLinked == QueueSpec => []WellLinked
BY AlwaysGood, GoodLinked, PTL

\* Whatever insertions and rotations have done, no key left of a node is greater
\* and none right of it smaller.
THEOREM TreeOrdered == QueueSpec => []SearchOrder
BY AlwaysGood, GoodOrder, PTL

\* The red-black properties between the calls, and how little of them is broken
\* inside the two loops (stl_tree.cc:138-195, 259-347).
THEOREM TreeBalanced == QueueSpec => []RedBlack
BY AlwaysGood, GoodRedBlack, PTL

\* The header's left link is the first node and its right one the last, or the
\* header itself, between two calls (stl_tree.cc:197-231, 359-367).
THEOREM EndsKnown == QueueSpec => []EndsTracked
BY AlwaysGood, GoodEnds, PTL

\* find() and the search for the place of an insertion answer for every key as the
\* set of the elements does (stl_tree.h:1049-1083, 1324-1391).
THEOREM SearchesAnswer == QueueSpec => []FindCorrect
BY AlwaysGood, GoodSearches, PTL

\* No insertion of a unique key, with a hint or without, adds a key the tree holds.
THEOREM NoDuplicateIn == QueueSpec => UniqueInsertions
<1>1. QueueInv /\ [QueueNext]_vars
        => [\A n \in alive' \ alive :
              InsertUnique(n) \/ (\E pos \in alive \cup {Header} : InsertHintUnique(pos, n))
                 => \A m \in Linked : KeyOf[m] # KeyOf[n]]_vars
  BY GoodInsertions
<1>2. QED BY AlwaysGood, <1>1, PTL DEF QueueSpec, UniqueInsertions

\* No assert of the removal's loop fails and no null link is followed.
THEOREM NeverAborts == QueueSpec => [](pc \notin {"assert", "null"})
<1>1. QueueInv => pc \notin {"assert", "null"}
  BY DEF QueueInv, Good
<1>2. QED BY <1>1, AlwaysGood, PTL
=============================================================================
