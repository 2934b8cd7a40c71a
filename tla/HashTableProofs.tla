-------------------------- MODULE HashTableProofs --------------------------
(***************************************************************************)
(* Proofs about the hash table.  The invariant gives every bucket of the   *)
(* table, and of the table before while rehash empties it, the sequence of *)
(* nodes behind its sentinel; the steps push to, pop from, grow and shrink *)
(* these sequences.                                                        *)
(***************************************************************************)
EXTENDS HashTable, Iteration, FiniteSetTheorems, TLAPS

------------------------------------------------------------------------------
(* Chains.                                                                 *)

\* x before the elements of s; s without its first.
Cons(x, s) == [i \in 1..Len(s) + 1 |-> IF i = 1 THEN x ELSE s[i - 1]]
Rest(s) == [i \in 1..Len(s) - 1 |-> s[i + 1]]

\* What the two return.
LEMMA ConsFacts ==
    ASSUME NEW s \in Seq(Node), NEW x \in Node
    PROVE  /\ Cons(x, s) \in Seq(Node) /\ Len(Cons(x, s)) = Len(s) + 1
           /\ Cons(x, s)[1] = x /\ \A i \in 1..Len(s) : Cons(x, s)[i + 1] = s[i]
<1>1. PICK k : k = Len(s) /\ k \in Nat
  OBVIOUS
<1>2. PICK t : t = [i \in 1..k + 1 |-> IF i = 1 THEN x ELSE s[i - 1]]
  OBVIOUS
<1>3. \A i \in 1..k + 1 : t[i] \in Node
  <2>1. ASSUME NEW i \in 1..k + 1 PROVE t[i] \in Node
    <3>1. i # 1 => i - 1 \in 1..k
      BY <1>1
    <3>2. QED BY <3>1, <1>1, <1>2
  <2>2. QED BY <2>1
<1>4. t \in Seq(Node) /\ Len(t) = k + 1
  BY <1>1, <1>2, <1>3
<1>5. t[1] = x /\ \A i \in 1..k : t[i + 1] = s[i]
  <2>1. \A i \in 1..k : i + 1 \in 1..k + 1 /\ i + 1 # 1 /\ (i + 1) - 1 = i
    BY <1>1
  <2>2. 1 \in 1..k + 1
    BY <1>1
  <2>3. QED BY <2>1, <2>2, <1>2
<1>6. QED BY <1>1, <1>2, <1>4, <1>5 DEF Cons

\* Rest drops the first node and keeps the order of the others.
LEMMA RestFacts ==
    ASSUME NEW s \in Seq(Node), s # <<>>
    PROVE  /\ Rest(s) \in Seq(Node) /\ Len(Rest(s)) = Len(s) - 1 /\ Len(s) \in Nat \ {0}
           /\ \A i \in 1..Len(s) - 1 : Rest(s)[i] = s[i + 1]
<1>1. PICK k : k = Len(s) /\ k \in Nat /\ k # 0
  OBVIOUS
<1>2. PICK t : t = [i \in 1..k - 1 |-> s[i + 1]]
  OBVIOUS
<1>3. \A i \in 1..k - 1 : t[i] \in Node /\ t[i] = s[i + 1]
  BY <1>1, <1>2
<1>4. t \in Seq(Node) /\ Len(t) = k - 1
  BY <1>1, <1>2, <1>3
<1>5. QED BY <1>1, <1>2, <1>3, <1>4 DEF Rest

\* s is the chain behind head h, along nx.
Linked(nx, h, s) ==
    \A i \in 0..Len(s) : nx[IF i = 0 THEN h ELSE s[i]] = IF i = Len(s) THEN Nil ELSE s[i + 1]

\* C[h] is the chain behind h, for the heads H, and no two chains meet.
Chains(C, H, nx) ==
    /\ H \in SUBSET Sentinel /\ nx \in [Cell -> Node \cup {Nil}]
    /\ C \in [H -> Seq(Node)]
    /\ \A h \in H : Linked(nx, h, C[h])
    /\ \A g, h \in H : \A i \in 1..Len(C[g]), j \in 1..Len(C[h]) : C[g][i] = C[h][j] => g = h /\ i = j

\* The elements of the chains.
Nodes(s) == {s[i] : i \in 1..Len(s)}
In(C, H) == UNION {Nodes(C[h]) : h \in H}

\* What the chain of a table without elements links to.
LEMMA LinkedFacts ==
    ASSUME NEW nx, NEW h, NEW s \in Seq(Node), Linked(nx, h, s)
    PROVE  /\ s = <<>> => nx[h] = Nil
           /\ s # <<>> => nx[h] = s[1]
           /\ nx[h] = Nil <=> s = <<>>
           /\ \A i \in 1..Len(s) : nx[s[i]] = IF i = Len(s) THEN Nil ELSE s[i + 1]
<1>1. PICK k : k = Len(s) /\ k \in Nat /\ (s = <<>> <=> k = 0)
  OBVIOUS
<1>2. \A i \in 0..k : nx[IF i = 0 THEN h ELSE s[i]] = IF i = k THEN Nil ELSE s[i + 1]
  BY <1>1 DEF Linked
<1>3. nx[h] = IF k = 0 THEN Nil ELSE s[1]
  <2>1. 0 \in 0..k
    BY <1>1
  <2>2. nx[IF 0 = 0 THEN h ELSE s[0]] = IF 0 = k THEN Nil ELSE s[0 + 1]
    BY ONLY <2>1, <1>2
  <2>3. QED BY <2>2
<1>4. k # 0 => s[1] \in Node
  <2>1. k # 0 => 1 \in 1..k
    BY <1>1
  <2>2. QED BY <2>1, <1>1
<1>5. \A i \in 1..k : nx[s[i]] = IF i = k THEN Nil ELSE s[i + 1]
  <2>1. \A i \in 1..k : i \in 0..k /\ i # 0
    BY <1>1
  <2>2. QED BY <2>1, <1>2
<1>6. QED BY <1>1, <1>3, <1>4, <1>5, Parameters

\* The links of the chain behind h, one by one.
LEMMA LinkedFrom ==
    ASSUME NEW nx, NEW h, NEW s \in Seq(Node),
           nx[h] = IF s = <<>> THEN Nil ELSE s[1],
           \A i \in 1..Len(s) : nx[s[i]] = IF i = Len(s) THEN Nil ELSE s[i + 1]
    PROVE  Linked(nx, h, s)
<1>1. PICK k : k = Len(s) /\ k \in Nat /\ (s = <<>> <=> k = 0)
  OBVIOUS
<1>2. ASSUME NEW i \in 0..k PROVE nx[IF i = 0 THEN h ELSE s[i]] = IF i = k THEN Nil ELSE s[i + 1]
  <2>1. CASE i = 0
    BY <1>1, <2>1
  <2>2. CASE i # 0
    <3>1. i \in 1..k
      BY <1>1, <2>2
    <3>2. QED BY <1>1, <2>2, <3>1
  <2>3. QED BY <2>1, <2>2
<1>3. QED BY <1>1, <1>2 DEF Linked

\* A node that is in no chain is put at the front of one.
Pushed(C, H, nx, h, c, ny, D) ==
    /\ h \in H /\ c \in Node /\ c \notin In(C, H)
    /\ ny = [nx EXCEPT ![c] = nx[h], ![h] = c]
    /\ D = [C EXCEPT ![h] = Cons(c, C[h])]

\* The chains have it then.
LEMMA ChainsPush ==
    ASSUME NEW C, NEW H, NEW nx, Chains(C, H, nx),
           NEW h, NEW c, NEW ny, NEW D, Pushed(C, H, nx, h, c, ny, D)
    PROVE  Chains(D, H, ny) /\ In(D, H) = In(C, H) \cup {c}
<1>0. /\ h \in H /\ c \in Node /\ c \notin In(C, H)
      /\ ny = [nx EXCEPT ![c] = nx[h], ![h] = c]
      /\ D = [C EXCEPT ![h] = Cons(c, C[h])]
  BY DEF Pushed
<1>1. /\ H \in SUBSET Sentinel /\ nx \in [Cell -> Node \cup {Nil}] /\ C \in [H -> Seq(Node)]
      /\ \A g \in H : Linked(nx, g, C[g])
      /\ \A f, g \in H : \A i \in 1..Len(C[f]), j \in 1..Len(C[g]) : C[f][i] = C[g][j] => f = g /\ i = j
      /\ h \in H /\ c \in Node /\ c \notin In(C, H)
  BY <1>0 DEF Chains
<1>2. c # h /\ h \in Cell /\ c \in Cell /\ c \notin H
  BY <1>0, <1>1, Sentinels DEF Cell
<1>3. PICK s \in Seq(Node) : s = C[h]
  BY <1>0, <1>1
<1>4. PICK t : t = Cons(c, s)
  OBVIOUS
<1>5. t \in Seq(Node) /\ Len(t) = Len(s) + 1 /\ t[1] = c /\ \A i \in 1..Len(s) : t[i + 1] = s[i]
  BY <1>0, <1>4, ConsFacts
<1>6. D \in [H -> Seq(Node)] /\ D[h] = t /\ \A g \in H : g # h => D[g] = C[g]
  BY <1>0, <1>1, <1>3, <1>4, <1>5
<1>7. \A g \in H : \A i \in 1..Len(C[g]) : C[g][i] \in In(C, H) /\ C[g][i] \in Node
  BY <1>1 DEF In, Nodes
<1>8. ny \in [Cell -> Node \cup {Nil}] /\ ny[c] = nx[h] /\ ny[h] = c
      /\ \A d \in Cell : d # c /\ d # h => ny[d] = nx[d]
  BY <1>0, <1>1, <1>2
<1>9. PICK k : k = Len(s) /\ k \in Nat /\ (s = <<>> <=> k = 0)
  OBVIOUS
<1>10. \A i \in 1..k + 1 : i = 1 \/ (i - 1 \in 1..k /\ t[i] = s[i - 1])
  <2>1. ASSUME NEW i \in 1..k + 1, i # 1 PROVE i - 1 \in 1..k /\ t[i] = s[i - 1]
    <3>1. i - 1 \in 1..k /\ (i - 1) + 1 = i
      BY <1>9, <2>1
    <3>2. QED BY <3>1, <1>5, <1>9
  <2>2. QED BY <2>1
<1>11. Linked(ny, h, t)
  <2>1. t # <<>> /\ ny[h] = t[1]
    BY <1>0, <1>5, <1>8, <1>9
  <2>2. ASSUME NEW i \in 1..k + 1 PROVE ny[t[i]] = IF i = k + 1 THEN Nil ELSE t[i + 1]
    <3>1. CASE i = 1 /\ k = 0
      <4>1. nx[h] = Nil
        BY <3>1, <1>1, <1>3, <1>9, LinkedFacts
      <4>2. QED BY <3>1, <4>1, <1>5, <1>8
    <3>2. CASE i = 1 /\ k # 0
      <4>1. 1 \in 1..k /\ 1 # k + 1
        BY <3>2, <1>9
      <4>2. t[1 + 1] = s[1]
        BY <4>1, <1>5, <1>9
      <4>3. nx[h] = s[1]
        BY <3>2, <1>1, <1>3, <1>9, LinkedFacts
      <4>4. QED BY <3>2, <4>1, <4>2, <4>3, <1>5, <1>8
    <3>3. CASE i # 1
      <4>1. i - 1 \in 1..k /\ t[i] = s[i - 1]
        BY <3>3, <1>10
      <4>2. nx[s[i - 1]] = IF i - 1 = k THEN Nil ELSE s[(i - 1) + 1]
        BY <4>1, <1>1, <1>3, <1>9, LinkedFacts
      <4>3. s[i - 1] \in Node /\ s[i - 1] # c /\ s[i - 1] # h
        BY <4>1, <1>1, <1>3, <1>7, <1>9, Sentinels
      <4>4. ny[t[i]] = IF i - 1 = k THEN Nil ELSE s[(i - 1) + 1]
        BY <4>1, <4>2, <4>3, <1>8 DEF Cell
      <4>5. i # k + 1 => i \in 1..k /\ (i - 1) + 1 = i
        BY <3>3, <1>9
      <4>6. i - 1 = k <=> i = k + 1
        BY <1>9
      <4>7. QED BY <4>4, <4>5, <4>6, <1>5, <1>9
    <3>4. QED BY <3>1, <3>2, <3>3
  <2>3. \A i \in 1..Len(t) : ny[t[i]] = IF i = Len(t) THEN Nil ELSE t[i + 1]
    BY <2>2, <1>5, <1>9
  <2>4. ny[h] = IF t = <<>> THEN Nil ELSE t[1]
    BY <2>1
  <2>5. QED BY ONLY <2>3, <2>4, <1>5, LinkedFrom
<1>12. ASSUME NEW g \in H PROVE Linked(ny, g, D[g])
  <2>1. CASE g = h
    BY <1>0, <2>1, <1>6, <1>11
  <2>2. CASE g # h
    <3>1. Linked(nx, g, C[g]) /\ g \in Cell /\ g # c
      BY <1>1, <1>2 DEF Cell
    <3>2. \A i \in 1..Len(C[g]) : C[g][i] \in Cell /\ C[g][i] # c /\ C[g][i] # h
      BY <1>1, <1>7, Sentinels DEF Cell
    <3>3. \A i \in 0..Len(C[g]) : i # 0 => i \in 1..Len(C[g])
      BY <1>1
    <3>4. Linked(ny, g, C[g])
      BY <2>2, <3>1, <3>2, <3>3, <1>8 DEF Linked
    <3>5. QED BY <2>2, <3>4, <1>6
  <2>3. QED BY <2>1, <2>2
<1>13. ASSUME NEW f \in H, NEW g \in H, NEW i \in 1..Len(D[f]), NEW j \in 1..Len(D[g]), D[f][i] = D[g][j]
       PROVE  f = g /\ i = j
  <2>1. CASE f = h /\ g = h
    <3>1. i \in 1..k + 1 /\ j \in 1..k + 1 /\ t[i] = t[j]
      BY <2>1, <1>13, <1>5, <1>6, <1>9
    <3>2. ASSUME NEW x \in 1..k + 1, t[x] = c PROVE x = 1
      <4>1. SUFFICES ASSUME x # 1 PROVE FALSE
        OBVIOUS
      <4>2. x - 1 \in 1..Len(C[h]) /\ t[x] = C[h][x - 1]
        BY <4>1, <1>3, <1>9, <1>10
      <4>3. C[h][x - 1] \in In(C, H)
        BY <4>2, <1>1, <1>7
      <4>4. QED BY <3>2, <4>2, <4>3, <1>1
    <3>3. CASE i = 1 \/ j = 1
      BY <3>1, <3>2, <3>3, <1>5, <2>1
    <3>4. CASE i # 1 /\ j # 1
      <4>1. i - 1 \in 1..k /\ j - 1 \in 1..k /\ s[i - 1] = s[j - 1]
        BY <3>1, <3>4, <1>10
      <4>2. PICK x \in 1..Len(C[h]), y \in 1..Len(C[h]) : x = i - 1 /\ y = j - 1 /\ C[h][x] = C[h][y]
        BY <4>1, <1>3, <1>9
      <4>3. x = y
        BY <4>2, <1>1
      <4>4. QED BY <4>2, <4>3, <3>1, <2>1
    <3>5. QED BY <3>3, <3>4
  <2>2. CASE f # h /\ g # h
    BY <2>2, <1>1, <1>6, <1>13
  <2>3. CASE f = h /\ g # h
    <3>1. i \in 1..k + 1 /\ t[i] = C[g][j] /\ j \in 1..Len(C[g])
      BY <2>3, <1>13, <1>5, <1>6, <1>9
    <3>2. i # 1
      BY <3>1, <1>1, <1>5, <1>7
    <3>3. i - 1 \in 1..k /\ C[h][i - 1] = C[g][j]
      BY <3>1, <3>2, <1>3, <1>10
    <3>4. QED BY <3>1, <3>3, <2>3, <1>1, <1>3, <1>9
  <2>4. CASE f # h /\ g = h
    <3>1. j \in 1..k + 1 /\ t[j] = C[f][i] /\ i \in 1..Len(C[f])
      BY <2>4, <1>13, <1>5, <1>6, <1>9
    <3>2. j # 1
      BY <3>1, <1>1, <1>5, <1>7
    <3>3. j - 1 \in 1..k /\ C[h][j - 1] = C[f][i]
      BY <3>1, <3>2, <1>3, <1>10
    <3>4. QED BY <3>1, <3>3, <2>4, <1>1, <1>3, <1>9
  <2>5. QED BY <2>1, <2>2, <2>3, <2>4
<1>14. Chains(D, H, ny)
  BY <1>1, <1>6, <1>8, <1>12, <1>13 DEF Chains
<1>15. Nodes(t) = Nodes(s) \cup {c}
  <2>1. \A i \in 1..k : i + 1 \in 1..k + 1
    BY <1>9
  <2>2. 1 \in 1..k + 1
    BY <1>9
  <2>3. ASSUME NEW i \in 1..k + 1 PROVE t[i] \in {s[x] : x \in 1..k} \cup {c}
    BY <1>5, <1>10
  <2>4. ASSUME NEW x \in 1..k PROVE s[x] \in {t[i] : i \in 1..k + 1}
    <3>1. x + 1 \in 1..k + 1 /\ t[x + 1] = s[x]
      BY <1>5, <1>9
    <3>2. QED BY <3>1
  <2>5. c \in {t[i] : i \in 1..k + 1}
    BY <2>2, <1>5
  <2>6. {t[i] : i \in 1..k + 1} = {s[x] : x \in 1..k} \cup {c}
    BY <2>3, <2>4, <2>5
  <2>7. QED BY <2>6, <1>5, <1>9 DEF Nodes
<1>16. In(D, H) = In(C, H) \cup {c}
  <2>1. ASSUME NEW g \in H, g # h PROVE Nodes(D[g]) = Nodes(C[g])
    BY <2>1, <1>6
  <2>2. Nodes(D[h]) = Nodes(C[h]) \cup {c}
    BY <1>3, <1>6, <1>15
  <2>3. ASSUME NEW x \in In(D, H) PROVE x \in In(C, H) \cup {c}
    <3>1. PICK g \in H : x \in Nodes(D[g])
      BY DEF In
    <3>2. QED BY <3>1, <2>1, <2>2 DEF In
  <2>4. ASSUME NEW x \in In(C, H) PROVE x \in In(D, H)
    <3>1. PICK g \in H : x \in Nodes(C[g])
      BY DEF In
    <3>2. x \in Nodes(D[g])
      BY <3>1, <2>1, <2>2
    <3>3. QED BY <3>2 DEF In
  <2>5. c \in In(D, H)
    BY <2>2, <1>1 DEF In
  <2>6. QED BY <2>3, <2>4, <2>5
<1>17. QED BY <1>14, <1>16

\* The first node of a chain is taken out of it.
Popped(C, H, nx, h, c, ny, D) ==
    /\ h \in H /\ c = nx[h] /\ c # Nil
    /\ ny = [nx EXCEPT ![h] = nx[c]]
    /\ D = [C EXCEPT ![h] = Rest(C[h])]

\* The chains have the other elements then.
LEMMA ChainsPop ==
    ASSUME NEW C, NEW H, NEW nx, Chains(C, H, nx),
           NEW h, NEW c, NEW ny, NEW D, Popped(C, H, nx, h, c, ny, D)
    PROVE  /\ Chains(D, H, ny) /\ In(D, H) = In(C, H) \ {c}
           /\ c \in In(C, H) /\ c \in Node /\ \E i \in 1..Len(C[h]) : c = C[h][i]
<1>0. /\ h \in H /\ c = nx[h] /\ c # Nil
      /\ ny = [nx EXCEPT ![h] = nx[c]]
      /\ D = [C EXCEPT ![h] = Rest(C[h])]
  BY DEF Popped
<1>1. /\ H \in SUBSET Sentinel /\ nx \in [Cell -> Node \cup {Nil}] /\ C \in [H -> Seq(Node)]
      /\ \A g \in H : Linked(nx, g, C[g])
      /\ \A f, g \in H : \A i \in 1..Len(C[f]), j \in 1..Len(C[g]) : C[f][i] = C[g][j] => f = g /\ i = j
      /\ h \in H
  BY <1>0 DEF Chains
<1>2. PICK s \in Seq(Node) : s = C[h]
  BY <1>0, <1>1
<1>3. s # <<>> /\ nx[h] = s[1] /\ \A i \in 1..Len(s) : nx[s[i]] = IF i = Len(s) THEN Nil ELSE s[i + 1]
  BY <1>0, <1>1, <1>2, LinkedFacts
<1>4. PICK k : k = Len(s) /\ k \in Nat \ {0}
  BY <1>3
<1>5. PICK t : t = Rest(s)
  OBVIOUS
<1>6. t \in Seq(Node) /\ Len(t) = k - 1 /\ \A i \in 1..k - 1 : t[i] = s[i + 1]
  BY <1>3, <1>4, <1>5, RestFacts
<1>7. D \in [H -> Seq(Node)] /\ D[h] = t /\ \A g \in H : g # h => D[g] = C[g]
  BY <1>0, <1>1, <1>2, <1>5, <1>6
<1>8. c = s[1] /\ 1 \in 1..k /\ c \in Node /\ h \in Cell /\ h \notin Node
  BY <1>0, <1>1, <1>3, <1>4, Sentinels DEF Cell
<1>9. \A g \in H : \A i \in 1..Len(C[g]) : C[g][i] \in In(C, H) /\ C[g][i] \in Node
  BY <1>1 DEF In, Nodes
<1>10. ny \in [Cell -> Node \cup {Nil}] /\ ny[h] = nx[c] /\ \A d \in Cell : d # h => ny[d] = nx[d]
  BY <1>0, <1>1, <1>8 DEF Cell
<1>11. ASSUME NEW i \in 1..k - 1 PROVE i + 1 \in 1..k /\ t[i] = s[i + 1] /\ t[i] \in Node /\ t[i] # c
  <2>1. i + 1 \in 1..k /\ i + 1 # 1 /\ t[i] = s[i + 1]
    BY <1>4, <1>6
  <2>2. PICK x \in 1..Len(C[h]) : x = i + 1
    BY <2>1, <1>2, <1>4
  <2>3. 1 \in 1..Len(C[h]) /\ c = C[h][1]
    BY <1>2, <1>4, <1>8
  <2>4. C[h][x] # C[h][1] /\ C[h][x] \in Node
    BY <2>1, <2>2, <2>3, <1>1, <1>9
  <2>5. QED BY <2>1, <2>2, <2>3, <2>4, <1>2
<1>12. Linked(ny, h, t)
  <2>1. ny[h] = IF t = <<>> THEN Nil ELSE t[1]
    <3>1. CASE k = 1
      BY <3>1, <1>3, <1>4, <1>6, <1>8, <1>10
    <3>2. CASE k # 1
      <4>1. 1 \in 1..k - 1 /\ 1 + 1 = 2 /\ 1 # k
        BY <3>2, <1>4
      <4>2. t[1] = s[2] /\ nx[s[1]] = s[2] /\ t # <<>>
        <5>1. t[1] = s[1 + 1] /\ nx[s[1]] = s[1 + 1]
          BY <4>1, <1>3, <1>4, <1>6, <1>8
        <5>2. QED BY <5>1, <4>1, <1>4, <1>6
      <4>3. QED BY <4>2, <1>8, <1>10
    <3>3. QED BY <3>1, <3>2
  <2>2. ASSUME NEW i \in 1..k - 1 PROVE ny[t[i]] = IF i = k - 1 THEN Nil ELSE t[i + 1]
    <3>1. i + 1 \in 1..k /\ t[i] = s[i + 1] /\ t[i] \in Node
      BY <1>11
    <3>2. ny[t[i]] = nx[s[i + 1]]
      BY <3>1, <1>8, <1>10 DEF Cell
    <3>3. nx[s[i + 1]] = IF i + 1 = k THEN Nil ELSE s[(i + 1) + 1]
      BY <3>1, <1>3, <1>4
    <3>4. i # k - 1 => i + 1 \in 1..k - 1
      BY <1>4
    <3>5. i # k - 1 => t[i + 1] = s[(i + 1) + 1]
      BY <3>4, <1>6
    <3>6. i = k - 1 <=> i + 1 = k
      BY <1>4
    <3>7. QED BY <3>2, <3>3, <3>5, <3>6
  <2>3. QED BY <2>1, <2>2, <1>6, LinkedFrom
<1>13. ASSUME NEW g \in H PROVE Linked(ny, g, D[g])
  <2>1. CASE g = h
    BY <2>1, <1>7, <1>12
  <2>2. CASE g # h
    <3>1. Linked(nx, g, C[g]) /\ g \in Cell
      BY <1>1 DEF Cell
    <3>2. \A i \in 1..Len(C[g]) : C[g][i] \in Cell /\ C[g][i] # h
      BY <1>8, <1>9 DEF Cell
    <3>3. \A i \in 0..Len(C[g]) : i # 0 => i \in 1..Len(C[g])
      BY <1>1
    <3>4. Linked(ny, g, C[g])
      BY <2>2, <3>1, <3>2, <3>3, <1>10 DEF Linked
    <3>5. QED BY <2>2, <3>4, <1>7
  <2>3. QED BY <2>1, <2>2
<1>14. ASSUME NEW g \in H, NEW i \in 1..Len(D[g])
       PROVE  \E x \in 1..Len(C[g]) : C[g][x] = D[g][i] /\ x = (IF g = h THEN i + 1 ELSE i) /\ D[g][i] # c
  <2>1. CASE g = h
    <3>1. i \in 1..k - 1
      BY <2>1, <1>14, <1>6, <1>7
    <3>2. i + 1 \in 1..Len(C[g]) /\ C[g][i + 1] = D[g][i] /\ D[g][i] # c
      BY <2>1, <3>1, <1>2, <1>4, <1>7, <1>11
    <3>3. QED BY <2>1, <3>2
  <2>2. CASE g # h
    <3>1. i \in 1..Len(C[g]) /\ C[g][i] = D[g][i]
      BY <2>2, <1>7, <1>14
    <3>2. 1 \in 1..Len(C[h]) /\ c = C[h][1]
      BY <1>2, <1>4, <1>8
    <3>3. C[g][i] # c
      BY <2>2, <3>1, <3>2, <1>1
    <3>4. QED BY <2>2, <3>1, <3>3
  <2>3. QED BY <2>1, <2>2
<1>15. ASSUME NEW f \in H, NEW g \in H, NEW i \in 1..Len(D[f]), NEW j \in 1..Len(D[g]), D[f][i] = D[g][j]
       PROVE  f = g /\ i = j
  <2>1. PICK x \in 1..Len(C[f]) : C[f][x] = D[f][i] /\ x = (IF f = h THEN i + 1 ELSE i)
    BY <1>14
  <2>2. PICK y \in 1..Len(C[g]) : C[g][y] = D[g][j] /\ y = (IF g = h THEN j + 1 ELSE j)
    <3>1. \E y \in 1..Len(C[g]) : C[g][y] = D[g][j] /\ y = (IF g = h THEN j + 1 ELSE j) /\ D[g][j] # c
      BY <1>14
    <3>2. QED BY <3>1
  <2>3. f = g /\ x = y
    BY <2>1, <2>2, <1>1, <1>15
  <2>4. i \in Int /\ j \in Int
    BY <1>7
  <2>5. QED BY <2>1, <2>2, <2>3, <2>4
<1>16. Chains(D, H, ny)
  BY <1>1, <1>7, <1>10, <1>13, <1>15 DEF Chains
<1>17. ASSUME NEW x \in In(D, H) PROVE x \in In(C, H) /\ x # c
  <2>1. PICK g \in H : \E i \in 1..Len(D[g]) : x = D[g][i]
    BY DEF In, Nodes
  <2>0. PICK i \in 1..Len(D[g]) : x = D[g][i]
    BY <2>1
  <2>2. PICK y \in 1..Len(C[g]) : C[g][y] = D[g][i] /\ D[g][i] # c
    <3>1. \E y \in 1..Len(C[g]) : C[g][y] = D[g][i] /\ y = (IF g = h THEN i + 1 ELSE i) /\ D[g][i] # c
      BY <1>14
    <3>2. QED BY <3>1
  <2>3. C[g][y] \in In(C, H)
    BY <1>9
  <2>4. QED BY <2>0, <2>2, <2>3
<1>18. ASSUME NEW x \in In(C, H), x # c PROVE x \in In(D, H)
  <2>1. PICK g \in H : \E i \in 1..Len(C[g]) : x = C[g][i]
    BY DEF In, Nodes
  <2>0. PICK i \in 1..Len(C[g]) : x = C[g][i]
    BY <2>1
  <2>2. \E j \in 1..Len(D[g]) : D[g][j] = x
    <3>1. CASE g # h
      BY <3>1, <2>0, <1>7
    <3>2. CASE g = h
      <4>1. i \in 1..k /\ i # 1 /\ x = s[i]
        BY <3>2, <2>0, <1>2, <1>4, <1>8, <1>18
      <4>2. i - 1 \in 1..k - 1 /\ (i - 1) + 1 = i
        BY <4>1, <1>4
      <4>3. t[i - 1] = x
        BY <4>1, <4>2, <1>6
      <4>4. QED BY <3>2, <4>2, <4>3, <1>6, <1>7
    <3>3. QED BY <3>1, <3>2
  <2>3. QED BY <2>2 DEF In, Nodes
<1>19. c \in In(C, H) /\ \E i \in 1..Len(C[h]) : c = C[h][i]
  BY <1>1, <1>2, <1>4, <1>8, <1>9
<1>20. QED BY <1>8, <1>16, <1>17, <1>18, <1>19

\* The heads K, without elements, are added: the links are ny then, the chains D.
Grown(C, H, nx, K, ny, D) ==
    /\ K \in SUBSET Sentinel /\ K \cap H = {}
    /\ ny \in [Cell -> Node \cup {Nil}]
    /\ \A c \in K : ny[c] = Nil
    /\ \A c \in Cell : c \notin K => ny[c] = nx[c]
    /\ D \in [H \cup K -> Seq(Node)]
    /\ \A h \in H : D[h] = C[h]
    /\ \A h \in K : D[h] = <<>>

\* The elements stay what they are.
LEMMA ChainsGrow ==
    ASSUME NEW C, NEW H, NEW nx, Chains(C, H, nx), NEW K, NEW ny, NEW D, Grown(C, H, nx, K, ny, D)
    PROVE  Chains(D, H \cup K, ny) /\ In(D, H \cup K) = In(C, H)
<1>0. /\ K \in SUBSET Sentinel /\ K \cap H = {}
      /\ \A c \in Cell : c \notin K => ny[c] = nx[c]
      /\ \A c \in K : ny[c] = Nil
  BY DEF Grown
<1>1. /\ H \in SUBSET Sentinel /\ nx \in [Cell -> Node \cup {Nil}] /\ C \in [H -> Seq(Node)]
      /\ \A g \in H : Linked(nx, g, C[g])
      /\ \A f, g \in H : \A i \in 1..Len(C[f]), j \in 1..Len(C[g]) : C[f][i] = C[g][j] => f = g /\ i = j
  BY DEF Chains
<1>2. <<>> \in Seq(Node) /\ Len(<<>>) = 0
  OBVIOUS
<1>3. D \in [H \cup K -> Seq(Node)] /\ (\A h \in H : D[h] = C[h]) /\ \A h \in K : D[h] = <<>>
  BY DEF Grown
<1>4. ny \in [Cell -> Node \cup {Nil}] /\ (\A c \in K : ny[c] = Nil) /\ \A c \in Cell : c \notin K => ny[c] = nx[c]
  BY DEF Grown
<1>5. \A g \in H : \A i \in 1..Len(C[g]) : C[g][i] \in Node
  BY <1>1
<1>6. ASSUME NEW h \in K PROVE Linked(ny, h, D[h])
  <2>1. ny[h] = Nil /\ D[h] = <<>>
    BY <1>3, <1>4
  <2>2. PICK s : s = <<>>
    OBVIOUS
  <2>3. s \in Seq(Node) /\ ny[h] = (IF s = <<>> THEN Nil ELSE s[1])
        /\ \A i \in 1..Len(s) : ny[s[i]] = IF i = Len(s) THEN Nil ELSE s[i + 1]
    BY <2>1, <2>2, <1>2
  <2>4. Linked(ny, h, s)
    BY <2>3, LinkedFrom
  <2>5. QED BY <2>1, <2>2, <2>4
<1>7. ASSUME NEW h \in H PROVE Linked(ny, h, D[h])
  <2>1. Linked(nx, h, C[h]) /\ h \in Cell /\ h \notin K
    BY <1>0, <1>1 DEF Cell
  <2>2. \A i \in 1..Len(C[h]) : C[h][i] \in Cell /\ C[h][i] \notin K
    BY <1>0, <1>5, Sentinels DEF Cell
  <2>3. \A i \in 0..Len(C[h]) : i # 0 => i \in 1..Len(C[h])
    BY <1>1
  <2>4. Linked(ny, h, C[h])
    BY <2>1, <2>2, <2>3, <1>4 DEF Linked
  <2>5. QED BY <2>4, <1>3
<1>8. ASSUME NEW f \in H \cup K, NEW g \in H \cup K, NEW i \in 1..Len(D[f]), NEW j \in 1..Len(D[g]), D[f][i] = D[g][j]
      PROVE  f = g /\ i = j
  <2>1. f \in H /\ g \in H
    BY <1>2, <1>3, <1>8
  <2>2. QED BY <2>1, <1>1, <1>3, <1>8
<1>9. Chains(D, H \cup K, ny)
  BY <1>0, <1>1, <1>3, <1>4, <1>6, <1>7, <1>8 DEF Chains
<1>10. In(D, H \cup K) = In(C, H)
  <2>1. \A h \in K : Nodes(D[h]) = {}
    BY <1>2, <1>3 DEF Nodes
  <2>2. \A h \in H : Nodes(D[h]) = Nodes(C[h])
    BY <1>3
  <2>3. QED BY <2>1, <2>2 DEF In
<1>11. QED BY <1>9, <1>10

\* Heads without elements are left out.
LEMMA ChainsShrink ==
    ASSUME NEW C, NEW H, NEW nx, Chains(C, H, nx), NEW K \in SUBSET H, \A h \in H \ K : C[h] = <<>>,
           NEW D, D = [h \in K |-> C[h]]
    PROVE  Chains(D, K, nx) /\ In(D, K) = In(C, H)
<1>1. \A h \in K : D[h] = C[h]
  OBVIOUS
<1>2. Chains(D, K, nx)
  BY <1>1 DEF Chains
<1>3. \A h \in H \ K : Nodes(C[h]) = {}
  BY DEF Nodes
<1>4. \A h \in K : Nodes(D[h]) = Nodes(C[h])
  BY <1>1
<1>5. QED BY <1>2, <1>3, <1>4 DEF In

\* A sequence without repetitions has as many elements as it is long.
LEMMA Distinct ==
    ASSUME NEW s \in Seq(Node), \A i, j \in 1..Len(s) : s[i] = s[j] => i = j
    PROVE  /\ IsFiniteSet(Nodes(s)) /\ Cardinality(Nodes(s)) = Len(s) /\ Len(s) <= Cardinality(Node)
           /\ Cardinality(Node) \in Nat
<1>1. PICK k : k = Len(s) /\ k \in Nat
  OBVIOUS
<1>2. PICK D : D = 1..k
  OBVIOUS
<1>3. IsFiniteSet(D) /\ Cardinality(D) = k
  <2>1. 1 \in Int /\ k \in Int
    BY <1>1
  <2>2. IsFiniteSet(1..k) /\ Cardinality(1..k) = IF 1 > k THEN 0 ELSE k - 1 + 1
    BY ONLY <2>1, FS_Interval
  <2>3. QED BY <2>2, <1>1, <1>2
<1>4. PICK S : S = Nodes(s)
  OBVIOUS
<1>5. s \in [D -> S] /\ (\A x, y \in D : s[x] = s[y] => x = y) /\ (\A y \in S : \E x \in D : s[x] = y)
      /\ S \subseteq Node
  <2>1. s \in [1..k -> Node] /\ S = {s[i] : i \in 1..k}
    BY <1>1, <1>4 DEF Nodes
  <2>2. QED BY <2>1, <1>1, <1>2
<1>6. ExistsBijection(D, S)
  BY <1>5 DEF ExistsBijection, Bijection, Injection, Surjection, IsInjective
<1>7. IsFiniteSet(S) /\ Cardinality(S) = k
  BY ONLY <1>3, <1>6, FS_Bijection
<1>8. IsFiniteSet(Node)
  BY Parameters
<1>9. Cardinality(S) <= Cardinality(Node) /\ Cardinality(Node) \in Nat
  BY ONLY <1>5, <1>8, FS_Subset, FS_CardinalityType
<1>10. QED BY <1>1, <1>4, <1>7, <1>9

\* Chain finds the nodes behind a head.
LEMMA ChainIs ==
    ASSUME NEW h, NEW s \in Seq(Node), Linked(next, h, s), \A i, j \in 1..Len(s) : s[i] = s[j] => i = j
    PROVE  Chain(h) = s
<1>1. PICK k : k = Len(s) /\ k \in Nat /\ (s = <<>> <=> k = 0) /\ s = [i \in 1..k |-> s[i]]
  OBVIOUS
<1>2. PICK N : N = Cardinality(Node) /\ N \in Nat /\ k <= N
  BY <1>1, Distinct
<1>3. PICK nx : nx = next
  OBVIOUS
<1>4. nx[h] = (IF s = <<>> THEN Nil ELSE s[1]) /\ \A i \in 1..k : nx[s[i]] = IF i = k THEN Nil ELSE s[i + 1]
  BY <1>1, <1>3, LinkedFacts
<1>5. \A i \in 1..k : s[i] # Nil
  <2>1. \A i \in 1..k : s[i] \in Node
    BY <1>1
  <2>2. QED BY <2>1, Parameters
<1> DEFINE a == CHOOSE a : a = [i \in 0..N |-> IF i = 0 THEN nx[h] ELSE IF a[i - 1] = Nil THEN Nil ELSE nx[a[i - 1]]]
           b == [i \in 0..N |-> IF i < k THEN s[i + 1] ELSE Nil]
<1>6. b = [i \in 0..N |-> IF i = 0 THEN nx[h] ELSE IF b[i - 1] = Nil THEN Nil ELSE nx[b[i - 1]]]
  <2>1. ASSUME NEW i \in 0..N
        PROVE (IF i < k THEN s[i + 1] ELSE Nil)
              = IF i = 0 THEN nx[h] ELSE IF b[i - 1] = Nil THEN Nil ELSE nx[b[i - 1]]
    <3>1. CASE i = 0
      BY <3>1, <1>1, <1>4
    <3>2. CASE i # 0
      <4>1. i - 1 \in 0..N /\ (i - 1) + 1 = i /\ i \in Nat /\ (i - 1 < k <=> i <= k)
        BY <3>2, <1>1, <1>2
      <4>2. b[i - 1] = IF i <= k THEN s[i] ELSE Nil
        BY <4>1
      <4> HIDE DEF b
      <4>3. CASE i <= k
        <5>1. i \in 1..k
          BY <4>1, <4>3, <3>2, <1>1
        <5>2. b[i - 1] = s[i] /\ s[i] # Nil /\ nx[s[i]] = IF i = k THEN Nil ELSE s[i + 1]
          BY <5>1, <4>2, <4>3, <1>4, <1>5
        <5>3. i < k <=> i # k
          BY <5>1, <1>1
        <5>4. QED BY <5>2, <5>3, <3>2
      <4>4. CASE ~(i <= k)
        <5>1. ~(i < k)
          BY <4>4, <4>1, <1>1
        <5>2. QED BY <5>1, <4>2, <4>4, <3>2
      <4>5. QED BY <4>3, <4>4
    <3>3. QED BY <3>1, <3>2
  <2>2. QED BY <2>1
<1>7. a = [i \in 0..N |-> IF i = 0 THEN nx[h] ELSE IF a[i - 1] = Nil THEN Nil ELSE nx[a[i - 1]]]
  <2> HIDE DEF b
  <2> QED BY <1>6
<1>8. a = b
  <2> DEFINE T == {i \in Nat : i <= N => a[i] = b[i]}
  <2> HIDE DEF a, b
  <2>1. 0 \in T
    <3>1. 0 \in 0..N
      BY <1>2
    <3>2. a[0] = nx[h]
      BY <3>1, <1>7
    <3>3. b[0] = nx[h]
      BY <3>1, <1>6
    <3>4. QED BY <3>2, <3>3
  <2>2. ASSUME NEW i \in Nat, i \in T PROVE i + 1 \in T
    <3>1. SUFFICES ASSUME i + 1 <= N PROVE a[i + 1] = b[i + 1]
      OBVIOUS
    <3>2. i + 1 \in 0..N /\ i + 1 # 0 /\ (i + 1) - 1 = i /\ a[i] = b[i]
      BY <3>1, <2>2, <1>2
    <3>3. a[i + 1] = IF a[i] = Nil THEN Nil ELSE nx[a[i]]
      BY <3>2, <1>7
    <3>4. b[i + 1] = IF b[i] = Nil THEN Nil ELSE nx[b[i]]
      BY <3>2, <1>6
    <3>5. QED BY <3>2, <3>3, <3>4
  <2>3. Nat \subseteq T
    <3> HIDE DEF T
    <3> QED BY <2>1, <2>2, SetInduction
  <2>4. \A i \in 0..N : a[i] = b[i]
    BY <2>3, <1>2
  <2>5. a = [i \in 0..N |-> a[i]] /\ b = [i \in 0..N |-> b[i]]
    BY <1>6, <1>7
  <2>6. QED BY <2>4, <2>5
<1>9. Chain(h) = [i \in 1..Cardinality({i \in 0..N : a[i] # Nil}) |-> a[i - 1]]
  BY <1>2, <1>3 DEF Chain
<1>10. \A i \in 0..N : b[i] # Nil <=> i < k
  <2>1. ASSUME NEW i \in 0..N, i < k PROVE s[i + 1] # Nil
    <3>1. i + 1 \in 1..k
      BY <2>1, <1>1
    <3>2. QED BY <3>1, <1>5
  <2>2. QED BY <2>1
<1>11. PICK B : B = {i \in 0..N : b[i] # Nil}
  OBVIOUS
<1>12. B = 0..k - 1
  <2> HIDE DEF b
  <2> QED BY <1>1, <1>2, <1>10, <1>11
<1>13. Cardinality(B) = k
  <2>1. 0 \in Int /\ k - 1 \in Int
    BY <1>1
  <2>2. Cardinality(0..k - 1) = IF 0 > k - 1 THEN 0 ELSE (k - 1) - 0 + 1
    BY ONLY <2>1, FS_Interval
  <2>3. QED BY <2>2, <1>1, <1>12
<1>14. \A i \in 1..k : b[i - 1] = s[i]
  <2>1. ASSUME NEW i \in 1..k PROVE b[i - 1] = s[i]
    <3>1. i - 1 \in 0..N /\ i - 1 < k /\ (i - 1) + 1 = i
      BY <1>1, <1>2
    <3>2. QED BY <3>1
  <2>2. QED BY <2>1
<1>15. Chain(h) = [i \in 1..k |-> b[i - 1]]
  <2> HIDE DEF a, b
  <2> QED BY <1>8, <1>9, <1>11, <1>13
<1>16. [i \in 1..k |-> b[i - 1]] = [i \in 1..k |-> s[i]]
  <2> HIDE DEF b
  <2> QED BY <1>14
<1>17. QED BY ONLY <1>1, <1>15, <1>16

\* The elements of finitely many naturals are bounded.
LEMMA Greatest ==
    ASSUME NEW S, S \subseteq Nat, IsFiniteSet(S), S # {}
    PROVE  \E m \in S : \A x \in S : x <= m
<1> DEFINE T == {c \in Nat : \A R \in SUBSET Nat : IsFiniteSet(R) /\ R # {} /\ Cardinality(R) = c
                                => \E m \in R : \A x \in R : x <= m}
<1>1. 0 \in T
  <2>1. ASSUME NEW R \in SUBSET Nat, IsFiniteSet(R), Cardinality(R) = 0 PROVE R = {}
    BY ONLY <2>1, FS_EmptySet
  <2>2. QED BY <2>1
<1>2. ASSUME NEW c \in Nat, c \in T PROVE c + 1 \in T
  <2>1. SUFFICES ASSUME NEW R \in SUBSET Nat, IsFiniteSet(R), R # {}, Cardinality(R) = c + 1
                 PROVE  \E m \in R : \A x \in R : x <= m
    OBVIOUS
  <2>2. PICK r \in R : TRUE
    BY <2>1
  <2>3. PICK Q : Q = R \ {r}
    OBVIOUS
  <2>4. IsFiniteSet(Q) /\ Cardinality(Q) = c
    <3>1. IsFiniteSet(R \ {r}) /\ Cardinality(R \ {r}) = Cardinality(R) - 1
      BY ONLY <2>1, FS_RemoveElement, r \in R
    <3>2. QED BY <3>1, <2>1, <2>3
  <2>5. CASE Q = {}
    BY <2>5, <2>3
  <2>6. CASE Q # {}
    <3>1. PICK m \in Q : \A x \in Q : x <= m
      BY <2>3, <2>4, <2>6, <1>2
    <3>2. CASE r <= m
      BY <3>1, <3>2, <2>3
    <3>3. CASE ~(r <= m)
      BY <3>1, <3>3, <2>3
    <3>4. QED BY <3>2, <3>3
  <2>7. QED BY <2>5, <2>6
<1>3. Nat \subseteq T
  <2> HIDE DEF T
  <2> QED BY <1>1, <1>2, SetInduction
<1>4. Cardinality(S) \in Nat
  BY FS_CardinalityType
<1>5. QED BY <1>3, <1>4

\* MaxSlots is the largest number of buckets there can be.
LEMMA Largest ==
    /\ MaxSlots \in Nat
    /\ \A s \in Buckets : s <= MaxSlots
    /\ \A i \in 1..Len(Primes) : Primes[i] <= MaxSlots /\ Primes[i] \in Nat \ {0}
<1>1. PICK S : S = Buckets \cup {Primes[k] : k \in 1..Len(Primes)}
  OBVIOUS
<1>2. PICK I : I = 1..Len(Primes)
  OBVIOUS
<1>3. Len(Primes) \in Nat \ {0} /\ \A i \in I : Primes[i] \in Nat \ {0}
  BY <1>2, Parameters
<1>4. IsFiniteSet(I)
  <2>1. 1 \in Int /\ Len(Primes) \in Int
    BY <1>3
  <2>2. IsFiniteSet(1..Len(Primes))
    BY ONLY <2>1, FS_Interval
  <2>3. QED BY <2>2, <1>2
<1>5. PICK P : P = {Primes[i] : i \in I}
  OBVIOUS
<1>6. IsFiniteSet(P)
  <2>1. PICK f : f = [i \in I |-> Primes[i]]
    OBVIOUS
  <2>2. f \in Surjection(I, P)
    BY <2>1, <1>5 DEF Surjection
  <2>3. QED BY ONLY <2>2, <1>4, FS_Surjection
<1>7. S = Buckets \cup P /\ IsFiniteSet(Buckets)
  BY <1>1, <1>2, <1>5, Parameters
<1>8. IsFiniteSet(S)
  BY ONLY <1>6, <1>7, FS_Union
<1>9. S \subseteq Nat /\ S # {}
  <2>1. 1 \in I
    BY <1>2, <1>3
  <2>2. QED BY <2>1, <1>3, <1>5, <1>7, Parameters
<1>10. PICK m \in S : \A x \in S : x <= m
  BY <1>8, <1>9, Greatest
<1>11. MaxSlots = CHOOSE x \in S : \A y \in S : y <= x
  BY <1>1 DEF MaxSlots
<1>12. MaxSlots \in S /\ \A x \in S : x <= MaxSlots
  BY <1>10, <1>11
<1>13. QED BY <1>2, <1>3, <1>5, <1>7, <1>9, <1>12

------------------------------------------------------------------------------
(* The invariant.                                                          *)

\* The heads of a table of sz buckets, and of od of the table before.
Heads(g, sz, od) == {<<g, s>> : s \in 0..sz - 1} \cup {<<1 - g, s>> : s \in 0..od - 1}

\* The table with the chains C: its elements, all in the bucket of their key but
\* for those still in the old table, of which sl buckets are empty, and but for w.
Holds(C, nx, vl, g, sz, od, sl, w, m) ==
    /\ Chains(C, Heads(g, sz, od), nx)
    /\ {c \in Node : vl[c] # Nil} \ {w} = In(C, Heads(g, sz, od))
    /\ {h \in Sentinel : vl[h] # Nil} = Heads(g, sz, od)
    /\ \A s \in 0..sz - 1 : \A i \in 1..Len(C[<<g, s>>]) : vl[C[<<g, s>>][i]] % sz = s
    /\ \A c, d \in In(C, Heads(g, sz, od)) : vl[c] = vl[d] => c = d
    /\ \A s \in 0..od - 1 : s < sl => C[<<1 - g, s>>] = <<>>
    /\ m = Cardinality(In(C, Heads(g, sz, od)))

\* The types, of the locals of rehash and insertUnique as well.
Types ==
    /\ next \in [Cell -> Node \cup {Nil}] /\ val \in [Cell -> Key \cup {Nil}]
    /\ num \in 0..Cardinality(Node) /\ gen \in {0, 1} /\ size \in 0..MaxSlots /\ cleared \in BOOLEAN
    /\ arg \in Key \cup {Nil} /\ hint \in Nat /\ first \in Nat /\ n \in Int /\ half \in Nat
    /\ old \in 0..MaxSlots /\ slot \in 0..old /\ new \in Node \cup {Nil}

\* What each point of insertUnique and rehash knows: a table before exists only
\* while its elements move, a call that inserts has room once rehash returns, and
\* the node that is not linked yet has the key of the call.
Control ==
    /\ at \in {"idle", "rehash", "bound", "move", "insert"}
    /\ at # "move" => old = 0
    /\ at = "idle" => arg = Nil
    /\ at \in {"move", "insert"} => size > 0
    /\ at = "insert" => arg # Nil
    /\ at = "rehash" /\ arg # Nil => hint > 0
    /\ new # Nil => at = "insert" /\ val[new] = arg
    /\ cleared => at = "idle" /\ \A c \in Cell : val[c] = Nil

\* The inductive invariant.
HInv ==
    /\ Types /\ Control
    /\ ~cleared => \E C : Holds(C, next, val, gen, size, old, slot, new, num)

\* What the chains of the state are.
LEMMA ElementsIs ==
    ASSUME NEW C, NEW H, Chains(C, H, next), NEW h \in H
    PROVE  C[h] \in Seq(Node) /\ Chain(h) = C[h] /\ ElementsIn(h) = Nodes(C[h])
<1>1. C[h] \in Seq(Node) /\ Linked(next, h, C[h]) /\ \A i, j \in 1..Len(C[h]) : C[h][i] = C[h][j] => i = j
  BY DEF Chains
<1>2. Chain(h) = C[h]
  BY <1>1, ChainIs
<1>3. QED BY <1>1, <1>2 DEF ElementsIn, Nodes

\* Elements are nodes, and finitely many.
LEMMA InFacts ==
    ASSUME NEW C, NEW H, NEW nx, Chains(C, H, nx)
    PROVE  /\ In(C, H) \subseteq Node /\ IsFiniteSet(In(C, H))
           /\ Cardinality(In(C, H)) \in 0..Cardinality(Node) /\ Cardinality(Node) \in Nat
<1>1. In(C, H) \subseteq Node
  BY DEF Chains, In, Nodes
<1>2. IsFiniteSet(Node)
  BY Parameters
<1>3. QED BY ONLY <1>1, <1>2, FS_Subset, FS_CardinalityType

\* Heads are cells.
LEMMA HeadsFacts ==
    ASSUME NEW g \in {0, 1}, NEW sz \in 0..MaxSlots, NEW od \in 0..MaxSlots
    PROVE  /\ Heads(g, sz, od) \in SUBSET Sentinel
           /\ \A s \in 0..sz - 1 : <<g, s>> \in Heads(g, sz, od)
           /\ \A s \in 0..od - 1 : <<1 - g, s>> \in Heads(g, sz, od)
           /\ MaxSlots \in Nat /\ 1 - g \in {0, 1} /\ 1 - g # g /\ 1 - (1 - g) = g
<1>1. MaxSlots \in Nat
  BY Largest
<1>2. 1 - g \in {0, 1} /\ 1 - g # g /\ 1 - (1 - g) = g
  OBVIOUS
<1>3. \A s \in 0..sz - 1 : s \in 0..MaxSlots - 1
  BY <1>1
<1>4. \A s \in 0..od - 1 : s \in 0..MaxSlots - 1
  BY <1>1
<1>5. QED BY <1>1, <1>2, <1>3, <1>4 DEF Heads, Sentinel

\* The state's heads.
LEMMA HeadsOf ==
    Slots \cup Old = Heads(gen, size, old)
BY DEF Slots, Old, Heads

\* No element before the first call.
LEMMA InitHInv == Init => HInv
<1>1. SUFFICES ASSUME Init PROVE HInv
  OBVIOUS
<1>2. MaxSlots \in Nat /\ size \in 0..MaxSlots
  BY <1>1, Largest, Parameters DEF Init
<1>3. PICK H : H = Heads(gen, size, old)
  OBVIOUS
<1>4. H \in SUBSET Sentinel /\ H = Slots /\ gen \in {0, 1}
  <2>1. gen \in {0, 1} /\ old = 0 /\ 0 \in 0..MaxSlots
    BY <1>1, <1>2 DEF Init
  <2>2. H = Slots
    BY <1>3, <2>1 DEF Heads, Slots
  <2>3. QED BY <1>2, <1>3, <2>1, <2>2, HeadsFacts
<1>5. /\ next = [c \in Cell |-> Nil] /\ val = [c \in Cell |-> IF c \in H THEN Blank ELSE Nil]
      /\ num = 0 /\ cleared = FALSE /\ at = "idle" /\ arg = Nil /\ hint = 0 /\ first = 0 /\ n = 0
      /\ half = 0 /\ old = 0 /\ slot = 0 /\ new = Nil
  BY <1>1, <1>4 DEF Init
<1>6. PICK C : C = [h \in H |-> <<>>]
  OBVIOUS
<1>7. \A h \in H : C[h] = <<>> /\ Len(C[h]) = 0 /\ Nodes(C[h]) = {}
  BY <1>6 DEF Nodes
<1>8. In(C, H) = {}
  BY <1>7 DEF In
<1>9. Chains(C, H, next)
  <2>1. ASSUME NEW h \in H PROVE Linked(next, h, C[h])
    <3>1. next[h] = Nil
      BY <1>4, <1>5 DEF Cell
    <3>2. PICK s : s = C[h]
      OBVIOUS
    <3>3. s \in Seq(Node) /\ next[h] = (IF s = <<>> THEN Nil ELSE s[1])
          /\ \A i \in 1..Len(s) : next[s[i]] = IF i = Len(s) THEN Nil ELSE s[i + 1]
      <4>0. s = <<>>
        BY <1>6, <3>2
      <4>1. s = <<>> /\ Len(s) = 0 /\ s \in Seq(Node)
        BY <4>0
      <4>2. \A i \in 1..Len(s) : FALSE
        BY <4>1
      <4>3. QED BY <3>1, <4>1, <4>2
    <3>4. QED BY <3>2, <3>3, LinkedFrom
  <2>2. C \in [H -> Seq(Node)]
    BY <1>6
  <2>3. next \in [Cell -> Node \cup {Nil}]
    BY <1>5
  <2>4. QED BY <1>4, <1>7, <2>1, <2>2, <2>3 DEF Chains
<1>10. Cardinality({}) = 0 /\ Cardinality(Node) \in Nat
  <2>1. IsFiniteSet(Node)
    BY Parameters
  <2>2. QED BY ONLY <2>1, FS_EmptySet, FS_CardinalityType
<1>11. {c \in Node : val[c] # Nil} = {} /\ {h \in Sentinel : val[h] # Nil} = H
  <2>1. Blank # Nil
    BY Parameters
  <2>2. QED BY <1>4, <1>5, <2>1, Sentinels DEF Cell
<1>12. Holds(C, next, val, gen, size, old, slot, new, num)
  <2>1. \A s \in 0..size - 1 : <<gen, s>> \in H
    BY <1>4 DEF Slots
  <2>2. \A s \in 0..old - 1 : FALSE
    BY <1>5
  <2>3. \A s \in 0..size - 1 : \A i \in 1..Len(C[<<gen, s>>]) : FALSE
    BY <1>7, <2>1
  <2>4. QED BY <1>3, <1>5, <1>8, <1>9, <1>10, <1>11, <2>2, <2>3 DEF Holds
<1>13. Types
  <2>1. val \in [Cell -> Key \cup {Nil}] /\ next \in [Cell -> Node \cup {Nil}]
    BY <1>5, Parameters
  <2>2. cleared \in BOOLEAN
    BY <1>5
  <2>3. num \in 0..Cardinality(Node) /\ slot \in 0..old /\ old \in 0..MaxSlots
    BY <1>2, <1>5, <1>10
  <2>4. QED BY <1>2, <1>4, <1>5, <2>1, <2>2, <2>3 DEF Types
<1>14. Control
  BY <1>5 DEF Control
<1>15. QED BY <1>12, <1>13, <1>14 DEF HInv

\* The steps that leave chains and table alone.
LEMMA RehashingStep ==
    ASSUME HInv, Rehashing
    PROVE  HInv'
<1>1. at = "rehash" /\ new = Nil /\ ~cleared /\ UNCHANGED <<next, val, num, gen, size, cleared, old, slot>>
  BY DEF Rehashing, AfterRehash, Return, Go, chains, table, HInv, Control
<1>2. CASE hint <= size /\ AfterRehash /\ arg = Nil
  <2>1. at' = "idle" /\ arg' = Nil /\ hint' = 0 /\ new' = Nil /\ UNCHANGED <<first, n, half>>
    BY <1>2 DEF AfterRehash, Return
  <2>2. QED BY <1>1, <2>1 DEF HInv, Types, Control
<1>3. CASE hint <= size /\ AfterRehash /\ arg # Nil
  <2>1. at' = "insert" /\ UNCHANGED <<arg, new, hint, first, n, half>>
    BY <1>3 DEF AfterRehash, Go
  <2>2. size > 0
    BY <1>1, <1>3 DEF HInv, Types, Control
  <2>3. QED BY <1>1, <1>3, <2>1, <2>2 DEF HInv, Types, Control
<1>4. CASE hint > size /\ first' = 0 /\ n' = Len(Primes) /\ half' = Len(Primes) \div 2
           /\ Go("bound") /\ UNCHANGED <<hint, old, slot>>
  <2>1. at' = "bound" /\ UNCHANGED <<arg, new, hint>>
    BY <1>4 DEF Go
  <2>2. Len(Primes) \in Nat /\ Len(Primes) \div 2 \in Nat
    BY Parameters
  <2>3. QED BY <1>1, <1>4, <2>1, <2>2 DEF HInv, Types, Control
<1>5. QED BY <1>2, <1>3, <1>4 DEF Rehashing

\* An iteration of lower_bound.
LEMMA BoundingStep ==
    ASSUME HInv, Bounding
    PROVE  HInv'
<1>1. at = "bound" /\ UNCHANGED <<next, val, num, gen, size, cleared, at, arg, hint, half, old, slot, new>>
  BY DEF Bounding, chains, table
<1>2. first' \in Nat /\ n' \in Int
  <2>1. first \in Nat /\ n \in Int /\ half \in Nat
    BY DEF HInv, Types
  <2>2. (first' = first + half + 1 /\ n' = n - (half + 1)) \/ (n' = half /\ first' = first)
    BY DEF Bounding
  <2>3. QED BY <2>1, <2>2
<1>3. QED BY <1>1, <1>2 DEF HInv, Types, Control

\* The calls.
LEMMA CallStep ==
    ASSUME HInv, (\E k \in Key : CallInsert(k)) \/ (\E h \in 0..MaxHint : CallRehash(h))
    PROVE  HInv'
<1>1. CASE \E k \in Key : CallInsert(k)
  <2>1. PICK k \in Key : CallInsert(k)
    BY <1>1
  <2>2. at = "idle" /\ ~cleared /\ at' = "rehash" /\ arg' = k /\ hint' = num + 1
        /\ UNCHANGED <<next, val, num, gen, size, cleared, first, n, half, old, slot, new>>
    BY <2>1 DEF CallInsert, chains, table
  <2>3. num \in Nat
    BY DEF HInv, Types
  <2>4. QED BY <2>2, <2>3 DEF HInv, Types, Control
<1>2. CASE \E h \in 0..MaxHint : CallRehash(h)
  <2>1. PICK h \in 0..MaxHint : CallRehash(h)
    BY <1>2
  <2>2. at = "idle" /\ ~cleared /\ at' = "rehash" /\ hint' = h
        /\ UNCHANGED <<next, val, num, gen, size, cleared, arg, first, n, half, old, slot, new>>
    BY <2>1 DEF CallRehash, chains, table
  <2>3. QED BY <2>2, Parameters DEF HInv, Types, Control
<1>3. QED BY <1>1, <1>2

------------------------------------------------------------------------------
(* The steps that change chains or the table.                              *)

\* What the invariant says of a table that is not cleared.
LEMMA Unfold ==
    ASSUME HInv, ~cleared
    PROVE  \E C : /\ Holds(C, next, val, gen, size, old, slot, new, num)
                  /\ Chains(C, Slots \cup Old, next) /\ Slots \cup Old = Heads(gen, size, old)
                  /\ In(C, Slots \cup Old) \subseteq Node
BY HeadsOf, InFacts DEF HInv, Holds

\* The count of elements of chains is a number of nodes.
LEMMA CountFacts ==
    ASSUME NEW C, NEW nx, NEW vl, NEW g, NEW sz, NEW od, NEW sl, NEW w, NEW m,
           Holds(C, nx, vl, g, sz, od, sl, w, m)
    PROVE  m \in 0..Cardinality(Node)
BY InFacts DEF Holds

\* The new table has no elements yet.
LEMMA GrowingStep ==
    ASSUME HInv, Growing
    PROVE  HInv'
<1>1. /\ at = "bound" /\ ~cleared /\ new = Nil /\ old = 0 /\ slot = 0
      /\ old' = size /\ slot' = 0 /\ gen' = 1 - gen
      /\ size' = (IF first >= Len(Primes) THEN Primes[Len(Primes)] ELSE Primes[first + 1])
      /\ first' = 0 /\ n' = 0 /\ half' = 0 /\ at' = "move"
      /\ UNCHANGED <<arg, new, num, cleared, hint>>
  BY DEF Growing, Go, HInv, Types, Control
<1>2. PICK g, sz, tz, nx, vl : g = gen /\ sz = size /\ tz = size' /\ nx = next /\ vl = val
  OBVIOUS
<1>3. g \in {0, 1} /\ sz \in 0..MaxSlots /\ nx \in [Cell -> Node \cup {Nil}] /\ vl \in [Cell -> Key \cup {Nil}]
  BY <1>2 DEF HInv, Types
<1>4. tz \in 1..MaxSlots /\ MaxSlots \in Nat
  <2>1. Len(Primes) \in Nat \ {0} /\ first \in Nat
    BY Parameters DEF HInv, Types
  <2>2. PICK i \in 1..Len(Primes) : size' = Primes[i]
    <3>1. CASE first >= Len(Primes)
      BY <3>1, <2>1, <1>1
    <3>2. CASE ~(first >= Len(Primes))
      BY <3>2, <2>1, <1>1
    <3>3. QED BY <3>1, <3>2
  <2>3. Primes[i] <= MaxSlots /\ Primes[i] \in Nat \ {0} /\ MaxSlots \in Nat
    BY Largest
  <2>4. QED BY <2>2, <2>3, <1>2
<1>5. PICK H, K : H = Heads(g, sz, 0) /\ K = {<<1 - g, s>> : s \in 0..tz - 1}
  OBVIOUS
<1>6. H = {<<g, s>> : s \in 0..sz - 1} /\ Heads(1 - g, tz, sz) = H \cup K /\ 1 - g # g /\ H \cap K = {}
  <2>1. 1 - g # g /\ 1 - (1 - g) = g
    BY <1>3
  <2>2. H = {<<g, s>> : s \in 0..sz - 1}
    BY <1>5 DEF Heads
  <2>3. QED BY <2>1, <2>2, <1>5 DEF Heads
<1>7. H \in SUBSET Sentinel /\ K \in SUBSET Sentinel
  <2>1. Heads(1 - g, tz, sz) \in SUBSET Sentinel
    <3>1. 1 - g \in {0, 1} /\ tz \in 0..MaxSlots
      BY <1>3, <1>4
    <3>2. QED BY <3>1, <1>3, HeadsFacts
  <2>2. QED BY <2>1, <1>6
<1>8. PICK C : Holds(C, nx, vl, g, sz, 0, 0, Nil, num)
  BY <1>1, <1>2 DEF HInv
<1>9. PICK ny, vm : ny = next' /\ vm = val'
  OBVIOUS
<1>10. /\ ny = [c \in Cell |-> IF c \in K THEN Nil ELSE nx[c]]
       /\ vm = [c \in Cell |-> IF c \in K THEN Blank ELSE vl[c]]
  <2>1. Slots' = K
    BY <1>1, <1>2, <1>5 DEF Slots
  <2>2. QED BY <2>1, <1>2, <1>9 DEF Growing
<1>11. PICK D : D = [h \in H \cup K |-> IF h \in H THEN C[h] ELSE <<>>]
  OBVIOUS
<1>12. Chains(D, H \cup K, ny) /\ In(D, H \cup K) = In(C, H)
  <2>1. Chains(C, H, nx) /\ K \cap H = {}
    BY <1>5, <1>6, <1>8 DEF Holds
  <2>2. ny \in [Cell -> Node \cup {Nil}] /\ (\A c \in K : ny[c] = Nil)
        /\ \A c \in Cell : c \notin K => ny[c] = nx[c]
    BY <1>3, <1>7, <1>10 DEF Cell
  <2>4. D \in [H \cup K -> Seq(Node)] /\ (\A h \in H : D[h] = C[h]) /\ \A h \in K : D[h] = <<>>
    <3>1. C \in [H -> Seq(Node)] /\ <<>> \in Seq(Node)
      BY <2>1 DEF Chains
    <3>2. QED BY <3>1, <2>1, <1>11
  <2>5. Grown(C, H, nx, K, ny, D)
    BY <2>1, <2>2, <2>4, <1>7 DEF Grown
  <2>3. QED BY ONLY <2>1, <2>5, ChainsGrow
<1>13. In(C, H) \subseteq Node /\ ny \in [Cell -> Node \cup {Nil}] /\ vm \in [Cell -> Key \cup {Nil}]
  <2>1. Chains(C, H, nx)
    BY <1>5, <1>8 DEF Holds
  <2>2. QED BY <2>1, <1>3, <1>10, <1>12, InFacts, Parameters DEF Chains
<1>14. \A c \in Node : vm[c] = vl[c]
  BY <1>7, <1>10, Sentinels DEF Cell
<1>15. {h \in Sentinel : vm[h] # Nil} = H \cup K
  <2>1. Blank # Nil /\ {h \in Sentinel : vl[h] # Nil} = H
    BY <1>5, <1>8, Parameters DEF Holds
  <2>2. QED BY <2>1, <1>6, <1>7, <1>10 DEF Cell
<1>16. Holds(D, ny, vm, 1 - g, tz, sz, 0, Nil, num)
  <2>1. {c \in Node : vm[c] # Nil} \ {Nil} = In(D, H \cup K)
    BY <1>5, <1>8, <1>12, <1>14 DEF Holds
  <2>2. \A s \in 0..tz - 1 : D[<<1 - g, s>>] = <<>>
    BY <1>5, <1>6, <1>11
  <2>3. \A s \in 0..tz - 1 : \A i \in 1..Len(D[<<1 - g, s>>]) : FALSE
    BY <2>2
  <2>4. \A c, d \in In(D, H \cup K) : vm[c] = vm[d] => c = d
    BY <1>5, <1>8, <1>12, <1>13, <1>14 DEF Holds
  <2>5. num = Cardinality(In(D, H \cup K))
    BY <1>5, <1>8, <1>12 DEF Holds
  <2>6. \A s \in 0..sz - 1 : ~(s < 0)
    BY <1>3
  <2>7. QED BY <2>1, <2>3, <2>4, <2>5, <2>6, <1>6, <1>12, <1>15 DEF Holds
<1>17. Types'
  BY <1>1, <1>2, <1>3, <1>4, <1>9, <1>13 DEF HInv, Types
<1>18. Control'
  BY <1>1, <1>2, <1>4 DEF HInv, Control
<1>19. QED BY <1>1, <1>2, <1>9, <1>16, <1>17, <1>18 DEF HInv

\* All elements of the old table have been moved.
LEMMA ReclaimingStep ==
    ASSUME HInv, Reclaiming
    PROVE  HInv'
<1>1. /\ at = "move" /\ ~cleared /\ new = Nil /\ slot = old /\ size > 0
      /\ val' = [c \in Cell |-> IF c \in Old THEN Nil ELSE val[c]]
      /\ old' = 0 /\ slot' = 0
      /\ UNCHANGED <<next, num, gen, size, cleared, first, n, half>>
  BY DEF Reclaiming, table, HInv, Control
<1>2. new' = Nil /\ hint' \in Nat /\ at' \in {"idle", "insert"} /\ arg' = arg
      /\ (arg = Nil <=> at' = "idle")
  <2>1. hint \in Nat
    BY DEF HInv, Types
  <2>2. CASE arg = Nil
    <3>1. Return
      BY <2>2 DEF Reclaiming
    <3>2. QED BY <2>2, <3>1 DEF Return
  <2>3. CASE arg # Nil
    <3>1. Go("insert") /\ hint' = hint
      BY <2>3 DEF Reclaiming
    <3>2. QED BY <1>1, <2>1, <2>3, <3>1 DEF Go
  <2>4. QED BY <2>2, <2>3
<1>3. PICK g, sz, od, nx, vl : g = gen /\ sz = size /\ od = old /\ nx = next /\ vl = val
  OBVIOUS
<1>4. g \in {0, 1} /\ sz \in 0..MaxSlots /\ od \in 0..MaxSlots /\ nx \in [Cell -> Node \cup {Nil}]
      /\ vl \in [Cell -> Key \cup {Nil}] /\ MaxSlots \in Nat
  BY <1>3, Largest DEF HInv, Types
<1>5. PICK C : Holds(C, nx, vl, g, sz, od, od, Nil, num)
  BY <1>1, <1>3 DEF HInv
<1>6. PICK H, K : H = Heads(g, sz, od) /\ K = Heads(g, sz, 0)
  OBVIOUS
<1>7. /\ H \in SUBSET Sentinel /\ K = {<<g, s>> : s \in 0..sz - 1} /\ H = K \cup Old
      /\ K \cap Old = {} /\ Old = {<<1 - g, s>> : s \in 0..od - 1}
  <2>1. 1 - g # g
    BY <1>4
  <2>2. Old = {<<1 - g, s>> : s \in 0..od - 1}
    BY <1>3 DEF Old
  <2>3. K = {<<g, s>> : s \in 0..sz - 1} /\ H = K \cup Old
    BY <1>6, <2>2 DEF Heads
  <2>4. QED BY <1>4, <1>6, <2>1, <2>2, <2>3, HeadsFacts
<1>8. PICK D : D = [h \in K |-> C[h]]
  OBVIOUS
<1>9. Chains(D, K, nx) /\ In(D, K) = In(C, H)
  <2>1. \A h \in H \ K : C[h] = <<>>
    <3>1. \A s \in 0..od - 1 : s < od => C[<<1 - g, s>>] = <<>>
      BY <1>5 DEF Holds
    <3>2. \A s \in 0..od - 1 : s < od
      BY <1>4
    <3>3. QED BY <3>1, <3>2, <1>7
  <2>2. Chains(C, H, nx) /\ K \in SUBSET H
    BY <1>5, <1>6, <1>7 DEF Holds
  <2>3. QED BY <2>1, <2>2, <1>8, ChainsShrink
<1>10. PICK vm : vm = val'
  OBVIOUS
<1>11. vm \in [Cell -> Key \cup {Nil}] /\ (\A c \in Node : vm[c] = vl[c]) /\ {h \in Sentinel : vm[h] # Nil} = K
  <2>1. vm = [c \in Cell |-> IF c \in Old THEN Nil ELSE vl[c]]
    BY <1>1, <1>3, <1>10
  <2>2. {h \in Sentinel : vl[h] # Nil} = H
    BY <1>5, <1>6 DEF Holds
  <2>3. QED BY <2>1, <2>2, <1>4, <1>7, Sentinels DEF Cell
<1>12. In(C, H) \subseteq Node
  BY <1>5, <1>6, InFacts DEF Holds
<1>13. Holds(D, nx, vm, g, sz, 0, 0, Nil, num)
  <2>1. {c \in Node : vm[c] # Nil} \ {Nil} = In(D, K)
    BY <1>5, <1>6, <1>9, <1>11 DEF Holds
  <2>2. \A s \in 0..sz - 1 : \A i \in 1..Len(D[<<g, s>>]) : vm[D[<<g, s>>][i]] % sz = s
    <3>1. ASSUME NEW s \in 0..sz - 1, NEW i \in 1..Len(D[<<g, s>>]) PROVE vm[D[<<g, s>>][i]] % sz = s
      <4>1. <<g, s>> \in K /\ D[<<g, s>>] = C[<<g, s>>]
        BY <1>7, <1>8
      <4>2. vl[C[<<g, s>>][i]] % sz = s
        BY <3>1, <4>1, <1>5 DEF Holds
      <4>3. D[<<g, s>>][i] \in Node
        BY <3>1, <4>1, <1>9 DEF Chains
      <4>4. QED BY <4>1, <4>2, <4>3, <1>11
    <3>2. QED BY <3>1
  <2>3. \A c, d \in In(D, K) : vm[c] = vm[d] => c = d
    BY <1>5, <1>6, <1>9, <1>11, <1>12 DEF Holds
  <2>4. num = Cardinality(In(D, K))
    BY <1>5, <1>6, <1>9 DEF Holds
  <2>5. \A s \in 0..0 - 1 : FALSE
    OBVIOUS
  <2>6. QED BY <2>1, <2>2, <2>3, <2>4, <2>5, <1>6, <1>9, <1>11 DEF Holds
<1>14. Types'
  BY <1>1, <1>2, <1>4, <1>10, <1>11 DEF HInv, Types
<1>15. Control'
  BY <1>1, <1>2 DEF HInv, Control
<1>16. QED BY <1>1, <1>2, <1>3, <1>10, <1>13, <1>14, <1>15 DEF HInv

\* The first node of an old bucket is moved, or there is none.
LEMMA MovingStep ==
    ASSUME HInv, Moving
    PROVE  HInv'
<1>1. /\ at = "move" /\ ~cleared /\ new = Nil /\ slot < old /\ size > 0
      /\ UNCHANGED <<val, num, gen, size, cleared, at, arg, hint, first, n, half, old, new>>
  BY DEF Moving, table, HInv, Control
<1>2. PICK g, sz, od, sl : g = gen /\ sz = size /\ od = old /\ sl = slot
  OBVIOUS
<1>3. PICK nx, vl : nx = next /\ vl = val
  OBVIOUS
<1>4. /\ g \in {0, 1} /\ sz \in 1..MaxSlots /\ od \in 0..MaxSlots /\ sl \in 0..od - 1 /\ MaxSlots \in Nat
      /\ nx \in [Cell -> Node \cup {Nil}] /\ vl \in [Cell -> Key \cup {Nil}]
  BY <1>1, <1>2, <1>3, Largest DEF HInv, Types
<1>5. PICK C : Holds(C, nx, vl, g, sz, od, sl, Nil, num)
  BY <1>1, <1>2, <1>3 DEF HInv
<1>6. PICK H, head, real : H = Heads(g, sz, od) /\ head = <<1 - g, sl>> /\ real = nx[head]
  OBVIOUS
<1>7. /\ H \in SUBSET Sentinel /\ head \in H
      /\ \A s \in 0..sz - 1 : <<g, s>> \in H /\ <<g, s>> # head
      /\ \A s \in 0..od - 1 : <<1 - g, s>> \in H
  <2>1. 1 - g # g /\ sz \in 0..MaxSlots
    BY <1>4
  <2>2. QED BY <2>1, <1>4, <1>6, HeadsFacts
<1>8. Chains(C, H, nx) /\ C \in [H -> Seq(Node)] /\ In(C, H) \subseteq Node
  BY <1>5, <1>6, InFacts DEF Holds, Chains
<1>9. CASE real # Nil
  <2>1. PICK n1, C1 : n1 = [nx EXCEPT ![head] = nx[real]] /\ C1 = [C EXCEPT ![head] = Rest(C[head])]
    OBVIOUS
  <2>2. /\ Chains(C1, H, n1) /\ In(C1, H) = In(C, H) \ {real}
        /\ real \in In(C, H) /\ real \in Node
    <3>1. n1 = [nx EXCEPT ![head] = nx[real]]
      BY <2>1
    <3>2. C1 = [C EXCEPT ![head] = Rest(C[head])]
      BY <2>1
    <3>3. Popped(C, H, nx, head, real, n1, C1)
      BY <3>1, <3>2, <1>6, <1>7, <1>9 DEF Popped
    <3>4. QED BY ONLY <3>3, <1>8, ChainsPop
  <2>3. PICK s0 : s0 = vl[real] % sz
    OBVIOUS
  <2>4. s0 \in 0..sz - 1
    <3>1. vl[real] \in Nat
      <4>1. vl[real] # Nil
        BY <2>2, <1>5, <1>6 DEF Holds
      <4>2. QED BY <4>1, <2>2, <1>4, Parameters DEF Cell
    <3>2. QED BY <3>1, <2>3, <1>4
  <2>5. PICK to : to = <<g, s0>>
    OBVIOUS
  <2>6. to \in H /\ to # head /\ to \in Cell /\ head \in Cell /\ real \in Cell /\ real # to /\ real # head
    BY <2>2, <2>4, <2>5, <1>7, Sentinels DEF Cell
  <2>7. PICK n2, C2 : n2 = [n1 EXCEPT ![real] = n1[to], ![to] = real] /\ C2 = [C1 EXCEPT ![to] = Cons(real, C1[to])]
    OBVIOUS
  <2>8. Chains(C2, H, n2) /\ In(C2, H) = In(C1, H) \cup {real}
    <3>1. n2 = [n1 EXCEPT ![real] = n1[to], ![to] = real]
      BY <2>7
    <3>2. C2 = [C1 EXCEPT ![to] = Cons(real, C1[to])]
      BY <2>7
    <3>3. real \notin In(C1, H)
      BY <2>2
    <3>4. Pushed(C1, H, n1, to, real, n2, C2)
      BY <3>1, <3>2, <3>3, <2>2, <2>6 DEF Pushed
    <3>5. QED BY ONLY <3>4, <2>2, ChainsPush
  <2>9. next' = n2 /\ slot' = slot
    <3>1. next' = [nx EXCEPT ![head] = nx[real], ![real] = nx[to], ![to] = real] /\ slot' = slot
      BY <1>2, <1>3, <1>6, <1>9, <2>3, <2>5 DEF Moving, HashKey
    <3>2. n1 \in [Cell -> Node \cup {Nil}] /\ n1[to] = nx[to]
      BY <2>1, <2>2, <2>6, <1>4 DEF Chains
    <3>3. PICK f : f = [nx EXCEPT ![head] = nx[real], ![real] = nx[to], ![to] = real]
      OBVIOUS
    <3>4. ASSUME NEW d \in Cell PROVE f[d] = n2[d]
      BY <3>2, <3>3, <2>1, <2>6, <2>7, <1>4
    <3>5. f = [d \in Cell |-> f[d]] /\ n2 = [d \in Cell |-> n2[d]]
      BY <3>2, <3>3, <2>7, <1>4
    <3>6. f = n2
      BY <3>4, <3>5
    <3>7. QED BY <3>1, <3>3, <3>6
  <2>10. In(C2, H) = In(C, H)
    BY <2>2, <2>8
  <2>11. C1 \in [H -> Seq(Node)] /\ (\A h \in H : h # head => C1[h] = C[h]) /\ C1[to] = C[to]
    BY <2>1, <2>2, <2>6, <1>8 DEF Chains
  <2>12. C2[to] = Cons(real, C[to]) /\ \A h \in H : h # head /\ h # to => C2[h] = C[h]
    BY <2>6, <2>7, <2>11
  <2>13. \A s \in 0..sz - 1 : \A i \in 1..Len(C2[<<g, s>>]) : vl[C2[<<g, s>>][i]] % sz = s
    <3>1. ASSUME NEW s \in 0..sz - 1, NEW i \in 1..Len(C2[<<g, s>>]) PROVE vl[C2[<<g, s>>][i]] % sz = s
      <4>1. \A x \in 1..Len(C[<<g, s>>]) : vl[C[<<g, s>>][x]] % sz = s
        BY <1>5 DEF Holds
      <4>2. CASE s # s0
        BY <4>1, <4>2, <3>1, <2>5, <2>12, <1>7
      <4>3. CASE s = s0
        <5>1. PICK t : t = C[to]
          OBVIOUS
        <5>2. t \in Seq(Node) /\ Len(Cons(real, t)) = Len(t) + 1 /\ Cons(real, t)[1] = real
              /\ \A x \in 1..Len(t) : Cons(real, t)[x + 1] = t[x]
          <6>1. t \in Seq(Node)
            BY <5>1, <2>6, <1>8
          <6>2. QED BY <6>1, <2>2, ConsFacts
        <5>3. i \in 1..Len(t) + 1 /\ C2[<<g, s>>][i] = Cons(real, t)[i] /\ Len(t) \in Nat
          BY <4>3, <5>1, <5>2, <3>1, <2>5, <2>12
        <5>4. CASE i = 1
          BY <5>2, <5>3, <5>4, <4>3, <2>3
        <5>5. CASE i # 1
          <6>1. i - 1 \in 1..Len(t) /\ (i - 1) + 1 = i
            BY <5>3, <5>5
          <6>2. C2[<<g, s>>][i] = t[i - 1]
            BY <6>1, <5>2, <5>3
          <6>3. QED BY <6>1, <6>2, <4>1, <4>3, <5>1, <2>5
        <5>6. QED BY <5>4, <5>5
      <4>4. QED BY <4>2, <4>3
    <3>2. QED BY <3>1
  <2>14. \A s \in 0..od - 1 : s < sl => C2[<<1 - g, s>>] = <<>>
    <3>1. ASSUME NEW s \in 0..od - 1, s < sl PROVE C2[<<1 - g, s>>] = <<>>
      <4>1. C[<<1 - g, s>>] = <<>>
        BY <3>1, <1>5 DEF Holds
      <4>2. <<1 - g, s>> \in H /\ <<1 - g, s>> # head /\ <<1 - g, s>> # to
        <5>1. s # sl /\ 1 - g # g
          BY <3>1, <1>4
        <5>2. QED BY <5>1, <1>6, <1>7, <2>5
      <4>3. QED BY <4>1, <4>2, <2>12
    <3>2. QED BY <3>1
  <2>15. Holds(C2, n2, vl, g, sz, od, sl, Nil, num)
    BY <2>8, <2>10, <2>13, <2>14, <1>5, <1>6 DEF Holds
  <2>16. n2 \in [Cell -> Node \cup {Nil}]
    BY <2>8 DEF Chains
  <2>17. Types'
    BY <2>9, <2>16, <1>1 DEF HInv, Types
  <2>18. Control'
    BY <1>1 DEF HInv, Control
  <2>19. QED BY <2>9, <2>15, <2>17, <2>18, <1>1, <1>2, <1>3 DEF HInv
<1>10. CASE real = Nil
  <2>1. next' = next /\ slot' = slot + 1
    BY <1>2, <1>3, <1>6, <1>10 DEF Moving
  <2>2. C[head] = <<>>
    <3>1. C[head] \in Seq(Node) /\ Linked(nx, head, C[head])
      BY <1>7, <1>8 DEF Chains
    <3>2. QED BY <3>1, <1>6, <1>10, LinkedFacts
  <2>3. \A s \in 0..od - 1 : s < sl + 1 => C[<<1 - g, s>>] = <<>>
    <3>1. ASSUME NEW s \in 0..od - 1, s < sl + 1 PROVE C[<<1 - g, s>>] = <<>>
      <4>1. s < sl \/ s = sl
        BY <3>1, <1>4
      <4>2. QED BY <4>1, <2>2, <1>5, <1>6 DEF Holds
    <3>2. QED BY <3>1
  <2>4. Holds(C, nx, vl, g, sz, od, sl + 1, Nil, num)
    BY <2>3, <1>5 DEF Holds
  <2>5. slot' \in 0..old
    BY <2>1, <1>2, <1>4
  <2>6. Types'
    BY <2>1, <2>5, <1>1 DEF HInv, Types
  <2>7. Control'
    BY <1>1 DEF HInv, Control
  <2>8. QED BY <2>1, <2>4, <2>6, <2>7, <1>1, <1>2, <1>3 DEF HInv
<1>11. QED BY <1>9, <1>10

\* A node gets the key, or none.
LEMMA ConstructingStep ==
    ASSUME HInv, Constructing
    PROVE  HInv'
<1>1. /\ at = "insert" /\ ~cleared /\ new = Nil /\ arg \in Key /\ old = 0 /\ slot = 0
      /\ UNCHANGED <<next, num, gen, size, cleared, first, n, half, old, slot>>
  BY DEF Constructing, Return, table, chains, HInv, Types, Control
<1>2. CASE Return /\ UNCHANGED chains
  <2>1. at' = "idle" /\ arg' = Nil /\ hint' = 0 /\ new' = Nil /\ val' = val
    BY <1>2 DEF Return, chains
  <2>2. QED BY <1>1, <2>1 DEF HInv, Types, Control
<1>3. CASE \E c \in Free : new' = c /\ val' = [val EXCEPT ![c] = arg] /\ UNCHANGED <<at, arg, hint>>
  <2>1. PICK c \in Free : new' = c /\ val' = [val EXCEPT ![c] = arg] /\ UNCHANGED <<at, arg, hint>>
    BY <1>3
  <2>2. c \in Node /\ val[c] = Nil /\ val \in [Cell -> Key \cup {Nil}] /\ c \in Cell
    BY DEF Free, HInv, Types, Cell
  <2>3. PICK g, sz, nx, vl, vm : g = gen /\ sz = size /\ nx = next /\ vl = val /\ vm = val'
    OBVIOUS
  <2>4. PICK C : Holds(C, nx, vl, g, sz, 0, 0, Nil, num)
    BY <1>1, <2>3 DEF HInv
  <2>5. PICK H : H = Heads(g, sz, 0)
    OBVIOUS
  <2>6. vm \in [Cell -> Key \cup {Nil}] /\ vm[c] = arg /\ \A d \in Cell : d # c => vm[d] = vl[d]
    BY <1>1, <2>1, <2>2, <2>3
  <2>7. In(C, H) \subseteq Node /\ c \notin In(C, H)
    BY <2>2, <2>3, <2>4, <2>5, InFacts DEF Holds
  <2>8. {d \in Node : vm[d] # Nil} \ {c} = In(C, H)
    BY <2>2, <2>4, <2>5, <2>6, <2>7, Parameters DEF Holds, Cell
  <2>9. {h \in Sentinel : vm[h] # Nil} = H
    BY <2>2, <2>4, <2>5, <2>6, Sentinels DEF Holds, Cell
  <2>10. \A s \in 0..sz - 1 : \A i \in 1..Len(C[<<g, s>>]) : vm[C[<<g, s>>][i]] % sz = s
    <3>1. ASSUME NEW s \in 0..sz - 1, NEW i \in 1..Len(C[<<g, s>>]) PROVE vm[C[<<g, s>>][i]] % sz = s
      <4>1. <<g, s>> \in H
        BY <2>5 DEF Heads
      <4>2. C[<<g, s>>][i] \in In(C, H)
        BY <3>1, <4>1 DEF In, Nodes
      <4>3. vm[C[<<g, s>>][i]] = vl[C[<<g, s>>][i]]
        BY <4>2, <2>6, <2>7 DEF Cell
      <4>4. QED BY <4>3, <3>1, <2>4 DEF Holds
    <3>2. QED BY <3>1
  <2>11. \A d, e \in In(C, H) : vm[d] = vm[e] => d = e
    BY <2>4, <2>5, <2>6, <2>7 DEF Holds, Cell
  <2>12. Holds(C, nx, vm, g, sz, 0, 0, c, num)
    BY <2>4, <2>5, <2>8, <2>9, <2>10, <2>11 DEF Holds
  <2>13. Types'
    BY <1>1, <2>1, <2>2, <2>3, <2>6 DEF HInv, Types
  <2>14. Control'
    BY <1>1, <2>1, <2>2, <2>3, <2>6 DEF HInv, Control
  <2>15. QED BY <1>1, <2>1, <2>3, <2>12, <2>13, <2>14 DEF HInv
<1>4. QED BY <1>2, <1>3 DEF Constructing

\* The new node is linked, or its key is already there and it is destroyed.
LEMMA LinkingStep ==
    ASSUME HInv, Linking
    PROVE  /\ HInv'
           /\ \/ val' = [val EXCEPT ![new] = Nil] /\ \E c \in Node \ {new} : val[c] = arg
              \/ val' = val
<1>1. /\ at = "insert" /\ ~cleared /\ new \in Node /\ arg \in Key /\ arg \in Nat /\ val[new] = arg
      /\ old = 0 /\ slot = 0 /\ size > 0
      /\ at' = "idle" /\ arg' = Nil /\ hint' = 0 /\ new' = Nil
      /\ UNCHANGED <<gen, size, cleared, first, n, half, old, slot>>
  BY Parameters DEF Linking, Return, table, HInv, Types, Control
<1>2. PICK g, sz, nx, vl : g = gen /\ sz = size /\ nx = next /\ vl = val
  OBVIOUS
<1>3. PICK w, k : w = new /\ k = arg
  OBVIOUS
<1>4. PICK C : Holds(C, nx, vl, g, sz, 0, 0, w, num)
  BY <1>1, <1>2, <1>3 DEF HInv
<1>5. PICK H : H = Heads(g, sz, 0)
  OBVIOUS
<1>6. /\ g \in {0, 1} /\ sz \in 1..MaxSlots /\ MaxSlots \in Nat /\ w \in Node /\ k \in Key /\ k \in Nat
      /\ nx \in [Cell -> Node \cup {Nil}] /\ vl \in [Cell -> Key \cup {Nil}] /\ vl[w] = k /\ w \in Cell
  BY <1>1, <1>2, <1>3, Largest DEF HInv, Types, Cell
<1>7. H \in SUBSET Sentinel /\ H = {<<g, s>> : s \in 0..sz - 1}
  <2>1. H = {<<g, s>> : s \in 0..sz - 1}
    BY <1>5 DEF Heads
  <2>2. QED BY <1>5, <1>6, <2>1, HeadsFacts
<1>8. Chains(C, H, nx) /\ C \in [H -> Seq(Node)] /\ In(C, H) \subseteq Node
      /\ In(C, H) = {c \in Node : vl[c] # Nil} \ {w} /\ {h \in Sentinel : vl[h] # Nil} = H
      /\ num = Cardinality(In(C, H)) /\ (\A c, d \in In(C, H) : vl[c] = vl[d] => c = d)
      /\ \A s \in 0..sz - 1 : \A i \in 1..Len(C[<<g, s>>]) : vl[C[<<g, s>>][i]] % sz = s
  BY <1>4, <1>5, InFacts DEF Holds, Chains
<1>9. PICK s0, h : s0 = k % sz /\ h = <<g, s0>>
  OBVIOUS
<1>10. s0 \in 0..sz - 1 /\ h \in H /\ h \in Cell /\ h # w
  BY <1>6, <1>7, <1>9, Sentinels DEF Cell
<1>11. Chain(h) = C[h] /\ C[h] \in Seq(Node)
  BY <1>2, <1>8, <1>10, ElementsIs
<1>12. CASE \E i \in 1..Len(C[h]) : vl[C[h][i]] = k
  <2>1. val' = [val EXCEPT ![new] = Nil] /\ next' = next /\ num' = num
    BY <1>2, <1>3, <1>9, <1>11, <1>12 DEF Linking, HashKey
  <2>2. PICK vm : vm = val'
    OBVIOUS
  <2>3. vm \in [Cell -> Key \cup {Nil}] /\ vm[w] = Nil /\ \A c \in Cell : c # w => vm[c] = vl[c]
    BY <1>2, <1>3, <1>6, <2>1, <2>2
  <2>4. {c \in Node : vm[c] # Nil} \ {Nil} = In(C, H)
    BY <1>8, <2>3, Parameters DEF Cell
  <2>5. {x \in Sentinel : vm[x] # Nil} = H
    BY <1>6, <1>8, <2>3, Sentinels DEF Cell
  <2>6. \A s \in 0..sz - 1 : \A i \in 1..Len(C[<<g, s>>]) : vm[C[<<g, s>>][i]] % sz = s
    <3>1. ASSUME NEW s \in 0..sz - 1, NEW i \in 1..Len(C[<<g, s>>]) PROVE vm[C[<<g, s>>][i]] % sz = s
      <4>1. <<g, s>> \in H
        BY <1>7
      <4>2. C[<<g, s>>][i] \in In(C, H)
        BY <3>1, <4>1 DEF In, Nodes
      <4>3. vm[C[<<g, s>>][i]] = vl[C[<<g, s>>][i]]
        BY <4>2, <1>8, <2>3 DEF Cell
      <4>4. QED BY <4>3, <3>1, <1>8
    <3>2. QED BY <3>1
  <2>7. \A c, d \in In(C, H) : vm[c] = vm[d] => c = d
    BY <1>8, <2>3 DEF Cell
  <2>8. Holds(C, nx, vm, g, sz, 0, 0, Nil, num)
    <3>1. \A s \in 0..0 - 1 : FALSE
      OBVIOUS
    <3>2. QED BY <1>5, <1>8, <2>4, <2>5, <2>6, <2>7, <3>1 DEF Holds
  <2>9. Types'
    BY <1>1, <1>2, <2>1, <2>2, <2>3 DEF HInv, Types
  <2>10. Control'
    BY <1>1, <2>1 DEF Control
  <2>11. HInv'
    BY <1>1, <1>2, <2>1, <2>2, <2>8, <2>9, <2>10 DEF HInv
  <2>12. \E c \in Node \ {new} : val[c] = arg
    <3>1. PICK i \in 1..Len(C[h]) : vl[C[h][i]] = k
      BY <1>12
    <3>2. C[h][i] \in In(C, H)
      BY <1>10 DEF In, Nodes
    <3>3. QED BY <3>1, <3>2, <1>2, <1>3, <1>8
  <2>13. QED BY <2>1, <2>11, <2>12
<1>13. CASE ~ \E i \in 1..Len(C[h]) : vl[C[h][i]] = k
  <2>1. next' = [nx EXCEPT ![w] = nx[h], ![h] = w] /\ num' = num + 1 /\ val' = val
    BY <1>2, <1>3, <1>9, <1>11, <1>13 DEF Linking, HashKey
  <2>2. PICK ny, D : ny = [nx EXCEPT ![w] = nx[h], ![h] = w] /\ D = [C EXCEPT ![h] = Cons(w, C[h])]
    OBVIOUS
  <2>3. Chains(D, H, ny) /\ In(D, H) = In(C, H) \cup {w} /\ w \notin In(C, H)
    <3>1. w \notin In(C, H)
      BY <1>8
    <3>2. Pushed(C, H, nx, h, w, ny, D)
      BY <1>6, <1>10, <2>2, <3>1 DEF Pushed
    <3>3. Chains(D, H, ny) /\ In(D, H) = In(C, H) \cup {w}
      BY ONLY <1>8, <3>2, ChainsPush
    <3>4. QED BY <3>1, <3>3
  <2>4. PICK t : t = C[h]
    OBVIOUS
  <2>5. D[h] = Cons(w, t) /\ (\A f \in H : f # h => D[f] = C[f]) /\ Len(Cons(w, t)) = Len(t) + 1 /\ Len(t) \in Nat
        /\ Cons(w, t)[1] = w /\ \A x \in 1..Len(t) : Cons(w, t)[x + 1] = t[x]
    <3>1. t \in Seq(Node)
      BY <1>11, <2>4
    <3>2. D[h] = Cons(w, t) /\ \A f \in H : f # h => D[f] = C[f]
      <4>1. h \in H /\ C \in [H -> Seq(Node)] /\ D = [C EXCEPT ![h] = Cons(w, t)]
        BY <1>8, <1>10, <2>2, <2>4
      <4>2. PICK q : q = Cons(w, t)
        OBVIOUS
      <4>3. DOMAIN C = H /\ D = [C EXCEPT ![h] = q]
        BY ONLY <4>1, <4>2
      <4>4. D[h] = q /\ \A f \in H : f # h => D[f] = C[f]
        BY ONLY <4>1, <4>3
      <4>5. QED BY ONLY <4>2, <4>4
    <3>3. w \in Node /\ Len(t) \in Nat
      BY <1>6, <3>1
    <3>4. /\ Len(Cons(w, t)) = Len(t) + 1 /\ Cons(w, t)[1] = w
          /\ \A x \in 1..Len(t) : Cons(w, t)[x + 1] = t[x]
      BY ONLY <3>1, <3>3, ConsFacts
    <3>5. QED BY ONLY <3>2, <3>3, <3>4
  <2>6. \A s \in 0..sz - 1 : \A i \in 1..Len(D[<<g, s>>]) : vl[D[<<g, s>>][i]] % sz = s
    <3>1. ASSUME NEW s \in 0..sz - 1, NEW i \in 1..Len(D[<<g, s>>]) PROVE vl[D[<<g, s>>][i]] % sz = s
      <4>1. CASE s # s0
        BY <4>1, <3>1, <1>7, <1>8, <1>9, <2>5
      <4>2. CASE s = s0
        <5>1. i \in 1..Len(t) + 1 /\ D[<<g, s>>][i] = Cons(w, t)[i]
          BY <4>2, <3>1, <1>9, <2>5
        <5>2. CASE i = 1
          BY <5>1, <5>2, <4>2, <1>6, <1>9, <2>5
        <5>3. CASE i # 1
          <6>1. i - 1 \in 1..Len(t) /\ (i - 1) + 1 = i
            BY <5>1, <5>3, <2>5
          <6>2. D[<<g, s>>][i] = t[i - 1]
            BY <6>1, <5>1, <2>5
          <6>3. QED BY <6>1, <6>2, <4>2, <1>8, <1>9, <2>4
        <5>4. QED BY <5>2, <5>3
      <4>3. QED BY <4>1, <4>2
    <3>2. QED BY <3>1
  <2>7. \A c \in In(C, H) : vl[c] # k
    <3>1. ASSUME NEW c \in In(C, H), vl[c] = k PROVE FALSE
      <4>1. PICK f \in H : c \in Nodes(C[f])
        BY DEF In
      <4>2. PICK i \in 1..Len(C[f]) : c = C[f][i]
        BY <4>1 DEF Nodes
      <4>3. PICK s \in 0..sz - 1 : f = <<g, s>>
        BY <1>7
      <4>4. s = s0
        BY <3>1, <4>2, <4>3, <1>8, <1>9
      <4>5. QED BY <3>1, <4>2, <4>3, <4>4, <1>9, <1>13
    <3>2. QED BY <3>1
  <2>8. \A c, d \in In(D, H) : vl[c] = vl[d] => c = d
    BY <1>6, <1>8, <2>3, <2>7
  <2>9. {c \in Node : vl[c] # Nil} \ {Nil} = In(D, H)
    BY <1>6, <1>8, <2>3, Parameters
  <2>10. num + 1 = Cardinality(In(D, H))
    <3>1. IsFiniteSet(In(C, H))
      BY <1>8, InFacts
    <3>2. PICK S : S = In(C, H)
      OBVIOUS
    <3>3. Cardinality(S \cup {w}) = Cardinality(S) + 1
      BY <2>3, <3>1, <3>2, FS_AddElement
    <3>4. QED BY <1>8, <2>3, <3>2, <3>3
  <2>11. Holds(D, ny, vl, g, sz, 0, 0, Nil, num + 1)
    <3>1. \A s \in 0..0 - 1 : FALSE
      OBVIOUS
    <3>2. QED BY <1>5, <1>8, <2>3, <2>6, <2>8, <2>9, <2>10, <3>1 DEF Holds
  <2>12. num' \in 0..Cardinality(Node) /\ next' \in [Cell -> Node \cup {Nil}]
    <3>1. num + 1 \in 0..Cardinality(Node)
      BY <2>11, CountFacts
    <3>2. QED BY <3>1, <2>1, <2>2, <2>3 DEF Chains
  <2>13. Types'
    BY <1>1, <2>1, <2>12 DEF HInv, Types
  <2>14. Control'
    BY <1>1, <2>1 DEF Control
  <2>15. HInv'
    BY <1>1, <1>2, <2>1, <2>2, <2>11, <2>13, <2>14 DEF HInv
  <2>16. QED BY <2>1, <2>15
<1>14. QED BY <1>12, <1>13

\* Every node is given back.
LEMMA ClearStep ==
    ASSUME HInv, Clear
    PROVE  HInv'
<1>1. /\ at = "idle" /\ ~cleared /\ cleared' = TRUE /\ new = Nil /\ old = 0
      /\ next' = [c \in Cell |-> Nil]
      /\ val' = [c \in Cell |-> IF c \in Slots \/ \E h \in Slots : c \in ElementsIn(h) THEN Nil ELSE val[c]]
      /\ UNCHANGED <<num, gen, size, at, arg, hint, first, n, half, old, slot, new>>
  BY DEF Clear, locals, HInv, Control
<1>2. PICK C : /\ Holds(C, next, val, gen, size, old, slot, new, num)
               /\ Chains(C, Slots \cup Old, next) /\ Slots \cup Old = Heads(gen, size, old)
  BY <1>1, Unfold
<1>3. Old = {}
  BY <1>1 DEF Old
<1>4. ASSUME NEW c \in Cell PROVE val'[c] = Nil
  <2>1. CASE c \in Sentinel
    <3>1. c \in Slots \/ val[c] = Nil
      BY <2>1, <1>2, <1>3 DEF Holds
    <3>2. QED BY <3>1, <1>1
  <2>2. CASE c \in Node /\ val[c] # Nil
    <3>1. c \in In(C, Slots)
      BY <2>2, <1>1, <1>2, <1>3, Parameters DEF Holds
    <3>2. PICK h \in Slots : c \in Nodes(C[h])
      BY <3>1 DEF In
    <3>3. c \in ElementsIn(h)
      BY <3>2, <1>2, ElementsIs
    <3>4. QED BY <3>3, <1>1
  <2>3. CASE val[c] = Nil
    BY <2>3, <1>1
  <2>4. QED BY <2>1, <2>2, <2>3 DEF Cell
<1>5. next' \in [Cell -> Node \cup {Nil}] /\ val' \in [Cell -> Key \cup {Nil}]
  BY <1>1, <1>4
<1>6. Types'
  BY <1>1, <1>5 DEF HInv, Types
<1>7. Control'
  BY <1>1, <1>4 DEF HInv, Control
<1>8. QED BY <1>1, <1>6, <1>7 DEF HInv

\* The invariant is inductive.
LEMMA NextHInv == HInv /\ [Next]_vars => HInv'
<1>1. SUFFICES ASSUME HInv, [Next]_vars PROVE HInv'
  OBVIOUS
<1>2. CASE UNCHANGED vars
  BY <1>1, <1>2 DEF vars, chains, table, locals, HInv, Types, Control
<1>3. CASE Loop
  BY <1>1, <1>3, RehashingStep, BoundingStep, GrowingStep, MovingStep, ReclaimingStep, ConstructingStep,
     LinkingStep DEF Loop
<1>4. CASE Clear
  BY <1>1, <1>4, ClearStep
<1>5. QED BY <1>1, <1>2, <1>3, <1>4, CallStep DEF Next

------------------------------------------------------------------------------
(* What a reader of the table sees.                                        *)

\* The elements and their keys.
LEMMA ElementsAndKeys ==
    ASSUME HInv, ~cleared
    PROVE  LET E == {c \in Node : val[c] # Nil} \ {new} IN
           /\ E = UNION {ElementsIn(h) : h \in Slots \cup Old}
           /\ KeysIn(Slots \cup Old) = {val[c] : c \in E}
           /\ \A c, d \in E : val[c] = val[d] => c = d
           /\ IsFiniteSet(E) /\ num = Cardinality(E)
<1>1. PICK C : /\ Holds(C, next, val, gen, size, old, slot, new, num)
               /\ Chains(C, Slots \cup Old, next) /\ Slots \cup Old = Heads(gen, size, old)
  BY Unfold
<1>2. PICK H : H = Slots \cup Old
  OBVIOUS
<1>3. PICK E : E = {c \in Node : val[c] # Nil} \ {new}
  OBVIOUS
<1>4. E = In(C, H) /\ num = Cardinality(E) /\ IsFiniteSet(E) /\ \A c, d \in E : val[c] = val[d] => c = d
  <2>1. E = In(C, H)
    BY <1>1, <1>2, <1>3 DEF Holds
  <2>2. IsFiniteSet(In(C, H))
    BY <1>1, <1>2, InFacts
  <2>3. QED BY <1>1, <1>2, <2>1, <2>2 DEF Holds
<1>5. \A h \in H : ElementsIn(h) = Nodes(C[h])
  BY <1>1, <1>2, ElementsIs
<1>6. E = UNION {ElementsIn(h) : h \in H}
  BY <1>4, <1>5 DEF In
<1>7. KeysIn(H) = {val[c] : c \in E}
  BY <1>6 DEF KeysIn
<1>8. QED BY <1>2, <1>3, <1>4, <1>6, <1>7

\* The invariant is stronger than what the runs check.
LEMMA HInvPlaced == HInv => Placed
<1>1. SUFFICES ASSUME HInv PROVE Placed
  OBVIOUS
<1>2. TypeOK
  BY <1>1 DEF HInv, Types, TypeOK
<1>3. ASSUME ~cleared PROVE Located
  <2>1. PICK C : /\ Holds(C, next, val, gen, size, old, slot, new, num)
                 /\ Chains(C, Slots \cup Old, next) /\ Slots \cup Old = Heads(gen, size, old)
    BY <1>1, <1>3, Unfold
  <2>2. \A h \in Slots \cup Old : ElementsIn(h) = Nodes(C[h])
    BY <2>1, ElementsIs
  <2>3. ASSUME NEW h \in Slots, NEW c \in Node, c \in ElementsIn(h) PROVE h = <<gen, HashKey(val[c])>>
    <3>1. PICK s \in 0..size - 1 : h = <<gen, s>>
      BY DEF Slots
    <3>2. PICK i \in 1..Len(C[h]) : c = C[h][i]
      BY <2>2, <2>3 DEF Nodes
    <3>3. val[C[<<gen, s>>][i]] % size = s
      BY <2>1, <3>1, <3>2 DEF Holds
    <3>4. QED BY <3>1, <3>2, <3>3 DEF HashKey
  <2>4. ASSUME NEW g \in Slots \cup Old, NEW h \in Slots \cup Old, g # h
        PROVE  ElementsIn(g) \cap ElementsIn(h) = {}
    BY <2>1, <2>2, <2>4 DEF Chains, Nodes
  <2>5. {h \in Sentinel : val[h] # Nil} = Slots \cup Old
    BY <2>1 DEF Holds
  <2>6. {c \in Node : val[c] # Nil} \ {new} = UNION {ElementsIn(h) : h \in Slots \cup Old}
    BY <1>1, <1>3, ElementsAndKeys
  <2>7. QED BY <2>3, <2>4, <2>5, <2>6 DEF Located
<1>4. ASSUME ~cleared PROVE UniqueCounted
  <2>1. PICK E : E = {c \in Node : val[c] # Nil} \ {new}
    OBVIOUS
  <2>2. /\ E = UNION {ElementsIn(h) : h \in Slots \cup Old}
        /\ KeysIn(Slots \cup Old) = {val[c] : c \in E}
        /\ \A c, d \in E : val[c] = val[d] => c = d
        /\ IsFiniteSet(E) /\ num = Cardinality(E)
    BY <1>1, <1>4, <2>1, ElementsAndKeys
  <2>3. PICK K, f : K = {val[c] : c \in E} /\ f = [c \in E |-> val[c]]
    OBVIOUS
  <2>4. f \in Bijection(E, K)
    <3>1. f \in Surjection(E, K)
      BY <2>3 DEF Surjection
    <3>2. f \in Injection(E, K)
      BY <2>2, <2>3 DEF Injection, IsInjective
    <3>3. QED BY <3>1, <3>2 DEF Bijection
  <2>5. Cardinality(K) = Cardinality(E)
    BY ONLY <2>2, <2>4, FS_Bijection DEF ExistsBijection
  <2>6. QED BY <2>2, <2>3, <2>5 DEF UniqueCounted
<1>5. QED BY <1>2, <1>3, <1>4 DEF Placed, Located, UniqueCounted

\* For every set of nodes and keys and every list of primes: elements are in the
\* bucket find looks for them in, once each, none is lost or kept allocated, and
\* size() is the number of different keys, also between two steps of a rehash.
THEOREM TablePlaced == Spec => []Placed
<1>1. Init => HInv
  BY InitHInv
<1>2. HInv /\ [Next]_vars => HInv'
  BY NextHInv
<1>3. HInv => Placed
  BY HInvPlaced
<1>4. QED BY <1>1, <1>2, <1>3, PTL DEF Spec

\* The nodes that are elements, and that the keys of the table are theirs.
Held == {c \in Node : val[c] # Nil} \ {new}
KeysHeld == ~cleared => KeysIn(Slots \cup Old) = {val[c] : c \in Held}

\* What a step may do to the keys of a table.
KeysChange ==
    /\ ~cleared' => KeysIn(Slots \cup Old)' =
                KeysIn(Slots \cup Old) \cup IF at = "insert" /\ new # Nil THEN {arg} ELSE {}
    /\ cleared' => \A c \in Cell : val'[c] = Nil

\* Only the step that links a node changes which nodes are elements.
LEMMA HeldKept ==
    ASSUME HInv, Next, ~Linking, ~Clear
    PROVE  /\ Held' = Held /\ (\A c \in Held : val'[c] = val[c])
           /\ ~(at = "insert" /\ new # Nil) /\ cleared' = cleared
<1>1. CASE Rehashing \/ Bounding \/ Moving \/ (\E k \in Key : CallInsert(k)) \/ \E h \in 0..MaxHint : CallRehash(h)
  <2>1. val' = val /\ cleared' = cleared /\ at # "insert"
    BY <1>1 DEF Rehashing, Bounding, Moving, CallInsert, CallRehash, chains, table
  <2>2. new = Nil
    BY <2>1 DEF HInv, Control
  <2>3. new' = new
    BY <1>1, <2>2 DEF Rehashing, AfterRehash, Return, Go, Bounding, Moving, CallInsert, CallRehash
  <2>4. QED BY <2>1, <2>3 DEF Held
<1>2. CASE Growing \/ Reclaiming
  <2>1. /\ at # "insert" /\ new = Nil /\ cleared' = cleared
        /\ gen \in {0, 1} /\ size \in 0..MaxSlots /\ old \in 0..MaxSlots
    BY <1>2 DEF Growing, Reclaiming, table, HInv, Types, Control
  <2>2. new' = Nil
    BY <1>2, <2>1 DEF Growing, Reclaiming, Return, Go
  <2>3. \A c \in Node : c \in Cell /\ c \notin Slots' /\ c \notin Old
    <3>1. \A c \in Node : c \in Cell /\ c \notin Sentinel
      BY Sentinels DEF Cell
    <3>2. Old \subseteq Sentinel
      BY <2>1, HeadsFacts, HeadsOf
    <3>3. CASE Reclaiming
      <4>1. Slots' = Slots
        BY <3>3 DEF Reclaiming, table, Slots
      <4>2. Slots \subseteq Sentinel
        BY <2>1, HeadsFacts, HeadsOf
      <4>3. QED BY <3>1, <3>2, <4>1, <4>2
    <3>4. CASE Growing
      <4>1. gen' \in {0, 1} /\ size' \in 0..MaxSlots
        BY <3>4, GrowingStep DEF HInv, Types
      <4>2. Slots' \subseteq Heads(gen', size', 0)
        BY DEF Slots, Heads
      <4>3. MaxSlots \in Nat /\ 0 \in 0..MaxSlots
        BY Largest
      <4>4. Heads(gen', size', 0) \subseteq Sentinel
        BY <4>1, <4>3, HeadsFacts
      <4>5. QED BY <3>1, <3>2, <4>2, <4>4
    <3>5. QED BY <1>2, <3>3, <3>4
  <2>4. \A c \in Node : val'[c] = val[c]
    BY <1>2, <2>3 DEF Growing, Reclaiming
  <2>5. QED BY <2>1, <2>2, <2>4 DEF Held
<1>3. CASE Constructing
  <2>1. at = "insert" /\ new = Nil /\ cleared' = cleared /\ arg # Nil /\ val \in [Cell -> Key \cup {Nil}]
    BY <1>3 DEF Constructing, table, HInv, Types, Control
  <2>2. CASE Return /\ UNCHANGED chains
    BY <2>1, <2>2 DEF Return, chains, Held
  <2>3. CASE \E c \in Free : new' = c /\ val' = [val EXCEPT ![c] = arg]
    <3>1. PICK c \in Free : new' = c /\ val' = [val EXCEPT ![c] = arg]
      BY <2>3
    <3>2. c \in Node /\ val[c] = Nil
      BY DEF Free
    <3>3. \A d \in Node : d # c => val'[d] = val[d]
      BY <2>1, <3>1 DEF Cell
    <3>4. \A d \in Node : d # Nil
      BY Parameters
    <3>5. QED BY <2>1, <3>1, <3>2, <3>3, <3>4 DEF Held
  <2>4. QED BY <1>3, <2>2, <2>3 DEF Constructing
<1>4. QED BY <1>1, <1>2, <1>3 DEF Next, Loop

\* The keys of a table change by what is linked.
LEMMA KeysStep ==
    ASSUME HInv, HInv', KeysHeld, KeysHeld', Next
    PROVE  KeysChange
<1>1. cleared' => \A c \in Cell : val'[c] = Nil
  BY DEF HInv, Control
<1>2. ASSUME ~cleared' PROVE KeysIn(Slots \cup Old)' =
              KeysIn(Slots \cup Old) \cup IF at = "insert" /\ new # Nil THEN {arg} ELSE {}
  <2>1. KeysIn(Slots \cup Old)' = {val'[c] : c \in Held'}
    BY <1>2 DEF KeysHeld
  <2>2. ~Clear
    BY <1>2 DEF Clear
  <2>3. CASE ~Linking
    <3>1. /\ Held' = Held /\ (\A c \in Held : val'[c] = val[c])
          /\ ~(at = "insert" /\ new # Nil) /\ cleared' = cleared
      BY <2>2, <2>3, HeldKept
    <3>2. KeysIn(Slots \cup Old) = {val[c] : c \in Held}
      BY <1>2, <3>1 DEF KeysHeld
    <3>3. QED BY <2>1, <3>1, <3>2
  <2>4. CASE Linking
    <3>1. at = "insert" /\ new # Nil /\ new' = Nil /\ cleared' = cleared
      BY <2>4 DEF Linking, Return, table
    <3>2. KeysIn(Slots \cup Old) = {val[c] : c \in Held}
      BY <1>2, <3>1 DEF KeysHeld
    <3>3. new \in Node /\ val[new] = arg /\ arg # Nil /\ val \in [Cell -> Key \cup {Nil}]
      BY <3>1 DEF HInv, Types, Control
    <3>4. CASE val' = [val EXCEPT ![new] = Nil] /\ \E c \in Node \ {new} : val[c] = arg
      <4>1. \A c \in Node : val'[c] = IF c = new THEN Nil ELSE val[c]
        BY <3>3, <3>4 DEF Cell
      <4>2. Held' = Held
        BY <3>1, <4>1, Parameters DEF Held
      <4>3. \A c \in Held : val'[c] = val[c]
        BY <4>1 DEF Held
      <4>4. arg \in {val[c] : c \in Held}
        BY <3>3, <3>4 DEF Held
      <4>5. QED BY <2>1, <3>1, <3>2, <4>2, <4>3, <4>4
    <3>5. CASE val' = val
      <4>1. Held' = Held \cup {new}
        BY <3>1, <3>3, <3>5, Parameters DEF Held
      <4>2. QED BY <2>1, <3>1, <3>2, <3>3, <3>5, <4>1
    <3>6. QED BY <2>4, <3>4, <3>5, LinkingStep
  <2>5. QED BY <2>3, <2>4
<1>3. QED BY <1>1, <1>2 DEF KeysChange

\* Growth and the moves of rehash change no key: a step of the program adds the
\* key that is being inserted or none, and clear gives every node back.
THEOREM KeysKept == Spec => KeepsKeys
<1>1. Init => HInv
  BY InitHInv
<1>2. HInv /\ [Next]_vars => HInv'
  BY NextHInv
<1>3. HInv => KeysHeld
  BY ElementsAndKeys DEF KeysHeld, Held
<1>4. HInv /\ HInv' /\ KeysHeld /\ KeysHeld' /\ [Next]_vars => [KeysChange]_vars
  BY KeysStep
<1>5. Spec => [][KeysChange]_vars
  BY <1>1, <1>2, <1>3, <1>4, PTL DEF Spec
<1>6. QED BY <1>5 DEF KeepsKeys, KeysChange

------------------------------------------------------------------------------
(* Iteration and search.                                                   *)

\* From a the links of g pass through E: D is what has been passed.
Sweeps(E, g, a, D) ==
    /\ IsFiniteSet(E) /\ Nil \notin E /\ a \in E \cup {Nil}
    /\ g \in [E \cup {Nil} -> E \cup {Nil}] /\ D \in [E \cup {Nil} -> SUBSET E]
    /\ D[Nil] = E /\ D[a] = {}
    /\ \A c \in E : c \notin D[c] /\ D[g[c]] = D[c] \cup {c}

\* Every element is passed once, and then the end is reached.
LEMMA Swept ==
    ASSUME NEW E, NEW g, NEW a, NEW D, Sweeps(E, g, a, D),
           NEW N \in Nat, N = Cardinality(E), NEW f \in [0..N -> E \cup {Nil}], Orbit(f, g, a, N)
    PROVE  f[N] = Nil /\ {f[i] : i \in 0..N} = {Nil} \cup E
<1> DEFINE T == {i \in Nat : i <= N => /\ Cardinality(D[f[i]]) = i /\ IsFiniteSet(D[f[i]])
                                       /\ D[f[i]] = {f[j] : j \in 0..i - 1}}
<1>1. 0 \in T
  <2>1. f[0] = a /\ D[a] = {}
    BY DEF Orbit, Sweeps
  <2>2. IsFiniteSet({}) /\ Cardinality({}) = 0
    BY FS_EmptySet
  <2>3. {f[j] : j \in 0..0 - 1} = {}
    OBVIOUS
  <2>4. QED BY <2>1, <2>2, <2>3
<1>2. ASSUME NEW i \in Nat, i \in T PROVE i + 1 \in T
  <2>1. SUFFICES ASSUME i + 1 <= N
                 PROVE  /\ Cardinality(D[f[i + 1]]) = i + 1 /\ IsFiniteSet(D[f[i + 1]])
                        /\ D[f[i + 1]] = {f[j] : j \in 0..(i + 1) - 1}
    OBVIOUS
  <2>2. i \in 0..N /\ i \in 0..N - 1 /\ i < N
    BY <2>1
  <2>3. Cardinality(D[f[i]]) = i /\ IsFiniteSet(D[f[i]]) /\ D[f[i]] = {f[j] : j \in 0..i - 1}
    BY <1>2, <2>2
  <2>4. f[i] \in E
    <3>1. D[Nil] = E
      BY DEF Sweeps
    <3>2. f[i] # Nil
      <4>1. ASSUME f[i] = Nil PROVE FALSE
        <5>1. Cardinality(E) = i
          BY <2>3, <3>1, <4>1
        <5>2. QED BY <5>1, <2>2
      <4>2. QED BY <4>1
    <3>3. QED BY <2>2, <3>2
  <2>5. f[i] \notin D[f[i]] /\ D[g[f[i]]] = D[f[i]] \cup {f[i]}
    BY <2>4 DEF Sweeps
  <2>6. f[i + 1] = g[f[i]]
    BY <2>2 DEF Orbit
  <2>7. PICK X, x : X = D[f[i]] /\ x = f[i]
    OBVIOUS
  <2>8. IsFiniteSet(X \cup {x}) /\ Cardinality(X \cup {x}) = Cardinality(X) + 1
    <3>1. IsFiniteSet(X) /\ x \notin X
      BY <2>3, <2>5, <2>7
    <3>2. QED BY ONLY <3>1, FS_AddElement
  <2>9. X \cup {x} = {f[j] : j \in 0..(i + 1) - 1}
    <3>1. 0..(i + 1) - 1 = 0..i - 1 \cup {i}
      OBVIOUS
    <3>2. QED BY <2>3, <2>7, <3>1
  <2>10. QED BY <2>3, <2>5, <2>6, <2>7, <2>8, <2>9
<1>3. Nat \subseteq T
  <2> HIDE DEF T
  <2> QED BY <1>1, <1>2, SetInduction
<1>4. Cardinality(D[f[N]]) = N /\ D[f[N]] = {f[j] : j \in 0..N - 1}
  BY <1>3
<1>5. f[N] \in E \cup {Nil} /\ D[f[N]] \subseteq E
  BY DEF Sweeps
<1>6. D[f[N]] = E
  <2>1. IsFiniteSet(E)
    BY DEF Sweeps
  <2>2. PICK X : X = D[f[N]]
    OBVIOUS
  <2>3. X \subseteq E /\ Cardinality(X) = Cardinality(E)
    BY <1>4, <1>5, <2>2
  <2>4. X = E
    BY ONLY <2>1, <2>3, FS_Subset
  <2>5. QED BY <2>2, <2>4
<1>7. f[N] = Nil
  BY <1>5, <1>6 DEF Sweeps
<1>8. {f[i] : i \in 0..N} = {Nil} \cup E
  <2>1. 0..N = 0..N - 1 \cup {N}
    OBVIOUS
  <2>2. QED BY <1>4, <1>6, <1>7, <2>1
<1>9. QED BY <1>7, <1>8

\* The chains ch of sz buckets, and their nodes E.
Rows(ch, sz, E) ==
    /\ sz \in Nat /\ ch \in [0..sz - 1 -> Seq(Node)]
    /\ \A s, t \in 0..sz - 1 : \A i \in 1..Len(ch[s]), j \in 1..Len(ch[t]) : ch[s][i] = ch[t][j] => s = t /\ i = j
    /\ E = UNION {Nodes(ch[s]) : s \in 0..sz - 1}

\* r is the first node of the buckets from s on.
FirstOf(ch, sz, s, r) ==
    \/ r = Nil /\ \A u \in s..sz - 1 : ch[u] = <<>>
    \/ \E t \in s..sz - 1 : ch[t] # <<>> /\ r = ch[t][1] /\ \A u \in s..t - 1 : ch[u] = <<>>

\* The nodes before position i of bucket s, and before node c.
Before(ch, sz, s, i) ==
    {d \in Node : \E t \in 0..sz - 1 : \E j \in 1..Len(ch[t]) : d = ch[t][j] /\ (t < s \/ (t = s /\ j < i))}
Prior(ch, sz, E) ==
    [c \in E \cup {Nil} |->
        IF c = Nil THEN E
        ELSE {d \in E : \E s \in 0..sz - 1 : \E i \in 1..Len(ch[s]) : c = ch[s][i] /\ d \in Before(ch, sz, s, i)}]

\* How the nodes before a position grow.
LEMMA BeforeFacts ==
    ASSUME NEW ch, NEW sz, NEW E, Rows(ch, sz, E)
    PROVE  /\ Before(ch, sz, 0, 1) = {} /\ Before(ch, sz, sz, 1) = E /\ E \subseteq Node
           /\ \A s \in 0..sz - 1 : /\ Before(ch, sz, s, Len(ch[s]) + 1) = Before(ch, sz, s + 1, 1)
                                   /\ \A i \in 1..Len(ch[s]) :
                                        /\ Before(ch, sz, s, i + 1) = Before(ch, sz, s, i) \cup {ch[s][i]}
                                        /\ ch[s][i] \notin Before(ch, sz, s, i)
                                        /\ ch[s][i] \in E
           /\ \A s \in 0..sz : \A t \in s..sz : (\A u \in s..t - 1 : ch[u] = <<>>) => Before(ch, sz, t, 1) = Before(ch, sz, s, 1)
<1>1. sz \in Nat /\ ch \in [0..sz - 1 -> Seq(Node)] /\ E = UNION {Nodes(ch[s]) : s \in 0..sz - 1}
      /\ \A s, t \in 0..sz - 1 : \A i \in 1..Len(ch[s]), j \in 1..Len(ch[t]) : ch[s][i] = ch[t][j] => s = t /\ i = j
  BY DEF Rows
<1>2. \A s \in 0..sz - 1 : Len(ch[s]) \in Nat /\ \A i \in 1..Len(ch[s]) : ch[s][i] \in Node
  BY <1>1
<1>3. Before(ch, sz, 0, 1) = {}
  BY <1>2 DEF Before
<1>4. Before(ch, sz, sz, 1) = E /\ E \subseteq Node
  BY <1>1, <1>2 DEF Before, Nodes
<1>5. ASSUME NEW s \in 0..sz - 1 PROVE Before(ch, sz, s, Len(ch[s]) + 1) = Before(ch, sz, s + 1, 1)
  <2>1. ASSUME NEW t \in 0..sz - 1, NEW j \in 1..Len(ch[t])
        PROVE  (t < s \/ (t = s /\ j < Len(ch[s]) + 1)) <=> (t < s + 1 \/ (t = s + 1 /\ j < 1))
    BY <1>2
  <2>2. QED BY <2>1 DEF Before
<1>6. ASSUME NEW s \in 0..sz - 1, NEW i \in 1..Len(ch[s])
      PROVE  /\ Before(ch, sz, s, i + 1) = Before(ch, sz, s, i) \cup {ch[s][i]}
             /\ ch[s][i] \notin Before(ch, sz, s, i) /\ ch[s][i] \in E
  <2>1. ASSUME NEW t \in 0..sz - 1, NEW j \in 1..Len(ch[t])
        PROVE  (t < s \/ (t = s /\ j < i + 1)) <=> (t < s \/ (t = s /\ j < i)) \/ (t = s /\ j = i)
    BY <1>2
  <2>2. Before(ch, sz, s, i + 1) = Before(ch, sz, s, i) \cup {ch[s][i]}
    BY <1>2, <2>1 DEF Before
  <2>3. ASSUME ch[s][i] \in Before(ch, sz, s, i) PROVE FALSE
    <3>1. PICK t \in 0..sz - 1 : \E j \in 1..Len(ch[t]) : ch[s][i] = ch[t][j] /\ (t < s \/ (t = s /\ j < i))
      BY <2>3 DEF Before
    <3>2. PICK j \in 1..Len(ch[t]) : ch[s][i] = ch[t][j] /\ (t < s \/ (t = s /\ j < i))
      BY <3>1
    <3>3. s = t /\ i = j
      BY <1>1, <3>2
    <3>4. QED BY <1>2, <3>2, <3>3
  <2>4. ch[s][i] \in E
    BY <1>1 DEF Nodes
  <2>5. QED BY <2>2, <2>3, <2>4
<1>7. ASSUME NEW s \in 0..sz, NEW t \in s..sz, \A u \in s..t - 1 : ch[u] = <<>>
      PROVE  Before(ch, sz, t, 1) = Before(ch, sz, s, 1)
  <2>1. ASSUME NEW v \in 0..sz - 1, NEW j \in 1..Len(ch[v])
        PROVE  (v < t \/ (v = t /\ j < 1)) <=> (v < s \/ (v = s /\ j < 1))
    <3>1. v \notin s..t - 1
      <4>1. ch[v] # <<>>
        BY <1>2
      <4>2. QED BY <4>1, <1>7
    <3>2. QED BY <3>1, <1>1
  <2>2. QED BY <2>1 DEF Before
<1>8. QED BY <1>3, <1>4, <1>5, <1>6, <1>7

\* A walk that goes on in the chain, and to the next bucket that has one, sweeps.
LEMMA RowsSwept ==
    ASSUME NEW ch, NEW sz, NEW E, Rows(ch, sz, E), IsFiniteSet(E),
           NEW a, FirstOf(ch, sz, 0, a), NEW g, g = [c \in E \cup {Nil} |-> g[c]], g[Nil] = Nil,
           \A s \in 0..sz - 1 : \A i \in 1..Len(ch[s]) :
               IF i < Len(ch[s]) THEN g[ch[s][i]] = ch[s][i + 1] ELSE FirstOf(ch, sz, s + 1, g[ch[s][i]])
    PROVE  Sweeps(E, g, a, Prior(ch, sz, E))
<1>1. /\ sz \in Nat /\ ch \in [0..sz - 1 -> Seq(Node)] /\ E = UNION {Nodes(ch[s]) : s \in 0..sz - 1}
      /\ \A s, t \in 0..sz - 1 : \A i \in 1..Len(ch[s]), j \in 1..Len(ch[t]) : ch[s][i] = ch[t][j] => s = t /\ i = j
  BY DEF Rows
<1>2. \A s \in 0..sz - 1 : Len(ch[s]) \in Nat /\ (ch[s] = <<>> <=> Len(ch[s]) = 0)
  BY <1>1
<1>3. PICK D : D = Prior(ch, sz, E)
  OBVIOUS
<1>4. /\ Before(ch, sz, 0, 1) = {} /\ Before(ch, sz, sz, 1) = E /\ E \subseteq Node
      /\ \A s \in 0..sz - 1 : /\ Before(ch, sz, s, Len(ch[s]) + 1) = Before(ch, sz, s + 1, 1)
                              /\ \A i \in 1..Len(ch[s]) :
                                   /\ Before(ch, sz, s, i + 1) = Before(ch, sz, s, i) \cup {ch[s][i]}
                                   /\ ch[s][i] \notin Before(ch, sz, s, i)
                                   /\ ch[s][i] \in E
      /\ \A s \in 0..sz : \A t \in s..sz : (\A u \in s..t - 1 : ch[u] = <<>>) => Before(ch, sz, t, 1) = Before(ch, sz, s, 1)
  BY BeforeFacts
<1>5. D \in [E \cup {Nil} -> SUBSET E] /\ D[Nil] = E
  BY <1>3 DEF Prior
<1>6. Nil \notin E
  BY <1>4, Parameters
<1>7. ASSUME NEW s \in 0..sz - 1, NEW i \in 1..Len(ch[s]) PROVE D[ch[s][i]] = Before(ch, sz, s, i)
  <2>1. PICK c : c = ch[s][i]
    OBVIOUS
  <2>2. c \in E /\ c # Nil
    BY <2>1, <1>4, <1>6
  <2>3. D[c] = {d \in E : \E t \in 0..sz - 1 : \E j \in 1..Len(ch[t]) : c = ch[t][j] /\ d \in Before(ch, sz, t, j)}
    BY <1>3, <2>2 DEF Prior
  <2>4. ASSUME NEW t \in 0..sz - 1, NEW j \in 1..Len(ch[t]), c = ch[t][j] PROVE t = s /\ j = i
    <3>1. ch[s][i] = ch[t][j]
      BY <2>1, <2>4
    <3>2. QED BY <1>1, <3>1
  <2>5. Before(ch, sz, s, i) \subseteq E
    BY <1>1 DEF Before, Nodes
  <2>6. QED BY <2>1, <2>3, <2>4, <2>5
<1>8. ASSUME NEW s \in 0..sz, NEW r, FirstOf(ch, sz, s, r)
      PROVE  r \in E \cup {Nil} /\ D[r] = Before(ch, sz, s, 1)
  <2>1. CASE r = Nil /\ \A u \in s..sz - 1 : ch[u] = <<>>
    <3>1. sz \in s..sz
      BY <1>1
    <3>2. Before(ch, sz, sz, 1) = Before(ch, sz, s, 1)
      BY <2>1, <3>1, <1>4
    <3>3. QED BY <2>1, <3>2, <1>4, <1>5
  <2>2. CASE \E t \in s..sz - 1 : ch[t] # <<>> /\ r = ch[t][1] /\ \A u \in s..t - 1 : ch[u] = <<>>
    <3>1. PICK t \in s..sz - 1 : ch[t] # <<>> /\ r = ch[t][1] /\ \A u \in s..t - 1 : ch[u] = <<>>
      BY <2>2
    <3>2. t \in 0..sz - 1 /\ t \in s..sz
      BY <1>1
    <3>3. 1 \in 1..Len(ch[t])
      BY <1>2, <3>1, <3>2
    <3>4. D[r] = Before(ch, sz, t, 1) /\ r \in E
      BY <3>1, <3>2, <3>3, <1>4, <1>7
    <3>5. QED BY <3>1, <3>2, <3>4, <1>4
  <2>3. QED BY <1>8, <2>1, <2>2 DEF FirstOf
<1>9. a \in E \cup {Nil} /\ D[a] = {}
  BY <1>1, <1>4, <1>8
<1>10. ASSUME NEW c \in E PROVE c \notin D[c] /\ D[g[c]] = D[c] \cup {c} /\ g[c] \in E \cup {Nil}
  <2>1. PICK s \in 0..sz - 1 : c \in Nodes(ch[s])
    BY <1>1
  <2>2. PICK i \in 1..Len(ch[s]) : c = ch[s][i]
    BY <2>1 DEF Nodes
  <2>3. D[c] = Before(ch, sz, s, i) /\ c \notin Before(ch, sz, s, i) /\ Before(ch, sz, s, i + 1) = D[c] \cup {c}
    BY <2>2, <1>4, <1>7
  <2>4. CASE i < Len(ch[s])
    <3>0. i + 1 \in 1..Len(ch[s])
      BY <1>2, <2>4
    <3>1. i + 1 \in 1..Len(ch[s]) /\ g[ch[s][i]] = ch[s][i + 1] /\ g[ch[s][i]] = g[c]
      BY <2>2, <2>4, <3>0
    <3>2. D[ch[s][i + 1]] = Before(ch, sz, s, i + 1) /\ ch[s][i + 1] \in E
      BY <3>0, <1>4, <1>7
    <3>3. QED BY <2>3, <3>1, <3>2
  <2>5. CASE ~(i < Len(ch[s]))
    <3>1. i = Len(ch[s]) /\ s + 1 \in 0..sz
      BY <1>1, <1>2, <2>5
    <3>2. FirstOf(ch, sz, s + 1, g[c])
      BY <2>2, <2>5
    <3>3. g[c] \in E \cup {Nil} /\ D[g[c]] = Before(ch, sz, s + 1, 1)
      BY <3>1, <3>2, <1>8
    <3>4. Before(ch, sz, s + 1, 1) = Before(ch, sz, s, i + 1)
      BY <3>1, <1>4
    <3>5. QED BY <2>3, <3>3, <3>4
  <2>6. QED BY <2>4, <2>5
<1>11. g \in [E \cup {Nil} -> E \cup {Nil}]
  BY <1>10
<1>12. QED BY <1>3, <1>5, <1>6, <1>9, <1>10, <1>11 DEF Sweeps

\* The rows of the table between two calls.
TableRows(ch, E) ==
    /\ Rows(ch, size, E) /\ IsFiniteSet(E) /\ Cardinality(E) = num /\ num \in Nat
    /\ E = UNION {ElementsIn(h) : h \in Slots}
    /\ \A s \in 0..size - 1 : /\ Chain(<<gen, s>>) = ch[s] /\ Linked(next, <<gen, s>>, ch[s])
                              /\ \A i \in 1..Len(ch[s]) : val[ch[s][i]] % size = s

\* The chains of the table are such rows.
LEMMA RowsExist ==
    ASSUME HInv, ~cleared, at = "idle"
    PROVE  \E ch, E : TableRows(ch, E)
<1>1. old = 0 /\ Old = {} /\ new = Nil /\ size \in Nat
  <2>1. old = 0 /\ new = Nil /\ size \in 0..MaxSlots
    BY DEF HInv, Types, Control
  <2>2. QED BY <2>1, Largest DEF Old
<1>2. PICK C : /\ Holds(C, next, val, gen, size, old, slot, new, num)
               /\ Chains(C, Slots \cup Old, next) /\ Slots \cup Old = Heads(gen, size, old)
  BY Unfold
<1>3. PICK H : H = Slots
  OBVIOUS
<1>4. Chains(C, H, next) /\ H = Heads(gen, size, old) /\ H = {<<gen, s>> : s \in 0..size - 1}
  BY <1>1, <1>2, <1>3 DEF Slots
<1>5. /\ C \in [H -> Seq(Node)] /\ (\A h \in H : Linked(next, h, C[h]))
      /\ \A g, h \in H : \A i \in 1..Len(C[g]), j \in 1..Len(C[h]) : C[g][i] = C[h][j] => g = h /\ i = j
  BY <1>4 DEF Chains
<1>6. PICK ch : ch = [s \in 0..size - 1 |-> C[<<gen, s>>]]
  OBVIOUS
<1>7. \A s \in 0..size - 1 : <<gen, s>> \in H /\ ch[s] = C[<<gen, s>>] /\ ch[s] \in Seq(Node)
  BY <1>4, <1>5, <1>6
<1>8. \A s, t \in 0..size - 1 : \A i \in 1..Len(ch[s]), j \in 1..Len(ch[t]) : ch[s][i] = ch[t][j] => s = t /\ i = j
  <2>1. ASSUME NEW s \in 0..size - 1, NEW t \in 0..size - 1, NEW i \in 1..Len(ch[s]), NEW j \in 1..Len(ch[t]),
               ch[s][i] = ch[t][j]
        PROVE  s = t /\ i = j
    <3>1. PICK g, h : g = <<gen, s>> /\ h = <<gen, t>>
      OBVIOUS
    <3>2. g \in H /\ h \in H /\ i \in 1..Len(C[g]) /\ j \in 1..Len(C[h]) /\ C[g][i] = C[h][j]
      BY <1>7, <2>1, <3>1
    <3>3. g = h /\ i = j
      BY ONLY <1>5, <3>2
    <3>4. QED BY <3>1, <3>3
  <2>2. QED BY <2>1
<1>9. In(C, H) = UNION {Nodes(ch[s]) : s \in 0..size - 1}
  BY <1>4, <1>7 DEF In
<1>10. PICK E : E = In(C, H)
  OBVIOUS
<1>11. Rows(ch, size, E)
  BY <1>1, <1>6, <1>7, <1>8, <1>9, <1>10 DEF Rows
<1>12. \A h \in H : Chain(h) = C[h] /\ ElementsIn(h) = Nodes(C[h])
  BY <1>4, ElementsIs
<1>13. E = UNION {ElementsIn(h) : h \in Slots}
  BY <1>3, <1>10, <1>12 DEF In
<1>14. IsFiniteSet(E) /\ Cardinality(E) = num /\ num \in Nat
  <2>1. num = Cardinality(In(C, H))
    BY <1>2, <1>4 DEF Holds
  <2>2. num \in Nat
    BY DEF HInv, Types
  <2>3. QED BY <2>1, <2>2, <1>4, <1>10, InFacts
<1>15. \A s \in 0..size - 1 : \A i \in 1..Len(ch[s]) : val[ch[s][i]] % size = s
  BY <1>2, <1>7 DEF Holds
<1>16. QED BY <1>5, <1>7, <1>11, <1>12, <1>13, <1>14, <1>15 DEF TableRows

\* begin() and the end of a bucket go to the next bucket with an element.
LEMMA FirstFromIs ==
    ASSUME NEW ch, NEW E, TableRows(ch, E), NEW s \in 0..size
    PROVE  FirstOf(ch, size, s, FirstFrom(s))
<1>1. size \in Nat /\ ch \in [0..size - 1 -> Seq(Node)]
  BY DEF TableRows, Rows
<1>2. \A t \in 0..size - 1 : /\ next[<<gen, t>>] = Nil <=> ch[t] = <<>>
                             /\ ch[t] # <<>> => next[<<gen, t>>] = ch[t][1]
  <2>1. ASSUME NEW t \in 0..size - 1 PROVE /\ next[<<gen, t>>] = Nil <=> ch[t] = <<>>
                                           /\ ch[t] # <<>> => next[<<gen, t>>] = ch[t][1]
    <3>1. ch[t] \in Seq(Node) /\ Linked(next, <<gen, t>>, ch[t])
      BY <1>1 DEF TableRows
    <3>2. QED BY <3>1, LinkedFacts
  <2>2. QED BY <2>1
<1>3. PICK full : full = {t \in s..size - 1 : next[<<gen, t>>] # Nil}
  OBVIOUS
<1>4. FirstFrom(s) = IF full = {} THEN Nil ELSE next[<<gen, CHOOSE t \in full : \A u \in full : t <= u>>]
  BY <1>3 DEF FirstFrom
<1>5. s..size - 1 \subseteq 0..size - 1 /\ s..size - 1 \subseteq Nat
  BY <1>1
<1>6. CASE full = {}
  BY <1>2, <1>3, <1>4, <1>5, <1>6 DEF FirstOf
<1>7. CASE full # {}
  <2>1. PICK t : t = CHOOSE w \in full : \A u \in full : w <= u
    OBVIOUS
  <2>2. t \in full /\ \A u \in full : t <= u
    <3>1. \E x \in full : \A u \in full : x <= u
      <4>1. full \subseteq Nat
        BY <1>3, <1>5
      <4>2. QED BY ONLY <4>1, <1>7, LeastNatural
    <3>2. QED BY <2>1, <3>1
  <2>3. t \in s..size - 1 /\ ch[t] # <<>> /\ FirstFrom(s) = ch[t][1]
    <3>1. FirstFrom(s) = next[<<gen, t>>]
      BY ONLY <1>4, <1>7, <2>1
    <3>2. t \in s..size - 1 /\ next[<<gen, t>>] # Nil
      BY <1>3, <2>2
    <3>3. QED BY <3>1, <3>2, <1>2, <1>5
  <2>4. \A u \in s..t - 1 : ch[u] = <<>>
    <3>1. ASSUME NEW u \in s..t - 1, ch[u] # <<>> PROVE FALSE
      <4>1. u \in s..size - 1 /\ u < t
        BY <1>1, <2>3
      <4>2. u \in full
        BY <1>2, <1>3, <1>5, <3>1, <4>1
      <4>3. QED BY <1>1, <2>2, <2>3, <4>1, <4>2
    <3>2. QED BY <3>1
  <2>5. QED BY <2>3, <2>4 DEF FirstOf
<1>8. QED BY <1>6, <1>7

\* operator++ goes on in the chain, or to that bucket.
LEMMA NextIs ==
    ASSUME NEW ch, NEW E, TableRows(ch, E), NEW s \in 0..size - 1, NEW i \in 1..Len(ch[s])
    PROVE  IF i < Len(ch[s]) THEN Next_(ch[s][i]) = ch[s][i + 1]
           ELSE FirstOf(ch, size, s + 1, Next_(ch[s][i]))
<1>1. /\ size \in Nat /\ ch[s] \in Seq(Node) /\ Linked(next, <<gen, s>>, ch[s])
      /\ val[ch[s][i]] % size = s
  BY DEF TableRows, Rows
<1>2. next[ch[s][i]] = IF i = Len(ch[s]) THEN Nil ELSE ch[s][i + 1]
  BY <1>1, LinkedFacts
<1>3. CASE i < Len(ch[s])
  <2>1. ch[s][i + 1] \in Node
    BY <1>1, <1>3
  <2>2. ch[s][i + 1] # Nil
    BY <2>1, Parameters
  <2>3. QED BY <1>1, <1>2, <1>3, <2>2 DEF Next_
<1>4. CASE ~(i < Len(ch[s]))
  <2>1. i = Len(ch[s]) /\ s + 1 \in 0..size
    BY <1>1, <1>4
  <2>2. Next_(ch[s][i]) = FirstFrom(s + 1)
    BY <1>1, <1>2, <2>1 DEF Next_, HashKey
  <2>3. FirstOf(ch, size, s + 1, FirstFrom(s + 1))
    BY <2>1, FirstFromIs
  <2>4. QED BY <1>4, <2>2, <2>3
<1>5. QED BY <1>3, <1>4

\* From begin(), ++ passes every element once.
LEMMA HInvIterates == HInv => Iterates
<1>1. SUFFICES ASSUME HInv, ~cleared, at = "idle"
               PROVE  LET reach[i \in 0..num] == IF i = 0 THEN Begin ELSE IF reach[i - 1] = Nil THEN Nil ELSE Next_(reach[i - 1])
                      IN  /\ {reach[i] : i \in 0..num} = {Nil} \cup UNION {ElementsIn(h) : h \in Slots}
                          /\ reach[num] = Nil
  BY DEF Iterates
<1>2. PICK ch, E : TableRows(ch, E)
  BY <1>1, RowsExist
<1>3. PICK N, sz : N = num /\ sz = size
  OBVIOUS
<1>4. /\ Rows(ch, sz, E) /\ IsFiniteSet(E) /\ N = Cardinality(E) /\ N \in Nat /\ sz \in Nat
      /\ E = UNION {ElementsIn(h) : h \in Slots}
  BY <1>2, <1>3 DEF TableRows, Rows
<1>5. PICK a, g : a = Begin /\ g = [c \in E \cup {Nil} |-> IF c = Nil THEN Nil ELSE Next_(c)]
  OBVIOUS
<1>6. FirstOf(ch, sz, 0, a)
  <2>1. 0 \in 0..size
    BY <1>3, <1>4
  <2>2. FirstOf(ch, size, 0, FirstFrom(0))
    BY <1>2, <2>1, FirstFromIs
  <2>3. QED BY <1>3, <1>5, <2>2 DEF Begin
<1>7. ASSUME NEW s \in 0..sz - 1, NEW i \in 1..Len(ch[s])
      PROVE  IF i < Len(ch[s]) THEN g[ch[s][i]] = ch[s][i + 1] ELSE FirstOf(ch, sz, s + 1, g[ch[s][i]])
  <2>1. s \in 0..size - 1
    BY <1>3
  <2>2. IF i < Len(ch[s]) THEN Next_(ch[s][i]) = ch[s][i + 1] ELSE FirstOf(ch, size, s + 1, Next_(ch[s][i]))
    BY <1>2, <2>1, NextIs
  <2>3. ch[s][i] \in E /\ ch[s][i] # Nil
    <3>1. ch[s][i] \in E /\ E \subseteq Node
      BY <1>4, BeforeFacts
    <3>2. QED BY <3>1, Parameters
  <2>4. g[ch[s][i]] = Next_(ch[s][i])
    BY <1>5, <2>3
  <2>5. QED BY <1>3, <2>2, <2>4
<1>8. g = [c \in E \cup {Nil} |-> g[c]] /\ g[Nil] = Nil
  BY <1>5
<1>9. PICK D : D = Prior(ch, sz, E)
  OBVIOUS
<1>10. Sweeps(E, g, a, D)
  BY <1>4, <1>6, <1>7, <1>8, <1>9, RowsSwept
<1>11. a \in E \cup {Nil} /\ \A c \in E \cup {Nil} : g[c] \in E \cup {Nil}
  BY <1>10 DEF Sweeps
<1> DEFINE r == CHOOSE r : r = [i \in 0..num |-> IF i = 0 THEN Begin ELSE IF r[i - 1] = Nil THEN Nil ELSE Next_(r[i - 1])]
<1>12. PICK f \in [0..N -> E \cup {Nil}] : Solves(f, g, a, N)
  BY <1>4, <1>11, SolutionExists
<1>13. f = [i \in 0..N |-> IF i = 0 THEN Begin ELSE IF f[i - 1] = Nil THEN Nil ELSE Next_(f[i - 1])]
  <2>1. ASSUME NEW i \in 0..N PROVE f[i] = IF i = 0 THEN Begin ELSE IF f[i - 1] = Nil THEN Nil ELSE Next_(f[i - 1])
    <3>1. f[i] = IF i = 0 THEN a ELSE g[f[i - 1]]
      BY <1>12 DEF Solves
    <3>2. i # 0 => i - 1 \in 0..N
      BY <1>4
    <3>3. i # 0 => f[i - 1] \in E \cup {Nil}
      BY <3>2, <1>12
    <3>4. QED BY <3>1, <3>3, <1>5
  <2>2. f = [i \in 0..N |-> f[i]]
    BY <1>12
  <2>3. QED BY <2>1, <2>2
<1>14. r = [i \in 0..N |-> IF i = 0 THEN Begin ELSE IF r[i - 1] = Nil THEN Nil ELSE Next_(r[i - 1])]
  <2>1. N = num
    BY <1>3
  <2>2. \E x : x = [i \in 0..num |-> IF i = 0 THEN Begin ELSE IF x[i - 1] = Nil THEN Nil ELSE Next_(x[i - 1])]
    BY ONLY <1>13, <2>1
  <2>3. QED BY ONLY <2>1, <2>2
<1>15. f[N] = Nil /\ {f[i] : i \in 0..N} = {Nil} \cup E
  <2>1. Orbit(f, g, a, N)
    <3>1. f = [k \in 0..N |-> f[k]]
      BY <1>12
    <3>2. PICK S : S = E \cup {Nil}
      OBVIOUS
    <3>3. (\A c \in S : g[c] \in S) /\ a \in S /\ N \in Nat /\ Solves(f, g, a, N)
      BY <1>4, <1>11, <1>12, <3>2
    <3>4. QED BY ONLY <3>1, <3>3, OrbitFunction
  <2>2. N \in Nat /\ N = Cardinality(E) /\ f \in [0..N -> E \cup {Nil}]
    BY <1>4, <1>12
  <2>3. QED BY ONLY <1>10, <2>1, <2>2, Swept
<1>16. r = f
  <2> DEFINE T == {i \in Nat : i <= N => r[i] = f[i]}
  <2> HIDE DEF r
  <2>1. 0 \in T
    <3>1. 0 \in 0..N
      BY <1>4
    <3>2. r[0] = Begin
      BY <3>1, <1>14
    <3>3. f[0] = Begin
      BY <3>1, <1>13
    <3>4. QED BY <3>2, <3>3
  <2>2. ASSUME NEW i \in Nat, i \in T PROVE i + 1 \in T
    <3>1. SUFFICES ASSUME i + 1 <= N PROVE r[i + 1] = f[i + 1]
      OBVIOUS
    <3>2. i + 1 \in 0..N /\ i + 1 # 0 /\ (i + 1) - 1 = i /\ r[i] = f[i]
      BY <3>1, <2>2, <1>4
    <3>3. r[i + 1] = IF r[i] = Nil THEN Nil ELSE Next_(r[i])
      BY <3>2, <1>14
    <3>4. f[i + 1] = IF f[i] = Nil THEN Nil ELSE Next_(f[i])
      BY <3>2, <1>13
    <3>5. QED BY <3>2, <3>3, <3>4
  <2>3. Nat \subseteq T
    <3> HIDE DEF T
    <3> QED BY <2>1, <2>2, SetInduction
  <2>4. \A i \in 0..N : r[i] = f[i]
    BY <2>3, <1>4
  <2>5. r = [i \in 0..N |-> r[i]] /\ f = [i \in 0..N |-> f[i]]
    BY <1>12, <1>14
  <2>6. QED BY <2>4, <2>5
<1>17. r[num] = Nil /\ {r[i] : i \in 0..num} = {Nil} \cup UNION {ElementsIn(h) : h \in Slots}
  <2> HIDE DEF r
  <2>1. r[N] = Nil /\ {r[i] : i \in 0..N} = {Nil} \cup E
    BY ONLY <1>15, <1>16
  <2>2. N = num /\ E = UNION {ElementsIn(h) : h \in Slots}
    BY ONLY <1>3, <1>4
  <2>3. QED BY ONLY <2>1, <2>2
<1>18. QED BY ONLY <1>17

\* Between two calls, ++ meets every element of every bucket once and then end(),
\* for tables of every size and whatever insertions and rehashes have moved.
THEOREM TableIterates == Spec => []Iterates
<1>1. Init => HInv
  BY InitHInv
<1>2. HInv /\ [Next]_vars => HInv'
  BY NextHInv
<1>3. QED BY <1>1, <1>2, HInvIterates, PTL DEF Spec
============================================================================
