-------------------------- MODULE ForwardListProofs --------------------------
(***************************************************************************)
(* Proofs about ForwardList, for any sets of nodes, headers and lists.     *)
(* The pointer operations are first shown to preserve a chain, as values;  *)
(* the invariant of the specification then follows action by action.       *)
(*                                                                         *)
(* The second half is about ForwardListLoops: between two iterations of    *)
(* any loop the lists are whole, and the positions the loop holds are live *)
(* ones of the lists it works on.                                          *)
(***************************************************************************)
EXTENDS ForwardListLoops, Iteration, SequenceTheorems

Link == [Addr -> Node \cup {Nil}]

------------------------------------------------------------------------------
(* What an operation does to the chain of one header.                      *)

\* A chain does not depend on the links of other nodes.
LEMMA ChainFrame ==
    ASSUME NEW nx, NEW ny, NEW h, NEW k \in Nat, NEW last, NEW S,
           Chain(nx, h, k, last, S),
           \A p \in S \cup {h} : ny[p] = nx[p]
    PROVE  Chain(ny, h, k, last, S)
BY DEF Chain

\* An empty chain: the header alone, its own last.
LEMMA EmptyChain ==
    ASSUME NEW nx, NEW h, nx[h] = Nil
    PROVE  Chain(nx, h, 0, h, {})
<1> DEFINE f == [i \in 0..0 |-> h]
<1>1. f \in [0..0 -> {} \cup {h}]
  OBVIOUS
<1>2. f[0] = h
  OBVIOUS
<1>3. {} = {f[i] : i \in 1..0}
  OBVIOUS
<1> HIDE DEF f
<1>. QED
  BY <1>1, <1>2, <1>3 DEF Chain

\* The first link, the last node and the length agree on emptiness.
LEMMA ChainEmpty ==
    ASSUME NEW nx, NEW h \in Header, NEW k \in Nat, NEW last, NEW S \in SUBSET Node,
           Chain(nx, h, k, last, S)
    PROVE  /\ nx[h] = Nil <=> last = h
           /\ nx[h] = Nil <=> k = 0
           /\ last \in S \cup {h}
           /\ nx[last] = Nil
           /\ \A p \in S \cup {h} : nx[p] # Nil => nx[p] \in S
<1>1. PICK f \in [0..k -> S \cup {h}] :
        /\ f[0] = h
        /\ \A i, j \in 0..k : f[i] = f[j] => i = j
        /\ \A i \in 0..k : i < k => nx[f[i]] = f[i + 1]
        /\ nx[f[k]] = Nil
        /\ last = f[k]
        /\ S = {f[i] : i \in 1..k}
  BY DEF Chain
<1>2. \A p \in S \cup {h} : \E i \in 0..k : p = f[i]
  BY <1>1
<1>3. \A i \in 0..k : i < k => nx[f[i]] \in S
  BY <1>1
<1>4. nx[h] = Nil <=> k = 0
  BY <1>1, <1>3, Addresses
<1>. QED
  BY <1>1, <1>2, <1>3, <1>4

\* insert_after: a node that is not in the chain is linked after any position.
LEMMA ChainInsert ==
    ASSUME NEW nx \in Link, NEW h \in Header, NEW k \in Nat, NEW last,
           NEW S \in SUBSET Node, Chain(nx, h, k, last, S),
           NEW n \in Node \ S, NEW pos \in S \cup {h}
    PROVE  Chain(InsertAfterNext(nx, pos, n), h, k + 1,
                 IF pos = last THEN n ELSE last, S \cup {n})
<1> DEFINE ny == InsertAfterNext(nx, pos, n)
<1>1. PICK f \in [0..k -> S \cup {h}] :
        /\ f[0] = h
        /\ \A i, j \in 0..k : f[i] = f[j] => i = j
        /\ \A i \in 0..k : i < k => nx[f[i]] = f[i + 1]
        /\ nx[f[k]] = Nil
        /\ last = f[k]
        /\ S = {f[i] : i \in 1..k}
  BY DEF Chain
<1>2. PICK p \in 0..k : f[p] = pos
  BY <1>1
<1>3. /\ ny[n] = nx[pos] /\ ny[pos] = n
      /\ \A a \in S \cup {h} : a # pos => ny[a] = nx[a]
      /\ n # pos /\ n # h /\ n \notin S
  BY Addresses DEF InsertAfterNext, Link, Addr
<1> DEFINE g == [i \in 0..(k + 1) |->
                   IF i <= p THEN f[i] ELSE IF i = p + 1 THEN n ELSE f[i - 1]]
<1>4. /\ \A i \in 0..p : g[i] = f[i]
      /\ g[p + 1] = n
      /\ \A i \in (p + 2)..(k + 1) : g[i] = f[i - 1]
  OBVIOUS
<1>5. g \in [0..(k + 1) -> (S \cup {n}) \cup {h}]
  BY <1>1
<1> HIDE DEF g, ny
<1>6. g[0] = h
  BY <1>1, <1>4
<1>7. \A i, j \in 0..(k + 1) : g[i] = g[j] => i = j
  <2>1. SUFFICES ASSUME NEW i \in 0..(k + 1), NEW j \in 0..(k + 1), g[i] = g[j], i < j
                 PROVE  FALSE
    BY <2>1
  <2>2. \A a \in 0..k : f[a] # n
    BY <1>1, <1>3
  <2>3. CASE j <= p
    BY <2>1, <2>3, <1>1, <1>4
  <2>4. CASE j = p + 1
    BY <2>1, <2>2, <2>4, <1>4
  <2>5. CASE j > p + 1
    <3>1. g[j] = f[j - 1] /\ j - 1 \in 0..k
      BY <2>5, <1>4
    <3>2. CASE i <= p
      BY <3>1, <3>2, <2>1, <2>5, <1>1, <1>4
    <3>3. CASE i = p + 1
      BY <3>1, <3>3, <2>1, <2>2, <1>4
    <3>4. CASE i > p + 1
      BY <3>1, <3>4, <2>1, <1>1, <1>4
    <3>. QED  BY <3>2, <3>3, <3>4
  <2>. QED  BY <2>3, <2>4, <2>5
<1>8. \A i \in 0..(k + 1) : i < k + 1 => ny[g[i]] = g[i + 1]
  <2>1. SUFFICES ASSUME NEW i \in 0..(k + 1), i < k + 1
                 PROVE  ny[g[i]] = g[i + 1]
    OBVIOUS
  <2>2. CASE i < p
    BY <2>1, <2>2, <1>1, <1>2, <1>3, <1>4
  <2>3. CASE i = p
    BY <2>3, <1>2, <1>3, <1>4
  <2>4. CASE i = p + 1
    BY <2>1, <2>4, <1>1, <1>2, <1>3, <1>4
  <2>5. CASE i > p + 1
    <3>1. g[i] = f[i - 1] /\ g[i + 1] = f[i] /\ i - 1 \in 0..k /\ i - 1 < k /\ i - 1 # p
      BY <2>1, <2>5, <1>4
    <3>2. nx[f[i - 1]] = f[i] /\ f[i - 1] # pos
      BY <3>1, <1>1, <1>2
    <3>. QED  BY <3>1, <3>2, <1>1, <1>3
  <2>. QED  BY <2>2, <2>3, <2>4, <2>5
<1>9. ny[g[k + 1]] = Nil /\ (IF pos = last THEN n ELSE last) = g[k + 1]
  <2>1. CASE p = k
    BY <2>1, <1>1, <1>2, <1>3, <1>4
  <2>2. CASE p < k
    BY <2>2, <1>1, <1>2, <1>3, <1>4
  <2>. QED  BY <2>1, <2>2
<1>10. S \cup {n} = {g[i] : i \in 1..(k + 1)}
  <2>1. \A i \in 1..(k + 1) : g[i] \in S \cup {n}
    BY <1>1, <1>4
  <2>2. \A i \in 1..k : \E j \in 1..(k + 1) : g[j] = f[i]
    <3>1. SUFFICES ASSUME NEW i \in 1..k  PROVE \E j \in 1..(k + 1) : g[j] = f[i]
      OBVIOUS
    <3>2. CASE i <= p
      BY <3>2, <1>4
    <3>3. CASE i > p
      <4>1. i + 1 \in 1..(k + 1) /\ g[i + 1] = f[i]
        BY <3>3, <1>4
      <4>. QED  BY <4>1
    <3>. QED  BY <3>2, <3>3
  <2>3. \E j \in 1..(k + 1) : g[j] = n
    BY <1>4
  <2>4. \A a \in S \cup {n} : \E j \in 1..(k + 1) : g[j] = a
    BY <2>2, <2>3, <1>1
  <2>. QED  BY <2>1, <2>4
<1>. QED
  BY <1>5, <1>6, <1>7, <1>8, <1>9, <1>10 DEF Chain, ny

\* extract_after: the node after a position is taken out, and its link reset.
LEMMA ChainExtract ==
    ASSUME NEW nx \in Link, NEW h \in Header, NEW k \in Nat, NEW last,
           NEW S \in SUBSET Node, Chain(nx, h, k, last, S),
           NEW pos \in S \cup {h}, nx[pos] # Nil
    PROVE  /\ nx[pos] \in S
           /\ k > 0
           /\ Chain(ExtractAfterNext(nx, pos), h, k - 1,
                    IF nx[pos] = last THEN pos ELSE last, S \ {nx[pos]})
<1> DEFINE ny == ExtractAfterNext(nx, pos)
           n == nx[pos]
<1>1. PICK f \in [0..k -> S \cup {h}] :
        /\ f[0] = h
        /\ \A i, j \in 0..k : f[i] = f[j] => i = j
        /\ \A i \in 0..k : i < k => nx[f[i]] = f[i + 1]
        /\ nx[f[k]] = Nil
        /\ last = f[k]
        /\ S = {f[i] : i \in 1..k}
  BY DEF Chain
<1>2. PICK p \in 0..k : f[p] = pos
  BY <1>1
<1>3. p < k /\ n = f[p + 1] /\ n \in S /\ p + 1 \in 1..k
  BY <1>1, <1>2
<1>4. /\ ny[n] = Nil /\ ny[pos] = nx[n]
      /\ \A a \in S \cup {h} : a # pos /\ a # n => ny[a] = nx[a]
      /\ n # pos /\ n # h
  BY <1>1, <1>2, <1>3, Addresses DEF ExtractAfterNext, Link, Addr
<1> DEFINE g == [i \in 0..(k - 1) |-> IF i <= p THEN f[i] ELSE f[i + 1]]
<1>5. /\ \A i \in 0..p : g[i] = f[i]
      /\ \A i \in (p + 1)..(k - 1) : g[i] = f[i + 1]
  BY <1>3
<1>6. \A i \in 0..k : i # p + 1 => f[i] # n
  BY <1>1, <1>3
<1> HIDE DEF n
<1>7. g \in [0..(k - 1) -> (S \ {n}) \cup {h}]
  <2>1. SUFFICES ASSUME NEW i \in 0..(k - 1)
                 PROVE  (IF i <= p THEN f[i] ELSE f[i + 1]) \in (S \ {n}) \cup {h}
    OBVIOUS
  <2>. QED  BY <1>1, <1>3, <1>6
<1> HIDE DEF g, ny
<1>8. g[0] = h
  BY <1>1, <1>5
<1>9. \A i, j \in 0..(k - 1) : g[i] = g[j] => i = j
  <2>1. \A i \in 0..(k - 1) : \E a \in 0..k :
          g[i] = f[a] /\ (i <= p => a = i) /\ (i > p => a = i + 1)
    <3>1. SUFFICES ASSUME NEW i \in 0..(k - 1)
                   PROVE \E a \in 0..k : g[i] = f[a] /\ (i <= p => a = i) /\ (i > p => a = i + 1)
      OBVIOUS
    <3>2. CASE i <= p
      BY <3>2, <1>3, <1>5
    <3>3. CASE i > p
      <4>1. g[i] = f[i + 1] /\ i + 1 \in 0..k
        BY <3>3, <1>5
      <4>. QED  BY <4>1, <3>3
    <3>. QED  BY <3>2, <3>3
  <2>2. SUFFICES ASSUME NEW i \in 0..(k - 1), NEW j \in 0..(k - 1), g[i] = g[j]
                 PROVE  i = j
    OBVIOUS
  <2>3. PICK a \in 0..k : g[i] = f[a] /\ (i <= p => a = i) /\ (i > p => a = i + 1)
    BY <2>1
  <2>4. PICK b \in 0..k : g[j] = f[b] /\ (j <= p => b = j) /\ (j > p => b = j + 1)
    BY <2>1
  <2>5. a = b
    BY <2>2, <2>3, <2>4, <1>1
  <2>. QED  BY <2>3, <2>4, <2>5
<1>10. \A i \in 0..(k - 1) : i < k - 1 => ny[g[i]] = g[i + 1]
  <2>1. SUFFICES ASSUME NEW i \in 0..(k - 1), i < k - 1
                 PROVE  ny[g[i]] = g[i + 1]
    OBVIOUS
  <2>2. CASE i < p
    <3>1. g[i] = f[i] /\ g[i + 1] = f[i + 1] /\ f[i] # pos /\ f[i] # n
      BY <2>2, <1>1, <1>2, <1>3, <1>5, <1>6
    <3>. QED  BY <3>1, <2>1, <1>1, <1>4
  <2>3. CASE i = p
    <3>1. g[i] = pos /\ g[i + 1] = f[p + 2] /\ nx[n] = f[p + 2]
      BY <2>1, <2>3, <1>1, <1>2, <1>3, <1>5
    <3>. QED  BY <3>1, <1>4
  <2>4. CASE i > p
    <3>1. g[i] = f[i + 1] /\ g[i + 1] = f[i + 2] /\ f[i + 1] # pos /\ f[i + 1] # n
      BY <2>1, <2>4, <1>1, <1>2, <1>3, <1>5, <1>6
    <3>2. i + 1 \in 0..k /\ i + 1 < k /\ (i + 1) + 1 = i + 2
      BY <2>1
    <3>3. nx[f[i + 1]] = f[i + 2] /\ f[i + 1] \in S \cup {h}
      BY <3>2, <1>1
    <3>. QED  BY <3>1, <3>3, <1>4
  <2>. QED  BY <2>2, <2>3, <2>4
<1>11. ny[g[k - 1]] = Nil /\ (IF n = last THEN pos ELSE last) = g[k - 1]
  <2>1. CASE p = k - 1
    BY <2>1, <1>1, <1>2, <1>3, <1>4, <1>5
  <2>2. CASE p < k - 1
    <3>1. g[k - 1] = f[k] /\ f[k] # pos /\ f[k] # n
      BY <2>2, <1>1, <1>2, <1>3, <1>5, <1>6
    <3>. QED  BY <3>1, <1>1, <1>4
  <2>. QED  BY <2>1, <2>2, <1>3
<1>12. S \ {n} = {g[i] : i \in 1..(k - 1)}
  <2>1. \A i \in 1..(k - 1) : g[i] \in S \ {n}
    <3>1. SUFFICES ASSUME NEW i \in 1..(k - 1)  PROVE g[i] \in S \ {n}
      OBVIOUS
    <3>2. g[i] # h
      BY <1>8, <1>9
    <3>. QED  BY <3>2, <1>7
  <2>2. \A a \in S \ {n} : \E j \in 1..(k - 1) : g[j] = a
    <3>1. SUFFICES ASSUME NEW a \in S \ {n}  PROVE \E j \in 1..(k - 1) : g[j] = a
      OBVIOUS
    <3>2. PICK i \in 1..k : a = f[i]
      BY <1>1
    <3>3. i # p + 1
      BY <3>1, <3>2, <1>3
    <3>4. CASE i <= p
      BY <3>2, <3>4, <1>3, <1>5
    <3>5. CASE i > p + 1
      <4>1. i - 1 \in 1..(k - 1) /\ g[i - 1] = f[i]
        BY <3>5, <1>5
      <4>. QED  BY <4>1, <3>2
    <3>. QED  BY <3>3, <3>4, <3>5
  <2>. QED  BY <2>1, <2>2
<1>13. Chain(ny, h, k - 1, IF n = last THEN pos ELSE last, S \ {n})
  BY <1>7, <1>8, <1>9, <1>10, <1>11, <1>12 DEF Chain
<1>. QED
  BY <1>3, <1>13 DEF ny, n

\* splice_after(pos, list): the whole of a second chain is linked after any
\* position of the first.
LEMMA ChainSplice ==
    ASSUME NEW nx \in Link,
           NEW h \in Header, NEW k \in Nat, NEW last, NEW S \in SUBSET Node,
           Chain(nx, h, k, last, S),
           NEW o \in Header, NEW q \in Nat, NEW olast, NEW T \in SUBSET Node,
           Chain(nx, o, q, olast, T),
           h # o, S \cap T = {}, nx[o] # Nil, NEW pos \in S \cup {h}
    PROVE  Chain(SpliceNext(nx, pos, o, olast), h, k + q,
                 IF pos = last THEN olast ELSE last, S \cup T)
<1> DEFINE ny == SpliceNext(nx, pos, o, olast)
<1>1. PICK f \in [0..k -> S \cup {h}] :
        /\ f[0] = h
        /\ \A i, j \in 0..k : f[i] = f[j] => i = j
        /\ \A i \in 0..k : i < k => nx[f[i]] = f[i + 1]
        /\ nx[f[k]] = Nil
        /\ last = f[k]
        /\ S = {f[i] : i \in 1..k}
  BY DEF Chain
<1>2. PICK e \in [0..q -> T \cup {o}] :
        /\ e[0] = o
        /\ \A i, j \in 0..q : e[i] = e[j] => i = j
        /\ \A i \in 0..q : i < q => nx[e[i]] = e[i + 1]
        /\ nx[e[q]] = Nil
        /\ olast = e[q]
        /\ T = {e[i] : i \in 1..q}
  BY DEF Chain
<1>3. PICK p \in 0..k : f[p] = pos
  BY <1>1
<1>4. q > 0 /\ nx[o] = e[1] /\ olast \in T
  BY <1>2
<1>5. /\ ny[pos] = e[1]
      /\ ny[olast] = nx[pos]
      /\ \A a \in S \cup T \cup {h} : a # pos /\ a # olast => ny[a] = nx[a]
      /\ pos # olast
  BY <1>4, Addresses DEF SpliceNext, Link, Addr
<1> DEFINE g == [i \in 0..(k + q) |-> IF i <= p THEN f[i]
                                      ELSE IF i <= p + q THEN e[i - p] ELSE f[i - q]]
\* The three segments of the new chain.
<1>6. /\ \A i \in 0..p : i \in 0..(k + q) /\ g[i] = f[i]
      /\ \A i \in 1..q : p + i \in 0..(k + q) /\ g[p + i] = e[i]
      /\ \A i \in (p + 1)..k : q + i \in 0..(k + q) /\ g[q + i] = f[i]
  <2>1. \A i \in 0..p : i \in 0..(k + q) /\ g[i] = f[i]
    OBVIOUS
  <2>2. ASSUME NEW i \in 1..q  PROVE p + i \in 0..(k + q) /\ g[p + i] = e[i]
    <3>1. p + i \in 0..(k + q) /\ ~(p + i <= p) /\ p + i <= p + q /\ (p + i) - p = i
      OBVIOUS
    <3>. QED  BY <3>1
  <2>3. ASSUME NEW i \in (p + 1)..k  PROVE q + i \in 0..(k + q) /\ g[q + i] = f[i]
    <3>1. q + i \in 0..(k + q) /\ ~(q + i <= p) /\ ~(q + i <= p + q) /\ (q + i) - q = i
      BY <1>4
    <3>. QED  BY <3>1
  <2>. QED  BY <2>1, <2>2, <2>3
<1>7. \A i \in 0..(k + q) : \/ i \in 0..p
                            \/ \E a \in 1..q : i = p + a
                            \/ \E a \in (p + 1)..k : i = q + a
  <2>1. ASSUME NEW i \in 0..(k + q), i > p, i <= p + q  PROVE i - p \in 1..q /\ i = p + (i - p)
    BY <2>1
  <2>2. ASSUME NEW i \in 0..(k + q), i > p + q  PROVE i - q \in (p + 1)..k /\ i = q + (i - q)
    BY <2>2
  <2>3. ASSUME NEW i \in 0..(k + q), ~(i > p)  PROVE i \in 0..p
    BY <2>3
  <2>. QED  BY <2>1, <2>2, <2>3
<1>8. g \in [0..(k + q) -> (S \cup T) \cup {h}]
  <2>1. SUFFICES ASSUME NEW i \in 0..(k + q)  PROVE g[i] \in (S \cup T) \cup {h}
    OBVIOUS
  <2>2. \A a \in 1..q : e[a] \in T
    BY <1>2
  <2> HIDE DEF g
  <2>. QED  BY <2>1, <2>2, <1>1, <1>6, <1>7
<1> HIDE DEF g, ny
<1>9. g[0] = h
  BY <1>1, <1>6
<1>10. \A i, j \in 0..(k + q) : g[i] = g[j] => i = j
  <2>1. \A a \in 0..k, b \in 1..q : f[a] # e[b]
    <3>1. \A a \in 0..k : f[a] \in S \cup {h}
      BY <1>1
    <3>2. \A b \in 1..q : e[b] \in T
      BY <1>2
    <3>. QED  BY <3>1, <3>2, Addresses
  <2>2. SUFFICES ASSUME NEW i \in 0..(k + q), NEW j \in 0..(k + q), g[i] = g[j]  PROVE i = j
    OBVIOUS
  <2>3. ASSUME i \in 0..p  PROVE i = j
    BY <2>1, <2>2, <2>3, <1>1, <1>6, <1>7
  <2>4. ASSUME NEW a \in 1..q, i = p + a  PROVE i = j
    <3>1. g[i] = e[a]
      BY <2>4, <1>6
    <3>2. CASE j \in 0..p
      <4>1. g[j] = f[j] /\ j \in 0..k
        BY <3>2, <1>6
      <4>. QED  BY <4>1, <2>1, <2>2, <3>1
    <3>3. ASSUME NEW b \in 1..q, j = p + b  PROVE i = j
      <4>1. g[j] = e[b] /\ a \in 0..q /\ b \in 0..q
        BY <3>3, <1>6
      <4>2. a = b
        BY <4>1, <2>2, <3>1, <1>2
      <4>. QED  BY <4>2, <2>4, <3>3
    <3>4. ASSUME NEW b \in (p + 1)..k, j = q + b  PROVE i = j
      <4>1. g[j] = f[b] /\ b \in 0..k
        BY <3>4, <1>6
      <4>. QED  BY <4>1, <2>1, <2>2, <3>1
    <3>5. \/ j \in 0..p
          \/ \E b \in 1..q : j = p + b
          \/ \E b \in (p + 1)..k : j = q + b
      BY <1>7
    <3>. QED  BY <3>2, <3>3, <3>4, <3>5
  <2>5. ASSUME NEW a \in (p + 1)..k, i = q + a  PROVE i = j
    <3>1. g[i] = f[a] /\ a \in 0..k
      BY <2>5, <1>6
    <3>2. CASE j \in 0..p
      <4>1. g[j] = f[j] /\ j \in 0..k
        BY <3>2, <1>6
      <4>2. a = j
        BY <4>1, <2>2, <3>1, <1>1
      <4>. QED  BY <4>2, <2>5, <3>2
    <3>3. ASSUME NEW b \in 1..q, j = p + b  PROVE i = j
      <4>1. g[j] = e[b]
        BY <3>3, <1>6
      <4>. QED  BY <4>1, <2>1, <2>2, <3>1
    <3>4. ASSUME NEW b \in (p + 1)..k, j = q + b  PROVE i = j
      <4>1. g[j] = f[b] /\ b \in 0..k
        BY <3>4, <1>6
      <4>2. a = b
        BY <4>1, <2>2, <3>1, <1>1
      <4>. QED  BY <4>2, <2>5, <3>4
    <3>5. \/ j \in 0..p
          \/ \E b \in 1..q : j = p + b
          \/ \E b \in (p + 1)..k : j = q + b
      BY <1>7
    <3>. QED  BY <3>2, <3>3, <3>4, <3>5
  <2>. QED  BY <2>3, <2>4, <2>5, <1>7
<1>11. \A i \in 0..(k + q) : i < k + q => ny[g[i]] = g[i + 1]
  <2>1. SUFFICES ASSUME NEW i \in 0..(k + q), i < k + q  PROVE ny[g[i]] = g[i + 1]
    OBVIOUS
  <2>2. CASE i \in 0..p /\ i < p
    <3>0. i + 1 \in 0..p /\ i \in 0..k /\ p \in 0..k /\ i # p
      BY <2>2
    <3> HIDE DEF g
    <3>a. g[i] = f[i] /\ g[i + 1] = f[i + 1]
      BY <2>2, <3>0, <1>6
    <3>b. f[i] \in S \cup {h}
      BY <3>0, <1>1
    <3>c. f[i] # pos
      BY <3>0, <1>1, <1>3
    <3>1. g[i] = f[i] /\ g[i + 1] = f[i + 1] /\ f[i] \in S \cup {h} /\ f[i] # pos
      BY <3>a, <3>b, <3>c
    <3>2. f[i] # olast /\ nx[f[i]] = f[i + 1]
      BY <2>2, <3>1, <1>1, <1>4, Addresses
    <3>. QED  BY <3>1, <3>2, <1>5
  <2>3. CASE i = p
    BY <2>3, <1>3, <1>4, <1>5, <1>6
  <2>4. ASSUME NEW a \in 1..q, i = p + a, a < q  PROVE ny[g[i]] = g[i + 1]
    <3>1. a + 1 \in 1..q /\ i + 1 = p + (a + 1)
      BY <2>4
    <3>2. g[i] = e[a] /\ g[i + 1] = e[a + 1]
      BY <2>4, <3>1, <1>6
    <3>3. e[a] \in T /\ e[a] # olast /\ nx[e[a]] = e[a + 1]
      BY <2>4, <1>2
    <3>4. e[a] # pos
      BY <3>3, Addresses
    <3>. QED  BY <3>2, <3>3, <3>4, <1>5
  <2>5. CASE i = p + q
    <3>1. p < k /\ p + 1 \in (p + 1)..k /\ i + 1 = q + (p + 1)
      BY <2>1, <2>5
    <3>2. g[i] = olast /\ g[i + 1] = f[p + 1]
      BY <2>5, <3>1, <1>2, <1>4, <1>6
    <3>. QED  BY <3>1, <3>2, <1>1, <1>3, <1>5
  <2>6. ASSUME NEW a \in (p + 1)..k, i = q + a  PROVE ny[g[i]] = g[i + 1]
    <3>1. a < k /\ a \in 0..k /\ a + 1 \in (p + 1)..k /\ i + 1 = q + (a + 1)
      BY <2>1, <2>6
    <3>2. g[i] = f[a] /\ g[i + 1] = f[a + 1]
      BY <2>6, <3>1, <1>6
    <3>3. f[a] \in S \cup {h} /\ f[a] # pos /\ f[a] # olast /\ nx[f[a]] = f[a + 1]
      BY <2>6, <3>1, <1>1, <1>3, <1>4, Addresses
    <3>. QED  BY <3>2, <3>3, <1>5
  <2>7. i \in 0..p => i < p \/ i = p
    OBVIOUS
  <2>8. \A a \in 1..q : i = p + a => a < q \/ i = p + q
    OBVIOUS
  <2>. QED  BY <2>2, <2>3, <2>4, <2>5, <2>6, <2>7, <2>8, <1>7
<1>12. ny[g[k + q]] = Nil /\ (IF pos = last THEN olast ELSE last) = g[k + q]
  <2>1. CASE p = k
    <3>1. g[k + q] = olast /\ pos = last
      BY <2>1, <1>1, <1>2, <1>3, <1>4, <1>6
    <3>. QED  BY <3>1, <2>1, <1>1, <1>5
  <2>2. CASE p < k
    <3>1. k \in (p + 1)..k /\ q + k = k + q
      BY <2>2
    <3>2. g[k + q] = last /\ pos # last /\ last \in S \cup {h} /\ last # olast /\ nx[last] = Nil
      BY <2>2, <3>1, <1>1, <1>3, <1>4, <1>6, Addresses
    <3>. QED  BY <3>2, <1>5
  <2>. QED  BY <2>1, <2>2
<1>13. S \cup T = {g[i] : i \in 1..(k + q)}
  <2>1. \A i \in 1..(k + q) : g[i] \in S \cup T
    BY <1>8, <1>9, <1>10
  <2>2. \A i \in 0..(k + q) : g[i] # h => i \in 1..(k + q)
    BY <1>9
  <2>3. ASSUME NEW a \in S  PROVE \E j \in 1..(k + q) : g[j] = a
    <3>1. PICK i \in 1..k : a = f[i]
      BY <1>1
    <3>2. i \in 0..p \/ i \in (p + 1)..k
      OBVIOUS
    <3>3. a # h
      BY Addresses
    <3>4. \E j \in 0..(k + q) : g[j] = a
      BY <3>1, <3>2, <1>6
    <3>. QED  BY <3>3, <3>4, <2>2
  <2>4. ASSUME NEW a \in T  PROVE \E j \in 1..(k + q) : g[j] = a
    BY <1>2, <1>6, <2>2, Addresses
  <2>. QED  BY <2>1, <2>3, <2>4
<1>14. k + q \in Nat
  OBVIOUS
<1>. QED
  BY <1>8, <1>9, <1>10, <1>11, <1>12, <1>13 DEF Chain, ny

\* reverse: the same nodes in the opposite order; the old first is the last.
LEMMA ChainReverse ==
    ASSUME NEW nx \in Link, NEW h \in Header, NEW k \in Nat, NEW last,
           NEW S \in SUBSET Node, Chain(nx, h, k, last, S), k > 0
    PROVE  Chain(ReverseNext(nx, h, last, S), h, k, nx[h], S)
<1> DEFINE ny == ReverseNext(nx, h, last, S)
<1>1. PICK f \in [0..k -> S \cup {h}] :
        /\ f[0] = h
        /\ \A i, j \in 0..k : f[i] = f[j] => i = j
        /\ \A i \in 0..k : i < k => nx[f[i]] = f[i + 1]
        /\ nx[f[k]] = Nil
        /\ last = f[k]
        /\ S = {f[i] : i \in 1..k}
  BY DEF Chain
<1>2. \A i \in 1..k : f[i] \in S /\ f[i] # h /\ i - 1 \in 0..k /\ i - 1 < k
  BY <1>1
<1>3. ASSUME NEW i \in 1..k  PROVE Before(nx, h, S, f[i]) = f[i - 1]
  <2>1. f[i - 1] \in S \cup {h} /\ nx[f[i - 1]] = f[i]
    <3>1. (i - 1) + 1 = i
      OBVIOUS
    <3>. QED  BY <3>1, <1>1, <1>2
  <2>2. ASSUME NEW a \in S \cup {h}, nx[a] = f[i]  PROVE a = f[i - 1]
    <3>1. PICK j \in 0..k : a = f[j]
      BY <1>1
    <3>2. j < k
      BY <2>2, <3>1, <1>1, <1>2, Addresses
    <3>3. f[j + 1] = f[i] /\ j + 1 \in 0..k
      BY <2>2, <3>1, <3>2, <1>1
    <3>4. j + 1 = i
      BY <3>3, <1>1
    <3>. QED  BY <3>1, <3>4
  <2>. QED  BY <2>1, <2>2 DEF Before
<1>4. /\ ny[h] = last
      /\ \A i \in 1..k : ny[f[i]] = IF i = 1 THEN Nil ELSE f[i - 1]
  <2>1. ny[h] = last
    BY DEF ReverseNext, Addr
  <2>2. ASSUME NEW i \in 1..k  PROVE ny[f[i]] = IF i = 1 THEN Nil ELSE f[i - 1]
    <3>1. ny[f[i]] = IF f[i - 1] = h THEN Nil ELSE f[i - 1]
      BY <1>2, <1>3 DEF ReverseNext, Addr
    <3>2. f[i - 1] = h <=> i = 1
      BY <1>1, <1>2
    <3>. QED  BY <3>1, <3>2
  <2>. QED  BY <2>1, <2>2
<1> DEFINE g == [i \in 0..k |-> IF i = 0 THEN h ELSE f[(k + 1) - i]]
<1>5. /\ g[0] = h
      /\ \A i \in 1..k : g[i] = f[(k + 1) - i] /\ (k + 1) - i \in 1..k
  OBVIOUS
<1>6. g \in [0..k -> S \cup {h}]
  BY <1>2
<1> HIDE DEF g, ny
<1>7. \A i, j \in 0..k : g[i] = g[j] => i = j
  <2>1. \A i \in 1..k : g[i] # h
    BY <1>2, <1>5
  <2>2. ASSUME NEW i \in 1..k, NEW j \in 1..k, g[i] = g[j]  PROVE i = j
    <3>1. /\ (k + 1) - i \in 0..k /\ (k + 1) - j \in 0..k
          /\ f[(k + 1) - i] = f[(k + 1) - j]
      BY <2>2, <1>5
    <3>2. (k + 1) - i = (k + 1) - j
      BY <3>1, <1>1
    <3>. QED  BY <3>2
  <2>. QED  BY <2>1, <2>2, <1>5
<1>8. \A i \in 0..k : i < k => ny[g[i]] = g[i + 1]
  <2>1. SUFFICES ASSUME NEW i \in 0..k, i < k  PROVE ny[g[i]] = g[i + 1]
    OBVIOUS
  <2>2. g[i + 1] = f[k - i]
    <3>1. i + 1 \in 1..k /\ (k + 1) - (i + 1) = k - i
      BY <2>1
    <3>. QED  BY <3>1, <1>5
  <2>3. CASE i = 0
    BY <2>2, <2>3, <1>1, <1>4, <1>5
  <2>4. CASE i > 0
    <3>1. (k + 1) - i \in 1..k /\ (k + 1) - i # 1 /\ ((k + 1) - i) - 1 = k - i
      BY <2>1, <2>4
    <3>2. g[i] = f[(k + 1) - i]
      BY <2>4, <1>5
    <3>. QED  BY <2>2, <3>1, <3>2, <1>4
  <2>. QED  BY <2>3, <2>4
<1>9. ny[g[k]] = Nil /\ nx[h] = g[k]
  <2>1. g[k] = f[1] /\ 1 \in 1..k
    <3>1. k \in 1..k /\ (k + 1) - k = 1
      OBVIOUS
    <3>. QED  BY <3>1, <1>5
  <2>2. nx[h] = f[1]
    BY <1>1
  <2>. QED  BY <2>1, <2>2, <1>4
<1>10. S = {g[i] : i \in 1..k}
  <2>1. \A i \in 1..k : g[i] \in S
    BY <1>2, <1>5
  <2>2. ASSUME NEW a \in S  PROVE \E j \in 1..k : g[j] = a
    <3>1. PICK i \in 1..k : a = f[i]
      BY <1>1
    <3>2. (k + 1) - i \in 1..k /\ (k + 1) - ((k + 1) - i) = i
      OBVIOUS
    <3>. QED  BY <3>1, <3>2, <1>5
  <2>. QED  BY <2>1, <2>2
<1>. QED
  BY <1>5, <1>6, <1>7, <1>8, <1>9, <1>10 DEF Chain, ny

------------------------------------------------------------------------------
(* The invariant, of arbitrary values of the variables: all the headers at *)
(* once, and the nodes in the caller's hands.                              *)

On(wh, h) == {n \in Node : wh[n] = h}

Good(nx, pv, ct, wh) ==
    /\ nx \in Link
    /\ pv \in [Header -> Addr]
    /\ ct \in [Header -> Nat]
    /\ wh \in [Node -> Header \cup {Free, User}]
    /\ \A h \in Header : Chain(nx, h, ct[h], pv[h], On(wh, h))
    /\ \A n \in Node : wh[n] = User => nx[n] = Nil

\* create_node puts a node in the caller's hands.
LEMMA GoodCreate ==
    ASSUME NEW nx, NEW pv, NEW ct, NEW wh, Good(nx, pv, ct, wh),
           NEW n \in Node, wh[n] = Free
    PROVE  Good([nx EXCEPT ![n] = Nil], pv, ct, [wh EXCEPT ![n] = User])
<1> DEFINE ny == [nx EXCEPT ![n] = Nil]
           wi == [wh EXCEPT ![n] = User]
<1>1. ny \in Link /\ wi \in [Node -> Header \cup {Free, User}]
  BY DEF Good, Link, Addr
<1>2. ASSUME NEW h \in Header  PROVE Chain(ny, h, ct[h], pv[h], On(wi, h))
  <2>1. On(wi, h) = On(wh, h) /\ n \notin On(wh, h) /\ n # h
    BY Addresses DEF Good, On
  <2>2. \A p \in On(wh, h) \cup {h} : ny[p] = nx[p]
    BY <2>1 DEF Good, Link, Addr, On
  <2>3. Chain(nx, h, ct[h], pv[h], On(wh, h)) /\ ct[h] \in Nat
    BY DEF Good
  <2> HIDE DEF ny, wi
  <2>. QED  BY <2>1, <2>2, <2>3, ChainFrame
<1>3. \A m \in Node : wi[m] = User => ny[m] = Nil
  BY DEF Good, Link, Addr
<1>. QED
  BY <1>1, <1>2, <1>3 DEF Good

\* Linking a node held by the caller after a position of h.
LEMMA GoodInsert ==
    ASSUME NEW nx, NEW pv, NEW ct, NEW wh, Good(nx, pv, ct, wh),
           NEW h \in Header, NEW n \in Node, wh[n] = User, NEW pos \in On(wh, h) \cup {h}
    PROVE  Good(InsertAfterNext(nx, pos, n), InsertAfterPrev(pv, h, pos, n),
                [ct EXCEPT ![h] = @ + 1], [wh EXCEPT ![n] = h])
<1> DEFINE ny == InsertAfterNext(nx, pos, n)
           pw == InsertAfterPrev(pv, h, pos, n)
           cu == [ct EXCEPT ![h] = @ + 1]
           wi == [wh EXCEPT ![n] = h]
<1>1. /\ ny \in Link
      /\ pw \in [Header -> Addr]
      /\ cu \in [Header -> Nat]
      /\ wi \in [Node -> Header \cup {Free, User}]
  BY DEF Good, Link, Addr, On, InsertAfterNext, InsertAfterPrev
<1>2. /\ \A a \in Addr : a # n /\ a # pos => ny[a] = nx[a]
      /\ pw[h] = IF pos = pv[h] THEN n ELSE pv[h]
      /\ cu[h] = ct[h] + 1
      /\ \A g \in Header : g # h => pw[g] = pv[g] /\ cu[g] = ct[g]
  BY DEF Good, Link, InsertAfterNext, InsertAfterPrev
<1>3. /\ On(wi, h) = On(wh, h) \cup {n}
      /\ \A g \in Header : g # h => On(wi, g) = On(wh, g)
      /\ \A g \in Header : n \notin On(wh, g) \cup {g}
      /\ \A g \in Header : g # h => pos \notin On(wh, g) \cup {g}
  BY Addresses DEF Good, On
<1>4. \A g \in Header : /\ Chain(nx, g, ct[g], pv[g], On(wh, g))
                        /\ ct[g] \in Nat
                        /\ On(wh, g) \in SUBSET Node
  BY DEF Good, On
<1>5. \A m \in Node : wi[m] = User => ny[m] = Nil
  <2>1. SUFFICES ASSUME NEW m \in Node, wi[m] = User  PROVE ny[m] = Nil
    OBVIOUS
  <2>2. m # n /\ wh[m] = User /\ m # pos
    BY <2>1, Addresses DEF Good, On
  <2>. QED  BY <2>2, <1>2 DEF Good, Addr
<1>6. nx \in Link
  BY DEF Good
<1>7. Chain(ny, h, cu[h], pw[h], On(wi, h))
  <2>1. n \in Node \ On(wh, h)
    BY <1>3
  <2>2. Chain(ny, h, ct[h] + 1, IF pos = pv[h] THEN n ELSE pv[h], On(wh, h) \cup {n})
    BY <2>1, <1>4, <1>6, ChainInsert
  <2> HIDE DEF ny, pw, cu, wi
  <2>. QED  BY <2>2, <1>2, <1>3
<1>8. ASSUME NEW g \in Header, g # h  PROVE Chain(ny, g, cu[g], pw[g], On(wi, g))
  <2>1. \A p \in On(wh, g) \cup {g} : ny[p] = nx[p]
    BY <1>2, <1>3, <1>8 DEF On, Addr
  <2>2. Chain(nx, g, ct[g], pv[g], On(wh, g)) /\ ct[g] \in Nat
    BY <1>4
  <2> HIDE DEF ny, pw, cu, wi
  <2>3. Chain(ny, g, ct[g], pv[g], On(wh, g))
    BY <2>1, <2>2, ChainFrame
  <2>. QED  BY <2>3, <1>2, <1>3, <1>8
<1>. QED
  <2> HIDE DEF ny, pw, cu, wi
  <2>1. Good(ny, pw, cu, wi)
    BY <1>1, <1>5, <1>7, <1>8 DEF Good
  <2>. QED  BY <2>1 DEF ny, pw, cu, wi

\* Taking out the node after a position of h.
LEMMA GoodExtract ==
    ASSUME NEW nx, NEW pv, NEW ct, NEW wh, Good(nx, pv, ct, wh),
           NEW h \in Header, NEW pos \in On(wh, h) \cup {h}, nx[pos] # Nil,
           NEW to \in {User, Free}
    PROVE  /\ wh[nx[pos]] = h
           /\ nx[pos] \in Node
           /\ Good(ExtractAfterNext(nx, pos), ExtractAfterPrev(pv, nx, h, pos),
                   [ct EXCEPT ![h] = @ - 1], [wh EXCEPT ![nx[pos]] = to])
<1> DEFINE n == nx[pos]
           ny == ExtractAfterNext(nx, pos)
           pw == ExtractAfterPrev(pv, nx, h, pos)
           cu == [ct EXCEPT ![h] = @ - 1]
           wi == [wh EXCEPT ![n] = to]
<1>1. \A g \in Header : /\ Chain(nx, g, ct[g], pv[g], On(wh, g))
                        /\ ct[g] \in Nat
                        /\ On(wh, g) \in SUBSET Node
  BY DEF Good, On
<1>2. nx \in Link
  BY DEF Good
<1>3. /\ n \in On(wh, h)
      /\ ct[h] > 0
      /\ Chain(ny, h, ct[h] - 1, IF n = pv[h] THEN pos ELSE pv[h], On(wh, h) \ {n})
  BY <1>1, <1>2, ChainExtract
<1>4. n \in Node /\ wh[n] = h
  BY <1>3 DEF On
<1>5. /\ ny \in Link
      /\ pw \in [Header -> Addr]
      /\ cu \in [Header -> Nat]
      /\ wi \in [Node -> Header \cup {Free, User}]
  BY <1>3, <1>4 DEF Good, Link, Addr, On, ExtractAfterNext, ExtractAfterPrev
<1>6. /\ \A a \in Addr : a # n /\ a # pos => ny[a] = nx[a]
      /\ ny[n] = Nil
      /\ pw[h] = IF n = pv[h] THEN pos ELSE pv[h]
      /\ cu[h] = ct[h] - 1
      /\ \A g \in Header : g # h => pw[g] = pv[g] /\ cu[g] = ct[g]
  BY <1>4 DEF Good, Link, Addr, ExtractAfterNext, ExtractAfterPrev
<1>7. /\ On(wi, h) = On(wh, h) \ {n}
      /\ \A g \in Header : g # h => On(wi, g) = On(wh, g)
      /\ \A g \in Header : g # h => n \notin On(wh, g) \cup {g} /\ pos \notin On(wh, g) \cup {g}
  BY <1>4, Addresses DEF Good, On
<1>8. \A m \in Node : wi[m] = User => ny[m] = Nil
  <2>1. SUFFICES ASSUME NEW m \in Node, wi[m] = User  PROVE ny[m] = Nil
    OBVIOUS
  <2>2. CASE m # n
    <3>1. wh[m] = User /\ m # pos
      BY <2>1, <2>2, <1>4, Addresses DEF Good, On
    <3>. QED  BY <3>1, <2>2, <1>6 DEF Good, Addr
  <2>. QED  BY <2>2, <1>6
<1>9. ASSUME NEW g \in Header, g # h  PROVE Chain(ny, g, cu[g], pw[g], On(wi, g))
  <2>1. \A p \in On(wh, g) \cup {g} : ny[p] = nx[p]
    BY <1>6, <1>7, <1>9 DEF On, Addr
  <2>2. Chain(nx, g, ct[g], pv[g], On(wh, g)) /\ ct[g] \in Nat
    BY <1>1
  <2> HIDE DEF n, ny, pw, cu, wi
  <2>3. Chain(ny, g, ct[g], pv[g], On(wh, g))
    BY <2>1, <2>2, ChainFrame
  <2>. QED  BY <2>3, <1>6, <1>7, <1>9
<1>. QED
  <2> HIDE DEF n, ny, pw, cu, wi
  <2>1. Good(ny, pw, cu, wi)
    BY <1>3, <1>5, <1>6, <1>7, <1>8, <1>9 DEF Good
  <2>. QED  BY <2>1, <1>4 DEF n, ny, pw, cu, wi

\* What the assertions of the source say of an arbitrary state.
LEMMA GoodEmpty ==
    ASSUME NEW nx, NEW pv, NEW ct, NEW wh, Good(nx, pv, ct, wh), NEW h \in Header
    PROVE  /\ nx[h] = Nil <=> pv[h] = h
           /\ nx[h] = Nil <=> ct[h] = 0
           /\ pv[h] \in On(wh, h) \cup {h}
           /\ nx[pv[h]] = Nil
           /\ \A p \in On(wh, h) \cup {h} : nx[p] # Nil => nx[p] \in On(wh, h)
<1>1. /\ Chain(nx, h, ct[h], pv[h], On(wh, h))
      /\ ct[h] \in Nat
      /\ On(wh, h) \in SUBSET Node
  BY DEF Good, On
<1>. QED
  BY <1>1, ChainEmpty

------------------------------------------------------------------------------
(* The specification.                                                      *)

\* The inductive invariant: the three invariants the runs check, together.
IInv == TypeOK /\ ChainInv /\ LooseReset

LEMMA IInvGood ==
    IInv <=> /\ header_ \in {f \in [List -> Header] : Injective(f)}
             /\ Good(next, prev, count, where)
BY DEF IInv, TypeOK, ChainInv, LooseReset, Good, Link, Members, On

LEMMA GoodIInv ==
    ASSUME header_' \in {f \in [List -> Header] : Injective(f)},
           Good(next', prev', count', where')
    PROVE  IInv'
BY DEF IInv, TypeOK, ChainInv, LooseReset, Good, Link, Members, On, Addr

\* The state after create_node, or after an earlier extract.
LEMMA ReadyGood ==
    ASSUME IInv, NEW n \in Node, Linkable(n)
    PROVE  Good(NodeReady(n), prev, count, [where EXCEPT ![n] = User])
<1>1. Good(next, prev, count, where)
  BY IInvGood
<1>2. CASE where[n] = Free
  BY <1>1, <1>2, GoodCreate DEF NodeReady
<1>3. CASE where[n] = User
  <2>1. [where EXCEPT ![n] = User] = where /\ NodeReady(n) = next
    BY <1>1, <1>3, Addresses DEF Good, NodeReady
  <2>. QED  BY <1>1, <2>1
<1>. QED
  BY <1>2, <1>3 DEF Linkable

LEMMA InsertAfterStep ==
    ASSUME IInv, NEW l \in List, NEW n \in Node, NEW pos, InsertAfter(l, pos, n)
    PROVE  IInv'
<1> DEFINE h == header_[l]
           wh == [where EXCEPT ![n] = User]
<1>1. h \in Header /\ Linkable(n) /\ pos \in Members(h) \cup {h}
  BY DEF InsertAfter, Positions, IInv, TypeOK
<1>2. Good(NodeReady(n), prev, count, wh)
  BY <1>1, ReadyGood
<1>3. where \in [Node -> Header \cup {Free, User}]
  BY DEF IInv, TypeOK
<1>4. wh[n] = User /\ pos \in On(wh, h) \cup {h} /\ where' = [wh EXCEPT ![n] = h]
  BY <1>1, <1>3, Addresses DEF Linkable, Members, On, InsertAfter
<1> HIDE DEF h, wh
<1>5. Good(InsertAfterNext(NodeReady(n), pos, n), InsertAfterPrev(prev, h, pos, n),
           [count EXCEPT ![h] = @ + 1], [wh EXCEPT ![n] = h])
  BY <1>1, <1>2, <1>4, GoodInsert
<1>6. Good(next', prev', count', where')
  BY <1>4, <1>5 DEF InsertAfter, h
<1>. QED
  BY <1>6, GoodIInv DEF InsertAfter, IInv, TypeOK

\* push_front(x) is insert_after(before_begin(), x).
LEMMA PushFrontIsInsertAfter ==
    ASSUME IInv, NEW l \in List, NEW n \in Node, PushFront(l, n)
    PROVE  InsertAfter(l, header_[l], n)
<1> DEFINE h == header_[l]
<1>1. h \in Header /\ Linkable(n)
  BY DEF PushFront, IInv, TypeOK
<1>2. Good(NodeReady(n), prev, count, [where EXCEPT ![n] = User])
  BY <1>1, ReadyGood
<1>3. NodeReady(n)[h] = Nil <=> prev[h] = h
  BY <1>1, <1>2, GoodEmpty
<1>. QED
  BY <1>1, <1>3 DEF PushFront, InsertAfter, PushFrontNext, PushFrontPrev,
                    InsertAfterNext, InsertAfterPrev, Positions

\* push_back(x) is insert_after(before_end(), x), because the next of x is Nil.
LEMMA PushBackIsInsertAfter ==
    ASSUME IInv, NEW l \in List, NEW n \in Node, PushBack(l, n)
    PROVE  InsertAfter(l, prev[header_[l]], n)
<1> DEFINE h == header_[l]
           nx == NodeReady(n)
           wh == [where EXCEPT ![n] = User]
<1>1. h \in Header /\ Linkable(n)
  BY DEF PushBack, IInv, TypeOK
<1>2. Good(nx, prev, count, wh)
  BY <1>1, ReadyGood
<1>3. Good(next, prev, count, where)
  BY IInvGood
<1>4. prev[h] \in Positions(h)
  BY <1>1, <1>3, GoodEmpty DEF Positions, Members, On
<1>5. nx[prev[h]] = Nil /\ nx[n] = Nil /\ nx \in Link
  <2>1. wh[n] = User
    BY <1>3 DEF Good
  <2> HIDE DEF h, nx, wh
  <2>. QED  BY <1>1, <1>2, <2>1, GoodEmpty DEF Good
<1>6. PushBackNext(nx, prev, h, n) = InsertAfterNext(nx, prev[h], n)
  <2>1. PushBackNext(nx, prev, h, n) = [nx EXCEPT ![prev[h]] = n]
    BY DEF PushBackNext
  <2>2. [nx EXCEPT ![n] = nx[prev[h]], ![prev[h]] = n] = [nx EXCEPT ![prev[h]] = n]
    <3> HIDE DEF h, nx
    <3>. QED  BY <1>5 DEF Link
  <2>. QED  BY <2>1, <2>2 DEF InsertAfterNext
<1>. QED
  BY <1>4, <1>6 DEF PushBack, InsertAfter, PushBackPrev, InsertAfterPrev

LEMMA TakeAfterStep ==
    ASSUME IInv, NEW l \in List, NEW pos, NEW to \in {User, Free}, TakeAfter(l, pos, to)
    PROVE  IInv'
<1>1. header_[l] \in Header /\ pos \in On(where, header_[l]) \cup {header_[l]} /\ next[pos] # Nil
  BY DEF TakeAfter, Positions, Members, On, IInv, TypeOK
<1>2. Good(next, prev, count, where)
  BY IInvGood
<1>3. Good(next', prev', count', where')
  BY <1>1, <1>2, GoodExtract DEF TakeAfter
<1>. QED
  BY <1>3, GoodIInv DEF TakeAfter, IInv, TypeOK

\* extract_front() is extract_after(before_begin()).
LEMMA TakeFrontIsTakeAfter ==
    ASSUME IInv, NEW l \in List, NEW to \in {User, Free}, TakeFront(l, to)
    PROVE  TakeAfter(l, header_[l], to)
<1> DEFINE h == header_[l]
           n == next[h]
<1>1. h \in Header /\ n # Nil
  BY DEF TakeFront, IInv, TypeOK
<1>2. Good(next, prev, count, where)
  BY IInvGood
<1>3. Chain(next, h, count[h], prev[h], On(where, h)) /\ count[h] \in Nat /\ On(where, h) \in SUBSET Node
  BY <1>1, <1>2 DEF Good, On
\* The first node is the last one exactly when it has no successor.
<1>4. next[n] = Nil <=> n = prev[h]
  <2> DEFINE k == count[h]
  <2>1. PICK f \in [0..k -> On(where, h) \cup {h}] :
          /\ f[0] = h
          /\ \A i, j \in 0..k : f[i] = f[j] => i = j
          /\ \A i \in 0..k : i < k => next[f[i]] = f[i + 1]
          /\ next[f[k]] = Nil
          /\ prev[h] = f[k]
          /\ On(where, h) = {f[i] : i \in 1..k}
    BY <1>3 DEF Chain
  <2> HIDE DEF k
  <2>2. k \in Nat /\ k # 0
    BY <1>1, <1>3, <2>1 DEF k
  <2>3. n = f[1] /\ 1 \in 0..k
    BY <2>1, <2>2
  <2>4. CASE k = 1
    BY <2>1, <2>3, <2>4
  <2>5. CASE k > 1
    <3>1. 2 \in 0..k /\ k \in 0..k /\ 1 < k /\ 1 + 1 = 2
      BY <2>2, <2>5
    <3>2. next[n] = f[2] /\ f[2] \in On(where, h) \cup {h}
      BY <2>1, <2>3, <3>1
    <3>3. f[1] # f[k]
      BY <2>1, <2>3, <3>1
    <3>. QED  BY <3>2, <3>3, <2>1, <2>3, <1>1, Addresses DEF On
  <2>. QED  BY <2>2, <2>4, <2>5
<1>. QED
  BY <1>1, <1>4 DEF TakeFront, TakeAfter, ExtractFrontNext, ExtractFrontPrev,
                    ExtractAfterNext, ExtractAfterPrev, Positions

LEMMA ClearStep ==
    ASSUME IInv, NEW l \in List, Clear(l)
    PROVE  IInv'
<1> DEFINE h == header_[l]
<1>1. Good(next, prev, count, where) /\ h \in Header
  BY IInvGood DEF IInv, TypeOK
<1>2. /\ next' \in Link
      /\ prev' \in [Header -> Addr]
      /\ count' \in [Header -> Nat]
      /\ where' \in [Node -> Header \cup {Free, User}]
      /\ header_' = header_
  BY <1>1 DEF Clear, Good, Link, Addr
<1>3. \A n \in Node : where'[n] = User => next'[n] = Nil
  BY <1>1, Addresses DEF Clear, Good, Link, Addr, Members
<1>4. ASSUME NEW g \in Header  PROVE Chain(next', g, count'[g], prev'[g], On(where', g))
  <2>1. CASE g = h
    <3>1. next'[g] = Nil /\ count'[g] = 0 /\ prev'[g] = g /\ On(where', g) = {}
      BY <1>1, <2>1, Addresses DEF Clear, Good, Link, Addr, Members, On
    <3>. QED  BY <3>1, EmptyChain
  <2>2. CASE g # h
    <3>1. /\ count'[g] = count[g] /\ prev'[g] = prev[g] /\ On(where', g) = On(where, g)
          /\ \A p \in On(where, g) \cup {g} : next'[p] = next[p]
      BY <1>1, <2>2, Addresses DEF Clear, Good, Link, Addr, Members, On
    <3>2. Chain(next, g, count[g], prev[g], On(where, g)) /\ count[g] \in Nat
      BY <1>1 DEF Good
    <3>. QED  BY <3>1, <3>2, ChainFrame
  <2>. QED  BY <2>1, <2>2
<1>5. Good(next', prev', count', where')
  BY <1>2, <1>3, <1>4 DEF Good
<1>. QED
  BY <1>2, <1>5, GoodIInv DEF IInv, TypeOK

LEMMA ReverseStep ==
    ASSUME IInv, NEW l \in List, Reverse(l)
    PROVE  IInv'
<1> DEFINE h == header_[l]
<1>1. Good(next, prev, count, where) /\ h \in Header /\ count[h] \in Nat /\ count[h] >= 2
  BY IInvGood DEF IInv, TypeOK, Reverse
<1>2. next[h] \in Node /\ prev[h] \in Members(h)
  <2>1. next[h] # Nil /\ prev[h] # h
    BY <1>1, GoodEmpty
  <2>2. prev[h] \in On(where, h) \cup {h}
    BY <1>1, GoodEmpty
  <2>. QED  BY <1>1, <2>1, <2>2 DEF Good, Link, Addr, On, Members
<1>3. /\ next' = ReverseNext(next, h, prev[h], On(where, h))
      /\ prev' = [prev EXCEPT ![h] = next[h]]
      /\ UNCHANGED <<header_, count, where>>
  BY DEF Reverse, Members, On
<1>4. Chain(next', h, count'[h], prev'[h], On(where', h))
  <2>1. /\ Chain(next, h, count[h], prev[h], On(where, h))
        /\ next \in Link
        /\ On(where, h) \in SUBSET Node
        /\ prev'[h] = next[h]
    BY <1>1, <1>3 DEF Good, On
  <2>. QED  BY <1>1, <1>3, <2>1, ChainReverse
\* The links of the reversed chain are links of its own header and nodes.
<1>5. next' \in Link
  <2>1. SUFFICES ASSUME NEW a \in Addr  PROVE next'[a] \in Node \cup {Nil}
    BY <1>3 DEF ReverseNext, Link
  <2>2. CASE a = h
    BY <1>2, <1>3, <2>2 DEF ReverseNext, Members, Addr
  <2>3. CASE a # h /\ a \notin On(where, h)
    BY <1>1, <1>3, <2>3 DEF ReverseNext, Good, Link, Addr
  <2>4. CASE a # h /\ a \in On(where, h)
    <3>1. \E p \in On(where, h) \cup {h} : next[p] = a
      <4>1. PICK f \in [0..count[h] -> On(where, h) \cup {h}] :
              /\ \A i \in 0..count[h] : i < count[h] => next[f[i]] = f[i + 1]
              /\ On(where, h) = {f[i] : i \in 1..count[h]}
        BY <1>1 DEF Good, Chain
      <4>2. PICK i \in 1..count[h] : a = f[i]
        BY <4>1, <2>4
      <4>3. i - 1 \in 0..count[h] /\ i - 1 < count[h] /\ (i - 1) + 1 = i
        BY <1>1
      <4>. QED  BY <4>1, <4>2, <4>3
    <3>2. Before(next, h, On(where, h), a) \in On(where, h) \cup {h}
      BY <3>1 DEF Before
    <3>. QED  BY <1>3, <2>4, <3>2 DEF ReverseNext, Addr, On
  <2>. QED  BY <2>2, <2>3, <2>4
<1>6. \A n \in Node : where'[n] = User => next'[n] = Nil
  BY <1>1, <1>3, Addresses DEF Good, ReverseNext, On, Addr
<1>7. ASSUME NEW g \in Header, g # h
      PROVE  Chain(next', g, count'[g], prev'[g], On(where', g))
  <2>1. /\ count'[g] = count[g] /\ prev'[g] = prev[g] /\ On(where', g) = On(where, g)
        /\ \A p \in On(where, g) \cup {g} : next'[p] = next[p]
    BY <1>1, <1>3, <1>7, Addresses DEF Good, ReverseNext, On, Addr
  <2>2. Chain(next, g, count[g], prev[g], On(where, g)) /\ count[g] \in Nat
    BY <1>1 DEF Good
  <2>. QED  BY <2>1, <2>2, ChainFrame
<1>8. prev' \in [Header -> Addr]
  BY <1>1, <1>2, <1>3 DEF Good, Addr
<1>9. Good(next', prev', count', where')
  BY <1>1, <1>3, <1>4, <1>5, <1>6, <1>7, <1>8 DEF Good
<1>. QED
  BY <1>3, <1>9, GoodIInv DEF IInv, TypeOK

LEMMA SwapStep ==
    ASSUME IInv, NEW l \in List, NEW m \in List, Swap(l, m)
    PROVE  IInv'
<1>1. header_' \in {f \in [List -> Header] : Injective(f)}
  BY DEF IInv, TypeOK, Swap, Injective
<1>2. Good(next', prev', count', where')
  BY IInvGood DEF Swap
<1>. QED
  BY <1>1, <1>2, GoodIInv

LEMMA SpliceAllStep ==
    ASSUME IInv, NEW l \in List, NEW m \in List \ {l}, NEW pos, SpliceAll(l, pos, m)
    PROVE  IInv'
<1> DEFINE h == header_[l]
           o == header_[m]
<1>1. /\ h \in Header /\ o \in Header /\ h # o
      /\ pos \in On(where, h) \cup {h} /\ next[o] # Nil
      /\ header_' = header_
  BY DEF SpliceAll, IInv, TypeOK, Injective, Positions, Members, On
<1>2. Good(next, prev, count, where)
  BY IInvGood
<1>3. /\ next' = SpliceNext(next, pos, o, prev[o])
      /\ prev' = [prev EXCEPT ![h] = IF pos = prev[h] THEN prev[o] ELSE @, ![o] = o]
      /\ count' = [count EXCEPT ![h] = @ + count[o], ![o] = 0]
      /\ where' = [n \in Node |-> IF n \in On(where, o) THEN h ELSE where[n]]
  BY DEF SpliceAll, Members, On
<1> HIDE DEF h, o
<1>4. prev[o] \in On(where, o) /\ next[prev[o]] = Nil
  BY <1>1, <1>2, GoodEmpty
<1>5. /\ prev'[h] = IF pos = prev[h] THEN prev[o] ELSE prev[h]
      /\ prev'[o] = o
      /\ count'[h] = count[h] + count[o]
      /\ count'[o] = 0
      /\ \A g \in Header : g # h /\ g # o => prev'[g] = prev[g] /\ count'[g] = count[g]
      /\ prev' \in [Header -> Addr]
      /\ count' \in [Header -> Nat]
  BY <1>1, <1>2, <1>3, <1>4 DEF Good, Addr, On
<1>6. /\ On(where', h) = On(where, h) \cup On(where, o)
      /\ On(where', o) = {}
      /\ \A g \in Header : g # h /\ g # o => On(where', g) = On(where, g)
      /\ where' \in [Node -> Header \cup {Free, User}]
      /\ \A n \in Node : where'[n] = User => where[n] = User
  BY <1>1, <1>2, <1>3, Addresses DEF Good, On
<1>7. /\ \A a \in Addr : a # pos /\ a # prev[o] /\ a # o => next'[a] = next[a]
      /\ next'[o] = Nil
      /\ next' \in Link
  BY <1>1, <1>2, <1>3, <1>4 DEF Good, SpliceNext, Link, Addr, On
<1>8. \A g \in Header : /\ Chain(next, g, count[g], prev[g], On(where, g))
                        /\ count[g] \in Nat
                        /\ On(where, g) \in SUBSET Node
  BY <1>2 DEF Good, On
<1>9. Chain(next', h, count'[h], prev'[h], On(where', h))
  <2>1. On(where, h) \cap On(where, o) = {} /\ next \in Link
    BY <1>1, <1>2 DEF On, Good
  <2>2. Chain(SpliceNext(next, pos, o, prev[o]), h, count[h] + count[o],
              IF pos = prev[h] THEN prev[o] ELSE prev[h], On(where, h) \cup On(where, o))
    BY <1>1, <1>8, <2>1, ChainSplice
  <2>. QED  BY <2>2, <1>3, <1>5, <1>6
<1>10. Chain(next', o, count'[o], prev'[o], On(where', o))
  BY <1>5, <1>6, <1>7, EmptyChain
<1>11. ASSUME NEW g \in Header, g # h, g # o
       PROVE  Chain(next', g, count'[g], prev'[g], On(where', g))
  <2>1. \A p \in On(where, g) \cup {g} : next'[p] = next[p]
    BY <1>1, <1>4, <1>7, <1>11, Addresses DEF On, Addr
  <2>2. Chain(next', g, count[g], prev[g], On(where, g))
    BY <1>8, <2>1, ChainFrame
  <2>. QED  BY <2>2, <1>5, <1>6, <1>11
<1>12. \A n \in Node : where'[n] = User => next'[n] = Nil
  BY <1>1, <1>2, <1>4, <1>6, <1>7, Addresses DEF Good, On, Addr
<1>13. Good(next', prev', count', where')
  BY <1>5, <1>6, <1>7, <1>9, <1>10, <1>11, <1>12 DEF Good
<1>. QED
  BY <1>1, <1>13, GoodIInv DEF IInv, TypeOK

LEMMA SpliceOneStep ==
    ASSUME IInv, NEW l \in List, NEW m \in List, NEW pos, NEW it, SpliceOne(l, pos, m, it)
    PROVE  IInv'
<1> DEFINE h == header_[l]
           o == header_[m]
           n == next[it]
           nx == ExtractAfterNext(next, it)
           pv == ExtractAfterPrev(prev, next, o, it)
           ct == [count EXCEPT ![o] = @ - 1]
           wh == [where EXCEPT ![n] = User]
<1>1. /\ h \in Header /\ o \in Header
      /\ pos \in On(where, h) \cup {h} /\ it \in On(where, o) \cup {o}
      /\ n # Nil /\ pos # n
      /\ header_' = header_
  BY DEF SpliceOne, IInv, TypeOK, Positions, Members, On
<1>2. Good(next, prev, count, where)
  BY IInvGood
<1>3. n \in Node /\ Good(nx, pv, ct, wh)
  BY <1>1, <1>2, GoodExtract
<1>4. wh[n] = User /\ pos \in On(wh, h) \cup {h} /\ where' = [wh EXCEPT ![n] = h]
  BY <1>1, <1>2, <1>3 DEF Good, On, SpliceOne
<1>5. /\ next' = InsertAfterNext(nx, pos, n)
      /\ prev' = InsertAfterPrev(pv, h, pos, n)
      /\ count' = [ct EXCEPT ![h] = @ + 1]
  BY DEF SpliceOne
<1> HIDE DEF h, o, n, nx, pv, ct, wh
<1>6. Good(next', prev', count', where')
  BY <1>1, <1>3, <1>4, <1>5, GoodInsert
<1>. QED
  BY <1>1, <1>6, GoodIInv DEF IInv, TypeOK

------------------------------------------------------------------------------
(* The theorems.                                                           *)

LEMMA InitIInv == Init => IInv
<1>1. SUFFICES ASSUME Init  PROVE IInv
  OBVIOUS
<1>0. /\ header_ \in {f \in [List -> Header] : Injective(f)}
      /\ next = [a \in Addr |-> Nil]
      /\ prev = [h \in Header |-> h]
      /\ count = [h \in Header |-> 0]
      /\ where = [n \in Node |-> Free]
  BY <1>1 DEF Init
<1>2. TypeOK /\ LooseReset
  BY <1>0, Addresses DEF TypeOK, LooseReset, Addr
<1>3. ASSUME NEW h \in Header  PROVE Chain(next, h, count[h], prev[h], Members(h))
  <2>1. next[h] = Nil /\ count[h] = 0 /\ prev[h] = h /\ Members(h) = {}
    BY <1>0, Addresses DEF Addr, Members
  <2>. QED  BY <2>1, EmptyChain
<1>. QED
  BY <1>2, <1>3 DEF IInv, ChainInv

LEMMA NextIInv == IInv /\ [Next]_vars => IInv'
<1>1. SUFFICES ASSUME IInv, [Next]_vars  PROVE IInv'
  OBVIOUS
<1>2. ASSUME NEW l \in List, NEW n \in Node, PushFront(l, n)  PROVE IInv'
  BY <1>1, <1>2, PushFrontIsInsertAfter, InsertAfterStep
<1>3. ASSUME NEW l \in List, NEW n \in Node, PushBack(l, n)  PROVE IInv'
  BY <1>1, <1>3, PushBackIsInsertAfter, InsertAfterStep
<1>4. ASSUME NEW l \in List, NEW n \in Node, NEW pos \in Addr, InsertAfter(l, pos, n)  PROVE IInv'
  BY <1>1, <1>4, InsertAfterStep
<1>5. ASSUME NEW l \in List, NEW to \in {User, Free}, TakeFront(l, to)  PROVE IInv'
  BY <1>1, <1>5, TakeFrontIsTakeAfter, TakeAfterStep
<1>6. ASSUME NEW l \in List, NEW to \in {User, Free}, NEW pos \in Addr, TakeAfter(l, pos, to)
      PROVE  IInv'
  BY <1>1, <1>6, TakeAfterStep
<1>7. ASSUME NEW l \in List, Clear(l)  PROVE IInv'
  BY <1>1, <1>7, ClearStep
<1>8. ASSUME NEW l \in List, Reverse(l)  PROVE IInv'
  BY <1>1, <1>8, ReverseStep
<1>9. ASSUME NEW l \in List, NEW m \in List \ {l}, Swap(l, m)  PROVE IInv'
  BY <1>1, <1>9, SwapStep
<1>10. ASSUME NEW l \in List, NEW m \in List \ {l}, NEW pos \in Addr, SpliceAll(l, pos, m)
       PROVE  IInv'
  BY <1>1, <1>10, SpliceAllStep
<1>11. ASSUME NEW l \in List, NEW m \in List, NEW pos \in Addr, NEW it \in Addr,
              SpliceOne(l, pos, m, it)
       PROVE  IInv'
  BY <1>1, <1>11, SpliceOneStep
<1>12. CASE UNCHANGED vars
  BY <1>1, <1>12 DEF vars, IInv, TypeOK, ChainInv, LooseReset, Members
<1>. QED
  BY <1>1, <1>2, <1>3, <1>4, <1>5, <1>6, <1>7, <1>8, <1>9, <1>10, <1>11, <1>12 DEF Next

\* For any lists and nodes, and any sequence of legal calls, the variables keep
\* their types and no two lists ever own the same header.
THEOREM TypeCorrect == Spec => []TypeOK
<1>1. IInv => TypeOK
  BY DEF IInv
<1>. QED
  BY InitIInv, NextIInv, <1>1, PTL DEF Spec

\* For any lists and nodes: the pointers of every list form one chain through
\* exactly its own nodes, with `prev` at the last one and `count` their number.
THEOREM ChainCorrect == Spec => []ChainInv
<1>1. IInv => ChainInv
  BY DEF IInv
<1>. QED
  BY InitIInv, NextIInv, <1>1, PTL DEF Spec

\* For any lists and nodes: a node handed to the caller has its next reset,
\* which is all push_back(Node*) relies on.
THEOREM LooseResetCorrect == Spec => []LooseReset
<1>1. IInv => LooseReset
  BY DEF IInv
<1>. QED
  BY InitIInv, NextIInv, <1>1, PTL DEF Spec

\* The assertions of push_front and push_back never fail, for any lists and
\* nodes: first link, last-node pointer and count agree on emptiness.
THEOREM AssertionsHold == Spec => []EmptyAgree
<1>1. IInv => EmptyAgree
  BY IInvGood, GoodEmpty DEF EmptyAgree
<1>. QED
  BY InitIInv, NextIInv, <1>1, PTL DEF Spec

\* No pointer of a live node, or of a header, leads to a node that is not a
\* live node of the same list.
THEOREM NoUseAfterFree == Spec => []NoDangling
<1>1. IInv => NoDangling
  <2>1. SUFFICES ASSUME IInv, NEW h \in Header, NEW p \in Positions(h) \cup {prev[h]}, next[p] # Nil
                 PROVE  next[p] \in Members(h)
    BY DEF NoDangling
  <2>. QED  BY <2>1, IInvGood, GoodEmpty DEF Positions, Members, On
<1>. QED
  BY InitIInv, NextIInv, <1>1, PTL DEF Spec

------------------------------------------------------------------------------
(* The refinement of NodeSeq.  First the sequences it is written with,     *)
(* element by element; then what each pointer operation does to the        *)
(* sequence that the links of a header trace; then the members, one by     *)
(* one, and the theorems.                                                  *)

\* The sequences of NodeSeq, for the lemmas to name.
SplicedIn(s, i, t)  == SubSeq(s, 1, i) \o t \o SubSeq(s, i + 1, Len(s))
SplicedOne(s, i, n) == SubSeq(s, 1, i) \o <<n>> \o SubSeq(s, i + 1, Len(s))
CutOut(s, i)        == SubSeq(s, 1, i - 1) \o SubSeq(s, i + 1, Len(s))

\* w is s with t between its i-th element and the next one; w is s without its
\* i-th element.
WithAll(w, s, k, i, t, j, S) ==
    /\ w \in [1..k + j -> S]
    /\ \A x \in 1..k + j : w[x] = IF x <= i THEN s[x] ELSE IF x <= i + j THEN t[x - i] ELSE s[x - j]
WithOne(w, s, k, i, n, S) ==
    /\ w \in [1..k + 1 -> S]
    /\ \A x \in 1..k + 1 : w[x] = IF x <= i THEN s[x] ELSE IF x = i + 1 THEN n ELSE s[x - 1]
WithoutOne(w, s, k, i, S) ==
    /\ w \in [1..k - 1 -> S]
    /\ \A x \in 1..k - 1 : w[x] = IF x < i THEN s[x] ELSE s[x + 1]

\* A function of 1..k is a sequence of k elements.
LEMMA FunSeq ==
    ASSUME NEW S, NEW k \in Nat, NEW s \in [1..k -> S]
    PROVE  s \in Seq(S) /\ Len(s) = k
OBVIOUS

\* Two sequences, one after the other, element by element.
LEMMA ConcatIs ==
    ASSUME NEW S, NEW a \in Seq(S), NEW b \in Seq(S)
    PROVE  /\ a \o b \in Seq(S) /\ Len(a \o b) = Len(a) + Len(b)
           /\ \A x \in 1..Len(a) + Len(b) : (a \o b)[x] = IF x <= Len(a) THEN a[x] ELSE b[x - Len(a)]
BY ConcatProperties

\* The elements of t between the i-th of s and the next one.
LEMMA InsertAllIs ==
    ASSUME NEW S, NEW k \in Nat, NEW s \in [1..k -> S], NEW i \in 0..k, NEW j \in Nat, NEW t \in [1..j -> S]
    PROVE  WithAll(SplicedIn(s, i, t), s, k, i, t, j, S)
<1>1. s \in Seq(S) /\ Len(s) = k /\ t \in Seq(S) /\ Len(t) = j
  BY FunSeq
<1>2. /\ SubSeq(s, 1, i) \in Seq(S) /\ Len(SubSeq(s, 1, i)) = i
      /\ \A x \in 1..i : SubSeq(s, 1, i)[x] = s[x]
  BY <1>1, SubSeqProperties
<1>3. /\ SubSeq(s, i + 1, k) \in Seq(S) /\ Len(SubSeq(s, i + 1, k)) = k - i
      /\ \A x \in 1..k - i : SubSeq(s, i + 1, k)[x] = s[i + x]
  BY <1>1, SubSeqProperties
<1>4. PICK a, b, u, w : a = SubSeq(s, 1, i) /\ b = SubSeq(s, i + 1, k) /\ u = a \o t /\ w = u \o b
  OBVIOUS
<1>5. /\ u \in Seq(S) /\ Len(u) = i + j
      /\ \A x \in 1..i + j : u[x] = IF x <= i THEN s[x] ELSE t[x - i]
  <2>1. a \in Seq(S) /\ t \in Seq(S)
    BY <1>1, <1>2, <1>4
  <2>2. /\ u \in Seq(S) /\ Len(u) = i + j
        /\ \A x \in 1..i + j : u[x] = IF x <= i THEN a[x] ELSE t[x - i]
    <3>1. Len(a) = i /\ Len(t) = j /\ u = a \o t
      BY <1>1, <1>2, <1>4
    <3>2. u \in Seq(S) /\ Len(u) = Len(a) + Len(t)
          /\ \A x \in 1..Len(a) + Len(t) : u[x] = IF x <= Len(a) THEN a[x] ELSE t[x - Len(a)]
      BY <2>1, <3>1, ConcatIs
    <3>3. QED BY <3>1, <3>2
  <2>3. i \in Nat /\ j \in Nat /\ \A x \in 1..i : a[x] = s[x]
    BY <1>2, <1>4
  <2>4. ASSUME NEW x \in 1..i + j PROVE u[x] = IF x <= i THEN s[x] ELSE t[x - i]
    <3>1. CASE x <= i
      BY <2>2, <2>3, <3>1
    <3>2. CASE x > i
      BY <2>2, <2>3, <3>2
    <3>3. QED BY <3>1, <3>2
  <2>5. QED BY <2>2, <2>4
<1>6. /\ w \in Seq(S) /\ Len(w) = k + j
      /\ \A x \in 1..k + j : w[x] = IF x <= i + j THEN u[x] ELSE b[x - (i + j)]
  <2>1. /\ i \in Nat /\ j \in Nat /\ k - i \in Nat
        /\ u \in Seq(S) /\ b \in Seq(S) /\ Len(u) = i + j /\ Len(b) = k - i /\ w = u \o b
    BY <1>3, <1>4, <1>5
  <2>2. /\ w \in Seq(S) /\ Len(w) = (i + j) + (k - i)
        /\ \A x \in 1..(i + j) + (k - i) : w[x] = IF x <= i + j THEN u[x] ELSE b[x - (i + j)]
    <3>1. w \in Seq(S) /\ Len(w) = Len(u) + Len(b)
          /\ \A x \in 1..Len(u) + Len(b) : w[x] = IF x <= Len(u) THEN u[x] ELSE b[x - Len(u)]
      BY <2>1, ConcatIs
    <3>2. QED BY ONLY <2>1, <3>1
  <2>3. (i + j) + (k - i) = k + j
    OBVIOUS
  <2>4. QED BY ONLY <2>2, <2>3
<1>7. ASSUME NEW x \in 1..k + j
      PROVE  w[x] = IF x <= i THEN s[x] ELSE IF x <= i + j THEN t[x - i] ELSE s[x - j]
  <2>1. w[x] = IF x <= i + j THEN u[x] ELSE b[x - (i + j)]
    BY <1>6
  <2>2. CASE x <= i + j
    BY <2>1, <2>2, <1>5
  <2>3. CASE x > i + j
    <3>1. x - (i + j) \in 1..k - i /\ i + (x - (i + j)) = x - j
      BY <2>3
    <3>2. b[x - (i + j)] = s[x - j]
      BY <3>1, <1>3, <1>4
    <3>3. QED BY <2>1, <2>3, <3>2
  <2>4. QED BY <2>2, <2>3
<1>8. w \in [1..k + j -> S]
  BY <1>6, LenProperties
<1>9. w = SplicedIn(s, i, t)
  BY <1>1, <1>4 DEF SplicedIn
<1>10. QED BY <1>7, <1>8, <1>9 DEF WithAll

\* One element between the i-th of s and the next one.
LEMMA InsertAtIs ==
    ASSUME NEW S, NEW k \in Nat, NEW s \in [1..k -> S], NEW i \in 0..k, NEW n \in S
    PROVE  WithOne(SplicedOne(s, i, n), s, k, i, n, S)
<1>1. PICK t : t = <<n>>
  OBVIOUS
<1>2. t \in [1..1 -> S] /\ t[1] = n
  BY <1>1
<1>3. SplicedOne(s, i, n) = SplicedIn(s, i, t)
  BY <1>1 DEF SplicedOne, SplicedIn
<1>4. PICK w : w = SplicedIn(s, i, t)
  OBVIOUS
<1>5. /\ w \in [1..k + 1 -> S]
      /\ \A x \in 1..k + 1 : w[x] = IF x <= i THEN s[x] ELSE IF x <= i + 1 THEN t[x - i] ELSE s[x - 1]
  <2>1. PICK j \in Nat : j = 1
    OBVIOUS
  <2>2. k \in Nat /\ j \in Nat /\ s \in [1..k -> S] /\ i \in 0..k /\ t \in [1..j -> S]
    BY <1>2, <2>1
  <2>3. WithAll(w, s, k, i, t, j, S)
    BY <2>2, <1>4, InsertAllIs
  <2>4. QED BY <2>1, <2>3 DEF WithAll
<1>6. ASSUME NEW x \in 1..k + 1 PROVE w[x] = IF x <= i THEN s[x] ELSE IF x = i + 1 THEN n ELSE s[x - 1]
  BY <1>2, <1>5
<1>7. QED BY <1>3, <1>4, <1>5, <1>6 DEF WithOne

\* All but element i.
LEMMA DeleteAtIs ==
    ASSUME NEW S, NEW k \in Nat, NEW s \in [1..k -> S], NEW i \in 1..k
    PROVE  WithoutOne(CutOut(s, i), s, k, i, S)
<1>1. s \in Seq(S) /\ Len(s) = k
  BY FunSeq
<1>2. /\ SubSeq(s, 1, i - 1) \in Seq(S) /\ Len(SubSeq(s, 1, i - 1)) = i - 1
      /\ \A x \in 1..i - 1 : SubSeq(s, 1, i - 1)[x] = s[x]
  BY <1>1, SubSeqProperties
<1>3. /\ SubSeq(s, i + 1, k) \in Seq(S) /\ Len(SubSeq(s, i + 1, k)) = k - i
      /\ \A x \in 1..k - i : SubSeq(s, i + 1, k)[x] = s[i + x]
  BY <1>1, SubSeqProperties
<1>4. PICK a, b, w : a = SubSeq(s, 1, i - 1) /\ b = SubSeq(s, i + 1, k) /\ w = a \o b
  OBVIOUS
<1>5. /\ w \in Seq(S) /\ Len(w) = k - 1
      /\ \A x \in 1..k - 1 : w[x] = IF x <= i - 1 THEN a[x] ELSE b[x - (i - 1)]
  <2>1. a \in Seq(S) /\ b \in Seq(S) /\ Len(a) = i - 1 /\ Len(b) = k - i /\ w = a \o b
    BY <1>2, <1>3, <1>4
  <2>2. /\ w \in Seq(S) /\ Len(w) = (i - 1) + (k - i)
        /\ \A x \in 1..(i - 1) + (k - i) : w[x] = IF x <= i - 1 THEN a[x] ELSE b[x - (i - 1)]
    <3>1. w \in Seq(S) /\ Len(w) = Len(a) + Len(b)
          /\ \A x \in 1..Len(a) + Len(b) : w[x] = IF x <= Len(a) THEN a[x] ELSE b[x - Len(a)]
      BY <2>1, ConcatIs
    <3>2. QED BY ONLY <2>1, <3>1
  <2>3. (i - 1) + (k - i) = k - 1
    OBVIOUS
  <2>4. QED BY ONLY <2>2, <2>3
<1>6. ASSUME NEW x \in 1..k - 1 PROVE w[x] = IF x < i THEN s[x] ELSE s[x + 1]
  <2>1. w[x] = IF x <= i - 1 THEN a[x] ELSE b[x - (i - 1)]
    BY <1>5
  <2>2. CASE x < i
    BY <2>1, <2>2, <1>2, <1>4
  <2>3. CASE x >= i
    <3>1. x - (i - 1) \in 1..k - i /\ i + (x - (i - 1)) = x + 1
      BY <2>3
    <3>2. b[x - (i - 1)] = s[x + 1]
      BY <3>1, <1>3, <1>4
    <3>3. QED BY <2>1, <2>3, <3>2
  <2>4. QED BY <2>2, <2>3
<1>7. w \in [1..k - 1 -> S]
  BY <1>5, LenProperties
<1>8. w = CutOut(s, i)
  BY <1>1, <1>4 DEF CutOut
<1>9. QED BY <1>6, <1>7, <1>8 DEF WithoutOne


------------------------------------------------------------------------------
(* The nodes of a list, along its links.                                   *)

\* Nodes, of any links: the nodes met in k steps from header h.
NodesOf(nx, k, h) ==
    LET at[i \in 0..k] == IF i = 0 THEN h
                          ELSE IF at[i - 1] \in Addr THEN nx[at[i - 1]] ELSE Nil
    IN  [i \in 1..k |-> at[i]]

\* The header, then the elements of s.
Spot(h, s, i) == IF i = 0 THEN h ELSE s[i]

\* The links from h lead through s, which repeats no node, and end there.
Traces(nx, h, k, s) ==
    /\ s \in [1..k -> Node]
    /\ \A i, j \in 1..k : s[i] = s[j] => i = j
    /\ \A i \in 0..k : nx[Spot(h, s, i)] = IF i < k THEN s[i + 1] ELSE Nil

\* s is also the order of the nodes S, the last of them `last`.
Spells(s, nx, h, k, last, S) ==
    /\ Traces(nx, h, k, s)
    /\ S = {s[i] : i \in 1..k}
    /\ last = Spot(h, s, k)

\* A chain spells a sequence.
LEMMA ChainSpells ==
    ASSUME NEW nx, NEW h \in Header, NEW k \in Nat, NEW last, NEW S \in SUBSET Node,
           Chain(nx, h, k, last, S)
    PROVE  \E s : Spells(s, nx, h, k, last, S)
<1>1. PICK f \in [0..k -> S \cup {h}] :
        /\ f[0] = h
        /\ \A i, j \in 0..k : f[i] = f[j] => i = j
        /\ \A i \in 0..k : i < k => nx[f[i]] = f[i + 1]
        /\ nx[f[k]] = Nil
        /\ last = f[k]
        /\ S = {f[i] : i \in 1..k}
  BY DEF Chain
<1> DEFINE s == [i \in 1..k |-> f[i]]
<1>2. \A i \in 1..k : s[i] = f[i] /\ s[i] \in Node
  BY <1>1
<1>3. s \in [1..k -> Node]
  BY <1>2
<1>4. \A i, j \in 1..k : s[i] = s[j] => i = j
  BY <1>1, <1>2
<1>5. S = {s[i] : i \in 1..k}
  BY <1>1, <1>2
<1> HIDE DEF s
<1>6. \A i \in 0..k : Spot(h, s, i) = f[i]
  BY <1>1, <1>2 DEF Spot
<1>7. ASSUME NEW i \in 0..k PROVE nx[Spot(h, s, i)] = IF i < k THEN s[i + 1] ELSE Nil
  <2>1. CASE i < k
    <3>1. i + 1 \in 1..k
      BY <2>1
    <3>2. QED BY <2>1, <3>1, <1>1, <1>2, <1>6
  <2>2. CASE i = k
    BY <2>2, <1>1, <1>6
  <2>3. QED BY <2>1, <2>2
<1>8. last = Spot(h, s, k)
  BY <1>1, <1>6
<1>9. QED BY <1>3, <1>4, <1>5, <1>7, <1>8 DEF Spells, Traces

\* The walk meets the sequence that the links spell.
LEMMA NodesAre ==
    ASSUME NEW nx, NEW h \in Header, NEW k \in Nat, NEW s, Traces(nx, h, k, s)
    PROVE  NodesOf(nx, k, h) = s
<1> DEFINE f == [i \in 0..k |-> Spot(h, s, i)]
           a == CHOOSE a : a = [i \in 0..k |-> IF i = 0 THEN h
                                               ELSE IF a[i - 1] \in Addr THEN nx[a[i - 1]] ELSE Nil]
<1>1. s \in [1..k -> Node] /\ \A i \in 0..k : nx[Spot(h, s, i)] = IF i < k THEN s[i + 1] ELSE Nil
  BY DEF Traces
<1>2. \A i \in 0..k : f[i] = Spot(h, s, i) /\ f[i] \in Addr
  BY <1>1 DEF Spot, Addr
<1>3. f = [i \in 0..k |-> IF i = 0 THEN h ELSE IF f[i - 1] \in Addr THEN nx[f[i - 1]] ELSE Nil]
  <2>1. ASSUME NEW i \in 0..k
        PROVE  f[i] = IF i = 0 THEN h ELSE IF f[i - 1] \in Addr THEN nx[f[i - 1]] ELSE Nil
    <3>1. CASE i = 0
      BY <3>1, <1>2 DEF Spot
    <3>2. CASE i # 0
      <4>1. i - 1 \in 0..k /\ i - 1 < k /\ (i - 1) + 1 = i
        BY <3>2
      <4>2. nx[Spot(h, s, i - 1)] = s[i] /\ f[i - 1] = Spot(h, s, i - 1) /\ f[i - 1] \in Addr
        <5>1. nx[Spot(h, s, i - 1)] = s[(i - 1) + 1]
          BY <1>1, <4>1
        <5>2. QED BY <5>1, <4>1, <1>2
      <4>3. f[i] = s[i]
        BY <3>2, <1>2 DEF Spot
      <4>4. QED BY <3>2, <4>2, <4>3
    <3>3. QED BY <3>1, <3>2
  <2>2. QED BY <2>1
<1>4. a = [i \in 0..k |-> IF i = 0 THEN h ELSE IF a[i - 1] \in Addr THEN nx[a[i - 1]] ELSE Nil]
  BY <1>3
<1>5. NodesOf(nx, k, h) = [i \in 1..k |-> a[i]]
  BY DEF NodesOf
<1> HIDE DEF a, f
<1> DEFINE T == {i \in Nat : i <= k => a[i] = f[i]}
<1>6. 0 \in T
  <2>1. a[0] = h /\ f[0] = h
    BY <1>2, <1>4 DEF Spot
  <2>2. QED BY <2>1
<1>7. ASSUME NEW i \in Nat, i \in T PROVE i + 1 \in T
  <2>1. SUFFICES ASSUME i + 1 <= k PROVE a[i + 1] = f[i + 1]
    OBVIOUS
  <2>2. i + 1 \in 0..k /\ i + 1 # 0 /\ (i + 1) - 1 = i /\ i \in 0..k /\ i < k
    BY <2>1
  <2>3. a[i] = f[i] /\ f[i] \in Addr
    BY <1>7, <2>2, <1>2
  <2>4. a[i + 1] = nx[f[i]]
    BY <1>4, <2>2, <2>3
  <2>5. f[i + 1] = nx[f[i]]
    BY <1>3, <2>2, <2>3
  <2>6. QED BY <2>4, <2>5
<1>8. Nat \subseteq T
  <2> HIDE DEF T
  <2> QED BY <1>6, <1>7, SetInduction
<1>9. \A i \in 1..k : a[i] = s[i]
  <2>1. \A i \in 1..k : a[i] = f[i]
    BY <1>8
  <2>2. QED BY <2>1, <1>2 DEF Spot
<1>10. QED BY <1>1, <1>5, <1>9

\* What is read does not depend on the other links.
LEMMA TracesFrame ==
    ASSUME NEW nx, NEW ny, NEW h \in Header, NEW k \in Nat, NEW s, Traces(nx, h, k, s),
           \A i \in 0..k : ny[Spot(h, s, i)] = nx[Spot(h, s, i)]
    PROVE  Traces(ny, h, k, s)
BY DEF Traces

\* From a header whose link is nullptr nothing is read.
LEMMA TracesEmpty ==
    ASSUME NEW nx, NEW h \in Header, nx[h] = Nil
    PROVE  Traces(nx, h, 0, <<>>)
BY DEF Traces, Spot


\* A node linked after the i-th position.
LEMMA TracesInsert ==
    ASSUME NEW nx \in Link, NEW h \in Header, NEW k \in Nat, NEW s, Traces(nx, h, k, s),
           NEW n \in Node, \A i \in 1..k : s[i] # n, NEW i \in 0..k, NEW p, p = Spot(h, s, i),
           NEW w, WithOne(w, s, k, i, n, Node)
    PROVE  Traces(InsertAfterNext(nx, p, n), h, k + 1, w)
<1> DEFINE ny == InsertAfterNext(nx, p, n)
<1>1. /\ s \in [1..k -> Node]
      /\ \A x, y \in 1..k : s[x] = s[y] => x = y
      /\ \A x \in 0..k : nx[Spot(h, s, x)] = IF x < k THEN s[x + 1] ELSE Nil
  BY DEF Traces
<1>2. /\ w \in [1..k + 1 -> Node]
      /\ \A x \in 1..k + 1 : w[x] = IF x <= i THEN s[x] ELSE IF x = i + 1 THEN n ELSE s[x - 1]
  BY DEF WithOne
<1>3. /\ p \in Addr /\ p # n
      /\ ny[p] = n /\ ny[n] = nx[p]
      /\ \A a \in Addr : a # n /\ a # p => ny[a] = nx[a]
  BY <1>1, Addresses DEF Spot, Addr, Link, InsertAfterNext
<1> HIDE DEF ny
<1>4. \A x \in 0..k : Spot(h, s, x) = p => x = i
  BY <1>1, Addresses DEF Spot
<1>5. \A x \in 0..k : Spot(h, s, x) \in Addr /\ Spot(h, s, x) # n
  BY <1>1, Addresses DEF Spot, Addr
<1>6. ASSUME NEW x \in 1..k + 1, NEW y \in 1..k + 1, w[x] = w[y] PROVE x = y
  <2>1. \A z \in 1..k + 1 : w[z] = n <=> z = i + 1
    BY <1>1, <1>2
  <2>2. \A z \in 1..k + 1 : z # i + 1 => \E v \in 1..k : w[z] = s[v] /\ v = IF z <= i THEN z ELSE z - 1
    <3>1. SUFFICES ASSUME NEW z \in 1..k + 1, z # i + 1
                   PROVE \E v \in 1..k : w[z] = s[v] /\ v = IF z <= i THEN z ELSE z - 1
      OBVIOUS
    <3>2. CASE z <= i
      BY <3>2, <1>2
    <3>3. CASE z > i
      BY <3>1, <3>3, <1>2
    <3>4. QED BY <3>2, <3>3
  <2>3. CASE x = i + 1 \/ y = i + 1
    BY <2>1, <2>3, <1>6
  <2>4. CASE x # i + 1 /\ y # i + 1
    <3>1. PICK u \in 1..k : w[x] = s[u] /\ u = IF x <= i THEN x ELSE x - 1
      BY <2>2, <2>4
    <3>2. PICK v \in 1..k : w[y] = s[v] /\ v = IF y <= i THEN y ELSE y - 1
      BY <2>2, <2>4
    <3>3. u = v
      BY <3>1, <3>2, <1>6, <1>1
    <3>4. QED BY <2>4, <3>1, <3>2, <3>3
  <2>5. QED BY <2>3, <2>4
<1>7. ASSUME NEW x \in 0..k + 1
      PROVE  ny[Spot(h, w, x)] = IF x < k + 1 THEN w[x + 1] ELSE Nil
  <2>1. CASE x < i
    <3>1. Spot(h, w, x) = Spot(h, s, x) /\ x \in 0..k /\ x + 1 \in 1..k + 1 /\ x + 1 <= i
      BY <2>1, <1>2 DEF Spot
    <3>2. ny[Spot(h, w, x)] = nx[Spot(h, s, x)]
      BY <3>1, <1>3, <1>4, <1>5, <2>1
    <3>3. nx[Spot(h, s, x)] = s[x + 1] /\ w[x + 1] = s[x + 1]
      BY <3>1, <1>1, <1>2, <2>1
    <3>4. QED BY <2>1, <3>2, <3>3
  <2>2. CASE x = i
    <3>1. Spot(h, w, x) = p /\ x + 1 \in 1..k + 1
      BY <2>2, <1>2 DEF Spot
    <3>2. w[x + 1] = n
      BY <3>1, <1>2, <2>2
    <3>3. QED BY <2>2, <3>1, <3>2, <1>3
  <2>3. CASE x = i + 1
    <3>1. Spot(h, w, x) = n
      BY <2>3, <1>2 DEF Spot
    <3>2. nx[p] = IF i < k THEN s[i + 1] ELSE Nil
      BY <1>1
    <3>3. i < k => w[x + 1] = s[i + 1]
      BY <2>3, <1>2
    <3>4. QED BY <2>3, <3>1, <3>2, <3>3, <1>3
  <2>4. CASE x > i + 1
    <3>1. Spot(h, w, x) = Spot(h, s, x - 1) /\ x - 1 \in 0..k /\ x - 1 # i
      BY <2>4, <1>2 DEF Spot
    <3>2. ny[Spot(h, w, x)] = nx[Spot(h, s, x - 1)]
      BY <3>1, <1>3, <1>4, <1>5
    <3>3. nx[Spot(h, s, x - 1)] = IF x - 1 < k THEN s[x] ELSE Nil
      <4>1. (x - 1) + 1 = x
        OBVIOUS
      <4>2. QED BY <4>1, <3>1, <1>1
    <3>4. x < k + 1 => w[x + 1] = s[x]
      BY <2>4, <1>2
    <3>5. QED BY <2>4, <3>2, <3>3, <3>4
  <2>5. QED BY <2>1, <2>2, <2>3, <2>4
<1>8. Traces(ny, h, k + 1, w)
  BY <1>2, <1>6, <1>7 DEF Traces
<1>9. QED BY <1>8 DEF ny

\* The i-th node taken out.
LEMMA TracesDelete ==
    ASSUME NEW nx \in Link, NEW h \in Header, NEW k \in Nat, NEW s, Traces(nx, h, k, s),
           NEW i \in 1..k, NEW p, p = Spot(h, s, i - 1),
           NEW w, WithoutOne(w, s, k, i, Node)
    PROVE  nx[p] = s[i] /\ Traces(ExtractAfterNext(nx, p), h, k - 1, w)
<1> DEFINE ny == ExtractAfterNext(nx, p)
           n == s[i]
<1>1. /\ s \in [1..k -> Node]
      /\ \A x, y \in 1..k : s[x] = s[y] => x = y
      /\ \A x \in 0..k : nx[Spot(h, s, x)] = IF x < k THEN s[x + 1] ELSE Nil
  BY DEF Traces
<1>2. /\ w \in [1..k - 1 -> Node]
      /\ \A x \in 1..k - 1 : w[x] = IF x < i THEN s[x] ELSE s[x + 1]
  BY DEF WithoutOne
<1>3. i - 1 \in 0..k /\ i - 1 < k /\ (i - 1) + 1 = i /\ n \in Node /\ i \in 0..k
  BY <1>1
<1>4. nx[p] = n /\ p \in Addr
  <2>1. nx[p] = s[(i - 1) + 1]
    BY <1>1, <1>3
  <2>2. QED BY <2>1, <1>3, <1>1 DEF Spot, Addr
<1>5. nx[n] = IF i < k THEN s[i + 1] ELSE Nil
  <2>1. Spot(h, s, i) = n
    BY <1>3 DEF Spot
  <2>2. QED BY <2>1, <1>3, <1>1
<1>6. p # n
  BY <1>1, <1>3, Addresses DEF Spot
<1>7. /\ ny[p] = nx[n]
      /\ \A a \in Addr : a # n /\ a # p => ny[a] = nx[a]
  BY <1>3, <1>4, <1>6, Addresses DEF Spot, Addr, Link, ExtractAfterNext
<1> HIDE DEF ny, n
<1>8. \A x \in 0..k : Spot(h, s, x) = p => x = i - 1
  BY <1>1, <1>3, Addresses DEF Spot
<1>9. \A x \in 0..k : Spot(h, s, x) \in Addr /\ (Spot(h, s, x) = n => x = i)
  BY <1>1, <1>3, Addresses DEF Spot, Addr, n
<1>10. ASSUME NEW x \in 1..k - 1, NEW y \in 1..k - 1, w[x] = w[y] PROVE x = y
  <2>1. \A z \in 1..k - 1 : \E v \in 1..k : w[z] = s[v] /\ v = IF z < i THEN z ELSE z + 1
    BY <1>2
  <2>2. PICK u \in 1..k : w[x] = s[u] /\ u = IF x < i THEN x ELSE x + 1
    BY <2>1
  <2>3. PICK v \in 1..k : w[y] = s[v] /\ v = IF y < i THEN y ELSE y + 1
    BY <2>1
  <2>4. u = v
    BY <2>2, <2>3, <1>10, <1>1
  <2>5. QED BY <2>2, <2>3, <2>4
<1>11. ASSUME NEW x \in 0..k - 1
       PROVE  ny[Spot(h, w, x)] = IF x < k - 1 THEN w[x + 1] ELSE Nil
  <2>1. CASE x < i - 1
    <3>1. Spot(h, w, x) = Spot(h, s, x) /\ x \in 0..k /\ x # i - 1 /\ x # i /\ x < k /\ x < k - 1
      BY <2>1, <1>2 DEF Spot
    <3>2. ny[Spot(h, w, x)] = nx[Spot(h, s, x)]
      BY <3>1, <1>7, <1>8, <1>9
    <3>3. nx[Spot(h, s, x)] = s[x + 1]
      BY <3>1, <1>1
    <3>4. w[x + 1] = s[x + 1]
      BY <2>1, <3>1, <1>2
    <3>5. QED BY <3>1, <3>2, <3>3, <3>4
  <2>2. CASE x = i - 1
    <3>1. Spot(h, w, x) = p
      BY <2>2, <1>2 DEF Spot
    <3>2. ny[Spot(h, w, x)] = IF i < k THEN s[i + 1] ELSE Nil
      BY <3>1, <1>5, <1>7
    <3>3. x < k - 1 <=> i < k
      BY <2>2
    <3>4. i < k => w[x + 1] = s[i + 1]
      <4>1. x + 1 = i
        BY <2>2
      <4>2. i < k => i \in 1..k - 1 /\ ~(i < i)
        OBVIOUS
      <4>3. QED BY <4>1, <4>2, <1>2
    <3>5. QED BY <3>2, <3>3, <3>4
  <2>3. CASE x >= i
    <3>1. Spot(h, w, x) = Spot(h, s, x + 1) /\ x + 1 \in 0..k /\ x + 1 # i - 1 /\ x + 1 # i
      BY <2>3, <1>2 DEF Spot
    <3>2. ny[Spot(h, w, x)] = nx[Spot(h, s, x + 1)]
      BY <3>1, <1>7, <1>8, <1>9
    <3>3. nx[Spot(h, s, x + 1)] = IF x + 1 < k THEN s[(x + 1) + 1] ELSE Nil
      BY <3>1, <1>1
    <3>4. x < k - 1 => w[x + 1] = s[(x + 1) + 1]
      BY <2>3, <1>2
    <3>5. x + 1 < k <=> x < k - 1
      OBVIOUS
    <3>6. QED BY <3>2, <3>3, <3>4, <3>5
  <2>4. QED BY <2>1, <2>2, <2>3
<1>12. Traces(ny, h, k - 1, w)
  BY <1>2, <1>10, <1>11 DEF Traces
<1>13. QED BY <1>4, <1>12 DEF ny, n


\* w is s backwards.
Turned(w, s, k) == w = [i \in 1..k |-> s[k + 1 - i]]

\* The links turned around.
LEMMA TracesReverse ==
    ASSUME NEW nx \in Link, NEW h \in Header, NEW k \in Nat, k > 0, NEW s, NEW last,
           NEW S \in SUBSET Node, Spells(s, nx, h, k, last, S), NEW w, Turned(w, s, k)
    PROVE  Traces(ReverseNext(nx, h, last, S), h, k, w)
<1> DEFINE ny == ReverseNext(nx, h, last, S)
<1>1. /\ s \in [1..k -> Node]
      /\ \A x, y \in 1..k : s[x] = s[y] => x = y
      /\ \A x \in 0..k : nx[Spot(h, s, x)] = IF x < k THEN s[x + 1] ELSE Nil
      /\ S = {s[i] : i \in 1..k}
      /\ last = Spot(h, s, k)
  BY DEF Spells, Traces
<1>2. w \in [1..k -> Node] /\ \A x \in 1..k : w[x] = s[k + 1 - x]
  BY <1>1 DEF Turned
<1>3. ny[h] = last /\ h \notin S
  BY <1>1, Addresses DEF ReverseNext, Addr
<1>4. ASSUME NEW i \in 1..k
      PROVE  Before(nx, h, S, s[i]) = Spot(h, s, i - 1)
  <2>1. i - 1 \in 0..k /\ i - 1 < k /\ (i - 1) + 1 = i
    OBVIOUS
  <2>2. Spot(h, s, i - 1) \in S \cup {h} /\ nx[Spot(h, s, i - 1)] = s[i]
    <3>1. nx[Spot(h, s, i - 1)] = s[(i - 1) + 1]
      BY <1>1, <2>1
    <3>2. Spot(h, s, i - 1) \in S \cup {h}
      BY <2>1, <1>1 DEF Spot
    <3>3. QED BY <3>1, <3>2, <2>1
  <2>3. ASSUME NEW q \in S \cup {h}, nx[q] = s[i] PROVE q = Spot(h, s, i - 1)
    <3>1. PICK x \in 0..k : q = Spot(h, s, x)
      BY <1>1 DEF Spot
    <3>2. s[i] # Nil
      BY <1>1, Addresses
    <3>3. x < k /\ s[x + 1] = s[i]
      BY <2>3, <3>1, <3>2, <1>1
    <3>4. x + 1 = i
      BY <3>3, <1>1
    <3>5. QED BY <3>1, <3>4
  <2>4. QED BY <2>2, <2>3 DEF Before
<1>5. ASSUME NEW i \in 1..k PROVE ny[s[i]] = IF i = 1 THEN Nil ELSE s[i - 1]
  <2>1. s[i] \in Addr /\ s[i] \in S /\ s[i] # h
    BY <1>1, <1>3 DEF Addr
  <2>2. ny[s[i]] = IF Spot(h, s, i - 1) = h THEN Nil ELSE Spot(h, s, i - 1)
    BY <2>1, <1>4 DEF ReverseNext
  <2>3. CASE i = 1
    BY <2>2, <2>3 DEF Spot
  <2>4. CASE i # 1
    <3>1. Spot(h, s, i - 1) = s[i - 1] /\ s[i - 1] # h
      BY <2>4, <1>1, <1>3 DEF Spot
    <3>2. QED BY <2>2, <2>4, <3>1
  <2>5. QED BY <2>3, <2>4
<1> HIDE DEF ny
<1>6. ASSUME NEW x \in 1..k, NEW y \in 1..k, w[x] = w[y] PROVE x = y
  <2>1. k + 1 - x \in 1..k /\ k + 1 - y \in 1..k
    OBVIOUS
  <2>2. k + 1 - x = k + 1 - y
    BY <2>1, <1>1, <1>2, <1>6
  <2>3. QED BY <2>2
<1>7. ASSUME NEW x \in 0..k PROVE ny[Spot(h, w, x)] = IF x < k THEN w[x + 1] ELSE Nil
  <2>1. CASE x = 0
    <3>1. Spot(h, w, x) = h
      BY <2>1 DEF Spot
    <3>2. last = s[k] /\ 1 \in 1..k /\ k + 1 - 1 = k /\ x < k /\ x + 1 = 1
      BY <2>1, <1>1 DEF Spot
    <3>3. w[1] = s[k]
      <4>1. w[1] = s[k + 1 - 1]
        BY <3>2, <1>2
      <4>2. QED BY <4>1, <3>2
    <3>4. QED BY <3>1, <3>2, <3>3, <1>3
  <2>2. CASE x # 0
    <3>1. x \in 1..k /\ k + 1 - x \in 1..k /\ Spot(h, w, x) = s[k + 1 - x]
      BY <2>2, <1>2 DEF Spot
    <3>2. ny[Spot(h, w, x)] = IF k + 1 - x = 1 THEN Nil ELSE s[(k + 1 - x) - 1]
      BY <3>1, <1>5
    <3>3. x < k => x + 1 \in 1..k /\ w[x + 1] = s[k + 1 - (x + 1)] /\ k + 1 - (x + 1) = (k + 1 - x) - 1
      BY <1>2
    <3>4. k + 1 - x = 1 <=> ~(x < k)
      OBVIOUS
    <3>5. QED BY <3>2, <3>3, <3>4
  <2>3. QED BY <2>1, <2>2
<1>8. Traces(ny, h, k, w)
  BY <1>2, <1>6, <1>7 DEF Traces
<1>9. QED BY <1>8 DEF ny

\* A whole chain linked after the i-th position of another one.
LEMMA TracesSplice ==
    ASSUME NEW nx \in Link, NEW h \in Header, NEW k \in Nat, NEW s, Traces(nx, h, k, s),
           NEW o \in Header, o # h, NEW j \in Nat, j > 0, NEW t, Traces(nx, o, j, t),
           \A x \in 1..k, y \in 1..j : s[x] # t[y],
           NEW i \in 0..k, NEW p, p = Spot(h, s, i), NEW last, last = t[j],
           NEW w, WithAll(w, s, k, i, t, j, Node)
    PROVE  Traces(SpliceNext(nx, p, o, last), h, k + j, w)
<1> DEFINE ny == SpliceNext(nx, p, o, last)
<1>1. /\ s \in [1..k -> Node]
      /\ \A x, y \in 1..k : s[x] = s[y] => x = y
      /\ \A x \in 0..k : nx[Spot(h, s, x)] = IF x < k THEN s[x + 1] ELSE Nil
  BY DEF Traces
<1>2. /\ t \in [1..j -> Node]
      /\ \A x, y \in 1..j : t[x] = t[y] => x = y
      /\ \A x \in 0..j : nx[Spot(o, t, x)] = IF x < j THEN t[x + 1] ELSE Nil
  BY DEF Traces
<1>3. /\ w \in [1..k + j -> Node]
      /\ \A x \in 1..k + j : w[x] = IF x <= i THEN s[x] ELSE IF x <= i + j THEN t[x - i] ELSE s[x - j]
  BY DEF WithAll
<1>4. p \in Addr /\ last \in Addr /\ p # last /\ p # o /\ o \in Addr /\ last # o
  BY <1>1, <1>2, Addresses DEF Spot, Addr
<1>5. /\ ny[p] = nx[o] /\ ny[last] = nx[p]
      /\ \A a \in Addr : a # p /\ a # last /\ a # o => ny[a] = nx[a]
  BY <1>4 DEF SpliceNext, Link
<1> HIDE DEF ny
<1>6. \A x \in 0..k : /\ Spot(h, s, x) \in Addr /\ Spot(h, s, x) # last /\ Spot(h, s, x) # o
                       /\ (Spot(h, s, x) = p => x = i)
  BY <1>1, <1>2, Addresses DEF Spot, Addr
<1>7. \A y \in 1..j : t[y] \in Addr /\ t[y] # p /\ t[y] # o /\ (t[y] = last => y = j)
  BY <1>1, <1>2, Addresses DEF Spot, Addr
<1>8. nx[o] = t[1]
  BY <1>2 DEF Spot
<1>9. \A y \in 1..j : y < j => nx[t[y]] = t[y + 1]
  BY <1>2 DEF Spot
<1>10. ASSUME NEW x \in 1..k + j, NEW y \in 1..k + j, w[x] = w[y] PROVE x = y
  <2> DEFINE InT(z) == i < z /\ z <= i + j /\ \E v \in 1..j : w[z] = t[v] /\ z = v + i
             InS(z) == \E v \in 1..k : w[z] = s[v] /\ ((z <= i /\ v = z) \/ (z > i + j /\ v = z - j))
  <2>1. \A z \in 1..k + j : InT(z) \/ InS(z)
    <3>1. SUFFICES ASSUME NEW z \in 1..k + j PROVE InT(z) \/ InS(z)
      OBVIOUS
    <3>2. CASE z <= i
      <4>1. z \in 1..k /\ w[z] = s[z]
        BY <3>2, <1>3
      <4>2. InS(z)
        BY <3>2, <4>1
      <4>3. QED BY <4>2
    <3>3. CASE z > i + j
      <4>1. z - j \in 1..k /\ w[z] = s[z - j]
        BY <3>3, <1>3
      <4>2. InS(z)
        BY <3>3, <4>1
      <4>3. QED BY <4>2
    <3>4. CASE i < z /\ z <= i + j
      <4>1. z - i \in 1..j /\ w[z] = t[z - i] /\ z = (z - i) + i
        BY <3>4, <1>3
      <4>2. InT(z)
        BY <3>4, <4>1
      <4>3. QED BY <4>2
    <3>5. QED BY <3>2, <3>3, <3>4
  <2>2. CASE i < x /\ x <= i + j
    <3>1. PICK u \in 1..j : w[x] = t[u] /\ x = u + i
      <4>1. InT(x) \/ InS(x)
        <5> HIDE DEF InT, InS
        <5> QED BY <2>1
      <4>2. QED BY <4>1, <2>2
    <3>2. \A v \in 1..k : w[y] # s[v]
      BY <3>1, <1>10
    <3>3. PICK v \in 1..j : w[y] = t[v] /\ y = v + i
      <4>1. InT(y) \/ InS(y)
        <5> HIDE DEF InT, InS
        <5> QED BY <2>1
      <4>2. QED BY <4>1, <3>2
    <3>4. u = v
      BY <3>1, <3>3, <1>2, <1>10
    <3>5. QED BY <3>1, <3>3, <3>4
  <2>3. CASE ~(i < x /\ x <= i + j)
    <3>1. PICK u \in 1..k : w[x] = s[u] /\ ((x <= i /\ u = x) \/ (x > i + j /\ u = x - j))
      <4>1. InT(x) \/ InS(x)
        <5> HIDE DEF InT, InS
        <5> QED BY <2>1
      <4>2. QED BY <4>1, <2>3
    <3>2. \A v \in 1..j : w[y] # t[v]
      BY <3>1, <1>10
    <3>3. PICK v \in 1..k : w[y] = s[v] /\ ((y <= i /\ v = y) \/ (y > i + j /\ v = y - j))
      <4>1. InT(y) \/ InS(y)
        <5> HIDE DEF InT, InS
        <5> QED BY <2>1
      <4>2. QED BY <4>1, <3>2
    <3>4. u = v
      BY <3>1, <3>3, <1>1, <1>10
    <3>5. QED BY <3>1, <3>3, <3>4
  <2>4. QED BY <2>2, <2>3
<1>11. ASSUME NEW x \in 0..k + j
       PROVE  ny[Spot(h, w, x)] = IF x < k + j THEN w[x + 1] ELSE Nil
  <2>1. CASE x < i
    <3>1. Spot(h, w, x) = Spot(h, s, x) /\ x \in 0..k /\ x < k /\ x < k + j
      BY <2>1, <1>3 DEF Spot
    <3>2. ny[Spot(h, w, x)] = nx[Spot(h, s, x)]
      BY <3>1, <2>1, <1>5, <1>6
    <3>3. nx[Spot(h, s, x)] = s[x + 1] /\ w[x + 1] = s[x + 1]
      BY <3>1, <2>1, <1>1, <1>3
    <3>4. QED BY <3>1, <3>2, <3>3
  <2>2. CASE x = i
    <3>1. Spot(h, w, x) = p /\ x < k + j
      BY <2>2, <1>3 DEF Spot
    <3>2. w[x + 1] = t[1]
      <4>1. x + 1 \in 1..k + j /\ ~(x + 1 <= i) /\ x + 1 <= i + j /\ (x + 1) - i = 1
        BY <2>2
      <4>2. QED BY <4>1, <1>3
    <3>3. QED BY <3>1, <3>2, <1>5, <1>8
  <2>3. CASE i < x /\ x < i + j
    <3>1. x \in 1..k + j /\ x - i \in 1..j /\ x - i < j /\ x < k + j /\ Spot(h, w, x) = t[x - i]
      BY <2>3, <1>3 DEF Spot
    <3>2. ny[Spot(h, w, x)] = nx[t[x - i]]
      BY <3>1, <1>5, <1>7
    <3>3. nx[t[x - i]] = t[(x - i) + 1]
      BY <3>1, <1>9
    <3>4. w[x + 1] = t[(x - i) + 1]
      <4>1. x + 1 \in 1..k + j /\ ~(x + 1 <= i) /\ x + 1 <= i + j /\ (x + 1) - i = (x - i) + 1
        BY <2>3, <3>1
      <4>2. QED BY <4>1, <1>3
    <3>5. QED BY <3>1, <3>2, <3>3, <3>4
  <2>4. CASE x = i + j
    <3>1. Spot(h, w, x) = last
      <4>1. x \in 1..k + j /\ ~(x <= i) /\ x <= i + j /\ x - i = j /\ x # 0
        BY <2>4
      <4>2. QED BY <4>1, <1>3 DEF Spot
    <3>2. nx[p] = IF i < k THEN s[i + 1] ELSE Nil
      BY <1>1
    <3>3. i < k => w[x + 1] = s[i + 1]
      <4>1. i < k => x + 1 \in 1..k + j /\ ~(x + 1 <= i) /\ ~(x + 1 <= i + j) /\ (x + 1) - j = i + 1
        BY <2>4
      <4>2. QED BY <4>1, <1>3
    <3>4. x < k + j <=> i < k
      BY <2>4
    <3>5. QED BY <3>1, <3>2, <3>3, <3>4, <1>5
  <2>5. CASE x > i + j
    <3>1. x - j \in 0..k /\ x - j # i /\ Spot(h, w, x) = Spot(h, s, x - j)
      BY <2>5, <1>3 DEF Spot
    <3>2. ny[Spot(h, w, x)] = nx[Spot(h, s, x - j)]
      BY <3>1, <1>5, <1>6
    <3>3. nx[Spot(h, s, x - j)] = IF x - j < k THEN s[(x - j) + 1] ELSE Nil
      BY <3>1, <1>1
    <3>4. x < k + j => w[x + 1] = s[(x - j) + 1]
      <4>1. x < k + j => x + 1 \in 1..k + j /\ ~(x + 1 <= i) /\ ~(x + 1 <= i + j) /\ (x + 1) - j = (x - j) + 1
        BY <2>5
      <4>2. QED BY <4>1, <1>3
    <3>5. x - j < k <=> x < k + j
      OBVIOUS
    <3>6. QED BY <3>2, <3>3, <3>4, <3>5
  <2>6. QED BY <2>1, <2>2, <2>3, <2>4, <2>5
<1>12. Traces(ny, h, k + j, w)
  BY <1>3, <1>10, <1>11 DEF Traces
<1>13. QED BY <1>12 DEF ny

------------------------------------------------------------------------------
(* The abstract state of ForwardListSeq.                                   *)

SeqNow   == [l \in List |-> Nodes(header_[l])]
LooseNow == {n \in Node : where[n] = User}

\* Q[g] is the sequence read from header g.
View(Q, nx, ct) == \A g \in Header : ct[g] \in Nat /\ Traces(nx, g, ct[g], Q[g])

LEMMA ViewNow ==
    ASSUME header_ \in [List -> Header], NEW Q, View(Q, next, count)
    PROVE  SeqNow = [l \in List |-> Q[header_[l]]]
<1>1. ASSUME NEW l \in List PROVE Nodes(header_[l]) = Q[header_[l]]
  <2>1. PICK h \in Header : h = header_[l]
    OBVIOUS
  <2>2. NodesOf(next, count[h], h) = Q[h]
    BY NodesAre DEF View
  <2>3. Nodes(h) = NodesOf(next, count[h], h)
    BY DEF Nodes, NodesOf
  <2>4. QED BY <2>1, <2>2, <2>3
<1>2. QED BY <1>1 DEF SeqNow

LEMMA ViewNext ==
    ASSUME header_' \in [List -> Header], NEW Q, View(Q, next', count')
    PROVE  SeqNow' = [l \in List |-> Q[header_'[l]]]
<1>1. ASSUME NEW l \in List PROVE Nodes(header_[l])' = Q[header_'[l]]
  <2>1. PICK h \in Header : h = header_'[l]
    OBVIOUS
  <2>2. NodesOf(next', count'[h], h) = Q[h]
    BY NodesAre DEF View
  <2>3. Nodes(header_[l])' = NodesOf(next', count'[header_'[l]], header_'[l])
    BY DEF Nodes, NodesOf
  <2>4. QED BY <2>1, <2>2, <2>3
<1>2. QED BY <1>1 DEF SeqNow

\* The sequences of the present state: their elements are the nodes of the
\* lists, and `prev` is the last of each.
Now(Q) ==
    /\ header_ \in [List -> Header] /\ Injective(header_)
    /\ where \in [Node -> Header \cup {Free, User}]
    /\ next \in Link
    /\ View(Q, next, count)
    /\ \A g \in Header : /\ On(where, g) = {Q[g][i] : i \in 1..count[g]}
                         /\ prev[g] = Spot(g, Q[g], count[g])

LEMMA HasNow == ASSUME IInv PROVE \E Q : Now(Q)
<1>1. Good(next, prev, count, where) /\ header_ \in [List -> Header] /\ Injective(header_)
  BY IInvGood
<1>2. /\ where \in [Node -> Header \cup {Free, User}]
      /\ next \in Link
      /\ \A g \in Header : /\ Chain(next, g, count[g], prev[g], On(where, g))
                           /\ count[g] \in Nat
                           /\ On(where, g) \in SUBSET Node
  BY <1>1 DEF Good, On
<1> DEFINE Q == [g \in Header |-> CHOOSE s : Spells(s, next, g, count[g], prev[g], On(where, g))]
<1>3. ASSUME NEW g \in Header PROVE Spells(Q[g], next, g, count[g], prev[g], On(where, g))
  <2>1. \E s : Spells(s, next, g, count[g], prev[g], On(where, g))
    BY <1>2, ChainSpells
  <2>2. QED BY <2>1
<1> HIDE DEF Q
<1>4. View(Q, next, count)
  BY <1>2, <1>3 DEF View, Spells
<1>5. QED BY <1>1, <1>2, <1>3, <1>4 DEF Now, Spells

\* What is known of one list.
LEMMA NowFacts ==
    ASSUME NEW Q, Now(Q), NEW g \in Header, NEW k, k = count[g], NEW s, s = Q[g]
    PROVE  /\ k \in Nat
           /\ Traces(next, g, k, s)
           /\ s \in [1..k -> Node]
           /\ On(where, g) = {s[i] : i \in 1..k}
           /\ prev[g] = Spot(g, s, k)
           /\ \A i \in 1..k : where[s[i]] = g
<1>1. k \in Nat /\ Traces(next, g, k, s) /\ On(where, g) = {s[i] : i \in 1..k} /\ prev[g] = Spot(g, s, k)
  BY DEF Now, View
<1>2. s \in [1..k -> Node]
  BY <1>1 DEF Traces
<1>3. \A i \in 1..k : s[i] \in On(where, g)
  BY <1>1
<1>4. QED BY <1>1, <1>2, <1>3 DEF On

\* A position is the header or the i-th element, and Index says which.
LEMMA NowPosition ==
    ASSUME NEW Q, Now(Q), NEW g \in Header, NEW k, k = count[g], NEW s, s = Q[g],
           NEW p \in Positions(g)
    PROVE  \E i \in 0..k : p = Spot(g, s, i) /\ Index(g, p) = i
<1>1. /\ k \in Nat
      /\ Traces(next, g, k, s)
      /\ s \in [1..k -> Node]
      /\ On(where, g) = {s[i] : i \in 1..k}
  BY NowFacts
<1>2. p \in {g} \cup {s[i] : i \in 1..k}
  BY <1>1 DEF Positions, Members, On
<1>3. Nodes(g) = s
  <2>1. NodesOf(next, k, g) = s
    BY <1>1, NodesAre
  <2>2. Nodes(g) = NodesOf(next, count[g], g)
    BY DEF Nodes, NodesOf
  <2>3. QED BY <2>1, <2>2
<1>4. CASE p = g
  <2>1. 0 \in 0..k /\ p = Spot(g, s, 0) /\ Index(g, p) = 0
    BY <1>1, <1>4 DEF Spot, Index
  <2>2. QED BY <2>1
<1>5. CASE p # g
  <2>1. PICK i \in 1..k : p = s[i]
    BY <1>2, <1>5
  <2>2. \A x \in 1..k : s[x] = p => x = i
    BY <1>1, <2>1 DEF Traces
  <2>3. Index(g, p) = i
    BY <1>3, <1>5, <2>1, <2>2 DEF Index
  <2>4. i \in 0..k /\ p = Spot(g, s, i)
    BY <1>1, <2>1 DEF Spot
  <2>5. QED BY <2>3, <2>4
<1>6. QED BY <1>4, <1>5

\* A node that may be linked is none of the abstract lists'.
LEMMA NowUnused ==
    ASSUME NEW Q, Now(Q), NEW n \in Node, Linkable(n)
    PROVE  /\ n \in Abs!Unallocated \cup LooseNow
           /\ \A g \in Header : n \notin On(where, g)
<1>1. \A g \in Header : n \notin On(where, g)
  BY Addresses DEF Linkable, On
<1>2. SeqNow = [l \in List |-> Q[header_[l]]]
  BY ViewNow DEF Now
<1>3. ASSUME NEW l \in List PROVE n \notin Abs!Elements(SeqNow[l])
  <2>1. PICK g \in Header : g = header_[l]
    BY DEF Now
  <2>2. PICK s, k : s = Q[g] /\ k = count[g]
    OBVIOUS
  <2>3. k \in Nat /\ s \in [1..k -> Node] /\ On(where, g) = {s[i] : i \in 1..k}
    BY <2>2, NowFacts
  <2>4. SeqNow[l] = s /\ Len(s) = k
    BY <1>2, <2>1, <2>2, <2>3
  <2>5. \A i \in 1..k : s[i] # n
    BY <1>1, <2>3
  <2>6. Abs!Elements(SeqNow[l]) = {s[i] : i \in 1..k}
    BY <2>4 DEF Abs!Elements
  <2>7. QED BY <2>5, <2>6
<1>4. Abs!Unallocated = Node \ (LooseNow \cup UNION {Abs!Elements(SeqNow[l]) : l \in List})
  BY DEF Abs!Unallocated, SeqNow, LooseNow
<1>5. QED BY <1>1, <1>3, <1>4

\* The abstract steps, of the abstract state by name.
LEMMA InsertShape ==
    ASSUME NEW l \in List, NEW i, NEW n, n \in Abs!Unallocated \cup LooseNow,
           i \in 0..Len(SeqNow[l]),
           SeqNow' = [SeqNow EXCEPT ![l] = SplicedOne(@, i, n)], LooseNow' = LooseNow \ {n}
    PROVE  Abs!Insert(l, i, n)
BY DEF Abs!Insert, Abs!InsertAt, SplicedOne, SeqNow, LooseNow

LEMMA DeleteShape ==
    ASSUME NEW l \in List, NEW i, NEW kept, i \in 1..Len(SeqNow[l]),
           SeqNow' = [SeqNow EXCEPT ![l] = CutOut(@, i)],
           LooseNow' = IF kept THEN LooseNow \cup {SeqNow[l][i]} ELSE LooseNow
    PROVE  Abs!Delete(l, i, kept)
BY DEF Abs!Delete, Abs!DeleteAt, CutOut, SeqNow, LooseNow

\* No node is at two headers.
LEMMA OtherPositions ==
    ASSUME NEW Q, Now(Q), NEW g \in Header, NEW h \in Header, g # h, NEW p \in Positions(h)
    PROVE  p \notin Positions(g) /\ p \in Addr
BY Addresses DEF Positions, Members, Addr, Now

\* A sequence is still read when the links at its positions are what they were.
LEMMA OtherTraces ==
    ASSUME NEW Q, Now(Q), NEW g \in Header, NEW ny, \A a \in Positions(g) : ny[a] = next[a]
    PROVE  Traces(ny, g, count[g], Q[g])
<1>1. PICK q, j : q = Q[g] /\ j = count[g]
  OBVIOUS
<1>2. j \in Nat /\ Traces(next, g, j, q) /\ q \in [1..j -> Node] /\ \A x \in 1..j : where[q[x]] = g
  BY <1>1, NowFacts
<1>3. \A x \in 0..j : Spot(g, q, x) \in Positions(g)
  BY <1>2 DEF Spot, Positions, Members
<1>4. \A x \in 0..j : ny[Spot(g, q, x)] = next[Spot(g, q, x)]
  BY <1>3
<1>5. QED BY <1>1, <1>2, <1>4, TracesFrame

\* Header g is as it was.
Untouched(g) == count'[g] = count[g] /\ \A a \in Positions(g) : next'[a] = next[a]

\* List l now has the sequence w, the other headers are as they were.
Changed(Q, l, w) ==
    LET h == header_[l] IN
    /\ Now(Q)
    /\ header_' = header_
    /\ count'[h] \in Nat /\ Traces(next', h, count'[h], w)
    /\ \A g \in Header : g # h => Untouched(g)

\* Lists l and m now have the sequences w and v.
BothChanged(Q, l, w, m, v) ==
    /\ Now(Q)
    /\ header_' = header_
    /\ count'[header_[l]] \in Nat /\ Traces(next', header_[l], count'[header_[l]], w)
    /\ count'[header_[m]] \in Nat /\ Traces(next', header_[m], count'[header_[m]], v)
    /\ \A g \in Header : g # header_[l] /\ g # header_[m] => Untouched(g)

\* One list gets another sequence, the others are untouched.
LEMMA OneChanges ==
    ASSUME NEW Q, NEW l \in List, NEW w, Changed(Q, l, w)
    PROVE  SeqNow[l] = Q[header_[l]] /\ SeqNow' = [SeqNow EXCEPT ![l] = w]
<1>0. PICK h : /\ h = header_[l] /\ Now(Q) /\ header_' = header_
               /\ count'[h] \in Nat /\ Traces(next', h, count'[h], w)
               /\ \A g \in Header : g # h => Untouched(g)
  BY DEF Changed
<1>1. header_ \in [List -> Header] /\ Injective(header_) /\ header_' \in [List -> Header] /\ h \in Header
  BY <1>0 DEF Now
<1>2. PICK R : R = [g \in Header |-> IF g = h THEN w ELSE Q[g]]
  OBVIOUS
<1>3. ASSUME NEW g \in Header PROVE count'[g] \in Nat /\ Traces(next', g, count'[g], R[g])
  <2>1. CASE g = h
    BY <2>1, <1>0, <1>2
  <2>2. CASE g # h
    <3>1. R[g] = Q[g] /\ count'[g] = count[g] /\ \A a \in Positions(g) : next'[a] = next[a]
      BY <2>2, <1>0, <1>2 DEF Untouched
    <3>2. Traces(next', g, count[g], Q[g])
      BY <3>1, <1>0, OtherTraces
    <3>3. count[g] \in Nat
      BY <1>0 DEF Now, View
    <3>4. QED BY <3>1, <3>2, <3>3
  <2>3. QED BY <2>1, <2>2
<1>4. View(R, next', count')
  BY <1>3 DEF View
<1>5. SeqNow = [m \in List |-> Q[header_[m]]]
  BY <1>0, <1>1, ViewNow DEF Now
<1>6. SeqNow' = [m \in List |-> R[header_[m]]]
  BY <1>0, <1>1, <1>4, ViewNext
<1>7. ASSUME NEW m \in List, m # l PROVE R[header_[m]] = Q[header_[m]]
  BY <1>0, <1>1, <1>2, <1>7 DEF Injective
<1>8. R[header_[l]] = w
  BY <1>0, <1>1, <1>2
<1> HIDE DEF SeqNow
<1>9. QED BY <1>0, <1>5, <1>6, <1>7, <1>8

\* Two lists get other sequences, the others are untouched.
LEMMA TwoChange ==
    ASSUME NEW Q, NEW l \in List, NEW m \in List, l # m, NEW w, NEW v,
           BothChanged(Q, l, w, m, v)
    PROVE  /\ SeqNow[l] = Q[header_[l]] /\ SeqNow[m] = Q[header_[m]]
           /\ SeqNow' = [SeqNow EXCEPT ![l] = w, ![m] = v]
           /\ SeqNow' = [SeqNow EXCEPT ![m] = v, ![l] = w]
<1>0. PICK h, o : /\ h = header_[l] /\ o = header_[m] /\ Now(Q) /\ header_' = header_
                  /\ count'[h] \in Nat /\ Traces(next', h, count'[h], w)
                  /\ count'[o] \in Nat /\ Traces(next', o, count'[o], v)
                  /\ \A g \in Header : g # h /\ g # o => Untouched(g)
  BY DEF BothChanged
<1>1. /\ header_ \in [List -> Header] /\ Injective(header_) /\ header_' \in [List -> Header]
      /\ h \in Header /\ o \in Header /\ h # o
  BY <1>0 DEF Now, Injective
<1>2. PICK R : R = [g \in Header |-> IF g = h THEN w ELSE IF g = o THEN v ELSE Q[g]]
  OBVIOUS
<1>3. ASSUME NEW g \in Header PROVE count'[g] \in Nat /\ Traces(next', g, count'[g], R[g])
  <2>1. CASE g = h \/ g = o
    BY <2>1, <1>0, <1>1, <1>2
  <2>2. CASE g # h /\ g # o
    <3>1. R[g] = Q[g] /\ count'[g] = count[g] /\ \A a \in Positions(g) : next'[a] = next[a]
      BY <2>2, <1>0, <1>2 DEF Untouched
    <3>2. Traces(next', g, count[g], Q[g])
      BY <3>1, <1>0, OtherTraces
    <3>3. count[g] \in Nat
      BY <1>0 DEF Now, View
    <3>4. QED BY <3>1, <3>2, <3>3
  <2>3. QED BY <2>1, <2>2
<1>4. View(R, next', count')
  BY <1>3 DEF View
<1>5. SeqNow = [x \in List |-> Q[header_[x]]]
  BY <1>0, <1>1, ViewNow DEF Now
<1>6. SeqNow' = [x \in List |-> R[header_[x]]]
  BY <1>0, <1>1, <1>4, ViewNext
<1>7. ASSUME NEW x \in List, x # l, x # m PROVE R[header_[x]] = Q[header_[x]]
  BY <1>0, <1>1, <1>2, <1>7 DEF Injective
<1>8. R[header_[l]] = w /\ R[header_[m]] = v
  BY <1>0, <1>1, <1>2
<1> HIDE DEF SeqNow
<1>9. QED BY <1>0, <1>5, <1>6, <1>7, <1>8

\* insert_after is the insertion its name promises.
LEMMA InsertIsAbs ==
    ASSUME IInv, NEW l \in List, NEW n \in Node, NEW pos, InsertAfter(l, pos, n)
    PROVE  /\ Abs!Insert(l, Index(header_[l], pos), n)
           /\ Index(header_[l], pos) \in 0..Len(SeqNow[l])
<1>1. PICK Q : Now(Q)
  BY HasNow
<1>2. PICK h, k, s : h = header_[l] /\ k = count[h] /\ s = Q[h]
  OBVIOUS
<1>3. h \in Header /\ Linkable(n) /\ pos \in Positions(h)
  BY <1>1, <1>2 DEF InsertAfter, Now
<1>4. /\ k \in Nat
      /\ Traces(next, h, k, s)
      /\ s \in [1..k -> Node]
      /\ On(where, h) = {s[i] : i \in 1..k}
  BY <1>1, <1>2, <1>3, NowFacts
<1>5. PICK i \in 0..k : pos = Spot(h, s, i) /\ Index(h, pos) = i
  BY <1>1, <1>2, <1>3, NowPosition
<1>6. n \in Abs!Unallocated \cup LooseNow /\ \A g \in Header : n \notin On(where, g)
  BY <1>1, <1>3, NowUnused
<1>7. PICK nx : nx = NodeReady(n)
  OBVIOUS
<1>8. nx \in Link /\ \A a \in Addr : a # n => nx[a] = next[a]
  BY <1>1, <1>7 DEF NodeReady, Now, Link
<1>9. PICK w : w = SplicedOne(s, i, n)
  OBVIOUS
<1>10. WithOne(w, s, k, i, n, Node)
  BY <1>4, <1>9, InsertAtIs
<1>11. /\ next' = InsertAfterNext(nx, pos, n)
       /\ count' = [count EXCEPT ![h] = @ + 1]
       /\ where' = [where EXCEPT ![n] = h]
       /\ header_' = header_
  BY <1>2, <1>7 DEF InsertAfter
<1>12. Traces(next', h, k + 1, w)
  <2>1. Traces(nx, h, k, s)
    <3>1. \A x \in 0..k : Spot(h, s, x) \in Addr /\ Spot(h, s, x) # n
      BY <1>3, <1>4, <1>6, Addresses DEF Spot, Addr
    <3>2. \A x \in 0..k : nx[Spot(h, s, x)] = next[Spot(h, s, x)]
      BY <3>1, <1>8
    <3>3. QED BY <3>2, <1>3, <1>4, TracesFrame
  <2>2. \A x \in 1..k : s[x] # n
    BY <1>3, <1>4, <1>6
  <2>3. Traces(InsertAfterNext(nx, pos, n), h, k + 1, w)
    BY <1>3, <1>4, <1>5, <1>8, <1>10, <2>1, <2>2, TracesInsert
  <2>4. QED BY <2>3, <1>11
<1>13. count'[h] = k + 1
  BY <1>2, <1>3, <1>11, IInvGood DEF Good
<1>14. ASSUME NEW g \in Header, g # h PROVE Untouched(g)
  <2>1. n \notin Positions(g) /\ pos \notin Positions(g) /\ Positions(g) \subseteq Addr
    BY <1>1, <1>3, <1>6, <1>14, OtherPositions, Addresses DEF Positions, Members, On, Addr
  <2>2. \A a \in Addr : a # n /\ a # pos => next'[a] = next[a]
    BY <1>8, <1>11 DEF InsertAfterNext, Link
  <2>3. count'[g] = count[g]
    BY <1>11, <1>14, IInvGood DEF Good
  <2>4. QED BY <2>1, <2>2, <2>3 DEF Untouched
<1>15. SeqNow[l] = s /\ SeqNow' = [SeqNow EXCEPT ![l] = w]
  <2>1. Changed(Q, l, w)
    BY <1>1, <1>2, <1>4, <1>11, <1>12, <1>13, <1>14 DEF Changed
  <2>2. QED BY <2>1, <1>2, OneChanges
<1>18. LooseNow' = LooseNow \ {n}
  BY <1>1, <1>3, <1>11, Addresses DEF LooseNow, Now
<1>19. i \in 0..Len(SeqNow[l]) /\ SeqNow' = [SeqNow EXCEPT ![l] = SplicedOne(@, i, n)]
  <2>1. Len(s) = k
    BY <1>4
  <2>2. QED BY <2>1, <1>15, <1>9, <1>5
<1>20. Abs!Insert(l, i, n)
  BY <1>6, <1>18, <1>19, InsertShape
<1>21. QED BY <1>2, <1>5, <1>19, <1>20

\* extract_after and erase_after take out the element they are asked for.
LEMMA TakeIsAbs ==
    ASSUME IInv, NEW l \in List, NEW to \in {User, Free}, NEW pos, TakeAfter(l, pos, to)
    PROVE  /\ Abs!Delete(l, Index(header_[l], pos) + 1, to = User)
           /\ Index(header_[l], pos) + 1 \in 1..Len(SeqNow[l])
<1>1. PICK Q : Now(Q)
  BY HasNow
<1>2. PICK h, k, s : h = header_[l] /\ k = count[h] /\ s = Q[h]
  OBVIOUS
<1>3. h \in Header /\ pos \in Positions(h) /\ next[pos] # Nil
  BY <1>1, <1>2 DEF TakeAfter, Now
<1>4. /\ k \in Nat
      /\ Traces(next, h, k, s)
      /\ s \in [1..k -> Node]
      /\ \A x \in 1..k : where[s[x]] = h
  BY <1>1, <1>2, <1>3, NowFacts
<1>5. PICK i \in 0..k : pos = Spot(h, s, i) /\ Index(h, pos) = i
  BY <1>1, <1>2, <1>3, NowPosition
<1>6. i < k
  BY <1>3, <1>4, <1>5 DEF Traces
<1>7. PICK j \in 1..k : j = i + 1 /\ i = j - 1
  BY <1>4, <1>6
<1>8. PICK w : w = CutOut(s, j)
  OBVIOUS
<1>9. WithoutOne(w, s, k, j, Node)
  BY <1>4, <1>8, DeleteAtIs
<1>10. next \in Link
  BY <1>1 DEF Now
<1>11. next[pos] = s[j] /\ Traces(ExtractAfterNext(next, pos), h, k - 1, w)
  <2>1. pos = Spot(h, s, j - 1)
    BY <1>5, <1>7
  <2>2. QED BY <2>1, <1>3, <1>4, <1>9, <1>10, TracesDelete
<1>12. /\ next' = ExtractAfterNext(next, pos)
       /\ count' = [count EXCEPT ![h] = @ - 1]
       /\ where' = [where EXCEPT ![s[j]] = to]
       /\ header_' = header_
  BY <1>2, <1>11 DEF TakeAfter
<1>13. s[j] \in Node /\ where[s[j]] = h
  BY <1>4
<1>14. count'[h] = k - 1 /\ count'[h] \in Nat
  BY <1>2, <1>3, <1>4, <1>7, <1>12, IInvGood DEF Good
<1>15. ASSUME NEW g \in Header, g # h PROVE Untouched(g)
  <2>1. pos \notin Positions(g) /\ s[j] \notin Positions(g) /\ Positions(g) \subseteq Addr
    BY <1>1, <1>3, <1>13, <1>15, OtherPositions, Addresses DEF Positions, Members, Addr
  <2>2. \A a \in Addr : a # s[j] /\ a # pos => next'[a] = next[a]
    BY <1>10, <1>11, <1>12 DEF ExtractAfterNext, Link
  <2>3. count'[g] = count[g]
    BY <1>12, <1>15, IInvGood DEF Good
  <2>4. QED BY <2>1, <2>2, <2>3 DEF Untouched
<1>16. SeqNow[l] = s /\ SeqNow' = [SeqNow EXCEPT ![l] = w]
  <2>1. Changed(Q, l, w)
    BY <1>1, <1>2, <1>11, <1>12, <1>14, <1>15 DEF Changed
  <2>2. QED BY <2>1, <1>2, OneChanges
<1>17. LooseNow' = IF to = User THEN LooseNow \cup {SeqNow[l][j]} ELSE LooseNow
  <2>1. LooseNow' = IF to = User THEN LooseNow \cup {s[j]} ELSE LooseNow
    BY <1>1, <1>3, <1>12, <1>13, Addresses DEF LooseNow, Now
  <2>2. QED BY <2>1, <1>16
<1>18. j \in 1..Len(SeqNow[l]) /\ SeqNow' = [SeqNow EXCEPT ![l] = CutOut(@, j)]
  <2>1. Len(s) = k
    BY <1>4
  <2>2. QED BY <2>1, <1>16, <1>8
<1>19. Abs!Delete(l, j, to = User)
  BY <1>17, <1>18, DeleteShape
<1>20. QED BY <1>2, <1>5, <1>7, <1>18, <1>19

\* clear leaves nothing.
LEMMA ClearIsAbs ==
    ASSUME IInv, NEW l \in List, Clear(l)
    PROVE  Abs!Clear(l)
<1>1. PICK Q : Now(Q)
  BY HasNow
<1>2. PICK h : h = header_[l]
  OBVIOUS
<1>3. /\ h \in Header /\ next \in Link /\ count \in [Header -> Nat]
      /\ where \in [Node -> Header \cup {Free, User}]
  BY <1>1, <1>2, IInvGood DEF Now, Good
<1>4. /\ next' = [next EXCEPT ![h] = Nil]
      /\ count' = [count EXCEPT ![h] = 0]
      /\ where' = [n \in Node |-> IF n \in Members(h) THEN Free ELSE where[n]]
      /\ header_' = header_
  BY <1>2 DEF Clear
<1>5. count'[h] = 0 /\ Traces(next', h, 0, <<>>)
  BY <1>3, <1>4, TracesEmpty DEF Link, Addr
<1>6. ASSUME NEW g \in Header, g # h PROVE Untouched(g)
  <2>1. h \in Positions(h)
    BY DEF Positions
  <2>2. h \notin Positions(g) /\ Positions(g) \subseteq Addr
    BY <2>1, <1>1, <1>3, <1>6, OtherPositions DEF Positions, Members, Addr
  <2>3. QED BY <2>2, <1>3, <1>4, <1>6 DEF Untouched, Link
<1>7. SeqNow' = [SeqNow EXCEPT ![l] = <<>>]
  <2>1. Changed(Q, l, <<>>)
    BY <1>1, <1>2, <1>4, <1>5, <1>6 DEF Changed
  <2>2. QED BY <2>1, OneChanges
<1>8. LooseNow' = LooseNow
  BY <1>3, <1>4, Addresses DEF LooseNow, Members
<1>9. QED BY <1>7, <1>8 DEF Abs!Clear, SeqNow, LooseNow

\* reverse turns the list around.
LEMMA ReverseIsAbs ==
    ASSUME IInv, NEW l \in List, Reverse(l)
    PROVE  Abs!Reverse(l)
<1>1. PICK Q : Now(Q)
  BY HasNow
<1>2. PICK h, k, s : h = header_[l] /\ k = count[h] /\ s = Q[h]
  OBVIOUS
<1>3. /\ h \in Header /\ next \in Link /\ count \in [Header -> Nat]
      /\ where \in [Node -> Header \cup {Free, User}]
  BY <1>1, <1>2, IInvGood DEF Now, Good
<1>4. /\ k \in Nat /\ k > 0
      /\ Traces(next, h, k, s)
      /\ s \in [1..k -> Node]
      /\ Members(h) = {s[i] : i \in 1..k}
      /\ prev[h] = Spot(h, s, k)
  <2>1. k >= 2
    BY <1>2 DEF Reverse
  <2>2. QED BY <2>1, <1>1, <1>2, <1>3, NowFacts DEF On, Members
<1>5. /\ next' = ReverseNext(next, h, prev[h], Members(h))
      /\ count' = count /\ where' = where /\ header_' = header_
  BY <1>2 DEF Reverse
<1>6. PICK w : Turned(w, s, k)
  BY DEF Turned
<1>7. Traces(next', h, k, w)
  <2>1. Spells(s, next, h, k, prev[h], Members(h)) /\ Members(h) \in SUBSET Node
    BY <1>4 DEF Spells, Members
  <2>2. QED BY <2>1, <1>3, <1>4, <1>5, <1>6, TracesReverse
<1>8. ASSUME NEW g \in Header, g # h PROVE Untouched(g)
  <2>1. \A p \in Positions(h) : p \notin Positions(g)
    BY <1>1, <1>3, <1>8, OtherPositions
  <2>2. Positions(g) \subseteq Addr /\ h \notin Positions(g) /\ \A p \in Members(h) : p \notin Positions(g)
    BY <2>1 DEF Positions, Members, Addr
  <2>3. QED BY <2>2, <1>5 DEF Untouched, ReverseNext
<1>9. SeqNow[l] = s /\ SeqNow' = [SeqNow EXCEPT ![l] = w]
  <2>1. Changed(Q, l, w)
    BY <1>1, <1>2, <1>3, <1>5, <1>7, <1>8 DEF Changed
  <2>2. QED BY <2>1, <1>2, OneChanges
<1>10. w = Abs!Reversed(s)
  <2>1. Len(s) = k
    BY <1>4
  <2>2. QED BY <2>1, <1>6 DEF Turned, Abs!Reversed
<1>11. SeqNow' = [SeqNow EXCEPT ![l] = Abs!Reversed(@)] /\ LooseNow' = LooseNow
  BY <1>5, <1>9, <1>10 DEF LooseNow
<1>12. QED BY <1>11 DEF Abs!Reverse, SeqNow, LooseNow

\* swap exchanges the sequences of two lists.
LEMMA SwapIsAbs ==
    ASSUME IInv, NEW l \in List, NEW m \in List \ {l}, Swap(l, m)
    PROVE  Abs!Swap(l, m)
<1>1. PICK Q : Now(Q)
  BY HasNow
<1>2. /\ header_' = [header_ EXCEPT ![l] = header_[m], ![m] = header_[l]]
      /\ next' = next /\ count' = count /\ where' = where
  BY DEF Swap
<1>3. header_ \in [List -> Header] /\ header_' \in [List -> Header]
  BY <1>1, <1>2 DEF Now
<1>4. SeqNow = [x \in List |-> Q[header_[x]]]
  BY <1>1, <1>3, ViewNow DEF Now
<1>5. SeqNow' = [x \in List |-> Q[header_'[x]]]
  <2>1. View(Q, next', count')
    BY <1>1, <1>2 DEF Now
  <2>2. QED BY <2>1, <1>3, ViewNext
<1>6. SeqNow' = [SeqNow EXCEPT ![l] = SeqNow[m], ![m] = SeqNow[l]]
  <2> HIDE DEF SeqNow
  <2>1. /\ header_'[l] = header_[m] /\ header_'[m] = header_[l]
        /\ \A x \in List : x # l /\ x # m => header_'[x] = header_[x]
    BY <1>2, <1>3
  <2>2. QED BY <2>1, <1>4, <1>5
<1>7. LooseNow' = LooseNow
  BY <1>2 DEF LooseNow
<1>8. QED BY <1>6, <1>7 DEF Abs!Swap, SeqNow, LooseNow

LEMMA SpliceAllShape ==
    ASSUME NEW l \in List, NEW m \in List, NEW i, i \in 0..Len(SeqNow[l]),
           SeqNow' = [SeqNow EXCEPT ![l] = SplicedIn(SeqNow[l], i, SeqNow[m]), ![m] = <<>>],
           LooseNow' = LooseNow
    PROVE  Abs!SpliceAll(l, i, m)
BY DEF Abs!SpliceAll, Abs!InsertAll, SplicedIn, SeqNow, LooseNow

LEMMA SpliceOneShape ==
    ASSUME NEW l \in List, NEW m \in List, NEW i, NEW j, j \in 1..Len(SeqNow[m]),
           NEW rest, rest = CutOut(SeqNow[m], j),
           NEW into, into = IF l = m THEN rest ELSE SeqNow[l], i \in 0..Len(into),
           SeqNow' = [SeqNow EXCEPT ![m] = rest, ![l] = SplicedOne(into, i, SeqNow[m][j])],
           LooseNow' = LooseNow
    PROVE  Abs!SpliceOne(l, i, m, j)
BY DEF Abs!SpliceOne, Abs!InsertAt, Abs!DeleteAt, SplicedOne, CutOut, SeqNow, LooseNow

\* splice_after of a whole list is the concatenation it promises.
LEMMA SpliceAllIsAbs ==
    ASSUME IInv, NEW l \in List, NEW m \in List \ {l}, NEW pos, SpliceAll(l, pos, m)
    PROVE  /\ Abs!SpliceAll(l, Index(header_[l], pos), m)
           /\ Index(header_[l], pos) \in 0..Len(SeqNow[l])
<1>1. PICK Q : Now(Q)
  BY HasNow
<1>2. PICK h, k, s : h = header_[l] /\ k = count[h] /\ s = Q[h]
  OBVIOUS
<1>3. PICK o, j, t : o = header_[m] /\ j = count[o] /\ t = Q[o]
  OBVIOUS
<1>4. h \in Header /\ o \in Header /\ o # h /\ pos \in Positions(h) /\ next[o] # Nil
  BY <1>1, <1>2, <1>3 DEF SpliceAll, Now, Injective
<1>5. /\ k \in Nat
      /\ Traces(next, h, k, s)
      /\ s \in [1..k -> Node]
      /\ \A x \in 1..k : where[s[x]] = h
  BY <1>1, <1>2, <1>4, NowFacts
<1>6. /\ j \in Nat
      /\ Traces(next, o, j, t)
      /\ t \in [1..j -> Node]
      /\ \A x \in 1..j : where[t[x]] = o
      /\ prev[o] = Spot(o, t, j)
  BY <1>1, <1>3, <1>4, NowFacts
<1>7. j > 0 /\ prev[o] = t[j] /\ prev[o] \in Members(o)
  <2>1. j # 0
    BY <1>4, <1>6 DEF Traces, Spot
  <2>2. QED BY <2>1, <1>6 DEF Spot, Members
<1>8. PICK i \in 0..k : pos = Spot(h, s, i) /\ Index(h, pos) = i
  BY <1>1, <1>2, <1>4, NowPosition
<1>9. PICK w : w = SplicedIn(s, i, t)
  OBVIOUS
<1>10. WithAll(w, s, k, i, t, j, Node)
  BY <1>5, <1>6, <1>9, InsertAllIs
<1>11. /\ next' = SpliceNext(next, pos, o, prev[o])
       /\ count' = [count EXCEPT ![h] = @ + count[o], ![o] = 0]
       /\ where' = [n \in Node |-> IF n \in Members(o) THEN h ELSE where[n]]
       /\ header_' = header_
  BY <1>2, <1>3 DEF SpliceAll
<1>12. next \in Link
  BY <1>1 DEF Now
<1>13. Traces(next', h, k + j, w)
  <2>1. \A x \in 1..k, y \in 1..j : s[x] # t[y]
    BY <1>4, <1>5, <1>6
  <2>2. PICK last : last = prev[o]
    OBVIOUS
  <2>3. last = t[j]
    BY <2>2, <1>7
  <2>4. Traces(SpliceNext(next, pos, o, last), h, k + j, w)
    BY <2>1, <2>3, <1>4, <1>5, <1>6, <1>7, <1>8, <1>10, <1>12, TracesSplice
  <2>5. QED BY <2>2, <2>4, <1>11
<1>14. \A a \in Addr : a # pos /\ a # prev[o] /\ a # o => next'[a] = next[a]
  BY <1>11, <1>12 DEF SpliceNext, Link
<1>15. Traces(next', o, 0, <<>>)
  <2>1. next'[o] = Nil
    BY <1>4, <1>11, <1>12 DEF SpliceNext, Link, Addr
  <2>2. QED BY <2>1, <1>4, TracesEmpty
<1>16. /\ count'[h] = k + j /\ count'[o] = 0
       /\ \A g \in Header : g # h /\ g # o => count'[g] = count[g]
  BY <1>2, <1>3, <1>4, <1>11, IInvGood DEF Good
<1>17. ASSUME NEW g \in Header, g # h, g # o PROVE Untouched(g)
  <2>1. prev[o] \in Positions(o) /\ o \in Positions(o)
    BY <1>7 DEF Positions
  <2>2. pos \notin Positions(g) /\ prev[o] \notin Positions(g) /\ o \notin Positions(g)
    BY <1>1, <1>4, <1>17, <2>1, OtherPositions
  <2>3. Positions(g) \subseteq Addr
    BY DEF Positions, Members, Addr
  <2>4. QED BY <2>2, <2>3, <1>14, <1>16, <1>17 DEF Untouched
<1>18. /\ SeqNow[l] = s /\ SeqNow[m] = t
       /\ SeqNow' = [SeqNow EXCEPT ![l] = w, ![m] = <<>>]
  <2>1. BothChanged(Q, l, w, m, <<>>)
    <3>1. count'[h] \in Nat /\ Traces(next', h, count'[h], w)
      BY <1>5, <1>6, <1>13, <1>16
    <3>2. count'[o] \in Nat /\ Traces(next', o, count'[o], <<>>)
      BY <1>15, <1>16
    <3>3. \A g \in Header : g # h /\ g # o => Untouched(g)
      BY <1>17
    <3>4. Now(Q) /\ header_' = header_ /\ h = header_[l] /\ o = header_[m]
      BY <1>1, <1>2, <1>3, <1>11
    <3>5. QED BY ONLY <3>1, <3>2, <3>3, <3>4 DEF BothChanged
  <2>2. /\ SeqNow[l] = Q[header_[l]] /\ SeqNow[m] = Q[header_[m]]
        /\ SeqNow' = [SeqNow EXCEPT ![l] = w, ![m] = <<>>]
    <3>1. l \in List /\ m \in List /\ l # m
      OBVIOUS
    <3>2. QED BY ONLY <2>1, <3>1, TwoChange
  <2>3. QED BY <2>2, <1>2, <1>3
<1>19. LooseNow' = LooseNow
  BY <1>1, <1>4, <1>11, Addresses DEF LooseNow, Now, Members
<1>20. /\ i \in 0..Len(SeqNow[l])
       /\ SeqNow' = [SeqNow EXCEPT ![l] = SplicedIn(SeqNow[l], i, SeqNow[m]), ![m] = <<>>]
  <2>1. Len(s) = k
    BY <1>5
  <2>2. QED BY <2>1, <1>18, <1>9
<1>21. Abs!SpliceAll(l, i, m)
  BY <1>19, <1>20, SpliceAllShape
<1>22. QED BY <1>2, <1>8, <1>20, <1>21

\* The element taken out is not among those left.
LEMMA WithoutGone ==
    ASSUME NEW k \in Nat, NEW s, s \in [1..k -> Node], \A x, y \in 1..k : s[x] = s[y] => x = y,
           NEW j \in 1..k, NEW w, WithoutOne(w, s, k, j, Node)
    PROVE  \A x \in 1..k - 1 : w[x] # s[j] /\ \E y \in 1..k : w[x] = s[y]
<1>1. SUFFICES ASSUME NEW x \in 1..k - 1
               PROVE  w[x] # s[j] /\ \E y \in 1..k : w[x] = s[y]
  OBVIOUS
<1>2. CASE x < j
  <2>1. x \in 1..k /\ x # j /\ w[x] = s[x]
    BY <1>2 DEF WithoutOne
  <2>2. QED BY <2>1
<1>3. CASE x >= j
  <2>1. x + 1 \in 1..k /\ x + 1 # j /\ w[x] = s[x + 1]
    BY <1>3 DEF WithoutOne
  <2>2. QED BY <2>1
<1>4. QED BY <1>2, <1>3


\* splice_after of one element of another list: out of that one, into this one.
LEMMA SpliceOther ==
    ASSUME IInv, NEW l \in List, NEW m \in List, l # m, NEW pos, NEW it, SpliceOne(l, pos, m, it)
    PROVE  /\ Abs!SpliceOne(l, Index(header_[l], pos), m, Index(header_[m], it) + 1)
           /\ Index(header_[l], pos) \in 0..Len(SeqNow[l])
           /\ Index(header_[m], it) + 1 \in 1..Len(SeqNow[m])
<1>1. PICK Q : Now(Q)
  BY HasNow
<1>2. PICK h, k, s : h = header_[l] /\ k = count[h] /\ s = Q[h]
  OBVIOUS
<1>3. PICK o, c, t : o = header_[m] /\ c = count[o] /\ t = Q[o]
  OBVIOUS
<1>4. h \in Header /\ o \in Header /\ o # h /\ pos \in Positions(h) /\ it \in Positions(o) /\ next[it] # Nil
  BY <1>1, <1>2, <1>3 DEF SpliceOne, Now, Injective
<1>5. /\ k \in Nat
      /\ Traces(next, h, k, s)
      /\ s \in [1..k -> Node]
      /\ \A x \in 1..k : where[s[x]] = h
  BY <1>1, <1>2, <1>4, NowFacts
<1>6. /\ c \in Nat
      /\ Traces(next, o, c, t)
      /\ t \in [1..c -> Node]
      /\ \A x \in 1..c : where[t[x]] = o
      /\ \A x, y \in 1..c : t[x] = t[y] => x = y
  BY <1>1, <1>3, <1>4, NowFacts DEF Traces
<1>7. PICK i \in 0..k : pos = Spot(h, s, i) /\ Index(h, pos) = i
  BY <1>1, <1>2, <1>4, NowPosition
<1>8. PICK i2 \in 0..c : it = Spot(o, t, i2) /\ Index(o, it) = i2
  BY <1>1, <1>3, <1>4, NowPosition
<1>9. i2 < c
  BY <1>4, <1>6, <1>8 DEF Traces
<1>10. PICK j \in 1..c : j = i2 + 1 /\ i2 = j - 1
  BY <1>6, <1>9
<1>11. PICK rest : rest = CutOut(t, j)
  OBVIOUS
<1>12. WithoutOne(rest, t, c, j, Node)
  BY <1>6, <1>11, DeleteAtIs
<1>13. next \in Link
  BY <1>1 DEF Now
<1>14. PICK n, nx : n = t[j] /\ nx = ExtractAfterNext(next, it)
  OBVIOUS
<1>15. next[it] = n /\ Traces(nx, o, c - 1, rest)
  <2>1. it = Spot(o, t, j - 1)
    BY <1>8, <1>10
  <2>2. next[it] = t[j] /\ Traces(ExtractAfterNext(next, it), o, c - 1, rest)
    BY <2>1, <1>4, <1>6, <1>12, <1>13, TracesDelete
  <2>3. QED BY <2>2, <1>14
<1>16. n \in Node /\ where[n] = o
  BY <1>6, <1>14
<1>17. PICK w : w = SplicedOne(s, i, n)
  OBVIOUS
<1>18. WithOne(w, s, k, i, n, Node)
  BY <1>5, <1>16, <1>17, InsertAtIs
<1>19. /\ next' = InsertAfterNext(nx, pos, n)
       /\ count' = [[count EXCEPT ![o] = @ - 1] EXCEPT ![h] = @ + 1]
       /\ where' = [where EXCEPT ![n] = h]
       /\ header_' = header_
  BY <1>2, <1>3, <1>14, <1>15 DEF SpliceOne
<1>20. nx \in Link /\ \A a \in Addr : a # it /\ a # n => nx[a] = next[a]
  <2>1. it \in Addr /\ n \in Addr
    BY <1>4, <1>16 DEF Positions, Members, Addr
  <2>2. QED BY <2>1, <1>13, <1>14, <1>15, <1>16 DEF ExtractAfterNext, Link
<1>21. Traces(next', h, k + 1, w)
  <2>1. \A x \in 1..k : s[x] # n
    BY <1>4, <1>5, <1>16
  <2>2. Traces(nx, h, k, s)
    <3>1. \A x \in 0..k : Spot(h, s, x) \in Positions(h)
      BY <1>5 DEF Spot, Positions, Members
    <3>2. it \notin Positions(h) /\ n \notin Positions(h) /\ Positions(h) \subseteq Addr
      BY <1>1, <1>4, <1>16, OtherPositions, Addresses DEF Positions, Members, Addr
    <3>3. \A x \in 0..k : nx[Spot(h, s, x)] = next[Spot(h, s, x)]
      BY <3>1, <3>2, <1>20
    <3>4. QED BY <3>3, <1>4, <1>5, TracesFrame
  <2>3. Traces(InsertAfterNext(nx, pos, n), h, k + 1, w)
    BY <2>1, <2>2, <1>4, <1>5, <1>7, <1>16, <1>18, <1>20, TracesInsert
  <2>4. QED BY <2>3, <1>19
<1>22. \A a \in Addr : a # pos /\ a # n => next'[a] = nx[a]
  BY <1>19, <1>20 DEF InsertAfterNext, Link
<1>23. Traces(next', o, c - 1, rest)
  <2>1. \A x \in 1..c - 1 : rest[x] # n /\ \E y \in 1..c : rest[x] = t[y]
    <3>1. \A x \in 1..c - 1 : rest[x] # t[j] /\ \E y \in 1..c : rest[x] = t[y]
      <4>1. /\ c \in Nat /\ t \in [1..c -> Node] /\ (\A x, y \in 1..c : t[x] = t[y] => x = y)
            /\ j \in 1..c /\ WithoutOne(rest, t, c, j, Node)
        BY <1>6, <1>12
      <4>2. QED BY ONLY <4>1, WithoutGone
    <3>2. QED BY <3>1, <1>14
  <2>2. pos \notin Positions(o) /\ pos \in Addr
    BY <1>1, <1>4, OtherPositions
  <2>3. ASSUME NEW x \in 0..c - 1 PROVE next'[Spot(o, rest, x)] = nx[Spot(o, rest, x)]
    <3>1. Spot(o, rest, x) \in Positions(o) /\ Spot(o, rest, x) # n
      <4>1. CASE x = 0
        BY <4>1, <1>4, <1>16, Addresses DEF Spot, Positions
      <4>2. CASE x # 0
        BY <4>2, <2>1, <1>6 DEF Spot, Positions, Members
      <4>3. QED BY <4>1, <4>2
    <3>2. Spot(o, rest, x) \in Addr
      BY <3>1, <1>4 DEF Positions, Members, Addr
    <3>3. QED BY <3>1, <3>2, <2>2, <1>22
  <2>4. c - 1 \in Nat
    BY <1>6, <1>10
  <2>5. QED BY <2>3, <2>4, <1>4, <1>15, TracesFrame
<1>24. /\ count'[h] = k + 1 /\ count'[o] = c - 1
       /\ \A g \in Header : g # h /\ g # o => count'[g] = count[g]
  BY <1>2, <1>3, <1>4, <1>19, IInvGood DEF Good
<1>25. ASSUME NEW g \in Header, g # h, g # o PROVE Untouched(g)
  <2>1. pos \notin Positions(g) /\ it \notin Positions(g) /\ n \notin Positions(g)
    BY <1>1, <1>4, <1>16, <1>25, OtherPositions, Addresses DEF Positions, Members
  <2>2. Positions(g) \subseteq Addr
    BY DEF Positions, Members, Addr
  <2>3. QED BY <2>1, <2>2, <1>20, <1>22, <1>24, <1>25 DEF Untouched
<1>26. /\ SeqNow[l] = s /\ SeqNow[m] = t
       /\ SeqNow' = [SeqNow EXCEPT ![m] = rest, ![l] = w]
  <2>1. BothChanged(Q, l, w, m, rest)
    <3>1. count'[h] \in Nat /\ Traces(next', h, count'[h], w)
      BY <1>5, <1>21, <1>24
    <3>2. count'[o] \in Nat /\ Traces(next', o, count'[o], rest)
      BY <1>6, <1>10, <1>23, <1>24
    <3>3. \A g \in Header : g # h /\ g # o => Untouched(g)
      BY <1>25
    <3>4. Now(Q) /\ header_' = header_ /\ h = header_[l] /\ o = header_[m]
      BY <1>1, <1>2, <1>3, <1>19
    <3>5. QED BY ONLY <3>1, <3>2, <3>3, <3>4 DEF BothChanged
  <2>2. /\ SeqNow[l] = Q[header_[l]] /\ SeqNow[m] = Q[header_[m]]
        /\ SeqNow' = [SeqNow EXCEPT ![m] = rest, ![l] = w]
    <3>1. l \in List /\ m \in List /\ l # m
      OBVIOUS
    <3>2. QED BY ONLY <2>1, <3>1, TwoChange
  <2>3. QED BY <2>2, <1>2, <1>3
<1>27. LooseNow' = LooseNow
  BY <1>1, <1>4, <1>16, <1>19, Addresses DEF LooseNow, Now
<1>28. Len(s) = k /\ Len(t) = c
  BY <1>5, <1>6
<1>29. Abs!SpliceOne(l, i, m, j)
  <2>1. j \in 1..Len(SeqNow[m]) /\ rest = CutOut(SeqNow[m], j) /\ i \in 0..Len(SeqNow[l])
    BY <1>11, <1>26, <1>28
  <2>2. SeqNow' = [SeqNow EXCEPT ![m] = rest, ![l] = SplicedOne(SeqNow[l], i, SeqNow[m][j])]
    BY <1>14, <1>17, <1>26
  <2>3. PICK into : into = SeqNow[l]
    OBVIOUS
  <2>4. into = IF l = m THEN rest ELSE SeqNow[l]
    BY <2>3
  <2>5. QED BY <2>1, <2>2, <2>3, <2>4, <1>27, SpliceOneShape
<1>30. QED BY <1>2, <1>3, <1>7, <1>8, <1>10, <1>26, <1>28, <1>29

\* splice_after of an element of the list itself: the position is counted
\* without the element that moves.
LEMMA SpliceSame ==
    ASSUME IInv, NEW l \in List, NEW pos, NEW it, SpliceOne(l, pos, l, it),
           NEW i1, i1 = Index(header_[l], pos), NEW j, j = Index(header_[l], it) + 1
    PROVE  /\ Abs!SpliceOne(l, IF j < i1 THEN i1 - 1 ELSE i1, l, j)
           /\ (IF j < i1 THEN i1 - 1 ELSE i1) \in 0..Len(SeqNow[l])
           /\ j \in 1..Len(SeqNow[l])
<1>1. PICK Q : Now(Q)
  BY HasNow
<1>2. PICK h, k, s : h = header_[l] /\ k = count[h] /\ s = Q[h]
  OBVIOUS
<1>3. h \in Header /\ pos \in Positions(h) /\ it \in Positions(h) /\ next[it] # Nil /\ pos # next[it]
  BY <1>1, <1>2 DEF SpliceOne, Now
<1>4. /\ k \in Nat
      /\ Traces(next, h, k, s)
      /\ s \in [1..k -> Node]
      /\ \A x \in 1..k : where[s[x]] = h
      /\ \A x, y \in 1..k : s[x] = s[y] => x = y
  BY <1>1, <1>2, <1>3, NowFacts DEF Traces
<1>5. i1 \in 0..k /\ pos = Spot(h, s, i1)
  <2>1. PICK x \in 0..k : pos = Spot(h, s, x) /\ Index(h, pos) = x
    BY <1>1, <1>2, <1>3, NowPosition
  <2>2. QED BY <2>1, <1>2
<1>6. PICK j0 \in 0..k : it = Spot(h, s, j0) /\ Index(h, it) = j0
  BY <1>1, <1>2, <1>3, NowPosition
<1>7. j0 < k
  BY <1>3, <1>4, <1>6 DEF Traces
<1>8. j \in 1..k /\ j - 1 = j0
  BY <1>2, <1>4, <1>6, <1>7
<1>9. PICK rest : rest = CutOut(s, j)
  OBVIOUS
<1>10. WithoutOne(rest, s, k, j, Node)
  BY <1>4, <1>8, <1>9, DeleteAtIs
<1>11. next \in Link
  BY <1>1 DEF Now
<1>12. PICK n, nx, c : n = s[j] /\ nx = ExtractAfterNext(next, it) /\ c = k - 1
  OBVIOUS
<1>13. c \in Nat /\ next[it] = n /\ Traces(nx, h, c, rest)
  <2>1. it = Spot(h, s, j - 1)
    BY <1>6, <1>8
  <2>2. next[it] = s[j] /\ Traces(ExtractAfterNext(next, it), h, k - 1, rest)
    BY <2>1, <1>3, <1>4, <1>8, <1>10, <1>11, TracesDelete
  <2>3. QED BY <2>2, <1>4, <1>8, <1>12
<1>14. n \in Node /\ where[n] = h
  BY <1>4, <1>8, <1>12
<1>15. PICK i : i = IF j < i1 THEN i1 - 1 ELSE i1
  OBVIOUS
<1>16. i1 # j
  <2>1. i1 = j => Spot(h, s, i1) = n
    BY <1>8, <1>12 DEF Spot
  <2>2. QED BY <2>1, <1>3, <1>5, <1>13
\* The position among the elements left.
<1>17. i \in 0..c /\ pos = Spot(h, rest, i)
  <2>1. \A x \in 1..k - 1 : rest[x] = IF x < j THEN s[x] ELSE s[x + 1]
    BY <1>10 DEF WithoutOne
  <2>0. k \in Nat /\ i1 \in 0..k /\ j \in 1..k /\ i = IF j < i1 THEN i1 - 1 ELSE i1
    BY <1>4, <1>5, <1>8, <1>15
  <2>2. CASE i1 = 0
    BY <2>2, <1>5, <1>8, <1>13, <1>15 DEF Spot
  <2>3. CASE i1 # 0 /\ i1 < j
    <3>1. i = i1 /\ i \in 1..k - 1
      BY ONLY <2>0, <2>3
    <3>2. rest[i] = s[i1]
      BY <2>1, <2>3, <3>1
    <3>3. QED BY <2>3, <3>1, <3>2, <1>5, <1>12 DEF Spot
  <2>4. CASE i1 > j
    <3>1. i = i1 - 1 /\ i \in 1..k - 1 /\ i + 1 = i1 /\ ~(i < j)
      BY ONLY <2>0, <2>4
    <3>2. rest[i] = s[i1]
      BY <2>1, <3>1
    <3>3. QED BY <2>4, <3>1, <3>2, <1>5, <1>8, <1>12 DEF Spot
  <2>5. QED BY <2>2, <2>3, <2>4, <1>5, <1>8, <1>16
<1>18. PICK w : w = SplicedOne(rest, i, n)
  OBVIOUS
<1>19. rest \in [1..c -> Node]
  BY <1>13 DEF Traces
<1>20. WithOne(w, rest, c, i, n, Node)
  BY <1>13, <1>14, <1>17, <1>18, <1>19, InsertAtIs
<1>21. /\ next' = InsertAfterNext(nx, pos, n)
       /\ count' = [[count EXCEPT ![h] = @ - 1] EXCEPT ![h] = @ + 1]
       /\ where' = [where EXCEPT ![n] = h]
       /\ header_' = header_
  BY <1>2, <1>12, <1>13 DEF SpliceOne
<1>22. nx \in Link /\ \A a \in Addr : a # it /\ a # n => nx[a] = next[a]
  <2>1. it \in Addr /\ n \in Addr
    BY <1>3, <1>14 DEF Positions, Members, Addr
  <2>2. QED BY <2>1, <1>11, <1>12, <1>13, <1>14 DEF ExtractAfterNext, Link
<1>23. \A x \in 1..c : rest[x] # n
  <2>1. \A x \in 1..k - 1 : rest[x] # s[j] /\ \E y \in 1..k : rest[x] = s[y]
    <3>1. /\ k \in Nat /\ s \in [1..k -> Node] /\ (\A x, y \in 1..k : s[x] = s[y] => x = y)
          /\ j \in 1..k /\ WithoutOne(rest, s, k, j, Node)
      BY <1>4, <1>8, <1>10
    <3>2. QED BY ONLY <3>1, WithoutGone
  <2>2. QED BY <2>1, <1>12
<1>24. Traces(next', h, c + 1, w)
  <2>1. Traces(InsertAfterNext(nx, pos, n), h, c + 1, w)
    BY <1>3, <1>13, <1>14, <1>17, <1>20, <1>22, <1>23, TracesInsert
  <2>2. QED BY <2>1, <1>21
<1>25. count'[h] = c + 1 /\ \A g \in Header : g # h => count'[g] = count[g]
  <2>1. count \in [Header -> Nat]
    BY IInvGood DEF Good
  <2>2. count' = [count EXCEPT ![h] = (count[h] - 1) + 1]
    BY <2>1, <1>3, <1>21
  <2>3. QED BY <2>1, <2>2, <1>2, <1>3, <1>4, <1>12
<1>26. ASSUME NEW g \in Header, g # h PROVE Untouched(g)
  <2>1. pos \notin Positions(g) /\ it \notin Positions(g) /\ n \notin Positions(g)
    BY <1>1, <1>3, <1>14, <1>26, OtherPositions, Addresses DEF Positions, Members
  <2>2. Positions(g) \subseteq Addr
    BY DEF Positions, Members, Addr
  <2>3. \A a \in Addr : a # pos /\ a # n => next'[a] = nx[a]
    BY <1>21, <1>22 DEF InsertAfterNext, Link
  <2>4. QED BY <2>1, <2>2, <2>3, <1>22, <1>25, <1>26 DEF Untouched
<1>27. SeqNow[l] = s /\ SeqNow' = [SeqNow EXCEPT ![l] = w]
  <2>1. Changed(Q, l, w)
    <3>1. count'[h] \in Nat /\ Traces(next', h, count'[h], w)
      BY <1>13, <1>24, <1>25
    <3>2. Now(Q) /\ header_' = header_ /\ h = header_[l]
      BY <1>1, <1>2, <1>21
    <3>3. QED BY <3>1, <3>2, <1>26 DEF Changed
  <2>2. QED BY <2>1, <1>2, OneChanges
<1>28. LooseNow' = LooseNow
  BY <1>1, <1>3, <1>14, <1>21, Addresses DEF LooseNow, Now
<1>29. Len(s) = k /\ Len(rest) = c
  BY <1>4, <1>13, <1>19
<1>30. Abs!SpliceOne(l, i, l, j)
  <2>1. j \in 1..Len(SeqNow[l]) /\ rest = CutOut(SeqNow[l], j) /\ i \in 0..Len(rest)
    BY <1>8, <1>9, <1>17, <1>27, <1>29
  <2>2. SeqNow' = [SeqNow EXCEPT ![l] = rest, ![l] = SplicedOne(rest, i, SeqNow[l][j])]
    <3>1. SeqNow' = [SeqNow EXCEPT ![l] = SplicedOne(rest, i, SeqNow[l][j])]
      BY <1>12, <1>18, <1>27
    <3>2. QED BY ONLY <3>1 DEF SeqNow
  <2>3. PICK into : into = rest
    OBVIOUS
  <2>4. into = IF l = l THEN rest ELSE SeqNow[l]
    BY <2>3
  <2>5. QED BY <2>1, <2>2, <2>3, <2>4, <1>28, SpliceOneShape
<1>31. i \in 0..Len(SeqNow[l])
  BY <1>12, <1>13, <1>17, <1>27, <1>29
<1>32. j \in 1..Len(SeqNow[l])
  BY <1>8, <1>27, <1>29
<1>33. QED BY <1>15, <1>30, <1>31, <1>32

LEMMA PushFrontIsAbs ==
    ASSUME IInv, NEW l \in List, NEW n \in Node, PushFront(l, n)
    PROVE  Abs!Insert(l, 0, n) /\ 0 \in 0..Len(SeqNow[l])
<1>1. InsertAfter(l, header_[l], n)
  BY PushFrontIsInsertAfter
<1>2. Index(header_[l], header_[l]) = 0
  BY DEF Index
<1>3. QED BY <1>1, <1>2, InsertIsAbs

\* before_end() is the position after which there is nothing.
LEMMA PushBackIsAbs ==
    ASSUME IInv, NEW l \in List, NEW n \in Node, PushBack(l, n)
    PROVE  Abs!Insert(l, count[header_[l]], n) /\ count[header_[l]] \in 0..Len(SeqNow[l])
<1>1. PICK Q : Now(Q)
  BY HasNow
<1>2. PICK h, k, s : h = header_[l] /\ k = count[h] /\ s = Q[h]
  OBVIOUS
<1>3. h \in Header
  BY <1>1, <1>2 DEF Now
<1>4. /\ k \in Nat /\ s \in [1..k -> Node] /\ prev[h] = Spot(h, s, k)
      /\ Traces(next, h, k, s) /\ \A x \in 1..k : where[s[x]] = h
  BY <1>1, <1>2, <1>3, NowFacts
<1>5. prev[h] \in Positions(h)
  BY <1>4 DEF Spot, Positions, Members
<1>6. PICK i \in 0..k : prev[h] = Spot(h, s, i) /\ Index(h, prev[h]) = i
  BY <1>1, <1>2, <1>3, <1>5, NowPosition
<1>7. i = k
  BY <1>3, <1>4, <1>6, Addresses DEF Spot, Traces
<1>8. InsertAfter(l, prev[header_[l]], n)
  BY PushBackIsInsertAfter
<1>9. QED BY <1>2, <1>6, <1>7, <1>8, InsertIsAbs

LEMMA TakeFrontIsAbs ==
    ASSUME IInv, NEW l \in List, NEW to \in {User, Free}, TakeFront(l, to)
    PROVE  Abs!Delete(l, 1, to = User) /\ 1 \in 1..Len(SeqNow[l])
<1>1. TakeAfter(l, header_[l], to)
  BY TakeFrontIsTakeAfter
<1>2. Index(header_[l], header_[l]) + 1 = 1
  BY DEF Index
<1>3. QED BY <1>1, <1>2, TakeIsAbs

LEMMA InvCalls == IInv => EachCallExact
<1>1. SUFFICES ASSUME IInv, NEW l \in List, NEW h, h = header_[l]
      PROVE
        /\ \A n \in Node : PushFront(l, n) => Abs!Insert(l, 0, n)
        /\ \A n \in Node : PushBack(l, n) => Abs!Insert(l, count[h], n)
        /\ \A pos \in Positions(h), n \in Node :
                InsertAfter(l, pos, n) => Abs!Insert(l, Index(h, pos), n)
        /\ \A to \in {User, Free} : TakeFront(l, to) => Abs!Delete(l, 1, to = User)
        /\ \A pos \in Positions(h), to \in {User, Free} :
                TakeAfter(l, pos, to) => Abs!Delete(l, Index(h, pos) + 1, to = User)
        /\ Clear(l) => Abs!Clear(l)
        /\ Reverse(l) => Abs!Reverse(l)
        /\ \A m \in List \ {l}, pos \in Positions(h) :
                SpliceAll(l, pos, m) => Abs!SpliceAll(l, Index(h, pos), m)
        /\ \A m \in List, pos \in Positions(h) : \A it \in Positions(header_[m]) :
                SpliceOne(l, pos, m, it) =>
                    LET i == Index(h, pos)  j == Index(header_[m], it) + 1 IN
                    Abs!SpliceOne(l, IF l = m /\ j < i THEN i - 1 ELSE i, m, j)
  BY DEF EachCallExact
<1>2. ASSUME NEW n \in Node, PushFront(l, n) PROVE Abs!Insert(l, 0, n)
  BY <1>1, <1>2, PushFrontIsAbs
<1>3. ASSUME NEW n \in Node, PushBack(l, n) PROVE Abs!Insert(l, count[h], n)
  BY <1>1, <1>3, PushBackIsAbs
<1>4. ASSUME NEW pos \in Positions(h), NEW n \in Node, InsertAfter(l, pos, n)
      PROVE  Abs!Insert(l, Index(h, pos), n)
  BY <1>1, <1>4, InsertIsAbs
<1>5. ASSUME NEW to \in {User, Free}, TakeFront(l, to) PROVE Abs!Delete(l, 1, to = User)
  BY <1>1, <1>5, TakeFrontIsAbs
<1>6. ASSUME NEW pos \in Positions(h), NEW to \in {User, Free}, TakeAfter(l, pos, to)
      PROVE  Abs!Delete(l, Index(h, pos) + 1, to = User)
  BY <1>1, <1>6, TakeIsAbs
<1>7. Clear(l) => Abs!Clear(l)
  BY <1>1, ClearIsAbs
<1>8. Reverse(l) => Abs!Reverse(l)
  BY <1>1, ReverseIsAbs
<1>9. ASSUME NEW m \in List \ {l}, NEW pos \in Positions(h), SpliceAll(l, pos, m)
      PROVE  Abs!SpliceAll(l, Index(h, pos), m)
  BY <1>1, <1>9, SpliceAllIsAbs
<1>10. ASSUME NEW m \in List, NEW pos \in Positions(h), NEW it \in Positions(header_[m]),
              SpliceOne(l, pos, m, it), NEW i, i = Index(h, pos), NEW j, j = Index(header_[m], it) + 1
       PROVE  Abs!SpliceOne(l, IF l = m /\ j < i THEN i - 1 ELSE i, m, j)
  <2>1. CASE l = m
    <3>1. i = Index(header_[l], pos) /\ j = Index(header_[l], it) + 1 /\ SpliceOne(l, pos, l, it)
      BY <1>1, <1>10, <2>1
    <3>2. Abs!SpliceOne(l, IF j < i THEN i - 1 ELSE i, l, j)
      BY <1>1, <3>1, SpliceSame
    <3>3. QED BY <2>1, <3>2
  <2>2. CASE l # m
    <3>1. Abs!SpliceOne(l, i, m, j)
      BY <1>1, <1>10, <2>2, SpliceOther
    <3>2. QED BY <2>2, <3>1
  <2>3. QED BY <2>1, <2>2
<1>11. QED BY <1>2, <1>3, <1>4, <1>5, <1>6, <1>7, <1>8, <1>9, <1>10

LEMMA InitIsAbs == Init => Abs!Init
<1>1. SUFFICES ASSUME Init PROVE Abs!Init
  OBVIOUS
<1>2. IInv
  BY <1>1, InitIInv
<1>3. PICK Q : Now(Q)
  BY <1>2, HasNow
<1>4. SeqNow = [l \in List |-> Q[header_[l]]]
  BY <1>3, ViewNow DEF Now
<1>5. \A g \in Header : Q[g] = <<>>
  BY <1>1, <1>3 DEF Now, View, Traces, Init
<1>6. SeqNow = [l \in List |-> <<>>]
  BY <1>3, <1>4, <1>5 DEF Now
<1>7. LooseNow = {}
  BY <1>1, Addresses DEF Init, LooseNow
<1>8. QED BY <1>6, <1>7 DEF Abs!Init, SeqNow, LooseNow

\* Every step is an abstract one, or changes no list.
LEMMA NextIsAbs == IInv /\ [Next]_vars => [Abs!Next]_(Abs!absVars)
<1> DEFINE AbsNext == Abs!Next
<1>1. SUFFICES ASSUME IInv, [Next]_vars PROVE Abs!Next \/ UNCHANGED Abs!absVars
  OBVIOUS
<1>2. ASSUME NEW l \in List, NEW i \in 0..Len(SeqNow[l]), NEW n \in Node, Abs!Insert(l, i, n)
      PROVE  AbsNext
  BY <1>2 DEF Abs!Next, SeqNow
<1>3. ASSUME NEW l \in List, NEW i \in 1..Len(SeqNow[l]), NEW kept \in BOOLEAN, Abs!Delete(l, i, kept)
      PROVE  AbsNext
  BY <1>3 DEF Abs!Next, SeqNow
<1>4. ASSUME NEW l \in List, Abs!Clear(l) \/ Abs!Reverse(l) PROVE AbsNext
  BY <1>4 DEF Abs!Next
<1>5. ASSUME NEW l \in List, NEW m \in List \ {l}, Abs!Swap(l, m) PROVE AbsNext
  BY <1>5 DEF Abs!Next
<1>6. ASSUME NEW l \in List, NEW m \in List \ {l}, NEW i \in 0..Len(SeqNow[l]), Abs!SpliceAll(l, i, m)
      PROVE  AbsNext
  BY <1>6 DEF Abs!Next, SeqNow
<1>7. ASSUME NEW l \in List, NEW m \in List, NEW i \in 0..Len(SeqNow[l]), NEW j \in 1..Len(SeqNow[m]),
             Abs!SpliceOne(l, i, m, j)
      PROVE  AbsNext
  BY <1>7 DEF Abs!Next, SeqNow
<1> HIDE DEF AbsNext
<1>8. CASE Next
  <2>1. PICK l \in List :
            \/ \E n \in Node : PushFront(l, n)
            \/ \E n \in Node : PushBack(l, n)
            \/ \E n \in Node, pos \in Addr : InsertAfter(l, pos, n)
            \/ \E to \in {User, Free} : TakeFront(l, to)
            \/ \E to \in {User, Free}, pos \in Addr : TakeAfter(l, pos, to)
            \/ Clear(l)
            \/ Reverse(l)
            \/ \E m \in List \ {l} : Swap(l, m)
            \/ \E m \in List \ {l}, pos \in Addr : SpliceAll(l, pos, m)
            \/ \E m \in List, pos, it \in Addr : SpliceOne(l, pos, m, it)
    BY <1>8 DEF Next
  <2>2. ASSUME NEW n \in Node, PushFront(l, n) PROVE AbsNext
    BY <1>1, <1>2, <2>2, PushFrontIsAbs
  <2>3. ASSUME NEW n \in Node, PushBack(l, n) PROVE AbsNext
    BY <1>1, <1>2, <2>3, PushBackIsAbs
  <2>4. ASSUME NEW n \in Node, NEW pos \in Addr, InsertAfter(l, pos, n) PROVE AbsNext
    BY <1>1, <1>2, <2>4, InsertIsAbs
  <2>5. ASSUME NEW to \in {User, Free}, TakeFront(l, to) PROVE AbsNext
    <3>1. (to = User) \in BOOLEAN
      OBVIOUS
    <3>2. QED BY <1>1, <1>3, <2>5, <3>1, TakeFrontIsAbs
  <2>6. ASSUME NEW to \in {User, Free}, NEW pos \in Addr, TakeAfter(l, pos, to) PROVE AbsNext
    <3>1. (to = User) \in BOOLEAN
      OBVIOUS
    <3>2. QED BY <1>1, <1>3, <2>6, <3>1, TakeIsAbs
  <2>7. ASSUME Clear(l) PROVE AbsNext
    BY <1>1, <1>4, <2>7, ClearIsAbs
  <2>8. ASSUME Reverse(l) PROVE AbsNext
    BY <1>1, <1>4, <2>8, ReverseIsAbs
  <2>9. ASSUME NEW m \in List \ {l}, Swap(l, m) PROVE AbsNext
    BY <1>1, <1>5, <2>9, SwapIsAbs
  <2>10. ASSUME NEW m \in List \ {l}, NEW pos \in Addr, SpliceAll(l, pos, m) PROVE AbsNext
    BY <1>1, <1>6, <2>10, SpliceAllIsAbs
  <2>11. ASSUME NEW m \in List, NEW pos \in Addr, NEW it \in Addr, SpliceOne(l, pos, m, it) PROVE AbsNext
    <3>1. CASE l = m
      <4>1. PICK i1, j : i1 = Index(header_[l], pos) /\ j = Index(header_[l], it) + 1
        OBVIOUS
      <4>2. PICK i : i = IF j < i1 THEN i1 - 1 ELSE i1
        OBVIOUS
      <4>3. Abs!SpliceOne(l, i, l, j) /\ i \in 0..Len(SeqNow[l]) /\ j \in 1..Len(SeqNow[l])
        BY <1>1, <2>11, <3>1, <4>1, <4>2, SpliceSame
      <4>4. QED BY <1>7, <4>3
    <3>2. CASE l # m
      BY <1>1, <1>7, <2>11, <3>2, SpliceOther
    <3>3. QED BY <3>1, <3>2
  <2>12. QED BY <2>1, <2>2, <2>3, <2>4, <2>5, <2>6, <2>7, <2>8, <2>9, <2>10, <2>11 DEF AbsNext
<1>9. CASE UNCHANGED vars
  <2>1. PICK Q : Now(Q)
    BY <1>1, HasNow
  <2>2. header_' = header_ /\ next' = next /\ count' = count /\ where' = where
    BY <1>9 DEF vars
  <2>3. SeqNow = [l \in List |-> Q[header_[l]]]
    BY <2>1, ViewNow DEF Now
  <2>4. SeqNow' = [l \in List |-> Q[header_[l]]]
    <3>1. View(Q, next', count') /\ header_' \in [List -> Header]
      BY <2>1, <2>2 DEF Now
    <3>2. SeqNow' = [l \in List |-> Q[header_'[l]]]
      BY <3>1, ViewNext
    <3>3. QED BY <3>2, <2>2
  <2>5. SeqNow' = SeqNow /\ LooseNow' = LooseNow
    BY <2>2, <2>3, <2>4 DEF LooseNow
  <2>6. QED BY <2>5 DEF Abs!absVars, SeqNow, LooseNow
<1>10. QED BY <1>1, <1>8, <1>9

\* On the sequences of nodes every step of the pointer operations is a step of
\* NodeSeq (forward_list/algorithm.cc).
THEOREM RefinesNodeSeq == Spec => ImplementsNodeSeq
BY InitIInv, NextIInv, InitIsAbs, NextIsAbs, PTL DEF Spec, ImplementsNodeSeq, Abs!Spec

\* Each member has the effect its name promises where its iterator points
\* (forward_list_impl.h:115-217, 321-402).
THEOREM CallsAreExact == Spec => CallsExact
BY InitIInv, NextIInv, InvCalls, PTL DEF Spec, CallsExact

------------------------------------------------------------------------------
(* The loops.  LoopsInv is inductive.  It adds to IInv what each loop knows *)
(* of its locals.  The only fact that is not about one state of one node is *)
(* that of a range to be read: the elements from src on do come to last,    *)
(* which is said without a path (Reaches) so that it is kept by whatever    *)
(* happens to other lists.                                                  *)

\* The positions of the list with header h.
Pos(wh, h) == {h} \cup On(wh, h)

\* A search that starts at element a of the elements S meets element b.
Reaches(nx, S, a, b) ==
    /\ a \in S
    /\ \A T \in SUBSET S : a \in T /\ (\A x \in T : nx[x] \in S => nx[x] \in T) => b \in T

\* The loops with a position in the list, those that read elements, those that
\* read them from another list, and those that write a value.
Walks == {"merge", "splice", "remove", "unique", "truncate", "assign", "copy", "insert", "range"}
Reads == {"splice", "copy", "copy_tail", "range"}
Copying == {"copy", "copy_tail", "range"}
Writes == {"append", "assign", "prepend", "insert"}

\* What a running member's locals are.
Locals(r, hd, nx, wh) ==
    /\ "op" \in DOMAIN r
    /\ r.op \in {"idle", "append", "prepend", "copy_tail"} \cup Walks
    /\ r.op # "idle" \/ "at" \in DOMAIN r => "l" \in DOMAIN r /\ r.l \in List
    /\ r.op \in Reads \cup {"merge"} \/ "src" \in DOMAIN r => "m" \in DOMAIN r
    /\ "at" \in DOMAIN r => r.at \in Pos(wh, hd[r.l])
    /\ "src" \in DOMAIN r => r.m \in List /\ r.src \in Pos(wh, hd[r.m]) \cup {Nil}
    /\ "last" \in DOMAIN r => r.m \in List /\ r.last \in On(wh, hd[r.m]) \cup {Nil}
    /\ r.op \in Walks => "at" \in DOMAIN r
    /\ r.op \in Reads => "src" \in DOMAIN r
    /\ "last" \in DOMAIN r <=> r.op \in {"splice", "range"}
    /\ "src" \in DOMAIN r /\ r.op \notin Reads => r.src = Nil
    /\ r.op \in Copying \cup {"merge"} => r.m \in List \ {r.l}
    /\ r.op \in Copying => r.src \notin Header
    /\ r.op = "splice" => r.src # Nil
    /\ r.op \in Writes => "v" \in DOMAIN r /\ r.v \in Val
    /\ r.op = "range" /\ r.last # Nil => Reaches(nx, On(wh, hd[r.m]), r.src, r.last)

\* The nodes of lists and of callers hold a value, the free ones none.
Valued(vl, wh) ==
    /\ vl \in [Node -> Val \cup {Dead}]
    /\ \A n \in Node : vl[n] = Dead <=> wh[n] = Free

\* What holds between any two iterations.
LoopsInv == IInv /\ Valued(val, where) /\ Locals(run, header_, next, where)

------------------------------------------------------------------------------
(* What the pointer members do to the owner of one node.                   *)

\* The positions of a list are addresses of its own.
LEMMA PosFacts ==
    ASSUME IInv, NEW h \in Header
    PROVE  /\ Pos(where, h) \subseteq Addr /\ h \notin On(where, h)
           /\ Positions(h) = Pos(where, h) /\ Members(h) = On(where, h)
           /\ \A g \in Header : g # h => Pos(where, g) \cap Pos(where, h) = {}
           /\ where \in [Node -> Header \cup {Free, User}]
BY Addresses DEF IInv, TypeOK, Pos, On, Positions, Members, Addr

\* The headers of two lists differ.
LEMMA HeaderFacts ==
    ASSUME IInv, NEW l \in List, NEW m \in List
    PROVE  header_[l] \in Header /\ (l # m => header_[l] # header_[m])
BY DEF IInv, TypeOK, Injective

\* The link of a position leads to another element of the list.
LEMMA LinkFacts ==
    ASSUME IInv, NEW h \in Header, NEW p \in Pos(where, h), next[p] # Nil
    PROVE  next[p] \in On(where, h) /\ next[p] # p /\ next[next[p]] # p
<1>1. /\ Chain(next, h, count[h], prev[h], On(where, h))
      /\ count[h] \in Nat
      /\ On(where, h) \in SUBSET Node
  BY IInvGood DEF Good, On
<1> DEFINE k == count[h]
           S == On(where, h)
<1>2. PICK f \in [0..k -> S \cup {h}] :
        /\ f[0] = h
        /\ \A i, j \in 0..k : f[i] = f[j] => i = j
        /\ \A i \in 0..k : i < k => next[f[i]] = f[i + 1]
        /\ next[f[k]] = Nil
        /\ prev[h] = f[k]
        /\ S = {f[i] : i \in 1..k}
  BY <1>1 DEF Chain
<1> HIDE DEF k, S
<1>3. p \in S \cup {h} /\ k \in Nat
  BY <1>1 DEF S, Pos, k
<1>4. PICK i \in 0..k : p = f[i]
  BY <1>2, <1>3
<1>5. i < k /\ i + 1 \in 1..k /\ next[p] = f[i + 1] /\ i + 1 \in 0..k
  BY <1>2, <1>3, <1>4
<1>6. next[p] \in S /\ next[p] # p
  BY <1>2, <1>4, <1>5
<1>7. next[next[p]] # p
  <2>1. CASE i + 1 = k
    BY <2>1, <1>2, <1>3, <1>5, <1>4, <1>1, Addresses DEF Addr, S
  <2>2. CASE i + 1 < k
    <3>1. i + 2 \in 0..k /\ (i + 1) + 1 = i + 2 /\ i + 2 # i
      BY <2>2, <1>3
    <3>2. next[next[p]] = f[i + 2]
      BY <3>1, <2>2, <1>2, <1>5
    <3>3. QED BY <3>1, <3>2, <1>2, <1>4
  <2>3. QED BY <2>1, <2>2, <1>3, <1>5
<1>8. QED BY <1>6, <1>7 DEF S

\* A new node, or one of the caller's, is given to a list.
LEMMA Given ==
    ASSUME IInv, NEW l \in List, NEW pos, NEW n \in Node, InsertAfter(l, pos, n)
    PROVE  /\ IInv' /\ header_' = header_
           /\ where' = [where EXCEPT ![n] = header_[l]]
           /\ where[n] \in {Free, User} /\ pos \in Pos(where, header_[l])
           /\ \A m \in List : m # l => \A p \in On(where, header_[m]) : next'[p] = next[p]
<1>1. header_[l] \in Header
  BY HeaderFacts
<1>2. IInv' /\ header_' = header_ /\ where' = [where EXCEPT ![n] = header_[l]] /\ where[n] \in {Free, User}
  BY InsertAfterStep DEF InsertAfter, Linkable
<1>3. pos \in Pos(where, header_[l])
  BY <1>1, PosFacts DEF InsertAfter
<1>4. ASSUME NEW m \in List, m # l, NEW p \in On(where, header_[m]) PROVE next'[p] = next[p]
  <2>1. header_[m] \in Header /\ header_[m] # header_[l]
    BY <1>4, HeaderFacts
  <2>2. p # pos /\ p # n /\ p \in Node
    BY <2>1, <1>1, <1>2, <1>3, PosFacts, Addresses DEF On, Pos
  <2>3. next' = InsertAfterNext(NodeReady(n), pos, n) /\ next \in [Addr -> Node \cup {Nil}]
    BY DEF InsertAfter, IInv, TypeOK
  <2>4. QED BY <2>2, <2>3 DEF InsertAfterNext, NodeReady, Addr
<1>5. QED BY <1>2, <1>3, <1>4

\* An element is taken out of a list.
LEMMA Taken ==
    ASSUME IInv, NEW l \in List, NEW pos, NEW to \in {User, Free}, TakeAfter(l, pos, to)
    PROVE  /\ IInv' /\ header_' = header_
           /\ where' = [where EXCEPT ![next[pos]] = to]
           /\ next[pos] \in On(where, header_[l]) /\ pos \in Pos(where, header_[l])
<1>1. header_[l] \in Header /\ pos \in Pos(where, header_[l]) /\ next[pos] # Nil
  BY HeaderFacts, PosFacts DEF TakeAfter
<1>2. QED BY <1>1, LinkFacts, TakeAfterStep DEF TakeAfter

\* An element is moved, within a list or to another one.
LEMMA Shifted ==
    ASSUME IInv, NEW l \in List, NEW m \in List, NEW pos, NEW it, SpliceOne(l, pos, m, it)
    PROVE  /\ IInv' /\ header_' = header_
           /\ where' = [where EXCEPT ![next[it]] = header_[l]]
           /\ next[it] \in On(where, header_[m]) /\ next[it] # it /\ next[it] # pos
           /\ pos \in Pos(where, header_[l]) /\ it \in Pos(where, header_[m])
<1>1. header_[l] \in Header /\ header_[m] \in Header
  BY HeaderFacts
<1>2. pos \in Pos(where, header_[l]) /\ it \in Pos(where, header_[m]) /\ next[it] # Nil /\ pos # next[it]
  BY <1>1, PosFacts DEF SpliceOne
<1>3. QED BY <1>1, <1>2, LinkFacts, SpliceOneStep DEF SpliceOne

------------------------------------------------------------------------------
(* Values and locals.                                                      *)

\* Objects keeps values where there are nodes, if the value of new ones is one.
LEMMA ValuedObjects ==
    ASSUME Valued(val, where), NEW v, Objects(v),
           v \in Val \/ \A n \in Node : where[n] = Free => where'[n] = Free
    PROVE  Valued(val', where')
<1>1. ASSUME NEW n \in Node
      PROVE val'[n] \in Val \cup {Dead} /\ (val'[n] = Dead <=> where'[n] = Free)
  <2>1. val'[n] = CASE where'[n] = Free -> Dead
                    [] where[n] = Free /\ where'[n] # Free -> v
                    [] OTHER -> val[n]
    BY DEF Objects
  <2>2. val[n] \in Val \cup {Dead} /\ (val[n] = Dead <=> where[n] = Free)
    BY DEF Valued
  <2>3. CASE where'[n] = Free
    BY <2>1, <2>3
  <2>4. CASE where[n] = Free /\ where'[n] # Free
    BY <2>1, <2>4, Values
  <2>5. CASE where[n] # Free /\ where'[n] # Free
    BY <2>1, <2>2, <2>5
  <2>6. QED BY <2>3, <2>4, <2>5
<1>2. val' \in [Node -> Val \cup {Dead}]
  BY <1>1 DEF Objects
<1>3. QED BY <1>1, <1>2 DEF Valued

\* A node that goes from one list to another keeps its value.
LEMMA ValuedSame ==
    ASSUME Valued(val, where), val' = val, \A n \in Node : where[n] = Free <=> where'[n] = Free
    PROVE  Valued(val', where')
BY DEF Valued

\* A search gets nearer to what it looks for.
LEMMA ReachNext ==
    ASSUME NEW nx, NEW S, NEW a, NEW b, Reaches(nx, S, a, b), a # b
    PROVE  nx[a] \in S /\ Reaches(nx, S, nx[a], b)
<1>1. ASSUME nx[a] \notin S PROVE FALSE
  <2>1. {a} \in SUBSET S /\ \A x \in {a} : nx[x] \in S => nx[x] \in {a}
    BY <1>1 DEF Reaches
  <2>2. PICK T : T = {a}
    OBVIOUS
  <2>3. b \in T
    BY <2>1, <2>2 DEF Reaches
  <2>4. QED BY <2>2, <2>3
<1>2. ASSUME NEW T \in SUBSET S, nx[a] \in T, \A x \in T : nx[x] \in S => nx[x] \in T PROVE b \in T
  <2>1. PICK U : U = T \cup {a}
    OBVIOUS
  <2>2. U \in SUBSET S /\ a \in U /\ \A x \in U : nx[x] \in S => nx[x] \in U
    BY <2>1, <1>2 DEF Reaches
  <2>3. b \in U
    BY <2>2 DEF Reaches
  <2>4. QED BY <2>1, <2>3
<1>3. QED BY <1>1, <1>2 DEF Reaches

\* The search does not notice what happens to other lists.
LEMMA ReachFrame ==
    ASSUME NEW nx, NEW ny, NEW S, NEW a, NEW b, Reaches(nx, S, a, b), \A x \in S : ny[x] = nx[x]
    PROVE  Reaches(ny, S, a, b)
BY DEF Reaches

\* The locals stay what they are while a node they do not name changes hands.
LEMMA LocalsStay ==
    ASSUME NEW r, NEW hd, NEW nx, NEW ny, NEW wh, NEW wi, NEW d \in Node, NEW to,
           Locals(r, hd, nx, wh),
           wh \in [Node -> Header \cup {Free, User}],
           \A l \in List : hd[l] \in Header,
           wi = [wh EXCEPT ![d] = to],
           "at" \in DOMAIN r => d # r.at,
           "src" \in DOMAIN r => d # r.src,
           "last" \in DOMAIN r => d # r.last,
           r.op = "range" => /\ On(wi, hd[r.m]) = On(wh, hd[r.m])
                             /\ \A p \in On(wh, hd[r.m]) : ny[p] = nx[p]
    PROVE  Locals(r, hd, ny, wi)
<1>1. \A p \in Node : p # d => wi[p] = wh[p]
  OBVIOUS
<1>2. "at" \in DOMAIN r => r.at \in Pos(wi, hd[r.l])
  BY <1>1 DEF Locals, Pos, On
<1>3. "src" \in DOMAIN r => r.m \in List /\ r.src \in Pos(wi, hd[r.m]) \cup {Nil}
  BY <1>1 DEF Locals, Pos, On
<1>4. "last" \in DOMAIN r => r.m \in List /\ r.last \in On(wi, hd[r.m]) \cup {Nil}
  BY <1>1 DEF Locals, On
<1>5. r.op = "range" /\ r.last # Nil => Reaches(ny, On(wi, hd[r.m]), r.src, r.last)
  <2>1. SUFFICES ASSUME r.op = "range", r.last # Nil PROVE Reaches(ny, On(wi, hd[r.m]), r.src, r.last)
    OBVIOUS
  <2>2. Reaches(nx, On(wh, hd[r.m]), r.src, r.last)
    BY <2>1 DEF Locals
  <2>3. QED BY <2>1, <2>2, ReachFrame
<1>6. QED BY <1>2, <1>3, <1>4, <1>5 DEF Locals

\* A position moves within its list.
LEMMA LocalsAt ==
    ASSUME NEW r, NEW hd, NEW nx, NEW wh, Locals(r, hd, nx, wh),
           "at" \in DOMAIN r, NEW x \in Pos(wh, hd[r.l])
    PROVE  Locals([r EXCEPT !.at = x], hd, nx, wh)
<1> DEFINE q == [r EXCEPT !.at = x]
<1>1. /\ DOMAIN q = DOMAIN r /\ q.at = x
      /\ \A f \in DOMAIN r : f # "at" => q[f] = r[f]
  OBVIOUS
<1>2. /\ q.op = r.op /\ q.l = r.l /\ q.m = r.m /\ q.src = r.src /\ q.last = r.last /\ q.v = r.v
  OBVIOUS
<1> HIDE DEF q
<1>3. Locals(q, hd, nx, wh)
  BY <1>1, <1>2 DEF Locals
<1>4. QED BY <1>3 DEF q

\* Counting does not change what the locals point to.
LEMMA LocalsCount ==
    ASSUME NEW r, NEW hd, NEW nx, NEW wh, Locals(r, hd, nx, wh), NEW x
    PROVE  /\ Locals([r EXCEPT !.k = x], hd, nx, wh)
           /\ Locals([r EXCEPT !.removed = x], hd, nx, wh)
<1>1. ASSUME NEW q, q = [r EXCEPT !.k = x] PROVE Locals(q, hd, nx, wh)
  <2>1. DOMAIN q = DOMAIN r /\ \A f \in DOMAIN r : f # "k" => q[f] = r[f]
    BY <1>1
  <2>2. q.op = r.op /\ q.l = r.l /\ q.m = r.m /\ q.at = r.at /\ q.src = r.src /\ q.last = r.last /\ q.v = r.v
    BY <1>1
  <2>3. QED BY <2>1, <2>2 DEF Locals
<1>2. ASSUME NEW q, q = [r EXCEPT !.removed = x] PROVE Locals(q, hd, nx, wh)
  <2>1. DOMAIN q = DOMAIN r /\ \A f \in DOMAIN r : f # "removed" => q[f] = r[f]
    BY <1>2
  <2>2. q.op = r.op /\ q.l = r.l /\ q.m = r.m /\ q.at = r.at /\ q.src = r.src /\ q.last = r.last /\ q.v = r.v
    BY <1>2
  <2>3. QED BY <2>1, <2>2 DEF Locals
<1>3. QED BY <1>1, <1>2

\* The next element is read.
LEMMA LocalsSrc ==
    ASSUME NEW r, NEW hd, NEW nx, NEW wh, Locals(r, hd, nx, wh), r.op \in Copying,
           NEW x, x \in On(wh, hd[r.m]) \cup {Nil}, x \notin Header,
           r.op = "range" /\ r.last # Nil => Reaches(nx, On(wh, hd[r.m]), x, r.last)
    PROVE  Locals([r EXCEPT !.src = x], hd, nx, wh)
<1> DEFINE q == [r EXCEPT !.src = x]
<1>1. /\ DOMAIN q = DOMAIN r /\ ("src" \in DOMAIN r => q.src = x)
      /\ \A f \in DOMAIN r : f # "src" => q[f] = r[f]
  OBVIOUS
<1>2. q.op = r.op /\ q.l = r.l /\ q.m = r.m /\ q.at = r.at /\ q.last = r.last /\ q.v = r.v
  OBVIOUS
<1> HIDE DEF q
<1>3. "src" \in DOMAIN r /\ r.op \in Reads
  BY DEF Locals, Copying, Reads
<1>4. Locals(q, hd, nx, wh)
  <2>1. q.src = x /\ r.op # "splice" /\ r.op \in {"copy", "copy_tail", "range"}
    BY <1>1, <1>3 DEF Copying
  <2>2. q.src \in Pos(wh, hd[r.m]) \cup {Nil}
    BY <2>1 DEF Pos
  <2>3. QED BY <1>1, <1>2, <1>3, <2>1, <2>2 DEF Locals
<1>5. QED BY <1>4 DEF q

\* No locals.
LEMMA LocalsIdle ==
    ASSUME NEW hd, NEW nx, NEW wh
    PROVE  Locals(Idle, hd, nx, wh)
BY DEF Locals, Idle, Walks, Reads, Copying, Writes

\* Only the owners of nodes and their links matter to a loop that goes on.
LEMMA ReturnStep ==
    ASSUME LoopsInv, Return
    PROVE  LoopsInv'
<1>1. IInv' /\ Valued(val', where')
  <2>1. UNCHANGED vars /\ val' = val
    BY DEF Return
  <2>2. QED BY <2>1, NextIInv DEF LoopsInv, vars
<1>2. QED BY <1>1, LocalsIdle DEF LoopsInv, Return

\* A member is called with locals that are what they should be.
LEMMA CallStep ==
    ASSUME LoopsInv, NEW member, NEW r, Call(member, r),
           Locals(r, header_, next, where), {"call", "was"} \cap DOMAIN r = {}
    PROVE  LoopsInv'
<1>1. UNCHANGED <<vars, val>>
  BY DEF Call
<1>2. /\ DOMAIN run' = {"call", "was"} \cup DOMAIN r
      /\ \A f \in DOMAIN r : run'[f] = r[f]
  <2>1. DOMAIN [call |-> member, was |-> Lists] = {"call", "was"}
    OBVIOUS
  <2>2. PICK c : c = [call |-> member, was |-> Lists]
    OBVIOUS
  <2>3. run' = With(c, r) /\ DOMAIN c = {"call", "was"}
    BY <2>1, <2>2 DEF Call
  <2>4. QED BY <2>3 DEF With
<1>3. Locals(run', header_, next, where)
  <2>1. PICK q : q = run'
    OBVIOUS
  <2>2. /\ \A f \in {"at", "src", "last", "op", "l", "m", "v"} : f \in DOMAIN q <=> f \in DOMAIN r
        /\ \A f \in DOMAIN r : q[f] = r[f]
    BY <1>2, <2>1
  <2>3. /\ "splice" \in Reads /\ "range" \in Reads /\ Copying \subseteq Reads
        /\ "idle" \notin Reads
    BY DEF Reads, Copying
  <2>4. q.op = r.op /\ "op" \in DOMAIN q
    BY <2>2 DEF Locals
  <2>5. r.op # "idle" \/ "at" \in DOMAIN r => q.l = r.l
    BY <2>2 DEF Locals
  <2>6. "at" \in DOMAIN r => q.at = r.at
    BY <2>2
  <2>7. r.op \in Reads \/ "src" \in DOMAIN r => q.src = r.src /\ q.m = r.m
    BY <2>2 DEF Locals
  <2>8. "last" \in DOMAIN r => q.last = r.last /\ q.m = r.m
    BY <2>2, <2>3, <2>7 DEF Locals
  <2>9. r.op = "merge" => q.m = r.m
    BY <2>2 DEF Locals
  <2>10. r.op \in Writes => q.v = r.v
    BY <2>2 DEF Locals
  <2>11. Locals(q, header_, next, where)
    BY <2>2, <2>3, <2>4, <2>5, <2>6, <2>7, <2>8, <2>9, <2>10 DEF Locals
  <2>12. QED BY <2>1, <2>11
<1>4. IInv'
  BY <1>1, NextIInv DEF LoopsInv, vars
<1>5. QED BY <1>1, <1>3, <1>4 DEF LoopsInv, vars

------------------------------------------------------------------------------
(* The loops that rearrange.                                               *)

\* A loop that only moves its position on.
LEMMA MoveStep ==
    ASSUME LoopsInv, NEW p \in Pos(where, header_[run.l]), Move(p), run.op \in Walks
    PROVE  LoopsInv'
<1>1. UNCHANGED <<vars, val>> /\ run' = [run EXCEPT !.at = p]
  BY DEF Move
<1>2. Locals(run', header_, next, where)
  <2>1. Locals(run, header_, next, where) /\ "at" \in DOMAIN run
    BY DEF LoopsInv, Locals
  <2>2. QED BY <1>1, <2>1, LocalsAt
<1>3. IInv'
  BY <1>1, NextIInv DEF LoopsInv, vars
<1>4. QED BY <1>1, <1>2, <1>3 DEF LoopsInv, vars

\* What a loop with a position in its list knows.
LEMMA WalkFacts ==
    ASSUME LoopsInv, run.op \in Walks
    PROVE  /\ run.l \in List /\ "at" \in DOMAIN run /\ run.at \in Pos(where, header_[run.l])
           /\ header_[run.l] \in Header
           /\ next[run.at] # Nil => /\ next[run.at] \in On(where, header_[run.l])
                                    /\ next[run.at] # run.at
                                    /\ next[next[run.at]] # run.at
<1>1. /\ run.l \in List /\ "at" \in DOMAIN run /\ run.at \in Pos(where, header_[run.l]) /\ IInv
  BY DEF LoopsInv, Locals, Walks
<1>2. header_[run.l] \in Header
  BY <1>1, HeaderFacts
<1>3. QED BY <1>1, <1>2, LinkFacts

\* merge, an iteration.
LEMMA MergeStepInv ==
    ASSUME LoopsInv, MergeStep
    PROVE  LoopsInv'
<1>1. /\ run.op = "merge" /\ next[run.at] # Nil /\ next[header_[run.m]] # Nil /\ run.op \in Walks
      /\ run.m \in List \ {run.l}
  BY DEF MergeStep, LoopsInv, Locals, Walks
<1>2. run.l \in List /\ "at" \in DOMAIN run /\ next[run.at] \in On(where, header_[run.l]) /\ header_[run.l] \in Header
  BY <1>1, WalkFacts
<1>3. CASE SpliceOne(run.l, run.at, run.m, header_[run.m]) /\ run' = [run EXCEPT !.at = next[header_[run.m]]] /\ UNCHANGED val
  <2>1. PICK l, m, at, o, c : l \in List /\ m \in List /\ l = run.l /\ m = run.m /\ at = run.at /\ o = header_[run.m] /\ c = next[o]
    BY <1>1, <1>2
  <2>2. SpliceOne(l, at, m, o) /\ l # m /\ run' = [run EXCEPT !.at = c]
    BY <1>1, <1>3, <2>1
  <2>3. /\ IInv' /\ header_' = header_ /\ where' = [where EXCEPT ![c] = header_[l]]
        /\ c \in On(where, header_[m]) /\ c # at /\ c \in Node
    BY <2>1, <2>2, Shifted DEF LoopsInv, On
  <2>4. header_[l] \in Header /\ header_[m] \in Header /\ where \in [Node -> Header \cup {Free, User}]
        /\ \A g \in List : header_[g] \in Header
    BY <2>1, HeaderFacts, PosFacts DEF LoopsInv
  <2>5. Valued(val', where')
    BY <1>3, <2>3, <2>4, ValuedSame, Addresses DEF LoopsInv, On
  <2>6. Locals(run, header_, next', where')
    <3>1. "src" \notin DOMAIN run \/ run.src = Nil
      BY <1>1 DEF LoopsInv, Locals, Reads
    <3>2. "last" \notin DOMAIN run /\ c # Nil
      BY <1>1, <2>1 DEF LoopsInv, Locals
    <3>3. QED BY <1>1, <2>1, <2>3, <2>4, <3>1, <3>2, LocalsStay DEF LoopsInv
  <2>7. c \in Pos(where', header_[run.l])
    BY <2>1, <2>3, <2>4 DEF Pos, On
  <2>8. Locals(run', header_, next', where')
    BY <1>2, <2>2, <2>6, <2>7, LocalsAt
  <2>9. QED BY <2>3, <2>5, <2>8 DEF LoopsInv
<1>4. CASE Move(next[run.at])
  BY <1>1, <1>2, <1>4, MoveStep DEF Pos
<1>5. QED BY <1>3, <1>4 DEF MergeStep

\* merge, the end.
LEMMA MergeEndInv ==
    ASSUME LoopsInv, MergeEnd
    PROVE  LoopsInv'
<1>1. run.op = "merge" /\ run.op \in Walks /\ run.m \in List \ {run.l} /\ run' = Idle /\ UNCHANGED val
  BY DEF MergeEnd, LoopsInv, Locals, Walks
<1>2. PICK l \in List, m \in List : l = run.l /\ m = run.m /\ l # m
  BY <1>1, WalkFacts
<1>3. header_[l] \in Header /\ header_[m] \in Header /\ where \in [Node -> Header \cup {Free, User}] /\ header_[l] # header_[m]
  BY <1>2, HeaderFacts, PosFacts DEF LoopsInv
<1>4. IInv' /\ \A n \in Node : where[n] = Free <=> where'[n] = Free
  <2>1. CASE SpliceAll(run.l, prev[header_[run.l]], run.m)
    <3>1. PICK p : p = prev[header_[run.l]]
      OBVIOUS
    <3>2. SpliceAll(l, p, m)
      BY <2>1, <1>2, <3>1
    <3>3. IInv'
      BY <1>2, <3>2, SpliceAllStep DEF LoopsInv
    <3>4. where' = [n \in Node |-> IF n \in On(where, header_[m]) THEN header_[l] ELSE where[n]]
      BY <3>2 DEF SpliceAll, Members, On
    <3>5. QED BY <3>3, <3>4, <1>3, Addresses DEF On
  <2>2. CASE next[header_[run.m]] = Nil /\ Clear(run.m)
    <3>1. Clear(m) /\ next[header_[m]] = Nil
      BY <2>2, <1>2
    <3>2. IInv'
      BY <3>1, ClearStep DEF LoopsInv
    <3>3. On(where, header_[m]) = {}
      <4>1. Chain(next, header_[m], count[header_[m]], prev[header_[m]], On(where, header_[m]))
            /\ count[header_[m]] \in Nat /\ On(where, header_[m]) \in SUBSET Node
        BY <1>3, IInvGood DEF LoopsInv, Good, On
      <4>2. count[header_[m]] = 0
        BY <1>3, <3>1, <4>1, ChainEmpty
      <4>3. QED BY <4>1, <4>2 DEF Chain
    <3>4. where' = where
      BY <3>1, <3>3, <1>3 DEF Clear, Members, On
    <3>5. QED BY <3>2, <3>4
  <2>3. QED BY <2>1, <2>2 DEF MergeEnd
<1>5. Valued(val', where')
  BY <1>1, <1>4, ValuedSame DEF LoopsInv
<1>6. QED BY <1>1, <1>4, <1>5, LocalsIdle DEF LoopsInv

\* splice_after of a range, an iteration.
LEMMA SpliceStepInv ==
    ASSUME LoopsInv, SpliceStep
    PROVE  LoopsInv'
<1>1. run.op = "splice" /\ run.op \in Walks /\ run.op \in Reads
  BY DEF SpliceStep, Walks, Reads
<1>2. /\ run.l \in List /\ run.m \in List /\ run.src # Nil /\ run.src \in Pos(where, header_[run.m])
      /\ "last" \in DOMAIN run /\ "src" \in DOMAIN run
  BY <1>1 DEF LoopsInv, Locals
<1>3. CASE next[run.src] # run.last /\ SpliceOne(run.l, run.at, run.m, run.src) /\ UNCHANGED <<val, run>>
  <2>1. PICK l, m, at, s, c : l \in List /\ m \in List /\ l = run.l /\ m = run.m /\ at = run.at /\ s = run.src /\ c = next[s]
    BY <1>2
  <2>2. SpliceOne(l, at, m, s)
    BY <1>3, <2>1
  <2>3. /\ IInv' /\ header_' = header_ /\ where' = [where EXCEPT ![c] = header_[l]]
        /\ c \in On(where, header_[m]) /\ c # at /\ c # s /\ c \in Node
    BY <2>1, <2>2, Shifted DEF LoopsInv, On
  <2>4. header_[l] \in Header /\ header_[m] \in Header /\ where \in [Node -> Header \cup {Free, User}]
        /\ \A g \in List : header_[g] \in Header
    BY <2>1, HeaderFacts, PosFacts DEF LoopsInv
  <2>5. Valued(val', where')
    BY <1>3, <2>3, <2>4, ValuedSame, Addresses DEF LoopsInv, On
  <2>6. Locals(run, header_, next', where')
    <3>1. "at" \in DOMAIN run => c # run.at
      BY <2>1, <2>3
    <3>2. c # run.src /\ c # run.last /\ run.op # "range"
      BY <1>1, <1>3, <2>1, <2>3
    <3>3. QED BY <2>3, <2>4, <3>1, <3>2, LocalsStay DEF LoopsInv
  <2>7. QED BY <1>3, <2>3, <2>5, <2>6 DEF LoopsInv
<1>4. QED BY <1>3, ReturnStep DEF SpliceStep

\* The element after a position is erased; the loop stays where it is.
LEMMA EraseStep ==
    ASSUME LoopsInv, NEW p, EraseAfter(run.l, p), run.op \in Walks, run.op \notin Reads \cup {"merge"},
           next[p] # run.at,
           run' = run \/ \E x : run' = [run EXCEPT !.removed = x]
    PROVE  LoopsInv'
<1>1. PICK l, c : l \in List /\ l = run.l /\ c = next[p]
  BY WalkFacts
<1>2. TakeAfter(l, p, Free) /\ Objects(Dead)
  BY <1>1 DEF EraseAfter
<1>3. /\ IInv' /\ header_' = header_ /\ where' = [where EXCEPT ![c] = Free]
      /\ c \in On(where, header_[l]) /\ c \in Node
  BY <1>1, <1>2, Taken DEF LoopsInv, On
<1>4. header_[l] \in Header /\ where \in [Node -> Header \cup {Free, User}]
      /\ \A g \in List : header_[g] \in Header
  BY <1>1, HeaderFacts, PosFacts DEF LoopsInv
<1>5. Valued(val', where')
  <2>1. \A n \in Node : where[n] = Free => where'[n] = Free
    BY <1>3, <1>4
  <2>2. QED BY <1>2, <2>1, ValuedObjects DEF LoopsInv
<1>6. Locals(run, header_, next', where')
  <2>1. "src" \in DOMAIN run => run.src = Nil
    BY DEF LoopsInv, Locals
  <2>2. "last" \notin DOMAIN run /\ run.op # "range"
    BY DEF LoopsInv, Locals, Reads
  <2>3. c # Nil /\ c # run.at
    BY <1>1, <1>2 DEF TakeAfter
  <2>4. QED BY <1>3, <1>4, <2>1, <2>2, <2>3, LocalsStay DEF LoopsInv
<1>7. Locals(run', header_, next', where')
  <2>1. PICK nx, wh : nx = next' /\ wh = where'
    OBVIOUS
  <2>2. \A x : Locals([run EXCEPT !.removed = x], header_, nx, wh)
    BY <1>6, <2>1, LocalsCount
  <2>3. QED BY <1>6, <2>1, <2>2
<1>8. QED BY <1>3, <1>5, <1>7 DEF LoopsInv

\* remove, unique and truncation to a length.
LEMMA RemoveStepInv ==
    ASSUME LoopsInv, RemoveStep
    PROVE  LoopsInv'
<1>1. run.op \in Walks /\ run.op \notin Reads \cup {"merge"}
  BY DEF RemoveStep, Walks, Reads
<1>2. CASE next[run.at] = Nil /\ Return
  BY <1>2, ReturnStep
<1>3. CASE next[run.at] # Nil /\ EraseAfter(run.l, run.at) /\ run' = [run EXCEPT !.removed = @ + 1]
  <2>1. PICK p : p = run.at
    OBVIOUS
  <2>2. EraseAfter(run.l, p) /\ next[p] # run.at /\ \E x : run' = [run EXCEPT !.removed = x]
    BY <1>1, <1>3, <2>1, WalkFacts
  <2>3. QED BY <1>1, <2>2, EraseStep
<1>4. CASE next[run.at] # Nil /\ Move(next[run.at])
  BY <1>1, <1>4, WalkFacts, MoveStep DEF Pos
<1>5. QED BY <1>2, <1>3, <1>4 DEF RemoveStep

\* Of two equal neighbours the second one is erased.
LEMMA UniqueStepInv ==
    ASSUME LoopsInv, UniqueStep
    PROVE  LoopsInv'
<1>1. run.op \in Walks /\ run.op \notin Reads \cup {"merge"}
  BY DEF UniqueStep, Walks, Reads
<1>2. PICK b : b = next[run.at]
  OBVIOUS
<1>3. CASE Return
  BY <1>3, ReturnStep
<1>4. CASE b # Nil /\ next[b] # Nil /\ EraseAfter(run.l, b) /\ run' = [run EXCEPT !.removed = @ + 1]
  <2>1. next[b] # run.at /\ \E x : run' = [run EXCEPT !.removed = x]
    BY <1>1, <1>2, <1>4, WalkFacts
  <2>2. QED BY <1>1, <1>4, <2>1, EraseStep
<1>5. CASE b # Nil /\ Move(b)
  BY <1>1, <1>2, <1>5, WalkFacts, MoveStep DEF Pos
<1>6. QED BY <1>2, <1>3, <1>4, <1>5 DEF UniqueStep

\* The element after the last that stays is erased.
LEMMA TruncateStepInv ==
    ASSUME LoopsInv, TruncateStep
    PROVE  LoopsInv'
<1>1. run.op \in Walks /\ run.op \notin Reads \cup {"merge"}
  BY DEF TruncateStep, Walks, Reads
<1>2. CASE Return
  BY <1>2, ReturnStep
<1>3. CASE next[run.at] # Nil /\ EraseAfter(run.l, run.at) /\ UNCHANGED run
  <2>1. PICK p : p = run.at
    OBVIOUS
  <2>2. EraseAfter(run.l, p) /\ next[p] # run.at
    BY <1>1, <1>3, <2>1, WalkFacts
  <2>3. QED BY <1>1, <1>3, <2>2, EraseStep
<1>4. QED BY <1>2, <1>3 DEF TruncateStep

------------------------------------------------------------------------------
(* The loops that create and overwrite.                                    *)

\* A node is created and linked in the list of the running member.
LEMMA CreateStep ==
    ASSUME LoopsInv, NEW l \in List, l = run.l, run.op # "idle",
           NEW pos, NEW n \in Node, where[n] = Free, InsertAfter(l, pos, n),
           NEW v \in Val, Objects(v)
    PROVE  /\ IInv' /\ header_' = header_ /\ Valued(val', where')
           /\ Locals(run, header_, next', where')
           /\ n \in Pos(where', header_[l])
           /\ \A m \in List : m # l => /\ On(where', header_[m]) = On(where, header_[m])
                                       /\ \A p \in On(where, header_[m]) : next'[p] = next[p]
<1>1. /\ IInv' /\ header_' = header_ /\ where' = [where EXCEPT ![n] = header_[l]]
      /\ \A m \in List : m # l => \A p \in On(where, header_[m]) : next'[p] = next[p]
  BY Given DEF LoopsInv
<1>2. /\ header_[l] \in Header /\ where \in [Node -> Header \cup {Free, User}]
      /\ \A m \in List : header_[m] \in Header /\ (m # l => header_[m] # header_[l])
  BY HeaderFacts, PosFacts DEF LoopsInv
<1>3. Valued(val', where')
  BY ValuedObjects DEF LoopsInv
<1>4. \A m \in List : n \notin Pos(where, header_[m])
  BY <1>2, Addresses DEF Pos, On
<1>5. \A m \in List : m # l => On(where', header_[m]) = On(where, header_[m])
  BY <1>1, <1>2, Addresses DEF On
<1>6. Locals(run, header_, next', where')
  <2>1. Locals(run, header_, next, where) /\ n # Nil
    BY Addresses DEF LoopsInv
  <2>2. "at" \in DOMAIN run => n # run.at
    BY <1>4, <2>1 DEF Locals
  <2>3. "src" \in DOMAIN run => n # run.src
    BY <1>4, <2>1 DEF Locals
  <2>4. "last" \in DOMAIN run => n # run.last
    BY <1>4, <2>1 DEF Locals, Pos
  <2>5. run.op = "range" => run.m \in List /\ run.m # l
    BY <2>1 DEF Locals, Copying
  <2>6. \A m \in List : header_[m] \in Header
    BY <1>2
  <2>0. PICK nx, wh, h : nx = next' /\ wh = where' /\ h = header_[l]
    OBVIOUS
  <2>7. wh = [where EXCEPT ![n] = h]
    BY <1>1, <2>0
  <2>8. run.op = "range" => /\ On(wh, header_[run.m]) = On(where, header_[run.m])
                             /\ \A p \in On(where, header_[run.m]) : nx[p] = next[p]
    BY <1>1, <1>5, <2>0, <2>5
  <2>9. Locals(run, header_, nx, wh)
    BY <1>2, <2>1, <2>2, <2>3, <2>4, <2>6, <2>7, <2>8, LocalsStay
  <2>10. QED BY <2>0, <2>9
<1>7. n \in Pos(where', header_[l])
  BY <1>1, <1>2 DEF Pos, On
<1>8. QED BY <1>1, <1>3, <1>5, <1>6, <1>7

\* The same, at either end and with a count.
LEMMA CountedStep ==
    ASSUME LoopsInv, run.op \in Writes, NEW pos, NEW n \in Node, where[n] = Free,
           InsertAfter(run.l, pos, n), Objects(run.v),
           NEW x, run' = [run EXCEPT !.k = x] \/ ("at" \in DOMAIN run /\ run' = [run EXCEPT !.k = x, !.at = n])
    PROVE  LoopsInv'
<1>1. PICK l \in List, v \in Val : l = run.l /\ v = run.v /\ run.op # "idle"
  BY DEF LoopsInv, Locals, Writes
<1>2. InsertAfter(l, pos, n) /\ Objects(v)
  BY <1>1
<1>3. /\ IInv' /\ header_' = header_ /\ Valued(val', where')
      /\ Locals(run, header_, next', where')
      /\ n \in Pos(where', header_[l])
  BY <1>1, <1>2, CreateStep
<1>0. PICK nx, wh : nx = next' /\ wh = where'
  OBVIOUS
<1>4. PICK q : q = [run EXCEPT !.k = x]
  OBVIOUS
<1>5. Locals(q, header_, nx, wh) /\ q.l = run.l
  <2>1. Locals(run, header_, nx, wh)
    BY <1>0, <1>3
  <2>2. Locals(q, header_, nx, wh)
    BY <1>4, <2>1, LocalsCount
  <2>3. QED BY <1>4, <2>2
<1>6. Locals(run', header_, nx, wh)
  <2>1. CASE run' = q
    BY <1>5, <2>1
  <2>2. CASE "at" \in DOMAIN run /\ run' = [run EXCEPT !.k = x, !.at = n]
    <3>1. "at" \in DOMAIN q /\ run' = [q EXCEPT !.at = n]
      BY <1>4, <2>2
    <3>2. n \in Pos(wh, header_[q.l])
      BY <1>0, <1>1, <1>3, <1>5
    <3>3. QED BY <1>5, <3>1, <3>2, LocalsAt
  <2>3. QED BY <1>4, <2>1, <2>2
<1>7. QED BY <1>0, <1>3, <1>6 DEF LoopsInv

\* resize, the missing elements.
LEMMA AppendStepInv ==
    ASSUME LoopsInv, AppendStep
    PROVE  LoopsInv'
<1>1. CASE Return
  BY <1>1, ReturnStep
<1>2. CASE /\ \E n \in Node : where[n] = Free /\ PushBack(run.l, n)
           /\ Objects(run.v) /\ run' = [run EXCEPT !.k = @ - 1]
  <2>1. PICK n \in Node : where[n] = Free /\ PushBack(run.l, n)
    BY <1>2
  <2>2. PICK l \in List : l = run.l
    BY DEF LoopsInv, Locals, AppendStep
  <2>3. InsertAfter(l, prev[header_[l]], n)
    BY <2>1, <2>2, PushBackIsInsertAfter DEF LoopsInv
  <2>4. PICK pos, x : pos = prev[header_[l]] /\ x = run.k - 1
    OBVIOUS
  <2>5. InsertAfter(run.l, pos, n) /\ run' = [run EXCEPT !.k = x] /\ run.op \in Writes
    BY <1>2, <2>2, <2>3, <2>4 DEF AppendStep, Writes
  <2>6. QED BY <1>2, <2>1, <2>5, CountedStep
<1>3. QED BY <1>1, <1>2 DEF AppendStep

\* assign, the missing elements.
LEMMA PrependStepInv ==
    ASSUME LoopsInv, PrependStep
    PROVE  LoopsInv'
<1>1. CASE Return
  BY <1>1, ReturnStep
<1>2. CASE /\ \E n \in Node : where[n] = Free /\ PushFront(run.l, n)
           /\ Objects(run.v) /\ run' = [run EXCEPT !.k = @ - 1]
  <2>1. PICK n \in Node : where[n] = Free /\ PushFront(run.l, n)
    BY <1>2
  <2>2. PICK l \in List : l = run.l
    BY DEF LoopsInv, Locals, PrependStep
  <2>3. InsertAfter(l, header_[l], n)
    BY <2>1, <2>2, PushFrontIsInsertAfter DEF LoopsInv
  <2>4. PICK pos, x : pos = header_[l] /\ x = run.k - 1
    OBVIOUS
  <2>5. InsertAfter(run.l, pos, n) /\ run' = [run EXCEPT !.k = x] /\ run.op \in Writes
    BY <1>2, <2>2, <2>3, <2>4 DEF PrependStep, Writes
  <2>6. QED BY <1>2, <2>1, <2>5, CountedStep
<1>3. QED BY <1>1, <1>2 DEF PrependStep

\* insert_after of a value, several times.
LEMMA InsertStepInv ==
    ASSUME LoopsInv, InsertStep
    PROVE  LoopsInv'
<1>1. CASE Return
  BY <1>1, ReturnStep
<1>2. CASE /\ \E n \in Node : /\ where[n] = Free /\ InsertAfter(run.l, run.at, n)
                              /\ run' = [run EXCEPT !.k = @ - 1, !.at = n]
           /\ Objects(run.v)
  <2>1. PICK n \in Node : /\ where[n] = Free /\ InsertAfter(run.l, run.at, n)
                          /\ run' = [run EXCEPT !.k = @ - 1, !.at = n]
    BY <1>2
  <2>2. PICK pos, x : pos = run.at /\ x = run.k - 1
    OBVIOUS
  <2>3. InsertAfter(run.l, pos, n) /\ run' = [run EXCEPT !.k = x, !.at = n]
    BY <2>1, <2>2
  <2>4. run.op \in Writes /\ "at" \in DOMAIN run
    BY DEF InsertStep, Writes, Walks, LoopsInv, Locals
  <2>5. QED BY <1>2, <2>1, <2>3, <2>4, CountedStep
<1>3. QED BY <1>1, <1>2 DEF InsertStep

\* An element that is there gets another value.
LEMMA ValuedSet ==
    ASSUME Valued(val, where), NEW n \in Node, where[n] # Free, NEW v \in Val,
           val' = [val EXCEPT ![n] = v], where' = where
    PROVE  Valued(val', where')
<1>1. val' \in [Node -> Val \cup {Dead}]
  BY DEF Valued
<1>2. ASSUME NEW x \in Node PROVE val'[x] = Dead <=> where'[x] = Free
  BY Values DEF Valued
<1>3. QED BY <1>1, <1>2 DEF Valued

\* assign, the elements there are.
LEMMA AssignStepInv ==
    ASSUME LoopsInv, AssignStep
    PROVE  LoopsInv'
<1>1. UNCHANGED vars /\ run.op = "assign" /\ run.op \in Walks /\ run.op \in Writes
  BY DEF AssignStep, Walks, Writes
<1>2. IInv' /\ header_' = header_ /\ next' = next /\ where' = where
  BY <1>1, NextIInv DEF LoopsInv, vars
<1>3. Locals(run, header_, next, where) /\ run.v \in Val
  BY <1>1 DEF LoopsInv, Locals
<1>4. CASE /\ next[run.at] # Nil /\ val' = [val EXCEPT ![next[run.at]] = run.v]
           /\ run' = [run EXCEPT !.at = next[run.at], !.k = @ - 1]
  <2>0. PICK v \in Val : v = run.v
    BY <1>3
  <2>1. PICK b, x : b = next[run.at] /\ x = run.k - 1
    OBVIOUS
  <2>2. b \in On(where, header_[run.l]) /\ "at" \in DOMAIN run /\ header_[run.l] \in Header
    BY <1>1, <1>4, <2>1, WalkFacts
  <2>3. Valued(val', where')
    <3>1. b \in Node /\ where[b] # Free /\ val' = [val EXCEPT ![b] = v]
      BY <1>4, <2>0, <2>1, <2>2, Addresses DEF On
    <3>2. QED BY <1>2, <3>1, ValuedSet DEF LoopsInv
  <2>4. PICK q : q = [run EXCEPT !.at = b]
    OBVIOUS
  <2>5. Locals(q, header_, next, where)
    BY <1>3, <2>2, <2>4, LocalsAt DEF Pos
  <2>6. run' = [q EXCEPT !.k = x]
    BY <1>4, <2>1, <2>4
  <2>7. Locals(run', header_, next, where)
    BY <2>5, <2>6, LocalsCount
  <2>8. QED BY <1>2, <2>3, <2>7 DEF LoopsInv
<1>5. CASE run' = [run EXCEPT !.op = "prepend"] /\ UNCHANGED val
  <2>1. PICK q : q = run'
    OBVIOUS
  <2>2. /\ DOMAIN q = DOMAIN run /\ q.op = "prepend" /\ q.l = run.l /\ q.m = run.m /\ q.at = run.at
        /\ q.src = run.src /\ q.last = run.last /\ q.v = run.v
    BY <1>3, <1>5, <2>1 DEF Locals
  <2>3. run.op \notin Reads /\ q.op \notin Reads \cup Copying \cup Walks \cup {"merge", "range", "splice", "idle"} /\ q.op \in Writes
    BY <1>1, <2>2 DEF Reads, Copying, Walks, Writes
  <2>4. Locals(q, header_, next, where)
    BY <1>1, <1>3, <2>2, <2>3 DEF Locals
  <2>5. Valued(val', where')
    BY <1>2, <1>5 DEF LoopsInv
  <2>6. QED BY <1>2, <2>1, <2>4, <2>5 DEF LoopsInv
<1>6. QED BY <1>4, <1>5 DEF AssignStep

\* What a loop that reads elements of another list knows.
LEMMA CopyFacts ==
    ASSUME LoopsInv, run.op \in Copying
    PROVE  /\ run.l \in List /\ run.m \in List /\ run.m # run.l
           /\ "src" \in DOMAIN run /\ run.src \in On(where, header_[run.m]) \cup {Nil}
           /\ run.src # Nil => /\ val[run.src] \in Val
                               /\ next[run.src] \in On(where, header_[run.m]) \cup {Nil}
           /\ \A p \in On(where, header_[run.m]) \cup {Nil} : p \notin Header
<1>1. /\ run.l \in List /\ run.m \in List /\ run.m # run.l
      /\ "src" \in DOMAIN run /\ run.src \in Pos(where, header_[run.m]) \cup {Nil} /\ run.src \notin Header
  BY DEF LoopsInv, Locals, Copying, Reads
<1>2. header_[run.m] \in Header
  BY <1>1, HeaderFacts DEF LoopsInv
<1>3. run.src \in On(where, header_[run.m]) \cup {Nil}
  BY <1>1, <1>2 DEF Pos
<1>4. run.src # Nil => val[run.src] \in Val
  BY <1>2, <1>3, Addresses DEF LoopsInv, Valued, On
<1>5. run.src # Nil => next[run.src] \in On(where, header_[run.m]) \cup {Nil}
  BY <1>2, <1>3, LinkFacts DEF LoopsInv, Pos
<1>6. \A p \in On(where, header_[run.m]) \cup {Nil} : p \notin Header
  BY Addresses DEF On
<1>7. QED BY <1>1, <1>3, <1>4, <1>5, <1>6

\* assign from another list, the elements both have.
LEMMA CopyStepInv ==
    ASSUME LoopsInv, CopyStep
    PROVE  LoopsInv'
<1>1. run.op = "copy" /\ run.op \in Copying /\ run.op \in Walks
  BY DEF CopyStep, Copying, Walks
<1>2. CASE Return
  BY <1>2, ReturnStep
<1>3. CASE /\ next[run.at] # Nil /\ run.src # Nil
           /\ val' = [val EXCEPT ![next[run.at]] = val[run.src]]
           /\ run' = [run EXCEPT !.at = next[run.at], !.src = next[run.src]]
           /\ UNCHANGED vars
  <2>1. PICK b, v, x : b = next[run.at] /\ v = val[run.src] /\ x = next[run.src]
    OBVIOUS
  <2>2. /\ v \in Val /\ x \in On(where, header_[run.m]) \cup {Nil} /\ x \notin Header
        /\ b \in On(where, header_[run.l]) /\ header_[run.l] \in Header
    BY <1>1, <1>3, <2>1, CopyFacts, WalkFacts
  <2>3. IInv' /\ header_' = header_ /\ next' = next /\ where' = where
    BY <1>3, NextIInv DEF LoopsInv, vars
  <2>4. Valued(val', where')
    <3>1. b \in Node /\ where[b] # Free /\ val' = [val EXCEPT ![b] = v]
      BY <1>3, <2>1, <2>2, Addresses DEF On
    <3>2. QED BY <2>2, <2>3, <3>1, ValuedSet DEF LoopsInv
  <2>5. PICK q : q = [run EXCEPT !.at = b]
    OBVIOUS
  <2>6. Locals(run, header_, next, where) /\ "at" \in DOMAIN run
    BY <1>1 DEF LoopsInv, Locals
  <2>7. Locals(q, header_, next, where)
    BY <2>2, <2>5, <2>6, LocalsAt DEF Pos
  <2>8. q.op = run.op /\ q.m = run.m /\ run' = [q EXCEPT !.src = x]
    BY <1>3, <2>1, <2>5
  <2>9. Locals(run', header_, next, where)
    BY <1>1, <2>2, <2>7, <2>8, LocalsSrc
  <2>10. QED BY <2>3, <2>4, <2>9 DEF LoopsInv
<1>4. CASE /\ UNCHANGED <<vars, val>>
           /\ \/ run' = [run EXCEPT !.op = "copy_tail"]
              \/ run.src = Nil /\ run' = [run EXCEPT !.op = "truncate"]
  <2>1. PICK q : q = run'
    OBVIOUS
  <2>2. Locals(run, header_, next, where)
    BY DEF LoopsInv
  <2>3. PICK o : q = [run EXCEPT !.op = o] /\ (o = "copy_tail" \/ (o = "truncate" /\ run.src = Nil))
    BY <1>4, <2>1
  <2>4. /\ DOMAIN q = DOMAIN run /\ q.l = run.l /\ q.m = run.m /\ q.at = run.at
        /\ q.src = run.src /\ q.last = run.last /\ q.v = run.v /\ q.op = o
    BY <2>2, <2>3 DEF Locals
  <2>5. /\ run.op \in Reads /\ "last" \notin DOMAIN run
        /\ q.op \notin {"idle", "splice", "range", "merge"} /\ q.op \notin Writes
        /\ q.op \in {"idle", "append", "prepend", "copy_tail"} \cup Walks
        /\ q.op = "copy_tail" <=> q.op \in Reads
        /\ q.op \in Copying => q.op \in Reads
        /\ q.op \in Reads <=> q.op \notin Walks
    BY <1>1, <2>2, <2>3, <2>4 DEF Reads, Copying, Walks, Writes, Locals
  <2>8. Locals(q, header_, next, where)
    BY <1>1, <2>2, <2>3, <2>4, <2>5 DEF Locals
  <2>6. IInv'
    BY <1>4, NextIInv DEF LoopsInv, vars
  <2>7. QED BY <1>4, <2>1, <2>6, <2>8 DEF LoopsInv, vars
<1>5. QED BY <1>2, <1>3, <1>4 DEF CopyStep

\* A copy of the next element of another list is created.
LEMMA CopyOneStep ==
    ASSUME LoopsInv, run.op \in {"copy_tail", "range"}, run.src # Nil,
           run.op = "range" => run.src # run.last,
           NEW pos, NEW n \in Node, where[n] = Free, InsertAfter(run.l, pos, n),
           Objects(val[run.src]),
           \/ run' = [run EXCEPT !.src = next[@]]
           \/ "at" \in DOMAIN run /\ run' = [run EXCEPT !.src = next[@], !.at = n]
    PROVE  LoopsInv'
<1>1. run.op \in Copying /\ run.op # "idle"
  BY DEF Copying
<1>2. PICK l \in List, m \in List : l = run.l /\ m = run.m /\ m # l
  BY <1>1, CopyFacts
<1>3. PICK v, x : v = val[run.src] /\ x = next[run.src]
  OBVIOUS
<1>4. v \in Val /\ x \in On(where, header_[m]) \cup {Nil} /\ x \notin Header /\ "src" \in DOMAIN run
  BY <1>1, <1>2, <1>3, CopyFacts
<1>5. InsertAfter(l, pos, n) /\ Objects(v)
  BY <1>2, <1>3
<1>6. /\ IInv' /\ header_' = header_ /\ Valued(val', where')
      /\ Locals(run, header_, next', where')
      /\ n \in Pos(where', header_[l])
      /\ On(where', header_[m]) = On(where, header_[m])
      /\ \A p \in On(where, header_[m]) : next'[p] = next[p]
  BY <1>1, <1>2, <1>4, <1>5, CreateStep
<1>7. run.op = "range" /\ run.last # Nil => Reaches(next', On(where', header_[m]), x, run.last)
  <2>1. SUFFICES ASSUME run.op = "range", run.last # Nil
                 PROVE Reaches(next', On(where', header_[m]), x, run.last)
    OBVIOUS
  <2>2. Reaches(next, On(where, header_[m]), run.src, run.last)
    BY <2>1, <1>2 DEF LoopsInv, Locals
  <2>3. Reaches(next, On(where, header_[m]), x, run.last)
    BY <2>1, <2>2, <1>3, ReachNext
  <2>4. QED BY <2>3, <1>6, ReachFrame
<1>8. PICK nx, wh : nx = next' /\ wh = where'
  OBVIOUS
<1>9. PICK q : q = [run EXCEPT !.src = x]
  OBVIOUS
<1>10. Locals(q, header_, nx, wh) /\ q.l = run.l /\ DOMAIN q = DOMAIN run
  <2>1. Locals(run, header_, nx, wh)
    BY <1>6, <1>8
  <2>2. x \in On(wh, header_[run.m]) \cup {Nil}
    BY <1>2, <1>4, <1>6, <1>8
  <2>3. run.op = "range" /\ run.last # Nil => Reaches(nx, On(wh, header_[run.m]), x, run.last)
    BY <1>2, <1>7, <1>8
  <2>4. Locals(q, header_, nx, wh)
    BY <1>1, <1>4, <1>9, <2>1, <2>2, <2>3, LocalsSrc
  <2>5. QED BY <1>9, <2>4
<1>11. Locals(run', header_, nx, wh)
  <2>1. CASE run' = [run EXCEPT !.src = next[@]]
    <3>1. run' = q
      BY <1>3, <1>9, <2>1
    <3>2. QED BY <1>10, <3>1
  <2>2. CASE "at" \in DOMAIN run /\ run' = [run EXCEPT !.src = next[@], !.at = n]
    <3>1. "at" \in DOMAIN q /\ run' = [q EXCEPT !.at = n]
      BY <1>3, <1>9, <1>10, <2>2
    <3>2. n \in Pos(wh, header_[q.l])
      BY <1>2, <1>6, <1>8, <1>10
    <3>3. QED BY <1>10, <3>1, <3>2, LocalsAt
  <2>3. QED BY <2>1, <2>2
<1>12. QED BY <1>6, <1>8, <1>11 DEF LoopsInv

\* assign from another list, the elements it has more.
LEMMA CopyTailStepInv ==
    ASSUME LoopsInv, CopyTailStep
    PROVE  LoopsInv'
<1>1. CASE Return
  BY <1>1, ReturnStep
<1>2. CASE /\ run.src # Nil /\ \E n \in Node : where[n] = Free /\ PushBack(run.l, n)
           /\ Objects(val[run.src]) /\ run' = [run EXCEPT !.src = next[@]]
  <2>1. PICK n \in Node : where[n] = Free /\ PushBack(run.l, n)
    BY <1>2
  <2>2. PICK l \in List : l = run.l
    BY DEF LoopsInv, Locals, CopyTailStep
  <2>3. InsertAfter(l, prev[header_[l]], n)
    BY <2>1, <2>2, PushBackIsInsertAfter DEF LoopsInv
  <2>4. PICK pos : pos = prev[header_[l]]
    OBVIOUS
  <2>5. InsertAfter(run.l, pos, n) /\ run.op = "copy_tail"
    BY <2>2, <2>3, <2>4 DEF CopyTailStep
  <2>6. QED BY <1>2, <2>1, <2>5, CopyOneStep
<1>3. QED BY <1>1, <1>2 DEF CopyTailStep

\* insert_after of a range.
LEMMA RangeStepInv ==
    ASSUME LoopsInv, RangeStep
    PROVE  LoopsInv'
<1>1. CASE Return
  BY <1>1, ReturnStep
<1>2. CASE /\ run.src # run.last
           /\ \E n \in Node : /\ where[n] = Free /\ InsertAfter(run.l, run.at, n)
                              /\ run' = [run EXCEPT !.src = next[@], !.at = n]
           /\ Objects(val[run.src])
  <2>1. PICK n \in Node : /\ where[n] = Free /\ InsertAfter(run.l, run.at, n)
                          /\ run' = [run EXCEPT !.src = next[@], !.at = n]
    BY <1>2
  <2>2. PICK pos : pos = run.at
    OBVIOUS
  <2>3. InsertAfter(run.l, pos, n) /\ run.op = "range" /\ "at" \in DOMAIN run
    BY <2>1, <2>2 DEF RangeStep, LoopsInv, Locals, Walks
  <2>4. run.src # Nil
    <3>1. CASE run.last = Nil
      BY <1>2, <3>1
    <3>2. CASE run.last # Nil
      BY <2>3, <3>2, Addresses DEF LoopsInv, Locals, Reaches, On
    <3>3. QED BY <3>1, <3>2
  <2>5. QED BY <1>2, <2>1, <2>3, <2>4, CopyOneStep
<1>3. QED BY <1>1, <1>2 DEF RangeStep

\* Whatever iteration is next.
LEMMA StepInv ==
    ASSUME LoopsInv, Step
    PROVE  LoopsInv'
BY MergeStepInv, MergeEndInv, SpliceStepInv, RemoveStepInv, UniqueStepInv, AppendStepInv,
   TruncateStepInv, AssignStepInv, PrependStepInv, CopyStepInv, CopyTailStepInv,
   RangeStepInv, InsertStepInv, ReturnStep DEF Step, Throw

------------------------------------------------------------------------------
(* The sequence of nodes of a list.                                        *)

\* f enumerates the chain of h.
Enumerates(f, h, k) ==
    /\ f \in [0..k -> Pos(where, h)]
    /\ f[0] = h
    /\ \A i, j \in 0..k : f[i] = f[j] => i = j
    /\ \A i \in 0..k : i < k => next[f[i]] = f[i + 1]
    /\ next[f[k]] = Nil
    /\ prev[h] = f[k]
    /\ On(where, h) = {f[i] : i \in 1..k}

\* The walk along next is the chain.
LEMMA NodesWalk ==
    ASSUME IInv, NEW h \in Header, NEW k, k = count[h]
    PROVE  k \in Nat /\ \E f : Enumerates(f, h, k) /\ Nodes(h) = [i \in 1..k |-> f[i]]
<1>1. PICK Q : Now(Q)
  BY HasNow
<1>2. PICK s : s = Q[h]
  OBVIOUS
<1>3. /\ k \in Nat /\ Traces(next, h, k, s) /\ s \in [1..k -> Node]
      /\ On(where, h) = {s[i] : i \in 1..k} /\ prev[h] = Spot(h, s, k)
  BY <1>1, <1>2, NowFacts
<1>4. /\ \A i, j \in 1..k : s[i] = s[j] => i = j
      /\ \A i \in 0..k : next[Spot(h, s, i)] = IF i < k THEN s[i + 1] ELSE Nil
  BY <1>3 DEF Traces
<1> DEFINE f == [i \in 0..k |-> Spot(h, s, i)]
<1>5. /\ \A i \in 0..k : f[i] = Spot(h, s, i)
      /\ f[0] = h /\ \A i \in 1..k : f[i] = s[i]
  BY <1>3 DEF Spot
<1>6. f \in [0..k -> Pos(where, h)]
  BY <1>3 DEF Pos, Spot
<1>7. Nodes(h) = [i \in 1..k |-> f[i]]
  <2>1. NodesOf(next, k, h) = s
    BY <1>3, NodesAre
  <2>2. Nodes(h) = NodesOf(next, count[h], h)
    BY DEF Nodes, NodesOf
  <2>3. QED BY <2>1, <2>2, <1>3, <1>5
<1> HIDE DEF f
<1>8. \A i, j \in 0..k : f[i] = f[j] => i = j
  <2>1. \A i \in 1..k : f[i] \in Node /\ f[i] # h
    BY <1>3, <1>5, Addresses
  <2>2. QED BY <2>1, <1>4, <1>5
<1>9. \A i \in 0..k : i < k => next[f[i]] = f[i + 1]
  <2>1. \A i \in 0..k : i < k => i + 1 \in 1..k
    BY <1>3
  <2>2. QED BY <2>1, <1>4, <1>5
<1>10. next[f[k]] = Nil /\ prev[h] = f[k] /\ On(where, h) = {f[i] : i \in 1..k}
  BY <1>3, <1>4, <1>5
<1>11. Enumerates(f, h, k)
  BY <1>5, <1>6, <1>8, <1>9, <1>10 DEF Enumerates
<1>12. QED BY <1>3, <1>7, <1>11

\* The number of elements before the one after a position.
LEMMA IndexFacts ==
    ASSUME IInv, NEW h \in Header, NEW k, k = count[h],
           NEW f, Enumerates(f, h, k), Nodes(h) = [i \in 1..k |-> f[i]],
           NEW i \in 0..k
    PROVE  Index(h, f[i]) = i
<1>1. k \in Nat /\ f[0] = h /\ \A x, y \in 0..k : f[x] = f[y] => x = y
  BY NodesWalk DEF Enumerates
<1>2. CASE i = 0
  BY <1>1, <1>2 DEF Index
<1>3. CASE i # 0
  <2>1. f[i] # h /\ i \in 1..k /\ Nodes(h)[i] = f[i]
    BY <1>1, <1>3
  <2>2. \A x \in 1..k : Nodes(h)[x] = f[i] => x = i
    BY <1>1, <2>1
  <2>3. QED BY <2>1, <2>2 DEF Index
<1>4. QED BY <1>2, <1>3

\* What comes later is reached.
LEMMA ReachLater ==
    ASSUME NEW h, NEW k \in Nat, NEW f, Enumerates(f, h, k), NEW i \in 1..k, NEW j \in i..k
    PROVE  Reaches(next, On(where, h), f[i], f[j])
<1>1. /\ On(where, h) = {f[x] : x \in 1..k}
      /\ \A x \in 0..k : x < k => next[f[x]] = f[x + 1]
  BY DEF Enumerates
<1>2. ASSUME NEW T \in SUBSET On(where, h), f[i] \in T,
             \A x \in T : next[x] \in On(where, h) => next[x] \in T
      PROVE  f[j] \in T
  <2> DEFINE U == {d \in Nat : i + d <= k => f[i + d] \in T}
  <2>1. 0 \in U
    BY <1>2
  <2>2. ASSUME NEW d \in Nat, d \in U PROVE d + 1 \in U
    <3>1. SUFFICES ASSUME i + (d + 1) <= k PROVE f[i + (d + 1)] \in T
      OBVIOUS
    <3>2. i + d \in 0..k /\ i + d < k /\ (i + d) + 1 = i + (d + 1) /\ i + (d + 1) \in 1..k
      BY <3>1
    <3>3. f[i + d] \in T /\ next[f[i + d]] = f[i + (d + 1)] /\ f[i + (d + 1)] \in On(where, h)
      BY <1>1, <2>2, <3>2
    <3>4. QED BY <1>2, <3>3
  <2>3. Nat \subseteq U
    <3> HIDE DEF U
    <3> QED BY <2>1, <2>2, SetInduction
  <2>4. j - i \in Nat /\ i + (j - i) = j
    OBVIOUS
  <2>5. QED BY <2>3, <2>4
<1>3. QED BY <1>1, <1>2 DEF Reaches

------------------------------------------------------------------------------
(* The calls.                                                              *)

\* What the lists of a call are.
LEMMA ListFacts ==
    ASSUME LoopsInv, NEW l \in List
    PROVE  /\ IInv /\ header_[l] \in Header
           /\ Positions(header_[l]) = Pos(where, header_[l])
           /\ Members(header_[l]) = On(where, header_[l])
           /\ header_[l] \in Pos(where, header_[l])
           /\ On(where, header_[l]) \subseteq Pos(where, header_[l])
BY HeaderFacts, PosFacts DEF LoopsInv, Pos

\* merge starts before the first element of its list.
LEMMA MergeCall ==
    ASSUME LoopsInv, NEW l \in List, NEW m \in List \ {l}, merge(l, m)
    PROVE  LoopsInv'
<1>1. PICK r : r = [op |-> "merge", l |-> l, m |-> m, at |-> header_[l]]
  OBVIOUS
<1>2. Locals(r, header_, next, where)
  BY <1>1, ListFacts DEF Locals, Walks, Reads, Copying, Writes
<1>3. {"call", "was"} \cap DOMAIN r = {}
  BY <1>1
<1>4. Call("merge", r)
  BY <1>1 DEF merge
<1>5. QED BY <1>2, <1>3, <1>4, CallStep

\* splice_after has a range that does not end before it begins.
LEMMA SpliceCall ==
    ASSUME LoopsInv, NEW l \in List, NEW m \in List, NEW pos, NEW first, NEW last,
           splice_after(l, pos, m, first, last)
    PROVE  LoopsInv'
<1>1. PICK r : r = [op |-> "splice", l |-> l, m |-> m, at |-> pos, src |-> first, last |-> last]
  OBVIOUS
<1>2. /\ pos \in Pos(where, header_[l]) /\ first \in Pos(where, header_[m])
      /\ last \in On(where, header_[m]) \cup {Nil}
  BY ListFacts DEF splice_after, Follows
<1>3. first # Nil
  BY <1>2, ListFacts, Addresses DEF Pos, On
<1>4. Locals(r, header_, next, where)
  BY <1>1, <1>2, <1>3 DEF Locals, Walks, Reads, Copying, Writes
<1>5. {"call", "was"} \cap DOMAIN r = {}
  BY <1>1
<1>6. Call("splice_after", r)
  BY <1>1 DEF splice_after
<1>7. QED BY <1>4, <1>5, <1>6, CallStep

\* remove starts before the first element.
LEMMA RemoveCall ==
    ASSUME LoopsInv, NEW l \in List, NEW v, remove(l, v)
    PROVE  LoopsInv'
<1>1. PICK r : r = [op |-> "remove", l |-> l, at |-> header_[l], v |-> v, removed |-> 0]
  OBVIOUS
<1>2. Locals(r, header_, next, where)
  BY <1>1, ListFacts DEF Locals, Walks, Reads, Copying, Writes
<1>3. {"call", "was"} \cap DOMAIN r = {}
  BY <1>1
<1>4. Call("remove", r)
  BY <1>1 DEF remove
<1>5. QED BY <1>2, <1>3, <1>4, CallStep

\* unique starts before the first element.
LEMMA UniqueCall ==
    ASSUME LoopsInv, NEW l \in List, unique(l)
    PROVE  LoopsInv'
<1>1. PICK r : r = [op |-> "unique", l |-> l, at |-> header_[l], removed |-> 0]
  OBVIOUS
<1>2. Locals(r, header_, next, where)
  BY <1>1, ListFacts DEF Locals, Walks, Reads, Copying, Writes
<1>3. {"call", "was"} \cap DOMAIN r = {}
  BY <1>1
<1>4. Call("unique", r)
  BY <1>1 DEF unique
<1>5. QED BY <1>2, <1>3, <1>4, CallStep

\* resize to fewer starts at an element there is.
LEMMA ResizeCall ==
    ASSUME LoopsInv, NEW l \in List, NEW k \in Nat, NEW v \in Val, resize(l, k, v)
    PROVE  LoopsInv'
<1>1. PICK h : h = header_[l]
  OBVIOUS
<1>2. h \in Header /\ IInv
  BY <1>1, ListFacts
<1>3. CASE count[h] <= k
  <2>1. PICK r : r = [op |-> "append", l |-> l, k |-> k - count[h], n |-> k, v |-> v]
    OBVIOUS
  <2>2. Locals(r, header_, next, where)
    BY <2>1 DEF Locals, Walks, Reads, Copying, Writes
  <2>3. {"call", "was"} \cap DOMAIN r = {}
    BY <2>1
  <2>4. Call("resize", r)
    BY <1>1, <1>3, <2>1 DEF resize
  <2>5. QED BY <2>2, <2>3, <2>4, CallStep
<1>4. CASE ~ (count[h] <= k)
  <2>1. PICK a : a = IF k = 0 THEN h ELSE Nodes(h)[k]
    OBVIOUS
  <2>2. a \in Pos(where, h)
    <3>1. PICK c : c = count[h]
      OBVIOUS
    <3>2. PICK f : Enumerates(f, h, c) /\ Nodes(h) = [i \in 1..c |-> f[i]]
      BY <1>2, <3>1, NodesWalk
    <3>3. c \in Nat
      BY <1>2, <3>1, NodesWalk
    <3>4. k # 0 => k \in 1..c
      BY <1>4, <3>1, <3>3
    <3>5. k # 0 => a \in Pos(where, h)
      BY <2>1, <3>2, <3>4 DEF Enumerates
    <3>6. QED BY <2>1, <3>5 DEF Pos
  <2>3. PICK r : r = [op |-> "truncate", l |-> l, n |-> k, v |-> v, at |-> a]
    OBVIOUS
  <2>4. Locals(r, header_, next, where)
    BY <1>1, <2>2, <2>3 DEF Locals, Walks, Reads, Copying, Writes
  <2>5. {"call", "was"} \cap DOMAIN r = {}
    BY <2>3
  <2>6. Call("resize", r)
    BY <1>1, <1>4, <2>1, <2>3 DEF resize
  <2>7. QED BY <2>4, <2>5, <2>6, CallStep
<1>5. QED BY <1>3, <1>4

\* assign starts before the first element.
LEMMA AssignCall ==
    ASSUME LoopsInv, NEW l \in List, NEW k, NEW v \in Val, assign(l, k, v)
    PROVE  LoopsInv'
<1>1. PICK r : r = [op |-> "assign", l |-> l, at |-> header_[l], k |-> k, n |-> k, v |-> v]
  OBVIOUS
<1>2. Locals(r, header_, next, where)
  BY <1>1, ListFacts DEF Locals, Walks, Reads, Copying, Writes
<1>3. {"call", "was"} \cap DOMAIN r = {}
  BY <1>1
<1>4. Call("assign", r)
  BY <1>1 DEF assign
<1>5. QED BY <1>2, <1>3, <1>4, CallStep

\* assign of a range reads from the first element of another list.
LEMMA AssignRangeCall ==
    ASSUME LoopsInv, NEW l \in List, NEW m \in List \ {l}, assign_range(l, m)
    PROVE  LoopsInv'
<1>1. PICK a : a = next[header_[m]]
  OBVIOUS
<1>2. PICK r : r = [op |-> "copy", l |-> l, m |-> m, at |-> header_[l], src |-> a]
  OBVIOUS
<1>3. a \in On(where, header_[m]) \cup {Nil} /\ a \notin Header
  <2>1. CASE a = Nil
    BY <2>1, Addresses
  <2>2. CASE a # Nil
    <3>1. a \in On(where, header_[m])
      BY <1>1, <2>2, ListFacts, LinkFacts
    <3>2. QED BY <3>1, Addresses DEF On
  <2>3. QED BY <2>1, <2>2
<1>4. Locals(r, header_, next, where)
  BY <1>2, <1>3, ListFacts DEF Locals, Walks, Reads, Copying, Writes
<1>5. {"call", "was"} \cap DOMAIN r = {}
  BY <1>2
<1>6. Call("assign_range", r)
  BY <1>1, <1>2 DEF assign_range
<1>7. QED BY <1>4, <1>5, <1>6, CallStep

\* insert_after starts at its position.
LEMMA InsertCall ==
    ASSUME LoopsInv, NEW l \in List, NEW pos, NEW k, NEW v \in Val, insert_after(l, pos, k, v)
    PROVE  LoopsInv'
<1>1. PICK r : r = [op |-> "insert", l |-> l, at |-> pos, pos |-> pos, k |-> k, n |-> k, v |-> v]
  OBVIOUS
<1>2. pos \in Pos(where, header_[l])
  BY ListFacts DEF insert_after
<1>3. Locals(r, header_, next, where)
  BY <1>1, <1>2 DEF Locals, Walks, Reads, Copying, Writes
<1>4. {"call", "was"} \cap DOMAIN r = {}
  BY <1>1
<1>5. Call("insert_after", r)
  BY <1>1 DEF insert_after
<1>6. QED BY <1>3, <1>4, <1>5, CallStep

\* insert_after of a range of another list, from first to last.
LEMMA InsertRangeCall ==
    ASSUME LoopsInv, NEW l \in List, NEW m \in List \ {l}, NEW pos, NEW first, NEW last,
           insert_range(l, pos, m, first, last)
    PROVE  LoopsInv'
<1>1. PICK r : r = [op |-> "range", l |-> l, m |-> m, at |-> pos, pos |-> pos,
                    src |-> first, first |-> first, last |-> last]
  OBVIOUS
<1>2. PICK o : o = header_[m]
  OBVIOUS
<1>3. o \in Header /\ IInv /\ Members(o) = On(where, o)
  BY <1>2, ListFacts
<1>4. pos \in Pos(where, header_[l]) /\ first \in On(where, o) /\ last \in On(where, o) \cup {Nil}
  BY <1>2, <1>3, ListFacts DEF insert_range, Follows
<1>5. last # Nil => Reaches(next, On(where, o), first, last)
  <2>1. SUFFICES ASSUME last # Nil PROVE Reaches(next, On(where, o), first, last)
    OBVIOUS
  <2>2. CASE last = first
    BY <1>4, <2>2 DEF Reaches
  <2>3. CASE last # first
    <3>1. Index(o, first) < Index(o, last)
      BY <1>2, <2>1, <2>3 DEF insert_range, Follows
    <3>2. PICK k : k = count[o]
      OBVIOUS
    <3>3. PICK f : Enumerates(f, o, k) /\ Nodes(o) = [i \in 1..k |-> f[i]]
      BY <1>3, <3>2, NodesWalk
    <3>4. k \in Nat /\ On(where, o) = {f[i] : i \in 1..k}
      BY <1>3, <3>2, <3>3, NodesWalk DEF Enumerates
    <3>5. PICK i \in 1..k, j \in 1..k : first = f[i] /\ last = f[j]
      BY <1>4, <2>1, <3>4
    <3>6. Index(o, f[i]) = i /\ Index(o, f[j]) = j
      BY <1>3, <3>2, <3>3, <3>4, IndexFacts
    <3>7. j \in i..k
      BY <3>1, <3>4, <3>5, <3>6
    <3>8. QED BY <3>3, <3>4, <3>5, <3>7, ReachLater
  <2>4. QED BY <2>2, <2>3
<1>6. first \notin Header
  BY <1>4, Addresses DEF On
<1>7. Locals(r, header_, next, where)
  <2>1. header_[r.m] = o /\ r.src = first /\ r.last = last /\ r.at = pos /\ r.l = l /\ r.m = m /\ r.op = "range"
        /\ DOMAIN r = {"op", "l", "m", "at", "pos", "src", "first", "last"}
    BY <1>1, <1>2
  <2>2. first \in Pos(where, o) /\ "range" \in Walks /\ "range" \in Reads /\ "range" \notin Writes
    BY <1>4 DEF Pos, Walks, Reads, Writes
  <2>3. QED BY <1>4, <1>5, <1>6, <2>1, <2>2 DEF Locals
<1>8. {"call", "was"} \cap DOMAIN r = {}
  BY <1>1
<1>9. Call("insert_range", r)
  BY <1>1 DEF insert_range
<1>10. QED BY <1>7, <1>8, <1>9, CallStep

\* f lists the elements S of the chain of h from its header on, by the links nx.
Walked(nx, h, k, S, f) ==
    /\ h \in Header /\ k \in Nat /\ S \in SUBSET Node /\ nx \in Link
    /\ f \in [0..k -> S \cup {h}]
    /\ f[0] = h
    /\ \A i, j \in 0..k : f[i] = f[j] => i = j
    /\ \A i \in 0..k : i < k => nx[f[i]] = f[i + 1]
    /\ nx[f[k]] = Nil
    /\ S = {f[i] : i \in 1..k}

\* Elements p + 1 to q - 1, the set gone of d elements, are taken out of it: the
\* links are ny then, and e is the last element.
Cut(nx, k, f, p, q, d, gone, ny, e) ==
    /\ p \in 0..k /\ q \in p + 1 .. k + 1 /\ d = q - 1 - p
    /\ gone = {f[x] : x \in p + 1 .. q - 1}
    /\ ny = [nx EXCEPT ![f[p]] = IF q = k + 1 THEN Nil ELSE f[q]]
    /\ e = IF q = k + 1 THEN f[p] ELSE f[k]

\* A chain out of which elements were taken at once is a chain of the others.
LEMMA ChainCut ==
    ASSUME NEW nx, NEW h, NEW k, NEW S, NEW f, Walked(nx, h, k, S, f),
           NEW p, NEW q, NEW d, NEW gone, NEW ny, NEW e, Cut(nx, k, f, p, q, d, gone, ny, e)
    PROVE  Chain(ny, h, k - d, e, S \ gone) /\ IsFiniteSet(gone) /\ Cardinality(gone) = d
<1>0. /\ h \in Header /\ k \in Nat /\ S \in SUBSET Node /\ nx \in Link
      /\ f \in [0..k -> S \cup {h}]
      /\ f[0] = h
      /\ \A i, j \in 0..k : f[i] = f[j] => i = j
      /\ \A i \in 0..k : i < k => nx[f[i]] = f[i + 1]
      /\ nx[f[k]] = Nil
      /\ S = {f[i] : i \in 1..k}
      /\ p \in 0..k /\ q \in p + 1 .. k + 1
      /\ gone = {f[x] : x \in p + 1 .. q - 1}
  BY DEF Walked, Cut
<1>1. e = (IF q = k + 1 THEN f[p] ELSE f[k])
  BY DEF Cut
<1>2. d \in Nat /\ q = p + 1 + d /\ k - d \in Nat /\ p <= k - d /\ p \in Nat /\ q \in Nat /\ k \in Nat /\ q <= k + 1
  <2>1. k \in Nat /\ p \in 0..k /\ q \in p + 1 .. k + 1 /\ d = q - 1 - p
    BY DEF Walked, Cut
  <2>2. QED BY ONLY <2>1
<1>3. ny = [nx EXCEPT ![f[p]] = IF q = k + 1 THEN Nil ELSE f[q]]
  BY DEF Cut
<1>4. f[p] \in Addr /\ ny[f[p]] = (IF q = k + 1 THEN Nil ELSE f[q]) /\ \A a \in Addr : a # f[p] => ny[a] = nx[a]
  BY <1>0, <1>3 DEF Link, Addr
<1>5. PICK g : g = [i \in 0..k - d |-> IF i <= p THEN f[i] ELSE f[i + d]]
  BY <1>0
<1>6. \A i \in 0..k - d : /\ i <= p => g[i] = f[i] /\ i \in 0..k
                          /\ i > p => g[i] = f[i + d] /\ i + d \in q..k
  BY <1>0, <1>2, <1>5
<1>7. h \notin S /\ \A x \in 1..k : f[x] \in S
  BY <1>0, Addresses
<1>8. \A i \in 0..k : f[i] \notin gone <=> i \notin p + 1 .. q - 1
  BY <1>0, <1>2
<1>9. g \in [0..k - d -> (S \ gone) \cup {h}]
  <2>1. ASSUME NEW i \in 0..k - d PROVE g[i] \in (S \ gone) \cup {h}
    <3>1. CASE i <= p
      BY <1>0, <3>1, <1>2, <1>6, <1>8
    <3>2. CASE i > p
      <4>1. PICK x \in q..k : g[i] = f[x]
        BY <1>0, <3>2, <1>6
      <4>2. x \in 1..k /\ x \in 0..k /\ x \notin p + 1 .. q - 1
        BY <1>0, <1>2
      <4>3. QED BY <1>0, <4>1, <4>2, <1>7, <1>8
    <3>3. QED BY <1>0, <3>1, <3>2
  <2>2. QED BY <1>0, <2>1, <1>5
<1>10. g[0] = h
  BY <1>0, <1>2, <1>6
<1>11. \A i, j \in 0..k - d : g[i] = g[j] => i = j
  <2>1. ASSUME NEW i \in 0..k - d, NEW j \in 0..k - d, g[i] = g[j] PROVE i = j
    <3>1. PICK a \in 0..k : g[i] = f[a] /\ (i <= p => a = i) /\ (i > p => a = i + d)
      BY <1>2, <1>6
    <3>2. PICK b \in 0..k : g[j] = f[b] /\ (j <= p => b = j) /\ (j > p => b = j + d)
      BY <1>2, <1>6
    <3>3. a = b
      BY <1>0, <2>1, <3>1, <3>2
    <3>4. QED BY <1>0, <3>1, <3>2, <3>3, <1>2
  <2>2. QED BY <1>0, <2>1
<1>12. \A i \in 0..k - d : i < k - d => ny[g[i]] = g[i + 1]
  <2>1. SUFFICES ASSUME NEW i \in 0..k - d, i < k - d PROVE ny[g[i]] = g[i + 1]
    BY <1>0
  <2>2. i + 1 \in 0..k - d
    BY <1>0, <2>1, <1>2
  <2>3. CASE i < p
    <3>1. g[i] = f[i] /\ g[i + 1] = f[i + 1] /\ f[i] # f[p] /\ i < k /\ i \in 0..k /\ f[i] \in Addr
      BY <1>0, <2>2, <2>3, <1>2, <1>6 DEF Addr
    <3>2. QED BY <1>0, <3>1, <1>4
  <2>4. CASE i = p
    <3>1. g[i] = f[p] /\ g[i + 1] = f[q] /\ q # k + 1
      BY <2>1, <2>2, <2>4, <1>2, <1>6
    <3>2. QED BY <3>1, <1>4
  <2>5. CASE i > p
    <3>1. g[i] = f[i + d] /\ g[i + 1] = f[i + 1 + d] /\ i + d \in 0..k /\ i + d < k /\ i + d # p
      BY <1>0, <2>1, <2>2, <2>5, <1>2, <1>6
    <3>2. (i + d) + 1 = i + 1 + d /\ f[i + d] # f[p] /\ f[i + d] \in Addr
      <4>1. (i + d) + 1 = i + 1 + d
        BY <1>0, <1>2
      <4>2. PICK x \in 0..k : x = i + d /\ x # p
        BY <1>0, <3>1
      <4>3. f[x] # f[p] /\ f[x] \in Addr
        BY <1>0, <4>2 DEF Addr
      <4>4. QED BY <1>0, <4>1, <4>2, <4>3
    <3>3. nx[f[i + d]] = f[i + 1 + d]
      BY <1>0, <3>1, <3>2
    <3>4. QED BY <1>0, <3>1, <3>2, <3>3, <1>4
  <2>6. QED BY <1>0, <2>3, <2>4, <2>5
<1>13. ny[g[k - d]] = Nil /\ (IF q = k + 1 THEN f[p] ELSE f[k]) = g[k - d]
  <2>1. CASE q = k + 1
    <3>1. k - d = p /\ k - d \in 0..k - d
      BY <1>0, <2>1, <1>2
    <3>2. QED BY <1>0, <2>1, <3>1, <1>4, <1>6
  <2>2. CASE q # k + 1
    <3>1. k - d > p /\ (k - d) + d = k /\ k # p /\ f[k] \in Addr /\ k - d \in 0..k - d /\ k \in 0..k
      BY <1>0, <2>2, <1>2 DEF Addr
    <3>2. g[k - d] = f[k] /\ f[k] # f[p]
      BY <1>0, <3>1, <1>6
    <3>3. QED BY <1>0, <2>2, <3>1, <3>2, <1>4
  <2>3. QED BY <1>0, <2>1, <2>2
<1>14. S \ gone = {g[i] : i \in 1..k - d}
  <2>1. \A i \in 1..k - d : g[i] \in S \ gone
    <3>1. ASSUME NEW i \in 1..k - d PROVE g[i] \in S \ gone
      <4>1. i \in 0..k - d /\ 0 \in 0..k - d /\ i # 0
        BY <1>0, <1>2
      <4>2. g[i] # h
        BY <1>0, <4>1, <1>10, <1>11
      <4>3. QED BY <1>0, <4>1, <4>2, <1>9
    <3>2. QED BY <1>0, <3>1
  <2>2. ASSUME NEW x \in 1..k, f[x] \notin gone PROVE \E i \in 1..k - d : g[i] = f[x]
    <3>1. CASE x <= p
      <4>1. x \in 1..k - d /\ g[x] = f[x]
        BY <1>0, <3>1, <1>2, <1>6
      <4>2. QED BY <1>0, <4>1
    <3>2. CASE x > p
      <4>1. x >= q
        BY <1>0, <3>2, <2>2, <1>8
      <4>2. x - d \in 1..k - d /\ x - d > p /\ (x - d) + d = x
        BY <1>0, <4>1, <1>2
      <4>3. g[x - d] = f[x]
        BY <1>0, <4>2, <1>2, <1>6
      <4>4. QED BY <1>0, <4>2, <4>3
    <3>3. QED BY <1>0, <3>1, <3>2
  <2>3. ASSUME NEW a \in S \ gone PROVE \E i \in 1..k - d : g[i] = a
    <3>1. PICK x \in 1..k : a = f[x]
      BY <1>0
    <3>2. QED BY <1>0, <2>2, <3>1
  <2>4. QED BY <2>1, <2>3
<1>15. Chain(ny, h, k - d, e, S \ gone)
  BY <1>0, <1>1, <1>9, <1>10, <1>11, <1>12, <1>13, <1>14 DEF Chain
<1>16. IsFiniteSet(gone) /\ Cardinality(gone) = d
  <2>1. PICK D : D = p + 1 .. q - 1
    BY <1>0
  <2>2. IsFiniteSet(D) /\ Cardinality(D) = d
    <3>1. p + 1 \in Int /\ q - 1 \in Int
      BY <1>0
    <3>2. IsFiniteSet(p + 1 .. q - 1) /\ Cardinality(p + 1 .. q - 1) = IF p + 1 > q - 1 THEN 0 ELSE (q - 1) - (p + 1) + 1
      BY ONLY <3>1, FS_Interval
    <3>3. QED BY <2>1, <3>2, <1>2
  <2>3. PICK b : b = [x \in D |-> f[x]]
    BY <1>0
  <2>4. b \in Bijection(D, gone)
    <3>1. D \subseteq 0..k /\ gone = {f[x] : x \in D}
      BY <1>0, <2>1, <1>2
    <3>2. b \in [D -> gone] /\ \A x \in D : b[x] = f[x]
      BY <1>0, <2>3, <3>1
    <3>3. \A x, y \in D : b[x] = b[y] => x = y
      BY <1>0, <3>1, <3>2
    <3>4. ASSUME NEW y \in gone PROVE \E x \in D : b[x] = y
      <4>1. PICK x \in D : y = f[x]
        BY <1>0, <3>1
      <4>2. QED BY <1>0, <3>2, <4>1
    <3>5. QED BY <1>0, <3>2, <3>3, <3>4 DEF Bijection, Injection, Surjection, IsInjective
  <2>5. ExistsBijection(D, gone)
    BY <1>0, <2>4 DEF ExistsBijection
  <2>6. QED BY ONLY <2>2, <2>5, FS_Bijection
<1>17. QED BY <1>15, <1>16

\* erase_after(first, last).
LEMMA EraseRangeStep ==
    ASSUME IInv, NEW l \in List, NEW first, NEW last, EraseRange(l, first, last)
    PROVE  IInv' /\ \A n \in Node : where[n] = Free => where'[n] = Free
<1>1. PICK h, k : h = header_[l] /\ k = count[h]
  OBVIOUS
<1>2. /\ h \in Header /\ Positions(h) = Pos(where, h) /\ Members(h) = On(where, h)
      /\ where \in [Node -> Header \cup {Free, User}]
  BY <1>1, HeaderFacts, PosFacts
<1>0. k = count[h]
  BY <1>1
<1>3. PICK f : Enumerates(f, h, k) /\ Nodes(h) = [i \in 1..k |-> f[i]]
  <2>1. k \in Nat /\ \E f : Enumerates(f, h, k) /\ Nodes(h) = [i \in 1..k |-> f[i]]
    BY <1>0, <1>2, NodesWalk
  <2>2. QED BY <2>1
<1>4. k \in Nat /\ \A i \in 0..k : Index(h, f[i]) = i
  BY <1>1, <1>2, <1>3, NodesWalk, IndexFacts
<1>5. PICK S : S = On(where, h)
  OBVIOUS
<1>6. /\ f \in [0..k -> S \cup {h}]
      /\ f[0] = h
      /\ \A i, j \in 0..k : f[i] = f[j] => i = j
      /\ \A i \in 0..k : i < k => next[f[i]] = f[i + 1]
      /\ next[f[k]] = Nil
      /\ prev[h] = f[k]
      /\ S = {f[i] : i \in 1..k}
      /\ S \in SUBSET Node
  <2>1. Pos(where, h) = S \cup {h} /\ S \in SUBSET Node
    BY <1>5 DEF Pos, On
  <2>2. QED BY <1>3, <1>5, <2>1 DEF Enumerates
<1>7. PICK p \in 0..k : first = f[p]
  <2>1. first \in Pos(where, h)
    BY <1>1, <1>2 DEF EraseRange
  <2>2. first = f[0] \/ \E p \in 1..k : first = f[p]
    BY <2>1, <1>5, <1>6 DEF Pos
  <2>3. QED BY <2>2, <1>4
<1>8. PICK q \in p + 1 .. k + 1 : IF last = Nil THEN q = k + 1 ELSE q # k + 1 /\ last = f[q]
  <2>1. CASE last = Nil
    BY <2>1, <1>4
  <2>2. CASE last # Nil
    <3>1. last \in S /\ Index(h, first) < Index(h, last)
      BY <2>2, <1>1, <1>2, <1>5 DEF EraseRange, Follows
    <3>2. PICK q \in 1..k : last = f[q]
      BY <3>1, <1>6
    <3>3. p < q
      BY <3>1, <3>2, <1>4, <1>7
    <3>4. q \in p + 1 .. k + 1 /\ q # k + 1
      BY <3>3, <1>4
    <3>5. QED BY <2>2, <3>2, <3>4
  <2>3. QED BY <2>1, <2>2
<1>9. PICK gone : gone = Between(h, first, last)
  OBVIOUS
<1>10. gone = {f[x] : x \in p + 1 .. q - 1}
  <2>1. Index(h, first) = p /\ (IF last = Nil THEN k + 1 ELSE Index(h, last)) = q
    BY <1>4, <1>7, <1>8
  <2>2. gone = {Nodes(h)[x] : x \in p + 1 .. q - 1}
    BY <1>1, <1>9, <2>1 DEF Between
  <2>3. \A x \in p + 1 .. q - 1 : Nodes(h)[x] = f[x]
    BY <1>3, <1>4
  <2>4. QED BY <2>2, <2>3
<1>11. next \in Link
  BY IInvGood DEF Good
<1>12. PICK ny : ny = [next EXCEPT ![f[p]] = IF q = k + 1 THEN Nil ELSE f[q]]
  OBVIOUS
<1>13. /\ Chain(ny, h, k - (q - 1 - p), IF q = k + 1 THEN f[p] ELSE f[k], S \ gone)
       /\ IsFiniteSet(gone) /\ Cardinality(gone) = q - 1 - p
  <2>1. PICK nx : nx = next
    OBVIOUS
  <2>2. Walked(nx, h, k, S, f)
    BY <2>1, <1>2, <1>4, <1>6, <1>11 DEF Walked
  <2>3. PICK d, e : d = q - 1 - p /\ e = IF q = k + 1 THEN f[p] ELSE f[k]
    OBVIOUS
  <2>4. Cut(nx, k, f, p, q, d, gone, ny, e)
    BY <2>1, <2>3, <1>7, <1>8, <1>10, <1>12 DEF Cut
  <2>6. Chain(ny, h, k - d, e, S \ gone) /\ IsFiniteSet(gone) /\ Cardinality(gone) = d
    BY ONLY <2>2, <2>4, ChainCut
  <2>7. QED BY <2>3, <2>6
<1>14. /\ next' = ny /\ header_' = header_
       /\ count' = [count EXCEPT ![h] = @ - Cardinality(gone)]
       /\ where' = [n \in Node |-> IF n \in gone THEN Free ELSE where[n]]
  BY <1>1, <1>7, <1>8, <1>9, <1>12 DEF EraseRange
<1>15. prev' = [prev EXCEPT ![h] = IF q = k + 1 THEN f[p] ELSE f[k]]
  <2>1. prev \in [Header -> Addr]
    BY DEF IInv, TypeOK
  <2>2. prev' = IF next[first] # last /\ last = Nil THEN [prev EXCEPT ![h] = first] ELSE prev
    BY <1>1 DEF EraseRange
  <2>3. CASE last = Nil /\ next[first] = Nil
    <3>1. p = k
      BY <2>3, <1>4, <1>6, <1>7, Addresses
    <3>2. QED BY <2>1, <2>2, <2>3, <3>1, <1>2, <1>6, <1>7
  <2>4. CASE last = Nil /\ next[first] # Nil
    BY <2>2, <2>4, <1>7, <1>8
  <2>5. CASE last # Nil
    BY <2>1, <2>2, <2>5, <1>2, <1>6, <1>8
  <2>6. QED BY <2>3, <2>4, <2>5
<1>16. Good(next, prev, count, where)
  BY IInvGood
<1>17. gone \subseteq S /\ S \subseteq Node /\ q - 1 - p \in 0..k /\ k - (q - 1 - p) \in Nat
  BY <1>4, <1>6, <1>10
<1>18. ny \in Link /\ \A a \in Addr : a # f[p] => ny[a] = next[a]
  <2>1. (IF q = k + 1 THEN Nil ELSE f[q]) \in Node \cup {Nil}
    <3>1. q # k + 1 => q \in 1..k
      BY <1>4
    <3>2. QED BY <3>1, <1>6
  <2>2. QED BY <2>1, <1>11, <1>12 DEF Link
<1>19. /\ On(where', h) = S \ gone
       /\ \A g \in Header : g # h => On(where', g) = On(where, g) /\ f[p] \notin On(where, g) \cup {g}
       /\ where' \in [Node -> Header \cup {Free, User}]
       /\ \A n \in Node : where'[n] = User => where[n] = User
       /\ \A n \in Node : where[n] = Free => where'[n] = Free
  <2>1. ASSUME NEW g \in Header, g # h PROVE f[p] \notin On(where, g) \cup {g}
    BY <2>1, <1>2, <1>5, <1>6, Addresses DEF On
  <2>2. On(where', h) = S \ gone
    BY <1>2, <1>5, <1>14, Addresses DEF On
  <2>3. ASSUME NEW g \in Header, g # h PROVE On(where', g) = On(where, g)
    BY <2>3, <1>2, <1>5, <1>14, <1>17, Addresses DEF On
  <2>4. /\ where' \in [Node -> Header \cup {Free, User}]
        /\ \A n \in Node : where'[n] = User => where[n] = User
        /\ \A n \in Node : where[n] = Free => where'[n] = Free
    BY <1>2, <1>14, Addresses
  <2>5. QED BY <2>1, <2>2, <2>3, <2>4
<1>20. count' \in [Header -> Nat] /\ count'[h] = k - (q - 1 - p) /\ \A g \in Header : g # h => count'[g] = count[g]
  BY <1>1, <1>2, <1>13, <1>14, <1>16, <1>17 DEF Good
<1>21. prev' \in [Header -> Addr] /\ prev'[h] = (IF q = k + 1 THEN f[p] ELSE f[k])
       /\ \A g \in Header : g # h => prev'[g] = prev[g]
  <2>1. f[p] \in Addr /\ f[k] \in Addr
    BY <1>2, <1>4, <1>6 DEF Addr
  <2>2. QED BY <1>2, <1>15, <1>16, <2>1 DEF Good
<1>22. ASSUME NEW g \in Header PROVE Chain(next', g, count'[g], prev'[g], On(where', g))
  <2>1. CASE g = h
    BY <2>1, <1>13, <1>14, <1>19, <1>20, <1>21
  <2>2. CASE g # h
    <3>1. Chain(next, g, count[g], prev[g], On(where, g)) /\ count[g] \in Nat
      BY <1>16 DEF Good
    <3>2. \A x \in On(where, g) \cup {g} : ny[x] = next[x]
      BY <2>2, <1>18, <1>19 DEF On, Addr
    <3>3. Chain(ny, g, count[g], prev[g], On(where, g))
      BY <3>1, <3>2, ChainFrame
    <3>4. QED BY <2>2, <3>3, <1>14, <1>19, <1>20, <1>21
  <2>3. QED BY <2>1, <2>2
<1>23. \A n \in Node : where'[n] = User => next'[n] = Nil
  <2>1. ASSUME NEW n \in Node, where'[n] = User PROVE next'[n] = Nil
    <3>1. where[n] = User /\ next[n] = Nil
      BY <2>1, <1>16, <1>19 DEF Good
    <3>2. n # f[p]
      BY <3>1, <1>2, <1>5, <1>6, Addresses DEF On
    <3>3. QED BY <3>1, <3>2, <1>14, <1>18 DEF Addr
  <2>2. QED BY <2>1
<1>24. Good(next', prev', count', where')
  BY <1>14, <1>18, <1>19, <1>20, <1>21, <1>22, <1>23 DEF Good
<1>25. QED BY <1>14, <1>19, <1>24, GoodIInv DEF IInv, TypeOK

\* A range is erased by a call of its own.
LEMMA EraseRangeCall ==
    ASSUME LoopsInv, run = Idle, NEW l \in List, NEW first, NEW last, EraseRange(l, first, last),
           Objects(Dead), UNCHANGED run
    PROVE  LoopsInv'
<1>1. IInv' /\ \A n \in Node : where[n] = Free => where'[n] = Free
  BY EraseRangeStep DEF LoopsInv
<1>2. Valued(val', where')
  BY <1>1, ValuedObjects DEF LoopsInv
<1>3. Locals(run', header_', next', where')
  BY LocalsIdle
<1>4. QED BY <1>1, <1>2, <1>3 DEF LoopsInv

\* A member of module ForwardList between two loops.
LEMMA MemberInv ==
    ASSUME LoopsInv, Member
    PROVE  LoopsInv'
<1>1. run = Idle /\ Next /\ run' = run
  BY DEF Member
<1>2. PICK v \in Val : Objects(v)
  BY DEF Member
<1>3. IInv'
  BY <1>1, NextIInv DEF LoopsInv
<1>4. Valued(val', where')
  BY <1>2, ValuedObjects DEF LoopsInv
<1>5. Locals(run', header_', next', where')
  BY <1>1, LocalsIdle
<1>6. QED BY <1>3, <1>4, <1>5 DEF LoopsInv

\* Whatever member is called.
LEMMA CallsInv ==
    ASSUME LoopsInv, Calls
    PROVE  LoopsInv'
<1>1. PICK l \in List :
        \/ \E m \in List \ {l} : merge(l, m) \/ assign_range(l, m)
        \/ \E m \in List, pos, first \in Addr, last \in Node \cup {Nil} :
                splice_after(l, pos, m, first, last)
        \/ \E v \in Val : remove(l, v)
        \/ unique(l)
        \/ \E k \in 0..MaxCount, v \in Val : resize(l, k, v) \/ assign(l, k, v)
        \/ \E k \in 0..MaxCount, v \in Val, pos \in Addr : insert_after(l, pos, k, v)
        \/ \E m \in List \ {l}, pos \in Addr, first, last \in Node \cup {Nil} :
                insert_range(l, pos, m, first, last)
        \/ \E first \in Addr, last \in Node \cup {Nil} :
                /\ run = Idle /\ EraseRange(l, first, last) /\ Objects(Dead)
                /\ UNCHANGED run
  BY DEF Calls
<1>2. CASE \E m \in List \ {l} : merge(l, m) \/ assign_range(l, m)
  BY <1>2, MergeCall, AssignRangeCall
<1>3. CASE \E m \in List, pos, first \in Addr, last \in Node \cup {Nil} :
                splice_after(l, pos, m, first, last)
  BY <1>3, SpliceCall
<1>4. CASE (\E v \in Val : remove(l, v)) \/ unique(l)
  BY <1>4, RemoveCall, UniqueCall
<1>5. CASE \E k \in 0..MaxCount, v \in Val : resize(l, k, v) \/ assign(l, k, v)
  BY <1>5, ResizeCall, AssignCall
<1>6. CASE \E k \in 0..MaxCount, v \in Val, pos \in Addr : insert_after(l, pos, k, v)
  BY <1>6, InsertCall
<1>7. CASE \E m \in List \ {l}, pos \in Addr, first, last \in Node \cup {Nil} :
                insert_range(l, pos, m, first, last)
  BY <1>7, InsertRangeCall
<1>8. CASE \E first \in Addr, last \in Node \cup {Nil} :
                /\ run = Idle /\ EraseRange(l, first, last) /\ Objects(Dead)
                /\ UNCHANGED run
  BY <1>8, EraseRangeCall
<1>9. QED BY <1>1, <1>2, <1>3, <1>4, <1>5, <1>6, <1>7, <1>8

------------------------------------------------------------------------------
(* The theorems.                                                           *)

\* No member runs and no list has elements at first.
LEMMA InitInv == LoopsInit => LoopsInv
<1>1. SUFFICES ASSUME LoopsInit PROVE LoopsInv
  OBVIOUS
<1>2. IInv /\ run = Idle /\ val = [n \in Node |-> Dead] /\ \A n \in Node : where[n] = Free
  BY <1>1, InitIInv DEF LoopsInit, Init
<1>3. QED BY <1>2, LocalsIdle DEF LoopsInv, Valued

\* The invariant is inductive.
LEMMA NextInv == LoopsInv /\ [LoopsNext]_allVars => LoopsInv'
<1>1. SUFFICES ASSUME LoopsInv, [LoopsNext]_allVars PROVE LoopsInv'
  OBVIOUS
<1>2. CASE Member
  BY <1>1, <1>2, MemberInv
<1>3. CASE Calls
  BY <1>1, <1>3, CallsInv
<1>4. CASE Step
  BY <1>1, <1>4, StepInv
<1>5. CASE UNCHANGED allVars
  <2>1. UNCHANGED <<vars, val, run>>
    BY <1>5 DEF allVars
  <2>2. IInv'
    BY <1>1, <2>1, NextIInv DEF LoopsInv
  <2>3. QED BY <1>1, <2>1, <2>2 DEF LoopsInv, vars
<1>6. QED BY <1>1, <1>2, <1>3, <1>4, <1>5 DEF LoopsNext

\* The chain of a header is the sequence of its nodes.
LEMMA Counted ==
    ASSUME IInv, NEW h \in Header
    PROVE  LET s == Nodes(h) IN
           /\ {s[i] : i \in 1..Len(s)} = Members(h)
           /\ Cardinality(Members(h)) = Len(s)
           /\ prev[h] = IF s = <<>> THEN h ELSE s[Len(s)]
           /\ next[prev[h]] = Nil
<1>1. PICK k : k = count[h]
  OBVIOUS
<1>2. PICK f : Enumerates(f, h, k) /\ Nodes(h) = [i \in 1..k |-> f[i]]
  BY <1>1, NodesWalk
<1>3. k \in Nat /\ Members(h) = On(where, h)
  BY <1>1, NodesWalk, PosFacts
<1>4. PICK s : s = [i \in 1..k |-> f[i]]
  OBVIOUS
<1>5. /\ f[0] = h
      /\ \A i, j \in 0..k : f[i] = f[j] => i = j
      /\ prev[h] = f[k] /\ next[f[k]] = Nil
      /\ On(where, h) = {f[i] : i \in 1..k}
  BY <1>2 DEF Enumerates
<1>6. Len(s) = k /\ s \in Seq(On(where, h)) /\ (s = <<>> <=> k = 0) /\ \A i \in 1..k : s[i] = f[i]
  BY <1>3, <1>4, <1>5
<1>7. {s[i] : i \in 1..Len(s)} = Members(h)
  BY <1>3, <1>5, <1>6
<1>8. Cardinality(Members(h)) = k
  <2>1. PICK D : D = 1..k
    OBVIOUS
  <2>2. IsFiniteSet(D) /\ Cardinality(D) = k
    <3>1. 1 \in Int /\ k \in Int
      BY <1>3
    <3>2. IsFiniteSet(1..k) /\ Cardinality(1..k) = IF 1 > k THEN 0 ELSE k - 1 + 1
      BY ONLY <3>1, FS_Interval
    <3>3. QED BY <2>1, <3>2, <1>3
  <2>3. PICK M : M = On(where, h)
    OBVIOUS
  <2>4. s \in [D -> M] /\ (\A x, y \in D : s[x] = s[y] => x = y) /\ \A y \in M : \E x \in D : s[x] = y
    BY <1>3, <1>4, <1>5, <2>1, <2>3
  <2>5. ExistsBijection(D, M)
    BY <2>4 DEF ExistsBijection, Bijection, Injection, Surjection, IsInjective
  <2>6. IsFiniteSet(M) /\ Cardinality(M) = Cardinality(D)
    BY ONLY <2>2, <2>5, FS_Bijection
  <2>7. QED BY <1>3, <2>2, <2>3, <2>6
<1>9. prev[h] = IF s = <<>> THEN h ELSE s[Len(s)]
  <2>1. CASE k = 0
    <3>1. f[k] = h /\ s = <<>>
      BY <2>1, <1>5, <1>6
    <3>2. QED BY <3>1, <1>5
  <2>2. CASE k # 0
    <3>1. k \in 1..k /\ s # <<>>
      BY <2>2, <1>3, <1>6
    <3>2. s[Len(s)] = f[k]
      BY <3>1, <1>6
    <3>3. QED BY <3>1, <3>2, <1>5
  <2>3. QED BY <2>1, <2>2
<1>10. Nodes(h) = s /\ next[prev[h]] = Nil /\ Cardinality(Members(h)) = Len(s)
  BY <1>2, <1>4, <1>5, <1>6, <1>8
<1>11. QED BY ONLY <1>7, <1>9, <1>10

\* Whatever loop is interrupted, the lists are whole.
LEMMA InvWellChained == LoopsInv => WellChained
<1>1. SUFFICES ASSUME LoopsInv PROVE WellChained
  OBVIOUS
<1>2. LoopsTypeOK
  <2>1. run.op \in {"idle", "merge", "splice", "remove", "unique", "append", "truncate",
                   "assign", "prepend", "copy", "copy_tail", "insert", "range"}
    BY <1>1 DEF LoopsInv, Locals, Walks
  <2>2. QED BY <1>1, <2>1 DEF LoopsTypeOK, LoopsInv, IInv, Valued
<1>3. QED BY <1>1, <1>2, Counted DEF WellChained, LoopsInv

\* The positions a loop holds are those of live elements.
LEMMA InvPositionsLive == LoopsInv => PositionsLive
<1>1. SUFFICES ASSUME LoopsInv PROVE PositionsLive
  OBVIOUS
<1>2. ASSUME "at" \in DOMAIN run PROVE run.at \in Positions(header_[run.l])
  <2>1. run.l \in List /\ run.at \in Pos(where, header_[run.l])
    BY <1>1, <1>2 DEF LoopsInv, Locals
  <2>2. QED BY <1>1, <2>1, ListFacts
<1>3. ASSUME "src" \in DOMAIN run PROVE run.src \in Positions(header_[run.m]) \cup {Nil}
  <2>1. run.m \in List /\ run.src \in Pos(where, header_[run.m]) \cup {Nil}
    BY <1>1, <1>3 DEF LoopsInv, Locals
  <2>2. QED BY <1>1, <2>1, ListFacts
<1>4. ASSUME "last" \in DOMAIN run PROVE run.last \in Members(header_[run.m]) \cup {Nil}
  <2>1. run.m \in List /\ run.last \in On(where, header_[run.m]) \cup {Nil}
    BY <1>1, <1>4 DEF LoopsInv, Locals
  <2>2. QED BY <1>1, <2>1, ListFacts
<1>5. QED BY <1>2, <1>3, <1>4 DEF PositionsLive

\* For any lists, nodes and values: between any two iterations of a loop, and
\* between any two calls, every list is whole, nodes and values included.
THEOREM ListsWholeInLoops == LoopsSpec => []WellChained
BY InitInv, NextInv, InvWellChained, PTL DEF LoopsSpec

\* For any lists and nodes: no loop holds a position of an element that was
\* erased or moved away under it.
THEOREM PositionsStayLive == LoopsSpec => []PositionsLive
BY InitInv, NextInv, InvPositionsLive, PTL DEF LoopsSpec
==============================================================================
