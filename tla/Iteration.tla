------------------------------- MODULE Iteration -------------------------------
(***************************************************************************)
(* Induction over data, stated with sets in place of operators, and what   *)
(* it gives for the recursive functions of the models: every one of them   *)
(* follows pointers, f[k] == IF k = 0 THEN a ELSE g[f[k - 1]].             *)
(***************************************************************************)
EXTENDS Integers, FiniteSets, FiniteSetTheorems, TLAPS

\* Every non-empty set of naturals has a least element.
LEMMA LeastNatural ==
  ASSUME NEW T, T \subseteq Nat, T # {}
  PROVE  \E x \in T : \A y \in T : x <= y
<1> DEFINE Below == {0..n : n \in T}
<1>1. IsWellFoundedOn(StrictSubsetOrdering(Nat), FiniteSubsetsOf(Nat))
  BY FS_StrictSubsetOrderingWellFounded
<1>2. Below \subseteq FiniteSubsetsOf(Nat) /\ Below # {}
  <2>1. ASSUME NEW n \in T PROVE 0..n \in FiniteSubsetsOf(Nat)
    <3>1. n \in Int /\ 0 \in Int /\ 0..n \subseteq Nat
      OBVIOUS
    <3>2. IsFiniteSet(0..n)
      BY ONLY <3>1, FS_Interval
    <3>3. QED BY <3>1, <3>2 DEF FiniteSubsetsOf
  <2>2. QED BY <2>1
<1>3. PICK S \in Below : \A R \in Below : ~ (<<R, S>> \in StrictSubsetOrdering(Nat))
  BY <1>1, <1>2, WFMin
<1>4. PICK x \in T : S = 0..x
  BY <1>3
<1>5. ASSUME NEW y \in T, y < x PROVE FALSE
  <2>1. 0..y \in Below /\ 0..y \subseteq 0..x /\ 0..y # 0..x
    BY <1>5
  <2>2. <<0..y, S>> \in StrictSubsetOrdering(Nat)
    BY <2>1, <1>4 DEF StrictSubsetOrdering
  <2>3. QED BY <2>1, <2>2, <1>3
<1>6. QED BY <1>5

\* Induction: a set that holds 0 and the successor of each of its naturals holds them all.
LEMMA SetInduction ==
  ASSUME NEW T, 0 \in T, \A n \in Nat : n \in T => n + 1 \in T
  PROVE  Nat \subseteq T
<1> SUFFICES ASSUME Nat \ T # {} PROVE FALSE
  OBVIOUS
<1>1. PICK x \in Nat \ T : \A y \in Nat \ T : x <= y
  BY LeastNatural
<1>2. QED BY <1>1

\* f is the orbit of a under g, up to f[n].
Orbit(f, g, a, n) ==
  /\ f[0] = a
  /\ \A k \in 0..n - 1 : f[k + 1] = g[f[k]]

\* A function can be followed for any number of steps...
LEMMA OrbitExists ==
  ASSUME NEW S, NEW g, \A s \in S : g[s] \in S, NEW a \in S, NEW n \in Nat
  PROVE  \E f \in [0..n -> S] : Orbit(f, g, a, n)
<1> DEFINE T == {m \in Nat : \E f \in [0..m -> S] : Orbit(f, g, a, m)}
<1>1. 0 \in T
  <2>1. [k \in 0..0 |-> a] \in [0..0 -> S] /\ Orbit([k \in 0..0 |-> a], g, a, 0)
    BY DEF Orbit
  <2>2. QED BY <2>1
<1>2. ASSUME NEW m \in Nat, m \in T PROVE m + 1 \in T
  <2>1. PICK f \in [0..m -> S] : Orbit(f, g, a, m)
    BY <1>2
  <2> DEFINE h == [k \in 0..m + 1 |-> IF k = m + 1 THEN g[f[m]] ELSE f[k]]
  <2>2. h \in [0..m + 1 -> S]
    OBVIOUS
  <2>3. Orbit(h, g, a, m + 1)
    BY <2>1 DEF Orbit
  <2>4. QED BY <2>2, <2>3
<1>3. Nat \subseteq T
  <2> HIDE DEF T
  <2> QED BY <1>1, <1>2, SetInduction
<1>4. QED BY <1>3

\* ... and in one way only.
LEMMA OrbitUnique ==
  ASSUME NEW g, NEW a, NEW n \in Nat, NEW f, NEW h,
         Orbit(f, g, a, n), Orbit(h, g, a, n)
  PROVE  \A k \in 0..n : f[k] = h[k]
<1> DEFINE T == {k \in Nat : k <= n => f[k] = h[k]}
<1>1. 0 \in T
  BY DEF Orbit
<1>2. ASSUME NEW m \in Nat, m \in T PROVE m + 1 \in T
  BY <1>2 DEF Orbit
<1>3. Nat \subseteq T
  <2> HIDE DEF T
  <2> QED BY <1>1, <1>2, SetInduction
<1>4. QED BY <1>3

\* f solves the equation of such a recursive function.
Solves(f, g, a, n) == \A k \in 0..n : f[k] = IF k = 0 THEN a ELSE g[f[k - 1]]

\* The equation has a solution...
LEMMA SolutionExists ==
  ASSUME NEW S, NEW g, \A s \in S : g[s] \in S, NEW a \in S, NEW n \in Nat
  PROVE  \E f \in [0..n -> S] : Solves(f, g, a, n)
<1>1. PICK f \in [0..n -> S] : Orbit(f, g, a, n)
  BY OrbitExists
<1>2. ASSUME NEW k \in 0..n PROVE f[k] = IF k = 0 THEN a ELSE g[f[k - 1]]
  <2>1. CASE k = 0
    BY <2>1, <1>1 DEF Orbit
  <2>2. CASE k # 0
    <3>1. k - 1 \in 0..n - 1 /\ (k - 1) + 1 = k
      BY <2>2
    <3>2. QED BY <2>2, <3>1, <1>1 DEF Orbit
  <2>3. QED BY <2>1, <2>2
<1>3. QED BY <1>2 DEF Solves

\* ... which is the function that follows g from a.
LEMMA OrbitFunction ==
  ASSUME NEW S, NEW g, \A s \in S : g[s] \in S, NEW a \in S, NEW n \in Nat, NEW f,
         f = [k \in 0..n |-> f[k]], Solves(f, g, a, n)
  PROVE  f \in [0..n -> S] /\ Orbit(f, g, a, n)
<1>1. PICK h \in [0..n -> S] : Orbit(h, g, a, n)
  BY OrbitExists
<1>2. \A k \in 0..n : f[k] = IF k = 0 THEN a ELSE g[f[k - 1]]
  BY DEF Solves
<1>3. Orbit(f, g, a, n)
  <2>1. f[0] = a
    <3>1. 0 \in 0..n
      OBVIOUS
    <3>2. f[0] = IF 0 = 0 THEN a ELSE g[f[0 - 1]]
      BY ONLY <1>2, <3>1
    <3>3. QED BY <3>2
  <2>2. ASSUME NEW k \in 0..n - 1 PROVE f[k + 1] = g[f[k]]
    <3>1. k + 1 \in 0..n /\ (k + 1) - 1 = k /\ k + 1 # 0
      OBVIOUS
    <3>2. f[k + 1] = IF k + 1 = 0 THEN a ELSE g[f[(k + 1) - 1]]
      BY ONLY <1>2, <3>1
    <3>3. QED BY <3>1, <3>2
  <2>3. QED BY <2>1, <2>2 DEF Orbit
<1>4. \A k \in 0..n : f[k] = h[k]
  BY <1>1, <1>3, OrbitUnique
<1>5. QED BY <1>3, <1>4

\* A set of n elements has 2^n subsets; one more element doubles them.
LEMMA PowerOfTwo ==
  ASSUME NEW n \in Nat
  PROVE  2^n \in Nat /\ 2^(n + 1) = 2 * 2^n
<1> DEFINE A == 1..n
           B == 1..n + 1
           With == (SUBSET B) \ (SUBSET A)
           f == [X \in SUBSET A |-> X \cup {n + 1}]
<1>1. IsFiniteSet(A) /\ Cardinality(A) = n /\ IsFiniteSet(B) /\ Cardinality(B) = n + 1
  <2>1. 1 \in Int /\ n \in Int /\ n + 1 \in Int
    OBVIOUS
  <2>2. /\ IsFiniteSet(1..n) /\ Cardinality(1..n) = IF 1 > n THEN 0 ELSE n - 1 + 1
        /\ IsFiniteSet(1..n + 1) /\ Cardinality(1..n + 1) = IF 1 > n + 1 THEN 0 ELSE (n + 1) - 1 + 1
    BY ONLY <2>1, FS_Interval
  <2>3. QED BY <2>2
<1>2. n + 1 \notin A /\ B = A \cup {n + 1}
  OBVIOUS
<1>3. With = {X \cup {n + 1} : X \in SUBSET A}
  <2>1. ASSUME NEW Y \in With PROVE \E X \in SUBSET A : Y = X \cup {n + 1}
    <3>1. Y \ {n + 1} \in SUBSET A /\ Y = (Y \ {n + 1}) \cup {n + 1}
      BY <1>2
    <3>2. QED BY <3>1
  <2>2. ASSUME NEW X \in SUBSET A PROVE X \cup {n + 1} \in With
    BY <1>2
  <2> HIDE DEF With, A, B
  <2>3. QED BY <2>1, <2>2
<1> HIDE DEF A, B
<1>4. f \in Bijection(SUBSET A, With)
  <2>1. f \in [SUBSET A -> With]
    BY <1>3
  <2>2. ASSUME NEW X \in SUBSET A, NEW Y \in SUBSET A, f[X] = f[Y] PROVE X = Y
    <3>1. X \cup {n + 1} = Y \cup {n + 1} /\ n + 1 \notin X /\ n + 1 \notin Y
      BY <2>2, <1>2
    <3>2. X = (X \cup {n + 1}) \ {n + 1} /\ Y = (Y \cup {n + 1}) \ {n + 1}
      BY <3>1
    <3>3. QED BY <3>1, <3>2
  <2>3. ASSUME NEW Y \in With PROVE \E X \in SUBSET A : f[X] = Y
    BY <1>3
  <2> HIDE DEF f, With
  <2>4. QED BY <2>1, <2>2, <2>3 DEF Bijection, Injection, Surjection, IsInjective
<1>5. IsFiniteSet(SUBSET A) /\ Cardinality(SUBSET A) = 2^n /\ Cardinality(SUBSET B) = 2^(n + 1)
  BY <1>1, FS_SUBSET
<1>6. IsFiniteSet(With) /\ Cardinality(With) = 2^n
  <2>1. ExistsBijection(SUBSET A, With)
    BY <1>4 DEF ExistsBijection
  <2> HIDE DEF With
  <2>2. QED BY ONLY <2>1, <1>5, FS_Bijection
<1>7. SUBSET B = (SUBSET A) \cup With /\ (SUBSET A) \cap With = {}
  BY <1>2
<1>8. Cardinality(SUBSET B) = Cardinality(SUBSET A) + Cardinality(With) - Cardinality((SUBSET A) \cap With)
  <2> HIDE DEF With
  <2>1. QED BY ONLY <1>5, <1>6, <1>7, FS_Union
<1>9. Cardinality((SUBSET A) \cap With) = 0 /\ Cardinality(SUBSET A) \in Nat
  BY ONLY <1>5, <1>7, FS_EmptySet, FS_CardinalityType
<1>10. QED BY ONLY <1>5, <1>6, <1>8, <1>9
===============================================================================
