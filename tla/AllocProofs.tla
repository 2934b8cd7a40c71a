----------------------------- MODULE AllocProofs -----------------------------
(***************************************************************************)
(* Proofs about Alloc.  Every function of the allocator moves memory       *)
(* between four places: a list, the pool, a caller's hands, and "loose",   *)
(* on its way between two of them.  Lists(m, h) says that listed and held  *)
(* blocks are sound among themselves, Loose(m, h, a, n) that the n units   *)
(* at a are apart from all of them; the pool is always loose.              *)
(***************************************************************************)
EXTENDS Alloc, FiniteSetTheorems, TLAPS

\* The n units at a lie in one chunk of the pool's, not in a large block.
Home(m, h, a, n) ==
    \/ a = 0 /\ n = 0
    \/ \E d \in m.chunks :
          /\ d.at <= a /\ a + n <= d.at + d.size
          /\ \A b \in h : b.bytes > MAX_BYTES => b.at # d.at

ChunksApart(m) ==
    \A c, d \in m.chunks : c # d => Apart(c.at, c.size, d.at, d.size)

FreeHome(m, h) ==
    \A c \in Classes : \A i \in 1 .. Len(m.free_list[c]) : Home(m, h, m.free_list[c][i], c + 1)

HeldHome(m, h) ==
    \A b \in h : IF b.bytes > MAX_BYTES THEN [at |-> b.at, size |-> Units(b.bytes)] \in m.chunks
                 ELSE Home(m, h, b.at, Units(b.bytes))

Lists(m, h) ==
    /\ m \in Members /\ h \subseteq Block
    /\ ChunksApart(m)
    /\ FreeApart(m) /\ FreeApartFromHeld(m, h) /\ HeldApart(h)
    /\ FreeHome(m, h) /\ HeldHome(m, h)

Loose(m, h, a, n) ==
    /\ \A c \in Classes : \A i \in 1 .. Len(m.free_list[c]) : Apart(m.free_list[c][i], c + 1, a, n)
    /\ \A b \in h : Apart(b.at, Units(b.bytes), a, n)
    /\ Home(m, h, a, n)

Pool(m, h) == m.start_free <= m.end_free /\ Loose(m, h, m.start_free, BytesLeft(m))

-----------------------------------------------------------------------------
(* Sizes.                                                                  *)

LEMMA MaxBytesNat == MAX_BYTES \in Nat
  BY SizesAssumption DEF MAX_BYTES, ALIGN

LEMMA UnitsFacts ==
    ASSUME NEW bytes \in Request
    PROVE  /\ Units(bytes) \in Nat \ {0}
           /\ bytes <= MAX_BYTES => FREELIST_INDEX(bytes) \in Classes
           /\ bytes <= MAX_BYTES <=> Units(bytes) <= NFREELISTS
  BY SizesAssumption, RequestAssumption DEF Units, FREELIST_INDEX, Classes, MAX_BYTES, ALIGN

LEMMA BytesToGetFacts ==
    ASSUME NEW m \in Members, NEW size \in Nat \ {0}
    PROVE  BytesToGet(m, size) \in Nat \ {0} /\ BytesToGet(m, size) >= size
  <1>1. size * NOBJS \in Nat /\ size * NOBJS >= size
    BY SizesAssumption
  <1>2. Units((ALIGN * m.heap_size) \div 16) \in Nat
    BY DEF Members, Units, ALIGN
  <1>3. 2 * size * NOBJS = 2 * (size * NOBJS)
    BY SizesAssumption
  <1> QED  BY <1>1, <1>2, <1>3 DEF BytesToGet

LEMMA Product ==
    ASSUME NEW i \in Nat, NEW n \in Nat
    PROVE  i * n \in Nat /\ 0 * n = 0
  BY SMT

\* Blocks cut one after the other do not overlap.
LEMMA Steps ==
    ASSUME NEW i \in Nat, NEW j \in Nat, NEW n \in Nat, i < j
    PROVE  i * n + n <= j * n /\ i * n \in Nat
  <1>1. (j - i - 1) * n >= 0
    BY SMT
  <1>2. (j - i - 1) * n = j * n - i * n - n
    BY SMT
  <1> QED  BY <1>1, <1>2, SMT

-----------------------------------------------------------------------------
(* A block leaves a list, joins a list, is handed out, comes back.         *)

\* Home depends on the chunks only.
LEMMA HomeFrame ==
    ASSUME NEW m, NEW p, p.chunks = m.chunks, NEW h, NEW a, NEW n
    PROVE  Home(p, h, a, n) <=> Home(m, h, a, n)
  BY DEF Home

\* The blocks of a list after one is taken from or put at its front.
LEMMA PopFacts ==
    ASSUME NEW m \in Members, NEW c \in Classes, m.free_list[c] # <<>>
    PROVE  /\ PopFree(m, c) \in Members
           /\ PopFree(m, c).start_free = m.start_free /\ PopFree(m, c).end_free = m.end_free
           /\ PopFree(m, c).heap_size = m.heap_size /\ PopFree(m, c).chunks = m.chunks
           /\ Head(m.free_list[c]) = m.free_list[c][1] /\ 1 \in 1 .. Len(m.free_list[c])
           /\ \A d \in Classes : \A i \in 1 .. Len(PopFree(m, c).free_list[d]) :
                 LET j == IF d = c THEN i + 1 ELSE i
                 IN  /\ j \in 1 .. Len(m.free_list[d])
                     /\ PopFree(m, c).free_list[d][i] = m.free_list[d][j]
  <1> DEFINE l == m.free_list
             k == [l EXCEPT ![c] = Tail(l[c])]
  <1>1. l \in [Classes -> Seq(Address)]
    BY DEF Members
  <1>2. /\ Tail(l[c]) \in Seq(Address) /\ Len(l[c]) \in Nat \ {0}
        /\ Head(l[c]) = l[c][1] /\ Len(Tail(l[c])) = Len(l[c]) - 1
        /\ \A i \in 1 .. Len(Tail(l[c])) : Tail(l[c])[i] = l[c][i + 1]
    BY <1>1
  <1>3. /\ k \in [Classes -> Seq(Address)] /\ k[c] = Tail(l[c])
        /\ \A d \in Classes \ {c} : k[d] = l[d]
    BY <1>1, <1>2
  <1>4. PopFree(m, c) = [m EXCEPT !.free_list = k]
    BY <1>1 DEF PopFree, Members
  <1>5. /\ PopFree(m, c) \in Members /\ PopFree(m, c).free_list = k
        /\ PopFree(m, c).start_free = m.start_free /\ PopFree(m, c).end_free = m.end_free
        /\ PopFree(m, c).heap_size = m.heap_size /\ PopFree(m, c).chunks = m.chunks
    <2> HIDE DEF k
    <2> QED  BY <1>3, <1>4 DEF Members
  <1> HIDE DEF k
  <1> QED  BY <1>1, <1>2, <1>3, <1>5

LEMMA PushFacts ==
    ASSUME NEW m \in Members, NEW c \in Classes, NEW a \in Address
    PROVE  /\ PushFree(m, c, a) \in Members
           /\ PushFree(m, c, a).start_free = m.start_free
           /\ PushFree(m, c, a).end_free = m.end_free
           /\ PushFree(m, c, a).heap_size = m.heap_size
           /\ PushFree(m, c, a).chunks = m.chunks
           /\ \A d \in Classes : \A i \in 1 .. Len(PushFree(m, c, a).free_list[d]) :
                 LET j == IF d = c THEN i - 1 ELSE i
                 IN  \/ d = c /\ i = 1 /\ PushFree(m, c, a).free_list[d][i] = a
                     \/ /\ j \in 1 .. Len(m.free_list[d])
                        /\ PushFree(m, c, a).free_list[d][i] = m.free_list[d][j]
  <1> DEFINE l == m.free_list
             s == <<a>> \o l[c]
             k == [l EXCEPT ![c] = s]
  <1>1. l \in [Classes -> Seq(Address)]
    BY DEF Members
  <1>2. /\ s \in Seq(Address) /\ Len(s) = Len(l[c]) + 1 /\ Len(l[c]) \in Nat
        /\ s[1] = a /\ \A i \in 2 .. Len(s) : s[i] = l[c][i - 1]
    BY <1>1
  <1> HIDE DEF s
  <1>3. /\ k \in [Classes -> Seq(Address)] /\ k[c] = s
        /\ \A d \in Classes \ {c} : k[d] = l[d]
    BY <1>1, <1>2
  <1>4. PushFree(m, c, a) = [m EXCEPT !.free_list = k]
    BY <1>1 DEF PushFree, Members, s
  <1> HIDE DEF k
  <1>5. /\ PushFree(m, c, a) \in Members /\ PushFree(m, c, a).free_list = k
        /\ PushFree(m, c, a).start_free = m.start_free
        /\ PushFree(m, c, a).end_free = m.end_free
        /\ PushFree(m, c, a).heap_size = m.heap_size /\ PushFree(m, c, a).chunks = m.chunks
    BY <1>3, <1>4 DEF Members
  <1> QED  BY <1>1, <1>2, <1>3, <1>5

LEMMA PopSound ==
    ASSUME NEW m, NEW h, Lists(m, h), NEW c \in Classes, m.free_list[c] # <<>>
    PROVE  /\ Lists(PopFree(m, c), h)
           /\ Loose(PopFree(m, c), h, Head(m.free_list[c]), c + 1)
           /\ Head(m.free_list[c]) \in Address
           /\ \A a, n : Loose(m, h, a, n) =>
                 Loose(PopFree(m, c), h, a, n) /\ Apart(Head(m.free_list[c]), c + 1, a, n)
  <1> DEFINE p == PopFree(m, c)
  <1>1. m \in Members /\ p \in Members
    BY PopFacts DEF Lists
  <1>2. \A d \in Classes : \A i \in 1 .. Len(p.free_list[d]) :
          LET j == IF d = c THEN i + 1 ELSE i
          IN  /\ j \in 1 .. Len(m.free_list[d])
              /\ p.free_list[d][i] = m.free_list[d][j]
    BY <1>1, PopFacts
  <1>3. /\ p.chunks = m.chunks
        /\ Head(m.free_list[c]) = m.free_list[c][1] /\ 1 \in 1 .. Len(m.free_list[c])
    BY <1>1, PopFacts
  <1> HIDE DEF p
  <1>4. Head(m.free_list[c]) \in Address
    BY <1>1, <1>3 DEF Members
  <1>5. \A a, n : Home(p, h, a, n) <=> Home(m, h, a, n)
    BY <1>3, HomeFrame
  <1>6. Lists(p, h)
    <2>1. ASSUME NEW d \in Classes, NEW e \in Classes, NEW i \in 1 .. Len(p.free_list[d]),
                 NEW j \in 1 .. Len(p.free_list[e]), <<d, i>> # <<e, j>>
          PROVE  Apart(p.free_list[d][i], d + 1, p.free_list[e][j], e + 1)
      <3>1. PICK k \in 1 .. Len(m.free_list[d]) :
               p.free_list[d][i] = m.free_list[d][k] /\ k = IF d = c THEN i + 1 ELSE i
        BY <1>2
      <3>2. PICK l \in 1 .. Len(m.free_list[e]) :
               p.free_list[e][j] = m.free_list[e][l] /\ l = IF e = c THEN j + 1 ELSE j
        BY <1>2
      <3>3. <<d, k>> # <<e, l>>
        BY <2>1, <3>1, <3>2
      <3> QED  BY <3>1, <3>2, <3>3 DEF Lists, FreeApart
    <2>2. FreeApartFromHeld(p, h)
      BY <1>2 DEF Lists, FreeApartFromHeld
    <2>3. ASSUME NEW d \in Classes, NEW i \in 1 .. Len(p.free_list[d])
          PROVE  Home(p, h, p.free_list[d][i], d + 1)
      <3>1. PICK j \in 1 .. Len(m.free_list[d]) : p.free_list[d][i] = m.free_list[d][j]
        BY <1>2
      <3> QED  BY <1>5, <3>1 DEF Lists, FreeHome
    <2>4. HeldHome(p, h)
      BY <1>3, <1>5 DEF Lists, HeldHome
    <2>5. ChunksApart(p)
      BY <1>3 DEF Lists, ChunksApart
    <2> QED  BY <1>1, <2>1, <2>2, <2>3, <2>4, <2>5 DEF Lists, FreeHome, FreeApart
  <1>7. Loose(p, h, Head(m.free_list[c]), c + 1)
    <2>1. \A d \in Classes : \A i \in 1 .. Len(p.free_list[d]) :
             Apart(p.free_list[d][i], d + 1, m.free_list[c][1], c + 1)
      <3> SUFFICES ASSUME NEW d \in Classes, NEW i \in 1 .. Len(p.free_list[d])
                   PROVE  Apart(p.free_list[d][i], d + 1, m.free_list[c][1], c + 1)
        OBVIOUS
      <3> DEFINE j == IF d = c THEN i + 1 ELSE i
      <3>1. j \in 1 .. Len(m.free_list[d]) /\ p.free_list[d][i] = m.free_list[d][j]
        BY <1>2
      <3>2. <<d, j>> # <<c, 1>>
        OBVIOUS
      <3> HIDE DEF j
      <3> QED  BY <1>3, <3>1, <3>2 DEF Lists, FreeApart
    <2>2. \A b \in h : Apart(b.at, Units(b.bytes), m.free_list[c][1], c + 1)
      BY <1>3 DEF Lists, FreeApartFromHeld, Apart
    <2>3. Home(p, h, m.free_list[c][1], c + 1)
      BY <1>3, <1>5 DEF Lists, FreeHome
    <2> QED  BY <1>3, <2>1, <2>2, <2>3 DEF Loose
  <1>8. \A a, n : Loose(m, h, a, n) => Loose(p, h, a, n) /\ Apart(Head(m.free_list[c]), c + 1, a, n)
    BY <1>2, <1>3, <1>5 DEF Loose
  <1> QED  BY <1>4, <1>6, <1>7, <1>8 DEF p

LEMMA PushSound ==
    ASSUME NEW m, NEW h, Lists(m, h), NEW c \in Classes, NEW a \in Address,
           Loose(m, h, a, c + 1)
    PROVE  /\ Lists(PushFree(m, c, a), h)
           /\ \A b, n : Loose(m, h, b, n) /\ Apart(a, c + 1, b, n) =>
                 Loose(PushFree(m, c, a), h, b, n)
  <1> DEFINE p == PushFree(m, c, a)
  <1>1. m \in Members /\ p \in Members
    BY PushFacts DEF Lists
  <1>2. \A d \in Classes : \A i \in 1 .. Len(p.free_list[d]) :
          LET j == IF d = c THEN i - 1 ELSE i
          IN  \/ d = c /\ i = 1 /\ p.free_list[d][i] = a
              \/ /\ j \in 1 .. Len(m.free_list[d])
                 /\ p.free_list[d][i] = m.free_list[d][j]
    BY <1>1, PushFacts
  <1>3. p.chunks = m.chunks
    BY <1>1, PushFacts
  <1> HIDE DEF p
  <1>4. \A b, n : Home(p, h, b, n) <=> Home(m, h, b, n)
    BY <1>3, HomeFrame
  <1>5. Lists(p, h)
    <2>1. ASSUME NEW d \in Classes, NEW e \in Classes, NEW i \in 1 .. Len(p.free_list[d]),
                 NEW j \in 1 .. Len(p.free_list[e]), <<d, i>> # <<e, j>>
          PROVE  Apart(p.free_list[d][i], d + 1, p.free_list[e][j], e + 1)
      <3>1. \/ d = c /\ i = 1 /\ p.free_list[d][i] = a
            \/ \E k \in 1 .. Len(m.free_list[d]) :
                 p.free_list[d][i] = m.free_list[d][k] /\ k = IF d = c THEN i - 1 ELSE i
        BY <1>2
      <3>2. \/ e = c /\ j = 1 /\ p.free_list[e][j] = a
            \/ \E l \in 1 .. Len(m.free_list[e]) :
                 p.free_list[e][j] = m.free_list[e][l] /\ l = IF e = c THEN j - 1 ELSE j
        BY <1>2
      <3>3. CASE d = c /\ i = 1 /\ p.free_list[d][i] = a
        BY <2>1, <3>2, <3>3 DEF Loose, Apart
      <3>4. CASE e = c /\ j = 1 /\ p.free_list[e][j] = a
        BY <2>1, <3>1, <3>4 DEF Loose, Apart
      <3>5. ASSUME NEW k \in 1 .. Len(m.free_list[d]), NEW l \in 1 .. Len(m.free_list[e]),
                   p.free_list[d][i] = m.free_list[d][k], k = IF d = c THEN i - 1 ELSE i,
                   p.free_list[e][j] = m.free_list[e][l], l = IF e = c THEN j - 1 ELSE j
            PROVE  Apart(p.free_list[d][i], d + 1, p.free_list[e][j], e + 1)
        <4>1. <<d, k>> # <<e, l>>
          BY <2>1, <3>5
        <4> QED  BY <3>5, <4>1 DEF Lists, FreeApart
      <3> QED  BY <3>1, <3>2, <3>3, <3>4, <3>5
    <2>2. FreeApartFromHeld(p, h)
      BY <1>2 DEF Lists, FreeApartFromHeld, Loose, Apart
    <2>3. ASSUME NEW d \in Classes, NEW i \in 1 .. Len(p.free_list[d])
          PROVE  Home(p, h, p.free_list[d][i], d + 1)
      <3>1. CASE d = c /\ p.free_list[d][i] = a
        BY <1>4, <3>1 DEF Loose
      <3>2. CASE \E j \in 1 .. Len(m.free_list[d]) : p.free_list[d][i] = m.free_list[d][j]
        BY <1>4, <3>2 DEF Lists, FreeHome
      <3> QED  BY <1>2, <3>1, <3>2
    <2>4. HeldHome(p, h)
      BY <1>3, <1>4 DEF Lists, HeldHome
    <2>5. ChunksApart(p)
      BY <1>3 DEF Lists, ChunksApart
    <2> QED  BY <1>1, <2>1, <2>2, <2>3, <2>4, <2>5 DEF Lists, FreeHome, FreeApart
  <1>6. \A b, n : Loose(m, h, b, n) /\ Apart(a, c + 1, b, n) => Loose(p, h, b, n)
    BY <1>2, <1>4 DEF Loose
  <1> QED  BY <1>5, <1>6 DEF p

\* A part of a loose range is loose.
LEMMA PartLoose ==
    ASSUME NEW m \in Members, NEW h, h \subseteq Block, NEW a \in Nat, NEW n \in Nat \ {0},
           Loose(m, h, a, n), NEW b \in Nat, NEW k \in Nat, a <= b, b + k <= a + n
    PROVE  Loose(m, h, b, k) /\ a # 0
  <1>1. \A c \in Classes : \A i \in 1 .. Len(m.free_list[c]) :
           c \in Nat /\ m.free_list[c][i] \in Nat
    BY SizesAssumption DEF Members, Address, Classes
  <1>2. \A x \in h : x.at \in Nat /\ Units(x.bytes) \in Nat
    BY UnitsFacts DEF Block, Address
  <1>3. Home(m, h, b, k) /\ a # 0
    <2>1. PICK d \in m.chunks : /\ d.at <= a /\ a + n <= d.at + d.size
                                /\ \A x \in h : x.bytes > MAX_BYTES => x.at # d.at
      BY DEF Loose, Home
    <2>2. d.at \in Nat \ {0} /\ d.size \in Nat
      BY DEF Members, Chunk, Address
    <2>3. d.at <= b /\ b + k <= d.at + d.size /\ a # 0
      BY <2>1, <2>2
    <2> QED  BY <2>1, <2>3 DEF Home
  <1> QED  BY <1>1, <1>2, <1>3 DEF Loose, Apart

-----------------------------------------------------------------------------
(* Blocks in callers' hands.                                               *)

LEMMA HandOut ==
    ASSUME NEW m, NEW h, Lists(m, h), NEW b \in Block, b.bytes <= MAX_BYTES,
           Loose(m, h, b.at, Units(b.bytes))
    PROVE  /\ Lists(m, h \union {b})
           /\ \A a, n : Loose(m, h, a, n) /\ Apart(b.at, Units(b.bytes), a, n) =>
                 Loose(m, h \union {b}, a, n)
  <1> DEFINE g == h \union {b}
  <1>0. \A x \in g : x.bytes \in Nat /\ x.at \in Nat /\ Units(x.bytes) \in Nat
    BY UnitsFacts, RequestAssumption DEF Block, Lists, Address
  <1>1. ~ b.bytes > MAX_BYTES
    BY <1>0, SizesAssumption DEF MAX_BYTES, ALIGN
  <1>2. \A a, n : Home(m, h, a, n) => Home(m, g, a, n)
    BY <1>1 DEF Home
  <1>3. g \subseteq Block
    BY DEF Lists
  <1>4. FreeApartFromHeld(m, g)
    BY DEF Lists, Loose, FreeApartFromHeld
  <1>5. HeldApart(g)
    BY <1>0 DEF Lists, Loose, HeldApart, Apart
  <1>6. FreeHome(m, g)
    BY <1>2 DEF Lists, FreeHome
  <1>7. HeldHome(m, g)
    BY <1>1, <1>2 DEF Lists, HeldHome, Loose
  <1>8. \A a, n : Loose(m, h, a, n) /\ Apart(b.at, Units(b.bytes), a, n) => Loose(m, g, a, n)
    BY <1>2 DEF Loose
  <1> QED  BY <1>3, <1>4, <1>5, <1>6, <1>7, <1>8 DEF Lists

LEMMA TakeBack ==
    ASSUME NEW m, NEW h, Lists(m, h), NEW b \in h
    PROVE  /\ Lists(m, h \ {b})
           /\ \A a, n : Loose(m, h, a, n) => /\ Loose(m, h \ {b}, a, n)
                                             /\ Apart(b.at, Units(b.bytes), a, n)
           /\ b.bytes <= MAX_BYTES => Loose(m, h \ {b}, b.at, Units(b.bytes))
  <1> DEFINE g == h \ {b}
  <1>a. b \in Block
    BY DEF Lists
  <1>b. b.bytes \in Nat
    BY <1>a, RequestAssumption DEF Block
  <1>c. MAX_BYTES \in Nat
    BY MaxBytesNat
  <1>1. \A a, n : Home(m, h, a, n) => Home(m, g, a, n)
    BY DEF Home
  <1>2. FreeApartFromHeld(m, g) /\ HeldApart(g) /\ g \subseteq Block
    BY DEF Lists, FreeApartFromHeld, HeldApart
  <1>3. FreeHome(m, g)
    BY <1>1 DEF Lists, FreeHome
  <1>4. HeldHome(m, g)
    BY <1>1 DEF Lists, HeldHome
  <1>5. \A a, n : Loose(m, h, a, n) => Loose(m, g, a, n) /\ Apart(b.at, Units(b.bytes), a, n)
    BY <1>1 DEF Loose
  <1>6. ASSUME b.bytes <= MAX_BYTES
        PROVE  Loose(m, g, b.at, Units(b.bytes))
    <2>0. ~ b.bytes > MAX_BYTES
      BY <1>b, <1>c, <1>6
    <2>1. Home(m, h, b.at, Units(b.bytes))
      BY <2>0 DEF Lists, HeldHome
    <2>2. \A x \in g : Apart(x.at, Units(x.bytes), b.at, Units(b.bytes))
      BY DEF Lists, HeldApart
    <2> QED  BY <1>1, <2>1, <2>2 DEF Lists, FreeApartFromHeld, Loose
  <1> QED  BY <1>2, <1>3, <1>4, <1>5, <1>6 DEF Lists

-----------------------------------------------------------------------------
(* Memory from malloc and back.                                            *)

\* A range apart from all chunks is apart from all that is in them.
LEMMA OutsideChunks ==
    ASSUME NEW m, NEW h, Lists(m, h), NEW a \in Nat, NEW n \in Nat \ {0},
           \A c \in m.chunks : Apart(a, n, c.at, c.size),
           NEW b \in Nat, NEW k \in Nat, Home(m, h, b, k)
    PROVE  Apart(b, k, a, n)
  <1>1. \A d \in m.chunks : d.at \in Nat \ {0} /\ d.size \in Nat \ {0}
    BY DEF Lists, Members, Chunk, Address
  <1> QED  BY <1>1 DEF Home, Apart

LEMMA OutsideLoose ==
    ASSUME NEW m, NEW h, Lists(m, h), NEW a \in Nat, NEW n \in Nat \ {0},
           \A c \in m.chunks : Apart(a, n, c.at, c.size)
    PROVE  /\ \A c \in Classes : \A i \in 1 .. Len(m.free_list[c]) :
                 Apart(m.free_list[c][i], c + 1, a, n)
           /\ \A b \in h : Apart(b.at, Units(b.bytes), a, n)
  <1>1. ASSUME NEW c \in Classes, NEW i \in 1 .. Len(m.free_list[c])
        PROVE  Apart(m.free_list[c][i], c + 1, a, n)
    <2>1. c + 1 \in Nat /\ m.free_list[c][i] \in Nat
      BY SizesAssumption DEF Lists, Members, Address, Classes
    <2>2. Home(m, h, m.free_list[c][i], c + 1)
      BY DEF Lists, FreeHome
    <2> QED  BY <2>1, <2>2, OutsideChunks
  <1>2. ASSUME NEW b \in h
        PROVE  Apart(b.at, Units(b.bytes), a, n)
    <2>1. b \in Block
      BY DEF Lists
    <2>2. b.at \in Nat /\ Units(b.bytes) \in Nat
      BY <2>1, UnitsFacts DEF Block, Address
    <2>3. CASE b.bytes > MAX_BYTES
      <3>1. [at |-> b.at, size |-> Units(b.bytes)] \in m.chunks
        BY <2>3 DEF Lists, HeldHome
      <3> QED  BY <2>2, <3>1 DEF Apart
    <2>4. CASE ~ b.bytes > MAX_BYTES
      <3>1. Home(m, h, b.at, Units(b.bytes))
        BY <2>4 DEF Lists, HeldHome
      <3> QED  BY <2>2, <3>1, OutsideChunks
    <2> QED  BY <2>3, <2>4
  <1> QED  BY <1>1, <1>2

\* The members p are m's, and the chunk of n units at a that malloc gave.
LEMMA GrownSound ==
    ASSUME NEW m, NEW h, Lists(m, h), NEW a \in Address, NEW n \in Nat \ {0},
           \A c \in m.chunks : Apart(a, n, c.at, c.size),
           NEW p \in Members, p.free_list = m.free_list,
           p.chunks = m.chunks \union {[at |-> a, size |-> n]}
    PROVE  /\ Lists(p, h)
           /\ Loose(p, h, a, n)
           /\ \A b, k : Loose(m, h, b, k) => Loose(p, h, b, k)
  <1>1. \A d \in m.chunks : d.at \in Nat \ {0} /\ d.size \in Nat \ {0}
    BY DEF Lists, Members, Chunk, Address
  <1>2. \A b, k : Home(m, h, b, k) => Home(p, h, b, k)
    BY DEF Home
  <1>3. ChunksApart(p)
    BY <1>1 DEF Lists, ChunksApart, Apart, Address
  <1>4. FreeApart(p) /\ FreeApartFromHeld(p, h)
    BY DEF Lists, FreeApart, FreeApartFromHeld
  <1>5. FreeHome(p, h)
    BY <1>2 DEF Lists, FreeHome
  <1>6. HeldHome(p, h)
    BY <1>2 DEF Lists, HeldHome
  <1>7. Lists(p, h)
    BY <1>3, <1>4, <1>5, <1>6 DEF Lists
  <1>8. Home(p, h, a, n)
    <2>1. ASSUME NEW b \in h, b.bytes > MAX_BYTES
          PROVE  b.at # a
      <3>1. Apart(b.at, Units(b.bytes), a, n)
        BY OutsideLoose DEF Address
      <3>2. b \in Block
        BY DEF Lists
      <3> QED  BY <3>1, <3>2, UnitsFacts DEF Block, Address, Apart
    <2>2. PICK d \in p.chunks : d = [at |-> a, size |-> n]
      OBVIOUS
    <2>3. d.at = a /\ d.at <= a /\ a + n <= d.at + d.size
      BY <2>2 DEF Address
    <2>4. \A b \in h : b.bytes > MAX_BYTES => b.at # d.at
      BY <2>1, <2>3
    <2> QED  BY <2>3, <2>4 DEF Home
  <1>9. Loose(p, h, a, n)
    BY <1>8, OutsideLoose DEF Loose, Address
  <1>10. \A b, k : Loose(m, h, b, k) => Loose(p, h, b, k)
    BY <1>2 DEF Loose
  <1> QED  BY <1>7, <1>9, <1>10

\* The bounds of the pool and heap_size are nothing to lists and chunks.
LEMMA PoolFrame ==
    ASSUME NEW m, NEW h, Lists(m, h), NEW p \in Members,
           p.free_list = m.free_list, p.chunks = m.chunks
    PROVE  Lists(p, h) /\ \A a, n : Loose(m, h, a, n) => Loose(p, h, a, n)
  <1>1. \A a, n : Home(p, h, a, n) <=> Home(m, h, a, n)
    BY HomeFrame
  <1>2. FreeApart(p) /\ FreeApartFromHeld(p, h) /\ ChunksApart(p)
    BY DEF Lists, FreeApart, FreeApartFromHeld, ChunksApart
  <1>3. FreeHome(p, h)
    BY <1>1 DEF Lists, FreeHome
  <1>4. HeldHome(p, h)
    BY <1>1 DEF Lists, HeldHome
  <1>5. \A a, n : Loose(m, h, a, n) => Loose(p, h, a, n)
    BY <1>1 DEF Loose
  <1> QED  BY <1>2, <1>3, <1>4, <1>5 DEF Lists

\* What is left of the pool becomes a block of its size.
LEMMA ResidueSound ==
    ASSUME NEW m, NEW h, Lists(m, h), Pool(m, h),
           NEW size \in 1 .. NFREELISTS, BytesLeft(m) < size
    PROVE  Lists(KeepResidue(m), h)
  <1>1. m \in Members /\ m.start_free \in Nat /\ BytesLeft(m) \in Nat
    BY DEF Lists, Members, Pool, BytesLeft
  <1>2. CASE BytesLeft(m) > 0
    <2> DEFINE c == BytesLeft(m) - 1
    <2>1. c \in Classes /\ c + 1 = BytesLeft(m)
      BY <1>1, <1>2, SizesAssumption DEF Classes
    <2>2. m.start_free # 0
      BY <1>1, <1>2, PartLoose DEF Pool, Lists
    <2>3. Loose(m, h, m.start_free, c + 1)
      BY <2>1 DEF Pool
    <2>4. KeepResidue(m) = PushFree(m, c, m.start_free)
      BY <1>2 DEF KeepResidue
    <2> HIDE DEF c
    <2> QED  BY <1>1, <2>1, <2>2, <2>3, <2>4, PushSound DEF Address
  <1>3. CASE ~ BytesLeft(m) > 0
    BY <1>3 DEF KeepResidue
  <1> QED  BY <1>2, <1>3

\* A pool that can serve at least one block, wherever it comes from.
LEMMA ChunkSound ==
    ASSUME NEW m, NEW h, Lists(m, h), Pool(m, h),
           NEW size \in 1 .. NFREELISTS, NEW q \in chunk_alloc(m, size)
    PROVE  Lists(q, h) /\ Pool(q, h) /\ BytesLeft(q) >= size
  <1>1. CASE BytesLeft(m) >= size
    BY <1>1 DEF chunk_alloc
  <1>2. CASE ~ BytesLeft(m) >= size
    <2> DEFINE r == KeepResidue(m)
    <2>1. Lists(r, h) /\ r \in Members
      <3>0. m.start_free \in Nat /\ m.end_free \in Nat
        BY DEF Lists, Members
      <3>1. BytesLeft(m) < size
        BY <1>2, <3>0, SizesAssumption DEF BytesLeft
      <3> QED  BY <3>1, ResidueSound DEF Lists
    <2> HIDE DEF r
    <2>2. CASE q \in PoolsFromHeap(r, size)
      <3> DEFINE n == BytesToGet(r, size)
      <3>1. n \in Nat \ {0} /\ n >= size
        BY <2>1, BytesToGetFacts, SizesAssumption
      <3> HIDE DEF n
      <3>2. PICK a \in MallocBases(r, n) :
               q = [r EXCEPT !.start_free = a, !.end_free = a + n, !.heap_size = @ + n,
                             !.chunks = @ \union {[at |-> a, size |-> n]}]
        BY <2>2 DEF PoolsFromHeap, n
      <3>3. a \in Address /\ \A c \in r.chunks : Apart(a, n, c.at, c.size)
        BY BasesAssumption DEF MallocBases, Address
      <3> DEFINE new == [at |-> a, size |-> n]
      <3>a. new \in Chunk
        BY <3>1, <3>3 DEF Chunk
      <3> HIDE DEF new
      <3>b. q = [r EXCEPT !.start_free = a, !.end_free = a + n, !.heap_size = r.heap_size + n,
                          !.chunks = r.chunks \union {new}]
        BY <3>2 DEF new
      <3>c. r.heap_size + n \in Nat /\ a \in Nat /\ a + n \in Nat
            /\ r.chunks \union {new} \in SUBSET Chunk
        BY <2>1, <3>1, <3>3, <3>a DEF Members, Address
      <3>4. /\ q \in Members /\ q.free_list = r.free_list
            /\ q.start_free = a /\ q.end_free = a + n
            /\ q.chunks = r.chunks \union {new}
        BY <2>1, <3>b, <3>c DEF Members
      <3>5. Lists(q, h) /\ Loose(q, h, a, n)
        BY <2>1, <3>1, <3>3, <3>4, GrownSound DEF new
      <3>6. BytesLeft(q) = n /\ q.start_free <= q.end_free
        BY <3>1, <3>3, <3>4 DEF BytesLeft, Address
      <3> QED  BY <3>1, <3>4, <3>5, <3>6 DEF Pool
    <2>3. CASE q \in PoolsFromLists(r, size)
      <3>1. PICK c \in Classes :
               /\ c >= size - 1 /\ r.free_list[c] # <<>>
               /\ q = [PopFree(r, c) EXCEPT !.start_free = Head(r.free_list[c]),
                                            !.end_free = Head(r.free_list[c]) + c + 1]
        BY <2>3 DEF PoolsFromLists
      <3> DEFINE a == Head(r.free_list[c])
                 p == PopFree(r, c)
      <3>2. Lists(p, h) /\ Loose(p, h, a, c + 1) /\ a \in Address /\ p \in Members
        BY <2>1, <3>1, PopSound DEF Lists
      <3> HIDE DEF a, p
      <3>3. q = [p EXCEPT !.start_free = a, !.end_free = a + c + 1] /\ c \in Nat
        BY <3>1, SizesAssumption DEF a, p, Classes
      <3>a. a \in Nat /\ a + c + 1 \in Nat
        BY <3>2, <3>3 DEF Address
      <3>4. /\ q \in Members /\ q.free_list = p.free_list /\ q.chunks = p.chunks
            /\ q.start_free = a /\ q.end_free = a + c + 1
        BY <3>2, <3>3, <3>a DEF Members
      <3>5. Lists(q, h) /\ Loose(q, h, a, c + 1)
        BY <3>2, <3>4, PoolFrame
      <3>6. BytesLeft(q) = c + 1 /\ q.start_free <= q.end_free /\ c + 1 >= size
        BY <3>1, <3>2, <3>3, <3>4 DEF BytesLeft, Address
      <3> QED  BY <3>4, <3>5, <3>6 DEF Pool
    <2> QED  BY <1>2, <2>2, <2>3 DEF chunk_alloc, r
  <1> QED  BY <1>1, <1>2

-----------------------------------------------------------------------------
(* The pool is cut into blocks.                                            *)

LEMMA CutSound ==
    ASSUME NEW p, NEW h, Lists(p, h), Pool(p, h),
           NEW size \in 1 .. NFREELISTS, BytesLeft(p) >= size,
           NEW k \in ObjectsIn(p, size), NEW r, r = Cut(p, size, k)
    PROVE  /\ Lists(r, h) /\ Pool(r, h)
           /\ Loose(r, h, p.start_free, size) /\ p.start_free \in Address
           /\ Apart(p.start_free, size, r.start_free, BytesLeft(r))
  <1> DEFINE s == p.start_free
             n == BytesLeft(p)
             c == size - 1
             cut(i) == s + i * size
             l == p.free_list
             new == IF k = 1 THEN l[c] ELSE [i \in 1 .. k - 1 |-> cut(i)]
  <1>1. /\ p \in Members /\ s \in Nat /\ p.end_free \in Nat /\ n = p.end_free - s
        /\ l \in [Classes -> Seq(Address)] /\ h \subseteq Block
    BY DEF Lists, Members, BytesLeft
  <1>2. size \in Nat \ {0} /\ c \in Classes /\ c + 1 = size
    BY SizesAssumption DEF Classes
  <1>3. n \in Nat \ {0}
    BY <1>1, <1>2 DEF Pool
  <1>4. k \in Nat \ {0} /\ k * size <= n
    BY SizesAssumption DEF ObjectsIn
  <1>4a. k \in Nat /\ k - 1 \in Nat /\ k \in 0 .. k /\ 0 \in 0 .. k
    BY <1>4
  <1>5. Loose(p, h, s, n)
    BY DEF Pool
  <1> HIDE DEF n
  <1>6. \A i \in 0 .. k : cut(i) \in Nat /\ s <= cut(i) /\ cut(0) = s
    <2> SUFFICES ASSUME NEW i \in 0 .. k
                 PROVE  cut(i) \in Nat /\ s <= cut(i) /\ cut(0) = s
      OBVIOUS
    <2>1. i * size \in Nat /\ 0 * size = 0
      BY <1>2, Product
    <2> QED  BY <1>1, <2>1
  <1>7. \A i, j \in 0 .. k : i < j => cut(i) + size <= cut(j)
    <2> SUFFICES ASSUME NEW i \in 0 .. k, NEW j \in 0 .. k, i < j
                 PROVE  cut(i) + size <= cut(j)
      OBVIOUS
    <2>1. i * size + size <= j * size /\ i * size \in Nat
      BY <1>2, <1>4, Steps
    <2>2. j * size \in Nat
      BY <1>2, Product
    <2> DEFINE x == i * size
               y == j * size
    <2>3. x + size <= y /\ x \in Nat /\ y \in Nat /\ cut(i) = s + x /\ cut(j) = s + y
      BY <2>1, <2>2
    <2> HIDE DEF x, y, cut
    <2> QED  BY <1>1, <1>2, <2>3
  <1>8. cut(k) <= s + n
    <2> DEFINE x == k * size
    <2>1. x \in Nat /\ x <= n /\ cut(k) = s + x
      BY <1>2, <1>4, Product
    <2> HIDE DEF x, cut
    <2> QED  BY <1>1, <1>3, <2>1
  <1> HIDE DEF cut
  <1>9. s # 0 /\ \A i \in 0 .. k - 1 : Loose(p, h, cut(i), size)
    <2> SUFFICES ASSUME NEW i \in 0 .. k - 1
                 PROVE  s # 0 /\ Loose(p, h, cut(i), size)
      BY <1>4a
    <2>1. cut(i) + size <= cut(k) /\ cut(i) \in Nat /\ s <= cut(i) /\ cut(k) \in Nat
      BY <1>4a, <1>6, <1>7
    <2>2. cut(i) + size <= s + n
      BY <1>1, <1>2, <1>3, <1>8, <2>1
    <2> QED  BY <1>1, <1>2, <1>3, <1>5, <2>1, <2>2, PartLoose
  <1>10. Loose(p, h, cut(k), s + n - cut(k)) /\ s + n - cut(k) \in Nat
    <2>0. cut(k) \in Nat /\ s <= cut(k)
      BY <1>4a, <1>6
    <2>1. s + n - cut(k) \in Nat
      BY <1>1, <1>3, <1>8, <2>0
    <2>2. cut(k) + (s + n - cut(k)) <= s + n
      BY <1>1, <1>3, <2>0
    <2> QED  BY <1>1, <1>3, <1>5, <2>0, <2>1, <2>2, PartLoose
  <1>11. new \in Seq(Address)
    <2>1. CASE k = 1
      BY <1>1, <1>2, <2>1
    <2>2. CASE k # 1
      <3>1. \A i \in 1 .. k - 1 : cut(i) \in Address
        BY <1>1, <1>4, <1>6, <1>9 DEF Address
      <3>2. k - 1 \in Nat
        BY <1>4
      <3> QED  BY <2>2, <3>1, <3>2
    <2> QED  BY <2>1, <2>2
  <1>12. \/ new = l[c]
         \/ \A i \in 1 .. Len(new) : i \in 1 .. k - 1 /\ new[i] = cut(i)
    <2>1. CASE k = 1
      BY <2>1
    <2>2. CASE k # 1
      <3>1. k - 1 \in Nat /\ new = [i \in 1 .. k - 1 |-> cut(i)]
        BY <1>4, <2>2
      <3>2. Len(new) = k - 1
        BY <1>11, <3>1
      <3> QED  BY <3>1, <3>2
    <2> QED  BY <2>1, <2>2
  <1> HIDE DEF new
  <1>13. r = [p EXCEPT !.start_free = cut(k), !.free_list[c] = new]
    BY DEF cut, new, Cut
  <1> DEFINE f == [l EXCEPT ![c] = new]
  <1>14. /\ f \in [Classes -> Seq(Address)] /\ f[c] = new
         /\ \A d \in Classes \ {c} : f[d] = l[d]
    BY <1>1, <1>2, <1>11
  <1> HIDE DEF f
  <1>15. /\ r \in Members /\ r.free_list = f /\ r.start_free = cut(k)
         /\ r.end_free = p.end_free /\ r.chunks = p.chunks
    <2>1. cut(k) \in Nat
      BY <1>4, <1>6
    <2> QED  BY <1>1, <1>13, <1>14, <2>1 DEF Members, f
  <1>16. \A d \in Classes : \A i \in 1 .. Len(f[d]) :
            \/ d = c /\ i \in 1 .. k - 1 /\ f[d][i] = cut(i)
            \/ i \in 1 .. Len(l[d]) /\ f[d][i] = l[d][i]
    BY <1>12, <1>14
  <1>17. \A a, b : Home(r, h, a, b) <=> Home(p, h, a, b)
    BY <1>15, HomeFrame
  <1>18. \A i, j \in 0 .. k - 1 : i # j => Apart(cut(i), size, cut(j), size)
    <2> SUFFICES ASSUME NEW i \in 0 .. k - 1, NEW j \in 0 .. k - 1, i # j
                 PROVE  Apart(cut(i), size, cut(j), size)
      OBVIOUS
    <2>1. i \in 0 .. k /\ j \in 0 .. k /\ (i < j \/ j < i)
      BY <1>4a
    <2> QED  BY <1>7, <2>1 DEF Apart
  <1>19. ASSUME NEW a, NEW b, Loose(p, h, a, b),
                \A i \in 1 .. k - 1 : Apart(cut(i), size, a, b)
         PROVE  Loose(r, h, a, b)
    <2>1. ASSUME NEW d \in Classes, NEW i \in 1 .. Len(f[d])
          PROVE  Apart(f[d][i], d + 1, a, b)
      <3>1. CASE d = c /\ i \in 1 .. k - 1 /\ f[d][i] = cut(i)
        BY <1>2, <1>19, <3>1
      <3>2. CASE i \in 1 .. Len(l[d]) /\ f[d][i] = l[d][i]
        BY <1>19, <3>2 DEF Loose
      <3> QED  BY <1>16, <3>1, <3>2
    <2> QED  BY <1>15, <1>17, <1>19, <2>1 DEF Loose
  <1>20. Lists(r, h)
    <2>1. ASSUME NEW d \in Classes, NEW e \in Classes, NEW i \in 1 .. Len(f[d]),
                 NEW j \in 1 .. Len(f[e]), <<d, i>> # <<e, j>>
          PROVE  Apart(f[d][i], d + 1, f[e][j], e + 1)
      <3>1. CASE d = c /\ i \in 1 .. k - 1 /\ f[d][i] = cut(i)
        <4>1. CASE e = c /\ j \in 1 .. k - 1 /\ f[e][j] = cut(j)
          <5>1. i \in 0 .. k - 1 /\ j \in 0 .. k - 1 /\ i # j
            BY <1>4a, <2>1, <3>1, <4>1
          <5> QED  BY <1>2, <1>18, <3>1, <4>1, <5>1
        <4>2. CASE j \in 1 .. Len(l[e]) /\ f[e][j] = l[e][j]
          <5>1. i \in 0 .. k - 1
            BY <1>4a, <3>1
          <5>2. Apart(l[e][j], e + 1, cut(i), size)
            BY <1>9, <4>2, <5>1 DEF Loose
          <5> QED  BY <1>2, <3>1, <4>2, <5>2 DEF Apart
        <4> QED  BY <1>16, <4>1, <4>2
      <3>2. CASE i \in 1 .. Len(l[d]) /\ f[d][i] = l[d][i]
        <4>1. CASE e = c /\ j \in 1 .. k - 1 /\ f[e][j] = cut(j)
          <5>1. j \in 0 .. k - 1
            BY <1>4a, <4>1
          <5>2. Apart(l[d][i], d + 1, cut(j), size)
            BY <1>9, <3>2, <5>1 DEF Loose
          <5> QED  BY <1>2, <3>2, <4>1, <5>2
        <4>2. CASE j \in 1 .. Len(l[e]) /\ f[e][j] = l[e][j]
          BY <2>1, <3>2, <4>2 DEF Lists, FreeApart
        <4> QED  BY <1>16, <4>1, <4>2
      <3> QED  BY <1>16, <3>1, <3>2
    <2>2. ASSUME NEW d \in Classes, NEW i \in 1 .. Len(f[d])
          PROVE  /\ Home(r, h, f[d][i], d + 1)
                 /\ \A b \in h : Apart(f[d][i], d + 1, b.at, Units(b.bytes))
      <3>1. CASE d = c /\ i \in 1 .. k - 1 /\ f[d][i] = cut(i)
        <4>1. Loose(p, h, cut(i), size)
          BY <1>4a, <1>9, <3>1
        <4> QED  BY <1>2, <1>17, <3>1, <4>1 DEF Loose, Apart
      <3>2. CASE i \in 1 .. Len(l[d]) /\ f[d][i] = l[d][i]
        BY <1>17, <3>2 DEF Lists, FreeHome, FreeApartFromHeld
      <3> QED  BY <1>16, <3>1, <3>2
    <2>3. FreeApart(r)
      BY <1>15, <2>1 DEF FreeApart
    <2>4. FreeApartFromHeld(r, h) /\ FreeHome(r, h)
      BY <1>15, <2>2 DEF FreeApartFromHeld, FreeHome
    <2>5. HeldHome(r, h)
      BY <1>15, <1>17 DEF Lists, HeldHome
    <2>6. ChunksApart(r)
      BY <1>15 DEF Lists, ChunksApart
    <2> QED  BY <1>15, <2>3, <2>4, <2>5, <2>6 DEF Lists
  <1>21. \A i \in 0 .. k - 1 : Apart(cut(i), size, cut(k), s + n - cut(k))
    <2> SUFFICES ASSUME NEW i \in 0 .. k - 1
                 PROVE  Apart(cut(i), size, cut(k), s + n - cut(k))
      OBVIOUS
    <2>1. i \in 0 .. k /\ i < k
      BY <1>4a
    <2> QED  BY <1>4a, <1>7, <2>1 DEF Apart
  <1>22. 0 \in 0 .. k - 1 /\ \A i \in 1 .. k - 1 : i \in 0 .. k - 1 /\ i # 0
    BY <1>4, <1>4a
  <1>23. cut(0) = s /\ cut(k) \in Nat
    BY <1>4a, <1>6
  <1>24. Loose(r, h, s, size)
    BY <1>9, <1>18, <1>19, <1>22, <1>23
  <1>25. BytesLeft(r) = s + n - cut(k) /\ r.start_free <= r.end_free
    BY <1>1, <1>3, <1>8, <1>15, <1>23 DEF BytesLeft
  <1>26. Pool(r, h)
    BY <1>10, <1>15, <1>19, <1>21, <1>22, <1>25 DEF Pool
  <1>27. Apart(s, size, r.start_free, BytesLeft(r))
    BY <1>15, <1>21, <1>22, <1>23, <1>25
  <1> QED  BY <1>1, <1>9, <1>20, <1>22, <1>24, <1>26, <1>27 DEF Address

-----------------------------------------------------------------------------
(* The three calls.                                                        *)

Safe(m, h) == Lists(m, h) /\ Pool(m, h)

\* A large block is a chunk of its own.
LEMMA LargeSound ==
    ASSUME NEW m, NEW h, Safe(m, h), NEW b \in Block, b.bytes > MAX_BYTES, b \notin h,
           b.at \in MallocBases(m, Units(b.bytes)), NEW p \in Members,
           p.free_list = m.free_list, p.start_free = m.start_free, p.end_free = m.end_free,
           p.chunks = m.chunks \union {[at |-> b.at, size |-> Units(b.bytes)]}
    PROVE  Safe(p, h \union {b}) /\ \A x \in h : Apart(x.at, Units(x.bytes), b.at, Units(b.bytes))
  <1> DEFINE a == b.at
             n == Units(b.bytes)
             new == [at |-> a, size |-> n]
             g == h \union {b}
  <1>1. /\ m \in Members /\ a \in Address /\ a \in Nat /\ n \in Nat \ {0} /\ new \in Chunk
        /\ \A c \in m.chunks : Apart(a, n, c.at, c.size)
    BY UnitsFacts DEF Safe, Lists, Block, MallocBases, Chunk, Address
  <1>2. /\ p.free_list = m.free_list /\ p.chunks = m.chunks \union {new}
        /\ p.start_free = m.start_free /\ p.end_free = m.end_free
    OBVIOUS
  <1>3. Lists(p, h) /\ \A c, k : Loose(m, h, c, k) => Loose(p, h, c, k)
    <2>1. Lists(m, h) /\ p.chunks = m.chunks \union {[at |-> a, size |-> n]}
      BY <1>2 DEF Safe
    <2>2. Lists(p, h)
      BY <1>1, <1>2, <2>1, GrownSound
    <2>3. \A c, k : Loose(m, h, c, k) => Loose(p, h, c, k)
      BY <1>1, <1>2, <2>1, GrownSound
    <2> QED  BY <2>2, <2>3
  <1>4. \A c \in Classes : \A i \in 1 .. Len(m.free_list[c]) : Apart(m.free_list[c][i], c + 1, a, n)
    BY <1>1, OutsideLoose DEF Safe
  <1>5. \A x \in h : Apart(x.at, Units(x.bytes), a, n) /\ x # b
    BY <1>1, OutsideLoose DEF Safe
  <1>6. \A d \in m.chunks : d.at # a
    BY <1>1 DEF Members, Chunk, Address, Apart
  <1>7. \A c, k : Home(m, h, c, k) => Home(p, g, c, k)
    BY <1>2, <1>6 DEF Home
  <1> HIDE DEF n, a
  <1>8. FreeApart(p) /\ FreeApartFromHeld(p, g) /\ g \subseteq Block
    BY <1>2, <1>4 DEF Safe, Lists, FreeApart, FreeApartFromHeld, a, n
  <1>9. HeldApart(g)
    <2>1. ASSUME NEW x \in h PROVE Apart(b.at, Units(b.bytes), x.at, Units(x.bytes))
      BY <1>5 DEF Apart, a, n
    <2> QED  BY <1>5, <2>1 DEF Safe, Lists, HeldApart, a, n
  <1>10. FreeHome(p, g)
    BY <1>2, <1>7 DEF Safe, Lists, FreeHome
  <1>11. HeldHome(p, g)
    <2>1. ASSUME NEW x \in h
          PROVE  IF x.bytes > MAX_BYTES THEN [at |-> x.at, size |-> Units(x.bytes)] \in p.chunks
                 ELSE Home(p, g, x.at, Units(x.bytes))
      BY <1>2, <1>7 DEF Safe, Lists, HeldHome
    <2> QED  BY <1>2, <2>1 DEF HeldHome, a, n
  <1>12. Lists(p, g)
    BY <1>3, <1>8, <1>9, <1>10, <1>11 DEF Lists
  <1>13. Pool(p, g)
    <2>1. /\ m.start_free <= m.end_free /\ Loose(m, h, m.start_free, BytesLeft(m))
          /\ m.start_free \in Nat /\ BytesLeft(m) \in Nat
      BY <1>1 DEF Safe, Pool, BytesLeft, Members
    <2>2. Apart(m.start_free, BytesLeft(m), a, n) /\ Home(p, g, m.start_free, BytesLeft(m))
      BY <1>1, <1>7, <2>1, OutsideChunks DEF Loose, Safe, a, n
    <2>3. Apart(b.at, Units(b.bytes), m.start_free, BytesLeft(m))
      BY <2>2 DEF Apart, a, n
    <2>4. BytesLeft(p) = BytesLeft(m)
      BY <1>2 DEF BytesLeft
    <2>5. \A x \in g : Apart(x.at, Units(x.bytes), m.start_free, BytesLeft(m))
      BY <2>1, <2>3 DEF Loose
    <2> QED  BY <1>2, <2>1, <2>2, <2>4, <2>5 DEF Pool, Loose
  <1> QED  BY <1>5, <1>12, <1>13 DEF Safe, a, n

LEMMA AllocateSound ==
    ASSUME NEW m, NEW h, Safe(m, h), NEW bytes \in Request, NEW o \in allocate(m, bytes)
    PROVE  LET b == [at |-> o.at, bytes |-> bytes]
           IN  /\ b \in Block /\ Safe(o.mem, h \union {b})
               /\ \A x \in h : Apart(x.at, Units(x.bytes), b.at, Units(b.bytes))
  <1> DEFINE b == [at |-> o.at, bytes |-> bytes]
             n == Units(bytes)
             c == FREELIST_INDEX(bytes)
  <1>1. m \in Members /\ Lists(m, h) /\ Pool(m, h) /\ n \in Nat \ {0}
    BY UnitsFacts DEF Safe, Lists
  <1>2. b.bytes = bytes /\ b.at = o.at /\ Units(b.bytes) = n
    OBVIOUS
  <1>3. CASE bytes > MAX_BYTES
    <2>1. PICK a \in MallocBases(m, n) :
             o = [at |-> a, mem |-> [m EXCEPT !.chunks = @ \union {[at |-> a, size |-> n]}]]
      BY <1>3 DEF allocate
    <2>2. b \in Block /\ b.bytes > MAX_BYTES /\ b.at = a
      BY <1>3, <2>1, BasesAssumption DEF MallocBases, Block, Address
    <2>3. b.at \in MallocBases(m, Units(b.bytes))
      BY <2>2
    <2>4. /\ o.mem.free_list = m.free_list /\ o.mem.start_free = m.start_free
          /\ o.mem.end_free = m.end_free
          /\ o.mem.chunks = m.chunks \union {[at |-> b.at, size |-> Units(b.bytes)]}
      BY <1>1, <2>1 DEF Members
    <2>5. o.mem \in Members
      <3>1. [at |-> a, size |-> n] \in Chunk
        BY <1>1, <2>1, BasesAssumption DEF MallocBases, Chunk, Address
      <3> QED  BY <1>1, <2>1, <3>1 DEF Members
    <2>6. b \notin h
      <3> SUFFICES ASSUME b \in h PROVE FALSE
        OBVIOUS
      <3>1. Apart(b.at, n, b.at, n)
        BY <1>1, <1>2, <2>1, <2>2, OutsideLoose, BasesAssumption DEF MallocBases
      <3> QED  BY <1>1, <2>2, <3>1 DEF Apart, Block, Address
    <2> HIDE DEF b, n
    <2> QED  BY <1>2, <2>2, <2>3, <2>4, <2>5, <2>6, LargeSound DEF b
  <1>4. CASE ~ bytes > MAX_BYTES
    <2>1. c \in Classes /\ c + 1 = n /\ n \in 1 .. NFREELISTS /\ bytes <= MAX_BYTES
      <3>1. bytes \in Nat /\ MAX_BYTES \in Nat
        BY RequestAssumption, MaxBytesNat
      <3>2. bytes <= MAX_BYTES
        BY <1>4, <3>1
      <3> QED  BY <1>1, <3>2, UnitsFacts, SizesAssumption DEF FREELIST_INDEX
    <2>2. /\ o.at \in Address /\ Lists(o.mem, h) /\ Pool(o.mem, h)
          /\ Loose(o.mem, h, o.at, n) /\ Apart(o.at, n, o.mem.start_free, BytesLeft(o.mem))
      <3>1. CASE m.free_list[c] # <<>>
        <4>1. o.at = Head(m.free_list[c]) /\ o.mem = PopFree(m, c)
          BY <1>4, <3>1 DEF allocate
        <4>2. /\ PopFree(m, c).start_free = m.start_free
              /\ BytesLeft(PopFree(m, c)) = BytesLeft(m)
              /\ PopFree(m, c).start_free <= PopFree(m, c).end_free
          BY <1>1, <2>1, <3>1, PopFacts DEF BytesLeft, Pool
        <4> QED  BY <1>1, <2>1, <3>1, <4>1, <4>2, PopSound DEF Pool
      <3>2. CASE m.free_list[c] = <<>>
        <4>1. o \in refill(m, n)
          BY <1>4, <3>2 DEF allocate
        <4>2. PICK q \in chunk_alloc(m, n) : \E k \in ObjectsIn(q, n) :
                 o = [at |-> q.start_free, mem |-> Cut(q, n, k)]
          BY <4>1 DEF refill
        <4> HIDE DEF n
        <4>3. Lists(q, h) /\ Pool(q, h) /\ BytesLeft(q) >= n
          BY <1>1, <2>1, ChunkSound
        <4>4. PICK k \in ObjectsIn(q, n) : o.at = q.start_free /\ o.mem = Cut(q, n, k)
          BY <4>2
        <4> QED  BY <2>1, <4>3, <4>4, CutSound
      <3> QED  BY <3>1, <3>2
    <2>3. b \in Block
      BY <2>2 DEF Block
    <2> HIDE DEF b, n
    <2>4. Lists(o.mem, h \union {b}) /\ Pool(o.mem, h \union {b})
      BY <1>2, <2>1, <2>2, <2>3, HandOut DEF Pool
    <2> QED  BY <1>2, <2>2, <2>3, <2>4 DEF Safe, Loose, b
  <1> QED  BY <1>3, <1>4

LEMMA DeallocateSound ==
    ASSUME NEW m, NEW h, Safe(m, h), NEW b \in h
    PROVE  Safe(deallocate(m, b), h \ {b})
  <1> DEFINE g == h \ {b}
             n == Units(b.bytes)
             c == FREELIST_INDEX(b.bytes)
  <1>1. /\ m \in Members /\ b \in Block /\ b.at \in Address /\ b.bytes \in Request
        /\ n \in Nat \ {0}
    BY UnitsFacts DEF Safe, Lists, Block
  <1>2. /\ Lists(m, g) /\ Pool(m, g)
        /\ Apart(b.at, n, m.start_free, BytesLeft(m))
        /\ b.bytes <= MAX_BYTES => Loose(m, g, b.at, n)
    BY TakeBack DEF Safe, Pool
  <1>3. CASE ~ b.bytes > MAX_BYTES
    <2>1. b.bytes <= MAX_BYTES /\ c \in Classes /\ c + 1 = n
      <3>1. b.bytes \in Nat /\ MAX_BYTES \in Nat
        BY <1>1, RequestAssumption, MaxBytesNat
      <3>2. b.bytes <= MAX_BYTES
        BY <1>3, <3>1
      <3> QED  BY <1>1, <3>2, UnitsFacts DEF FREELIST_INDEX
    <2>2. deallocate(m, b) = PushFree(m, c, b.at)
      BY <1>3 DEF deallocate
    <2> HIDE DEF n, c, g
    <2>3. Lists(PushFree(m, c, b.at), g)
      BY <1>1, <1>2, <2>1, PushSound
    <2>4. Loose(PushFree(m, c, b.at), g, m.start_free, BytesLeft(m))
      BY <1>1, <1>2, <2>1, PushSound DEF Pool
    <2>5. Pool(PushFree(m, c, b.at), g)
      BY <1>1, <1>2, <2>1, <2>4, PushFacts DEF Pool, BytesLeft
    <2> QED  BY <2>2, <2>3, <2>5 DEF Safe, g
  <1>4. CASE b.bytes > MAX_BYTES
    <2> DEFINE p == deallocate(m, b)
    <2>1. p = [m EXCEPT !.chunks = {d \in m.chunks : d.at # b.at}]
      BY <1>4 DEF deallocate
    <2>2. /\ p \in Members /\ p.free_list = m.free_list
          /\ p.chunks = {d \in m.chunks : d.at # b.at}
          /\ p.start_free = m.start_free /\ p.end_free = m.end_free
      BY <1>1, <2>1 DEF Members
    <2> HIDE DEF p
    <2>3. \A a, k : Home(m, h, a, k) => Home(p, g, a, k)
      BY <1>4, <2>2 DEF Home
    <2>4. FreeApart(p) /\ FreeApartFromHeld(p, g) /\ ChunksApart(p) /\ HeldApart(g)
      BY <1>2, <2>2 DEF Lists, FreeApart, FreeApartFromHeld, ChunksApart
    <2>5. FreeHome(p, g)
      BY <2>2, <2>3 DEF Safe, Lists, FreeHome
    <2>6. \A x \in g : x.at # b.at
      <3> SUFFICES ASSUME NEW x \in g PROVE x.at # b.at
        OBVIOUS
      <3>1. x \in Block /\ Apart(x.at, Units(x.bytes), b.at, n)
        BY DEF Safe, Lists, HeldApart
      <3>2. Units(x.bytes) \in Nat \ {0}
        BY <3>1, UnitsFacts DEF Block
      <3> HIDE DEF n
      <3> QED  BY <1>1, <3>1, <3>2 DEF Block, Address, Apart
    <2>7. HeldHome(p, g)
      <3> SUFFICES ASSUME NEW x \in g
                   PROVE  IF x.bytes > MAX_BYTES
                          THEN [at |-> x.at, size |-> Units(x.bytes)] \in p.chunks
                          ELSE Home(p, g, x.at, Units(x.bytes))
        BY DEF HeldHome
      <3>1. IF x.bytes > MAX_BYTES
            THEN [at |-> x.at, size |-> Units(x.bytes)] \in m.chunks
            ELSE Home(m, h, x.at, Units(x.bytes))
        BY DEF Safe, Lists, HeldHome
      <3> QED  BY <2>2, <2>3, <2>6, <3>1
    <2>8. Loose(p, g, m.start_free, BytesLeft(m))
      BY <1>2, <2>2, <2>3 DEF Safe, Pool, Loose
    <2>9. Lists(p, g)
      BY <1>2, <2>2, <2>4, <2>5, <2>7 DEF Lists
    <2>10. Pool(p, g)
      BY <1>2, <2>2, <2>8 DEF Pool, BytesLeft
    <2> QED  BY <2>9, <2>10 DEF Safe, p
  <1> QED  BY <1>3, <1>4

-----------------------------------------------------------------------------
(* The specification.                                                      *)

Ind == Safe(mem, held) /\ faulted \in BOOLEAN

LEMMA InitInd == Init => Ind
  <1> SUFFICES ASSUME Init PROVE Ind
    OBVIOUS
  <1>1. mem \in Members /\ held = {} /\ faulted = FALSE
    BY DEF Init, Members
  <1>2. /\ mem.start_free = 0 /\ mem.end_free = 0 /\ mem.chunks = {}
        /\ \A c \in Classes : mem.free_list[c] = <<>>
    BY DEF Init
  <1>3. \A c \in Classes : Len(mem.free_list[c]) = 0
    BY <1>2
  <1>4. Lists(mem, held)
    BY <1>1, <1>2, <1>3 DEF Lists, ChunksApart, FreeApart, FreeApartFromHeld, HeldApart,
                            FreeHome, HeldHome
  <1>5. Pool(mem, held)
    BY <1>1, <1>2, <1>3 DEF Pool, Loose, Home, BytesLeft
  <1> QED  BY <1>1, <1>4, <1>5 DEF Ind, Safe

LEMMA NextInd == Ind /\ [Next]_vars => Ind'
  <1> SUFFICES ASSUME Ind, [Next]_vars PROVE Ind'
    OBVIOUS
  <1>1. ASSUME NEW bytes \in Request, Allocate(bytes) PROVE Ind'
    <2>1. PICK o \in allocate(mem, bytes) :
             mem' = o.mem /\ held' = held \union {[at |-> o.at, bytes |-> bytes]}
      BY <1>1 DEF Allocate
    <2>2. Safe(o.mem, held \union {[at |-> o.at, bytes |-> bytes]})
      BY AllocateSound DEF Ind
    <2>3. Safe(mem', held')
      BY <2>1, <2>2
    <2> QED  BY <1>1, <2>3 DEF Ind, Allocate
  <1>2. ASSUME NEW b \in held, Deallocate(b) PROVE Ind'
    <2>1. Safe(mem', held')
      BY <1>2, DeallocateSound DEF Ind, Deallocate
    <2> QED  BY <1>2, <2>1 DEF Ind, Deallocate
  <1>3. ASSUME NEW b \in held, NEW bytes \in Request, Reallocate(b, bytes) PROVE Ind'
    <2>1. PICK o \in allocate(deallocate(mem, b), bytes) :
             mem' = o.mem /\ held' = (held \ {b}) \union {[at |-> o.at, bytes |-> bytes]}
      BY <1>3 DEF Reallocate
    <2>2. Safe(deallocate(mem, b), held \ {b})
      BY DeallocateSound DEF Ind
    <2>3. Safe(o.mem, (held \ {b}) \union {[at |-> o.at, bytes |-> bytes]})
      BY <2>2, AllocateSound
    <2>4. Safe(mem', held')
      BY <2>1, <2>3
    <2> QED  BY <1>3, <2>4 DEF Ind, Reallocate
  <1>4. ASSUME NEW m, NEW bytes, Fault(m, bytes) PROVE Ind'
    BY <1>4 DEF Ind, Fault
  <1>5. CASE UNCHANGED vars
    BY <1>5 DEF Ind, vars
  <1> QED  BY <1>1, <1>2, <1>3, <1>4, <1>5 DEF Next

LEMMA IndAlways == Spec => []Ind
  BY InitInd, NextInd, PTL DEF Spec

(***************************************************************************)
(* Every reachable state is well typed, for any number of size classes,    *)
(* any request sizes and wherever malloc puts its chunks                   *)
(* (alloc.cpp:14-138).                                                     *)
(***************************************************************************)
THEOREM TypeCorrect == Spec => []TypeOK
  <1>1. Ind => TypeOK
    BY DEF Ind, Safe, Lists, Pool, TypeOK
  <1> QED  BY <1>1, IndAlways, PTL

(***************************************************************************)
(* No two blocks, listed or held, and no block and the pool ever overlap:  *)
(* the allocator never hands out memory that is in use, whatever the order *)
(* of the calls and whenever malloc fails (alloc.cpp:14-138).              *)
(***************************************************************************)
THEOREM NeverOverlap == Spec => []NoOverlap
  <1>1. Ind => NoOverlap
    BY DEF Ind, Safe, Lists, Pool, Loose, NoOverlap, FreeApartFromPool, HeldApartFromPool
  <1> QED  BY <1>1, IndAlways, PTL

(***************************************************************************)
(* Every call of allocate, deallocate and reallocate does to the blocks    *)
(* callers hold what an allocator promises (alloc.cpp:103-138).            *)
(***************************************************************************)
THEOREM ImplementsPromise == Spec => KeepsPromise
  <1>1. Init => Promise!Init
    BY DEF Init, Promise!Init
  <1>2. Ind /\ [Next]_vars => [Promise!Next]_held
    <2> SUFFICES ASSUME Ind, [Next]_vars PROVE Promise!Next \/ UNCHANGED held
      OBVIOUS
    <2>1. ASSUME NEW bytes \in Request, Allocate(bytes) PROVE Promise!Next
      <3>1. PICK o \in allocate(mem, bytes) : held' = held \union {[at |-> o.at, bytes |-> bytes]}
        BY <2>1 DEF Allocate
      <3> DEFINE b == [at |-> o.at, bytes |-> bytes]
      <3>2. \A x \in held : Apart(x.at, Units(x.bytes), b.at, Units(b.bytes))
        BY AllocateSound DEF Ind
      <3>3. b \in held' /\ Promise!Allocate(b.bytes, b.at)
        BY <3>1, <3>2 DEF Promise!Allocate, Promise!FreshAmong, Promise!Apart, Apart
      <3> QED  BY <3>3 DEF Promise!Next
    <2>2. ASSUME NEW b \in held, Deallocate(b) PROVE Promise!Next
      BY <2>2 DEF Deallocate, Promise!Next, Promise!Deallocate
    <2>3. ASSUME NEW b \in held, NEW bytes \in Request, Reallocate(b, bytes) PROVE Promise!Next
      <3>1. PICK o \in allocate(deallocate(mem, b), bytes) :
               held' = (held \ {b}) \union {[at |-> o.at, bytes |-> bytes]}
        BY <2>3 DEF Reallocate
      <3>2. Safe(deallocate(mem, b), held \ {b})
        BY DeallocateSound DEF Ind
      <3> DEFINE c == [at |-> o.at, bytes |-> bytes]
      <3>3. \A x \in held \ {b} : Apart(x.at, Units(x.bytes), c.at, Units(c.bytes))
        BY <3>2, AllocateSound
      <3>4. c \in held' /\ Promise!Reallocate(b, c.bytes, c.at)
        BY <3>1, <3>3 DEF Promise!Reallocate, Promise!FreshAmong, Promise!Apart, Apart
      <3> QED  BY <3>4 DEF Promise!Next
    <2>4. ASSUME NEW m, NEW bytes, Fault(m, bytes) PROVE UNCHANGED held
      BY <2>4 DEF Fault
    <2>5. CASE UNCHANGED vars
      BY <2>5 DEF vars
    <2> QED  BY <2>1, <2>2, <2>3, <2>4, <2>5 DEF Next
  <1> QED  BY <1>1, <1>2, IndAlways, PTL DEF Spec, KeepsPromise, Promise!Spec

-----------------------------------------------------------------------------
(* Nothing the allocator is given is lost: what the run calls              *)
(* MemoryAccounted.  Above, blocks and the pool lie in chunks and do not   *)
(* overlap; here, nothing else lies in a chunk, and heap_size is the       *)
(* memory of the chunks the pool was made of.                              *)

Within(a, n, x) == a <= x /\ x < a + n

Listed(m, x) ==
    \E c \in Classes : \E i \in 1 .. Len(m.free_list[c]) : Within(m.free_list[c][i], c + 1, x)
InHands(h, x) == \E b \in h : Within(b.at, Units(b.bytes), x)
InPool(m, x)  == Within(m.start_free, BytesLeft(m), x)
InChunk(m, x) == \E d \in m.chunks : Within(d.at, d.size, x)

\* The allocator's memory is listed, in a caller's hands or in the pool.
NoneLost(m, h) == \A x \in Int : InChunk(m, x) => Listed(m, x) \/ InHands(h, x) \/ InPool(m, x)

\* heap_size counts the units of the chunks that are no large block.
Large(h) == {b.at : b \in {d \in h : d.bytes > MAX_BYTES}}
Grown(m, h) == UNION {Extent(c.at, c.size) : c \in {d \in m.chunks : d.at \notin Large(h)}}
Counted(m, h) == IsFiniteSet(Grown(m, h)) /\ m.heap_size = Cardinality(Grown(m, h))

-----------------------------------------------------------------------------
(* Lists.                                                                  *)

LEMMA PopKeeps ==
    ASSUME NEW m \in Members, NEW c \in Classes, m.free_list[c] # <<>>, NEW x \in Int,
           Listed(m, x)
    PROVE  Listed(PopFree(m, c), x) \/ Within(Head(m.free_list[c]), c + 1, x)
  <1> DEFINE l == m.free_list
             k == [l EXCEPT ![c] = Tail(l[c])]
  <1>1. l \in [Classes -> Seq(Address)]
    BY DEF Members
  <1>2. /\ Len(l[c]) \in Nat \ {0} /\ Head(l[c]) = l[c][1] /\ Len(Tail(l[c])) = Len(l[c]) - 1
        /\ \A i \in 1 .. Len(Tail(l[c])) : Tail(l[c])[i] = l[c][i + 1]
    BY <1>1
  <1>3. k[c] = Tail(l[c]) /\ \A d \in Classes \ {c} : k[d] = l[d]
    BY <1>1
  <1>4. PopFree(m, c).free_list = k
    BY <1>1 DEF PopFree, Members
  <1>0. PICK d \in Classes : \E i \in 1 .. Len(l[d]) : Within(l[d][i], d + 1, x)
    BY DEF Listed
  <1>5. PICK i \in 1 .. Len(l[d]) : Within(l[d][i], d + 1, x)
    BY <1>0
  <1> HIDE DEF k, l
  <1>6. CASE d # c
    BY <1>3, <1>4, <1>5, <1>6 DEF Listed
  <1>7. CASE d = c /\ i = 1
    BY <1>2, <1>5, <1>7 DEF l
  <1>8. CASE d = c /\ i # 1
    <2>1. i - 1 \in 1 .. Len(k[c]) /\ k[c][i - 1] = l[c][i]
      BY <1>2, <1>3, <1>8
    <2> QED  BY <1>4, <1>5, <1>8, <2>1 DEF Listed
  <1> QED  BY <1>6, <1>7, <1>8

LEMMA PushKeeps ==
    ASSUME NEW m \in Members, NEW c \in Classes, NEW a \in Address, NEW x \in Int,
           Listed(m, x) \/ Within(a, c + 1, x)
    PROVE  Listed(PushFree(m, c, a), x)
  <1> DEFINE l == m.free_list
             s == <<a>> \o l[c]
             k == [l EXCEPT ![c] = s]
  <1>1. l \in [Classes -> Seq(Address)]
    BY DEF Members
  <1>2. /\ Len(s) = Len(l[c]) + 1 /\ Len(l[c]) \in Nat
        /\ s[1] = a /\ \A i \in 2 .. Len(s) : s[i] = l[c][i - 1]
    BY <1>1
  <1> HIDE DEF s
  <1>3. k[c] = s /\ \A d \in Classes \ {c} : k[d] = l[d]
    BY <1>1
  <1>4. PushFree(m, c, a).free_list = k
    BY <1>1 DEF PushFree, Members, s
  <1> HIDE DEF k
  <1>5. CASE Within(a, c + 1, x)
    <2>1. 1 \in 1 .. Len(k[c]) /\ k[c][1] = a
      BY <1>2, <1>3
    <2> QED  BY <1>4, <1>5, <2>1 DEF Listed
  <1>6. CASE Listed(m, x)
    <2>0. PICK d \in Classes : \E i \in 1 .. Len(l[d]) : Within(l[d][i], d + 1, x)
      BY <1>6 DEF Listed
    <2>1. PICK i \in 1 .. Len(l[d]) : Within(l[d][i], d + 1, x)
      BY <2>0
    <2> HIDE DEF l
    <2>2. CASE d # c
      BY <1>3, <1>4, <2>1, <2>2 DEF Listed
    <2>3. CASE d = c
      <3>1. i + 1 \in 1 .. Len(k[c]) /\ k[c][i + 1] = l[c][i]
        BY <1>2, <1>3, <2>3
      <3> QED  BY <1>4, <2>1, <2>3, <3>1 DEF Listed
    <2> QED  BY <2>2, <2>3
  <1> QED  BY <1>5, <1>6

LEMMA ResidueKeeps ==
    ASSUME NEW m, NEW h, Lists(m, h), Pool(m, h),
           NEW size \in 1 .. NFREELISTS, BytesLeft(m) < size
    PROVE  LET r == KeepResidue(m) IN
           /\ \A x \in Int : Listed(m, x) \/ InPool(m, x) => Listed(r, x)
           /\ r.free_list[size - 1] = m.free_list[size - 1]
           /\ r.chunks = m.chunks /\ r.heap_size = m.heap_size
  <1>1. m \in Members /\ m.start_free \in Nat /\ BytesLeft(m) \in Nat
    BY DEF Lists, Members, Pool, BytesLeft
  <1>2. CASE BytesLeft(m) > 0
    <2> DEFINE c == BytesLeft(m) - 1
    <2>1. c \in Classes /\ c + 1 = BytesLeft(m) /\ size - 1 \in Classes /\ c # size - 1
      BY <1>1, <1>2, SizesAssumption DEF Classes
    <2>2. m.start_free \in Address
      BY <1>1, <1>2, PartLoose DEF Pool, Lists, Address
    <2>3. KeepResidue(m) = PushFree(m, c, m.start_free)
      BY <1>2 DEF KeepResidue
    <2>4. \A x \in Int : InPool(m, x) => Within(m.start_free, c + 1, x)
      BY <2>1 DEF InPool
    <2>5. PushFree(m, c, m.start_free).free_list[size - 1] = m.free_list[size - 1]
      BY <1>1, <2>1 DEF PushFree, Members
    <2> HIDE DEF c
    <2> QED  BY <1>1, <2>1, <2>2, <2>3, <2>4, <2>5, PushKeeps, PushFacts
  <1>3. CASE ~ BytesLeft(m) > 0
    BY <1>1, <1>3 DEF KeepResidue, InPool, Within
  <1> QED  BY <1>2, <1>3

\* Every number lies between two multiples.
LEMMA Quotient ==
    ASSUME NEW y \in Nat, NEW n \in Nat \ {0}
    PROVE  \E i \in Nat : i * n <= y /\ y < i * n + n
  <1>1. y \div n \in Nat
    BY SMT
  <1>2. (y \div n) * n <= y /\ y < (y \div n) * n + n
    BY SMT
  <1> QED  BY <1>1, <1>2

-----------------------------------------------------------------------------
(* The pool is filled and cut.                                             *)

\* Of the chunk malloc gave, and of the block taken from a list, nothing is lost,
\* and the list that is to be refilled is still empty.
LEMMA ChunkKeeps ==
    ASSUME NEW m, NEW h, Lists(m, h), Pool(m, h),
           NEW size \in 1 .. NFREELISTS, NEW q \in chunk_alloc(m, size),
           m.free_list[size - 1] = <<>>
    PROVE  /\ q.free_list[size - 1] = <<>>
           /\ \A x \in Int : Listed(m, x) \/ InPool(m, x) => Listed(q, x) \/ InPool(q, x)
           /\ \A x \in Int : InChunk(q, x) => InChunk(m, x) \/ InPool(q, x)
  <1>1. CASE BytesLeft(m) >= size
    BY <1>1 DEF chunk_alloc
  <1>2. CASE ~ BytesLeft(m) >= size
    <2> DEFINE r == KeepResidue(m)
    <2>0. BytesLeft(m) < size
      BY <1>2, SizesAssumption DEF BytesLeft, Lists, Members
    <2>1. /\ Lists(r, h) /\ r \in Members
          /\ \A x \in Int : Listed(m, x) \/ InPool(m, x) => Listed(r, x)
          /\ r.free_list[size - 1] = <<>> /\ r.chunks = m.chunks
      BY <2>0, ResidueSound, ResidueKeeps DEF Lists
    <2> HIDE DEF r
    <2>2. CASE q \in PoolsFromHeap(r, size)
      <3> DEFINE n == BytesToGet(r, size)
      <3>1. n \in Nat
        BY <2>1, BytesToGetFacts, SizesAssumption
      <3> HIDE DEF n
      <3>2. PICK a \in MallocBases(r, n) :
               q = [r EXCEPT !.start_free = a, !.end_free = a + n, !.heap_size = @ + n,
                             !.chunks = @ \union {[at |-> a, size |-> n]}]
        BY <2>2 DEF PoolsFromHeap, n
      <3>3. a \in Nat
        BY BasesAssumption DEF MallocBases
      <3>4. /\ q.free_list = r.free_list /\ q.start_free = a /\ q.end_free = a + n
            /\ q.chunks = r.chunks \union {[at |-> a, size |-> n]}
        BY <2>1, <3>2 DEF Members
      <3>5. BytesLeft(q) = n
        BY <3>1, <3>3, <3>4 DEF BytesLeft
      <3> QED  BY <2>1, <3>4, <3>5 DEF Listed, InChunk, InPool
    <2>3. CASE q \in PoolsFromLists(r, size)
      <3>1. PICK c \in Classes :
               /\ c >= size - 1 /\ r.free_list[c] # <<>>
               /\ q = [PopFree(r, c) EXCEPT !.start_free = Head(r.free_list[c]),
                                            !.end_free = Head(r.free_list[c]) + c + 1]
        BY <2>3 DEF PoolsFromLists
      <3> DEFINE a == Head(r.free_list[c])
                 p == PopFree(r, c)
      <3>2. /\ p \in Members /\ p.chunks = r.chunks /\ a \in Nat /\ c \in Nat
        BY <2>1, <3>1, PopFacts, PopSound, SizesAssumption DEF Address, Classes
      <3>3. p.free_list[size - 1] = <<>>
        BY <2>1, <3>1, SizesAssumption DEF PopFree, Members, Classes
      <3>4. \A x \in Int : Listed(r, x) => Listed(p, x) \/ Within(a, c + 1, x)
        BY <2>1, <3>1, PopKeeps
      <3>5. q = [p EXCEPT !.start_free = a, !.end_free = a + c + 1]
        BY <3>1
      <3> HIDE DEF a, p
      <3>6. /\ q.free_list = p.free_list /\ q.chunks = p.chunks
            /\ q.start_free = a /\ q.end_free = a + c + 1
        BY <3>2, <3>5 DEF Members
      <3>7. BytesLeft(q) = c + 1
        BY <3>2, <3>6 DEF BytesLeft
      <3> QED  BY <2>1, <3>2, <3>3, <3>4, <3>6, <3>7 DEF Listed, InChunk, InPool
    <2> QED  BY <1>2, <2>2, <2>3 DEF chunk_alloc, r
  <1> QED  BY <1>1, <1>2

\* Each unit of the pool is cut off with a block or stays in it.
LEMMA CutKeeps ==
    ASSUME NEW p, NEW h, Lists(p, h), Pool(p, h), NEW size \in 1 .. NFREELISTS,
           p.free_list[size - 1] = <<>>,
           NEW k \in ObjectsIn(p, size), NEW r, r = Cut(p, size, k),
           NEW x \in Int, Listed(p, x) \/ InPool(p, x)
    PROVE  Listed(r, x) \/ InPool(r, x) \/ Within(p.start_free, size, x)
  <1> DEFINE s == p.start_free
             c == size - 1
             l == p.free_list
             cut(i) == s + i * size
             new == IF k = 1 THEN l[c] ELSE [i \in 1 .. k - 1 |-> cut(i)]
  <1>1. /\ p \in Members /\ s \in Nat /\ p.end_free \in Nat
        /\ l \in [Classes -> Seq(Address)]
    BY DEF Lists, Members
  <1>2. size \in Nat \ {0} /\ c \in Classes /\ c + 1 = size
    BY SizesAssumption DEF Classes
  <1>3. k \in Nat \ {0} /\ k * size \in Nat
    BY <1>2, Product, SizesAssumption DEF ObjectsIn
  <1> HIDE DEF cut
  <1>4. /\ r.free_list = [l EXCEPT ![c] = new]
        /\ r.start_free = cut(k) /\ r.end_free = p.end_free
    BY <1>1 DEF Cut, Members, cut
  <1>5. /\ r.free_list[c] = new
        /\ \A d \in Classes \ {c} : r.free_list[d] = l[d]
    BY <1>1, <1>2, <1>4
  <1>6. CASE Listed(p, x)
    <2>1. PICK d \in Classes : \E i \in 1 .. Len(l[d]) : Within(l[d][i], d + 1, x)
      BY <1>6 DEF Listed
    <2>2. d # c
      BY <1>1, <1>2, <2>1
    <2> HIDE DEF new
    <2> QED  BY <1>5, <2>1, <2>2 DEF Listed
  <1>7. CASE InPool(p, x)
    <2>1. x - s \in Nat /\ x < p.end_free
      BY <1>1, <1>7 DEF InPool, Within, BytesLeft
    <2>2. PICK i \in Nat : i * size <= x - s /\ x - s < i * size + size
      BY <1>2, <2>1, Quotient
    <2>3. i * size \in Nat
      BY <1>2, Product
    <2>4. Within(cut(i), size, x)
      <3> DEFINE y == i * size
      <3>1. y \in Nat /\ y <= x - s /\ x - s < y + size /\ cut(i) = s + y
        BY <2>2, <2>3 DEF cut
      <3> HIDE DEF y
      <3> QED  BY <1>1, <1>2, <2>1, <3>1 DEF Within
    <2>5. CASE i = 0
      <3>1. cut(0) = s
        BY <1>1, <1>2 DEF cut
      <3> QED  BY <2>4, <2>5, <3>1
    <2>6. CASE i # 0 /\ i < k
      <3>1. k # 1 /\ new = [j \in 1 .. k - 1 |-> cut(j)] /\ k - 1 \in Nat /\ i \in 1 .. k - 1
        BY <1>3, <2>6
      <3>2. Len(new) = k - 1 /\ new[i] = cut(i)
        BY <3>1
      <3> HIDE DEF new
      <3> QED  BY <1>2, <1>5, <2>4, <3>1, <3>2 DEF Listed
    <2>7. CASE ~ i < k
      <3>1. k * size <= i * size
        <4>1. CASE k = i
          BY <2>3, <4>1
        <4>2. CASE k < i
          BY <1>2, <1>3, <2>3, <4>2, Steps
        <4> QED  BY <1>3, <2>7, <4>1, <4>2
      <3>2. cut(k) <= x /\ cut(k) \in Nat
        <4> DEFINE y == i * size
                   z == k * size
        <4>1. y \in Nat /\ z \in Nat /\ z <= y /\ y <= x - s /\ cut(k) = s + z
          BY <1>3, <2>2, <2>3, <3>1 DEF cut
        <4> HIDE DEF y, z
        <4> QED  BY <1>1, <2>1, <4>1
      <3> QED  BY <1>1, <1>4, <2>1, <3>2 DEF InPool, Within, BytesLeft
    <2> QED  BY <2>5, <2>6, <2>7
  <1> QED  BY <1>6, <1>7

-----------------------------------------------------------------------------
(* The calls lose nothing.                                                 *)

LEMMA AllocateKeeps ==
    ASSUME NEW m, NEW h, Safe(m, h), NoneLost(m, h),
           NEW bytes \in Request, NEW o \in allocate(m, bytes)
    PROVE  NoneLost(o.mem, h \union {[at |-> o.at, bytes |-> bytes]})
  <1> DEFINE b == [at |-> o.at, bytes |-> bytes]
             n == Units(bytes)
             c == FREELIST_INDEX(bytes)
  <1>1. m \in Members /\ Lists(m, h) /\ Pool(m, h) /\ n \in Nat \ {0}
    BY UnitsFacts DEF Safe, Lists
  <1>2. \A x \in Int : /\ InHands(h, x) => InHands(h \union {b}, x)
                       /\ Within(o.at, n, x) => InHands(h \union {b}, x)
    <2>1. b.at = o.at /\ Units(b.bytes) = n
      OBVIOUS
    <2> HIDE DEF b, n
    <2> QED  BY <2>1 DEF InHands
  <1> HIDE DEF b
  <1>3. CASE bytes > MAX_BYTES
    <2>1. PICK a \in MallocBases(m, n) :
             o = [at |-> a, mem |-> [m EXCEPT !.chunks = @ \union {[at |-> a, size |-> n]}]]
      BY <1>3 DEF allocate
    <2>2. /\ o.mem.free_list = m.free_list /\ o.mem.start_free = m.start_free
          /\ o.mem.end_free = m.end_free /\ o.at = a
          /\ o.mem.chunks = m.chunks \union {[at |-> a, size |-> n]}
      BY <1>1, <2>1 DEF Members
    <2>3. \A x \in Int : InChunk(o.mem, x) => InChunk(m, x) \/ Within(o.at, n, x)
      BY <2>2 DEF InChunk
    <2>4. \A x \in Int : /\ Listed(m, x) => Listed(o.mem, x)
                         /\ InPool(m, x) => InPool(o.mem, x)
      BY <2>2 DEF Listed, InPool, BytesLeft
    <2> QED  BY <1>2, <2>3, <2>4 DEF NoneLost, b
  <1>4. CASE ~ bytes > MAX_BYTES
    <2>1. c \in Classes /\ c + 1 = n /\ c = n - 1 /\ n \in 1 .. NFREELISTS
      <3>1. bytes \in Nat /\ MAX_BYTES \in Nat
        BY RequestAssumption, MaxBytesNat
      <3>2. bytes <= MAX_BYTES
        BY <1>4, <3>1
      <3> QED  BY <1>1, <3>2, UnitsFacts, SizesAssumption DEF FREELIST_INDEX
    <2>2. ASSUME NEW x \in Int, InChunk(o.mem, x)
          PROVE  Listed(o.mem, x) \/ InHands(h, x) \/ InPool(o.mem, x) \/ Within(o.at, n, x)
      <3>1. CASE m.free_list[c] # <<>>
        <4>1. o.at = Head(m.free_list[c]) /\ o.mem = PopFree(m, c)
          BY <1>4, <3>1 DEF allocate
        <4>2. /\ PopFree(m, c).start_free = m.start_free /\ PopFree(m, c).chunks = m.chunks
              /\ BytesLeft(PopFree(m, c)) = BytesLeft(m)
          BY <1>1, <2>1, <3>1, PopFacts DEF BytesLeft
        <4>3. Listed(m, x) \/ InHands(h, x) \/ InPool(m, x)
          BY <2>2, <4>1, <4>2 DEF NoneLost, InChunk
        <4>4. Listed(m, x) => Listed(PopFree(m, c), x) \/ Within(Head(m.free_list[c]), c + 1, x)
          BY <1>1, <2>1, <3>1, PopKeeps
        <4>5. InPool(m, x) => InPool(PopFree(m, c), x)
          BY <4>2 DEF InPool
        <4> HIDE DEF n, c
        <4> QED  BY <2>1, <4>1, <4>3, <4>4, <4>5
      <3>2. CASE m.free_list[c] = <<>>
        <4>1. o \in refill(m, n)
          BY <1>4, <3>2 DEF allocate
        <4> HIDE DEF n, c
        <4>2. PICK q \in chunk_alloc(m, n) : \E k \in ObjectsIn(q, n) :
                 o = [at |-> q.start_free, mem |-> Cut(q, n, k)]
          BY <4>1 DEF refill
        <4>3. PICK k \in ObjectsIn(q, n) : o.at = q.start_free /\ o.mem = Cut(q, n, k)
          BY <4>2
        <4>4. Lists(q, h) /\ Pool(q, h)
          BY <1>1, <2>1, ChunkSound
        <4>5. m.free_list[n - 1] = <<>>
          BY <2>1, <3>2
        <4>6. /\ q.free_list[n - 1] = <<>>
              /\ Listed(m, x) \/ InPool(m, x) => Listed(q, x) \/ InPool(q, x)
              /\ InChunk(q, x) => InChunk(m, x) \/ InPool(q, x)
          BY <1>1, <2>1, <4>5, ChunkKeeps
        <4>7. o.mem.chunks = q.chunks
          BY <4>3, <4>4 DEF Cut, Lists, Members
        <4>8. InChunk(q, x)
          BY <2>2, <4>7 DEF InChunk
        <4>9. Listed(q, x) \/ InHands(h, x) \/ InPool(q, x)
          BY <4>6, <4>8 DEF NoneLost
        <4>10. Listed(q, x) \/ InPool(q, x) =>
                  Listed(o.mem, x) \/ InPool(o.mem, x) \/ Within(q.start_free, n, x)
          BY <2>1, <4>3, <4>4, <4>6, CutKeeps
        <4> QED  BY <4>3, <4>9, <4>10
      <3> QED  BY <3>1, <3>2
    <2> QED  BY <1>2, <2>2 DEF NoneLost, b
  <1> QED  BY <1>3, <1>4

LEMMA DeallocateKeeps ==
    ASSUME NEW m, NEW h, Safe(m, h), NoneLost(m, h), NEW b \in h
    PROVE  NoneLost(deallocate(m, b), h \ {b})
  <1> DEFINE g == h \ {b}
             n == Units(b.bytes)
             c == FREELIST_INDEX(b.bytes)
             p == deallocate(m, b)
  <1>1. /\ m \in Members /\ b.at \in Address /\ b.bytes \in Request /\ n \in Nat \ {0}
    BY UnitsFacts DEF Safe, Lists, Block
  <1>2. \A x \in Int : InHands(h, x) => InHands(g, x) \/ Within(b.at, n, x)
    BY DEF InHands
  <1>3. CASE ~ b.bytes > MAX_BYTES
    <2>1. c \in Classes /\ c + 1 = n
      <3>1. b.bytes \in Nat /\ MAX_BYTES \in Nat
        BY <1>1, RequestAssumption, MaxBytesNat
      <3>2. b.bytes <= MAX_BYTES
        BY <1>3, <3>1
      <3> QED  BY <1>1, <3>2, UnitsFacts DEF FREELIST_INDEX
    <2>2. p = PushFree(m, c, b.at)
      BY <1>3 DEF deallocate
    <2> HIDE DEF n, c, g, p
    <2>3. /\ p.start_free = m.start_free /\ p.chunks = m.chunks /\ BytesLeft(p) = BytesLeft(m)
      BY <1>1, <2>1, <2>2, PushFacts DEF BytesLeft
    <2>4. \A x \in Int : Listed(m, x) \/ Within(b.at, n, x) => Listed(p, x)
      BY <1>1, <2>1, <2>2, PushKeeps
    <2> QED  BY <1>2, <2>3, <2>4 DEF NoneLost, InChunk, InPool, g, p
  <1>4. CASE b.bytes > MAX_BYTES
    <2>1. p = [m EXCEPT !.chunks = {d \in m.chunks : d.at # b.at}]
      BY <1>4 DEF deallocate
    <2>2. /\ p.free_list = m.free_list
          /\ p.chunks = {d \in m.chunks : d.at # b.at}
          /\ p.start_free = m.start_free /\ p.end_free = m.end_free
      BY <1>1, <2>1 DEF Members
    <2>3. [at |-> b.at, size |-> n] \in m.chunks
      BY <1>4 DEF Safe, Lists, HeldHome
    <2> HIDE DEF p
    <2>4. ASSUME NEW x \in Int, InChunk(p, x)
          PROVE  InChunk(m, x) /\ ~ Within(b.at, n, x)
      <3>1. PICK d \in m.chunks : d.at # b.at /\ Within(d.at, d.size, x)
        BY <2>2, <2>4 DEF InChunk
      <3> DEFINE e == [at |-> b.at, size |-> n]
      <3>2. e \in m.chunks /\ e.at = b.at /\ e.size = n /\ e # d
        BY <2>3, <3>1
      <3> HIDE DEF e, n
      <3>3. Apart(e.at, e.size, d.at, d.size)
        BY <3>2 DEF Safe, Lists, ChunksApart
      <3>4. d.at \in Nat /\ d.size \in Nat
        BY <1>1 DEF Members, Chunk, Address
      <3> QED  BY <1>1, <3>1, <3>2, <3>3, <3>4 DEF InChunk, Within, Apart, Address
    <2>5. \A x \in Int : (Listed(m, x) => Listed(p, x)) /\ (InPool(m, x) => InPool(p, x))
      BY <2>2 DEF Listed, InPool, BytesLeft
    <2> HIDE DEF g, n
    <2> QED  BY <1>2, <2>4, <2>5 DEF NoneLost, g, p
  <1> QED  BY <1>3, <1>4

-----------------------------------------------------------------------------
(* The calls count what they ask malloc for.                               *)

LEMMA Counting ==
    ASSUME NEW G, IsFiniteSet(G), NEW a \in Nat, NEW n \in Nat \ {0},
           \A x \in Extent(a, n) : x \notin G
    PROVE  /\ IsFiniteSet(G \union Extent(a, n))
           /\ Cardinality(G \union Extent(a, n)) = Cardinality(G) + n
  <1> DEFINE E == Extent(a, n)
  <1>1. IsFiniteSet(E) /\ Cardinality(E) = n
    <2>1. a + n - 1 \in Int /\ ~ a > a + n - 1 /\ a + n - 1 - a + 1 = n
      OBVIOUS
    <2> QED  BY <2>1, FS_Interval DEF Extent
  <1> HIDE DEF E
  <1>2. G \cap E = {}
    BY DEF E
  <1>3. Cardinality(G) \in Nat
    BY FS_CardinalityType
  <1> QED  BY <1>1, <1>2, <1>3, FS_Union, FS_EmptySet DEF E

\* A chunk that malloc gave to the pool adds its units to those of the others.
LEMMA GrownBy ==
    ASSUME NEW m \in Members, NEW h, h \subseteq Block, Counted(m, h),
           NEW a \in Nat, NEW n \in Nat \ {0}, a \notin Large(h),
           \A c \in m.chunks : Apart(a, n, c.at, c.size),
           NEW q, q.chunks = m.chunks \union {[at |-> a, size |-> n]},
           q.heap_size = m.heap_size + n
    PROVE  Counted(q, h)
  <1> DEFINE new == [at |-> a, size |-> n]
             G == Grown(m, h)
  <1>1. new.at = a /\ new.size = n /\ q.chunks = m.chunks \union {new}
    OBVIOUS
  <1> HIDE DEF new
  <1>2. Grown(q, h) = G \union Extent(a, n)
    <2>1. {d \in q.chunks : d.at \notin Large(h)} = {d \in m.chunks : d.at \notin Large(h)} \union {new}
      BY <1>1
    <2> QED  BY <1>1, <2>1 DEF Grown
  <1>3. ASSUME NEW x \in Extent(a, n), x \in G
        PROVE  FALSE
    <2>1. PICK d \in m.chunks : x \in Extent(d.at, d.size)
      BY <1>3 DEF Grown
    <2>2. d.at \in Nat /\ d.size \in Nat
      BY DEF Members, Chunk, Address
    <2>3. Apart(a, n, d.at, d.size)
      OBVIOUS
    <2> QED  BY <1>3, <2>1, <2>2, <2>3 DEF Apart, Extent
  <1>4. IsFiniteSet(G) /\ m.heap_size = Cardinality(G)
    BY DEF Counted
  <1> HIDE DEF G
  <1> QED  BY <1>2, <1>3, <1>4, Counting DEF Counted

LEMMA CountedFrame ==
    ASSUME NEW m, NEW h, Counted(m, h), NEW p, p.chunks = m.chunks, p.heap_size = m.heap_size,
           NEW g, Large(g) = Large(h)
    PROVE  Counted(p, g)
  BY DEF Counted, Grown

LEMMA ChunkCounts ==
    ASSUME NEW m, NEW h, Lists(m, h), Pool(m, h), Counted(m, h),
           NEW size \in 1 .. NFREELISTS, NEW q \in chunk_alloc(m, size)
    PROVE  Counted(q, h)
  <1>1. CASE BytesLeft(m) >= size
    BY <1>1 DEF chunk_alloc
  <1>2. CASE ~ BytesLeft(m) >= size
    <2> DEFINE r == KeepResidue(m)
    <2>0. BytesLeft(m) < size
      BY <1>2, SizesAssumption DEF BytesLeft, Lists, Members
    <2>1. /\ Lists(r, h) /\ r \in Members /\ h \subseteq Block
          /\ r.chunks = m.chunks /\ r.heap_size = m.heap_size
      BY <2>0, ResidueSound, ResidueKeeps DEF Lists
    <2> HIDE DEF r
    <2>2. Counted(r, h)
      BY <2>1, CountedFrame
    <2>3. CASE q \in PoolsFromHeap(r, size)
      <3> DEFINE n == BytesToGet(r, size)
      <3>1. n \in Nat \ {0}
        BY <2>1, BytesToGetFacts, SizesAssumption
      <3> HIDE DEF n
      <3>2. PICK a \in MallocBases(r, n) :
               q = [r EXCEPT !.start_free = a, !.end_free = a + n, !.heap_size = @ + n,
                             !.chunks = @ \union {[at |-> a, size |-> n]}]
        BY <2>3 DEF PoolsFromHeap, n
      <3>3. a \in Nat /\ \A c \in r.chunks : Apart(a, n, c.at, c.size)
        BY BasesAssumption DEF MallocBases
      <3>4. /\ q.chunks = r.chunks \union {[at |-> a, size |-> n]}
            /\ q.heap_size = r.heap_size + n
        BY <2>1, <3>2 DEF Members
      <3>5. a \notin Large(h)
        <4> SUFFICES ASSUME NEW b \in h, b.bytes > MAX_BYTES, b.at = a
                     PROVE  FALSE
          BY DEF Large
        <4>1. Apart(b.at, Units(b.bytes), a, n)
          BY <2>1, <3>1, <3>3, OutsideLoose
        <4>2. Units(b.bytes) \in Nat \ {0}
          BY <2>1, UnitsFacts DEF Block
        <4> QED  BY <3>1, <3>3, <4>1, <4>2 DEF Apart
      <3> QED  BY <2>1, <2>2, <3>1, <3>3, <3>4, <3>5, GrownBy
    <2>4. CASE q \in PoolsFromLists(r, size)
      <3>1. PICK c \in Classes :
               /\ r.free_list[c] # <<>>
               /\ q = [PopFree(r, c) EXCEPT !.start_free = Head(r.free_list[c]),
                                            !.end_free = Head(r.free_list[c]) + c + 1]
        BY <2>4 DEF PoolsFromLists
      <3> DEFINE p == PopFree(r, c)
                 a == Head(r.free_list[c])
      <3>2. p \in Members /\ p.chunks = r.chunks /\ p.heap_size = r.heap_size
        BY <2>1, <3>1, PopFacts
      <3>3. q = [p EXCEPT !.start_free = a, !.end_free = a + c + 1]
        BY <3>1
      <3> HIDE DEF p, a
      <3>4. q.chunks = r.chunks /\ q.heap_size = r.heap_size
        BY <3>2, <3>3 DEF Members
      <3> QED  BY <2>2, <3>4, CountedFrame
    <2> QED  BY <1>2, <2>3, <2>4 DEF chunk_alloc, r
  <1> QED  BY <1>1, <1>2

LEMMA AllocateCounts ==
    ASSUME NEW m, NEW h, Safe(m, h), Counted(m, h),
           NEW bytes \in Request, NEW o \in allocate(m, bytes)
    PROVE  Counted(o.mem, h \union {[at |-> o.at, bytes |-> bytes]})
  <1> DEFINE b == [at |-> o.at, bytes |-> bytes]
             n == Units(bytes)
             c == FREELIST_INDEX(bytes)
             g == h \union {b}
  <1>1. m \in Members /\ Lists(m, h) /\ Pool(m, h) /\ n \in Nat \ {0}
    BY UnitsFacts DEF Safe, Lists
  <1>2. b.bytes = bytes /\ b.at = o.at
    OBVIOUS
  <1> HIDE DEF b
  <1>3. CASE bytes > MAX_BYTES
    <2>1. PICK a \in MallocBases(m, n) :
             o = [at |-> a, mem |-> [m EXCEPT !.chunks = @ \union {[at |-> a, size |-> n]}]]
      BY <1>3 DEF allocate
    <2> DEFINE new == [at |-> a, size |-> n]
    <2>2. /\ o.mem.heap_size = m.heap_size /\ o.at = a /\ new.at = a
          /\ o.mem.chunks = m.chunks \union {new}
      BY <1>1, <2>1 DEF Members
    <2>3. \A d \in m.chunks : d.at # a
      <3>1. a \in Nat /\ \A d \in m.chunks : Apart(a, n, d.at, d.size)
        BY <2>1, BasesAssumption DEF MallocBases
      <3>2. \A d \in m.chunks : d.at \in Nat /\ d.size \in Nat \ {0}
        BY <1>1 DEF Members, Chunk, Address
      <3> HIDE DEF n
      <3> QED  BY <1>1, <3>1, <3>2 DEF Apart
    <2> HIDE DEF new
    <2>4. Large(g) = Large(h) \union {a}
      BY <1>2, <1>3, <2>2 DEF Large
    <2> HIDE DEF g, n
    <2>5. {d \in o.mem.chunks : d.at \notin Large(g)} = {d \in m.chunks : d.at \notin Large(h)}
      BY <2>2, <2>3, <2>4
    <2>6. Grown(o.mem, g) = Grown(m, h)
      BY <2>5 DEF Grown
    <2> QED  BY <2>2, <2>6 DEF Counted, g, b
  <1>4. CASE ~ bytes > MAX_BYTES
    <2>1. c \in Classes /\ c = n - 1 /\ n \in 1 .. NFREELISTS
      <3>1. bytes \in Nat /\ MAX_BYTES \in Nat
        BY RequestAssumption, MaxBytesNat
      <3>2. bytes <= MAX_BYTES
        BY <1>4, <3>1
      <3> QED  BY <1>1, <3>2, UnitsFacts, SizesAssumption DEF FREELIST_INDEX
    <2>2. Large(g) = Large(h)
      BY <1>2, <1>4 DEF Large
    <2>3. Counted(o.mem, h)
      <3>1. CASE m.free_list[c] # <<>>
        <4>1. o.mem = PopFree(m, c)
          BY <1>4, <3>1 DEF allocate
        <4>2. PopFree(m, c).chunks = m.chunks /\ PopFree(m, c).heap_size = m.heap_size
          BY <1>1, <2>1, <3>1, PopFacts
        <4> QED  BY <4>1, <4>2, CountedFrame
      <3>2. CASE m.free_list[c] = <<>>
        <4>1. o \in refill(m, n)
          BY <1>4, <3>2 DEF allocate
        <4> HIDE DEF n, c
        <4>2. PICK q \in chunk_alloc(m, n) : \E k \in ObjectsIn(q, n) :
                 o = [at |-> q.start_free, mem |-> Cut(q, n, k)]
          BY <4>1 DEF refill
        <4>3. PICK k \in ObjectsIn(q, n) : o.mem = Cut(q, n, k)
          BY <4>2
        <4>4. Lists(q, h) /\ Counted(q, h)
          BY <1>1, <2>1, ChunkSound, ChunkCounts
        <4>5. o.mem.chunks = q.chunks /\ o.mem.heap_size = q.heap_size
          BY <4>3, <4>4 DEF Cut, Lists, Members
        <4> QED  BY <4>4, <4>5, CountedFrame
      <3> QED  BY <3>1, <3>2
    <2> HIDE DEF g
    <2>4. Counted(o.mem, g)
      BY <2>2, <2>3, CountedFrame
    <2> QED  BY <2>4 DEF g, b
  <1> QED  BY <1>3, <1>4

LEMMA DeallocateCounts ==
    ASSUME NEW m, NEW h, Safe(m, h), Counted(m, h), NEW b \in h
    PROVE  Counted(deallocate(m, b), h \ {b})
  <1> DEFINE g == h \ {b}
             c == FREELIST_INDEX(b.bytes)
             p == deallocate(m, b)
  <1>1. m \in Members /\ b.at \in Address /\ b.bytes \in Request /\ h \subseteq Block
    BY DEF Safe, Lists, Block
  <1>2. CASE ~ b.bytes > MAX_BYTES
    <2>1. c \in Classes
      <3>1. b.bytes \in Nat /\ MAX_BYTES \in Nat
        BY <1>1, RequestAssumption, MaxBytesNat
      <3>2. b.bytes <= MAX_BYTES
        BY <1>2, <3>1
      <3> QED  BY <1>1, <3>2, UnitsFacts
    <2>2. p = PushFree(m, c, b.at)
      BY <1>2 DEF deallocate
    <2>3. Large(g) = Large(h)
      BY <1>2 DEF Large
    <2> HIDE DEF c, g, p
    <2>4. p.chunks = m.chunks /\ p.heap_size = m.heap_size
      BY <1>1, <2>1, <2>2, PushFacts
    <2>5. Counted(p, g)
      BY <2>3, <2>4, CountedFrame
    <2> QED  BY <2>5 DEF p, g
  <1>3. CASE b.bytes > MAX_BYTES
    <2>1. p = [m EXCEPT !.chunks = {d \in m.chunks : d.at # b.at}]
      BY <1>3 DEF deallocate
    <2>2. p.chunks = {d \in m.chunks : d.at # b.at} /\ p.heap_size = m.heap_size
      BY <1>1, <2>1 DEF Members
    <2> HIDE DEF p
    <2>3. \A x \in g : x.at # b.at
      <3> SUFFICES ASSUME NEW x \in g PROVE x.at # b.at
        OBVIOUS
      <3>1. x \in Block /\ b \in Block /\ Apart(x.at, Units(x.bytes), b.at, Units(b.bytes))
        BY DEF Safe, Lists, HeldApart
      <3>2. Units(x.bytes) \in Nat \ {0} /\ Units(b.bytes) \in Nat \ {0}
        BY <3>1, UnitsFacts DEF Block
      <3> QED  BY <3>1, <3>2 DEF Block, Address, Apart
    <2>4. Large(h) = Large(g) \union {b.at}
      BY <1>3 DEF Large
    <2>5. b.at \notin Large(g)
      BY <2>3 DEF Large
    <2> HIDE DEF g
    <2>6. {d \in p.chunks : d.at \notin Large(g)} = {d \in m.chunks : d.at \notin Large(h)}
      BY <2>2, <2>4, <2>5
    <2>7. Counted(p, g)
      BY <2>2, <2>6 DEF Counted, Grown
    <2> QED  BY <2>7 DEF p, g
  <1> QED  BY <1>2, <1>3

-----------------------------------------------------------------------------
(* The specification.                                                      *)

Kept(m, h) == Safe(m, h) /\ NoneLost(m, h) /\ Counted(m, h)

LEMMA AllocateKept ==
    ASSUME NEW m, NEW h, Kept(m, h), NEW bytes \in Request, NEW o \in allocate(m, bytes)
    PROVE  Kept(o.mem, h \union {[at |-> o.at, bytes |-> bytes]})
  BY AllocateSound, AllocateKeeps, AllocateCounts DEF Kept

LEMMA DeallocateKept ==
    ASSUME NEW m, NEW h, Kept(m, h), NEW b \in h
    PROVE  Kept(deallocate(m, b), h \ {b})
  BY DeallocateSound, DeallocateKeeps, DeallocateCounts DEF Kept

LEMMA InitKept == Init => Kept(mem, held)
  <1> SUFFICES ASSUME Init PROVE Kept(mem, held)
    OBVIOUS
  <1>1. Safe(mem, held)
    BY InitInd DEF Ind
  <1>2. mem.chunks = {} /\ mem.heap_size = 0
    BY DEF Init
  <1>3. NoneLost(mem, held)
    BY <1>2 DEF NoneLost, InChunk
  <1>4. Grown(mem, held) = {}
    BY <1>2 DEF Grown
  <1>5. Counted(mem, held)
    BY <1>2, <1>4, FS_EmptySet DEF Counted
  <1> QED  BY <1>1, <1>3, <1>5 DEF Kept

LEMMA NextKept == Kept(mem, held) /\ [Next]_vars => Kept(mem, held)'
  <1> SUFFICES ASSUME Kept(mem, held), [Next]_vars PROVE Kept(mem', held')
    BY DEF Kept, Safe, NoneLost, Counted
  <1>1. ASSUME NEW bytes \in Request, Allocate(bytes) PROVE Kept(mem', held')
    <2>1. PICK o \in allocate(mem, bytes) :
             mem' = o.mem /\ held' = held \union {[at |-> o.at, bytes |-> bytes]}
      BY <1>1 DEF Allocate
    <2> QED  BY <2>1, AllocateKept
  <1>2. ASSUME NEW b \in held, Deallocate(b) PROVE Kept(mem', held')
    BY <1>2, DeallocateKept DEF Deallocate
  <1>3. ASSUME NEW b \in held, NEW bytes \in Request, Reallocate(b, bytes)
        PROVE  Kept(mem', held')
    <2>1. PICK o \in allocate(deallocate(mem, b), bytes) :
             mem' = o.mem /\ held' = (held \ {b}) \union {[at |-> o.at, bytes |-> bytes]}
      BY <1>3 DEF Reallocate
    <2>2. Kept(deallocate(mem, b), held \ {b})
      BY DeallocateKept
    <2> QED  BY <2>1, <2>2, AllocateKept
  <1>4. ASSUME NEW m, NEW bytes, Fault(m, bytes) PROVE Kept(mem', held')
    BY <1>4 DEF Fault
  <1>5. CASE UNCHANGED vars
    BY <1>5 DEF vars
  <1> QED  BY <1>1, <1>2, <1>3, <1>4, <1>5 DEF Next

\* What has its home in a chunk lies in it.
LEMMA HomeInChunk ==
    ASSUME NEW m \in Members, NEW h, NEW a \in Nat, NEW n \in Nat, Home(m, h, a, n),
           NEW x \in Int, Within(a, n, x)
    PROVE  InChunk(m, x)
  <1>1. \A d \in m.chunks : d.at \in Nat /\ d.size \in Nat
    BY DEF Members, Chunk, Address
  <1>2. PICK d \in m.chunks : d.at <= a /\ a + n <= d.at + d.size
    BY DEF Home, Within
  <1> QED  BY <1>1, <1>2 DEF InChunk, Within

LEMMA OnlyInChunks ==
    ASSUME NEW m, NEW h, Safe(m, h), NEW x \in Int,
           Listed(m, x) \/ InHands(h, x) \/ InPool(m, x)
    PROVE  InChunk(m, x)
  <1>1. m \in Members /\ h \subseteq Block
    BY DEF Safe, Lists
  <1>2. CASE Listed(m, x)
    <2>1. PICK c \in Classes : \E i \in 1 .. Len(m.free_list[c]) : Within(m.free_list[c][i], c + 1, x)
      BY <1>2 DEF Listed
    <2>2. PICK i \in 1 .. Len(m.free_list[c]) : Within(m.free_list[c][i], c + 1, x)
      BY <2>1
    <2>3. m.free_list[c][i] \in Nat /\ c + 1 \in Nat /\ Home(m, h, m.free_list[c][i], c + 1)
      BY <1>1, SizesAssumption DEF Members, Address, Classes, Safe, Lists, FreeHome
    <2> QED  BY <1>1, <2>2, <2>3, HomeInChunk
  <1>3. CASE InHands(h, x)
    <2>1. PICK b \in h : Within(b.at, Units(b.bytes), x)
      BY <1>3 DEF InHands
    <2>2. b.at \in Nat /\ Units(b.bytes) \in Nat
      BY <1>1, UnitsFacts DEF Block, Address
    <2>3. CASE b.bytes > MAX_BYTES
      BY <2>1, <2>3 DEF Safe, Lists, HeldHome, InChunk
    <2>4. CASE ~ b.bytes > MAX_BYTES
      <3>1. Home(m, h, b.at, Units(b.bytes))
        BY <2>4 DEF Safe, Lists, HeldHome
      <3> QED  BY <1>1, <2>1, <2>2, <3>1, HomeInChunk
    <2> QED  BY <2>3, <2>4
  <1>4. CASE InPool(m, x)
    <2>1. /\ m.start_free \in Nat /\ BytesLeft(m) \in Nat
          /\ Home(m, h, m.start_free, BytesLeft(m))
      BY <1>1 DEF Members, Safe, Pool, Loose, BytesLeft
    <2> QED  BY <1>1, <1>4, <2>1, HomeInChunk DEF InPool
  <1> QED  BY <1>2, <1>3, <1>4

\* A block is the units within it.
LEMMA ExtentIs ==
    ASSUME NEW a \in Int, NEW n \in Int, NEW x
    PROVE  x \in Extent(a, n) <=> x \in Int /\ Within(a, n, x)
  BY DEF Extent, Within

LEMMA AccountedAll == Kept(mem, held) => NothingLost
  <1> SUFFICES ASSUME Kept(mem, held) PROVE NothingLost
    OBVIOUS
  <1>1. mem \in Members /\ held \subseteq Block
    BY DEF Kept, Safe, Lists
  <1> DEFINE L == UNION {UNION {Extent(mem.free_list[c][i], c + 1) :
                                   i \in 1 .. Len(mem.free_list[c])} : c \in Classes}
             H == UNION {Extent(b.at, Units(b.bytes)) : b \in held}
             P == Extent(mem.start_free, BytesLeft(mem))
             C == UNION {Extent(d.at, d.size) : d \in mem.chunks}
  <1>2. \A x : x \in L <=> x \in Int /\ Listed(mem, x)
    <2>1. \A c \in Classes : \A i \in 1 .. Len(mem.free_list[c]) : \A x :
             x \in Extent(mem.free_list[c][i], c + 1)
               <=> x \in Int /\ Within(mem.free_list[c][i], c + 1, x)
      <3>1. \A c \in Classes : \A i \in 1 .. Len(mem.free_list[c]) :
               mem.free_list[c][i] \in Int /\ c + 1 \in Int
        BY <1>1, SizesAssumption DEF Members, Address, Classes
      <3> QED  BY <3>1, ExtentIs
    <2>2. \A x : x \in L <=> \E c \in Classes : \E i \in 1 .. Len(mem.free_list[c]) :
                                  x \in Extent(mem.free_list[c][i], c + 1)
      OBVIOUS
    <2> QED  BY <2>1, <2>2 DEF Listed
  <1>3. \A x : x \in H <=> x \in Int /\ InHands(held, x)
    <2>1. \A b \in held : b.at \in Int /\ Units(b.bytes) \in Int
      BY <1>1, UnitsFacts DEF Block, Address
    <2> QED  BY <2>1, ExtentIs DEF InHands
  <1>4. \A x : x \in P <=> x \in Int /\ InPool(mem, x)
    <2>1. mem.start_free \in Int /\ BytesLeft(mem) \in Int
      BY <1>1 DEF Members, BytesLeft
    <2> QED  BY <2>1, ExtentIs DEF InPool
  <1>5. \A x : x \in C <=> x \in Int /\ InChunk(mem, x)
    <2>1. \A d \in mem.chunks : d.at \in Int /\ d.size \in Int
      BY <1>1 DEF Members, Chunk, Address
    <2> QED  BY <2>1, ExtentIs DEF InChunk
  <1>6. \A x \in Int : InChunk(mem, x) <=> Listed(mem, x) \/ InHands(held, x) \/ InPool(mem, x)
    BY OnlyInChunks DEF Kept, NoneLost
  <1>7. Accounted = L \union H \union P
    BY DEF Accounted
  <1> HIDE DEF L, H, P, C
  <1>8. L \union H \union P = C
    BY <1>2, <1>3, <1>4, <1>5, <1>6
  <1> QED  BY <1>7, <1>8 DEF NothingLost, C

(***************************************************************************)
(* The allocator forgets no memory: every unit malloc gave is in exactly   *)
(* the free blocks, the held blocks and the pool, and heap_size is what    *)
(* the pool was given, whatever the order of the calls and whenever malloc *)
(* fails, the leftover of a pool and a block turned back into a pool       *)
(* included (alloc.cpp:14-138).                                            *)
(***************************************************************************)
THEOREM NothingForgotten == Spec => []MemoryAccounted
  <1>1. Init => Kept(mem, held)
    BY InitKept
  <1>2. Kept(mem, held) /\ [Next]_vars => Kept(mem, held)'
    BY NextKept
  <1>3. Kept(mem, held) => NothingLost /\ HeapSizeExact
    <2>1. Kept(mem, held) => HeapSizeExact
      BY DEF Kept, Counted, Grown, Large, HeapSizeExact, LargeAt
    <2> QED  BY <2>1, AccountedAll
  <1>4. TypeOK /\ NothingLost /\ HeapSizeExact => MemoryAccounted
    BY DEF MemoryAccounted
  <1> QED  BY <1>1, <1>2, <1>3, <1>4, TypeCorrect, PTL DEF Spec
=============================================================================
