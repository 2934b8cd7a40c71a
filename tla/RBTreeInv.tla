------------------------------ MODULE RBTreeInv ------------------------------
(***************************************************************************)
(* What RBTreeProofs says of trees, and the inductive invariant it proves  *)
(* of QueueSpec.                                                           *)
(*                                                                         *)
(* The operators speak of the maps of the tree: pa, lf, rt and co for the  *)
(* links and colours before, pb, lg, rg and cp for those after a change; L *)
(* is the set of the nodes that hang in it and sub[n] the set of those     *)
(* below n, n included, which no variable of the program holds: a ghost    *)
(* that takes the place of recursion over the tree.  h[n] is how many are  *)
(* black below n.  They come in the order of the lemmas that use them.     *)
(***************************************************************************)
EXTENDS RBTree

-----------------------------------------------------------------------------
(* Trees.                                                                  *)

\* The nodes below a link.
Under(sub, c) == IF c = Nil THEN {} ELSE sub[c]

Links(pa, lf, rt) == {pa, lf, rt} \subseteq [Addr -> Addr \cup {Nil}]

\* The nodes of L hang from the header by links that agree, and sub[n] is what is
\* below n, n included.
Tied(pa, lf, rt, L, sub) ==
    /\ L \subseteq Node
    /\ Links(pa, lf, rt)
    /\ sub \in [L -> SUBSET L]
    /\ pa[Header] \in L \cup {Nil}
    /\ pa[Header] = Nil <=> L = {}
    /\ pa[Header] # Nil => pa[pa[Header]] = Header /\ sub[pa[Header]] = L
    /\ \A n \in L :
        /\ pa[n] \in L \cup {Header} /\ lf[n] \in L \cup {Nil} /\ rt[n] \in L \cup {Nil}
        /\ pa[n] = Header => n = pa[Header]
        /\ pa[n] # Header => lf[pa[n]] = n \/ rt[pa[n]] = n
        /\ lf[n] # Nil => pa[lf[n]] = n
        /\ rt[n] # Nil => pa[rt[n]] = n
        /\ sub[n] = {n} \cup Under(sub, lf[n]) \cup Under(sub, rt[n])
        /\ n \notin Under(sub, lf[n]) \cup Under(sub, rt[n])
        /\ Under(sub, lf[n]) \cap Under(sub, rt[n]) = {}

-----------------------------------------------------------------------------
(* Rotations.                                                              *)

\* What a rotation writes: y, the rt child of x, takes its place.
Turned(pa, lf, rt, x, y, pb, lg, rg) ==
    /\ y = rt[x]
    /\ pb = [a \in Addr |-> IF a = x THEN y ELSE IF a = y THEN pa[x] ELSE IF a = lf[y] THEN x
                           ELSE IF a = Header /\ x = pa[Header] THEN y ELSE pa[a]]
    /\ rg = [a \in Addr |-> IF a = x THEN lf[y]
                           ELSE IF a = pa[x] /\ x # pa[Header] /\ rt[a] = x THEN y ELSE rt[a]]
    /\ lg = [a \in Addr |-> IF a = y THEN x
                           ELSE IF a = pa[x] /\ x # pa[Header] /\ rt[a] # x THEN y ELSE lf[a]]

\* ... and what is below the two then.
TurnedSub(sub, lf, x, y) == [sub EXCEPT ![y] = sub[x], ![x] = {x} \cup Under(sub, lf[x]) \cup Under(sub, lf[y])]

\* Who is who around a rotation.
Around(pa, lf, rt, L, sub, x, y, z, p) ==
    /\ x \in L /\ y \in L /\ z \in L \cup {Nil} /\ p \in L \cup {Header}
    /\ y = rt[x] /\ z = lf[y] /\ p = pa[x] /\ pa[y] = x
    /\ x # y /\ z # x /\ z # y /\ p # x /\ p # y /\ p # z
    /\ Nil \notin L /\ Header \notin L /\ L \subseteq Addr
    /\ p = Header <=> x = pa[Header]
    /\ p = Header => pa[Header] = x
    /\ p # Header => /\ lf[p] = x \/ rt[p] = x
                     /\ ~ (lf[p] = x /\ rt[p] = x)
    /\ z # Nil => pa[z] = y
    /\ lf[x] # x /\ lf[x] # y /\ rt[y] # x /\ rt[y] # y

-----------------------------------------------------------------------------
(* Order, heights and colours.                                             *)

\* The search order, for any keys.
Sorted(key, lf, rt, L, sub) ==
    \A n \in L : /\ \A m \in Under(sub, lf[n]) : key[m] <= key[n]
                 /\ \A m \in Under(sub, rt[n]) : key[n] <= key[m]

\* e ends the walk along sd from the root.
First(sd, L, sub, e) ==
    /\ e \in L /\ sd[e] = Nil
    /\ \A a \in L : e \in sub[a] => a = e \/ e \in Under(sub, sd[a])

H(h, c) == IF c = Nil THEN 0 ELSE h[c]
Bk(co, n) == IF co[n] = Black THEN 1 ELSE 0
Gap(g, n) == IF g = n THEN 1 ELSE 0

\* h[n] blacks on every path from n down, but one is missing on the left of hl
\* and one on the right of hr.
Heights(lf, rt, co, L, h, hl, hr) ==
    /\ h \in [L -> Nat]
    /\ \A n \in L : /\ h[n] = Bk(co, n) + H(h, lf[n]) + Gap(hl, n)
                    /\ h[n] = Bk(co, n) + H(h, rt[n]) + Gap(hr, n)

\* No red node has a red parent, but a and the children of b.
RedFree(pa, co, L, a, b) == \A n \in L : co[n] = Red /\ co[pa[n]] = Red => n = a \/ pa[n] = b

Swapped(f, x, y) == [f EXCEPT ![x] = f[y], ![y] = f[x]]
NephewColours(co, x, y, w) == [co EXCEPT ![y] = co[x], ![x] = Black, ![w] = Black]
NephewBlacks(h, x, y, w) == [h EXCEPT ![y] = h[x], ![x] = h[w] + 1, ![w] = h[w] + 1]

\* The situation of the lemmas: a rotation of a tree.
Rotated(pa, lf, rt, L, sub, x, y, z, p, sb, pb, lg, rg) ==
    /\ Tied(pa, lf, rt, L, sub)
    /\ Around(pa, lf, rt, L, sub, x, y, z, p)
    /\ sb = TurnedSub(sub, lf, x, y)
    /\ Turned(pa, lf, rt, x, y, pb, lg, rg)

\* The children of n, but x, keep their heights.
SameBelow(pa, L, x, n, h, hb) == \A c \in L : pa[c] = n /\ c # x => hb[c] = h[c]

Trees == [parent : [Addr -> Addr \cup {Nil}], left : [Addr -> Addr \cup {Nil}],
          right : [Addr -> Addr \cup {Nil}], color : [Addr -> {Red, Black}]]

Fields(t, pa, lf, rt, co) == t = [parent |-> pa, left |-> lf, right |-> rt, color |-> co]

\* The writes of Rotate, one map after the other.
NewParents(pa, x, y, z, p) ==
    LET q == IF z = Nil THEN [pa EXCEPT ![x] = y, ![y] = p] ELSE [[pa EXCEPT ![x] = y, ![y] = p] EXCEPT ![z] = x]
    IN  IF x = pa[Header] THEN [q EXCEPT ![Header] = y] ELSE q
NewDown(pa, rt, x, y, z, p) ==
    IF x # pa[Header] /\ rt[p] = x THEN [[rt EXCEPT ![x] = z] EXCEPT ![p] = y] ELSE [rt EXCEPT ![x] = z]
NewUp(pa, lf, rt, x, y, p) ==
    IF x # pa[Header] /\ rt[p] # x THEN [[lf EXCEPT ![y] = x] EXCEPT ![p] = y] ELSE [lf EXCEPT ![y] = x]

\* Rotate() with its local names given from outside: the parents it writes, the
\* tree before the last write, and that write.
RotateParents(pa, x, y, z, p) ==
    LET parent1 == [pa EXCEPT ![x] = y, ![y] = p]
    IN  IF z = Nil THEN parent1 ELSE [parent1 EXCEPT ![z] = x]

RotateInside(t, x, u, down, y, z, q) ==
    SetChild(SetChild([t EXCEPT !.parent = q], down, x, z), u, y, x)

RotateOutside(t, x, u, down, y, p, s) ==
    IF x = Root(t) THEN [s EXCEPT !.parent[Header] = y]
    ELSE SetChild(s, IF t[down][p] = x THEN down ELSE u, p, y)

\* What is true of the tree all along: the black missing left of hl or right of
\* hr, and a with its parent both red, are the work left to a fixup.
Fine(pa, lf, rt, co, key, L, sub, h, hl, hr, a) ==
    /\ Tied(pa, lf, rt, L, sub)
    /\ Sorted(key, lf, rt, L, sub)
    /\ L # {} => First(lf, L, sub, lf[Header]) /\ First(rt, L, sub, rt[Header])
    /\ Heights(lf, rt, co, L, h, hl, hr)
    /\ RedFree(pa, co, L, a, Nil)
    /\ co \in [Addr -> {Red, Black}] /\ co[Header] = Red
    /\ key \in [Node -> Int]

Neg(key) == [n \in Node |-> - key[n]]

TurnKeeps(pa, lf, rt, cp, key, L, sub, x, y, sb, pb, lg, rg) ==
    /\ Rotated(pa, lf, rt, L, sub, x, y, lf[y], pa[x], sb, pb, lg, rg)
    /\ \A hb, kl, kr, b : Heights(lg, rg, cp, L, hb, kl, kr) /\ RedFree(pb, cp, L, b, Nil)
                             => Fine(pb, lg, rg, cp, key, L, sb, hb, kl, kr, b)
    /\ lg[x] = lf[x] /\ lg[y] = x
    /\ pb[Header] = IF x = pa[Header] THEN y ELSE pa[Header]
    /\ lg[Header] = lf[Header] /\ rg[Header] = rt[Header]
    /\ lf[Header] \in sub[x] => lf[Header] \in sb[x]

\* The tree after a rotation at x.
TurnedTo(pa, lf, rt, key, L, sub, x, y, pb, lg, rg, cp, hl, hr, a) ==
    \E sb, hb : /\ Fine(pb, lg, rg, cp, key, L, sb, hb, hl, hr, a)
                /\ lg[x] = lf[x] /\ lg[y] = x
                /\ pb[Header] = IF x = pa[Header] THEN y ELSE pa[Header]
                /\ lg[Header] = lf[Header] /\ rg[Header] = rt[Header]
                /\ lf[Header] \in sub[x] => lf[Header] \in sb[x]

\* Only the links and the colours of the linked nodes and the header matter.
Agree(f, g, L) == \A n \in L \cup {Header} : f[n] = g[n]

UncleColours(co, p, u, g) == [co EXCEPT ![p] = Black, ![u] = Black, ![g] = Red]
UncleBlacks(h, p, u) == [h EXCEPT ![p] = h[p] + 1, ![u] = h[u] + 1]

RootColours(co, r) == [co EXCEPT ![r] = Black]
RootBlacks(h, co, r) == [h EXCEPT ![r] = IF co[r] = Red THEN h[r] + 1 ELSE h[r]]

MovedColours(co, x, y) == [co EXCEPT ![y] = Red, ![x] = Black]
MovedBlacks(h, co, x, y) == [h EXCEPT ![y] = h[y] - 1, ![x] = IF co[x] = Black THEN h[x] - 1 ELSE h[x]]

-----------------------------------------------------------------------------
(* A new leaf.                                                             *)

\* n, new and red, on the left of p.
Hung(pa, lf, rt, co, n, p, pb, lg, rg, cp) ==
    /\ pb = [pa EXCEPT ![n] = p]
    /\ lg = [a \in Addr |-> IF a = n THEN Nil ELSE IF a = p \/ (a = Header /\ lf[Header] = p) THEN n ELSE lf[a]]
    /\ rg = [rt EXCEPT ![n] = Nil]
    /\ cp = [co EXCEPT ![n] = Red]

\* A key from lo to hi may stand on the left of p.
Fits(key, lf, rt, L, sub, lo, hi, p) ==
    /\ hi <= key[p]
    /\ \A a \in L : /\ p \in Under(sub, lf[a]) => hi <= key[a]
                    /\ p \in Under(sub, rt[a]) => key[a] <= lo

HungSub(sub, L, n, p) == [m \in L \cup {n} |-> IF m = n THEN {n} ELSE IF p \in sub[m] THEN sub[m] \cup {n} ELSE sub[m]]
HungBlacks(h, L, n) == [m \in L \cup {n} |-> IF m = n THEN 0 ELSE h[m]]

HangsUnder(lf, rt, L, sub, n, p, lg, rg, sb) ==
    /\ sb \in [L \cup {n} -> SUBSET (L \cup {n})] /\ sb[n] = {n}
    /\ \A m \in L : sb[m] = IF p \in sub[m] THEN sub[m] \cup {n} ELSE sub[m]
    /\ Under(sb, lg[n]) = {} /\ Under(sb, rg[n]) = {}
    /\ \A m \in L : Under(sb, rg[m]) = IF p \in Under(sub, rt[m]) THEN Under(sub, rt[m]) \cup {n} ELSE Under(sub, rt[m])
    /\ \A m \in L : Under(sb, lg[m]) = IF m = p THEN {n}
                                       ELSE IF p \in Under(sub, lf[m]) THEN Under(sub, lf[m]) \cup {n} ELSE Under(sub, lf[m])

LinkedLeft(lf, n, p) ==
    IF p = lf[Header] THEN [[lf EXCEPT ![n] = Nil] EXCEPT ![p] = n, ![Header] = n] ELSE [[lf EXCEPT ![n] = Nil] EXCEPT ![p] = n]

SeedSub(n) == [m \in {n} |-> {n}]
SeedBlacks(n) == [m \in {n} |-> 0]

-----------------------------------------------------------------------------
(* The first node taken out.                                               *)

\* z, the first node, taken out; x stands below it on the right, or nothing.
Unhung(pa, lf, rt, x, p, pb, lg, rg) ==
    /\ pb = [a \in Addr |-> IF a = x THEN p ELSE IF a = Header /\ p = Header THEN x ELSE pa[a]]
    /\ lg = [a \in Addr |-> IF a = Header THEN IF x = Nil THEN p ELSE x ELSE IF a = p THEN x ELSE lf[a]]
    /\ rg = [a \in Addr |-> IF a = Header /\ p = Header /\ x = Nil THEN Nil ELSE rt[a]]

\* Who is who around it.
AtFirst(pa, lf, rt, co, L, sub, z, x, p) ==
    /\ z \in L /\ z = lf[Header] /\ x = rt[z] /\ p = pa[z] /\ lf[z] = Nil
    /\ x # Nil => /\ x \in L /\ x # z /\ x # p /\ pa[x] = z /\ lf[x] = Nil /\ rt[x] = Nil
                  /\ co[x] = Red /\ co[z] = Black
    /\ p = Header => z = pa[Header] /\ co[z] = Black
    /\ p # Header => p \in L /\ p # z /\ pa[p] # z /\ lf[p] = z /\ rt[p] # z /\ z # pa[Header]
    /\ p = Header /\ x = Nil <=> L = {z}
    /\ L # {z} => rt[Header] # z
    /\ L = {z} => rt[Header] = z

UnhungParents(pa, x, p) ==
    LET q == IF p = Header THEN [pa EXCEPT ![Header] = x] ELSE pa IN IF x = Nil THEN q ELSE [q EXCEPT ![x] = p]
UnhungLeft(lf, x, p) ==
    IF p = Header THEN IF x = Nil THEN [lf EXCEPT ![Header] = p] ELSE [lf EXCEPT ![p] = x]
    ELSE [[lf EXCEPT ![p] = x] EXCEPT ![Header] = IF x = Nil THEN p ELSE x]
UnhungRight(rt, x, p) == IF p = Header /\ x = Nil THEN [rt EXCEPT ![p] = x] ELSE rt

\* The end of the walk along sd below c.
Spine(sd, L, sub, c, e) ==
    /\ e \in L /\ e \in sub[c] /\ sd[e] = Nil
    /\ \A a \in L : a \in sub[c] /\ e \in sub[a] => a = e \/ e \in Under(sub, sd[a])

\* r goes from a on as g says.
Follows(r, g, S, a, n) ==
    /\ r = [k \in 0..n |-> r[k]]
    /\ r[0] = a
    /\ \A k \in 0..n - 1 : r[k] \in S => r[k + 1] = g[r[k]]

\* One step of Extreme.
Ahead(sd) == [a \in Addr |-> IF sd[a] = Nil THEN a ELSE sd[a]]

UnhungSub(sub, L, z) == [m \in L \ {z} |-> sub[m] \ {z}]
Mended(co, x) == IF x = Nil THEN co ELSE [co EXCEPT ![x] = Black]
UnhungBlacks(h, L, z, x) == [m \in L \ {z} |-> IF m = x THEN 1 ELSE h[m]]

\* The situation of the lemmas: the first node taken out.
FirstOut(pa, lf, rt, co, L, sub, z, x, p, pb, lg, rg, M, sb) ==
    /\ Tied(pa, lf, rt, L, sub)
    /\ AtFirst(pa, lf, rt, co, L, sub, z, x, p)
    /\ Unhung(pa, lf, rt, x, p, pb, lg, rg)
    /\ M = L \ {z} /\ sb = UnhungSub(sub, L, z)

OutLinks(pa, lf, rt, x, p, pb, lg, rg, M) ==
    /\ x # Nil => pb[x] = p
    /\ \A m \in M : m # x => pb[m] = pa[m]
    /\ pb[Header] = IF p = Header THEN x ELSE pa[Header]
    /\ p # Header => lg[p] = x
    /\ \A m \in M : m # p => lg[m] = lf[m]
    /\ lg[Header] = IF x = Nil THEN p ELSE x
    /\ \A m \in M : rg[m] = rt[m]
    /\ M # {} => rg[Header] = rt[Header]
    /\ Links(pb, lg, rg)

OutUnder(lf, rt, L, sub, z, lg, rg, M, sb) ==
    /\ sb \in [M -> SUBSET M]
    /\ \A m \in M : sb[m] = sub[m] \ {z} /\ Under(sb, lg[m]) = Under(sub, lf[m]) \ {z} /\ Under(sb, rg[m]) = Under(sub, rt[m]) \ {z}

FineWithout(pb, lg, rg, cp, key, M, k, p) ==
    \E sb, hb : /\ Fine(pb, lg, rg, cp, key, M, sb, hb, k, Nil, Nil)
                /\ p # Header => lg[Header] \in sb[p]

CutLeft(lf, x, p) == IF p = Header /\ x = Nil THEN lf ELSE [lf EXCEPT ![p] = x]

-----------------------------------------------------------------------------
(* Walks and searches.                                                     *)

\* The nodes a climb from n on the lf side passes: n is below them and on the
\* right of nothing that is below them.
Passed(rt, L, sub, n) == {m \in L : n \in sub[m] /\ \A a \in L : a \in sub[m] => n \notin Under(sub, rt[a])}

\* Its end: the lowest node that has n on its right.
Turn(rt, L, sub, n, b) ==
    /\ b \in L /\ n \in Under(sub, rt[b])
    /\ \A a \in L : n \in Under(sub, rt[a]) => b \in sub[a]

\* One step of Climb.
Upward(S, pa, lf) == [w \in S |-> IF lf[w[2]] = w[1] THEN <<w[2], pa[w[2]]>> ELSE w]

Ascent(pa, rt, L, sub, n) == {<<m, pa[m]>> : m \in Passed(rt, L, sub, n)}

\* After k steps the climb has ended, or has passed k + 1 nodes.
Risen(f, lf, sub, k) == lf[f[k][2]] # f[k][1] \/ Cardinality(sub[f[k][1]]) >= k + 1

\* The neighbour of n on the lf side.
PredOf(lf, rt, L, sub, n, b) ==
    /\ b \in L
    /\ lf[n] # Nil => Spine(rt, L, sub, lf[n], b)
    /\ lf[n] = Nil => Turn(rt, L, sub, n, b)

\* The situation of the lemmas: an ordered tree.
Ordered(pa, lf, rt, key, L, sub) ==
    /\ Tied(pa, lf, rt, L, sub)
    /\ Sorted(key, lf, rt, L, sub)
    /\ key \in [Node -> Int]

\* g goes from <<y, x>> to a child of x, and stays where x is null.
Descends(g, S, lf, rt, L) ==
    \A w \in S : /\ g[w] \in S /\ w[2] \in L \cup {Nil}
                 /\ w[2] = Nil => g[w] = w
                 /\ w[2] # Nil => g[w][2] = lf[w[2]] \/ g[w][2] = rt[w[2]]

\* One step of Hole.
Downward(S, lf, rt, k) ==
    [w \in S |-> IF w[2] = Nil THEN w ELSE <<w[2], IF k < KeyOf[w[2]] THEN lf[w[2]] ELSE rt[w[2]]>>]

\* The path to y has kept k between the keys it met.
Reached(key, lf, rt, L, sub, k, y) ==
    \A a \in L : /\ y \in Under(sub, lf[a]) => k < key[a]
                 /\ y \in Under(sub, rt[a]) => key[a] <= k

\* The states of the descent.
Descent(pa, key, lf, rt, L, sub, k) ==
    {w \in (L \cup {Header}) \X (L \cup {Nil}) :
        \/ w = <<Header, pa[Header]>>
        \/ /\ w[1] \in L /\ Reached(key, lf, rt, L, sub, k, w[1])
           /\ w[2] = IF k < key[w[1]] THEN lf[w[1]] ELSE rt[w[1]]}

\* <<c, p>> is a place for the key k, where keys from lo to hi may stand.
Place(lf, rt, L, sub, c, p, k, lo, hi) ==
    \/ p = Header /\ L = {}
    \/ /\ p \in L
       /\ c # Nil \/ k < KeyOf[p] => lf[p] = Nil /\ Fits(KeyOf, lf, rt, L, sub, lo, hi, p)
       /\ c = Nil /\ ~ (k < KeyOf[p]) => rt[p] = Nil /\ Fits(Neg(KeyOf), rt, lf, L, sub, - hi, - lo, p)

\* The state of the tree when a place is looked for.
Resting(t, pa, lf, rt, co, L, sub, h) ==
    /\ Fields(t, pa, lf, rt, co)
    /\ Fine(pa, lf, rt, co, KeyOf, L, sub, h, Nil, Nil, Nil)
    /\ L = {} => lf[Header] = Header

\* What a search for the place of k answers: the element there is, or a place
\* that no other node of that key shares.
UniqueAnswer(lf, rt, L, sub, at, k) ==
    \/ at[2] = Nil /\ at[1] \in L /\ KeyOf[at[1]] = k
    \/ at[2] # Nil /\ Place(lf, rt, L, sub, at[1], at[2], k, k - 1, k + 1)

\* A place for a key that may be in the tree.
EqualAnswer(lf, rt, L, sub, at, k) == Place(lf, rt, L, sub, at[1], at[2], k, k, k)

\* One step of LastKept.
Keeping(S, kept, lf, rt) ==
    [w \in S |-> IF w[2] = Nil THEN w
                 ELSE IF w[2] \in kept THEN <<w[2], lf[w[2]]>> ELSE <<w[1], rt[w[2]]>>]

\* S holds every state of the descent.
KeepsIn(S, kept, pa, lf, rt, L) ==
    /\ <<Header, pa[Header]>> \in S
    /\ \A w \in S : /\ w[2] \in L \cup {Nil}
                    /\ w[2] # Nil => IF w[2] \in kept THEN <<w[2], lf[w[2]]>> \in S ELSE <<w[1], rt[w[2]]>> \in S

\* lf and rt are the links of sides s and Opposite(s).
Handed(t, s, pa, lf, rt) == t[s] = lf /\ t[Opposite(s)] = rt /\ t.parent = pa

\* The states of find(): an element of key k is y itself or still ahead.
Finding(lf, rt, L, sub, k) ==
    {w \in (L \cup {Header}) \X (L \cup {Nil}) :
        /\ w[1] \in L => k <= KeyOf[w[1]] /\ \A m \in Under(sub, w[2]) : KeyOf[m] <= KeyOf[w[1]]
        /\ \A m \in L : KeyOf[m] = k => \/ w[1] \in L /\ KeyOf[w[1]] = k
                                       \/ \E d \in Under(sub, w[2]) : KeyOf[d] = k}

\* The way up from n.
Rises(f, pa, L, n, N) ==
    /\ N \in Nat /\ N = Cardinality(Node)
    /\ f \in [0..N + 1 -> L \cup {Header}]
    /\ f[0] = n
    /\ \A k \in 0..N : f[k + 1] = IF f[k] \in L THEN pa[f[k]] ELSE Header

\* One step of UpPath.
Upwards(S, pa) == [a \in S |-> IF a \in Node THEN pa[a] ELSE a]

-----------------------------------------------------------------------------
(* The inductive invariant, and what holds in the steps.                   *)

\* The ghosts of the empty tree.
NoSub == [n \in {} |-> {}]
NoBlacks == [n \in {} |-> 0]

\* What the tree keeps while the member at w is running, and between two calls.
Held(t, L, w, c, u, sub, h) ==
    /\ Fine(t.parent, t.left, t.right, IF w = "erase" THEN Mended(t.color, c) ELSE t.color, KeyOf, L, sub, h,
            IF w = "erase" /\ c # Root(t) /\ IsBlack(t, c) THEN u ELSE Nil, Nil, IF w = "insert" THEN c ELSE Nil)
    /\ w = "erase" /\ c # Root(t) => u \in L /\ t.left[u] = c /\ LeftMost(t) \in sub[u]

Good(t, nc, al, w, c, u, v) ==
    /\ t \in Trees
    /\ al \subseteq Node
    /\ w \in {"idle", "insert", "erase", "drop"}
    /\ c \in Addr \cup {Nil} /\ u \in Addr \cup {Nil}
    /\ w \in {"idle", "insert"} => v = Nil
    /\ w \in {"erase", "drop"} => v \in al
    /\ nc = IF w = "insert" THEN Cardinality(al) - 1 ELSE Cardinality(al)
    /\ al \ {v} = {} => LeftMost(t) = Header
    /\ w = "insert" => c \in al \ {v} /\ t.color[c] = Red
    /\ w = "erase" => c \in (al \ {v}) \cup {Nil}
    /\ \E sub, h : Held(t, al \ {v}, w, c, u, sub, h)

\* What linking n makes of a tree at rest.
Grown(t, L, n) ==
    \E pb, lg, rg, cp, sb, hb : /\ Fields(t, pb, lg, rg, cp)
                                /\ Fine(pb, lg, rg, cp, KeyOf, L \cup {n}, sb, hb, Nil, Nil, n)
                                /\ cp[n] = Red

\* The tree the loop of the insertion works on.
Inserting(t, pa, lf, rt, co, L, sub, h, c) ==
    /\ Fields(t, pa, lf, rt, co)
    /\ Fine(pa, lf, rt, co, KeyOf, L, sub, h, Nil, Nil, c)
    /\ c \in L /\ co[c] = Red

\* Parent and uncle black, the grandparent red.
UncleMended(t, c, p, g, uncle, t2) ==
    /\ p = t.parent[c] /\ g = t.parent[p] /\ t.color[p] = Red /\ c # Root(t)
    /\ uncle = (IF t.left[g] = p THEN t.right[g] ELSE t.left[g]) /\ ~ IsBlack(t, uncle)
    /\ t2 = [t EXCEPT !.color = [@ EXCEPT ![p] = Black, ![uncle] = Black, ![g] = Red]]

OuterColours(co, g, p) == [co EXCEPT ![g] = Red, ![p] = Black]

\* Grandparent and parent change places and colours; c stands on the left of the
\* parent, which stands on the left of the grandparent.
Outer(pa, lf, rt, co, L, sub, h, c, p, g) ==
    /\ Fine(pa, lf, rt, co, KeyOf, L, sub, h, Nil, Nil, c)
    /\ g \in L /\ p \in L /\ c \in L /\ p = lf[g] /\ c = lf[p]
    /\ co[g] = Black /\ co[p] = Red /\ co[c] = Red
    /\ rt[g] # Nil => co[rt[g]] = Black
    /\ c # p /\ c # g /\ p # g

\* ... or everything the other way round.
OuterRight(pa, lf, rt, co, L, sub, h, c, p, g) ==
    /\ Fine(pa, lf, rt, co, KeyOf, L, sub, h, Nil, Nil, c)
    /\ g \in L /\ p \in L /\ c \in L /\ p = rt[g] /\ c = rt[p]
    /\ co[g] = Black /\ co[p] = Red /\ co[c] = Red
    /\ lf[g] # Nil => co[lf[g]] = Black
    /\ c # p /\ c # g /\ p # g

\* What InsertRotate writes.
Rotations(t, c, p, g, s, o, inner, z, t1, zp, zg, t2) ==
    /\ p = t.parent[c] /\ g = t.parent[p]
    /\ s = IF t.left[g] = p THEN "left" ELSE "right"
    /\ o = Opposite(s)
    /\ inner = (t[o][p] = c)
    /\ z = IF inner THEN p ELSE c
    /\ t1 = IF inner THEN Rotate(t, p, s, o) ELSE t
    /\ zp = t1.parent[z]
    /\ zg = t1.parent[zp]
    /\ t2 = [t1 EXCEPT !.color = [@ EXCEPT ![zg] = Red, ![zp] = Black]]

\* The tree the loop of the removal works on: a black is missing at c, on the
\* left of u.
Lacking(t, pa, lf, rt, co, L, sub, h, c, u) ==
    /\ Fields(t, pa, lf, rt, co)
    /\ Fine(pa, lf, rt, co, KeyOf, L, sub, h, u, Nil, Nil)
    /\ u \in L /\ lf[u] = c /\ lf[Header] \in sub[u]
    /\ c # pa[Header] /\ (c # Nil => co[c] = Black)

\* What EraseRedNephew writes.
Supplies(t, u, y, near, far, t1, sib, t2) ==
    /\ near = t["left"][y] /\ far = t["right"][y]
    /\ t1 = IF IsBlack(t, far)
            THEN Rotate([t EXCEPT !.color = [@ EXCEPT ![near] = Black, ![y] = Red]], y, "right", "left")
            ELSE t
    /\ sib = t1["right"][u]
    /\ t2 = [t1 EXCEPT !.color = [@ EXCEPT ![sib] = t1.color[u], ![u] = Black, ![t1["right"][sib]] = Black]]

\* at is a place for the key k in the tree.
Settled(t, L, at, k) ==
    \E pa, lf, rt, co, sub, h, lo, hi :
        /\ Resting(t, pa, lf, rt, co, L, sub, h)
        /\ Place(lf, rt, L, sub, at[1], at[2], k, lo, hi)
        /\ lo \in Int /\ hi \in Int /\ lo <= k /\ k <= hi

\* insert_left of EmplaceAux.
GoesLeft(il, at, k) == il = (at[1] # Nil \/ at[2] = Header \/ k < KeyOf[at[2]])

\* The inductive invariant.
QueueInv == Good(tree, node_count, alive, pc, cur, up, victim)

\* What of Good the properties of the links and the keys need.
Shaped(t, pa, lf, rt, L, sub) ==
    /\ t.parent = pa /\ t.left = lf /\ t.right = rt /\ t["left"] = lf /\ t["right"] = rt
    /\ Root(t) = pa[Header] /\ LeftMost(t) = lf[Header] /\ RightMost(t) = rt[Header]
    /\ Ordered(pa, lf, rt, KeyOf, L, sub) /\ Tied(pa, lf, rt, L, sub)
    /\ L # {} => First(lf, L, sub, lf[Header]) /\ First(rt, L, sub, rt[Header])

\* The black nodes on the way from the root to n, and the black missing on it.
Blacks(co, L, sub, n) == {b \in L : n \in sub[b] /\ co[b] = Black}
Missed(lf, sub, k, n) == IF k # Nil /\ n \in Under(sub, lf[k]) THEN 1 ELSE 0

\* MissingBlack, of any state.
MissingAt(t, w, c, u, n, s) ==
    IF w # "erase" THEN 0
    ELSE IF c = Nil THEN IF n = u /\ s = (IF t.left[u] = c THEN "left" ELSE "right") THEN 1 ELSE 0
    ELSE IF c \in Above(t, n) THEN 1 ELSE 0

\* Every leaf is under as many blacks.
LeavesAlike(t, w, c, u, L) ==
    \E N \in Nat : \A n \in L, s \in Side : t[s][n] = Nil => BlackDepth(t, n) + MissingAt(t, w, c, u, n, s) = N
=============================================================================
