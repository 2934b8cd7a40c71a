------------------------------- MODULE RBTree -------------------------------
(***************************************************************************)
(* zstl::RBTree, the red-black tree under Set (zstl/stl_tree.h,            *)
(* src/stl_tree.cc): linking and unlinking a node, the two rebalancing     *)
(* loops, one iteration of a loop per step, and the searches.              *)
(*                                                                         *)
(* A node is its address; KeyOf says which key the value stored there has. *)
(* The header is the address end() points to: its parent is the root, its  *)
(* left the first node, its right the last one, and it is red.             *)
(*                                                                         *)
(* A step the code cannot survive, a failed assert or a null pointer       *)
(* dereferenced, ends in pc = "assert" or pc = "null".                     *)
(***************************************************************************)
EXTENDS Integers, FiniteSets

CONSTANTS
    Node,      \* addresses of RBTreeNode objects
    Header,    \* the address of impl_.header
    Nil,       \* nullptr
    KeyOf      \* the key of the value a node holds

ASSUME Addresses ==
    /\ IsFiniteSet(Node)
    /\ Header \notin Node
    /\ Nil \notin Node \cup {Header}
    /\ KeyOf \in [Node -> Int]

VARIABLES
    tree,        \* the parent, left, right and color of every address
    node_count,  \* impl_.node_count
    alive,       \* the nodes allocated
    pc,          \* where the running member is; "idle" between two calls
    cur,         \* z of the insert fixup, x of the erase fixup
    up,          \* x_parent of the erase fixup
    victim       \* the node erase() is removing

vars == <<tree, node_count, alive, pc, cur, up, victim>>

Addr == Node \cup {Header}
Key  == {KeyOf[n] : n \in Node}
Red == "red"
Black == "black"
Side == {"left", "right"}

Opposite(s) == IF s = "left" THEN "right" ELSE "left"

Root(t)      == t.parent[Header]
LeftMost(t)  == t.left[Header]
RightMost(t) == t.right[Header]

\* A null child is a black leaf.
IsBlack(t, n) == n # Nil => t.color[n] = Black

TypeOK ==
    /\ tree \in [parent : [Addr -> Addr \cup {Nil}],
                 left   : [Addr -> Addr \cup {Nil}],
                 right  : [Addr -> Addr \cup {Nil}],
                 color  : [Addr -> {Red, Black}]]
    /\ node_count \in Nat
    /\ alive \subseteq Node
    /\ pc \in {"idle", "insert", "erase", "drop", "assert", "null"}
    /\ {cur, up, victim} \subseteq Addr \cup {Nil}

\* RBTreeHeader(): the header is its own first and last node.
EmptyTree ==
    [parent |-> [a \in Addr |-> Nil],
     left   |-> [a \in Addr |-> IF a = Header THEN Header ELSE Nil],
     right  |-> [a \in Addr |-> IF a = Header THEN Header ELSE Nil],
     color  |-> [a \in Addr |-> Red]]

Init ==
    /\ tree = EmptyTree
    /\ node_count = 0
    /\ alive = {}
    /\ pc = "idle"
    /\ cur = Nil /\ up = Nil /\ victim = Nil

------------------------------------------------------------------------------
(* Walks.  A loop that follows pointers is a function of the number of its *)
(* iterations; no path is longer than the number of nodes.                 *)

Steps == 0 .. Cardinality(Node) + 1

\* Minimum(x) is Extreme(t, x, "left"), Maximum(x) is Extreme(t, x, "right").
Extreme(t, x, s) ==
    LET walk[i \in Steps] ==
            IF i = 0 THEN x
            ELSE LET at == walk[i - 1] IN IF t[s][at] = Nil THEN at ELSE t[s][at]
    IN  walk[Cardinality(Node)]

Minimum(t, x) == Extreme(t, x, "left")
Maximum(t, x) == Extreme(t, x, "right")

\* The loop of RBTreeIncrement and RBTreeDecrement: from n upwards while n is
\* the s child of its parent.  The result is <<node, p>>.
Climb(t, n, s) ==
    LET walk[i \in Steps] ==
            IF i = 0 THEN <<n, t.parent[n]>>
            ELSE LET w == walk[i - 1] IN
                 IF t[s][w[2]] = w[1] THEN <<w[2], t.parent[w[2]]>> ELSE w
    IN  walk[Cardinality(Node) + 1]

\* Mutant: the climb's last test is missing, the last node's successor is wrong
\* when it is the root.
IncrementNoRootTest(t, n) ==
    IF t.right[n] # Nil THEN Minimum(t, t.right[n])
    ELSE Climb(t, n, "right")[2]

\* ++it
RBTreeIncrement(t, n) ==
    IF t.right[n] # Nil THEN Minimum(t, t.right[n])
    ELSE LET c == Climb(t, n, "right") IN
         IF t.right[c[1]] = c[2] THEN c[1] ELSE c[2]

\* --it
RBTreeDecrement(t, n) ==
    CASE t.parent[t.parent[n]] = n /\ t.color[n] = Red -> t.right[n]
      [] OTHER -> IF t.left[n] # Nil THEN Maximum(t, t.left[n])
                  ELSE Climb(t, n, "left")[2]

\* The descent of the insertions: <<y, x>>, where x ends null and y is the last
\* node met, the header when the tree is empty.
Hole(t, k) ==
    LET walk[i \in Steps] ==
            IF i = 0 THEN <<Header, Root(t)>>
            ELSE LET w == walk[i - 1]  x == w[2] IN
                 IF x = Nil THEN w
                 ELSE <<x, IF k < KeyOf[x] THEN t.left[x] ELSE t.right[x]>>
    IN  walk[Cardinality(Node) + 1][1]

\* The descent of the lookups: the last node that was kept, the header if none
\* was; the walk goes to side s after a node in kept, to the other side after
\* any other.
LastKept(t, kept, s) ==
    LET walk[i \in Steps] ==
            IF i = 0 THEN <<Header, Root(t)>>
            ELSE LET w == walk[i - 1]  x == w[2] IN
                 IF x = Nil THEN w
                 ELSE IF x \in kept THEN <<x, t[s][x]>> ELSE <<w[1], t[Opposite(s)][x]>>
    IN  walk[Cardinality(Node) + 1][1]

\* Mutant: the last test of find() is not strict.
FindNotStrict(t, k) ==
    LET y == LastKept(t, {x \in Node : ~ (KeyOf[x] < k)}, "left") IN
    IF y = Header THEN Header ELSE IF k <= KeyOf[y] THEN Header ELSE y

find(t, k) ==
    LET y == LastKept(t, {x \in Node : ~ (KeyOf[x] < k)}, "left") IN
    IF y = Header THEN Header ELSE IF k < KeyOf[y] THEN Header ELSE y

lower_bound(t, k) == LastKept(t, {x \in Node : KeyOf[x] < k}, "left")

upper_bound(t, k) == LastKept(t, {x \in Node : k < KeyOf[x]}, "right")

------------------------------------------------------------------------------
(* Where a key goes: <<cur, p>>.  p is the node to link to, null when the  *)
(* key is in the tree already; cur is not null when the hole is known to   *)
(* be on the left of p.                                                    *)

GetInsertUniquePos(t, k) ==
    LET y     == Hole(t, k)
        goesLeft == y = Header \/ k < KeyOf[y]
        pre   == IF goesLeft THEN RBTreeDecrement(t, y) ELSE y
    IN  IF goesLeft /\ y = LeftMost(t) THEN <<Nil, y>>
        ELSE IF KeyOf[pre] < k THEN <<IF goesLeft THEN y ELSE Nil, y>>
        ELSE <<pre, Nil>>

\* Mutant: the hint end() accepts a key equal to the last one.
HintPosAcceptsLast(t, size, pos, k) ==
    IF pos = Header /\ size > 0
    THEN IF KeyOf[RightMost(t)] <= k THEN <<Nil, RightMost(t)>>
         ELSE GetInsertUniquePos(t, k)
    ELSE GetInsertUniquePos(t, k)

GetInsertUniqueHintPos(t, size, pos, k) ==
    LET before == RBTreeDecrement(t, pos)
        after  == RBTreeIncrement(t, pos)
    IN
    IF pos = Header THEN
        IF size > 0 /\ KeyOf[RightMost(t)] < k THEN <<Nil, RightMost(t)>>
        ELSE GetInsertUniquePos(t, k)
    ELSE IF k < KeyOf[pos] THEN
        IF pos = LeftMost(t) THEN <<pos, pos>>
        ELSE IF KeyOf[before] < k THEN
            IF t.right[before] = Nil THEN <<Nil, before>> ELSE <<pos, pos>>
        ELSE GetInsertUniquePos(t, k)
    ELSE IF KeyOf[pos] < k THEN
        IF pos = RightMost(t) THEN <<Nil, pos>>
        ELSE IF k < KeyOf[after] THEN
            IF t.left[after] = Nil THEN <<after, after>> ELSE <<Nil, pos>>
        ELSE GetInsertUniquePos(t, k)
    ELSE <<pos, Nil>>

GetInsertEqualPos(t, k) == <<Nil, Hole(t, k)>>

\* Mutant: a key not greater than pos goes before it, whatever precedes pos.
EqualHintPosTrustsHint(t, size, pos, k) ==
    IF pos = Header THEN GetInsertEqualPos(t, k)
    ELSE LET before == RBTreeDecrement(t, pos) IN
    IF ~ (KeyOf[pos] < k) THEN
        IF pos = LeftMost(t) THEN <<pos, pos>>
        ELSE IF t.right[before] = Nil THEN <<Nil, before>> ELSE <<pos, pos>>
    ELSE GetInsertEqualPos(t, k)

GetInsertEqualHintPos(t, size, pos, k) ==
    LET before == RBTreeDecrement(t, pos)
        after  == RBTreeIncrement(t, pos)
    IN
    IF pos = Header THEN
        IF size > 0 /\ ~ (k < KeyOf[RightMost(t)]) THEN <<Nil, RightMost(t)>>
        ELSE GetInsertEqualPos(t, k)
    ELSE IF ~ (KeyOf[pos] < k) THEN
        IF pos = LeftMost(t) THEN <<pos, pos>>
        ELSE IF ~ (k < KeyOf[before]) THEN
            IF t.right[before] = Nil THEN <<Nil, before>> ELSE <<pos, pos>>
        ELSE GetInsertEqualPos(t, k)
    ELSE IF pos = RightMost(t) THEN <<Nil, pos>>
    ELSE IF ~ (KeyOf[after] < k) THEN
        IF t.left[after] = Nil THEN <<after, after>> ELSE <<Nil, pos>>
    ELSE GetInsertEqualPos(t, k)

------------------------------------------------------------------------------
(* Pointer operations on the tree.                                         *)

\* The s child of a becomes c.
SetChild(t, s, a, c) ==
    IF s = "left" THEN [t EXCEPT !.left[a] = c] ELSE [t EXCEPT !.right[a] = c]

\* Mutant: the subtree that changes sides keeps its parent.
RotateLosesParent(t, x, u, down) ==
    LET y == t[down][x]  mid == t[u][y]  p == t.parent[x]
        parent1 == [t.parent EXCEPT ![x] = y, ![y] = p]
        s == SetChild(SetChild([t EXCEPT !.parent = parent1], down, x, mid), u, y, x)
    IN  IF x = Root(t) THEN [s EXCEPT !.parent[Header] = y]
        ELSE SetChild(s, IF t[down][p] = x THEN down ELSE u, p, y)

\* LeftRotation(root, x) is Rotate(t, x, "left", "right"): the `down` child of
\* x takes its place and x becomes the `up` child of it.
Rotate(t, x, u, down) ==
    LET y == t[down][x]  mid == t[u][y]  p == t.parent[x]
        parent1 == [t.parent EXCEPT ![x] = y, ![y] = p]
        parent2 == IF mid = Nil THEN parent1 ELSE [parent1 EXCEPT ![mid] = x]
        s == SetChild(SetChild([t EXCEPT !.parent = parent2], down, x, mid), u, y, x)
    IN  IF x = Root(t) THEN [s EXCEPT !.parent[Header] = y]
        ELSE SetChild(s, IF t[down][p] = x THEN down ELSE u, p, y)

\* Mutant: begin() is not updated by an insertion to the left of it.
LinkForgetsLeftMost(t, n, p, insert_left) ==
    LET new == [parent |-> [t.parent EXCEPT ![n] = p],
                left   |-> [t.left   EXCEPT ![n] = Nil],
                right  |-> [t.right  EXCEPT ![n] = Nil],
                color  |-> [t.color  EXCEPT ![n] = Red]]
    IN  IF p = Header
        THEN [new EXCEPT !.left[p] = n, !.parent[p] = n, !.right[p] = n]
        ELSE IF insert_left THEN [new EXCEPT !.left[p] = n]
        ELSE IF p = RightMost(t)
        THEN [new EXCEPT !.right = [@ EXCEPT ![p] = n, ![Header] = n]]
        ELSE [new EXCEPT !.right[p] = n]

\* RBTreeInsertAndFixup up to the fixup, on a node CreateNode has made.
Link(t, n, p, insert_left) ==
    LET new == [parent |-> [t.parent EXCEPT ![n] = p],
                left   |-> [t.left   EXCEPT ![n] = Nil],
                right  |-> [t.right  EXCEPT ![n] = Nil],
                color  |-> [t.color  EXCEPT ![n] = Red]]
    IN  CASE insert_left /\ p = Header ->
                [new EXCEPT !.left[p] = n, !.parent[p] = n, !.right[p] = n]
          [] insert_left /\ p # Header /\ p = LeftMost(t) ->
                [new EXCEPT !.left = [@ EXCEPT ![p] = n, ![Header] = n]]
          [] insert_left /\ p # Header /\ p # LeftMost(t) ->
                [new EXCEPT !.left[p] = n]
          [] ~ insert_left /\ p = RightMost(t) ->
                [new EXCEPT !.right = [@ EXCEPT ![p] = n, ![Header] = n]]
          [] OTHER ->
                [new EXCEPT !.right[p] = n]

\* The node old is replaced by new in its parent; the root is recognised as the
\* black node whose grandparent it is itself.
Transplant(t, old, new) ==
    LET p == t.parent[old]
        isRoot  == t.parent[p] = old /\ t.color[old] = Black
        isRight == t.right[p] = old
        isLeft  == ~ isRight /\ t.left[p] = old
        parent1 == IF isRoot THEN [t.parent EXCEPT ![Header] = new] ELSE t.parent
    IN  [parent |-> IF new = Nil THEN parent1 ELSE [parent1 EXCEPT ![new] = p],
         left   |-> IF isLeft THEN [t.left EXCEPT ![p] = new] ELSE t.left,
         right  |-> IF isRight THEN [t.right EXCEPT ![p] = new] ELSE t.right,
         color  |-> t.color]

\* RBTreeEraseAndFixup up to the fixup: the tree without z, x, x_parent and the
\* colour that went missing (y_old_color).
\* Mutant: the first node's successor is taken to be its parent.
UnlinkFirstToParent(t, z) ==
    LET x == t.right[z]  s == Transplant(t, z, x) IN
    [t |-> IF LeftMost(s) # z THEN s ELSE [s EXCEPT !.left[Header] = t.parent[z]],
     x |-> x, x_parent |-> t.parent[z], lost |-> t.color[z]]

UnlinkNoLeft(t, z) ==
    LET x == t.right[z]  s == Transplant(t, z, x) IN
    [t |-> IF LeftMost(s) # z THEN s
           ELSE [s EXCEPT !.left[Header] =
                    IF x = Nil THEN t.parent[z] ELSE Minimum(s, x)],
     x |-> x, x_parent |-> t.parent[z], lost |-> t.color[z]]

UnlinkNoRight(t, z) ==
    LET x == t.left[z]  s == Transplant(t, z, x) IN
    [t |-> IF RightMost(s) # z THEN s
           ELSE [s EXCEPT !.right[Header] = Maximum(s, x)],
     x |-> x, x_parent |-> t.parent[z], lost |-> t.color[z]]

UnlinkTwoChildren(t, z) ==
    LET y  == Minimum(t, t.right[z])
        x  == t.right[y]
        t1 == IF y = t.right[z] THEN t
              ELSE LET s == Transplant(t, y, x) IN
                   [s EXCEPT !.right[y] = t.right[z], !.parent[t.right[z]] = y]
        t2 == Transplant(t1, z, y)
    IN  [t |-> [t2 EXCEPT !.left[y] = t.left[z], !.parent[t.left[z]] = y,
                          !.color[y] = t.color[z]],
         x |-> x, x_parent |-> IF y = t.right[z] THEN y ELSE t.parent[y],
         lost |-> t.color[y]]

Unlink(t, z) ==
    IF t.left[z] = Nil THEN UnlinkNoLeft(t, z)
    ELSE IF t.right[z] = Nil THEN UnlinkNoRight(t, z)
    ELSE UnlinkTwoChildren(t, z)

------------------------------------------------------------------------------
(* Insertion.                                                              *)

Idle == pc = "idle"

\* InsertAux, EmplaceAux: create the node and link it.  With a null p,
\* p->left is written through a null pointer.
EmplaceAux(n, at) ==
    LET insert_left == at[1] # Nil \/ at[2] = Header \/ KeyOf[n] < KeyOf[at[2]] IN
    /\ n \notin alive
    /\ alive' = alive \cup {n}
    /\ IF at[2] = Nil
       THEN pc' = "null" /\ UNCHANGED <<tree, cur>>
       ELSE /\ tree' = Link(tree, n, at[2], insert_left)
            /\ pc' = "insert"
            /\ cur' = n
    /\ UNCHANGED <<node_count, up, victim>>

\* insert(val): InsertUnique.  A key the tree holds leaves it as it is.
InsertUnique(n) ==
    LET at == GetInsertUniquePos(tree, KeyOf[n]) IN
    /\ Idle
    /\ Root(tree) = Nil => LeftMost(tree) = Header
    /\ at[2] # Nil
    /\ EmplaceAux(n, at)

\* end() of an empty tree that has lost its begin(): --pre in
\* GetInsertUniquePos goes through the null root.
InsertNull ==
    /\ Idle
    /\ Root(tree) = Nil
    /\ LeftMost(tree) # Header
    /\ pc' = "null"
    /\ UNCHANGED <<tree, node_count, alive, cur, up, victim>>

\* insert(hint, val): InsertHintUnique.
InsertHintUnique(pos, n) ==
    LET at == GetInsertUniqueHintPos(tree, node_count, pos, KeyOf[n]) IN
    /\ Idle
    /\ at[2] # Nil
    /\ EmplaceAux(n, at)

\* InsertHintEqual(hint, val): a key may be in the tree already.
InsertHintEqual(pos, n) ==
    /\ Idle
    /\ EmplaceAux(n, GetInsertEqualHintPos(tree, node_count, pos, KeyOf[n]))

\* The loop of RBTreeInsertFixup.
InsertUnbalanced == tree.color[tree.parent[cur]] = Red /\ cur # Root(tree)

\* Mutant: CASE1 leaves the grandparent black.
RedUncleGrandparentBlack ==
    LET p == tree.parent[cur]  g == tree.parent[p]
        uncle == IF tree.left[g] = p THEN tree.right[g] ELSE tree.left[g]
    IN  /\ pc = "insert"
        /\ InsertUnbalanced
        /\ ~ IsBlack(tree, uncle)
        /\ tree' = [tree EXCEPT !.color = [@ EXCEPT ![p] = Black, ![uncle] = Black]]
        /\ cur' = g
        /\ UNCHANGED <<node_count, alive, pc, up, victim>>

\* CASE1: a red uncle; the violation moves two levels up.
InsertRedUncle ==
    LET p == tree.parent[cur]  g == tree.parent[p]
        uncle == IF tree.left[g] = p THEN tree.right[g] ELSE tree.left[g]
    IN  /\ pc = "insert"
        /\ InsertUnbalanced
        /\ ~ IsBlack(tree, uncle)
        /\ tree' = [tree EXCEPT !.color = [@ EXCEPT ![p] = Black, ![uncle] = Black,
                                                    ![g] = Red]]
        /\ cur' = g
        /\ UNCHANGED <<node_count, alive, pc, up, victim>>

\* CASE2, when cur is the inner grandchild, then CASE3.
InsertRotate ==
    LET p == tree.parent[cur]  g == tree.parent[p]
        s == IF tree.left[g] = p THEN "left" ELSE "right"
        o == Opposite(s)
        inner == tree[o][p] = cur
        z  == IF inner THEN p ELSE cur
        t1 == IF inner THEN Rotate(tree, p, s, o) ELSE tree
        zp == t1.parent[z]
        zg == t1.parent[zp]
        t2 == [t1 EXCEPT !.color = [@ EXCEPT ![zg] = Red, ![zp] = Black]]
    IN  /\ pc = "insert"
        /\ InsertUnbalanced
        /\ IsBlack(tree, tree[o][g])
        /\ tree' = Rotate(t2, zg, o, s)
        /\ cur' = z
        /\ UNCHANGED <<node_count, alive, pc, up, victim>>

\* The end of the loop, and ++node_count of EmplaceAux.
InsertDone ==
    /\ pc = "insert"
    /\ ~ InsertUnbalanced
    /\ tree' = [tree EXCEPT !.color[Root(tree)] = Black]
    /\ node_count' = node_count + 1
    /\ pc' = "idle"
    /\ cur' = Nil
    /\ UNCHANGED <<alive, up, victim>>

InsertFixup == InsertRedUncle \/ InsertRotate \/ InsertDone

------------------------------------------------------------------------------
(* Removal.                                                                *)

\* erase(pos), up to the loop of RBTreeEraseFixup.
Erase(z) ==
    LET u == Unlink(tree, z) IN
    /\ Idle
    /\ z \in alive
    /\ tree' = u.t
    /\ cur' = u.x
    /\ up' = u.x_parent
    /\ victim' = z
    /\ pc' = IF u.lost = Black THEN "erase" ELSE "drop"
    /\ UNCHANGED <<node_count, alive>>

EraseUnbalanced == cur # Root(tree) /\ IsBlack(tree, cur)

EraseSide == IF tree.left[up] = cur THEN "left" ELSE "right"
Sibling   == tree[Opposite(EraseSide)][up]

\* assert(sibling); in the half where the sibling is on the left, also
\* assert(sibling->right) and its colour before the colour of sibling->left.
EraseAsserts ==
    \/ Sibling = Nil
    \/ /\ Sibling # Nil
       /\ EraseSide = "right"
       /\ IsBlack(tree, Sibling)
       /\ ~ IsBlack(tree, tree.left[Sibling])
       /\ IsBlack(tree, tree.right[Sibling])

EraseAssertFails ==
    /\ pc = "erase"
    /\ EraseUnbalanced
    /\ EraseAsserts
    /\ pc' = "assert"
    /\ UNCHANGED <<tree, node_count, alive, cur, up, victim>>

\* CASE1: both halves of the loop call LeftRotation.
EraseRedSibling ==
    LET t == [tree EXCEPT !.color = [@ EXCEPT ![up] = Red, ![Sibling] = Black]] IN
    /\ pc = "erase"
    /\ EraseUnbalanced
    /\ Sibling # Nil
    /\ ~ IsBlack(tree, Sibling)
    /\ IF tree.right[up] = Nil
       THEN pc' = "null" /\ UNCHANGED tree
       ELSE tree' = Rotate(t, up, "left", "right") /\ UNCHANGED pc
    /\ UNCHANGED <<node_count, alive, cur, up, victim>>

\* Mutant: CASE2 forgets that a nephew may be null.
BlackNephewsExist ==
    /\ pc = "erase"
    /\ EraseUnbalanced
    /\ Sibling # Nil
    /\ IsBlack(tree, Sibling)
    /\ \A s \in Side : tree[s][Sibling] # Nil /\ IsBlack(tree, tree[s][Sibling])
    /\ tree' = [tree EXCEPT !.color[Sibling] = Red]
    /\ cur' = up
    /\ up' = tree.parent[up]
    /\ UNCHANGED <<node_count, alive, pc, victim>>

\* CASE2: the sibling becomes red and the missing black moves up.
EraseBlackNephews ==
    /\ pc = "erase"
    /\ EraseUnbalanced
    /\ Sibling # Nil
    /\ IsBlack(tree, Sibling)
    /\ \A s \in Side : IsBlack(tree, tree[s][Sibling])
    /\ tree' = [tree EXCEPT !.color[Sibling] = Red]
    /\ cur' = up
    /\ up' = tree.parent[up]
    /\ UNCHANGED <<node_count, alive, pc, victim>>

\* CASE3, when the far nephew is black, then CASE4.
EraseRedNephew ==
    LET s == EraseSide  o == Opposite(s)
        near == tree[s][Sibling]
        t1 == IF IsBlack(tree, tree[o][Sibling])
              THEN Rotate([tree EXCEPT !.color = [@ EXCEPT ![near] = Black, ![Sibling] = Red]],
                          Sibling, o, s)
              ELSE tree
        sib == t1[o][up]
        t2 == [t1 EXCEPT !.color = [@ EXCEPT ![sib] = t1.color[up], ![up] = Black,
                                             ![t1[o][sib]] = Black]]
        t3 == Rotate(t2, up, s, o)
    IN  /\ pc = "erase"
        /\ EraseUnbalanced
        /\ ~ EraseAsserts
        /\ IsBlack(tree, Sibling)
        /\ \E d \in Side : ~ IsBlack(tree, tree[d][Sibling])
        /\ tree' = t3
        /\ cur' = Root(t3)
        /\ UNCHANGED <<node_count, alive, pc, up, victim>>

\* The end of the loop.
EraseBalanced ==
    /\ pc = "erase"
    /\ ~ EraseUnbalanced
    /\ tree' = IF cur = Nil THEN tree ELSE [tree EXCEPT !.color[cur] = Black]
    /\ pc' = "drop"
    /\ UNCHANGED <<node_count, alive, cur, up, victim>>

\* DropNode and --node_count of EraseAux.  Nothing may read the node any more:
\* its links are forgotten.
EraseDone ==
    /\ pc = "drop"
    /\ tree' = [parent |-> [tree.parent EXCEPT ![victim] = Nil],
                left   |-> [tree.left   EXCEPT ![victim] = Nil],
                right  |-> [tree.right  EXCEPT ![victim] = Nil],
                color  |-> [tree.color  EXCEPT ![victim] = Red]]
    /\ node_count' = node_count - 1
    /\ alive' = alive \ {victim}
    /\ pc' = "idle"
    /\ cur' = Nil /\ up' = Nil /\ victim' = Nil

EraseFixup ==
    \/ EraseRedSibling
    \/ EraseBlackNephews
    \/ EraseRedNephew
    \/ EraseBalanced
    \/ EraseDone
    \/ EraseAssertFails

\* clear(): every node is freed and the header reset.
Clear ==
    /\ Idle
    /\ tree' = EmptyTree
    /\ node_count' = 0
    /\ alive' = {}
    /\ UNCHANGED <<pc, cur, up, victim>>

------------------------------------------------------------------------------
(* The specifications.  A fixup loop runs to its end before the next call: *)
(* the member that started it is still running, so its steps are fair.     *)

InsertNext ==
    \/ \E n \in Node : InsertUnique(n)
    \/ \E n \in Node, pos \in alive \cup {Header} : InsertHintUnique(pos, n)
    \/ \E n \in Node, pos \in alive \cup {Header} : InsertHintEqual(pos, n)
    \/ InsertFixup

\* set_test.cc:71-73: a tree that is only erased at begin().
EraseFirst == alive # {} /\ Erase(LeftMost(tree))

QueueNext == InsertNext \/ EraseFirst \/ EraseFixup \/ Clear

\* A set any element of which may be erased.
SetNext ==
    \/ \E n \in Node : InsertUnique(n)
    \/ InsertNull
    \/ \E n \in Node : Erase(n)
    \/ InsertFixup
    \/ EraseFixup
    \/ Clear

Running == WF_vars(InsertFixup) /\ WF_vars(EraseFixup)

QueueSpec == Init /\ [][QueueNext]_vars /\ Running
SetSpec   == Init /\ [][SetNext]_vars /\ Running

------------------------------------------------------------------------------
(* Properties.                                                             *)

\* The nodes that are in the tree.
Linked == alive \ {victim}

\* n and its ancestors; the header repeats at the end.
UpPath(t, n) ==
    LET walk[i \in Steps] ==
            IF i = 0 THEN n
            ELSE LET at == walk[i - 1] IN IF at \in Node THEN t.parent[at] ELSE at
    IN  walk

Above(t, n) == LET path == UpPath(t, n) IN {path[i] : i \in Steps} \cap Node

\* Parent and child links agree, every node hangs from the root, and the header
\* knows the root: at every iteration of either loop, no rotation or transplant
\* loses a subtree (stl_tree.cc:83-128, 233-250).
WellLinked ==
    /\ TypeOK
    /\ Root(tree) = Nil <=> Linked = {}
    /\ \A n \in Linked :
        /\ UpPath(tree, n)[Cardinality(Node) + 1] = Header
        /\ tree.parent[n] = Header => Root(tree) = n
        /\ tree.parent[n] # Header =>
            \E s \in Side : /\ tree[s][tree.parent[n]] = n
                           /\ tree[Opposite(s)][tree.parent[n]] # n
        /\ \A s \in Side : tree[s][n] # Nil =>
            tree[s][n] \in Linked /\ tree.parent[tree[s][n]] = n

\* The search order: what is left of a node has no greater key, what is right of
\* it no smaller one, whatever insertion (with a hint or not), rotation or
\* removal did (stl_tree.h:1325-1517).
SearchOrder ==
    \A n \in Linked : LET path == UpPath(tree, n) IN
        \A i \in Steps \ {0} : path[i] \in Node =>
            IF tree.left[path[i]] = path[i - 1] THEN KeyOf[n] <= KeyOf[path[i]]
            ELSE KeyOf[path[i]] <= KeyOf[n]

\* InsertUnique and InsertHintUnique never link a key the tree holds: the test
\* of GetInsertUniquePos (<2>) and the hints of GetInsertUniqueHintPos find
\* every duplicate, next to whatever equal keys InsertHintEqual has let in.
UniqueInsertions ==
    [][\A n \in alive' \ alive :
         InsertUnique(n) \/ (\E pos \in alive \cup {Header} : InsertHintUnique(pos, n))
            => \A m \in Linked : KeyOf[m] # KeyOf[n]]_vars

\* The red-black properties, and what is left of them inside the loops: an
\* insertion breaks at most one link, red cur under a red parent; a removal
\* misses one black on the paths through cur, which may be red next to a red
\* node before the loop ends, and nothing else
\* (stl_tree.cc:138-195, 259-347).
BlackDepth(t, n) == Cardinality({a \in Above(t, n) : t.color[a] = Black})

MissingBlack(n, s) ==
    IF pc # "erase" THEN 0
    ELSE IF cur = Nil THEN IF n = up /\ s = EraseSide THEN 1 ELSE 0
    ELSE IF cur \in Above(tree, n) THEN 1 ELSE 0

RedBlack ==
    LET Leaf == {l \in Linked \X Side : tree[l[2]][l[1]] = Nil} IN
    /\ \A x, y \in Leaf : BlackDepth(tree, x[1]) + MissingBlack(x[1], x[2])
                       = BlackDepth(tree, y[1]) + MissingBlack(y[1], y[2])
    /\ \A n \in Linked : ~ IsBlack(tree, n) /\ ~ IsBlack(tree, tree.parent[n]) =>
            \/ pc = "insert" /\ n = cur
            \/ pc = "erase" /\ cur \in {n, tree.parent[n]}

\* begin() is the first element and the header's right link the last one.
LeftMostTracked  == Idle /\ Linked # {} => LeftMost(tree) = Minimum(tree, Root(tree))
RightMostTracked == Idle /\ Linked # {} => RightMost(tree) = Maximum(tree, Root(tree))
BeginIsEnd == Idle /\ Linked = {} => LeftMost(tree) = Header
EndsTracked == LeftMostTracked /\ RightMostTracked /\ BeginIsEnd

\* size() is the number of nodes linked, and every node created is linked.
SizeCounted ==
    Idle => /\ node_count = Cardinality(alive)
            /\ alive = {n \in Node : UpPath(tree, n)[Cardinality(Node) + 1] = Header}

\* find() and GetInsertUniquePos answer for every key as the set of the elements
\* does: the element if there is one, else end() and a hole whose filling keeps
\* the order.
Holds(k) == {n \in Linked : KeyOf[n] = k}

FindCorrect ==
    Idle /\ BeginIsEnd => \A k \in Key :
        LET at == GetInsertUniquePos(tree, k) IN
        IF Holds(k) = {} THEN find(tree, k) = Header /\ at[2] # Nil
        ELSE find(tree, k) \in Holds(k) /\ at[2] = Nil /\ at[1] \in Holds(k)

\* x is the first of the elements S, or end() when there is none.
IsFirst(x, S) == IF S = {} THEN x = Header ELSE x \in S /\ \A n \in S : KeyOf[x] <= KeyOf[n]

\* What the comments of the two searches say they return: the first element that
\* is not less than the key (stl_tree.h:1126-1129), or that is greater (:1092-1095).
BoundsAsCommented ==
    Idle => \A k \in Key :
        /\ IsFirst(lower_bound(tree, k), {n \in Linked : k <= KeyOf[n]})
        /\ IsFirst(upper_bound(tree, k), {n \in Linked : k < KeyOf[n]})


\* ++ and -- go through the elements in order and end at end(), at every state
\* between two calls (stl_tree.cc:11-67), and size() counts them.
IterationInOrder ==
    /\ SizeCounted
    /\ Idle => \A n \in Linked :
           LET after  == {m \in Linked : KeyOf[n] < KeyOf[m]}
               next   == RBTreeIncrement(tree, n)
           IN  IF after = {} THEN next = Header
               ELSE /\ next \in after
                    /\ \A m \in after : KeyOf[next] <= KeyOf[m]
                    /\ RBTreeDecrement(tree, next) = n

\* A call returns or aborts: neither loop runs for ever, on whatever colours the
\* earlier calls left, and every state of a loop meets one of its cases or an
\* assert (stl_tree.cc:139, 264).
CallsReturn == (~ Idle) ~> (pc \notin {"insert", "erase", "drop"})
==============================================================================
