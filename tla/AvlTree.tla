------------------------------- MODULE AvlTree -------------------------------
(***************************************************************************)
(* Trees/AVLTree.c: the balanced search tree behind a menu.  No pointer is *)
(* kept but the root, so a node is the value it is reached by:             *)
(* <<val, height, leftChild, rightChild>>, and NULL is <<>>.               *)
(***************************************************************************)
EXTENDS Integers, FiniteSets

CONSTANT Vals       \* values a user enters

VARIABLES root,
          last      \* history: the last operation and its value

vars == <<root, last>>

NULL == <<>>
max(a, b)     == IF a > b THEN a ELSE b
getHeight(n)  == IF n = NULL THEN 0 ELSE n[2]
getBalance(n) == IF n = NULL THEN 0 ELSE getHeight(n[3]) - getHeight(n[4])
newNode(v)    == <<v, 1, NULL, NULL>>

\* The node with its height made up from its children's.
Node(v, l, r) == <<v, 1 + max(getHeight(l), getHeight(r)), l, r>>

\* n and all that is below it, level by level, NULL included.
Subtrees(n) ==
  LET level[d \in 0 .. getHeight(n)] ==
        IF d = 0 THEN {n} ELSE UNION {{m[3], m[4]} : m \in level[d - 1] \ {NULL}}
  IN  UNION {level[d] : d \in 0 .. getHeight(n)}

Below(n)  == Subtrees(n) \ {NULL}
ValsOf(n) == {m[1] : m \in Below(n)}

rotateRight(y) == LET x == y[3] IN Node(x[1], x[3], Node(y[1], x[4], y[4]))
rotateLeft(x)  == LET y == x[4] IN Node(y[1], Node(x[1], x[3], y[3]), y[4])

\* LR and RL: the child is rotated first; the node's own height waits for the
\* second rotation.
rotateLeftRight(n) == rotateRight(<<n[1], n[2], rotateLeft(n[3]), n[4]>>)
rotateRightLeft(n) == rotateLeft(<<n[1], n[2], n[3], rotateRight(n[4])>>)

\* Mutant: a tree that leans left is always rotated once.
AfterInsertOnce(n, v) == IF getBalance(n) > 1 THEN rotateRight(n) ELSE n

\* The way down is told from the value.
AfterInsert(n, v) ==
  CASE getBalance(n) > 1  /\ v < n[3][1] -> rotateRight(n)
    [] getBalance(n) < -1 /\ v > n[4][1] -> rotateLeft(n)
    [] getBalance(n) > 1  /\ v > n[3][1] -> rotateLeftRight(n)
    [] getBalance(n) < -1 /\ v < n[4][1] -> rotateRightLeft(n)
    [] OTHER -> n

insert(top, v) ==
  LET into[n \in Subtrees(top)] ==
        CASE n = NULL -> newNode(v)
          [] n # NULL /\ v = n[1] -> n
          [] n # NULL /\ v < n[1] -> AfterInsert(Node(n[1], into[n[3]], n[4]), v)
          [] n # NULL /\ v > n[1] -> AfterInsert(Node(n[1], n[3], into[n[4]]), v)
  IN  into[top]

findMin(top) ==
  LET min[n \in Below(top)] == IF n[3] = NULL THEN n[1] ELSE min[n[3]] IN min[top]

\* Mutant: an even child is taken to lean inwards.
AfterDeleteStrict(n) ==
  CASE getBalance(n) > 1  /\ getBalance(n[3]) > 0  -> rotateRight(n)
    [] getBalance(n) > 1  /\ getBalance(n[3]) <= 0 -> rotateLeftRight(n)
    [] getBalance(n) < -1 /\ getBalance(n[4]) <= 0 -> rotateLeft(n)
    [] getBalance(n) < -1 /\ getBalance(n[4]) > 0  -> rotateRightLeft(n)
    [] OTHER -> n

\* Here it is told from the child's balance.
AfterDelete(n) ==
  CASE getBalance(n) > 1  /\ getBalance(n[3]) >= 0 -> rotateRight(n)
    [] getBalance(n) > 1  /\ getBalance(n[3]) < 0  -> rotateLeftRight(n)
    [] getBalance(n) < -1 /\ getBalance(n[4]) <= 0 -> rotateLeft(n)
    [] getBalance(n) < -1 /\ getBalance(n[4]) > 0  -> rotateRightLeft(n)
    [] OTHER -> n

deleteNode(top, val) ==
  LET from[n \in Subtrees(top), v \in {val} \cup ValsOf(top)] ==
        CASE n = NULL -> NULL
          [] n # NULL /\ v < n[1] -> AfterDelete(Node(n[1], from[n[3], v], n[4]))
          [] n # NULL /\ v > n[1] -> AfterDelete(Node(n[1], n[3], from[n[4], v]))
          [] n # NULL /\ v = n[1] ->
               IF n[3] = NULL \/ n[4] = NULL
                 THEN IF n[3] # NULL THEN n[3] ELSE n[4]
                 ELSE LET least == findMin(n[4])
                      IN  AfterDelete(Node(least, n[3], from[n[4], least]))
  IN  from[top, val]
-----------------------------------------------------------------------------
(* The menu.  An array of values is so many insertions in a row.           *)

Init == root = NULL /\ last = <<"none", 0, 0>>

MenuInsert(v) == root' = insert(root, v) /\ last' = <<"put", v, 1>>
MenuDelete(v) == root' = deleteNode(root, v) /\ last' = <<"remove", v, 0>>

\* freeTree and exit; the next run starts with an empty tree.
MenuExit == root' = NULL /\ last' = <<"none", 0, 0>>

Next == (\E v \in Vals : MenuInsert(v) \/ MenuDelete(v)) \/ MenuExit
-----------------------------------------------------------------------------
(* Properties.                                                             *)

Map == INSTANCE KeyedMap WITH
  Keys <- Vals, Values <- {1}, Missing <- 0, map <- [v \in ValsOf(root) |-> 1]

\* insert adds the value and deleteNode takes it away, and neither touches
\* another, however the tree is rotated.
IsSet == Map!Spec

\* Every node is ordered, balanced and knows its height.
Balanced ==
  \A n \in Below(root) :
    /\ n[2] = 1 + max(getHeight(n[3]), getHeight(n[4]))
    /\ getBalance(n) \in -1 .. 1
    /\ \A v \in ValsOf(n[3]) : v < n[1]
    /\ \A v \in ValsOf(n[4]) : n[1] < v
=============================================================================
