------------------------------ MODULE BPlusTree ------------------------------
(***************************************************************************)
(* Trees/BplusTreeDy.c: keys are inserted, splitting leaves and inner      *)
(* nodes on the way back up, and a range of them is read along the chain   *)
(* of the leaves.  Nodes are numbered as they are created; count is the    *)
(* length of keys.                                                         *)
(***************************************************************************)
EXTENDS Integers, SequencesExt, FiniteSetsExt

CONSTANTS Keys,
          MAX,          \* keys of a node
          MaxInserts    \* bound: keys inserted

VARIABLES node,         \* the nodes
          root,
          inserted      \* history: the keys inserted, in order of size

vars == <<node, root, inserted>>

NULL == 0
mid  == (MAX + 1) \div 2

ConstantsOK == Keys \subseteq Int /\ MAX >= 2 /\ MaxInserts \in Nat

createNode(isLeaf, keys, child, next) ==
  [isLeaf |-> isLeaf, keys |-> keys, child |-> child, next |-> next]

Init ==
  /\ node = <<createNode(TRUE, <<>>, <<>>, NULL)>>
  /\ root = 1
  /\ inserted = <<>>

\* Greater keys move up by one, from the end.
Sorted(keys, key) ==
  InsertAt(keys, 1 + Max({0} \cup {i \in DOMAIN keys : keys[i] <= key}), key)

\* Which child to descend to.
Branch(keys, key) == Min({i \in 1 .. Len(keys) + 1 : i > Len(keys) \/ key <= keys[i]})

\* The result of a call of insert: the nodes, and the new sibling of the node
\* it was called for, if it was split, with the key that goes up.
Result(nodes, newChild, upKey) == [node |-> nodes, newChild |-> newChild, upKey |-> upKey]

\* Mutant: the new leaf is not put into the chain.
splitLeafUnchained(t, n, key) ==
  LET keys == Sorted(t[n].keys, key)
      new  == createNode(TRUE, SubSeq(keys, mid + 1, MAX + 1), <<>>, NULL)
  IN  Result(Append([t EXCEPT ![n].keys = SubSeq(keys, 1, mid)], new),
             Len(t) + 1, keys[mid + 1])

splitLeaf(t, n, key) ==
  LET keys == Sorted(t[n].keys, key)
      new  == createNode(TRUE, SubSeq(keys, mid + 1, MAX + 1), <<>>, t[n].next)
  IN  Result(Append([t EXCEPT ![n].keys = SubSeq(keys, 1, mid), ![n].next = Len(t) + 1], new),
             Len(t) + 1, keys[mid + 1])

\* The inner node n has MAX keys and gets one more, with the child behind it.
splitInternal(t, n, keys, child) ==
  LET new == createNode(FALSE, SubSeq(keys, mid + 2, MAX + 1),
                        SubSeq(child, mid + 2, MAX + 2), NULL)
  IN  Result(Append([t EXCEPT ![n].keys = SubSeq(keys, 1, mid),
                              ![n].child = SubSeq(child, 1, mid + 1)], new),
             Len(t) + 1, keys[mid + 1])

insert(t, top, key) ==
  LET into[n \in DOMAIN t] ==
        IF t[n].isLeaf
        THEN IF Len(t[n].keys) < MAX
               THEN Result([t EXCEPT ![n].keys = Sorted(@, key)], NULL, 0)
               ELSE splitLeaf(t, n, key)
        ELSE LET i     == Branch(t[n].keys, key)
                 below == into[t[n].child[i]]
                 keys  == InsertAt(t[n].keys, i, below.upKey)
                 child == InsertAt(t[n].child, i + 1, below.newChild)
             IN  IF below.newChild = NULL THEN below
                 ELSE IF Len(t[n].keys) < MAX
                 THEN Result([below.node EXCEPT ![n].keys = keys, ![n].child = child], NULL, 0)
                 ELSE splitInternal(below.node, n, keys, child)
  IN  into[top]

\* A step of main: a split root gets a new root above it.
Insert(key) ==
  LET r == insert(node, root, key)
  IN  /\ Len(inserted) < MaxInserts
      /\ IF r.newChild = NULL
           THEN node' = r.node /\ UNCHANGED root
           ELSE /\ node' = Append(r.node, createNode(FALSE, <<r.upKey>>, <<root, r.newChild>>, NULL))
                /\ root' = Len(node')
      /\ inserted' = Sorted(inserted, key)

Next == \E key \in Keys : Insert(key)

LeafFor(key) ==
  LET down[n \in DOMAIN node] ==
        IF node[n].isLeaf THEN n ELSE down[node[n].child[Branch(node[n].keys, key)]]
  IN  down[root]

\* The keys from the leaf on; the first one beyond end stops the loop.
rangeKeys(start, end) ==
  LET from[n \in {NULL} \cup DOMAIN node] ==
        IF n = NULL THEN <<>>
        ELSE LET over == \E i \in DOMAIN node[n].keys : node[n].keys[i] > end
             IN  SelectSeq(node[n].keys, LAMBDA k : start <= k /\ k <= end)
                   \o (IF over THEN <<>> ELSE from[node[n].next])
  IN  from[LeafFor(start)]
-----------------------------------------------------------------------------
(* Properties.                                                             *)

\* A range query answers with exactly the keys inserted that lie in the range,
\* in order and as often as they were inserted.
RangesRight ==
  \A start, end \in Keys :
    rangeKeys(start, end) = SelectSeq(inserted, LAMBDA k : start <= k /\ k <= end)

DepthOf[n \in DOMAIN node] ==
  IF node[n].isLeaf THEN 0
  ELSE 1 + Max({DepthOf[node[n].child[i]] : i \in DOMAIN node[n].child})

\* All leaves are equally deep and no node is empty or over-full but the root.
Balanced ==
  \A n \in DOMAIN node :
    /\ Len(node[n].keys) <= MAX /\ (n # root => node[n].keys # <<>>)
    /\ ~node[n].isLeaf =>
         /\ Len(node[n].child) = Len(node[n].keys) + 1
         /\ \A i \in DOMAIN node[n].child : DepthOf[node[n].child[i]] = DepthOf[n] - 1
=============================================================================
