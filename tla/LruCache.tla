------------------------------ MODULE LruCache ------------------------------
(***************************************************************************)
(* LEETCODE PROBLEMS/lrucache.c: a hash table of entries that point to the *)
(* nodes of a doubly linked list in order of use.  Nodes and their links   *)
(* are modelled as they are; the singly linked chain of a bucket, which is *)
(* only prepended to and searched, is a sequence of entries.               *)
(***************************************************************************)
EXTENDS Pointers, FiniteSets, FiniteSetsExt, SequencesExt

CONSTANTS Keys, Values,
          Capacities,    \* what lRUCacheCreate may be called with
          HASH_SIZE,
          MaxNodes       \* bound: nodes allocated at a time

Nodes    == 1 .. MaxNodes
Pointer  == Nodes \cup {NULL}
Buckets  == 0 .. HASH_SIZE - 1
hash(k)  == k % HASH_SIZE
Missing  == -1           \* what lRUCacheGet returns for a key it has not

\* One more node than the capacity is allocated while lRUCachePut runs.
ConstantsOK ==
  /\ Keys \subseteq Nat /\ Values \subseteq Nat /\ HASH_SIZE \in Nat \ {0} /\ MaxNodes \in Nat
  /\ \A c \in Capacities : c \in Nat /\ c + 1 <= MaxNodes

VARIABLES obj,        \* LRUCache but for its hash table, with the links of its nodes
          node,       \* key and value of each node
          hashTable,  \* the chain of each bucket: entries [key, node]
          live,       \* nodes allocated and not freed
          result      \* history: what the last lRUCacheGet returned

vars == <<obj, node, hashTable, live, result>>

NoLinks == [n \in Nodes |-> NULL]
Unset   == [key |-> 0, value |-> 0]

TypeOK ==
  /\ obj.capacity \in Capacities /\ obj.size \in 0 .. obj.capacity
  /\ obj.head \in Pointer /\ obj.tail \in Pointer
  /\ obj.prev \in [Nodes -> Pointer] /\ obj.next \in [Nodes -> Pointer]
  /\ node \in [Nodes -> [key : Keys \cup {0}, value : Values \cup {0}]]
  /\ DOMAIN hashTable = Buckets
  /\ live \subseteq Nodes
  /\ result \in Values \cup {Missing}

Init ==
  /\ \E c \in Capacities :
       obj = [capacity |-> c, size |-> 0, head |-> NULL, tail |-> NULL,
              prev |-> NoLinks, next |-> NoLinks]
  /\ node = [n \in Nodes |-> Unset]
  /\ hashTable = [b \in Buckets |-> <<>>]
  /\ live = {}
  /\ result = Missing
-----------------------------------------------------------------------------
(* The list.                                                               *)

createNode(k, v) == [key |-> k, value |-> v]

addToHead(o, n) ==
  [o EXCEPT !.next = Store(@, n, o.head),
            !.prev = Store(Store(@, n, NULL), o.head, n),
            !.head = n,
            !.tail = IF @ = NULL THEN n ELSE @]

\* Mutant: the tail is left where it is.
removeNodeKeepsTail(o, n) ==
  [o EXCEPT !.next = Store(@, o.prev[n], o.next[n]),
            !.head = IF o.prev[n] = NULL THEN o.next[n] ELSE @,
            !.prev = Store(@, o.next[n], o.prev[n])]

\* The links of the removed node itself stay.
removeNode(o, n) ==
  [o EXCEPT !.next = Store(@, o.prev[n], o.next[n]),
            !.head = IF o.prev[n] = NULL THEN o.next[n] ELSE @,
            !.prev = Store(@, o.next[n], o.prev[n]),
            !.tail = IF o.next[n] = NULL THEN o.prev[n] ELSE @]

removeTail(o) == removeNode(o, o.tail)

moveToHead(o, n) == addToHead(removeNode(o, n), n)

\* free(n): the memory holds nothing anybody reads.
Forget(o, n) == [o EXCEPT !.prev[n] = NULL, !.next[n] = NULL]
-----------------------------------------------------------------------------
(* The hash table.                                                         *)

Hits(chain, k) == {i \in DOMAIN chain : chain[i].key = k}

\* The first entry for the key gives the node.
hashGet(k) ==
  LET chain == hashTable[hash(k)]
  IN  IF Hits(chain, k) = {} THEN NULL ELSE chain[Min(Hits(chain, k))].node

\* Mutant: the whole bucket goes.
hashRemoveBucket(table, k) == [table EXCEPT ![hash(k)] = <<>>]

hashRemove(table, k) ==
  [table EXCEPT ![hash(k)] =
     IF Hits(@, k) = {} THEN @ ELSE RemoveAt(@, Min(Hits(@, k)))]

\* The key has no entry when hashPut is called.
hashPut(table, k, n) ==
  [table EXCEPT ![hash(k)] = <<[key |-> k, node |-> n]>> \o @]
-----------------------------------------------------------------------------
(* The calls.                                                              *)

Hit(k) ==
  /\ hashGet(k) # NULL
  /\ obj' = moveToHead(obj, hashGet(k))
  /\ result' = node[hashGet(k)].value
  /\ UNCHANGED <<node, hashTable, live>>

Miss(k) ==
  /\ hashGet(k) = NULL
  /\ result' = Missing
  /\ UNCHANGED <<obj, node, hashTable, live>>

lRUCacheGet(k) == Hit(k) \/ Miss(k)

Replace(k, v) ==
  /\ hashGet(k) # NULL
  /\ node' = [node EXCEPT ![hashGet(k)].value = v]
  /\ obj' = moveToHead(obj, hashGet(k))
  /\ result' = Missing
  /\ UNCHANGED <<hashTable, live>>

\* Mutant: one node too many is kept.
OverFullLate(o) == o.size > o.capacity + 1

OverFull(o) == o.size > o.capacity

\* The new node is linked and entered first, then the last one is dropped if
\* there are too many: with a capacity of 0 that is the new node itself.
Insert(k, v) ==
  LET n       == Min(Nodes \ live)
      added   == [addToHead(obj, n) EXCEPT !.size = @ + 1]
      entered == hashPut(hashTable, k, n)
      nodes   == [node EXCEPT ![n] = createNode(k, v)]
      old     == added.tail
  IN  /\ hashGet(k) = NULL
      /\ IF OverFull(added)
         THEN /\ obj' = [Forget(removeTail(added), old) EXCEPT !.size = @ - 1]
              /\ hashTable' = hashRemove(entered, nodes[old].key)
              /\ node' = [nodes EXCEPT ![old] = Unset]
              /\ live' = (live \cup {n}) \ {old}
         ELSE /\ obj' = added
              /\ hashTable' = entered
              /\ node' = nodes
              /\ live' = live \cup {n}
      /\ result' = Missing

lRUCachePut(k, v) == Replace(k, v) \/ Insert(k, v)

\* What the loop of lRUCacheFree frees: the nodes it meets from the head.
Freed == LET s == Chain(obj.next, obj.head) IN {s[i] : i \in DOMAIN s}

\* The cache is gone; the caller may create the next one.
lRUCacheFree ==
  /\ obj' = [obj EXCEPT !.size = 0, !.head = NULL, !.tail = NULL,
                        !.prev = NoLinks, !.next = NoLinks]
  /\ node' = [n \in Nodes |-> IF n \in Freed THEN Unset ELSE node[n]]
  /\ hashTable' = [b \in Buckets |-> <<>>]
  /\ live' = live \ Freed
  /\ result' = Missing

Next ==
  \/ \E k \in Keys : lRUCacheGet(k) \/ \E v \in Values : lRUCachePut(k, v)
  \/ lRUCacheFree

Spec == Init /\ [][Next]_vars
-----------------------------------------------------------------------------
(* Properties.                                                             *)

Recency ==
  LET s == Chain(obj.next, obj.head)
  IN  [i \in DOMAIN s |-> <<node[s[i]].key, node[s[i]].value>>]

With(o, k)    == SelectSeq(o, LAMBDA kv : kv[1] = k)
Without(o, k) == SelectSeq(o, LAMBDA kv : kv[1] # k)

\* What an LRU cache makes of its <<key, value>> pairs, the one used last
\* first, and what it returns.
RecentGet(o, k) ==
  IF With(o, k) = <<>> THEN <<o, Missing>>
  ELSE <<With(o, k) \o Without(o, k), With(o, k)[1][2]>>

RecentPut(o, k, v) ==
  LET all == <<<<k, v>>>> \o Without(o, k)
  IN  <<SubSeq(all, 1, IF Len(all) < obj.capacity THEN Len(all) ELSE obj.capacity), Missing>>

IsLruInit == Recency = <<>> /\ result = Missing

\* Each call answers for the key it was asked for.
IsLruStep ==
  LET o == Recency
  IN  /\ obj'.capacity = obj.capacity
      /\ \E after \in {<<Recency', result'>>} :
           /\ \A k \in Keys : lRUCacheGet(k) => after = RecentGet(o, k)
           /\ \A k \in Keys, v \in Values : lRUCachePut(k, v) => after = RecentPut(o, k, v)
           /\ lRUCacheFree => after = <<<<>>, Missing>>

\* Whatever the order of gets and puts, the cache answers as a map of the
\* keys used last, at most capacity of them, each with the value it was put
\* with last: links, hash chains and size stay in step.
IsLru == IsLruInit /\ [][IsLruStep]_vars

\* The nodes allocated are those in the list, which is well formed, and each
\* has exactly one entry, in the bucket of its key: nothing leaks and no
\* entry points to a freed node.
Sound ==
  /\ IsDoublyLinked(obj.head, obj.tail, obj.prev, obj.next, live)
  /\ obj.size = Cardinality(live)
  /\ \A b \in Buckets : \A i \in DOMAIN hashTable[b] :
       LET e == hashTable[b][i]
       IN  e.node \in live /\ node[e.node].key = e.key /\ hash(e.key) = b
  /\ \A n \in live : Cardinality({e \in Buckets \X (1 .. MaxNodes) :
       e[2] \in DOMAIN hashTable[e[1]] /\ hashTable[e[1]][e[2]].node = n}) = 1
=============================================================================
