----------------------------- MODULE StringCache -----------------------------
(***************************************************************************)
(* FIleCache/LruCahce.c: strings by key, in hash chains and in a list with *)
(* the key used last in front.  Chains and list share the field next, so   *)
(* the code follows and rewrites one for the other.  A call that meets a   *)
(* freed node, or walks in a circle, has no defined result: the model      *)
(* stops there.  What the strings hold decides nothing and is left out, as *)
(* are keys so long that the code cuts them (line 134).                    *)
(***************************************************************************)
EXTENDS Pointers, FiniteSetsExt

CONSTANTS Keys,
          CACHE_SIZE,    \* nodes, and buckets
          hash           \* function from the keys to 0 .. CACHE_SIZE - 1

Nodes == 1 .. CACHE_SIZE + 2     \* malloc comes before free, and may reuse or not

VARIABLES cache,         \* [head, tail, nodes, count]
          key, prev, next,
          live,          \* the nodes allocated
          undefined      \* the last call had no defined result

vars == <<cache, key, prev, next, live, undefined>>

ConstantsOK == CACHE_SIZE \in Nat \ {0} /\ hash \in [Keys -> 0 .. CACHE_SIZE - 1]

None == 0                \* no key
Wild == -1               \* no pointer at all
Freed(f, ns, v) == [n \in Nodes |-> IF n \in ns THEN v ELSE f[n]]

TypeOK ==
  /\ {cache.head, cache.tail} \cup {cache.nodes[b] : b \in DOMAIN cache.nodes}
       \subseteq Nodes \cup {NULL}
  /\ cache.count \in Nat
  /\ live \subseteq Nodes /\ undefined \in BOOLEAN
  /\ key \in [Nodes -> Keys \cup {None}]
  /\ prev \in [Nodes -> Nodes \cup {NULL}] /\ next \in [Nodes -> Nodes \cup {NULL}]

\* create_lru_cache
Init ==
  /\ cache = [head |-> NULL, tail |-> NULL,
              nodes |-> [b \in 0 .. CACHE_SIZE - 1 |-> NULL], count |-> 0]
  /\ key = [n \in Nodes |-> None]
  /\ prev = [n \in Nodes |-> NULL] /\ next = prev
  /\ live = {} /\ undefined = FALSE

Valid(ps) == ps \subseteq live \cup {NULL}

Undefined == undefined' = TRUE /\ UNCHANGED <<cache, key, prev, next, live>>
-----------------------------------------------------------------------------
move_to_front(n) ==
  IF cache.head = n THEN [cache |-> cache, prev |-> prev, next |-> next, sound |-> TRUE]
  ELSE LET next1 == Store(next, prev[n], next[n])
           prev1 == Store(prev, next1[n], prev[n])
           tail1 == IF cache.tail = n THEN prev1[n] ELSE cache.tail
       IN  [cache |-> [cache EXCEPT !.head = n, !.tail = IF tail1 = NULL THEN n ELSE tail1],
            next  |-> [next1 EXCEPT ![n] = cache.head],
            prev  |-> Store([prev1 EXCEPT ![n] = NULL], cache.head, n),
            sound |-> Valid({prev[n], next1[n], cache.head})]

\* The search of a chain: the node with the key, NULL, or Wild where it comes
\* to a freed node or goes round in a circle.
Find(links, k) ==
  LET met  == Chain(links, cache.nodes[hash[k]])
      ends == {i \in DOMAIN met : met[i] \notin live \/ key[met[i]] = k}
      n    == met[Min(ends)]
  IN  CASE ends # {} -> IF n \in live THEN n ELSE Wild
        [] ends = {} /\ Len(met) > Cardinality(Nodes) -> Wild
        [] OTHER -> NULL

\* A hit moves the node; with update, cache_put then searches the chain again
\* for the node whose data it overwrites.
Hit(k, update) ==
  LET n == Find(next, k)
      m == move_to_front(n)
  IN  /\ ~undefined /\ n # NULL
      /\ IF n = Wild THEN Undefined
         ELSE IF ~m.sound \/ (update /\ Find(m.next, k) = Wild) THEN Undefined
         ELSE /\ cache' = m.cache /\ prev' = m.prev /\ next' = m.next
              /\ UNCHANGED <<key, live, undefined>>

cache_get(k) == Hit(k, FALSE)       \* a miss changes nothing

\* A mutant: the list is cut only when it is too long already.
remove_lruLate ==
  IF cache.count <= CACHE_SIZE \/ cache.tail = NULL
  THEN [cache |-> cache, next |-> next, gone |-> {}, sound |-> TRUE]
  ELSE [cache |-> [cache EXCEPT !.tail = prev[cache.tail], !.count = @ - 1],
        next  |-> next, gone |-> {cache.tail}, sound |-> TRUE]

\* remove_lru, and what cache_put does with its result.
remove_lru ==
  LET lru    == cache.tail
      before == prev[lru]
      next1  == Store(next, before, NULL)
  IN  IF cache.count < CACHE_SIZE \/ lru = NULL
      THEN [cache |-> cache, next |-> next, gone |-> {}, sound |-> TRUE]
      ELSE [cache |-> [cache EXCEPT !.head = IF before = NULL THEN NULL ELSE @,
                                    !.tail = before,
                                    !.nodes[hash[key[lru]]] = IF @ = lru THEN next1[lru] ELSE @,
                                    !.count = @ - 1],
            next  |-> next1, gone |-> {lru}, sound |-> Valid({lru, before})]

\* malloc: of the nodes no pointer is left to, one stands for all.
Fresh ==
  LET met   == {cache.nodes[b] : b \in DOMAIN cache.nodes} \cup {cache.tail} \cup
               {next[n] : n \in live} \cup {prev[n] : n \in live}
      clean == Nodes \ (live \cup met)
  IN  (met \ (live \cup {NULL})) \cup (IF clean = {} THEN {} ELSE {Min(clean)})

\* Head and tail; the links of the node are set by Insert.
add_to_front(c, n) == [c EXCEPT !.head = n, !.tail = IF @ = NULL THEN n ELSE @]

\* cache_put of a key it does not find: what add_to_front has just stored in the
\* field next is overwritten by the chain.
Insert(k) ==
  LET r == remove_lru
      c == r.cache
  IN  /\ ~undefined /\ Find(next, k) = NULL
      /\ IF ~r.sound \/ c.head \notin (live \ r.gone) \cup {NULL} THEN Undefined
         ELSE \E n \in Fresh :
           /\ live' = (live \ r.gone) \cup {n}
           /\ cache' = [add_to_front(c, n) EXCEPT !.nodes[hash[k]] = n, !.count = @ + 1]
           /\ key'  = [Freed(key, r.gone, None) EXCEPT ![n] = k]
           /\ prev' = [Freed(Store(prev, c.head, n), r.gone, NULL) EXCEPT ![n] = NULL]
           /\ next' = [Freed(r.next, r.gone, NULL) EXCEPT ![n] = c.nodes[hash[k]]]
           /\ UNCHANGED undefined

cache_put(k) == Hit(k, TRUE) \/ Insert(k)

Next == \E k \in Keys : cache_get(k) \/ cache_put(k)
-----------------------------------------------------------------------------
(* Properties.                                                             *)

\* However chains and list are mixed up, count is the number of nodes that are
\* allocated, and not more than CACHE_SIZE: none leaks, none is freed twice.
Counted == cache.count = Cardinality(live) /\ Cardinality(live) <= CACHE_SIZE
=============================================================================
