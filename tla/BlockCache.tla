----------------------------- MODULE BlockCache -----------------------------
(***************************************************************************)
(* MemoryAllocation/cache.c: read_block and write_block over a disk file,  *)
(* with a pool of buffers and a cache of blocks.  An entry of the cache is *)
(* in the chain of its bucket (next) and in a doubly linked list in order  *)
(* of use (lru_prev, lru_next).  cache_put never looks for an entry of the *)
(* same key, so a block may have several.                                  *)
(*                                                                         *)
(* main calls one function after the other, so a call is one step, and the *)
(* buffer it takes is back in the pool at its end.  All blocks have one    *)
(* size, which is the unit of current_size.                                *)
(***************************************************************************)
EXTENDS Pointers, FiniteSets, FiniteSetsExt

CONSTANTS Blocks,             \* block ids, 0 .. n
          Contents,           \* what a caller may write
          MAX_CACHE_SIZE,     \* in blocks
          BUFFER_POOL_SIZE,
          Bucket,             \* hash_key of the key of each block id
          FirstLengths        \* blocks test_disk.img may have at the start

Zero    == "zero"             \* what a hole of the file reads as
Data    == Contents \cup {Zero}
Entries == 1 .. MAX_CACHE_SIZE
Pointer == Entries \cup {NULL}
Buffers == 0 .. BUFFER_POOL_SIZE - 1
Buckets == {Bucket[b] : b \in Blocks}

ConstantsOK ==
  /\ MAX_CACHE_SIZE \in Nat \ {0} /\ BUFFER_POOL_SIZE \in Nat \ {0}
  /\ Blocks \subseteq Nat /\ DOMAIN Bucket = Blocks /\ Zero \notin Contents
  /\ FirstLengths \subseteq Nat

VARIABLES cache,       \* cache_t with its entries
          free_list,   \* indices of the free buffers, the next one last
          disk,        \* the blocks of the file
          latest,      \* history: what each block should read as
          unwritten    \* history: blocks whose last write did not reach the disk

vars == <<cache, free_list, disk, latest, unwritten>>

NoLinks == [e \in Entries |-> NULL]
Unset   == [block |-> 0, data |-> Zero]

TypeOK ==
  /\ cache.hash_table \in [Buckets -> Pointer]
  /\ cache.lru_head \in Pointer /\ cache.lru_tail \in Pointer
  /\ \A f \in {cache.next, cache.lru_prev, cache.lru_next} : f \in [Entries -> Pointer]
  /\ cache.entry \in [Entries -> [block : Blocks, data : Data]]
  /\ cache.live \subseteq Entries /\ cache.current_size \in 0 .. MAX_CACHE_SIZE
  /\ free_list \in Seq(Buffers)
  /\ disk \in Seq(Data) /\ latest \in [Blocks -> Data] /\ unwritten \subseteq Blocks

create_cache ==
  [hash_table |-> [h \in Buckets |-> NULL], lru_head |-> NULL, lru_tail |-> NULL,
   next |-> NoLinks, lru_prev |-> NoLinks, lru_next |-> NoLinks,
   entry |-> [e \in Entries |-> Unset], live |-> {}, current_size |-> 0]

create_buffer_pool == [i \in 1 .. BUFFER_POOL_SIZE |-> i - 1]

\* create_filesystem
Init ==
  /\ cache = create_cache
  /\ free_list = create_buffer_pool
  /\ \E n \in FirstLengths : disk = [i \in 1 .. n |-> Zero]
  /\ latest = [b \in Blocks |-> Zero]
  /\ unwritten = {}
-----------------------------------------------------------------------------
(* The cache.                                                              *)

\* Mutant: a tail that is moved stays the tail.
move_to_frontKeepsTail(c, e) ==
  IF e = c.lru_head THEN c
  ELSE LET prev == c.lru_prev[e]
           next == c.lru_next[e]
       IN  [c EXCEPT !.lru_next = [Store(@, prev, next) EXCEPT ![e] = c.lru_head],
                     !.lru_prev = Store([Store(@, next, prev) EXCEPT ![e] = NULL], c.lru_head, e),
                     !.lru_head = e]

move_to_front(c, e) ==
  IF e = c.lru_head THEN c
  ELSE LET prev == c.lru_prev[e]
           next == c.lru_next[e]
       IN  [c EXCEPT !.lru_next = [Store(@, prev, next) EXCEPT ![e] = c.lru_head],
                     !.lru_prev = Store([Store(@, next, prev) EXCEPT ![e] = NULL], c.lru_head, e),
                     !.lru_tail = IF e = @ THEN prev ELSE @,
                     !.lru_head = e]

\* The chain of bucket h without e: the pointer that leads to e skips it.
Unchained(c, h, e) ==
  [c EXCEPT !.hash_table[h] = IF @ = e THEN c.next[e] ELSE @,
            !.next = [x \in Entries |-> IF @[x] = e THEN c.next[e] ELSE @[x]]]

\* Mutant: the entry used last is evicted, from the front of the list.
evict_mru(c) ==
  LET victim == c.lru_head
      next   == c.lru_next[victim]
      rest   == Unchained(c, Bucket[c.entry[victim].block], victim)
  IN  [rest EXCEPT !.lru_head = next,
                   !.lru_tail = IF next = NULL THEN NULL ELSE @,
                   !.lru_prev = [Store(@, next, NULL) EXCEPT ![victim] = NULL],
                   !.lru_next[victim] = NULL, !.next[victim] = NULL,
                   !.entry[victim] = Unset, !.live = @ \ {victim}, !.current_size = @ - 1]

\* The links of a freed entry are forgotten with it.
evict_lru(c) ==
  LET victim == c.lru_tail
      prev   == c.lru_prev[victim]
      rest   == Unchained(c, Bucket[c.entry[victim].block], victim)
  IN  [rest EXCEPT !.lru_tail = prev,
                   !.lru_head = IF prev = NULL THEN NULL ELSE @,
                   !.lru_next = [Store(@, prev, NULL) EXCEPT ![victim] = NULL],
                   !.lru_prev[victim] = NULL, !.next[victim] = NULL,
                   !.entry[victim] = Unset, !.live = @ \ {victim}, !.current_size = @ - 1]

\* The first entry of the block in its chain, NULL if there is none.
Lookup(c, b) ==
  LET s    == Chain(c.next, c.hash_table[Bucket[b]])
      hits == {i \in DOMAIN s : c.entry[s[i]].block = b}
  IN  IF hits = {} THEN NULL ELSE s[Min(hits)]

\* The new entry comes first in its chain and in the list.
cache_put(c, b, d) ==
  LET room == IF c.current_size + 1 > MAX_CACHE_SIZE THEN evict_lru(c) ELSE c
      e    == Min(Entries \ room.live)
      h    == Bucket[b]
  IN  [room EXCEPT !.entry[e] = [block |-> b, data |-> d],
                   !.next[e] = room.hash_table[h], !.hash_table[h] = e,
                   !.lru_next[e] = room.lru_head,
                   !.lru_prev = Store([@ EXCEPT ![e] = NULL], room.lru_head, e),
                   !.lru_head = e,
                   !.lru_tail = IF @ = NULL THEN e ELSE @,
                   !.live = @ \cup {e}, !.current_size = @ + 1]
-----------------------------------------------------------------------------
(* The buffers.                                                            *)

get_buffer == free_list[Len(free_list)]
Taken      == SubSeq(free_list, 1, Len(free_list) - 1)

release_buffer(list, i) == Append(list, i)
-----------------------------------------------------------------------------
(* The calls.                                                              *)

ReadHit(b) ==
  LET e == Lookup(cache, b)
  IN  /\ e # NULL
      /\ cache' = move_to_front(cache, e)
      /\ UNCHANGED <<free_list, disk, latest, unwritten>>

ReadMiss(b) ==
  /\ Lookup(cache, b) = NULL
  /\ free_list # <<>>
  /\ b < Len(disk)
  /\ cache' = cache_put(cache, b, disk[b + 1])
  /\ free_list' = release_buffer(Taken, get_buffer)
  /\ UNCHANGED <<disk, latest, unwritten>>

\* Mutant: the buffer is not given back when the read fails.
ReadFailsKeepsBuffer(b) ==
  /\ Lookup(cache, b) = NULL
  /\ free_list # <<>>
  /\ free_list' = Taken
  /\ UNCHANGED <<cache, disk, latest, unwritten>>

\* The read is short, behind the end of the file, or fails.
ReadFails(b) ==
  /\ Lookup(cache, b) = NULL
  /\ free_list # <<>>
  /\ free_list' = release_buffer(Taken, get_buffer)
  /\ UNCHANGED <<cache, disk, latest, unwritten>>

read_block(b) == ReadHit(b) \/ ReadMiss(b) \/ ReadFails(b)

\* Block b of the file becomes d; what is between the end and b reads as zero.
Written(b, d) ==
  [i \in 1 .. IF b < Len(disk) THEN Len(disk) ELSE b + 1 |->
     IF i = b + 1 THEN d ELSE IF i <= Len(disk) THEN disk[i] ELSE Zero]

\* The block goes into the cache before it goes to the disk, and nobody
\* looks at what write returns.
write_block(b, d) ==
  /\ free_list # <<>>
  /\ cache' = cache_put(cache, b, d)
  /\ \/ disk' = Written(b, d) /\ unwritten' = unwritten \ {b}
     \/ UNCHANGED disk /\ unwritten' = unwritten \cup {b}
  /\ free_list' = release_buffer(Taken, get_buffer)
  /\ latest' = [latest EXCEPT ![b] = d]

Next == \E b \in Blocks : read_block(b) \/ \E d \in Contents : write_block(b, d)

Spec == Init /\ [][Next]_vars
-----------------------------------------------------------------------------
(* Properties.                                                             *)

\* What read_block(b) returns now, if it succeeds.
ReadsAs(b) ==
  LET e == Lookup(cache, b) IN IF e # NULL THEN cache.entry[e].data ELSE disk[b + 1]

\* read_block returns what was last written to the block, unless that write
\* did not reach the disk: of several entries for one block the newest is met
\* first, and an older one never outlives it.
ReadsLatest ==
  \A b \in Blocks \ unwritten :
    Lookup(cache, b) # NULL \/ b < Len(disk) => ReadsAs(b) = latest[b]

\* The list in order of use is well formed and holds the allocated entries,
\* each once, as do the hash chains, each in its bucket, and current_size
\* counts them: nothing leaks and no pointer leads to a freed entry.
ListsAgree ==
  /\ IsDoublyLinked(cache.lru_head, cache.lru_tail, cache.lru_prev, cache.lru_next, cache.live)
  /\ cache.current_size = Cardinality(cache.live)
  /\ \A h \in Buckets :
       LET s == Chain(cache.next, cache.hash_table[h])
       IN  /\ {s[i] : i \in DOMAIN s} =
                {e \in cache.live : Bucket[cache.entry[e].block] = h}
           /\ \A i, j \in DOMAIN s : s[i] = s[j] => i = j

\* Between calls every buffer is in the free list once: no path of read_block
\* or write_block keeps or doubles one.
BuffersReturned ==
  /\ Len(free_list) = BUFFER_POOL_SIZE
  /\ {free_list[i] : i \in DOMAIN free_list} = Buffers
=============================================================================
