------------------------------ MODULE FileCache ------------------------------
(***************************************************************************)
(* FIleCache/bufferPool.c, a fixed array of buffers with a free list that  *)
(* runs through their next fields, and FileCahce.c on top of it: files     *)
(* read into the buffers and found again by name.  The chain of a bucket,  *)
(* which every function walks with a pointer to the entry before, is a     *)
(* sequence.  The name of an entry is cut to the length of its field: a    *)
(* name that was cut is not found again, and a file whose whole name is    *)
(* the cut one is taken for it.                                            *)
(* cached_files_count is not initialised and never read: it is left out.   *)
(***************************************************************************)
EXTENDS Pointers, FiniteSets, SequencesExt

CONSTANTS POOL_SIZE,
          Texts           \* what a buffer may hold

Zeroed  == "zeroed"       \* after the memset of release_buffer
Buffers == 1 .. POOL_SIZE
Pointer == Buffers \cup {NULL}

VARIABLES pool,           \* buffer_pool_t: free_list, free_count, next and is_free of each buffer
          data            \* what each buffer holds

PoolTypeOK ==
  /\ pool.free_list \in Pointer /\ pool.free_count \in 0 .. POOL_SIZE
  /\ pool.next \in [Buffers -> Pointer] /\ pool.is_free \in [Buffers -> BOOLEAN]
  /\ data \in [Buffers -> Texts \cup {Zeroed}]

\* create_buffer_pool.  The memory of a new buffer is never read before it is
\* written, so it may as well be zeroed.
PoolInit ==
  /\ pool = [free_list |-> 1, free_count |-> POOL_SIZE,
             next |-> [b \in Buffers |-> IF b = POOL_SIZE THEN NULL ELSE b + 1],
             is_free |-> [b \in Buffers |-> TRUE]]
  /\ data = [b \in Buffers |-> Zeroed]

Exhausted == pool.free_count = 0

\* The buffer acquire_buffer returns, and the pool without it.
Acquired == pool.free_list
AfterAcquire ==
  [pool EXCEPT !.free_list = pool.next[Acquired], !.is_free[Acquired] = FALSE,
               !.next[Acquired] = NULL, !.free_count = @ - 1]

\* Mutant: the buffer is pushed and the count forgotten.
AfterReleaseUncounted(b) ==
  IF pool.is_free[b] THEN pool
  ELSE [pool EXCEPT !.is_free[b] = TRUE, !.next[b] = pool.free_list, !.free_list = b]

AfterRelease(b) ==
  IF pool.is_free[b] THEN pool
  ELSE [pool EXCEPT !.is_free[b] = TRUE, !.next[b] = pool.free_list,
                    !.free_list = b, !.free_count = @ + 1]

release_buffer(b) ==
  /\ pool' = AfterRelease(b)
  /\ data' = IF pool.is_free[b] THEN data ELSE [data EXCEPT ![b] = Zeroed]

\* The free list holds the free buffers, each once, and is counted.
FreeListSound ==
  LET s == Chain(pool.next, pool.free_list)
  IN  /\ {s[i] : i \in DOMAIN s} = {b \in Buffers : pool.is_free[b]}
      /\ \A i, j \in DOMAIN s : s[i] = s[j] => i = j
      /\ pool.free_count = Len(s)
-----------------------------------------------------------------------------
(* FileCahce.c                                                             *)

CONSTANTS Names,      \* of the files there are; a file's text is its name
          Stored,     \* each name as strncpy leaves it in an entry
          Bucket,     \* hash of each name
          MaxTime     \* bound on the clock, in seconds

Buckets == {Bucket[f] : f \in Names}

ConstantsOK ==
  /\ POOL_SIZE \in Nat \ {0} /\ Texts = Names /\ Zeroed \notin Names
  /\ DOMAIN Stored = Names /\ DOMAIN Bucket = Names
  /\ Buckets \subseteq Nat /\ MaxTime \in Nat

VARIABLES files,      \* the chain of each bucket: [filename, buffer, last_accessed]
          now         \* time(NULL)

vars == <<pool, data, files, now>>

Entry(f, b) == [filename |-> Stored[f], buffer |-> b, last_accessed |-> now]

TypeOK ==
  /\ PoolTypeOK
  /\ now \in 0 .. MaxTime
  /\ DOMAIN files = Buckets
  /\ \A h \in Buckets : files[h] \in
       Seq([filename : {Stored[f] : f \in Names}, buffer : Buffers, last_accessed : 0 .. now])

Init == PoolInit /\ files = [h \in Buckets |-> <<>>] /\ now = 0

Tick == now < MaxTime /\ now' = now + 1 /\ UNCHANGED <<pool, data, files>>
-----------------------------------------------------------------------------
(* read_file_cached                                                        *)

\* Where the name is met first in its chain.
Hits(f) == {i \in DOMAIN files[Bucket[f]] : files[Bucket[f]][i].filename = f}

Hit(f) ==
  /\ Hits(f) # {}
  /\ files' = [files EXCEPT ![Bucket[f]][Min(Hits(f))].last_accessed = now]
  /\ UNCHANGED <<pool, data, now>>

NoBuffer(f) == Hits(f) = {} /\ Exhausted /\ UNCHANGED vars

Read(f) ==
  /\ Hits(f) = {} /\ ~Exhausted
  /\ pool' = AfterAcquire
  /\ data' = [data EXCEPT ![Acquired] = f]
  /\ files' = [files EXCEPT ![Bucket[f]] = <<Entry(f, Acquired)>> \o @]
  /\ UNCHANGED now

\* open, read or malloc fails: the acquired buffer goes back to where it was,
\* zeroed.
ReadFails(f) ==
  /\ Hits(f) = {} /\ ~Exhausted
  /\ data' = [data EXCEPT ![Acquired] = Zeroed]
  /\ UNCHANGED <<pool, files, now>>

read_file_cached(f) == Hit(f) \/ NoBuffer(f) \/ Read(f) \/ ReadFails(f)
-----------------------------------------------------------------------------
(* Removal.                                                                *)

\* Mutant: the entry before the one looked for is unlinked, as with a
\* pointer that lags behind.
UnlinkLagging(h, i) ==
  /\ files' = [files EXCEPT ![h] = RemoveAt(@, IF i > 1 THEN i - 1 ELSE i)]
  /\ release_buffer(files[h][i].buffer)
  /\ UNCHANGED now

\* Entry i of bucket h is unlinked and its buffer released.
Unlink(h, i) ==
  /\ files' = [files EXCEPT ![h] = RemoveAt(@, i)]
  /\ release_buffer(files[h][i].buffer)
  /\ UNCHANGED now

remove_cache_file(f) == Hits(f) # {} /\ Unlink(Bucket[f], Min(Hits(f)))

Cached == {c \in Buckets \X Buffers : c[2] \in DOMAIN files[c[1]]}
Accessed(c) == files[c[1]][c[2]].last_accessed

\* The first of a set of entries as the loops over buckets and chains go.
FirstMet(S) ==
  CHOOSE c \in S : \A d \in S : c[1] < d[1] \/ (c[1] = d[1] /\ c[2] <= d[2])

remove_lru_cached_file ==
  LET oldest == {c \in Cached : \A d \in Cached : Accessed(c) <= Accessed(d)}
  IN  Cached # {} /\ Unlink(FirstMet(oldest)[1], FirstMet(oldest)[2])

remove_mru_cached_file ==
  LET newest == {c \in Cached : \A d \in Cached : Accessed(c) >= Accessed(d)}
  IN  Cached # {} /\ Unlink(FirstMet(newest)[1], FirstMet(newest)[2])

Next ==
  \/ \E f \in Names : read_file_cached(f) \/ remove_cache_file(f)
  \/ remove_lru_cached_file
  \/ remove_mru_cached_file
  \/ Tick

Spec == Init /\ [][Next]_vars
-----------------------------------------------------------------------------
(* Properties.                                                             *)

\* Every buffer is free or belongs to exactly one cached file, whatever is
\* read, fails and is removed: no buffer is lost and none is shared.
PoolPartition ==
  /\ FreeListSound
  /\ \A b \in Buffers :
       Cardinality({c \in Cached : files[c[1]][c[2]].buffer = b})
         = (IF pool.is_free[b] THEN 0 ELSE 1)

\* The files whose entries are taken for those of f: its own, if its name is
\* stored whole, and any of its bucket whose name is cut to that of f.
Namesakes(f) == {g \in Names : Stored[g] = f /\ Bucket[g] = Bucket[f]}

\* A hit returns the text of the file asked for, or of one whose name is cut to
\* that name: its own, then, wherever no such file is in its bucket.  Of its
\* own text there are never two copies under its name.
HitsOwnFile ==
  \A f \in Names :
    LET Text(i) == data[files[Bucket[f]][i].buffer]
    IN  /\ \A i \in Hits(f) : Text(i) \in Namesakes(f)
        /\ Cardinality({i \in Hits(f) : Text(i) = f}) <= 1
=============================================================================
