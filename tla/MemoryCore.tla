----------------------------- MODULE MemoryCore -----------------------------
(***************************************************************************)
(* The sequential programs that manage memory, with the state that         *)
(* MCStores runs them on and constants of any value, for the proofs: the   *)
(* memory tracker, the memory pool, the page manager, the caches of blocks,*)
(* files and strings, and the LRU cache.                                   *)
(***************************************************************************)

CONSTANTS Addresses, Sizes,         \* of the memory tracker
          MaxPtrs, MaxTracked,
          PoolSizes, HEADER,        \* of the memory pool and of the page manager
          Requests, TOTAL_PAGES,
          BlockIds, BlockTexts,     \* of the block cache
          BlockBucket, MAX_CACHE_SIZE, BUFFER_POOL_SIZE, FirstLengths,
          FileNames, StoredNames,   \* of the file cache
          FileBucket, POOL_SIZE, MaxTime,
          StringKeys, StringHash,   \* of the string cache
          CACHE_SIZE,
          LruKeys, LruValues,       \* of the LRU cache
          LruCapacities, HASH_SIZE, LruNodes

VARIABLES heap, nodes, ptrs, log_open, running, untracked,
          PoolSize, blocks, asked,
          page_table,
          cache, free_list, disk, latest, unwritten,
          pool, data, files, now,
          strings, sKey, sPrev, sNext, sLive, sUndefined,
          obj, node, hashTable, live, result

tracked   == <<heap, nodes, ptrs, log_open, running, untracked>>
pieces    == <<PoolSize, blocks, asked>>
paged     == <<page_table>>
storage   == <<cache, free_list, disk, latest, unwritten>>
cached    == <<pool, data, files, now>>
stringed  == <<strings, sKey, sPrev, sNext, sLive, sUndefined>>
linked    == <<obj, node, hashTable, live, result>>

Tracker == INSTANCE MemoryTracker WITH MaxNodes <- MaxTracked

Memory == INSTANCE Allocators

Blocks == INSTANCE BlockCache WITH
  Blocks <- BlockIds, Contents <- BlockTexts, Bucket <- BlockBucket

Files == INSTANCE FileCache WITH
  Names <- FileNames, Texts <- FileNames, Stored <- StoredNames, Bucket <- FileBucket

Strings == INSTANCE StringCache WITH
  Keys <- StringKeys, hash <- StringHash,
  cache <- strings, key <- sKey, prev <- sPrev, next <- sNext, live <- sLive,
  undefined <- sUndefined

Lru == INSTANCE LruCache WITH
  Keys <- LruKeys, Values <- LruValues, Capacities <- LruCapacities, MaxNodes <- LruNodes

ASSUME MemoryAssumption ==
  /\ Tracker!ConstantsOK /\ Memory!ConstantsOK
  /\ Blocks!ConstantsOK /\ Files!ConstantsOK /\ Strings!ConstantsOK
  /\ Lru!ConstantsOK
=============================================================================
