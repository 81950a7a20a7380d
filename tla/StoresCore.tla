----------------------------- MODULE StoresCore -----------------------------
(***************************************************************************)
(* The multi-version store, the key-value servers, the write-ahead log,    *)
(* the page replacement policies and the two hash maps, with the state     *)
(* that MCStores runs them on and constants of any value, for the proofs.  *)
(***************************************************************************)

CONSTANTS Threads, Console, MvKeys, \* of the multi-version store
          Demos, MAX_OPS, MAX_LOGS, MaxNodes, MaxClock,
          Clients,                  \* of the key-value servers
          KvKeys, KvValues, MAX_ITEMS,
          WalKeys, WalValues,       \* of the write-ahead log
          WalPairs, OddPairs, ScannedPairs, MaxLog, MaxUnsynced,
          PcPages, MAX_FRAMES,      \* of the page replacement policies
          MAX_PAGES,
          MapThreads, MapKeys,      \* of the thread-safe hash map
          MapValues, NUM_BUCKETS, MapBucket,
          TableKeys, TableValues,   \* of the hash table
          TABLE_SIZE, TableBucket

VARIABLES store, vnodes, clock, tid_counter, logs, pc, tx, todo, vnode, commands, atBegin,
          kind, pairs, store_count, lock, h, acked, written, race,
          log, synced, db, dbTail, older, step, cmd, at, inside_tx, pair, promised, later, lost,
          choice, counter, buffer, time, refBit, pointer, T1, T2, B1, B2, p, recent,
          buckets, call, mapLast,
          chains, corrupt, hashLast

versioned == <<store, vnodes, clock, tid_counter, logs, pc, tx, todo, vnode, commands, atBegin>>
served    == <<kind, pairs, store_count, lock, h, acked, written, race>>
logged    == <<log, synced, db, dbTail, older, step, cmd, at, inside_tx, pair, promised, later, lost>>
replaced  == <<choice, counter, buffer, time, refBit, pointer, T1, T2, B1, B2, p, recent>>
mapped    == <<buckets, call, mapLast>>
chained   == <<chains, corrupt, hashLast>>

Mvcc == INSTANCE MvccStore WITH Keys <- MvKeys, nodes <- vnodes, node <- vnode

Servers == INSTANCE KVServer WITH
  Kinds <- {"shared", "static", "dynamic"}, Keys <- KvKeys, Values <- KvValues,
  store <- pairs, latest <- written

Wal == INSTANCE WalDemo WITH
  Keys <- WalKeys, Values <- WalValues, Pairs <- WalPairs,
  Odd <- OddPairs, Scanned <- ScannedPairs, pc <- step, acked <- promised

Policies == INSTANCE PageReplacement WITH Pages <- PcPages

Conc == INSTANCE ConcurrentMap WITH
  Threads <- MapThreads, Keys <- MapKeys, Values <- MapValues, hash <- MapBucket, last <- mapLast

Hash == INSTANCE HashTable WITH
  Keys <- TableKeys, Values <- TableValues, hash <- TableBucket,
  hashTable <- chains, last <- hashLast

ASSUME CoreAssumption ==
  /\ Mvcc!ConstantsOK /\ Servers!ConstantsOK /\ Wal!ConstantsOK /\ Policies!ConstantsOK
  /\ Conc!ConstantsOK /\ Hash!ConstantsOK
=============================================================================
