------------------------------ MODULE MCStores ------------------------------
(***************************************************************************)
(* Everything that stores data, for TLC and for the proofs: caches, search *)
(* structures and, from StoresCore, the stores and allocators that are     *)
(* proved about.  They are separate programs, so a behaviour is one of     *)
(* them, chosen at the start, while the state of the others stays initial. *)
(***************************************************************************)
EXTENDS StoresCore, MemoryCore, Integers, Sequences, TLC

CONSTANT Programs                   \* those to be run

VARIABLES program,
          level, forward, skipLast,
          avlRoot, avlLast,
          bNode, bRoot, inserted,
          mfRoot, total, added, nums,
          words, tdata, counted, joined, total_count

skipped   == <<level, forward, skipLast>>
balanced  == <<avlRoot, avlLast>>
branched  == <<bNode, bRoot, inserted>>
streamed  == <<mfRoot, total, added>>
arrays    == <<nums>>
worded    == <<words, tdata, counted, joined, total_count>>
vars == <<program, linked, storage, cached, stringed, replaced, tracked, pieces, paged,
          chained, mapped, skipped, balanced, branched, streamed, arrays, worded, versioned, served, logged>>

Skip == INSTANCE SkipList WITH Data <- 1 .. 4, MAX_LEVEL <- 2, last <- skipLast

Avl == INSTANCE AvlTree WITH Vals <- 1 .. 8, root <- avlRoot, last <- avlLast

BPlus == INSTANCE BPlusTree WITH
  Keys <- 1 .. 4, MAX <- 3, MaxInserts <- 11, node <- bNode, root <- bRoot

Puzzles == INSTANCE Algorithms WITH
  Nums <- 1 .. 6, MaxTotal <- 7, Values <- {-1, 0, 2, 3}, MaxLen <- 5,
  MAX_THREADS <- 3, MaxSize <- 7, root <- mfRoot, text <- words

\* A race of two threads that set, set, delete and get on two keys, and a
\* console that works on what one thread left behind.
MCDemos ==
  LET Race  == <<[op |-> "SET", key |-> "x"], [op |-> "SET", key |-> "y"],
                 [op |-> "DEL", key |-> "y"], [op |-> "GET", key |-> "x"]>>
  IN  {[calls |-> [t \in {"t1", "t2"} |-> Race], commands |-> 0],
       [calls |-> [t \in {"t1"} |-> SubSeq(Race, 1, 1)], commands |-> 4]}

\* All blocks are in one bucket, and three of four files in another one.  A long
\* name is cut to that of another file of its bucket.
MCBlockBucket == [b \in {0, 1} |-> 0]
MCStoredNames == "a" :> "a" @@ "b" :> "b" @@ "c" :> "c" @@ "long" :> "c"
MCFileBucket  == "a" :> 0 @@ "b" :> 1 @@ "c" :> 0 @@ "long" :> 0
MCStringHash  == [k \in 1 .. 4 |-> k % 3]

\* The last key of either hash map has a bucket of its own.
MCMapBucket   == [k \in 1 .. 3 |-> k \div 3]
MCTableBucket == [k \in 1 .. 4 |-> k \div 4]

\* The value 2 has a blank, what stands before it is the value 1, and the other
\* key is written with "BEGIN" in its value.
MCWalPairs == {<<"a", 1>>, <<"a", 2>>, <<"b", 3>>}
MCOddPairs == {<<"b", 3>>}
MCScanned  == [w \in MCWalPairs |-> IF w = <<"a", 2>> THEN <<"a", 1>> ELSE w]

\* Room for all keys, or for one.
MCItems == "shared" :> 2 @@ "static" :> 1 @@ "dynamic" :> 1

ASSUME MCAssumption ==
  /\ Programs \subseteq {"lru", "blocks", "files", "strings", "pages", "tracker", "pool", "manager",
                         "hash", "map", "skip", "avl", "bplus", "median", "arrays", "words",
                         "mvcc", "kv", "wal"}
  /\ Skip!ConstantsOK /\ BPlus!ConstantsOK
  /\ Puzzles!ConstantsOK

\* The initial states differ only where the program that runs has a choice.
Init ==
  /\ program \in Programs
  /\ Lru!Init /\ Blocks!Init /\ Files!Init /\ Strings!Init /\ Policies!Init
  /\ Tracker!Init /\ Memory!PoolInit /\ Memory!PagesInit
  /\ Hash!Init /\ Conc!hashmapInit /\ Skip!Init /\ Avl!Init /\ BPlus!Init
  /\ Puzzles!MedianInit /\ Puzzles!ArrayInit /\ Puzzles!WordInit
  /\ Mvcc!Init /\ Servers!Init /\ Wal!Init
  /\ program # "lru" => obj.capacity = CHOOSE c \in LruCapacities : TRUE
  /\ program # "blocks" => Len(disk) = CHOOSE n \in FirstLengths : TRUE
  /\ program # "pages" => choice = 1
  /\ program # "pool" => PoolSize = CHOOSE n \in PoolSizes : TRUE
  /\ program # "words" => words = <<>>
  /\ program # "mvcc" => commands = (CHOOSE d \in Demos : TRUE).commands
  /\ program # "kv" => kind = "shared"

\* The program me runs, and nothing of the others changes.
Only(me) ==
  /\ program = me /\ UNCHANGED program
  /\ IF me = "lru" THEN TRUE ELSE UNCHANGED linked
  /\ IF me = "blocks" THEN TRUE ELSE UNCHANGED storage
  /\ IF me = "files" THEN TRUE ELSE UNCHANGED cached
  /\ IF me = "strings" THEN TRUE ELSE UNCHANGED stringed
  /\ IF me = "pages" THEN TRUE ELSE UNCHANGED replaced
  /\ IF me = "tracker" THEN TRUE ELSE UNCHANGED tracked
  /\ IF me = "pool" THEN TRUE ELSE UNCHANGED pieces
  /\ IF me = "manager" THEN TRUE ELSE UNCHANGED paged
  /\ IF me = "hash" THEN TRUE ELSE UNCHANGED chained
  /\ IF me = "map" THEN TRUE ELSE UNCHANGED mapped
  /\ IF me = "skip" THEN TRUE ELSE UNCHANGED skipped
  /\ IF me = "avl" THEN TRUE ELSE UNCHANGED balanced
  /\ IF me = "bplus" THEN TRUE ELSE UNCHANGED branched
  /\ IF me = "median" THEN TRUE ELSE UNCHANGED streamed
  /\ IF me = "arrays" THEN TRUE ELSE UNCHANGED arrays
  /\ IF me = "words" THEN TRUE ELSE UNCHANGED worded
  /\ IF me = "mvcc" THEN TRUE ELSE UNCHANGED versioned
  /\ IF me = "kv" THEN TRUE ELSE UNCHANGED served
  /\ IF me = "wal" THEN TRUE ELSE UNCHANGED logged

Next ==
  \/ Only("lru") /\ Lru!Next
  \/ Only("blocks") /\ Blocks!Next
  \/ Only("files") /\ Files!Next
  \/ Only("strings") /\ Strings!Next
  \/ Only("pages") /\ Policies!Next
  \/ Only("tracker") /\ Tracker!Next
  \/ Only("pool") /\ Memory!PoolNext
  \/ Only("manager") /\ Memory!PagesNext
  \/ Only("hash") /\ Hash!Next
  \/ Only("map") /\ Conc!Next
  \/ Only("skip") /\ Skip!Next
  \/ Only("avl") /\ Avl!Next
  \/ Only("bplus") /\ BPlus!Next
  \/ Only("median") /\ Puzzles!MedianNext
  \/ Only("arrays") /\ Puzzles!ArrayNext
  \/ Only("words") /\ Puzzles!WordNext
  \/ Only("mvcc") /\ Mvcc!Next
  \/ Only("kv") /\ Servers!Next
  \/ Only("wal") /\ Wal!Next

Spec == Init /\ [][Next]_vars
-----------------------------------------------------------------------------
(* Properties: what the modules say of the program that runs.              *)

TypeOK ==
  CASE program = "lru" -> Lru!TypeOK         [] program = "blocks" -> Blocks!TypeOK
    [] program = "files" -> Files!TypeOK     [] program = "pages" -> Policies!TypeOK
    [] program = "tracker" -> Tracker!TypeOK [] program = "pool" -> Memory!TypeOK
    [] program = "manager" -> Memory!TypeOK [] program = "hash" -> Hash!TypeOK
    [] program = "map" -> Conc!TypeOK        [] program = "skip" -> Skip!TypeOK
    [] program = "strings" -> Strings!TypeOK [] program = "words" -> Puzzles!TypeOK
    [] program = "median" -> Puzzles!TypeOK  [] program = "arrays" -> Puzzles!TypeOK
    [] program = "kv" -> Servers!TypeOK      [] program = "wal" -> Wal!TypeOK
    [] program = "mvcc" -> Mvcc!TypeOK
    [] OTHER -> TRUE

\* lrucache.c answers as a map of the keys used last; hashTable.c, thread-safe.c,
\* skiplist.c and AVLTree.c as maps and sets, whatever the order, or the
\* interleaving, of the calls; hashTable.c only up to the first update that
\* links a freed node.
\* (This is the conjunction of IsLru and of the Map!Spec of the four others:
\* those that do not run do not change.)
Refines ==
  /\ Lru!IsLruInit /\ Hash!Map!Init /\ Conc!Map!Init /\ Skip!Map!Init /\ Avl!Map!Init
  /\ [][CASE program = "lru" -> Lru!IsLruStep  [] program = "hash" -> Hash!Map!Step
          [] program = "map" -> Conc!Map!Step  [] program = "skip" -> Skip!Map!Step
          [] program = "avl" -> Avl!Map!Step   [] OTHER -> TRUE]_vars

\* lrucache.c, cache.c: the list, the hash chains and the allocated entries of
\* either cache are in step.
LinksSound ==
  /\ program = "lru" => Lru!Sound
  /\ program = "blocks" => Blocks!ListsAgree

\* cache.c: read_block returns what was written last, if it reached the disk.
\* FileCahce.c: a hit returns the text of a file whose stored name is the one
\* asked for, the file itself unless a longer name of its bucket is cut to it.
ReadsRight ==
  /\ program = "blocks" => Blocks!ReadsLatest
  /\ program = "files" => Files!HitsOwnFile

\* cache.c: every buffer is back in the pool after each call.
\* bufferPool.c: every buffer is free or belongs to one cached file.
\* LruCahce.c: count is the number of nodes allocated, within the capacity, even
\* where hash chains and list have got mixed up.
BuffersKept ==
  /\ program = "blocks" => Blocks!BuffersReturned
  /\ program = "files" => Files!PoolPartition
  /\ program = "strings" => Strings!Counted

\* pageCahe.c: LRU holds the pages used last, no policy evicts early or evicts
\* the page just requested, a page is in one list of ARC, and memory is bounded
\* but for the replacements that find T2 empty.
PoliciesSound ==
  program = "pages" =>
    Policies!LruKeepsRecent /\ Policies!NoEarlyEviction /\ Policies!ArcListsSound

\* memoryAllocation.c: the leak report lists what is allocated, and no pointer
\* of main's dangles.  memoryPool.c: the blocks tile the pool, free neighbours
\* merged, and every pointer handed out has a large enough block.
\* pages_memory_manager.c: the lowest run of free pages is found.
AllocatorsSound ==
  /\ program = "tracker" => Tracker!ReportIsTrue /\ Tracker!NoDangling
  /\ program = "pool" => Memory!Tiles /\ Memory!PointersHeld
  /\ program = "manager" => Memory!FirstFit

\* AVLTree.c: every node is ordered, balanced and knows its height.  skiplist.c:
\* every level links the nodes that reach it, in order.  BplusTreeDy.c: a range
\* query answers with the keys inserted, and the leaves are equally deep.
\* mediandta.c: duplicates do not make the tree lean.
TreesSound ==
  /\ program = "avl" => Avl!Balanced
  /\ program = "skip" => Skip!LevelsSound
  /\ program = "bplus" => BPlus!RangesRight /\ BPlus!Balanced
  /\ program = "median" => Puzzles!Balanced

\* mediandta.c, SlidingWindowMaximum.c, countRange.c, countersmallernumber.c,
\* createSorted.c: the answers are those of the definitions, whatever the values
\* and their order.  PosixTask.c: no word is counted twice, and none is missed
\* but those that begin where a thread's part begins.
AnswersRight ==
  /\ program = "median" => Puzzles!MedianRight
  /\ program = "arrays" => Puzzles!WindowsRight /\ Puzzles!RangesRight /\ Puzzles!CountsRight
  /\ program = "words" => Puzzles!WordsCounted

\* threads.c: racing insertions by get_node never damage the list, the versions
\* of a node are newest first, so that kv_get may stop early, and a committed
\* transaction is in the log in one piece.
MvccSound ==
  program = "mvcc" => Mvcc!ListSound /\ Mvcc!NewestFirst /\ Mvcc!LoggedTogether

\* threads.c: rollback of at most MAX_OPS operations undoes exactly the transaction.
RollbackRestores ==
  [][program = "mvcc" => Mvcc!RollbackUndoes]_vars

\* server.c and the libraries: with a lock no two SETs write one slot at a time.
\* As long as that has not happened, as it may in dynamicLIB, a key has one pair,
\* an acknowledged one is kept unless the store was full, and a GET answers with
\* its key's last value unless a SET runs into it.
KvSound == program = "kv" => Servers!Sound

\* wal_demo.c: between commands the database has the value, as sscanf reads it,
\* of the last synced transaction of every key that recover can read, or of one
\* tried later.  Exempt is a key whose last line the database has missed since
\* the last recovery began: a failure has cut it off or kept it from being
\* written, or the recovery itself has written it behind a piece of a line.
LogRecovers == program = "wal" => Wal!LogRecovers
=============================================================================
