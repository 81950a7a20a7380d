# TLA+ verification of the IITM systems-programming repository

The repository is a collection of C programs written through a systems course:
storage, threads, inter-process communication, caches, allocators, data structures
and algorithms. Each program is complete in itself and there is no common library,
so the project has one module per program, or one for a mechanism that several
programs share. Paths below are relative to `src/`.

## 1. Inventory

### Programs whose correctness is a matter of order, failure or concurrency

| Program | State | Operations | What is hard | What makes it correct |
|---|---|---|---|---|
| `FILEIO/CrashRecovery/crashRecovery.c` | mapped slots, log file, `next_id` | open, recover, insert (log write, fsync, store, msync), exit | kills, power failures and failing calls between any two of these | acknowledged records survive; ids are unique; the log is ahead of the database |
| `FILEIO/wal_demo.c` | log and data file | write, write-nosync, crash-after-wal, recover | a record of three writes that can be cut anywhere | a recovery brings back the last synced values |
| `POSIX/posix.c` | ring buffer, mutex, two conditions, `next_request_id` | enqueue, dequeue, shutdown | one signal for several sleepers; shutdown behind the last request | FIFO; each request processed once; main returns |
| `POSIX/futexTask.c` | ring buffer, mutex, two conditions | push, pop | several producers and consumers asleep on one ring | all items consumed, in their producer's order |
| `POSIX/read-write.c` | three counters, two conditions | rdlock, rdunlock, wrlock, wrunlock | writer preference, woken threads that must test again | exclusion, no lost wake-up, writers get in |
| `POSIX/futex,c` | two latches (count, futex word), CAS counter | wait, count down, wake, increment | the gap between test and FUTEX_WAIT; CAS retries | latches are barriers; nobody sleeps on; all return |
| `POSIX/thread-safe.c` | buckets with a mutex each | insert, get | searches beside insertions | answers as a map |
| `POSIX/Thread/threads.c` | list of nodes with versions, transactions, commit log | begin, set, delete, get, commit, rollback | a list changed without a lock; limits of the arrays | the list is sound; versions ordered; commits in one piece; rollback undoes |
| `POSIX/PosixTask.c` | one text, a part for each thread | split, count, join | parts that meet inside words | no word counted twice |
| `POSIX/atomic_counter.c`, `IPCs/SharedMemory/Counters.c` | a counter | add under mutex, semaphore or atomically | a lost update; a fork that fails | the sum is reported |
| `TASK/ThreadAssessment.c` | task ring, condition | fill, take, process, exit test | the exit test without the lock | each task once; main exits |
| `TASK/ThreadsTask.c` | number, condition | print odd, print even | the loop test without the lock | both return after all numbers |
| `IPCs/SharedMemory/KeyValueStored`, `week 8/staticAndDynamicLIB` | array of pairs | set, get over sockets, a thread per client | get returns a pointer into the array; three disciplines of locking | an acknowledged pair is kept and answered |
| `IPCs/SharedMemory/FileTransfer` | file, two named pipes, a buffer | open, send, receive, acknowledge | a byte stream with an in-band marker; a peer that fails | the stream is kept; the transfer completes |
| `IPCs/SharedMemory/shm*.c`, `commonShm.c` | shared text and flag | write, read, remove | a segment that outlives its writer | a message is read whole |
| `IPCs/SharedMemory/Chat` | a System V queue | type, send, receive, remove | the queue goes with A | turns, in order; both end |
| `IPCs/signals/controller.c` | children, `running` | spawn, restart, stop, reap | handlers that interrupt each other; merged signals; what a child inherits | ended children are reaped |
| `IPCs/Nonblocking`, `IPCs/clientchatserver` | descriptor sets | select, accept, receive, send, close | descriptors closed and given out again | nobody is cut off, everybody answered |
| `IPCs/miniServer`, `IPCs/checkLatency` | a descriptor per connection | accept, fork or thread or call, answer, close | workers beside a main loop that goes on | one's own answer; no client waits for ever |
| `IPCs/Poll` | a pipe or socket | open, write, poll, read, hang up | data and hangup in one event | the message is shown first |

### Sequential structures with long sequences of calls

| Program | State | What makes it correct |
|---|---|---|
| `week 8/Page cache/pageCahe.c` | frames and ghost lists of LRU, Clock, ARC | holds what its policy says, evicts no page early |
| `FIleCache/` | files in buffers of a pool; strings in chains and a list | a hit is the file's own; no buffer is lost |
| `MemoryAllocation/cache.c` | entries, chains, list, free buffers, disk | a read returns what was written last |
| `MemoryAllocation/memoryAllocation.c` | nodes for what is allocated | the leak report is true |
| `MemoryPool/`, `TASK/24-10-2025/pages_memory_manager.c` | blocks; pages | blocks tile the pool; first fit |
| `LEETCODE PROBLEMS/lrucache.c` | list and table | a recency map |
| `HashTable/`, `SKIPLIST/`, `Trees/AVLTree.c` | chains; levels; nodes | a map or a set, ordered and balanced |
| `Trees/BplusTreeDy.c` | leaves and inner nodes | range queries answer with what was inserted |
| `LEETCODE PROBLEMS/`: `mediandta`, `SlidingWindowMaximum`, `countRange`, `countersmallernumber`, `createSorted` | trees, deque, merge | the answer of the definition |

### The rest

Benchmarks, timers, eBPF, `exec`/`fork` exercises, SQL library calls, small puzzles
and console programs; section 6 has the reasons. `PROJECT.json` names every file
under its component, and lists the hazards at their lines.

## 2. Modules

| Module | Models | Notes |
|---|---|---|
| `CrashRecovery`, `CrashRecoveryProofs` | `crashRecovery.c` | one action per step that reaches the disk |
| `WalDemo` | `wal_demo.c` | one action per write or sync |
| `FifoQueue` | | what a bounded queue promises |
| `BoundedBuffer` | `enqueue`/`dequeue` of `posix.c`, the same monitor in `futexTask.c` | ring, wait sets, signals |
| `RequestServer` | `posix.c` | clients, workers and main over `BoundedBuffer`; refines `FifoQueue` |
| `ProducerConsumer` | `futexTask.c` | producers and consumers over `BoundedBuffer` |
| `RWLock` | `read-write.c` | lock, readers, writers, and the proofs about them |
| `FutexLatch` | `futex,c` | latches, CAS counter, workers, coordinator, monitor, and the proofs about them |
| `ThreadPool`, `OddEven` | `ThreadAssessment.c`, `ThreadsTask.c` | |
| `MvccStore` | `threads.c` | |
| `KVServer` | `KeyValueStored`, `staticAndDynamicLIB` | three servers, one thread per client |
| `KeyedMap` | | what a map with insert, search and delete promises |
| `ConcurrentMap`, `HashTable`, `SkipList`, `AvlTree` | `thread-safe.c`, `hashTable.c`, `skiplist.c`, `AVLTree.c` | each refines `KeyedMap` |
| `BPlusTree` | `BplusTreeDy.c` | nodes by number, as the splits rewrite them in place |
| `Pointers` | | linked records of C: `NULL`, a store through a pointer, the chain from a pointer |
| `LruCache` | `lrucache.c` | list and hash table, and what an LRU cache promises (`IsLru`) |
| `BlockCache` | `MemoryAllocation/cache.c` | block cache, buffer pool and disk file |
| `FileCache`, `StringCache` | `bufferPool.c` and `FileCahce.c`, `LruCahce.c` | free list and the files cached in it; strings |
| `PageReplacement` | `pageCahe.c` | LRU, Clock and ARC |
| `MemoryTracker`, `Allocators` | `memoryAllocation.c`; `memoryPool.c` and `pages_memory_manager.c` | |
| `Algorithms` | five LeetCode files, `PosixTask.c` | |
| `FileTransfer`, `ShmMessage`, `ChatQueue`, `JobController` | `FileTransfer`, shm programs, `Chat`, `controller.c` | |
| `SelectServer`, `ConnServer`, `PipeHub`, `SharedCounter` | the servers, the pollers, the counters | |
| `StoresCore` | | the multi-version store, the key-value servers, the log, the replacement policies and the two hash maps, with their constants and variables |
| `MemoryCore` | | the same for the tracker, the pool, the page manager and the block, file, string and LRU caches |
| `MCThreads`, `MCProcesses`, `MCStores` | | the instances TLC checks; `CrashRecovery`, `RWLock` and `FutexLatch` are run as they are |
| `MCThreadsProofs`, `MCProcessesProofs`, `StoresCoreProofs`, `MemoryProofs`, `MCStoresProofs` | | proofs, section 4 |

`MCThreads`, `MCStores` and `MCProcesses` put programs of one kind in one run: a
behaviour is one of them, chosen at the start, and the variables of the others keep
their initial values (`Only`). The initial states are cut down to those that differ
for the program that runs, so the run explores the union of the programs' state
spaces and not their product. `Refines` is one formula for five refinements: their
initial conditions, and that a step of the program that runs maps to a step or a
stutter of its abstract map.

The constants of `MCThreads`, `MCProcesses`, `StoresCore` and `MemoryCore` get their
values in the configurations, so that the theorems are about every value. The constants
of the other programs of `MCStores` (skip list, trees, algorithms) are given where it
instantiates them. `StoresCore` and `MemoryCore` are modules of their own because the
prover is many times slower in the context of all nineteen programs; `MCStores` extends
both.

### State and actions

*CrashRecovery.* `mem` is the mapping, `dbDisk` what the disk holds of it; `wal`
is the log file as the process sees it, `walDisk` what is certain to survive.
`Start` is `init_database`; `Replay`, `ReplayMsync` and `RecoverDone` are one turn of
`recover_from_wal`, its `msync` and its end with the truncation; `InsertBegin`,
`WalWrite`, `WalSync`, `Apply` and `Msync` are `insert_record` from call to return.
`ProcessExit` is a kill or an exit (the page cache survives), `PowerFailure` leaves
any mixture of old and new slots and any prefix of the log that contains what was
synced. `Faults` says which calls may fail. A log entry is two cells, so that it can
be torn; a slot goes to disk whole; a torn entry never has a matching checksum.
`acked` is a history: the name `insert_record` last returned success for.

*WalDemo.* A run of the program is one command. The log is a sequence of lines; a
failure of the machine cuts it behind `synced` or later, also inside a line, and the
piece then stands in front of the next line, where `recover` may or may not find its
words. The database is the value that its last whole line gives each key; `older` has
the values before each line that is not yet synced, one of which a power failure brings
back, perhaps with a piece of a line behind it (`dbTail`). A line appended behind such a
piece gives no key a value. `Odd` are the pairs with `BEGIN` in their text, whose SET line
`recover` takes for a BEGIN, and `Scanned` is what `sscanf` reads from a SET line: key
and value up to their first blank. `acked` has the value of the last synced COMMIT of
each key among the pairs `recover` can read, `later` what was tried after it. `lost` are
the keys the database may be behind on: it is emptied when a recovery begins, and a key
gets into it by a transaction that is committed and not yet applied, a database line that
a power failure takes back, and a line of the recovery itself whose write fails or that
lands behind a piece; a recovery that is cut short puts all keys into it, since it may
have written old values again. A line that is written takes its key out.

*Monitors* (`BoundedBuffer`, `RWLock`, `ThreadPool`, `OddEven`, `ConcurrentMap`).
What runs under a mutex from lock to unlock, or to `pthread_cond_wait`, is one step. A
thread in a wait set sleeps; a signal takes any one thread out of the set, a broadcast
all; a woken thread is back before its `while` test. `SpuriousWakeup` lets the wait
return by itself, as POSIX allows. Accesses outside the mutex (`Check`, `Test`) are
steps of their own. In `SharedCounter` lock, load, store and unlock are four steps.

*FutexLatch.* The test of the futex word, the system call (which compares the word
again and sleeps) and the return from it are separate steps, as are the store of the
word and FUTEX_WAKE. `EINTR` and `EAGAIN` return to the test. The spinning before the
first wait only repeats the test and is part of it. `Load`, `Swap`, `SwapFails` and
`Reload` are the atomic accesses of `cas_with_spin` and its caller.

*MvccStore.* `get_node` is three steps (search, `next`, `store`), `tid_counter++`
two; what runs under a lock is one. Values are empty or not. `Passed` is what the
search comes to, as a least set. A demo (`Demos`) is what the threads call and how many
commands the user types after that.

*KVServer.* A value is two cells that are copied one after the other, so a GET whose
pointer is read through can be overtaken by a SET half-way. `KeyValueStored` locks
`set_value` only, `staticLIB` both, `dynamicLIB` neither, and all of them serve any number
of clients. In `dynamicLIB` two SETs can come to write one slot: they insert at once, or
update the same key. `race` records that as a clash. From then on `store[count]` may be
another slot at each access, `count++` may lose a step (`Targets`), and an access
behind the array ends the model as "wild".

*Caches, allocators and trees.* These programs are sequential, so each call is one
action, and a caller may make the calls in any order. Where the links between records
are what can go wrong (`LruCache`, `BlockCache`, `FileCache`, `StringCache`,
`SkipList`, `BPlusTree`) they are modelled as pointers, record by record; a chain that
is only searched, appended to and cut is a sequence; an AVL tree is a nested record,
since the code replaces subtrees by what the recursion returns. `BlockCache`
has no lookup in `cache_put`, as the code has none: a block can have several entries,
and `ReadsLatest` says that the newest is the one that counts. `write_block` goes on
when `write` fails, so a block in `unwritten` is exempt. In `MemoryTracker` the
allocator returns any free address, also one the list still has a node for, and the
node itself may fail to be allocated. In `PageReplacement` the requests are any
sequence, where the program has one fixed array. Where a call would follow a freed
pointer (`StringCache`, an insert of `HashTable` that links the node it has freed) the
model stops, and the properties speak of what comes before. `FileCache` stores names cut
to their field (`Stored`): a name that was cut is never found again, and a file whose
whole name is the cut one is answered with the other's text. `StringCache` leaves out
that its keys are cut too (`LruCahce.c:134`): keys are those that fit.

*Algorithms.* Of the array puzzles the argument grows, and the functions of the code,
with their indices and loops, are operators, compared on every array with what they are
to compute. Numbers are added to the tree of the median; the threads that count words
are created, run and joined.

*FileTransfer.* A pipe is a sequence of cells; a read takes what is there, up to the
buffer; the buffer is uninitialized at first and keeps old cells behind a short read.
A process that is gone closes its ends: the reader then sees the end of the file, the
writer is killed by SIGPIPE.

*ShmMessage, ChatQueue, PipeHub.* Each copy, flag, queue or poll access is a step.
The segment outlives the writer's runs; the queue is gone when A removes it. In
`PipeHub` a pipe whose writer has gone raises POLLHUP, also together with POLLIN, and
a closed socket reads nothing.

*JobController.* `stack` is what the parent is doing, with the handlers that run on
top; a handler blocks its own signal only. A pending signal is a set member, so two
are one. Children have their copies of `running` and of the handlers. In `spawn_child`
the fork and the entry into the array are one step.

*SelectServer, ConnServer.* A descriptor is a number, the lowest that is free. One
round of select works off its set in ascending order, while connections are accepted
and closed. In `ConnServer` a child has copies of the descriptors, a thread shares
them.

## 3. Runs

| Run | Question and answer | States |
|---|---|---|
| `crash_recovery` | Is every acknowledged insert there after recovery? Yes, with power failures, kills, torn entries and failing `fsync` of the log. With failing `msync` or `ftruncate` it is not, which is why they are left to the next run. | 1.65 M |
| `crash_recovery_faults` | With every call allowed to fail: ids unique, log ahead of the database, slots keep their ids. | 2.0 M |
| `crash_recovery_insert_is_new` | *Violated:* an insert can replace a record that recovery has just brought back. | |
| `rwlock` | Exclusion, exact counters, no lost wake-up, stable reads, writers get in. | 1.6 k |
| `futex_latch` | Latches are barriers, no sleeper is missed, the counter is never ahead, all return. | 23 k |
| `futex_latch_expected_counter` | *Violated:* the counter ends below the value the program announces. | |
| `threads` | Server: each request in one place, no lost wake-up, nothing left behind, FIFO refined, main returns with all served. Pool, printers and shared buffer finish their work. | 30.6 k |
| `threads_main_exits` | *Violated:* the pool's main can wait for ever. | |
| `stores` | Everything that stores data, and the algorithms: nineteen programs under every order or interleaving of calls; the parts are below. | 1.13 M |
| `processes` | Eight programs of several processes: what is handed over arrives whole and in order, and does arrive; servers answer the right client and starve none; ended children are reaped. | 274 k |
| `file_transfer_ends` | *Violated:* sender and receiver can wait for each other for ever. | |
| `job_controller_stops_children` | *Violated:* the parent leaves and its children go on. | |

A property of `MCThreads`, `MCStores` or `MCProcesses` is the conjunction of what the
components it belongs to promise, each part named in its component's module:

| Property | Parts |
|---|---|
| `RequestsKept` | `OnePlace`, `NothingLeftBehind` of `RequestServer` |
| `TakenOnce` | `OncePerTask` of `ThreadPool`, `PerProducerOrder` of `ProducerConsumer` |
| `WorkIsDone` | `AllServed`, `EveryTaskProcessed`, `BothReturn`, `AllConsumed`, one for each threaded program |
| `LinksSound` | `Sound` of `LruCache`, `ListsAgree` of `BlockCache` |
| `ReadsRight` | `ReadsLatest` of `BlockCache`, `HitsOwnFile` of `FileCache` |
| `BuffersKept` | `BuffersReturned` of `BlockCache`, `PoolPartition` of `FileCache`, `Counted` of `StringCache` |
| `PoliciesSound` | `LruKeepsRecent`, `NoEarlyEviction`, `ArcListsSound` of `PageReplacement` |
| `AllocatorsSound` | `ReportIsTrue`, `NoDangling` of `MemoryTracker`; `Tiles`, `PointersHeld`, `FirstFit` of `Allocators` |
| `TreesSound` | `Balanced` of `AvlTree`, `BPlusTree` and `Algorithms`, `LevelsSound` of `SkipList`, `RangesRight` of `BPlusTree` |
| `AnswersRight` | `MedianRight`, `WindowsRight`, `RangesRight`, `CountsRight`, `WordsCounted` of `Algorithms` |
| `MvccSound`, `RollbackRestores` | `ListSound`, `NewestFirst`, `LoggedTogether`; `RollbackUndoes` of `MvccStore` |
| `KvSound`, `LogRecovers` | `Sound` of `KVServer`; `LogRecovers` of `WalDemo` |
| `Refines` | `IsLru` of `LruCache`; `HashTable`, `ConcurrentMap`, `SkipList`, `AvlTree` implement `KeyedMap` |
| `HandedOver` | `StreamKept`, `MessageWhole`, `TurnsTaken`, `NothingLost`, `ShownFirst` of `FileTransfer`, `ShmMessage`, `ChatQueue`, `SharedCounter`, `PipeHub` |
| `EchoSound` | `NoFalseDisconnect`, `OwnEcho` of `SelectServer`, `OwnAnswer` of `ConnServer` |
| `Completes` | transfer, message, chat, report, poll and every waiting client come to their end |

Every property has a mutant, a conjunction several: a plausible mistake in
one definition (marked `Mutant:` above the definition it replaces) with which TLC
finds it violated.

### Bounds

* *CrashRecovery*: two slots, so that the database fills; three ids, so that one does
  not fit and ids are met again; two names, so that a stale record differs from a new
  one; logs of seven cells (three entries and a torn one), four with all faults.
* *WalDemo*: logs of six lines, two transactions, of which a cut one is followed by a
  whole one; two values of one key, one with a blank that reads as the other, and a pair
  with `BEGIN` in it; database lines of at most two unsynced kills.
* *RequestServer*: two slots and four requests, so that indices wrap round and clients,
  main and workers all get to sleep; three workers, so that a signal can choose.
* *RWLock*: three readers, two writers. `DataModulus` keeps `shared_data` finite.
* *FutexLatch*: three workers with no, one and two iterations, and two CAS attempts for
  the code's ten: enough for a retry that fails, one that succeeds and a fresh start.
* *Threads*: three workers and four tasks; the code's 20 numbers; two producers of three
  items, three consumers, two slots.
* *MvccStore*: two demos: a race of two threads on two keys, and a console that is given
  four commands after one thread; `MAX_OPS` 2, so that it overflows in both; two seconds;
  four nodes and eight entries of the log.
* *KVServer*: two clients, two keys, two values. `KeyValueStored` has room for both keys;
  the two libraries for one, which in `dynamicLIB` is enough for two SETs to clash, to
  count twice and to leave the array. That two clients of `dynamicLIB` insert one after
  the other into slots of their own is left to the proof.
* *Caches*: capacities 0 and 3 with four keys in two buckets; three entries for two
  blocks in one bucket, so that a block has several entries and one is evicted; three
  buffers for four files, one with a name that is cut to another's of its bucket; two frames, five pages
  and eight requests, where ARC first finds `T2` empty after six; three nodes for four
  strings, with which chains and list get mixed up.
* *Allocators*: two addresses that come back and three nodes; pools of 2 (only a
  header), 9 and 12 bytes with headers of 2 and requests of 0 to 4; seven pages.
* *Maps and trees*: chains of three keys; AVL trees of any of eight values, deep enough
  for every double rotation after a deletion; two levels above the lowest in the skip
  list; eleven insertions of four keys (with repetitions) into a B+ tree of three keys
  per node, so that inner nodes and the root split.
* *Algorithms*: arrays of up to five of four values, one negative; seven additions of
  six numbers; texts of up to seven characters for three threads.
* *FileTransfer*: buffers of three cells and a marker of two, so that a marker can
  share a read with data or be cut; a pipe of seven cells; sixteen files.
* *Processes*: three runs of the writer and two texts; three turns of the chat; three
  connections, so that one that is new meets a descriptor just closed; two children,
  four pids and two signals from the user; three workers with two increments; one
  connection more than `checkLatency` serves.

### Fairness

Weak fairness of each thread's steps in `threads`, `rwlock` and `futex_latch`: the
scheduler runs a thread that can run. A mutex is held for one step and has no queue in
the model; the liveness properties hold without more. No fairness is given to
`SpuriousWakeup`: no result rests on a wake-up that nobody sent. In `processes`, a
process that can go on does, and a client of a server that has something to receive
receives it. Nothing is assumed of when clients connect, send or leave, of which
signals a user sends or of children being killed; the users of the chat type something
in the end. `Completes` says of the shared message only that an awaited one arrives
within the finitely many runs of the writer.

`CHECK_DEADLOCK FALSE` is set for `processes` and its two violated runs, whose
processes end or wait for a user, or for each other, and for `stores`, whose programs
end with their input.

## 4. Theorems

All are proved for every value of the constants: any numbers of slots, ids, threads,
iterations, spins, clients, connections, keys, values, texts, pages, blocks and files,
any sizes of buffers, pipes, tables, pools, caches and logs. The assumptions are those on the constants (`ASSUME` in the
modules, or a `ConstantsOK` that the module of a run assumes; TLC evaluates them in each
run): positive sizes, finite sets, distinct threads. Every property below is also
checked by a run, and has a mutant of the code that violates it.

*CrashRecoveryProofs*: `TypeCorrect`, `NoDuplicateIds` (`UniqueIds`), `WriteAhead`
(`LogBeforeApply`), `SlotsKeepTheirId` (`SlotIdStable`), for any set of failing calls,
and `AckedAreKept` (`AckedAfterRecovery`) where `msync` and `ftruncate` do not fail.
Uniqueness on disk and in the mapping is not inductive by itself: a power failure
mixes old and new slots. The invariant adds that a slot active on disk is active in
the mapping with the same id; then any mixture has unique ids, and recovery starts
from the disk. For write-ahead it adds what `WalWrite` and `WalSync` know of the log.
`AckedAreKept` needs that an acknowledged id is never given out again: it is active on
disk and `next_id` is above every active id once recovery is done; and that no log, on
disk or in the page cache, has an entry that can be replayed with another name for it,
except while a full database makes recovery stop.

*RWLock*: `TypeCorrect`, `CountersMatch`, `MutualExclusion`, `WakeupsArrive`,
`ReadsAreStable`, for finite sets of readers and writers. The counters being exact is
the invariant everything rests on, with a lemma for each change of a cardinality;
exclusion follows from the guards once the counters can be trusted.

*FutexLatch*: `TypeCorrect`, `NobodySleepsOn` (`NoSleeperMissed`),
`LatchesAreBarriers` (`LatchesHold`), `CounterIsBounded` (`CounterNotAhead`). The
invariant ties the count and the word of the start latch to where the coordinator is,
the count of the completion latch to the number of workers that have not counted down,
`work_done` to those past it, and says which sleepers a wake-up is still to come for.
The counter is at most the number of increments made, and a value that a worker is
about to swap in at most one more.

*MCThreadsProofs*: `Types` (`TypeOK`), `RequestsAreKept` (`RequestsKept`),
`NoWakeupIsLost` (`NoLostWakeup`), `RingIsFifo` (`IsFifo`), `EachIsTakenOnce`
(`TakenOnce`). `ServerInv` has, beside the shape of the ring, where each id is: still to
be given out, with one client, in one slot or with one worker; and that a shutdown
request comes behind all others and after all clients. `NoLostWakeup` counts: while a
worker sleeps, at least as many are awake and about to take as there are requests in
the ring; while a client sleeps, at least as many are about to put as there are free
slots. `RingIsFifo` is a refinement: the slots from `front` on
are the abstract queue, and a step of a thread is one `Put`, one `Get` or a stutter.
`PoolInv` says that the tasks in the queue, in hands and processed make up what was
filled in, each once; `SharingInv` that what a consumer has is in its producer's order.

*MCProcessesProofs*: `Types` (`TypeOK`), `AllIsHandedOver` (`HandedOver`),
`AnswersAreOwn` (`EchoSound`), `ChildrenAreReaped` (`ZombiesReaped`). One invariant for
each program: `TransferInv` that what was received, is in the buffer, in the pipe and
still in the file is the file; `ShmInv` and `ChatInv` where a text or a turn is;
`CounterInv` that the counter is the number of increments made and that what a worker
has loaded under the lock is still the counter when it stores; `HubInv` that the message is in the channel or was
shown. `ConnInv` and `SelectInv` have the table of descriptors: an open one belongs to
one connection, the mail in either direction is that connection's, and what select
returned for a descriptor still holds when its turn comes although others were closed
and accepted in between. `JobsInv` has the stack of handlers: an ended child that is not
reaped has a pending SIGCHLD or a handler whose loop has yet to ask again.

*StoresCoreProofs, MemoryProofs, MCStoresProofs*: the first two have the invariants and
what every step does to them, the third that of the write-ahead log and the theorems, which hold of `MCStores` as a run
checks it.
`VersionsAreSound` (`MvccSound`): the next of a node was allocated before it, so the
list cannot turn back; no version is from the future, so that the newest may go first;
a thread that has returned has its operations in a piece of the log that only grows.
`PairsAreKept` (`KvSound`): a thread that writes under the lock holds it, so that a clash
is only possible in `dynamicLIB`. As long as there was none, each slot has one writer at
most and only one thread is about to add a pair; keys in the array are distinct, a cell
was written for the key of its pair, a pair nobody is half-way through has the last
value in both cells; a reader's slot is that of its key, and it has seen only the last
value unless marked as overlapped. After a clash the invariant only says that it was in
`dynamicLIB`.
`LogIsReplayed` (`LogRecovers`): for each key the last synced transaction that `recover`
can read has a place in the synced part of the log, and no line behind it sets another
value than one tried later. Once a recovery has passed the place, the database has such
a value, is about to get it, or the key is in `lost`. (`acked` of `WalDemo` is `promised`
in `StoresCore`.)

`RollbackUndoesAll` (`RollbackRestores`, an action property): nothing the search of a
key comes to lies between a node and its next, so the search ends at one node; the
versions a thread began with are the tail of those there are now, and until `MAX_OPS` is
reached there is one operation on record for each version in front of them. Undoing
them takes away exactly those.
`PagesAreKept` (`PoliciesSound`): a list is described by how often each page is in it.
LRU fills its frames in order, and their times are in the order of the requests; the
hand of Clock is at the first empty frame while there is one; the four lists of ARC
have each page once and keep their bounds, with the one page too many that section 5
describes.
`AllocationsAreSound` (`AllocatorsSound`): in the tracker the active nodes have distinct
addresses, each allocated with the size the node says, and a search finds the active
node of an address first. In the pool the blocks tile the memory; the loop of
`MergeBlock` is a recursive function, and that it keeps the tiling is shown by the least
call that would not. In the page manager `FreeBefore` is the length of the free run that
ends at a page, so that what the search returns is the first run long enough.
`BuffersAreKept` (`BuffersKept`): no call of `cache.c` changes its free list. In the file
cache the free list is a sequence without repetition of exactly the free buffers, every
other buffer is at one entry, and an entry's buffer has the text of a file stored under
that name in that bucket; no file is there twice under its own, whole name. In the string cache the count is the number of nodes that are
allocated, and there is a tail whenever there is a node.
`ReadsAreRight` (`ReadsRight`): the block cache may have several entries for one block.
Its list and its chains are sequences, in which the entries of one block come in the
same order; so eviction from the end never takes the newest while an older one is left,
and a hit is always on the newest. A block on disk is the latest written unless its write
failed, and beyond the end of the file the latest is zero. For the file cache the
invariant of its buffers is enough.
`LinksAreSound` (`LinksSound`): the nodes of `lrucache.c` in order of use are a sequence
linked both ways. An entry of the table leads to a live node with the entry's key in
that key's bucket, no bucket has a key twice, and every live node is found; an eviction
drops the last of the sequence and its one entry, with capacity 0 too. The list and the
chains of the block cache agree by the invariant above.
`MapIsAtomic` (`Conc!IsMap`, a part of `Refines`) and `TableIsMap` (`Hash!IsMap`, another)
are refinements of `KeyedMap`. A chain stands for the map of its keys to the values at
their first places; putting a pair in front or at the end, replacing the value at the
first place and taking out the only place of a key are four lemmas about sequences.
`CmInv` adds that a thread inside a bucket has its lock and has seen the chain as it
still is, so that linking its node to what it saw loses nothing; entering is a stutter,
leaving is `Put`. `HtInv` adds that a chain has each key once, without which a deletion
would bring back an older value.

Two devices carry most of these proofs. A linked list is related to a sequence that
exists beside it, with one lemma for putting a record first, one for taking one out and
one for following the links, used throughout the caches. And where the code loops, the
model has a recursive function, about which a fact is shown for a least counterexample:
the natural numbers that violate it would have a least element, and one unfolding of
the definition refutes that.

Only model-checked: all liveness (out of the prover's reach, as is ENABLED); of the action
property `Refines` the parts about `lrucache.c`, the skip list and the AVL tree; and of
`MCStores` `TypeOK`, `TreesSound` and `AnswersRight`. What trees, skip lists and puzzles
compute is by recursion along trees and sequences, or by folds and selections that take
an operator, for which an induction principle would have to be instantiated with an
operator; and the type invariant is about the variables of these programs too.

## 5. Disagreements between code and what it says

The five violated runs are listed under `findings` with the lines quoted. Reading the
code showed others that are in the models' behaviours but have no run of their own, or
that bound what a property can claim:

* recovery truncates the log although one entry could not be synced
  (`crashRecovery.c:262`); entries appended behind a torn one are out of step and not
  replayed (`:225`);
* `wal_demo.c` lacks a brace and a constant; the model is of the code as meant. A key
  or value that contains `BEGIN` is taken for the start of a transaction, so that the pair
  is not replayed (`:85`); a value is replayed up to its first blank (`:90`); a pair that
  recovery writes behind a piece of a line is lost although it is reported as recovered;
* a file in which a read begins with the marker is cut there and reported as received
  (`receiver.c:31`);
* operations past `MAX_OPS` are not undone by rollback (`threads.c:87`); of two threads
  that add a node at once, one can lose its node with committed versions (`:58`);
  `kv_get` skips empty values, so after a deletion it answers with the version before
  (`:69`);
* a full key-value store answers OK to a SET it drops, and SIGPIPE from a client that
  has left ends the key-value and the echo server; the chat server sends to the
  listening socket as well, which raises it with the first message;
* `dynamicLIB` runs a thread for each client over a library without a lock: two SETs of a
  new key give it two pairs, or one of two new pairs is lost (`lib.c:25`);
* a file whose name is another's cut one, in the same bucket, is answered with the other
  file's text, and a name that is cut takes a buffer at each read (`FileCahce.c:76`);
* the last message of chat A can be removed with the queue before B has read it;
* `hashTable.c` links a node it has just freed when a key is updated that is not last
  in its chain; the list and the chains of `LruCahce.c` share the field `next`, so that
  with three nodes chains come to freed nodes, updates are lost and a key has two nodes;
* ARC can hold one page more than there are frames (`pageCahe.c:251`); a block whose
  write failed is reported as written (`cache.c:259`); memory whose tracking node could
  not be allocated is never freed (`memoryAllocation.c:59`);
* `PosixTask.c`, which lacks a parameter, misses every word that begins where a
  thread's part begins, which `WordsCounted` states exactly;
* a child of `pollhup_socket.c` that connects before `listen` leaves the parent in
  `accept` for ever; children of `miniServer` are never reaped; `checkLatency` writes
  behind its buffer when a read fills it;
* a signal between the test of `running` and `pause` leaves the job controller asleep
  (`controller.c:93`): the model has it, and so nothing is claimed about its leaving.

## 6. Abstractions and what is left out

* Interleavings are sequentially consistent. The code's unlocked reads of plain
  variables are races in C; a read returns the current value at some moment.
* A slot reaches the disk whole. Checksums do not collide. In `wal_demo.c` keys and values
  are not empty, have no newline and fit the buffers; a failed write of the database
  writes nothing, and its `fsync` does not fail.
* Failures of open, `mmap`, `fstat`, `socket` and `bind` at the start end the process
  before it has state. Futex errors other than `EAGAIN` and `EINTR` do not occur.
* The clock is monotone. Output for a user and sleeping are left out.
* Blocks of `cache.c` are read and written whole or not at all; the callers of `memoryPool.c` free each pointer once. A pool smaller
  than a header and a full `ptrs` of the tracker are undefined behaviour and left out.
* `MAX_LOGS` overflow in `threads.c` is undefined behaviour; the model stops there (a commit waits
  for room in the log). So is the overflow of the subtraction in the comparison functions of the LeetCode files.

### Not modelled

| Part | Why |
|---|---|
| `clock.c` of `week 8/pageReplacementPolicy` | an older copy of Clock that searches behind its arrays |
| `Trees/BPlusTree.c`, `BTree.c`, `trees.c` | earlier versions of the B+ tree and first exercises on binary trees |
| `Memory_Allocation/` | arrays of pointers handed out once; no free list, and the files do not link |
| `BloomFilter/` | bits are only ever set, so that no false negative is possible whatever the hashes return; does not compile |
| `week 8/queryEngine`, `week 8/Expression Tree` | one fixed query and one fixed expression, without state |
| `FILEIO` exercises and benchmarks, `file*.c` | straight-line file calls and timings, no invariant between calls |
| `IPCs/task`, `multiplexing-poll.c` | a calculator for one client; a loop that copies input to output |
| `IPCs/exec`, `IPCs/fork`, `signals.c`, `multiplesignal.c` | one or two system calls each |
| `Timer`, `Profiling`, `EBFP` | measurements of the running machine |
| `TASK` SQL and tree exercises, the other puzzles, `Students_Marksheet.c`, `Test.c` | calls of a database library, textbook functions of one loop, console input and output |

## 7. What is left

The operations of every program with state that the models can tell right from wrong
are in place, and every safety property of the runs is proved but for the three of
`MCStores` and the parts of its refinement named at the end of section 4. To go further:

1. `IsLru` of `lrucache.c`: the sequence that `LcInv` has beside the list is the order of
   use, so what is missing is how each call changes it, and `With` and `Without` by index
   and not by a selection.
2. `IsMap` of the skip list, whose levels are chains like those of the caches.
3. `TreesSound` for the B+ tree, with its splits as functions of a height.
4. Liveness stays with TLC.
