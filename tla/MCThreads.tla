------------------------------ MODULE MCThreads ------------------------------
(***************************************************************************)
(* The threaded programs together, for TLC and for the proofs.             *)
(* RequestServer, ThreadPool, OddEven and ProducerConsumer are separate    *)
(* programs, so a behaviour is one of them, chosen at the start, while the *)
(* state of the others stays initial.                                      *)
(***************************************************************************)
EXTENDS Integers, FiniteSets

CONSTANTS Programs,                                \* those to be run
          Workers, Main,                           \* threads of server and pool
          Clients, REQUESTS_PER_CLIENT, QUEUE_SIZE,
          NUM_TASKS,
          MAX,
          ProducerIds, Consumers, ITEMS_PER_PRODUCER, BUFFER_CAPACITY

VARIABLES program,
          queue, first, last, length, full, empty,
          server_pc, next_request_id, req, sent, served,
          tasks, front, rear, queued, idle, worker_pc, num, processed,
          number, printer_pc, asleep,
          buffer, head, tail, count, full_waiters, empty_waiters, i, consumed

server   == <<queue, first, last, length, full, empty,
              server_pc, next_request_id, req, sent, served>>
pool     == <<tasks, front, rear, queued, idle, worker_pc, num, processed>>
printers == <<number, printer_pc, asleep>>
sharing  == <<buffer, head, tail, count, full_waiters, empty_waiters, i, consumed>>
vars     == <<program, server, pool, printers, sharing>>

Server == INSTANCE RequestServer WITH
  Capacity <- QUEUE_SIZE,
  Values <- {-1} \cup 0 .. Cardinality(Clients) * REQUESTS_PER_CLIENT,
  buffer <- queue, head <- first, tail <- last, count <- length,
  full_waiters <- full, empty_waiters <- empty, pc <- server_pc, processed <- served

Pool == INSTANCE ThreadPool WITH
  count <- queued, cond <- idle, pc <- worker_pc

Printers == INSTANCE OddEven WITH
  count <- number, cond <- asleep, pc <- printer_pc

Sharing == INSTANCE ProducerConsumer WITH
  Producers <- ProducerIds, Capacity <- BUFFER_CAPACITY,
  Values <- {0} \cup {p * 100 + n : p \in ProducerIds, n \in 0 .. ITEMS_PER_PRODUCER - 1}

ASSUME MCAssumption ==
  Programs \subseteq {"server", "pool", "printers", "sharing"}
    /\ Server!ConstantsOK /\ Pool!ConstantsOK /\ Printers!ConstantsOK /\ Sharing!ConstantsOK

Init ==
  program \in Programs /\ Server!Init /\ Pool!Init /\ Printers!Init /\ Sharing!Init

\* A step A of one of the programs.
InServer(A)   == program = "server" /\ A /\ UNCHANGED <<program, pool, printers, sharing>>
InPool(A)     == program = "pool" /\ A /\ UNCHANGED <<program, server, printers, sharing>>
InPrinters(A) == program = "printers" /\ A /\ UNCHANGED <<program, server, pool, sharing>>
InSharing(A)  == program = "sharing" /\ A /\ UNCHANGED <<program, server, pool, printers>>

Next ==
  InServer(Server!Next) \/ InPool(Pool!Next) \/ InPrinters(Printers!Next) \/ InSharing(Sharing!Next)

Spec == Init /\ [][Next]_vars

\* The scheduler runs every thread that can run; no wake-up comes by itself.
FairSpec ==
  /\ Spec
  /\ \A c \in Clients : WF_vars(InServer(Server!ClientStep(c)))
  /\ \A w \in Workers : WF_vars(InServer(Server!WorkerStep(w)))
  /\ WF_vars(InServer(Server!MainStep))
  /\ WF_vars(InPool(Pool!Fill)) /\ WF_vars(InPool(Pool!Join))
  /\ \A w \in Workers : WF_vars(InPool(Pool!WorkerStep(w)))
  /\ \A t \in {0, 1} : WF_vars(InPrinters(Printers!Step(t)))
  /\ \A p \in ProducerIds : WF_vars(InSharing(Sharing!push_to_buffer(p)))
  /\ \A c \in Consumers : WF_vars(InSharing(Sharing!pop_from_buffer(c)))
-----------------------------------------------------------------------------
TypeOK == Server!TypeOK /\ Pool!TypeOK /\ Printers!TypeOK /\ Sharing!TypeOK

\* posix.c: a request is with its client, queued, with one worker or served,
\* and workers that have all left leave only shutdown requests behind.
RequestsKept == Server!OnePlace /\ Server!NothingLeftBehind

\* posix.c: each queued request, and each free slot somebody waits for, has a
\* thread awake that will come for it.
NoLostWakeup == Server!NoLostWakeup

\* ThreadAssessment.c: a task is in the queue, with one worker, or processed.
\* futexTask.c: a consumer meets the items of a producer in their order.
TakenOnce == Pool!OncePerTask /\ Sharing!PerProducerOrder

\* posix.c: the ring buffer with its signals is a bounded FIFO queue.
IsFifo == Server!IsFifo

\* posix.c: main returns, with every request of every client processed.
\* ThreadAssessment.c: whatever the workers read, all tasks are processed.
\* ThreadsTask.c: both printers return, after all the numbers.
\* futexTask.c: all threads return and every item was consumed.
WorkIsDone ==
  /\ program = "server" => Server!AllServed
  /\ program = "pool" => Pool!EveryTaskProcessed
  /\ program = "printers" => Printers!BothReturn
  /\ program = "sharing" => Sharing!AllConsumed

\* ThreadAssessment.c:66, "All tasks processed. Exiting.": main gets there.
MainExits == program = "pool" => Pool!MainExits
=============================================================================
