---------------------------- MODULE RequestServer ----------------------------
(***************************************************************************)
(* The request server of POSIX/posix.c: client threads number requests     *)
(* and enqueue them, worker threads dequeue and process them, and main     *)
(* joins the clients, enqueues one shutdown request per worker and joins   *)
(* the workers.                                                            *)
(***************************************************************************)
EXTENDS BoundedBuffer

CONSTANTS Clients, Workers, Main, REQUESTS_PER_CLIENT

VARIABLES pc,                \* where each thread is
          next_request_id,   \* under id_mutex
          req,               \* the request a client or a worker has in hand
          sent,              \* iterations a client, or main's shutdown loop, has done
          processed          \* history: requests a worker is done with

vars == <<ring, waiters, pc, next_request_id, req, sent, processed>>

SHUTDOWN  == -1
Threads   == Clients \cup Workers \cup {Main}
Producers == Clients \cup {Main}
Issued    == 1 .. next_request_id - 1
Total     == Cardinality(Clients) * REQUESTS_PER_CLIENT

ConstantsOK ==
  /\ BufferConstantsOK
  /\ IsFiniteSet(Clients) /\ IsFiniteSet(Workers) /\ Clients \cap Workers = {}
  /\ Main \notin Clients \cup Workers
  /\ REQUESTS_PER_CLIENT \in Nat
  /\ Values = {SHUTDOWN} \cup 0 .. Total

TypeOK ==
  /\ RingTypeOK
  /\ full_waiters \subseteq Producers
  /\ empty_waiters \subseteq Workers
  /\ pc \in [Threads -> {"issue", "enqueue", "dequeue", "process", "join_clients",
                         "shutdown", "join_workers", "exited"}]
  /\ next_request_id \in 1 .. Total + 1
  /\ req \in [Clients \cup Workers -> Values]
  /\ sent \in [Producers -> Nat]
  /\ processed \subseteq Issued

Init ==
  /\ BufferInit
  /\ pc = [t \in Threads |-> IF t \in Clients THEN "issue"
                             ELSE IF t \in Workers THEN "dequeue" ELSE "join_clients"]
  /\ next_request_id = 1
  /\ req = [t \in Clients \cup Workers |-> 0]
  /\ sent = [t \in Producers |-> 0]
  /\ processed = {}

Goto(t, label) == pc' = [pc EXCEPT ![t] = label]
-----------------------------------------------------------------------------
(* client_thread                                                           *)

\* Mutant: next_request_id is read and incremented without id_mutex, and an
\* increment is lost.
IssueRace(c) ==
  /\ pc[c] = "issue"
  /\ sent[c] < REQUESTS_PER_CLIENT
  /\ req' = [req EXCEPT ![c] = next_request_id]
  /\ next_request_id' \in {next_request_id, next_request_id + 1}
  /\ Goto(c, "enqueue")
  /\ UNCHANGED <<ring, waiters, sent, processed>>

Issue(c) ==
  /\ pc[c] = "issue"
  /\ sent[c] < REQUESTS_PER_CLIENT
  /\ req' = [req EXCEPT ![c] = next_request_id]
  /\ next_request_id' = next_request_id + 1
  /\ Goto(c, "enqueue")
  /\ UNCHANGED <<ring, waiters, sent, processed>>

ClientEnqueueWait(c) ==
  /\ pc[c] = "enqueue"
  /\ EnqueueWait(c)
  /\ UNCHANGED <<pc, next_request_id, req, sent, processed>>

ClientEnqueue(c) ==
  /\ pc[c] = "enqueue"
  /\ Enqueue(c, req[c])
  /\ sent' = [sent EXCEPT ![c] = @ + 1]
  /\ req' = [req EXCEPT ![c] = 0]
  /\ Goto(c, "issue")
  /\ UNCHANGED <<next_request_id, processed>>

ClientReturn(c) ==
  /\ pc[c] = "issue"
  /\ sent[c] = REQUESTS_PER_CLIENT
  /\ Goto(c, "exited")
  /\ UNCHANGED <<ring, waiters, next_request_id, req, sent, processed>>
-----------------------------------------------------------------------------
(* worker_thread                                                           *)

WorkerDequeueWait(w) ==
  /\ pc[w] = "dequeue"
  /\ DequeueWait(w)
  /\ UNCHANGED <<pc, next_request_id, req, sent, processed>>

WorkerDequeue(w) ==
  /\ pc[w] = "dequeue"
  /\ \E v \in Values :
       /\ Dequeue(w, v)
       /\ req' = [req EXCEPT ![w] = v]
  /\ Goto(w, "process")
  /\ UNCHANGED <<next_request_id, sent, processed>>

Process(w) ==
  /\ pc[w] = "process"
  /\ req[w] # SHUTDOWN
  /\ processed' = processed \cup {req[w]}
  /\ req' = [req EXCEPT ![w] = 0]
  /\ Goto(w, "dequeue")
  /\ UNCHANGED <<ring, waiters, next_request_id, sent>>

WorkerReturn(w) ==
  /\ pc[w] = "process"
  /\ req[w] = SHUTDOWN
  /\ Goto(w, "exited")
  /\ UNCHANGED <<ring, waiters, next_request_id, req, sent, processed>>
-----------------------------------------------------------------------------
(* main                                                                    *)

\* Mutant: the clients are not joined before the shutdown requests.
NoJoinClients ==
  /\ pc[Main] = "join_clients"
  /\ Goto(Main, "shutdown")
  /\ UNCHANGED <<ring, waiters, next_request_id, req, sent, processed>>

JoinClients ==
  /\ pc[Main] = "join_clients"
  /\ \A c \in Clients : pc[c] = "exited"
  /\ Goto(Main, "shutdown")
  /\ UNCHANGED <<ring, waiters, next_request_id, req, sent, processed>>

ShutdownWait ==
  /\ pc[Main] = "shutdown"
  /\ sent[Main] < Cardinality(Workers)
  /\ EnqueueWait(Main)
  /\ UNCHANGED <<pc, next_request_id, req, sent, processed>>

Shutdown ==
  /\ pc[Main] = "shutdown"
  /\ sent[Main] < Cardinality(Workers)
  /\ Enqueue(Main, SHUTDOWN)
  /\ sent' = [sent EXCEPT ![Main] = @ + 1]
  /\ UNCHANGED <<pc, next_request_id, req, processed>>

ShutdownSent ==
  /\ pc[Main] = "shutdown"
  /\ sent[Main] = Cardinality(Workers)
  /\ Goto(Main, "join_workers")
  /\ UNCHANGED <<ring, waiters, next_request_id, req, sent, processed>>

JoinWorkers ==
  /\ pc[Main] = "join_workers"
  /\ \A w \in Workers : pc[w] = "exited"
  /\ Goto(Main, "exited")
  /\ UNCHANGED <<ring, waiters, next_request_id, req, sent, processed>>
-----------------------------------------------------------------------------
ClientStep(c) == Issue(c) \/ ClientEnqueueWait(c) \/ ClientEnqueue(c) \/ ClientReturn(c)
WorkerStep(w) ==
  WorkerDequeueWait(w) \/ WorkerDequeue(w) \/ Process(w) \/ WorkerReturn(w)
MainStep == JoinClients \/ ShutdownWait \/ Shutdown \/ ShutdownSent \/ JoinWorkers

Wakeup ==
  /\ \E t \in Threads : SpuriousWakeup(t)
  /\ UNCHANGED <<pc, next_request_id, req, sent, processed>>

\* main has returned.
Finished == pc[Main] = "exited" /\ UNCHANGED vars

Next ==
  \/ \E c \in Clients : ClientStep(c)
  \/ \E w \in Workers : WorkerStep(w)
  \/ MainStep
  \/ Wakeup
  \/ Finished

Spec == Init /\ [][Next]_vars
-----------------------------------------------------------------------------
(* Properties.                                                             *)

Places(id) ==
  {<<"client", c>> : c \in {d \in Clients : pc[d] = "enqueue" /\ req[d] = id}}
    \cup {<<"queue", i>> : i \in {k \in 1 .. count : Contents[k] = id}}
    \cup {<<"worker", w>> : w \in {v \in Workers : pc[v] = "process" /\ req[v] = id}}
    \cup {<<"processed", n>> : n \in {id} \cap processed}

\* Each request id given out by client_thread is in exactly one place: with
\* its client, in the queue, with one worker, or processed.
OnePlace == \A id \in Issued : \E p \in Places(id) : Places(id) = {p}

\* A worker that has left worker_thread leaves only shutdown requests behind.
NothingLeftBehind ==
  (\E w \in Workers : pc[w] = "exited") =>
    /\ \A i \in 1 .. count : Contents[i] = SHUTDOWN
    /\ \A c \in Clients : pc[c] = "exited"

AwakeConsumers ==
  {w \in Workers \ empty_waiters :
      pc[w] = "dequeue" \/ (pc[w] = "process" /\ req[w] # SHUTDOWN)}
AwakeProducers ==
  {p \in Producers \ full_waiters : pc[p] # "exited" /\ pc[p] # "join_workers"}

\* No wake-up is lost: while a worker sleeps in dequeue, each queued request
\* has a worker awake that will come for it, and while a producer sleeps in
\* enqueue, each free slot has one.
NoLostWakeup ==
  /\ empty_waiters # {} => count <= Cardinality(AwakeConsumers)
  /\ full_waiters # {} => Capacity - count <= Cardinality(AwakeProducers)

\* The ring buffer with its signals is a bounded FIFO queue.
IsFifo == Fifo!Spec

\* main returns, and by then every request of every client was processed.
AllServed == <>(pc[Main] = "exited" /\ processed = 1 .. Total)
=============================================================================
