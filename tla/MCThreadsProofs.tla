--------------------------- MODULE MCThreadsProofs ---------------------------
(***************************************************************************)
(* Proofs about the threaded programs, for any numbers of threads, requests *)
(* tasks and items and any capacity of the buffers.  Each program has an    *)
(* inductive invariant of its own; a step of MCThreads is a step of one of  *)
(* the programs and stutters for the others.                                *)
(***************************************************************************)
EXTENDS MCThreads, Sequences, FiniteSetTheorems, TLAPS

(* Lemmas about ring buffers: the n values held from the head h on.         *)

Slots(C) == 0 .. C - 1
Stored(d, b, p, v) == d = [b EXCEPT ![p] = v]
Appended(r, s, v) == r = Append(s, v)
Held(b, h, n, C) == [j \in 1 .. n |-> b[(h + j - 1) % C]]

LEMMA Wrap ==
  ASSUME NEW C \in Nat \ {0}, NEW h \in 0 .. C - 1, NEW k \in 0 .. C
  PROVE  (h + k) % C = IF h + k < C THEN h + k ELSE h + k - C
OBVIOUS

LEMMA WrapNone ==
  ASSUME NEW C \in Nat \ {0}, NEW h \in 0 .. C - 1
  PROVE  h % C = h
OBVIOUS

LEMMA WrapAt ==
  ASSUME NEW C \in Nat \ {0}, NEW h \in 0 .. C - 1, NEW j \in 1 .. C + 1
  PROVE  (h + j - 1) % C = IF h + j - 1 < C THEN h + j - 1 ELSE h + j - 1 - C
<1> DEFINE k == j - 1
<1>1. k \in 0 .. C /\ h + j - 1 = h + k
  OBVIOUS
<1> HIDE DEF k
<1>2. (h + k) % C = IF h + k < C THEN h + k ELSE h + k - C
  BY <1>1, Wrap
<1> QED BY <1>1, <1>2

LEMMA RingIsSeq ==
  ASSUME NEW C \in Nat \ {0}, NEW V, NEW b \in [0 .. C - 1 -> V], NEW h \in 0 .. C - 1,
         NEW n \in 0 .. C
  PROVE  Held(b, h, n, C) \in Seq(V) /\ Len(Held(b, h, n, C)) = n
<1> DEFINE s == Held(b, h, n, C)
<1>1. ASSUME NEW j \in 1 .. n PROVE (h + j - 1) % C \in 0 .. C - 1
  <2>1. j \in 1 .. C + 1
    OBVIOUS
  <2> QED BY <2>1, WrapAt
<1>2. \A j \in 1 .. n : b[(h + j - 1) % C] \in V
  BY <1>1
<1>3. s \in [1 .. n -> V] /\ n \in Nat
  BY <1>2 DEF Held
<1> HIDE DEF s
<1>4. s \in Seq(V) /\ Len(s) = n
  BY <1>3
<1> QED BY <1>4 DEF s

\* A value stored behind the last one is appended.
LEMMA RingAppend ==
  ASSUME NEW C \in Nat \ {0}, NEW V, NEW b \in [Slots(C) -> V], NEW h \in 0 .. C - 1,
         NEW n \in 0 .. C - 1, NEW v \in V, NEW d, NEW p, Stored(d, b, p, v), p = (h + n) % C
  PROVE  Appended(Held(d, h, n + 1, C), Held(b, h, n, C), v)
<1> SUFFICES ASSUME NEW s, s = [j \in 1 .. n |-> b[(h + j - 1) % C]],
                    NEW r, r = [j \in 1 .. n + 1 |-> d[(h + j - 1) % C]]
             PROVE  r = Append(s, v)
  BY DEF Held, Appended
<1> USE DEF Slots
<1>0. \A q \in 0 .. C - 1 : d[q] = IF q = (h + n) % C THEN v ELSE b[q]
  BY DEF Stored
<1>1. \A j \in 1 .. n + 1 :
        (h + j - 1) % C = IF h + j - 1 < C THEN h + j - 1 ELSE h + j - 1 - C
  <2> TAKE j \in 1 .. n + 1
  <2>1. j \in 1 .. C + 1
    OBVIOUS
  <2> QED BY <2>1, WrapAt
<1>2. (h + n) % C = IF h + n < C THEN h + n ELSE h + n - C
  <2>1. n \in 0 .. C
    OBVIOUS
  <2> QED BY <2>1, Wrap
<1>3. s \in Seq(V) /\ Len(s) = n /\ \A j \in 1 .. n : s[j] = b[(h + j - 1) % C]
  <2>1. n \in 0 .. C
    OBVIOUS
  <2> QED BY <2>1, RingIsSeq DEF Held
<1>4. Append(s, v) = [j \in 1 .. n + 1 |-> IF j <= n THEN s[j] ELSE v]
  BY <1>3
<1>5. ASSUME NEW j \in 1 .. n + 1
      PROVE  d[(h + j - 1) % C] = IF j <= n THEN s[j] ELSE v
  <2>1. CASE j <= n
    <3>1. (h + j - 1) % C # (h + n) % C /\ (h + j - 1) % C \in 0 .. C - 1
      <4> DEFINE f == (h + j - 1) % C
                 g == (h + n) % C
      <4>1. f = IF h + j - 1 < C THEN h + j - 1 ELSE h + j - 1 - C
        BY <1>1
      <4>2. g = IF h + n < C THEN h + n ELSE h + n - C
        BY <1>2
      <4> HIDE DEF f, g
      <4>3. f # g /\ f \in 0 .. C - 1
        BY <2>1, <4>1, <4>2
      <4> QED BY <4>3 DEF f, g
    <3>2. s[j] = b[(h + j - 1) % C]
      BY <1>3, <2>1
    <3> QED BY <1>0, <2>1, <3>1, <3>2
  <2>2. CASE j = n + 1
    <3>1. (h + j - 1) % C = (h + n) % C /\ (h + n) % C \in 0 .. C - 1
      BY <1>1, <1>2, <2>2
    <3> QED BY <1>0, <2>2, <3>1
  <2> QED BY <2>1, <2>2
<1> QED BY <1>4, <1>5

\* When the head moves on, the first value is gone.
LEMMA RingTail ==
  ASSUME NEW C \in Nat \ {0}, NEW V, NEW b \in [Slots(C) -> V], NEW h \in 0 .. C - 1,
         NEW n \in 1 .. C
  PROVE  Held(b, (h + 1) % C, n - 1, C) = Tail(Held(b, h, n, C))
<1> USE DEF Slots
<1>1. (h + 1) % C = IF h + 1 < C THEN h + 1 ELSE h + 1 - C
  <2>1. 1 \in 0 .. C
    OBVIOUS
  <2> QED BY <2>1, Wrap
<1>2. (h + 1) % C \in 0 .. C - 1
  BY <1>1
<1> DEFINE g == (h + 1) % C
<1> SUFFICES ASSUME NEW s, s = [j \in 1 .. n |-> b[(h + j - 1) % C]],
                    NEW r, r = [j \in 1 .. n - 1 |-> b[(g + j - 1) % C]]
             PROVE  r = Tail(s)
  BY <1>2 DEF Held
<1>3. ASSUME NEW j \in 1 .. n - 1 PROVE (g + j - 1) % C = (h + (j + 1) - 1) % C
  <2> HIDE DEF g
  <2>1. (g + j - 1) % C = IF g + j - 1 < C THEN g + j - 1 ELSE g + j - 1 - C
    <3>1. j \in 1 .. C + 1 /\ g \in 0 .. C - 1
      BY <1>2 DEF g
    <3> QED BY <3>1, WrapAt
  <2>2. (h + (j + 1) - 1) % C =
          IF h + (j + 1) - 1 < C THEN h + (j + 1) - 1 ELSE h + (j + 1) - 1 - C
    <3>1. j + 1 \in 1 .. C + 1
      OBVIOUS
    <3> QED BY <3>1, WrapAt
  <2>3. g = IF h + 1 < C THEN h + 1 ELSE h + 1 - C
    BY <1>1 DEF g
  <2> DEFINE p == (g + j - 1) % C
             q == (h + (j + 1) - 1) % C
  <2> HIDE DEF p, q
  <2>4. p = q
    BY <2>1, <2>2, <2>3 DEF p, q
  <2> QED BY <2>4 DEF p, q
<1>4. s \in Seq(V) /\ Len(s) = n /\ \A j \in 1 .. n : s[j] = b[(h + j - 1) % C]
  <2>1. n \in 0 .. C
    OBVIOUS
  <2> QED BY <2>1, RingIsSeq DEF Held
<1>5. Tail(s) = [j \in 1 .. n - 1 |-> s[j + 1]]
  BY <1>4
<1>6. r = Tail(s)
  <2>1. \A j \in 1 .. n - 1 : j + 1 \in 1 .. n
    OBVIOUS
  <2>2. \A j \in 1 .. n - 1 : s[j + 1] = b[(h + (j + 1) - 1) % C]
    BY <1>4, <2>1
  <2>3. \A j \in 1 .. n - 1 : b[(g + j - 1) % C] = s[j + 1]
    BY <1>3, <2>2
  <2> QED BY <1>5, <2>3
<1> QED BY <1>6
-----------------------------------------------------------------------------
(* The request server.  Where its threads can be, and who can be asleep.   *)

Putting(p) ==
  IF p = Main THEN server_pc[Main] = "shutdown" /\ sent[Main] < Cardinality(Workers)
              ELSE server_pc[p] = "enqueue"

ServerPlaces ==
  /\ \A c \in Clients : server_pc[c] \in {"issue", "enqueue", "exited"}
  /\ \A w \in Workers : server_pc[w] \in {"dequeue", "process", "exited"}
  /\ server_pc[Main] \in {"join_clients", "shutdown", "join_workers", "exited"}
  /\ \A w \in empty : server_pc[w] = "dequeue"
  /\ \A p \in full : Putting(p)

ServerRing == last = (first + length) % QUEUE_SIZE

\* The requests given out so far, each by the client and its iteration.
Given ==
  {e \in Clients \X (1 .. REQUESTS_PER_CLIENT) :
      e[2] <= sent[e[1]] + (IF server_pc[e[1]] = "enqueue" THEN 1 ELSE 0)}

ServerCounts ==
  /\ next_request_id = Cardinality(Given) + 1
  /\ \A c \in Clients : sent[c] <= REQUESTS_PER_CLIENT
  /\ \A c \in Clients : server_pc[c] = "enqueue" => sent[c] < REQUESTS_PER_CLIENT
  /\ sent[Main] <= Cardinality(Workers)

\* What is in somebody's hands or in the queue was given out, or ends a worker.
ServerIds ==
  /\ \A c \in Clients : server_pc[c] = "enqueue" => req[c] \in Server!Issued
  /\ \A k \in 1 .. length : Server!Contents[k] \in Server!Issued \cup {-1}
  /\ \A w \in Workers : server_pc[w] = "process" => req[w] \in Server!Issued \cup {-1}

Leaving(w) == server_pc[w] = "exited" \/ (server_pc[w] = "process" /\ req[w] = -1)

\* Shutdown requests come last: after all clients, and behind all requests.
ServerEnds ==
  /\ server_pc[Main] # "join_clients" => \A c \in Clients : server_pc[c] = "exited"
  /\ \A k \in 1 .. length : Server!Contents[k] = -1 => server_pc[Main] # "join_clients"
  /\ \A k, m \in 1 .. length :
       k < m /\ Server!Contents[k] = -1 => Server!Contents[m] = -1
  /\ \A w \in Workers : Leaving(w) =>
       /\ server_pc[Main] # "join_clients"
       /\ \A k \in 1 .. length : Server!Contents[k] = -1

\* Each queued request has a worker coming for it, and each free slot somebody
\* waits for a producer that is about to fill it.
WillPut == {p \in Server!Producers \ full : Putting(p)}

ServerWakeups ==
  /\ empty # {} => length <= Cardinality(Server!AwakeConsumers)
  /\ full # {} => QUEUE_SIZE - length <= Cardinality(WillPut)

ServerInv ==
  /\ Server!TypeOK /\ ServerPlaces /\ ServerRing /\ ServerCounts
  /\ ServerIds /\ Server!OnePlace /\ ServerEnds /\ ServerWakeups
-----------------------------------------------------------------------------
ServerValues == {-1} \cup 0 .. Server!Total

LEMMA ServerFiniteSets ==
  /\ \A S : Server!IsFiniteSet(S) = IsFiniteSet(S)
  /\ \A S : Server!Cardinality(S) = Cardinality(S)
<1>1. \A S : Server!IsFiniteSet(S) = IsFiniteSet(S)
  BY DEF IsFiniteSet, Server!IsFiniteSet
<1>2. \A S : Server!Cardinality(S) = Cardinality(S)
  BY DEF Cardinality, Server!Cardinality
<1> QED BY <1>1, <1>2

LEMMA ServerConstants ==
  /\ QUEUE_SIZE \in Nat \ {0}
  /\ IsFiniteSet(Clients) /\ IsFiniteSet(Workers)
  /\ \A c \in Clients : c \notin Workers
  /\ Main \notin Clients /\ Main \notin Workers
  /\ REQUESTS_PER_CLIENT \in Nat
  /\ Cardinality(Clients) \in Nat /\ Cardinality(Workers) \in Nat
<1>1. /\ QUEUE_SIZE \in Nat \ {0}
      /\ IsFiniteSet(Clients) /\ IsFiniteSet(Workers) /\ Clients \cap Workers = {}
      /\ Main \notin Clients \cup Workers
      /\ REQUESTS_PER_CLIENT \in Nat
  BY MCAssumption, ServerFiniteSets DEF Server!ConstantsOK, Server!BufferConstantsOK
<1>2. Cardinality(Clients) \in Nat /\ Cardinality(Workers) \in Nat
  BY <1>1, FS_CardinalityType
<1> QED BY <1>1, <1>2

LEMMA ServerTotal ==
  /\ Server!Total = Cardinality(Clients) * REQUESTS_PER_CLIENT
  /\ Server!Total \in Nat
<1>1. Server!Total = Cardinality(Clients) * REQUESTS_PER_CLIENT
  BY ServerFiniteSets DEF Server!Total
<1>2. ASSUME NEW m \in Nat, NEW n \in Nat PROVE m * n \in Nat
  OBVIOUS
<1> QED BY <1>1, <1>2, ServerConstants

LEMMA QueueType ==
  ASSUME Server!TypeOK
  PROVE  /\ queue \in [0 .. QUEUE_SIZE - 1 -> ServerValues]
         /\ first \in 0 .. QUEUE_SIZE - 1 /\ last \in 0 .. QUEUE_SIZE - 1
         /\ length \in 0 .. QUEUE_SIZE
         /\ Server!Contents \in Seq(ServerValues) /\ Len(Server!Contents) = length
         /\ \A k \in 1 .. length : Server!Contents[k] \in ServerValues
<1>1. /\ queue \in [0 .. QUEUE_SIZE - 1 -> ServerValues]
      /\ first \in 0 .. QUEUE_SIZE - 1 /\ last \in 0 .. QUEUE_SIZE - 1
      /\ length \in 0 .. QUEUE_SIZE
  BY ServerTotal DEF Server!TypeOK, Server!RingTypeOK, Server!Index, ServerValues
<1>2. Server!Contents = Held(queue, first, length, QUEUE_SIZE)
  BY DEF Server!Contents, Held
<1>3. Server!Contents \in Seq(ServerValues) /\ Len(Server!Contents) = length
  BY <1>1, <1>2, ServerConstants, RingIsSeq, SMTT(30)
<1> QED BY <1>1, <1>3

LEMMA QueuePut ==
  ASSUME Server!TypeOK, ServerRing, NEW t, NEW v \in ServerValues, Server!Enqueue(t, v)
  PROVE  /\ Server!RingTypeOK' /\ ServerRing'
         /\ length < QUEUE_SIZE /\ length' = length + 1
         /\ Server!Contents' = Append(Server!Contents, v)
         /\ \A k \in 1 .. length' :
              Server!Contents'[k] = IF k <= length THEN Server!Contents[k] ELSE v
<1>0. /\ QUEUE_SIZE \in Nat \ {0} /\ queue \in [0 .. QUEUE_SIZE - 1 -> ServerValues]
      /\ first \in 0 .. QUEUE_SIZE - 1 /\ last \in 0 .. QUEUE_SIZE - 1
      /\ length \in 0 .. QUEUE_SIZE
  BY QueueType, ServerConstants
<1>1. /\ length < QUEUE_SIZE /\ length' = length + 1 /\ first' = first
      /\ queue' = [queue EXCEPT ![last] = v] /\ last' = (last + 1) % QUEUE_SIZE
  BY DEF Server!Enqueue
<1>2. length \in 0 .. QUEUE_SIZE - 1 /\ length' \in 0 .. QUEUE_SIZE
  BY <1>0, <1>1
<1>3. last' \in 0 .. QUEUE_SIZE - 1 /\ ServerRing'
  <2>1. last = IF first + length < QUEUE_SIZE THEN first + length ELSE first + length - QUEUE_SIZE
    BY <1>0, Wrap DEF ServerRing
  <2>2. last' = IF last + 1 < QUEUE_SIZE THEN last + 1 ELSE last + 1 - QUEUE_SIZE
    <3>1. 1 \in 0 .. QUEUE_SIZE
      BY <1>0
    <3> QED BY <1>1, <3>1, <1>0, Wrap
  <2>3. (first' + length') % QUEUE_SIZE =
          IF first' + length' < QUEUE_SIZE THEN first' + length'
                                           ELSE first' + length' - QUEUE_SIZE
    BY <1>1, <1>2, <1>0, Wrap
  <2>4. last' = IF first' + length' < QUEUE_SIZE THEN first' + length'
                                               ELSE first' + length' - QUEUE_SIZE
    BY <1>0, <1>1, <2>1, <2>2
  <2>5. last' \in 0 .. QUEUE_SIZE - 1
    BY <1>0, <2>2
  <2> QED BY <2>3, <2>4, <2>5 DEF ServerRing
<1>4. queue' \in [0 .. QUEUE_SIZE - 1 -> ServerValues]
  BY <1>0, <1>1
<1>5. Server!RingTypeOK'
  BY <1>1, <1>2, <1>3, <1>4, QueueType, ServerTotal
     DEF Server!RingTypeOK, Server!Index, ServerValues
<1>6. Server!Contents' = Append(Server!Contents, v)
  <2>1. Server!Contents = Held(queue, first, length, QUEUE_SIZE)
    BY DEF Server!Contents, Held
  <2>2. Server!Contents' = Held(queue', first, length + 1, QUEUE_SIZE)
    BY <1>1 DEF Server!Contents, Held
  <2>3. Stored(queue', queue, last, v)
    BY <1>1 DEF Stored
  <2>4. Appended(Held(queue', first, length + 1, QUEUE_SIZE),
                 Held(queue, first, length, QUEUE_SIZE), v)
    <3>1. queue \in [Slots(QUEUE_SIZE) -> ServerValues]
      BY <1>0 DEF Slots
    <3> QED BY <1>0, <1>2, <2>3, <3>1, RingAppend DEF ServerRing
  <2> QED BY <2>1, <2>2, <2>4 DEF Appended
<1>7. \A k \in 1 .. length' :
        Server!Contents'[k] = IF k <= length THEN Server!Contents[k] ELSE v
  BY <1>1, <1>2, <1>6, QueueType
<1> QED BY <1>1, <1>3, <1>5, <1>6, <1>7

LEMMA QueueGet ==
  ASSUME Server!TypeOK, ServerRing, NEW t, NEW v, Server!Dequeue(t, v)
  PROVE  /\ Server!RingTypeOK' /\ ServerRing'
         /\ length > 0 /\ length' = length - 1
         /\ Server!Contents' = Tail(Server!Contents) /\ v = Server!Contents[1]
         /\ \A k \in 1 .. length' : Server!Contents'[k] = Server!Contents[k + 1]
<1>0. /\ QUEUE_SIZE \in Nat \ {0} /\ queue \in [0 .. QUEUE_SIZE - 1 -> ServerValues]
      /\ first \in 0 .. QUEUE_SIZE - 1 /\ last \in 0 .. QUEUE_SIZE - 1
      /\ length \in 0 .. QUEUE_SIZE
  BY QueueType, ServerConstants
<1>1. /\ length > 0 /\ length' = length - 1 /\ v = queue[first]
      /\ first' = (first + 1) % QUEUE_SIZE /\ UNCHANGED <<queue, last>>
  BY DEF Server!Dequeue
<1>2. length \in 1 .. QUEUE_SIZE /\ length' \in 0 .. QUEUE_SIZE
  BY <1>0, <1>1
<1>3. first' \in 0 .. QUEUE_SIZE - 1 /\ ServerRing'
  <2>1. last = IF first + length < QUEUE_SIZE THEN first + length ELSE first + length - QUEUE_SIZE
    BY <1>0, Wrap DEF ServerRing
  <2>2. first' = IF first + 1 < QUEUE_SIZE THEN first + 1 ELSE first + 1 - QUEUE_SIZE
    <3>1. 1 \in 0 .. QUEUE_SIZE
      BY <1>0
    <3> QED BY <1>1, <3>1, <1>0, Wrap
  <2>3. first' \in 0 .. QUEUE_SIZE - 1
    BY <1>0, <2>2
  <2>4. (first' + length') % QUEUE_SIZE =
          IF first' + length' < QUEUE_SIZE THEN first' + length'
                                           ELSE first' + length' - QUEUE_SIZE
    BY <1>2, <1>0, <2>3, Wrap
  <2>5. last' = IF first' + length' < QUEUE_SIZE THEN first' + length'
                                               ELSE first' + length' - QUEUE_SIZE
    BY <1>0, <1>1, <2>1, <2>2
  <2> QED BY <2>3, <2>4, <2>5 DEF ServerRing
<1>4. Server!RingTypeOK'
  BY <1>1, <1>2, <1>3, QueueType, ServerTotal
     DEF Server!RingTypeOK, Server!Index, ServerValues
<1>5. Server!Contents' = Tail(Server!Contents) /\ v = Server!Contents[1]
  <2>1. Server!Contents = Held(queue, first, length, QUEUE_SIZE)
    BY DEF Server!Contents, Held
  <2>2. Server!Contents' = Held(queue, (first + 1) % QUEUE_SIZE, length - 1, QUEUE_SIZE)
    BY <1>1 DEF Server!Contents, Held
  <2>3. Held(queue, (first + 1) % QUEUE_SIZE, length - 1, QUEUE_SIZE)
          = Tail(Held(queue, first, length, QUEUE_SIZE))
    <3>1. queue \in [Slots(QUEUE_SIZE) -> ServerValues]
      BY <1>0 DEF Slots
    <3> QED BY <1>0, <1>2, <3>1, RingTail
  <2>4. Server!Contents[1] = queue[first]
    <3>1. first % QUEUE_SIZE = first /\ first + 1 - 1 = first /\ 1 \in 1 .. length
      BY <1>0, <1>2, WrapNone
    <3> QED BY <3>1 DEF Server!Contents
  <2> QED BY <1>1, <2>1, <2>2, <2>3, <2>4
<1>6. \A k \in 1 .. length' : Server!Contents'[k] = Server!Contents[k + 1]
  BY <1>1, <1>2, <1>5, QueueType
<1> QED BY <1>1, <1>3, <1>4, <1>5, <1>6

LEMMA QueueKept ==
  ASSUME Server!TypeOK, ServerRing, UNCHANGED Server!ring
  PROVE  /\ Server!RingTypeOK' /\ ServerRing' /\ length' = length
         /\ Server!Contents' = Server!Contents
BY DEF Server!ring, Server!TypeOK, Server!RingTypeOK, ServerRing, Server!Contents
-----------------------------------------------------------------------------
ServerPC ==
  {"issue", "enqueue", "dequeue", "process", "join_clients", "shutdown", "join_workers", "exited"}

LEMMA ServerThreads ==
  /\ \A c \in Clients : c \in Server!Threads /\ c \in Server!Producers /\ c \in Clients \cup Workers
  /\ \A c \in Clients : c # Main /\ c \notin Workers
  /\ \A w \in Workers : w \in Server!Threads /\ w \in Clients \cup Workers
  /\ \A w \in Workers : w # Main /\ w \notin Clients
  /\ Main \in Server!Threads /\ Main \in Server!Producers
  /\ \A p \in Server!Producers : p = Main \/ p \in Clients
BY ServerConstants DEF Server!Threads, Server!Producers

LEMMA ServerMoved ==
  ASSUME Server!TypeOK, NEW t \in Server!Threads, NEW l \in ServerPC, Server!Goto(t, l)
  PROVE  /\ server_pc' \in [Server!Threads -> ServerPC]
         /\ server_pc'[t] = l
         /\ \A u \in Server!Threads : u # t => server_pc'[u] = server_pc[u]
BY DEF Server!TypeOK, Server!Goto, ServerPC

LEMMA GivenBound ==
  ASSUME NEW G, G \subseteq Clients \X (1 .. REQUESTS_PER_CLIENT)
  PROVE  IsFiniteSet(G) /\ Cardinality(G) \in Nat /\ Cardinality(G) <= Server!Total
<1>1. /\ IsFiniteSet(1 .. REQUESTS_PER_CLIENT)
      /\ Cardinality(1 .. REQUESTS_PER_CLIENT) = REQUESTS_PER_CLIENT
  <2>1. 1 \in Int /\ REQUESTS_PER_CLIENT \in Int
    BY ServerConstants
  <2>2. /\ IsFiniteSet(1 .. REQUESTS_PER_CLIENT)
        /\ Cardinality(1 .. REQUESTS_PER_CLIENT) =
             IF 1 > REQUESTS_PER_CLIENT THEN 0 ELSE REQUESTS_PER_CLIENT - 1 + 1
    BY <2>1, FS_Interval, Zenon
  <2> QED BY <2>2, ServerConstants
<1>2. /\ IsFiniteSet(Clients \X (1 .. REQUESTS_PER_CLIENT))
      /\ Cardinality(Clients \X (1 .. REQUESTS_PER_CLIENT)) = Server!Total
  BY <1>1, ServerConstants, ServerTotal, FS_Product
<1> QED BY <1>2, FS_Subset, FS_CardinalityType

LEMMA GivenKept ==
  ASSUME \A c \in Clients : sent'[c] + (IF server_pc'[c] = "enqueue" THEN 1 ELSE 0)
                              = sent[c] + (IF server_pc[c] = "enqueue" THEN 1 ELSE 0)
  PROVE  Given' = Given
BY DEF Given

LEMMA GivenOneMore ==
  ASSUME Server!TypeOK, NEW c \in Clients, server_pc[c] # "enqueue",
         sent[c] < REQUESTS_PER_CLIENT, UNCHANGED sent,
         server_pc'[c] = "enqueue", \A d \in Clients : d # c => server_pc'[d] = server_pc[d]
  PROVE  /\ Cardinality(Given) \in Nat
         /\ Cardinality(Given') = Cardinality(Given) + 1
         /\ Cardinality(Given') <= Server!Total
<1> DEFINE e == <<c, sent[c] + 1>>
<1>1. \A d \in Clients : sent[d] \in Nat
  BY ServerThreads DEF Server!TypeOK
<1>2. e \in Clients \X (1 .. REQUESTS_PER_CLIENT) /\ e[1] = c /\ e[2] = sent[c] + 1
  BY <1>1, ServerConstants
<1>3. e \notin Given
  BY <1>1, <1>2 DEF Given
<1>4. Given' = Given \cup {e}
  <2>1. ASSUME NEW g \in Clients \X (1 .. REQUESTS_PER_CLIENT)
        PROVE  g \in Given' <=> g \in Given \/ g = e
    <3>1. g = <<g[1], g[2]>> /\ g[1] \in Clients /\ g[2] \in Nat
      BY ServerConstants
    <3>2. CASE g[1] = c
      BY <1>1, <3>1, <3>2, ServerConstants DEF Given
    <3>3. CASE g[1] # c
      BY <1>1, <1>2, <3>1, <3>3, ServerConstants DEF Given
    <3> QED BY <3>2, <3>3
  <2>2. /\ \A g \in Given : g \in Clients \X (1 .. REQUESTS_PER_CLIENT)
        /\ \A g \in Given' : g \in Clients \X (1 .. REQUESTS_PER_CLIENT)
    BY DEF Given
  <2> QED BY <1>2, <2>1, <2>2
<1>5. IsFiniteSet(Given) /\ Cardinality(Given) \in Nat
  BY GivenBound DEF Given
<1>6. Cardinality(Given') <= Server!Total
  BY GivenBound DEF Given
<1> HIDE DEF e
<1> QED BY <1>3, <1>4, <1>5, <1>6, FS_AddElement

LEMMA ServerInitInv == Server!Init => ServerInv
<1> SUFFICES ASSUME Server!Init PROVE ServerInv
  OBVIOUS
<1>1. /\ queue = [j \in 0 .. QUEUE_SIZE - 1 |-> 0] /\ first = 0 /\ last = 0 /\ length = 0
      /\ full = {} /\ empty = {} /\ next_request_id = 1 /\ served = {}
      /\ req = [t \in Clients \cup Workers |-> 0] /\ sent = [t \in Server!Producers |-> 0]
  BY DEF Server!Init, Server!BufferInit, Server!Index
<1>2. /\ server_pc \in [Server!Threads -> ServerPC]
      /\ \A c \in Clients : server_pc[c] = "issue"
      /\ \A w \in Workers : server_pc[w] = "dequeue"
      /\ server_pc[Main] = "join_clients"
  BY ServerThreads DEF Server!Init, ServerPC
<1>3. Server!TypeOK
  <2>1. 0 \in 0 .. Cardinality(Clients) * REQUESTS_PER_CLIENT
    BY ServerTotal
  <2>2. Server!RingTypeOK
    BY <1>1, <2>1, ServerConstants DEF Server!RingTypeOK, Server!Index
  <2>3. req \in [Clients \cup Workers -> {-1} \cup 0 .. Cardinality(Clients) * REQUESTS_PER_CLIENT]
    BY <1>1, <2>1
  <2>4. next_request_id \in 1 .. Server!Total + 1
    BY <1>1, ServerTotal
  <2> QED BY <1>1, <1>2, <2>2, <2>3, <2>4 DEF Server!TypeOK, ServerPC
<1>4. ServerPlaces
  BY <1>1, <1>2 DEF ServerPlaces
<1>5. ServerRing
  <2>1. 0 % QUEUE_SIZE = 0
    BY ServerConstants, WrapNone
  <2> QED BY <1>1, <2>1 DEF ServerRing
<1>6. ServerCounts
  <2>1. Given = {}
    BY <1>1, <1>2, ServerConstants, ServerThreads DEF Given
  <2> QED BY <1>1, <1>2, <2>1, FS_EmptySet, ServerConstants, ServerThreads DEF ServerCounts
<1>7. ServerIds /\ Server!OnePlace /\ ServerEnds
  BY <1>1, <1>2 DEF ServerIds, Server!OnePlace, Server!Issued, ServerEnds, Leaving
<1>8. ServerWakeups
  BY <1>1 DEF ServerWakeups
<1> QED BY <1>3, <1>4, <1>5, <1>6, <1>7, <1>8 DEF ServerInv
-----------------------------------------------------------------------------
(* Types, places, ring and counts of the request server, action by action. *)

ServerShape == Server!TypeOK /\ ServerPlaces /\ ServerRing /\ ServerCounts

LEMMA ServerTyped ==
  ASSUME Server!RingTypeOK', full' \subseteq Server!Producers, empty' \subseteq Workers,
         server_pc' \in [Server!Threads -> ServerPC],
         next_request_id' \in 1 .. Server!Total + 1,
         req' \in [Clients \cup Workers -> ServerValues],
         sent' \in [Server!Producers -> Nat],
         served' \subseteq 1 .. next_request_id' - 1
  PROVE  Server!TypeOK'
BY ServerTotal DEF Server!TypeOK, ServerPC, ServerValues, Server!Issued, Server!Producers,
   Server!Threads, Server!Total

LEMMA ServerTypes ==
  ASSUME Server!TypeOK
  PROVE  /\ full \subseteq Server!Producers /\ empty \subseteq Workers
         /\ server_pc \in [Server!Threads -> ServerPC]
         /\ next_request_id \in 1 .. Server!Total + 1
         /\ req \in [Clients \cup Workers -> ServerValues]
         /\ sent \in [Server!Producers -> Nat]
         /\ served \subseteq 1 .. next_request_id - 1
BY ServerTotal DEF Server!TypeOK, ServerPC, ServerValues, Server!Issued

LEMMA IssueShape ==
  ASSUME ServerInv, NEW c \in Clients, Server!Issue(c)
  PROVE  ServerShape'
<1> USE DEF ServerInv
<1>1. /\ server_pc[c] = "issue" /\ sent[c] < REQUESTS_PER_CLIENT
      /\ req' = [req EXCEPT ![c] = next_request_id]
      /\ next_request_id' = next_request_id + 1 /\ Server!Goto(c, "enqueue")
      /\ UNCHANGED <<Server!ring, full, empty, sent, served>>
  BY DEF Server!Issue, Server!waiters
<1>2. /\ server_pc' \in [Server!Threads -> ServerPC] /\ server_pc'[c] = "enqueue"
      /\ \A u \in Server!Threads : u # c => server_pc'[u] = server_pc[u]
  BY <1>1, ServerMoved, ServerThreads DEF ServerPC
<1>3. /\ Cardinality(Given) \in Nat /\ Cardinality(Given') = Cardinality(Given) + 1
      /\ Cardinality(Given') <= Server!Total
  BY <1>1, <1>2, ServerThreads, GivenOneMore
<1>4. ServerCounts'
  BY <1>1, <1>2, <1>3, ServerThreads DEF ServerCounts
<1>5. next_request_id \in 0 .. Server!Total /\ next_request_id' \in 1 .. Server!Total + 1
  BY <1>1, <1>3, ServerTotal DEF ServerCounts
<1>6. Server!TypeOK' /\ ServerRing'
  <2>1. Server!RingTypeOK' /\ ServerRing'
    BY <1>1, QueueKept
  <2>2. req' \in [Clients \cup Workers -> ServerValues]
    BY <1>1, <1>5, ServerTypes DEF ServerValues
  <2>3. served' \subseteq 1 .. next_request_id' - 1
    BY <1>1, <1>5, ServerTypes
  <2>4. full' \subseteq Server!Producers /\ empty' \subseteq Workers
        /\ sent' \in [Server!Producers -> Nat]
    BY <1>1, ServerTypes
  <2> QED BY <1>2, <1>5, <2>1, <2>2, <2>3, <2>4, ServerTyped
<1>7. ServerPlaces'
  <2>1. \A p \in full : Putting(p)'
    BY <1>1, <1>2, ServerTypes, ServerThreads DEF ServerPlaces, Putting
  <2> QED BY <1>1, <1>2, <2>1, ServerTypes, ServerThreads DEF ServerPlaces
<1> QED BY <1>4, <1>6, <1>7 DEF ServerShape

\* The steps that change only the place of a thread.
LEMMA MoveShape ==
  ASSUME ServerInv, NEW t \in Server!Threads, NEW l \in ServerPC, Server!Goto(t, l),
         UNCHANGED <<Server!ring, full, empty, next_request_id, req, sent, served>>,
         server_pc[t] # "enqueue", l # "enqueue", t \notin full, t \notin empty,
         t \in Clients => l = "exited",
         t \in Workers => l = "exited",
         t = Main => l \in {"shutdown", "join_workers", "exited"}
  PROVE  ServerShape'
<1> USE DEF ServerInv
<1>1. /\ server_pc' \in [Server!Threads -> ServerPC] /\ server_pc'[t] = l
      /\ \A u \in Server!Threads : u # t => server_pc'[u] = server_pc[u]
  BY ServerMoved
<1>2. ServerCounts'
  <2>1. Given' = Given
    BY <1>1, ServerThreads, GivenKept
  <2> QED BY <1>1, <2>1, ServerThreads DEF ServerCounts
<1>3. Server!TypeOK' /\ ServerRing'
  BY <1>1, QueueKept, ServerTypes, ServerTyped
<1>4. ServerPlaces'
  <2>1. \A p \in full : Putting(p)'
    BY <1>1, ServerTypes, ServerThreads DEF ServerPlaces, Putting
  <2> QED BY <1>1, <2>1, ServerTypes, ServerThreads DEF ServerPlaces
<1> QED BY <1>2, <1>3, <1>4 DEF ServerShape

\* The steps that change only who is asleep.
LEMMA WaitShape ==
  ASSUME ServerInv,
         UNCHANGED <<Server!ring, server_pc, next_request_id, req, sent, served>>,
         full' \subseteq Server!Producers, \A p \in full' : Putting(p),
         empty' \subseteq Workers, \A w \in empty' : server_pc[w] = "dequeue"
  PROVE  ServerShape'
<1> USE DEF ServerInv
<1>1. ServerCounts'
  <2>1. Given' = Given
    BY GivenKept
  <2> QED BY <2>1 DEF ServerCounts
<1>2. Server!TypeOK' /\ ServerRing'
  BY QueueKept, ServerTypes, ServerTyped
<1>3. ServerPlaces'
  BY DEF ServerPlaces, Putting
<1> QED BY <1>1, <1>2, <1>3 DEF ServerShape

LEMMA Signalled ==
  ASSUME NEW S, NEW L, Server!Signal(S, L)
  PROVE  /\ L \subseteq S
         /\ S # {} => \E t \in S : L = S \ {t}
BY DEF Server!Signal

LEMMA ClientEnqueueShape ==
  ASSUME ServerInv, NEW c \in Clients, Server!ClientEnqueue(c)
  PROVE  ServerShape'
<1> USE DEF ServerInv
<1>1. /\ server_pc[c] = "enqueue" /\ Server!Enqueue(c, req[c])
      /\ sent' = [sent EXCEPT ![c] = @ + 1] /\ req' = [req EXCEPT ![c] = 0]
      /\ Server!Goto(c, "issue") /\ UNCHANGED <<next_request_id, served>>
  BY DEF Server!ClientEnqueue
<1>2. /\ server_pc' \in [Server!Threads -> ServerPC] /\ server_pc'[c] = "issue"
      /\ \A u \in Server!Threads : u # c => server_pc'[u] = server_pc[u]
  BY <1>1, ServerMoved, ServerThreads DEF ServerPC
<1>3. /\ c \notin full /\ full' = full /\ empty' \subseteq empty
  BY <1>1, Signalled DEF Server!Enqueue
<1>4. req[c] \in ServerValues
  BY ServerTypes, ServerThreads
<1>5. Server!RingTypeOK' /\ ServerRing'
  BY <1>1, <1>4, QueuePut
<1>6. /\ sent' \in [Server!Producers -> Nat] /\ sent'[c] = sent[c] + 1
      /\ \A p \in Server!Producers : p # c => sent'[p] = sent[p]
      /\ \A p \in Server!Producers : sent[p] \in Nat
  BY <1>1, ServerTypes, ServerThreads
<1>7. ServerCounts'
  <2>1. Given' = Given
    BY <1>1, <1>2, <1>6, ServerThreads, GivenKept
  <2> QED BY <1>1, <1>2, <1>6, <2>1, ServerThreads, ServerConstants DEF ServerCounts
<1>8. Server!TypeOK'
  <2>1. req' \in [Clients \cup Workers -> ServerValues]
    BY <1>1, ServerTypes, ServerTotal DEF ServerValues
  <2>2. full' \subseteq Server!Producers /\ empty' \subseteq Workers
    BY <1>3, ServerTypes
  <2> QED BY <1>1, <1>2, <1>5, <1>6, <2>1, <2>2, ServerTypes, ServerTyped
<1>9. ServerPlaces'
  <2>1. \A p \in full : Putting(p)'
    BY <1>2, <1>3, <1>6, ServerTypes, ServerThreads DEF ServerPlaces, Putting
  <2> QED BY <1>2, <1>3, <2>1, ServerTypes, ServerThreads DEF ServerPlaces
<1> QED BY <1>5, <1>7, <1>8, <1>9 DEF ServerShape

LEMMA ShutdownShape ==
  ASSUME ServerInv, Server!Shutdown
  PROVE  ServerShape'
<1> USE DEF ServerInv
<1>1. /\ server_pc[Main] = "shutdown" /\ sent[Main] < Cardinality(Workers)
      /\ Server!Enqueue(Main, -1) /\ sent' = [sent EXCEPT ![Main] = @ + 1]
      /\ UNCHANGED <<server_pc, next_request_id, req, served>>
  BY ServerFiniteSets DEF Server!Shutdown, Server!SHUTDOWN
<1>2. Main \notin full /\ full' = full /\ empty' \subseteq empty
  BY <1>1, Signalled DEF Server!Enqueue
<1>3. Server!RingTypeOK' /\ ServerRing'
  <2>1. -1 \in ServerValues
    BY DEF ServerValues
  <2> QED BY <1>1, <2>1, QueuePut
<1>4. /\ sent' \in [Server!Producers -> Nat] /\ sent'[Main] = sent[Main] + 1
      /\ \A p \in Server!Producers : p # Main => sent'[p] = sent[p]
      /\ \A p \in Server!Producers : sent[p] \in Nat
  BY <1>1, ServerTypes, ServerThreads
<1>5. ServerCounts'
  <2>1. Given' = Given
    BY <1>1, <1>4, ServerThreads, GivenKept
  <2> QED BY <1>1, <1>4, <2>1, ServerThreads, ServerConstants DEF ServerCounts
<1>6. Server!TypeOK'
  <2>1. full' \subseteq Server!Producers /\ empty' \subseteq Workers
    BY <1>2, ServerTypes
  <2> QED BY <1>1, <1>3, <1>4, <2>1, ServerTypes, ServerTyped
<1>7. ServerPlaces'
  <2>1. \A p \in full : Putting(p)'
    BY <1>1, <1>2, <1>4, ServerTypes, ServerThreads DEF ServerPlaces, Putting
  <2> QED BY <1>1, <1>2, <2>1, ServerTypes, ServerThreads DEF ServerPlaces
<1> QED BY <1>3, <1>5, <1>6, <1>7 DEF ServerShape

LEMMA WorkerDequeueShape ==
  ASSUME ServerInv, NEW w \in Workers, NEW v \in ServerValues,
         server_pc[w] = "dequeue", Server!Dequeue(w, v), req' = [req EXCEPT ![w] = v],
         Server!Goto(w, "process"), UNCHANGED <<next_request_id, sent, served>>
  PROVE  ServerShape'
<1> USE DEF ServerInv
<1>1. /\ server_pc' \in [Server!Threads -> ServerPC] /\ server_pc'[w] = "process"
      /\ \A u \in Server!Threads : u # w => server_pc'[u] = server_pc[u]
  BY ServerMoved, ServerThreads DEF ServerPC
<1>2. w \notin empty /\ empty' = empty /\ full' \subseteq full
  BY Signalled DEF Server!Dequeue
<1>3. Server!RingTypeOK' /\ ServerRing'
  BY QueueGet
<1>4. ServerCounts'
  <2>1. Given' = Given
    BY <1>1, ServerThreads, GivenKept
  <2> QED BY <1>1, <2>1, ServerThreads DEF ServerCounts
<1>5. Server!TypeOK'
  <2>1. req' \in [Clients \cup Workers -> ServerValues]
    BY ServerTypes
  <2>2. full' \subseteq Server!Producers /\ empty' \subseteq Workers
    BY <1>2, ServerTypes
  <2> QED BY <1>1, <1>3, <2>1, <2>2, ServerTypes, ServerTyped
<1>6. ServerPlaces'
  <2>1. \A p \in full' : Putting(p)'
    BY <1>1, <1>2, ServerTypes, ServerThreads DEF ServerPlaces, Putting
  <2> QED BY <1>1, <1>2, <2>1, ServerTypes, ServerThreads DEF ServerPlaces
<1> QED BY <1>3, <1>4, <1>5, <1>6 DEF ServerShape

LEMMA ProcessShape ==
  ASSUME ServerInv, NEW w \in Workers, Server!Process(w)
  PROVE  ServerShape'
<1> USE DEF ServerInv
<1>1. /\ server_pc[w] = "process" /\ req[w] # -1 /\ served' = served \cup {req[w]}
      /\ req' = [req EXCEPT ![w] = 0] /\ Server!Goto(w, "dequeue")
      /\ UNCHANGED <<Server!ring, full, empty, next_request_id, sent>>
  BY DEF Server!Process, Server!SHUTDOWN, Server!waiters
<1>2. /\ server_pc' \in [Server!Threads -> ServerPC] /\ server_pc'[w] = "dequeue"
      /\ \A u \in Server!Threads : u # w => server_pc'[u] = server_pc[u]
  BY <1>1, ServerMoved, ServerThreads DEF ServerPC
<1>3. ServerCounts'
  <2>1. Given' = Given
    BY <1>1, <1>2, ServerThreads, GivenKept
  <2> QED BY <1>1, <1>2, <2>1, ServerThreads DEF ServerCounts
<1>4. Server!TypeOK' /\ ServerRing'
  <2>1. req' \in [Clients \cup Workers -> ServerValues]
    BY <1>1, ServerTypes, ServerTotal DEF ServerValues
  <2>2. served' \subseteq 1 .. next_request_id' - 1
    BY <1>1, ServerTypes DEF ServerIds, Server!Issued
  <2> QED BY <1>1, <1>2, <2>1, <2>2, QueueKept, ServerTypes, ServerTyped
<1>5. ServerPlaces'
  <2>1. \A p \in full : Putting(p)'
    BY <1>1, <1>2, ServerTypes, ServerThreads DEF ServerPlaces, Putting
  <2> QED BY <1>1, <1>2, <2>1, ServerTypes, ServerThreads DEF ServerPlaces
<1> QED BY <1>3, <1>4, <1>5 DEF ServerShape
-----------------------------------------------------------------------------
(* Where a request is, before and after a step.                            *)

LEMMA PlacesNow ==
  ASSUME NEW id
  PROVE  /\ \A x : <<"client", x>> \in Server!Places(id) <=>
                     x \in Clients /\ server_pc[x] = "enqueue" /\ req[x] = id
         /\ \A x : <<"queue", x>> \in Server!Places(id) <=>
                     x \in 1 .. length /\ Server!Contents[x] = id
         /\ \A x : <<"worker", x>> \in Server!Places(id) <=>
                     x \in Workers /\ server_pc[x] = "process" /\ req[x] = id
         /\ \A x : <<"processed", x>> \in Server!Places(id) <=> x = id /\ id \in served
         /\ \A y \in Server!Places(id) :
              \E x : y \in {<<"client", x>>, <<"queue", x>>, <<"worker", x>>, <<"processed", x>>}
BY DEF Server!Places

LEMMA PlacesNext ==
  ASSUME NEW id
  PROVE  /\ \A x : <<"client", x>> \in Server!Places(id)' <=>
                     x \in Clients /\ server_pc'[x] = "enqueue" /\ req'[x] = id
         /\ \A x : <<"queue", x>> \in Server!Places(id)' <=>
                     x \in 1 .. length' /\ Server!Contents'[x] = id
         /\ \A x : <<"worker", x>> \in Server!Places(id)' <=>
                     x \in Workers /\ server_pc'[x] = "process" /\ req'[x] = id
         /\ \A x : <<"processed", x>> \in Server!Places(id)' <=> x = id /\ id \in served'
         /\ \A y \in Server!Places(id)' :
              \E x : y \in {<<"client", x>>, <<"queue", x>>, <<"worker", x>>, <<"processed", x>>}
BY DEF Server!Places

LEMMA SamePlaces ==
  ASSUME NEW id,
         \A c \in Clients : server_pc'[c] = "enqueue" /\ req'[c] = id
                              <=> server_pc[c] = "enqueue" /\ req[c] = id,
         \A k : k \in 1 .. length' /\ Server!Contents'[k] = id
                  <=> k \in 1 .. length /\ Server!Contents[k] = id,
         \A w \in Workers : server_pc'[w] = "process" /\ req'[w] = id
                              <=> server_pc[w] = "process" /\ req[w] = id,
         id \in served' <=> id \in served
  PROVE  Server!Places(id)' = Server!Places(id)
<1>1. \A y \in Server!Places(id) : y \in Server!Places(id)'
  BY PlacesNow, PlacesNext
<1>2. \A y \in Server!Places(id)' : y \in Server!Places(id)
  BY PlacesNow, PlacesNext
<1> QED BY <1>1, <1>2

\* The steps that touch neither the queue nor a request in somebody's hands.
LEMMA QuietKept ==
  ASSUME ServerInv, UNCHANGED <<length, Server!Contents, next_request_id, req, served>>,
         \A c \in Clients : server_pc'[c] = "enqueue" <=> server_pc[c] = "enqueue",
         \A w \in Workers : server_pc'[w] = "process" => server_pc[w] = "process",
         \A w \in Workers : server_pc[w] = "process" /\ req[w] # -1 => server_pc'[w] = "process"
  PROVE  ServerIds' /\ Server!OnePlace'
<1> USE DEF ServerInv
<1>1. Server!Issued' = Server!Issued /\ -1 \notin Server!Issued
  BY DEF Server!Issued
<1>2. ServerIds'
  BY <1>1 DEF ServerIds
<1>3. \A id \in Server!Issued : Server!Places(id)' = Server!Places(id)
  BY <1>1, SamePlaces
<1> QED BY <1>1, <1>2, <1>3 DEF Server!OnePlace

LEMMA IssueKept ==
  ASSUME ServerInv, NEW c \in Clients, Server!Issue(c)
  PROVE  ServerIds' /\ Server!OnePlace'
<1> USE DEF ServerInv
<1>1. /\ server_pc[c] = "issue" /\ req' = [req EXCEPT ![c] = next_request_id]
      /\ next_request_id' = next_request_id + 1 /\ Server!Goto(c, "enqueue")
      /\ UNCHANGED <<Server!ring, served>>
  BY DEF Server!Issue
<1>2. /\ server_pc'[c] = "enqueue"
      /\ \A u \in Server!Threads : u # c => server_pc'[u] = server_pc[u]
  BY <1>1, ServerMoved, ServerThreads DEF ServerPC
<1>3. req'[c] = next_request_id /\ \A t \in Clients \cup Workers : t # c => req'[t] = req[t]
  BY <1>1, ServerTypes, ServerThreads
<1>4. /\ Server!Issued' = Server!Issued \cup {next_request_id}
      /\ next_request_id \notin Server!Issued /\ next_request_id # -1
      /\ -1 \notin Server!Issued
  BY <1>1, ServerTypes, ServerTotal DEF Server!Issued
<1>5. length' = length /\ Server!Contents' = Server!Contents
  BY <1>1, QueueKept
<1>6. ServerIds'
  BY <1>2, <1>3, <1>4, <1>5, ServerThreads DEF ServerIds
<1>7. ASSUME NEW id \in Server!Issued PROVE Server!Places(id)' = Server!Places(id)
  <2>1. id # next_request_id
    BY <1>4
  <2>2. \A d \in Clients : server_pc'[d] = "enqueue" /\ req'[d] = id
                              <=> server_pc[d] = "enqueue" /\ req[d] = id
    BY <1>1, <1>2, <1>3, <2>1, ServerThreads
  <2>3. \A w \in Workers : server_pc'[w] = "process" /\ req'[w] = id
                              <=> server_pc[w] = "process" /\ req[w] = id
    BY <1>2, <1>3, ServerThreads
  <2> QED BY <1>1, <1>5, <2>2, <2>3, SamePlaces
<1>8. ASSUME NEW id, id = next_request_id PROVE Server!Places(id)' = {<<"client", c>>}
  <2>1. id \notin served
    BY <1>4, <1>8 DEF Server!TypeOK
  <2>2. \A k \in 1 .. length : Server!Contents[k] # id
    BY <1>4, <1>8 DEF ServerIds
  <2>3. \A w \in Workers : ~(server_pc'[w] = "process" /\ req'[w] = id)
    BY <1>2, <1>3, <1>4, <1>8, ServerThreads DEF ServerIds
  <2>4. \A d \in Clients : server_pc'[d] = "enqueue" /\ req'[d] = id <=> d = c
    BY <1>2, <1>3, <1>4, <1>8, ServerThreads DEF ServerIds
  <2>5. \A y \in Server!Places(id)' : y = <<"client", c>>
    BY <1>1, <1>5, <2>1, <2>2, <2>3, <2>4, PlacesNext
  <2>6. <<"client", c>> \in Server!Places(id)'
    BY <2>4, PlacesNext
  <2> QED BY <2>5, <2>6
<1>9. Server!OnePlace'
  <2>1. ASSUME NEW id \in Server!Issued' PROVE \E p : Server!Places(id)' = {p}
    BY <1>4, <1>7, <1>8 DEF Server!OnePlace
  <2> QED BY <2>1 DEF Server!OnePlace
<1> QED BY <1>6, <1>9

LEMMA ClientEnqueueKept ==
  ASSUME ServerInv, NEW c \in Clients, Server!ClientEnqueue(c)
  PROVE  ServerIds' /\ Server!OnePlace'
<1> USE DEF ServerInv
<1>1. /\ server_pc[c] = "enqueue" /\ Server!Enqueue(c, req[c])
      /\ req' = [req EXCEPT ![c] = 0]
      /\ Server!Goto(c, "issue") /\ UNCHANGED <<next_request_id, served>>
  BY DEF Server!ClientEnqueue
<1>2. /\ server_pc'[c] = "issue"
      /\ \A u \in Server!Threads : u # c => server_pc'[u] = server_pc[u]
  BY <1>1, ServerMoved, ServerThreads DEF ServerPC
<1>3. \A t \in Clients \cup Workers : t # c => req'[t] = req[t]
  BY <1>1, ServerTypes, ServerThreads
<1>4. Server!Issued' = Server!Issued /\ req[c] \in Server!Issued
  BY <1>1 DEF Server!Issued, ServerIds
<1>5. /\ length \in Nat /\ length' = length + 1
      /\ \A k \in 1 .. length' :
           Server!Contents'[k] = IF k <= length THEN Server!Contents[k] ELSE req[c]
  <2>1. req[c] \in ServerValues
    BY ServerTypes, ServerThreads
  <2> QED BY <1>1, <2>1, QueuePut, QueueType
<1>6. ServerIds'
  BY <1>2, <1>3, <1>4, <1>5, ServerThreads DEF ServerIds
<1>7. ASSUME NEW id \in Server!Issued, id # req[c]
      PROVE  Server!Places(id)' = Server!Places(id)
  <2>1. \A d \in Clients : server_pc'[d] = "enqueue" /\ req'[d] = id
                              <=> server_pc[d] = "enqueue" /\ req[d] = id
    BY <1>2, <1>3, <1>7, ServerThreads
  <2>2. \A w \in Workers : server_pc'[w] = "process" /\ req'[w] = id
                              <=> server_pc[w] = "process" /\ req[w] = id
    BY <1>2, <1>3, ServerThreads
  <2>3. \A k : k \in 1 .. length' /\ Server!Contents'[k] = id
                 <=> k \in 1 .. length /\ Server!Contents[k] = id
    BY <1>5, <1>7
  <2> QED BY <1>1, <2>1, <2>2, <2>3, SamePlaces
<1>8. ASSUME NEW id, id = req[c] PROVE \E p : Server!Places(id)' = {p}
  <2>1. Server!Places(id) = {<<"client", c>>}
    <3>1. <<"client", c>> \in Server!Places(id)
      BY <1>1, <1>8, PlacesNow
    <3> QED BY <1>4, <1>8, <3>1 DEF Server!OnePlace
  <2>2. \A d \in Clients : ~(server_pc'[d] = "enqueue" /\ req'[d] = id)
    <3>1. ASSUME NEW d \in Clients, server_pc[d] = "enqueue", req[d] = id PROVE d = c
      <4>1. <<"client", d>> \in Server!Places(id)
        BY <3>1, PlacesNow
      <4> QED BY <2>1, <4>1
    <3> QED BY <1>2, <1>3, <3>1, ServerThreads
  <2>3. \A w \in Workers : ~(server_pc'[w] = "process" /\ req'[w] = id)
    <3>1. ASSUME NEW w \in Workers, server_pc[w] = "process", req[w] = id PROVE FALSE
      <4>1. <<"worker", w>> \in Server!Places(id)
        BY <3>1, PlacesNow
      <4> QED BY <2>1, <4>1
    <3> QED BY <1>2, <1>3, <3>1, ServerThreads
  <2>4. id \notin served'
    BY <1>1, <2>1, PlacesNow
  <2>5. \A k : k \in 1 .. length' /\ Server!Contents'[k] = id <=> k = length + 1
    <3>1. \A k \in 1 .. length : Server!Contents[k] # id
      BY <2>1, PlacesNow
    <3> QED BY <1>5, <1>8, <3>1
  <2>6. \A y \in Server!Places(id)' : y = <<"queue", length + 1>>
    BY <2>2, <2>3, <2>4, <2>5, PlacesNext
  <2>7. <<"queue", length + 1>> \in Server!Places(id)'
    BY <2>5, PlacesNext
  <2> QED BY <2>6, <2>7
<1>9. Server!OnePlace'
  <2>1. ASSUME NEW id \in Server!Issued' PROVE \E p : Server!Places(id)' = {p}
    BY <1>4, <1>7, <1>8 DEF Server!OnePlace
  <2> QED BY <2>1 DEF Server!OnePlace
<1> QED BY <1>6, <1>9

LEMMA ShutdownKept ==
  ASSUME ServerInv, Server!Shutdown
  PROVE  ServerIds' /\ Server!OnePlace'
<1> USE DEF ServerInv
<1>1. Server!Enqueue(Main, -1) /\ UNCHANGED <<server_pc, next_request_id, req, served>>
  BY DEF Server!Shutdown, Server!SHUTDOWN
<1>2. Server!Issued' = Server!Issued /\ -1 \notin Server!Issued
  BY <1>1 DEF Server!Issued
<1>3. /\ length \in Nat /\ length' = length + 1
      /\ \A k \in 1 .. length' :
           Server!Contents'[k] = IF k <= length THEN Server!Contents[k] ELSE -1
  <2>1. -1 \in ServerValues
    BY DEF ServerValues
  <2> QED BY <1>1, <2>1, QueuePut, QueueType
<1>4. ServerIds'
  BY <1>1, <1>2, <1>3 DEF ServerIds
<1>5. ASSUME NEW id \in Server!Issued PROVE Server!Places(id)' = Server!Places(id)
  <2>1. \A k : k \in 1 .. length' /\ Server!Contents'[k] = id
                 <=> k \in 1 .. length /\ Server!Contents[k] = id
    BY <1>2, <1>3
  <2> QED BY <1>1, <2>1, SamePlaces
<1> QED BY <1>2, <1>4, <1>5 DEF Server!OnePlace

LEMMA WorkerDequeueKept ==
  ASSUME ServerInv, NEW w \in Workers, NEW v \in ServerValues,
         server_pc[w] = "dequeue", Server!Dequeue(w, v), req' = [req EXCEPT ![w] = v],
         Server!Goto(w, "process"), UNCHANGED <<next_request_id, sent, served>>
  PROVE  ServerIds' /\ Server!OnePlace'
<1> USE DEF ServerInv
<1>1. /\ server_pc'[w] = "process"
      /\ \A u \in Server!Threads : u # w => server_pc'[u] = server_pc[u]
  BY ServerMoved, ServerThreads DEF ServerPC
<1>2. req'[w] = v /\ \A t \in Clients \cup Workers : t # w => req'[t] = req[t]
  BY ServerTypes, ServerThreads
<1>3. /\ length \in Nat /\ length > 0 /\ length' = length - 1 /\ v = Server!Contents[1]
      /\ \A k \in 1 .. length' : Server!Contents'[k] = Server!Contents[k + 1]
  BY QueueGet, QueueType
<1>4. Server!Issued' = Server!Issued
  BY DEF Server!Issued
<1>5. ServerIds'
  <2>1. \A k \in 1 .. length' : Server!Contents'[k] \in Server!Issued \cup {-1}
    BY <1>3 DEF ServerIds
  <2>2. v \in Server!Issued \cup {-1}
    BY <1>3 DEF ServerIds
  <2> QED BY <1>1, <1>2, <1>4, <2>1, <2>2, ServerThreads DEF ServerIds
<1>6. ASSUME NEW id
      PROVE  /\ \A d \in Clients : server_pc'[d] = "enqueue" /\ req'[d] = id
                                     <=> server_pc[d] = "enqueue" /\ req[d] = id
             /\ \A u \in Workers : server_pc'[u] = "process" /\ req'[u] = id
                    <=> (server_pc[u] = "process" /\ req[u] = id) \/ (u = w /\ v = id)
             /\ \A k : k \in 1 .. length' /\ Server!Contents'[k] = id
                         <=> k \in 1 .. length - 1 /\ Server!Contents[k + 1] = id
  BY <1>1, <1>2, <1>3, ServerThreads
<1>7. ASSUME NEW id \in Server!Issued, id = v PROVE \E p : Server!Places(id)' = {p}
  <2>1. Server!Places(id) = {<<"queue", 1>>}
    <3>1. <<"queue", 1>> \in Server!Places(id)
      BY <1>3, <1>7, PlacesNow
    <3> QED BY <3>1 DEF Server!OnePlace
  <2>2. \A y \in Server!Places(id)' : y = <<"worker", w>>
    <3>1. \A k \in 1 .. length - 1 : Server!Contents[k + 1] # id
      <4> TAKE k \in 1 .. length - 1
      <4>1. k + 1 \in 1 .. length /\ k + 1 # 1
        BY <1>3
      <4>2. <<"queue", k + 1>> \notin Server!Places(id)
        BY <2>1, <4>1
      <4> QED BY <4>1, <4>2, PlacesNow
    <3>2. \A k : ~(k \in 1 .. length' /\ Server!Contents'[k] = id)
      BY <1>6, <3>1
    <3>3. ASSUME NEW u \in Workers, server_pc[u] = "process", req[u] = id PROVE FALSE
      <4>1. <<"worker", u>> \in Server!Places(id)
        BY <3>3, PlacesNow
      <4> QED BY <2>1, <4>1
    <3>4. ASSUME NEW d \in Clients, server_pc[d] = "enqueue", req[d] = id PROVE FALSE
      <4>1. <<"client", d>> \in Server!Places(id)
        BY <3>4, PlacesNow
      <4> QED BY <2>1, <4>1
    <3>5. ASSUME id \in served PROVE FALSE
      <4>1. <<"processed", id>> \in Server!Places(id)
        BY <3>5, PlacesNow
      <4> QED BY <2>1, <4>1
    <3> QED BY <1>6, <1>7, <3>2, <3>3, <3>4, <3>5, PlacesNext
  <2>3. <<"worker", w>> \in Server!Places(id)'
    BY <1>1, <1>2, <1>7, PlacesNext
  <2> QED BY <2>2, <2>3
<1>8. ASSUME NEW id \in Server!Issued, id # v, NEW k \in 1 .. length, Server!Contents[k] = id
      PROVE  \E p : Server!Places(id)' = {p}
  <2>1. Server!Places(id) = {<<"queue", k>>}
    <3>1. <<"queue", k>> \in Server!Places(id)
      BY <1>8, PlacesNow
    <3> QED BY <3>1 DEF Server!OnePlace
  <2>2. k # 1 /\ k - 1 \in 1 .. length - 1 /\ k - 1 + 1 = k
    BY <1>3, <1>8
  <2>3. \A m : m \in 1 .. length' /\ Server!Contents'[m] = id <=> m = k - 1
    <3>1. ASSUME NEW n \in 1 .. length, Server!Contents[n] = id PROVE n = k
      <4>1. <<"queue", n>> \in Server!Places(id)
        BY <3>1, PlacesNow
      <4> QED BY <2>1, <4>1
    <3> QED BY <1>3, <1>6, <1>8, <2>2, <3>1
  <2>4. /\ \A u \in Workers : ~(server_pc[u] = "process" /\ req[u] = id)
        /\ \A d \in Clients : ~(server_pc[d] = "enqueue" /\ req[d] = id)
        /\ id \notin served
    <3>1. ASSUME NEW u \in Workers, server_pc[u] = "process", req[u] = id PROVE FALSE
      <4>1. <<"worker", u>> \in Server!Places(id)
        BY <3>1, PlacesNow
      <4> QED BY <2>1, <4>1
    <3>2. ASSUME NEW d \in Clients, server_pc[d] = "enqueue", req[d] = id PROVE FALSE
      <4>1. <<"client", d>> \in Server!Places(id)
        BY <3>2, PlacesNow
      <4> QED BY <2>1, <4>1
    <3>3. ASSUME id \in served PROVE FALSE
      <4>1. <<"processed", id>> \in Server!Places(id)
        BY <3>3, PlacesNow
      <4> QED BY <2>1, <4>1
    <3> QED BY <3>1, <3>2, <3>3
  <2>5. \A y \in Server!Places(id)' : y = <<"queue", k - 1>>
    BY <1>6, <1>8, <2>3, <2>4, PlacesNext
  <2>6. <<"queue", k - 1>> \in Server!Places(id)'
    BY <2>3, PlacesNext
  <2> QED BY <2>5, <2>6
<1>9. ASSUME NEW id \in Server!Issued, id # v, \A k \in 1 .. length : Server!Contents[k] # id
      PROVE  \E p : Server!Places(id)' = {p}
  <2>1. \A k : k \in 1 .. length' /\ Server!Contents'[k] = id
                 <=> k \in 1 .. length /\ Server!Contents[k] = id
    BY <1>3, <1>9
  <2>2. Server!Places(id)' = Server!Places(id)
    BY <1>6, <1>9, <2>1, SamePlaces
  <2> QED BY <2>2 DEF Server!OnePlace
<1>10. Server!OnePlace'
  <2>1. ASSUME NEW id \in Server!Issued' PROVE \E p : Server!Places(id)' = {p}
    BY <1>4, <1>7, <1>8, <1>9
  <2> QED BY <2>1 DEF Server!OnePlace
<1> QED BY <1>5, <1>10

LEMMA ProcessKept ==
  ASSUME ServerInv, NEW w \in Workers, Server!Process(w)
  PROVE  ServerIds' /\ Server!OnePlace'
<1> USE DEF ServerInv
<1>1. /\ server_pc[w] = "process" /\ req[w] # -1 /\ served' = served \cup {req[w]}
      /\ req' = [req EXCEPT ![w] = 0] /\ Server!Goto(w, "dequeue")
      /\ UNCHANGED <<Server!ring, next_request_id>>
  BY DEF Server!Process, Server!SHUTDOWN
<1>2. /\ server_pc'[w] = "dequeue"
      /\ \A u \in Server!Threads : u # w => server_pc'[u] = server_pc[u]
  BY <1>1, ServerMoved, ServerThreads DEF ServerPC
<1>3. \A t \in Clients \cup Workers : t # w => req'[t] = req[t]
  BY <1>1, ServerTypes, ServerThreads
<1>4. Server!Issued' = Server!Issued /\ req[w] \in Server!Issued
  BY <1>1 DEF Server!Issued, ServerIds
<1>5. length' = length /\ Server!Contents' = Server!Contents
  BY <1>1, QueueKept
<1>6. ServerIds'
  BY <1>2, <1>3, <1>4, <1>5, ServerThreads DEF ServerIds
<1>7. ASSUME NEW id
      PROVE  /\ \A d \in Clients : server_pc'[d] = "enqueue" /\ req'[d] = id
                                     <=> server_pc[d] = "enqueue" /\ req[d] = id
             /\ \A u \in Workers : server_pc'[u] = "process" /\ req'[u] = id
                                     <=> u # w /\ server_pc[u] = "process" /\ req[u] = id
  BY <1>2, <1>3, ServerThreads
<1>8. ASSUME NEW id \in Server!Issued, id # req[w] PROVE Server!Places(id)' = Server!Places(id)
  BY <1>1, <1>5, <1>7, <1>8, SamePlaces
<1>9. ASSUME NEW id, id = req[w] PROVE \E p : Server!Places(id)' = {p}
  <2>1. Server!Places(id) = {<<"worker", w>>}
    <3>1. <<"worker", w>> \in Server!Places(id)
      BY <1>1, <1>9, PlacesNow
    <3> QED BY <1>4, <1>9, <3>1 DEF Server!OnePlace
  <2>2. /\ \A d \in Clients : ~(server_pc[d] = "enqueue" /\ req[d] = id)
        /\ \A u \in Workers : server_pc[u] = "process" /\ req[u] = id => u = w
        /\ \A k \in 1 .. length : Server!Contents[k] # id
    <3>1. ASSUME NEW u \in Workers, server_pc[u] = "process", req[u] = id PROVE u = w
      <4>1. <<"worker", u>> \in Server!Places(id)
        BY <3>1, PlacesNow
      <4> QED BY <2>1, <4>1
    <3>2. \A k \in 1 .. length : Server!Contents[k] # id
      BY <2>1, PlacesNow
    <3>3. ASSUME NEW d \in Clients, server_pc[d] = "enqueue", req[d] = id PROVE FALSE
      <4>1. <<"client", d>> \in Server!Places(id)
        BY <3>3, PlacesNow
      <4> QED BY <2>1, <4>1
    <3> QED BY <3>1, <3>2, <3>3
  <2>3. \A y \in Server!Places(id)' : y = <<"processed", id>>
    BY <1>5, <1>7, <2>2, PlacesNext
  <2>4. <<"processed", id>> \in Server!Places(id)'
    BY <1>1, <1>9, PlacesNext
  <2> QED BY <2>3, <2>4
<1>10. Server!OnePlace'
  <2>1. ASSUME NEW id \in Server!Issued' PROVE \E p : Server!Places(id)' = {p}
    BY <1>4, <1>8, <1>9 DEF Server!OnePlace
  <2> QED BY <2>1 DEF Server!OnePlace
<1> QED BY <1>6, <1>10
-----------------------------------------------------------------------------
(* The order of the shutdown requests.                                     *)

LEMMA QuietEnds ==
  ASSUME ServerInv, UNCHANGED <<length, Server!Contents>>,
         \A c \in Clients : server_pc[c] = "exited" => server_pc'[c] = "exited",
         server_pc[Main] # "join_clients" => server_pc'[Main] # "join_clients",
         server_pc'[Main] # "join_clients" =>
           server_pc[Main] # "join_clients" \/ \A c \in Clients : server_pc[c] = "exited",
         \A w \in Workers : Leaving(w)' => Leaving(w)
  PROVE  ServerEnds'
BY DEF ServerInv, ServerEnds

LEMMA ClientEnqueueEnds ==
  ASSUME ServerInv, NEW c \in Clients, Server!ClientEnqueue(c)
  PROVE  ServerEnds'
<1> USE DEF ServerInv
<1>1. /\ server_pc[c] = "enqueue" /\ Server!Enqueue(c, req[c])
      /\ req' = [req EXCEPT ![c] = 0] /\ Server!Goto(c, "issue")
  BY DEF Server!ClientEnqueue
<1>2. /\ server_pc'[c] = "issue"
      /\ \A u \in Server!Threads : u # c => server_pc'[u] = server_pc[u]
  BY <1>1, ServerMoved, ServerThreads DEF ServerPC
<1>3. \A w \in Workers : req'[w] = req[w]
  BY <1>1, ServerTypes, ServerThreads
<1>4. req[c] # -1
  BY <1>1 DEF ServerIds, Server!Issued
<1>5. /\ length \in Nat /\ length' = length + 1
      /\ \A k \in 1 .. length' :
           Server!Contents'[k] = IF k <= length THEN Server!Contents[k] ELSE req[c]
  <2>1. req[c] \in ServerValues
    BY ServerTypes, ServerThreads
  <2> QED BY <1>1, <2>1, QueuePut, QueueType
<1>6. server_pc[Main] = "join_clients" /\ server_pc'[Main] = "join_clients"
  BY <1>1, <1>2, ServerThreads DEF ServerEnds
<1>7. \A k \in 1 .. length' : Server!Contents'[k] # -1
  BY <1>4, <1>5, <1>6 DEF ServerEnds
<1>8. \A w \in Workers : ~Leaving(w)'
  BY <1>2, <1>3, <1>6, ServerThreads DEF ServerEnds, Leaving
<1> QED BY <1>6, <1>7, <1>8 DEF ServerEnds

LEMMA ShutdownEnds ==
  ASSUME ServerInv, Server!Shutdown
  PROVE  ServerEnds'
<1> USE DEF ServerInv
<1>1. /\ server_pc[Main] = "shutdown" /\ Server!Enqueue(Main, -1)
      /\ UNCHANGED <<server_pc, req>>
  BY DEF Server!Shutdown, Server!SHUTDOWN
<1>2. /\ length \in Nat /\ length' = length + 1
      /\ \A k \in 1 .. length' :
           Server!Contents'[k] = IF k <= length THEN Server!Contents[k] ELSE -1
  <2>1. -1 \in ServerValues
    BY DEF ServerValues
  <2> QED BY <1>1, <2>1, QueuePut, QueueType
<1>3. \A k, m \in 1 .. length' :
        k < m /\ Server!Contents'[k] = -1 => Server!Contents'[m] = -1
  BY <1>2 DEF ServerEnds
<1>4. ASSUME NEW w \in Workers, Leaving(w)'
      PROVE  \A k \in 1 .. length' : Server!Contents'[k] = -1
  BY <1>1, <1>2, <1>4 DEF ServerEnds, Leaving
<1> QED BY <1>1, <1>3, <1>4 DEF ServerEnds

LEMMA WorkerDequeueEnds ==
  ASSUME ServerInv, NEW w \in Workers, NEW v \in ServerValues,
         server_pc[w] = "dequeue", Server!Dequeue(w, v), req' = [req EXCEPT ![w] = v],
         Server!Goto(w, "process"), UNCHANGED <<next_request_id, sent, served>>
  PROVE  ServerEnds'
<1> USE DEF ServerInv
<1>1. /\ server_pc'[w] = "process"
      /\ \A u \in Server!Threads : u # w => server_pc'[u] = server_pc[u]
  BY ServerMoved, ServerThreads DEF ServerPC
<1>2. req'[w] = v /\ \A u \in Workers : u # w => req'[u] = req[u]
  BY ServerTypes, ServerThreads
<1>3. /\ length \in Nat /\ length > 0 /\ length' = length - 1 /\ v = Server!Contents[1]
      /\ \A k \in 1 .. length' : Server!Contents'[k] = Server!Contents[k + 1]
  BY QueueGet, QueueType
<1>4. \A k \in 1 .. length' : k + 1 \in 1 .. length /\ 1 < k + 1
  BY <1>3
<1>5. \A k \in 1 .. length' :
        Server!Contents'[k] = -1 => server_pc'[Main] # "join_clients"
  BY <1>1, <1>3, <1>4, ServerThreads DEF ServerEnds
<1>6. ASSUME NEW k \in 1 .. length', NEW m \in 1 .. length', k < m, Server!Contents'[k] = -1
      PROVE  Server!Contents'[m] = -1
  <2>1. k + 1 \in 1 .. length /\ m + 1 \in 1 .. length /\ k + 1 < m + 1
    BY <1>3, <1>4, <1>6
  <2> QED BY <1>3, <1>6, <2>1 DEF ServerEnds
<1>7. ASSUME NEW u \in Workers, Leaving(u)'
      PROVE  /\ server_pc'[Main] # "join_clients"
             /\ \A k \in 1 .. length' : Server!Contents'[k] = -1
  <2>1. CASE u = w
    <3>1. v = -1 /\ 1 \in 1 .. length
      BY <1>1, <1>2, <1>3, <1>7, <2>1 DEF Leaving
    <3>2. server_pc'[Main] # "join_clients"
      BY <1>1, <1>3, <3>1, ServerThreads DEF ServerEnds
    <3>3. \A k \in 1 .. length' : Server!Contents[k + 1] = -1
      BY <1>3, <1>4, <3>1 DEF ServerEnds
    <3> QED BY <1>3, <3>2, <3>3
  <2>2. CASE u # w
    <3>1. Leaving(u)
      BY <1>1, <1>2, <1>7, <2>2, ServerThreads DEF Leaving
    <3> QED BY <1>1, <1>3, <1>4, <3>1, ServerThreads DEF ServerEnds
  <2> QED BY <2>1, <2>2
<1>8. server_pc'[Main] # "join_clients" => \A c \in Clients : server_pc'[c] = "exited"
  BY <1>1, ServerThreads DEF ServerEnds
<1> QED BY <1>5, <1>6, <1>7, <1>8 DEF ServerEnds
-----------------------------------------------------------------------------
(* Wake-ups.                                                               *)

LEMMA CountThreads ==
  ASSUME NEW S, NEW T, S \subseteq T, T \subseteq Server!Threads
  PROVE  /\ IsFiniteSet(S) /\ Cardinality(S) \in Nat /\ Cardinality(T) \in Nat
         /\ Cardinality(S) <= Cardinality(T)
<1>1. IsFiniteSet(Server!Threads)
  <2>1. IsFiniteSet({Main})
    BY FS_Singleton
  <2> QED BY <2>1, ServerConstants, FS_Union DEF Server!Threads
<1>2. IsFiniteSet(T)
  BY <1>1, FS_Subset
<1> QED BY <1>2, FS_Subset, FS_CardinalityType

LEMMA OneLess ==
  ASSUME NEW S, NEW x, IsFiniteSet(S)
  PROVE  Cardinality(S \ {x}) \in Nat /\ Cardinality(S \ {x}) >= Cardinality(S) - 1
<1>1. Cardinality(S) \in Nat
  BY FS_CardinalityType
<1>2. Cardinality(S \ {x}) = IF x \in S THEN Cardinality(S) - 1 ELSE Cardinality(S)
  BY FS_RemoveElement
<1>3. Cardinality(S \ {x}) \in Nat
  BY FS_RemoveElement, FS_CardinalityType
<1> QED BY <1>1, <1>2, <1>3

LEMMA AwakeType ==
  /\ Server!AwakeConsumers \subseteq Server!Threads
  /\ Server!AwakeConsumers' \subseteq Server!Threads
  /\ WillPut \subseteq Server!Threads /\ WillPut' \subseteq Server!Threads
BY DEF Server!AwakeConsumers, WillPut, Server!Threads, Server!Producers

\* What a step leaves to the consumers and to the producers.
ConsumersAwake == empty # {} => length <= Cardinality(Server!AwakeConsumers)
ProducersAwake == full # {} => QUEUE_SIZE - length <= Cardinality(WillPut)

LEMMA MoreConsumers ==
  ASSUME ServerInv, length' \in Nat, length' <= length,
         Server!AwakeConsumers \subseteq Server!AwakeConsumers', empty' # {} => empty # {}
  PROVE  ConsumersAwake'
<1>1. /\ Cardinality(Server!AwakeConsumers) \in Nat /\ Cardinality(Server!AwakeConsumers') \in Nat
      /\ Cardinality(Server!AwakeConsumers) <= Cardinality(Server!AwakeConsumers')
  BY AwakeType, CountThreads
<1>2. length \in Nat
  BY QueueType DEF ServerInv
<1> QED BY <1>1, <1>2, ServerFiniteSets DEF ServerInv, ServerWakeups, ConsumersAwake

LEMMA MoreProducers ==
  ASSUME ServerInv, length' \in Nat, length' >= length,
         WillPut \subseteq WillPut', full' # {} => full # {}
  PROVE  ProducersAwake'
<1>1. /\ Cardinality(WillPut) \in Nat /\ Cardinality(WillPut') \in Nat
      /\ Cardinality(WillPut) <= Cardinality(WillPut')
  BY AwakeType, CountThreads
<1>2. length \in Nat /\ QUEUE_SIZE \in Nat
  BY QueueType, ServerConstants DEF ServerInv
<1> QED BY <1>1, <1>2 DEF ServerInv, ServerWakeups, ProducersAwake

\* enqueue: one more request, and one worker more awake for it.
LEMMA EnqueueConsumers ==
  ASSUME ServerInv, length' = length + 1, Server!Signal(empty, empty'),
         \A w \in Workers : server_pc'[w] = server_pc[w] /\ req'[w] = req[w]
  PROVE  ConsumersAwake'
<1> USE DEF ServerInv
<1> SUFFICES ASSUME empty' # {} PROVE length' <= Cardinality(Server!AwakeConsumers')
  BY ServerFiniteSets DEF ConsumersAwake
<1>1. PICK t \in empty : empty' = empty \ {t}
  BY Signalled
<1>2. t \in Workers /\ server_pc[t] = "dequeue" /\ t \notin Server!AwakeConsumers
  BY ServerTypes DEF ServerPlaces, Server!AwakeConsumers
<1>3. Server!AwakeConsumers' = Server!AwakeConsumers \cup {t}
  BY <1>1, <1>2, ServerTypes DEF Server!AwakeConsumers, Server!SHUTDOWN
<1>4. IsFiniteSet(Server!AwakeConsumers) /\ Cardinality(Server!AwakeConsumers) \in Nat
  BY AwakeType, CountThreads
<1>5. Cardinality(Server!AwakeConsumers') = Cardinality(Server!AwakeConsumers) + 1
  BY <1>2, <1>3, <1>4, FS_AddElement
<1>6. length \in Nat /\ length <= Cardinality(Server!AwakeConsumers)
  BY <1>1, QueueType DEF ServerWakeups
<1> QED BY <1>4, <1>5, <1>6

\* enqueue: one free slot less, and at most one producer less.
LEMMA EnqueueProducers ==
  ASSUME ServerInv, length' = length + 1, full' = full, NEW p,
         WillPut \ {p} \subseteq WillPut'
  PROVE  ProducersAwake'
<1> USE DEF ServerInv
<1>1. IsFiniteSet(WillPut) /\ Cardinality(WillPut) \in Nat
  BY AwakeType, CountThreads
<1>2. Cardinality(WillPut \ {p}) \in Nat /\ Cardinality(WillPut \ {p}) >= Cardinality(WillPut) - 1
  BY <1>1, OneLess
<1>3. Cardinality(WillPut') \in Nat /\ Cardinality(WillPut \ {p}) <= Cardinality(WillPut')
  BY AwakeType, CountThreads
<1>4. length \in Nat /\ QUEUE_SIZE \in Nat
  BY QueueType, ServerConstants
<1> QED BY <1>1, <1>2, <1>3, <1>4 DEF ServerWakeups, ProducersAwake

\* dequeue: one request less, and at most one worker less.
LEMMA DequeueConsumers ==
  ASSUME ServerInv, length' = length - 1, length > 0, empty' = empty, NEW w,
         Server!AwakeConsumers \ {w} \subseteq Server!AwakeConsumers'
  PROVE  ConsumersAwake'
<1> USE DEF ServerInv
<1>1. IsFiniteSet(Server!AwakeConsumers) /\ Cardinality(Server!AwakeConsumers) \in Nat
  BY AwakeType, CountThreads
<1>2. /\ Cardinality(Server!AwakeConsumers \ {w}) \in Nat
      /\ Cardinality(Server!AwakeConsumers \ {w}) >= Cardinality(Server!AwakeConsumers) - 1
  BY <1>1, OneLess
<1>3. /\ Cardinality(Server!AwakeConsumers') \in Nat
      /\ Cardinality(Server!AwakeConsumers \ {w}) <= Cardinality(Server!AwakeConsumers')
  BY AwakeType, CountThreads
<1>4. length \in Nat
  BY QueueType
<1> QED BY <1>1, <1>2, <1>3, <1>4, ServerFiniteSets DEF ServerWakeups, ConsumersAwake

\* dequeue: one free slot more, and one producer more awake for it.
LEMMA DequeueProducers ==
  ASSUME ServerInv, length' = length - 1, length > 0, Server!Signal(full, full'),
         \A p \in Server!Producers : server_pc'[p] = server_pc[p], UNCHANGED sent
  PROVE  ProducersAwake'
<1> USE DEF ServerInv
<1> SUFFICES ASSUME full' # {} PROVE QUEUE_SIZE - length' <= Cardinality(WillPut')
  BY DEF ProducersAwake
<1>1. PICK t \in full : full' = full \ {t}
  BY Signalled
<1>2. t \in Server!Producers /\ Putting(t) /\ t \notin WillPut
  BY ServerTypes DEF ServerPlaces, WillPut
<1>3. \A p \in Server!Producers : Putting(p)' <=> Putting(p)
  BY ServerThreads DEF Putting
<1>4. WillPut' = WillPut \cup {t}
  BY <1>1, <1>2, <1>3 DEF WillPut, Server!Producers
<1>5. IsFiniteSet(WillPut) /\ Cardinality(WillPut) \in Nat
  BY AwakeType, CountThreads
<1>6. Cardinality(WillPut') = Cardinality(WillPut) + 1
  BY <1>2, <1>4, <1>5, FS_AddElement
<1>7. length \in Nat /\ QUEUE_SIZE \in Nat /\ QUEUE_SIZE - length <= Cardinality(WillPut)
  BY <1>1, QueueType, ServerConstants DEF ServerWakeups
<1> QED BY <1>5, <1>6, <1>7
-----------------------------------------------------------------------------
(* Every step of the request server keeps its invariant.                   *)

LEMMA ServerAssembled ==
  ASSUME ServerShape', ServerIds', Server!OnePlace', ServerEnds', ConsumersAwake', ProducersAwake'
  PROVE  ServerInv'
<1>1. ServerWakeups'
  BY ServerFiniteSets DEF ServerWakeups, ConsumersAwake, ProducersAwake
<1> QED BY <1>1 DEF ServerInv, ServerShape

\* The steps that change only the place of a thread.
LEMMA MoveInv ==
  ASSUME ServerInv, NEW t \in Server!Threads, NEW l \in ServerPC, Server!Goto(t, l),
         UNCHANGED <<Server!ring, full, empty, next_request_id, req, sent, served>>,
         t \in Clients => server_pc[t] = "issue" /\ l = "exited",
         t \in Workers => server_pc[t] = "process" /\ req[t] = -1 /\ l = "exited",
         t = Main =>
           /\ l \in {"shutdown", "join_workers", "exited"}
           /\ ~Putting(Main)
           /\ server_pc[Main] = "join_clients" => \A c \in Clients : server_pc[c] = "exited"
  PROVE  ServerInv'
<1> USE DEF ServerInv
<1>1. /\ server_pc'[t] = l
      /\ \A u \in Server!Threads : u # t => server_pc'[u] = server_pc[u]
  BY ServerMoved
<1>2. /\ t \in Clients \/ t \in Workers \/ t = Main
      /\ server_pc[t] # "enqueue" /\ server_pc[t] # "dequeue" /\ l # "enqueue"
  BY DEF ServerPlaces, Server!Threads
<1>3. t \notin full /\ t \notin empty
  BY <1>2, ServerTypes, ServerThreads DEF ServerPlaces, Putting
<1>4. UNCHANGED <<length, Server!Contents>>
  BY QueueKept
<1>5. ServerShape'
  BY <1>2, <1>3, MoveShape
<1>6. ServerIds' /\ Server!OnePlace'
  <2>1. \A c \in Clients : server_pc'[c] = "enqueue" <=> server_pc[c] = "enqueue"
    BY <1>1, <1>2, ServerThreads
  <2>2. \A w \in Workers : server_pc'[w] = "process" => server_pc[w] = "process"
    BY <1>1, ServerThreads
  <2>3. \A w \in Workers : server_pc[w] = "process" /\ req[w] # -1 => server_pc'[w] = "process"
    BY <1>1, ServerThreads
  <2> QED BY <1>4, <2>1, <2>2, <2>3, QuietKept
<1>7. ServerEnds'
  <2>1. \A c \in Clients : server_pc[c] = "exited" => server_pc'[c] = "exited"
    BY <1>1, ServerThreads
  <2>2. /\ server_pc[Main] # "join_clients" => server_pc'[Main] # "join_clients"
        /\ server_pc'[Main] # "join_clients" =>
             server_pc[Main] # "join_clients" \/ \A c \in Clients : server_pc[c] = "exited"
    BY <1>1, ServerThreads
  <2>3. \A w \in Workers : Leaving(w)' => Leaving(w)
    BY <1>1, ServerThreads DEF Leaving
  <2> QED BY <1>4, <2>1, <2>2, <2>3, QuietEnds
<1>8. length' \in Nat /\ length' = length
  BY <1>4, QueueType
<1>9. ConsumersAwake'
  <2>1. Server!AwakeConsumers \subseteq Server!AwakeConsumers'
    BY <1>1, ServerThreads DEF Server!AwakeConsumers, Server!SHUTDOWN
  <2> QED BY <1>8, <2>1, MoreConsumers
<1>10. ProducersAwake'
  <2>1. \A p \in Server!Producers : Putting(p) => Putting(p)'
    BY <1>1, <1>2, ServerThreads DEF Putting
  <2>2. WillPut \subseteq WillPut'
    BY <2>1 DEF WillPut, Server!Producers
  <2> QED BY <1>8, <2>2, MoreProducers
<1> QED BY <1>5, <1>6, <1>7, <1>9, <1>10, ServerAssembled

\* The steps that change only who is asleep.
LEMMA WaitInv ==
  ASSUME ServerInv,
         UNCHANGED <<Server!ring, server_pc, next_request_id, req, sent, served>>,
         full' \subseteq Server!Producers, \A p \in full' : Putting(p),
         empty' \subseteq Workers, \A w \in empty' : server_pc[w] = "dequeue",
         empty' \subseteq empty \/ length = 0,
         full' \subseteq full \/ length = QUEUE_SIZE
  PROVE  ServerInv'
<1> USE DEF ServerInv
<1>1. UNCHANGED <<length, Server!Contents>>
  BY QueueKept
<1>2. ServerShape'
  BY WaitShape
<1>3. ServerIds' /\ Server!OnePlace'
  BY <1>1, QuietKept
<1>4. ServerEnds'
  <2>1. \A w \in Workers : Leaving(w)' => Leaving(w)
    BY DEF Leaving
  <2> QED BY <1>1, <2>1, QuietEnds
<1>5. length' \in Nat /\ length' = length
  BY <1>1, QueueType
<1>6. ConsumersAwake'
  <2>1. CASE empty' \subseteq empty
    <3>1. Server!AwakeConsumers \subseteq Server!AwakeConsumers'
      BY <2>1 DEF Server!AwakeConsumers, Server!SHUTDOWN
    <3> QED BY <1>5, <2>1, <3>1, MoreConsumers
  <2>2. CASE length = 0
    <3>1. Cardinality(Server!AwakeConsumers') \in Nat
      BY AwakeType, CountThreads
    <3> QED BY <1>5, <2>2, <3>1, ServerFiniteSets DEF ConsumersAwake
  <2> QED BY <2>1, <2>2
<1>7. ProducersAwake'
  <2>1. CASE full' \subseteq full
    <3>1. WillPut \subseteq WillPut'
      BY <2>1 DEF WillPut, Putting, Server!Producers
    <3> QED BY <1>5, <2>1, <3>1, MoreProducers
  <2>2. CASE length = QUEUE_SIZE
    <3>1. Cardinality(WillPut') \in Nat
      BY AwakeType, CountThreads
    <3> QED BY <1>5, <2>2, <3>1, ServerConstants DEF ProducersAwake
  <2> QED BY <2>1, <2>2
<1> QED BY <1>2, <1>3, <1>4, <1>6, <1>7, ServerAssembled

LEMMA IssueInv ==
  ASSUME ServerInv, NEW c \in Clients, Server!Issue(c)
  PROVE  ServerInv'
<1> USE DEF ServerInv
<1>1. /\ server_pc[c] = "issue" /\ Server!Goto(c, "enqueue")
      /\ req' = [req EXCEPT ![c] = next_request_id]
      /\ UNCHANGED <<Server!ring, full, empty, sent, served>>
  BY DEF Server!Issue, Server!waiters
<1>2. /\ server_pc'[c] = "enqueue"
      /\ \A u \in Server!Threads : u # c => server_pc'[u] = server_pc[u]
  BY <1>1, ServerMoved, ServerThreads DEF ServerPC
<1>3. \A w \in Workers : server_pc'[w] = server_pc[w] /\ req'[w] = req[w]
  BY <1>1, <1>2, ServerTypes, ServerThreads
<1>4. UNCHANGED <<length, Server!Contents>> /\ length \in Nat
  BY <1>1, QueueKept, QueueType
<1>5. ServerEnds'
  <2>1. /\ \A d \in Clients : server_pc[d] = "exited" => server_pc'[d] = "exited"
        /\ server_pc'[Main] = server_pc[Main]
    BY <1>1, <1>2, ServerThreads
  <2>2. \A w \in Workers : Leaving(w)' => Leaving(w)
    BY <1>3 DEF Leaving
  <2> QED BY <1>4, <2>1, <2>2, QuietEnds
<1>6. ConsumersAwake'
  <2>1. Server!AwakeConsumers \subseteq Server!AwakeConsumers'
    BY <1>1, <1>3 DEF Server!AwakeConsumers, Server!SHUTDOWN
  <2> QED BY <1>1, <1>4, <2>1, MoreConsumers
<1>7. ProducersAwake'
  <2>1. \A p \in Server!Producers : Putting(p) => Putting(p)'
    BY <1>1, <1>2, ServerThreads DEF Putting
  <2>2. WillPut \subseteq WillPut'
    BY <1>1, <2>1 DEF WillPut, Server!Producers
  <2> QED BY <1>1, <1>4, <2>2, MoreProducers
<1> QED BY <1>5, <1>6, <1>7, IssueShape, IssueKept, ServerAssembled

LEMMA ClientEnqueueInv ==
  ASSUME ServerInv, NEW c \in Clients, Server!ClientEnqueue(c)
  PROVE  ServerInv'
<1> USE DEF ServerInv
<1>1. /\ Server!Enqueue(c, req[c]) /\ sent' = [sent EXCEPT ![c] = @ + 1]
      /\ req' = [req EXCEPT ![c] = 0] /\ Server!Goto(c, "issue")
  BY DEF Server!ClientEnqueue
<1>2. \A u \in Server!Threads : u # c => server_pc'[u] = server_pc[u]
  BY <1>1, ServerMoved, ServerThreads DEF ServerPC
<1>3. \A w \in Workers : server_pc'[w] = server_pc[w] /\ req'[w] = req[w]
  BY <1>1, <1>2, ServerTypes, ServerThreads
<1>4. length' = length + 1 /\ full' = full /\ Server!Signal(empty, empty')
  BY <1>1 DEF Server!Enqueue
<1>5. ConsumersAwake'
  BY <1>3, <1>4, EnqueueConsumers
<1>6. ProducersAwake'
  <2>1. sent'[Main] = sent[Main]
    BY <1>1, ServerTypes, ServerThreads
  <2>2. \A p \in Server!Producers : p # c /\ Putting(p) => Putting(p)'
    BY <1>2, <2>1, ServerThreads DEF Putting
  <2>3. WillPut \ {c} \subseteq WillPut'
    BY <1>4, <2>2 DEF WillPut, Server!Producers
  <2> QED BY <1>4, <2>3, EnqueueProducers
<1> QED BY <1>5, <1>6, ClientEnqueueShape, ClientEnqueueKept, ClientEnqueueEnds, ServerAssembled

LEMMA ShutdownInv ==
  ASSUME ServerInv, Server!Shutdown
  PROVE  ServerInv'
<1> USE DEF ServerInv
<1>1. Server!Enqueue(Main, -1) /\ UNCHANGED <<server_pc, req>>
  BY DEF Server!Shutdown, Server!SHUTDOWN
<1>2. length' = length + 1 /\ full' = full /\ Server!Signal(empty, empty')
  BY <1>1 DEF Server!Enqueue
<1>3. ConsumersAwake'
  BY <1>1, <1>2, EnqueueConsumers
<1>4. ProducersAwake'
  <2>1. \A p \in Server!Producers : p # Main /\ Putting(p) => Putting(p)'
    BY <1>1 DEF Putting
  <2>2. WillPut \ {Main} \subseteq WillPut'
    BY <1>2, <2>1 DEF WillPut, Server!Producers
  <2> QED BY <1>2, <2>2, EnqueueProducers
<1> QED BY <1>3, <1>4, ShutdownShape, ShutdownKept, ShutdownEnds, ServerAssembled

LEMMA WorkerDequeueInv ==
  ASSUME ServerInv, NEW w \in Workers, NEW v \in ServerValues,
         server_pc[w] = "dequeue", Server!Dequeue(w, v), req' = [req EXCEPT ![w] = v],
         Server!Goto(w, "process"), UNCHANGED <<next_request_id, sent, served>>
  PROVE  ServerInv'
<1> USE DEF ServerInv
<1>1. \A u \in Server!Threads : u # w => server_pc'[u] = server_pc[u]
  BY ServerMoved, ServerThreads DEF ServerPC
<1>2. \A u \in Workers : u # w => server_pc'[u] = server_pc[u] /\ req'[u] = req[u]
  BY <1>1, ServerTypes, ServerThreads
<1>3. length' = length - 1 /\ length > 0 /\ empty' = empty /\ Server!Signal(full, full')
  BY DEF Server!Dequeue
<1>4. ConsumersAwake'
  <2>1. Server!AwakeConsumers \ {w} \subseteq Server!AwakeConsumers'
    BY <1>2, <1>3 DEF Server!AwakeConsumers, Server!SHUTDOWN
  <2> QED BY <1>3, <2>1, DequeueConsumers
<1>5. ProducersAwake'
  <2>1. \A p \in Server!Producers : server_pc'[p] = server_pc[p]
    BY <1>1, ServerThreads
  <2> QED BY <1>3, <2>1, DequeueProducers
<1> QED BY <1>4, <1>5, WorkerDequeueShape, WorkerDequeueKept, WorkerDequeueEnds, ServerAssembled

LEMMA ProcessInv ==
  ASSUME ServerInv, NEW w \in Workers, Server!Process(w)
  PROVE  ServerInv'
<1> USE DEF ServerInv
<1>1. /\ server_pc[w] = "process" /\ req[w] # -1
      /\ req' = [req EXCEPT ![w] = 0] /\ Server!Goto(w, "dequeue")
      /\ UNCHANGED <<Server!ring, full, empty, next_request_id, sent>>
  BY DEF Server!Process, Server!SHUTDOWN, Server!waiters
<1>2. /\ server_pc'[w] = "dequeue"
      /\ \A u \in Server!Threads : u # w => server_pc'[u] = server_pc[u]
  BY <1>1, ServerMoved, ServerThreads DEF ServerPC
<1>3. \A u \in Workers : u # w => server_pc'[u] = server_pc[u] /\ req'[u] = req[u]
  BY <1>1, <1>2, ServerTypes, ServerThreads
<1>4. UNCHANGED <<length, Server!Contents>> /\ length \in Nat
  BY <1>1, QueueKept, QueueType
<1>5. ServerEnds'
  <2>1. /\ \A d \in Clients : server_pc'[d] = server_pc[d]
        /\ server_pc'[Main] = server_pc[Main]
    BY <1>2, ServerThreads
  <2>2. \A u \in Workers : Leaving(u)' => Leaving(u)
    BY <1>2, <1>3 DEF Leaving
  <2> QED BY <1>4, <2>1, <2>2, QuietEnds
<1>6. ConsumersAwake'
  <2>1. Server!AwakeConsumers \subseteq Server!AwakeConsumers'
    BY <1>1, <1>2, <1>3 DEF Server!AwakeConsumers, Server!SHUTDOWN
  <2> QED BY <1>1, <1>4, <2>1, MoreConsumers
<1>7. ProducersAwake'
  <2>1. \A p \in Server!Producers : Putting(p) => Putting(p)'
    BY <1>1, <1>2, ServerThreads DEF Putting
  <2>2. WillPut \subseteq WillPut'
    BY <1>1, <2>1 DEF WillPut, Server!Producers
  <2> QED BY <1>1, <1>4, <2>2, MoreProducers
<1> QED BY <1>5, <1>6, <1>7, ProcessShape, ProcessKept, ServerAssembled

LEMMA ClientInv ==
  ASSUME ServerInv, NEW c \in Clients, Server!ClientStep(c)
  PROVE  ServerInv'
<1> USE DEF ServerInv
<1>1. CASE Server!Issue(c)
  BY <1>1, IssueInv
<1>2. CASE Server!ClientEnqueueWait(c)
  <2>1. /\ server_pc[c] = "enqueue" /\ length = QUEUE_SIZE
        /\ full' = full \cup {c} /\ empty' = empty
        /\ UNCHANGED <<Server!ring, server_pc, next_request_id, req, sent, served>>
    BY <1>2 DEF Server!ClientEnqueueWait, Server!EnqueueWait
  <2>2. full' \subseteq Server!Producers /\ \A p \in full' : Putting(p)
    BY <2>1, ServerTypes, ServerThreads DEF ServerPlaces, Putting
  <2>3. empty' \subseteq Workers /\ \A w \in empty' : server_pc[w] = "dequeue"
    BY <2>1, ServerTypes DEF ServerPlaces
  <2> QED BY <2>1, <2>2, <2>3, WaitInv
<1>3. CASE Server!ClientEnqueue(c)
  BY <1>3, ClientEnqueueInv
<1>4. CASE Server!ClientReturn(c)
  <2>1. /\ server_pc[c] = "issue" /\ Server!Goto(c, "exited") /\ "exited" \in ServerPC
        /\ UNCHANGED <<Server!ring, full, empty, next_request_id, req, sent, served>>
    BY <1>4 DEF Server!ClientReturn, Server!waiters, ServerPC
  <2> QED BY <2>1, ServerThreads, MoveInv
<1> QED BY <1>1, <1>2, <1>3, <1>4 DEF Server!ClientStep

LEMMA WorkerInv ==
  ASSUME ServerInv, NEW w \in Workers, Server!WorkerStep(w)
  PROVE  ServerInv'
<1> USE DEF ServerInv
<1>1. CASE Server!WorkerDequeueWait(w)
  <2>1. /\ server_pc[w] = "dequeue" /\ length = 0
        /\ empty' = empty \cup {w} /\ full' = full
        /\ UNCHANGED <<Server!ring, server_pc, next_request_id, req, sent, served>>
    BY <1>1 DEF Server!WorkerDequeueWait, Server!DequeueWait
  <2>2. full' \subseteq Server!Producers /\ \A p \in full' : Putting(p)
    BY <2>1, ServerTypes DEF ServerPlaces
  <2>3. empty' \subseteq Workers /\ \A v \in empty' : server_pc[v] = "dequeue"
    BY <2>1, ServerTypes DEF ServerPlaces
  <2> QED BY <2>1, <2>2, <2>3, WaitInv
<1>2. CASE Server!WorkerDequeue(w)
  <2>1. /\ server_pc[w] = "dequeue" /\ Server!Goto(w, "process")
        /\ UNCHANGED <<next_request_id, sent, served>>
    BY <1>2 DEF Server!WorkerDequeue
  <2>2. PICK v \in ServerValues : Server!Dequeue(w, v) /\ req' = [req EXCEPT ![w] = v]
    BY <1>2, ServerTotal DEF Server!WorkerDequeue, ServerValues
  <2> QED BY <2>1, <2>2, WorkerDequeueInv
<1>3. CASE Server!Process(w)
  BY <1>3, ProcessInv
<1>4. CASE Server!WorkerReturn(w)
  <2>1. /\ server_pc[w] = "process" /\ req[w] = -1
        /\ Server!Goto(w, "exited") /\ "exited" \in ServerPC
        /\ UNCHANGED <<Server!ring, full, empty, next_request_id, req, sent, served>>
    BY <1>4 DEF Server!WorkerReturn, Server!waiters, Server!SHUTDOWN, ServerPC
  <2> QED BY <2>1, ServerThreads, MoveInv
<1> QED BY <1>1, <1>2, <1>3, <1>4 DEF Server!WorkerStep

LEMMA MainInv ==
  ASSUME ServerInv, Server!MainStep
  PROVE  ServerInv'
<1> USE DEF ServerInv
<1>1. CASE Server!JoinClients
  <2>1. /\ server_pc[Main] = "join_clients" /\ \A c \in Clients : server_pc[c] = "exited"
        /\ Server!Goto(Main, "shutdown") /\ "shutdown" \in ServerPC
        /\ UNCHANGED <<Server!ring, full, empty, next_request_id, req, sent, served>>
    BY <1>1 DEF Server!JoinClients, Server!waiters, ServerPC
  <2>2. ~Putting(Main)
    BY <2>1 DEF Putting
  <2> QED BY <2>1, <2>2, ServerThreads, MoveInv
<1>2. CASE Server!ShutdownWait
  <2>1. /\ server_pc[Main] = "shutdown" /\ sent[Main] < Cardinality(Workers)
        /\ length = QUEUE_SIZE /\ full' = full \cup {Main} /\ empty' = empty
        /\ UNCHANGED <<Server!ring, server_pc, next_request_id, req, sent, served>>
    BY <1>2, ServerFiniteSets DEF Server!ShutdownWait, Server!EnqueueWait
  <2>2. full' \subseteq Server!Producers /\ \A p \in full' : Putting(p)
    BY <2>1, ServerTypes, ServerThreads DEF ServerPlaces, Putting
  <2>3. empty' \subseteq Workers /\ \A w \in empty' : server_pc[w] = "dequeue"
    BY <2>1, ServerTypes DEF ServerPlaces
  <2> QED BY <2>1, <2>2, <2>3, WaitInv
<1>3. CASE Server!Shutdown
  BY <1>3, ShutdownInv
<1>4. CASE Server!ShutdownSent
  <2>1. /\ server_pc[Main] = "shutdown" /\ sent[Main] = Cardinality(Workers)
        /\ Server!Goto(Main, "join_workers") /\ "join_workers" \in ServerPC
        /\ UNCHANGED <<Server!ring, full, empty, next_request_id, req, sent, served>>
    BY <1>4, ServerFiniteSets DEF Server!ShutdownSent, Server!waiters, ServerPC
  <2>2. ~Putting(Main)
    BY <2>1, ServerConstants DEF Putting
  <2> QED BY <2>1, <2>2, ServerThreads, MoveInv
<1>5. CASE Server!JoinWorkers
  <2>1. /\ server_pc[Main] = "join_workers" /\ Server!Goto(Main, "exited")
        /\ "exited" \in ServerPC
        /\ UNCHANGED <<Server!ring, full, empty, next_request_id, req, sent, served>>
    BY <1>5 DEF Server!JoinWorkers, Server!waiters, ServerPC
  <2>2. ~Putting(Main)
    BY <2>1 DEF Putting
  <2> QED BY <2>1, <2>2, ServerThreads, MoveInv
<1> QED BY <1>1, <1>2, <1>3, <1>4, <1>5 DEF Server!MainStep

LEMMA ServerKeptInv ==
  ASSUME ServerInv, UNCHANGED server
  PROVE  ServerInv'
<1>1. /\ UNCHANGED <<Server!ring, server_pc, next_request_id, req, sent, served>>
      /\ full' = full /\ empty' = empty
  BY DEF server, Server!ring
<1>2. /\ full \subseteq Server!Producers /\ \A p \in full : Putting(p)
      /\ empty \subseteq Workers /\ \A w \in empty : server_pc[w] = "dequeue"
  BY ServerTypes DEF ServerInv, ServerPlaces
<1> QED BY <1>1, <1>2, WaitInv

LEMMA ServerNextInv ==
  ASSUME ServerInv, Server!Next
  PROVE  ServerInv'
<1> USE DEF ServerInv
<1>1. CASE \E c \in Clients : Server!ClientStep(c)
  BY <1>1, ClientInv
<1>2. CASE \E w \in Workers : Server!WorkerStep(w)
  BY <1>2, WorkerInv
<1>3. CASE Server!MainStep
  BY <1>3, MainInv
<1>4. CASE Server!Wakeup
  <2>1. /\ full' \subseteq full /\ empty' \subseteq empty
        /\ UNCHANGED <<Server!ring, server_pc, next_request_id, req, sent, served>>
    BY <1>4 DEF Server!Wakeup, Server!SpuriousWakeup
  <2>2. full' \subseteq Server!Producers /\ \A p \in full' : Putting(p)
    BY <2>1, ServerTypes DEF ServerPlaces
  <2>3. empty' \subseteq Workers /\ \A w \in empty' : server_pc[w] = "dequeue"
    BY <2>1, ServerTypes DEF ServerPlaces
  <2> QED BY <2>1, <2>2, <2>3, WaitInv
<1>5. CASE Server!Finished
  <2>1. UNCHANGED server
    BY <1>5 DEF Server!Finished, Server!vars, Server!ring, Server!waiters, server
  <2> QED BY <2>1, ServerKeptInv
<1> QED BY <1>1, <1>2, <1>3, <1>4, <1>5 DEF Server!Next
-----------------------------------------------------------------------------
(* What the invariant of the request server says of its properties.        *)

LEMMA ServerInvKept ==
  ASSUME ServerInv
  PROVE  Server!OnePlace /\ Server!NothingLeftBehind
<1>1. ASSUME NEW w \in Workers, server_pc[w] = "exited"
      PROVE  /\ \A k \in 1 .. length : Server!Contents[k] = -1
             /\ \A c \in Clients : server_pc[c] = "exited"
  BY <1>1 DEF ServerInv, ServerEnds, Leaving
<1>2. Server!NothingLeftBehind
  BY <1>1 DEF Server!NothingLeftBehind, Server!SHUTDOWN
<1> QED BY <1>2 DEF ServerInv

LEMMA ServerInvWakeup ==
  ASSUME ServerInv
  PROVE  Server!NoLostWakeup
<1> USE DEF ServerInv
<1>1. WillPut \subseteq Server!AwakeProducers
  BY ServerThreads DEF WillPut, Server!AwakeProducers, Putting
<1>2. Server!AwakeProducers \subseteq Server!Threads
  BY DEF Server!AwakeProducers, Server!Threads, Server!Producers
<1>3. /\ Cardinality(WillPut) \in Nat /\ Cardinality(Server!AwakeProducers) \in Nat
      /\ Cardinality(WillPut) <= Cardinality(Server!AwakeProducers)
  BY <1>1, <1>2, CountThreads
<1>4. length \in Nat /\ QUEUE_SIZE \in Nat
  BY QueueType, ServerConstants
<1> QED BY <1>3, <1>4, ServerFiniteSets DEF ServerWakeups, Server!NoLostWakeup

\* A step of the server appends to the queue, takes its head or leaves it alone.
LEMMA ServerFifoInit ==
  ASSUME Server!Init
  PROVE  Server!Fifo!Init
<1>1. length = 0
  BY DEF Server!Init, Server!BufferInit
<1> QED BY <1>1 DEF Server!Fifo!Init, Server!Contents

LEMMA ServerFifoStep ==
  ASSUME ServerInv, Server!Next
  PROVE  Server!Fifo!Next \/ UNCHANGED Server!Contents
<1> USE DEF ServerInv
<1>1. \A v \in ServerValues : v \in {-1} \cup 0 .. Cardinality(Clients) * REQUESTS_PER_CLIENT
  BY ServerTotal DEF ServerValues
<1>2. ASSUME NEW t, NEW v \in ServerValues, Server!Enqueue(t, v)
      PROVE  Server!Fifo!Next
  <2>1. Len(Server!Contents) < QUEUE_SIZE /\ Server!Contents' = Append(Server!Contents, v)
    BY <1>2, QueuePut, QueueType
  <2>2. Server!Fifo!Put(v)
    BY <2>1 DEF Server!Fifo!Put
  <2> QED BY <1>1, <2>2 DEF Server!Fifo!Next
<1>3. ASSUME NEW t, NEW v, Server!Dequeue(t, v)
      PROVE  Server!Fifo!Next
  <2>1. /\ Len(Server!Contents) > 0 /\ Server!Contents \in Seq(ServerValues)
        /\ Server!Contents' = Tail(Server!Contents)
    BY <1>3, QueueGet, QueueType
  <2> QED BY <2>1 DEF Server!Fifo!Next, Server!Fifo!Get
<1>4. ASSUME UNCHANGED Server!ring PROVE UNCHANGED Server!Contents
  BY <1>4, QueueKept
<1>5. CASE \E c \in Clients : Server!ClientStep(c)
  <2>1. PICK c \in Clients : Server!ClientStep(c)
    BY <1>5
  <2>2. CASE Server!ClientEnqueue(c)
    <3>1. req[c] \in ServerValues
      BY ServerTypes, ServerThreads
    <3> QED BY <1>2, <2>2, <3>1 DEF Server!ClientEnqueue
  <2>3. CASE ~Server!ClientEnqueue(c)
    BY <1>4, <2>1, <2>3 DEF Server!ClientStep, Server!Issue, Server!ClientEnqueueWait,
       Server!EnqueueWait, Server!ClientReturn
  <2> QED BY <2>2, <2>3
<1>6. CASE \E w \in Workers : Server!WorkerStep(w)
  <2>1. PICK w \in Workers : Server!WorkerStep(w)
    BY <1>6
  <2>2. CASE Server!WorkerDequeue(w)
    BY <1>3, <2>2 DEF Server!WorkerDequeue
  <2>3. CASE ~Server!WorkerDequeue(w)
    BY <1>4, <2>1, <2>3 DEF Server!WorkerStep, Server!WorkerDequeueWait, Server!DequeueWait,
       Server!Process, Server!WorkerReturn
  <2> QED BY <2>2, <2>3
<1>7. CASE Server!MainStep
  <2>1. CASE Server!Shutdown
    <3>1. Server!Enqueue(Main, -1) /\ -1 \in ServerValues
      BY <2>1 DEF Server!Shutdown, Server!SHUTDOWN, ServerValues
    <3> QED BY <1>2, <3>1
  <2>2. CASE ~Server!Shutdown
    BY <1>4, <1>7, <2>2 DEF Server!MainStep, Server!JoinClients, Server!ShutdownWait,
       Server!EnqueueWait, Server!ShutdownSent, Server!JoinWorkers
  <2> QED BY <2>1, <2>2
<1>8. CASE Server!Wakeup
  BY <1>4, <1>8 DEF Server!Wakeup, Server!SpuriousWakeup
<1>9. CASE Server!Finished
  BY <1>4, <1>9 DEF Server!Finished, Server!vars
<1> QED BY <1>5, <1>6, <1>7, <1>8, <1>9 DEF Server!Next
-----------------------------------------------------------------------------
LEMMA ServerAlways ==
  /\ Init => ServerInv
  /\ ServerInv /\ [Next]_vars => ServerInv'
<1>1. Init => ServerInv
  BY ServerInitInv DEF Init
<1>2. ASSUME ServerInv, [Next]_vars PROVE ServerInv'
  <2>1. CASE InServer(Server!Next)
    BY <1>2, <2>1, ServerNextInv DEF InServer
  <2>2. CASE ~InServer(Server!Next)
    <3>1. UNCHANGED server
      BY <1>2, <2>2 DEF Next, vars, InPool, InPrinters, InSharing
    <3> QED BY <1>2, <3>1, ServerKeptInv
  <2> QED BY <2>1, <2>2
<1> QED BY <1>1, <1>2

\* POSIX/posix.c: a request that client_thread has numbered is with its client,
\* in the queue, with one worker or served, and in one of these places only; a
\* worker that has left leaves no request of a client behind.
THEOREM RequestsAreKept == Spec => []RequestsKept
<1>1. ServerInv => RequestsKept
  BY ServerInvKept DEF RequestsKept
<1> QED BY <1>1, ServerAlways, PTL DEF Spec

\* POSIX/posix.c: enqueue and dequeue signal often enough.  While a worker
\* sleeps each queued request has a worker awake, and while a producer sleeps
\* each free slot has a producer awake, spurious wake-ups included.
THEOREM NoWakeupIsLost == Spec => []NoLostWakeup
<1>1. ServerInv => NoLostWakeup
  BY ServerInvWakeup DEF NoLostWakeup
<1> QED BY <1>1, ServerAlways, PTL DEF Spec

\* POSIX/posix.c: the ring buffer with its two indices, its mutex and its
\* conditions implements the bounded FIFO queue.
THEOREM RingIsFifo == Spec => IsFifo
<1>1. Init => Server!Fifo!Init
  BY ServerFifoInit DEF Init
<1>2. ServerInv /\ [Next]_vars => [Server!Fifo!Next]_(Server!Contents)
  <2> SUFFICES ASSUME ServerInv, [Next]_vars
               PROVE  Server!Fifo!Next \/ UNCHANGED Server!Contents
    OBVIOUS
  <2>1. CASE InServer(Server!Next)
    BY <2>1, ServerFifoStep DEF InServer
  <2>2. CASE ~InServer(Server!Next)
    <3>1. UNCHANGED server
      BY <2>2 DEF Next, vars, InPool, InPrinters, InSharing
    <3> QED BY <3>1 DEF server, Server!Contents
  <2> QED BY <2>1, <2>2
<1> QED BY <1>1, <1>2, ServerAlways, PTL DEF Spec, IsFifo, Server!IsFifo, Server!Fifo!Spec
-----------------------------------------------------------------------------
(* The worker pool of ThreadAssessment.c.  Main's critical section comes   *)
(* before any task is taken; after it the tasks taken are the first ones,  *)
(* each of them with one worker or processed.                              *)

InHands(n) == {w \in Workers : worker_pc[w] = "process" /\ num[w] = n}

PoolPC == {"take", "process", "check", "fill", "join", "exited"}

PoolPlaces ==
  /\ \A w \in Workers : worker_pc[w] \in {"take", "process", "check", "exited"}
  /\ \A w \in Workers : worker_pc[w] = "process" => num[w] \in 1 .. NUM_TASKS

BeforeFill ==
  /\ queued = 0 /\ front = 0 /\ rear = 0
  /\ \A w \in Workers : worker_pc[w] = "take"
  /\ \A n \in 1 .. NUM_TASKS : processed[n] = 0

AfterFill ==
  /\ tasks = [n \in 0 .. NUM_TASKS - 1 |-> n + 1]
  /\ front = IF queued = 0 THEN 0 ELSE NUM_TASKS - queued
  /\ \A n \in 1 .. NUM_TASKS :
       processed[n] + Cardinality(InHands(n)) = IF n <= NUM_TASKS - queued THEN 1 ELSE 0

PoolInv ==
  /\ Pool!TypeOK /\ PoolPlaces
  /\ IF worker_pc[Main] = "fill" THEN BeforeFill ELSE AfterFill

LEMMA PoolConstants ==
  /\ NUM_TASKS \in Nat \ {0} /\ IsFiniteSet(Workers) /\ Main \notin Workers
  /\ \A S : Pool!Cardinality(S) = Cardinality(S)
<1>1. \A S : Pool!IsFiniteSet(S) = IsFiniteSet(S)
  BY DEF IsFiniteSet, Pool!IsFiniteSet
<1>2. \A S : Pool!Cardinality(S) = Cardinality(S)
  BY DEF Cardinality, Pool!Cardinality
<1> QED BY <1>1, <1>2, MCAssumption DEF Pool!ConstantsOK

LEMMA InHandsFinite ==
  ASSUME NEW n
  PROVE  /\ IsFiniteSet(InHands(n)) /\ Cardinality(InHands(n)) \in Nat
<1>1. InHands(n) \subseteq Workers
  BY DEF InHands
<1>2. IsFiniteSet(InHands(n))
  BY <1>1, PoolConstants, FS_Subset
<1> QED BY <1>2, FS_CardinalityType

LEMMA PoolInitInv == Pool!Init => PoolInv
BY PoolConstants DEF Pool!Init, PoolInv, Pool!TypeOK, PoolPlaces, BeforeFill, Pool!Tasks

LEMMA PoolMoved ==
  ASSUME Pool!TypeOK, NEW t \in Workers \cup {Main}, NEW l \in PoolPC, Pool!Goto(t, l)
  PROVE  /\ worker_pc' \in [Workers \cup {Main} -> PoolPC]
         /\ worker_pc'[t] = l
         /\ \A u \in Workers \cup {Main} : u # t => worker_pc'[u] = worker_pc[u]
BY DEF Pool!TypeOK, Pool!Goto, PoolPC

\* main's critical section.
LEMMA FillInv ==
  ASSUME PoolInv, Pool!Fill
  PROVE  PoolInv'
<1> USE DEF PoolInv, Pool!TypeOK
<1>1. /\ worker_pc[Main] = "fill" /\ BeforeFill /\ Pool!Goto(Main, "join")
      /\ UNCHANGED <<front, num, processed>> /\ idle' = {}
  BY DEF Pool!Fill
<1>2. /\ worker_pc' \in [Workers \cup {Main} -> PoolPC] /\ worker_pc'[Main] = "join"
      /\ \A w \in Workers : worker_pc'[w] = "take"
  BY <1>1, PoolConstants, PoolMoved DEF BeforeFill, PoolPC
<1>3. rear' = 0 /\ queued' = NUM_TASKS
  <2>1. (0 + NUM_TASKS) % NUM_TASKS = 0
    BY PoolConstants, Wrap
  <2> QED BY <1>1, <2>1, PoolConstants DEF Pool!Fill, BeforeFill
<1>4. tasks' = [n \in 0 .. NUM_TASKS - 1 |-> n + 1]
  <2>1. \A n \in 0 .. NUM_TASKS - 1 : (n + NUM_TASKS) % NUM_TASKS = n
    BY PoolConstants, Wrap
  <2>2. \A n \in 0 .. NUM_TASKS - 1 : n + NUM_TASKS - rear = n + NUM_TASKS
    BY <1>1, PoolConstants DEF BeforeFill
  <2> QED BY <2>1, <2>2 DEF Pool!Fill
<1>5. Pool!TypeOK' /\ PoolPlaces'
  BY <1>1, <1>2, <1>3, <1>4, PoolConstants DEF PoolPlaces, PoolPC, BeforeFill
<1>6. ASSUME NEW n \in 1 .. NUM_TASKS
      PROVE  processed'[n] + Cardinality(InHands(n)') = 0
  <2>1. InHands(n)' = {}
    BY <1>2 DEF InHands
  <2>2. Cardinality(InHands(n)') = 0
    BY <2>1, FS_EmptySet
  <2> QED BY <1>1, <2>2 DEF BeforeFill
<1>7. AfterFill'
  BY <1>1, <1>3, <1>4, <1>6, PoolConstants DEF AfterFill, BeforeFill
<1> QED BY <1>2, <1>5, <1>7

LEMMA TakeInv ==
  ASSUME PoolInv, NEW w \in Workers, Pool!Take(w)
  PROVE  PoolInv'
<1> USE DEF PoolInv, Pool!TypeOK
<1>1. /\ worker_pc[w] = "take" /\ queued > 0 /\ num' = [num EXCEPT ![w] = tasks[front]]
      /\ front' = (front + 1) % NUM_TASKS /\ queued' = queued - 1
      /\ Pool!Goto(w, "process") /\ UNCHANGED <<tasks, rear, idle, processed>>
  BY DEF Pool!Take
<1>2. worker_pc[Main] # "fill" /\ AfterFill
  BY <1>1 DEF BeforeFill
<1>3. /\ worker_pc' \in [Workers \cup {Main} -> PoolPC] /\ worker_pc'[w] = "process"
      /\ \A u \in Workers \cup {Main} : u # w => worker_pc'[u] = worker_pc[u]
  BY <1>1, PoolMoved DEF PoolPC
<1> DEFINE q == NUM_TASKS - queued + 1
<1>4. /\ NUM_TASKS \in Nat \ {0} /\ queued \in 1 .. NUM_TASKS /\ front = NUM_TASKS - queued
      /\ q \in 1 .. NUM_TASKS
  BY <1>1, <1>2, PoolConstants DEF AfterFill
<1>5. /\ num' \in [Workers -> 0 .. NUM_TASKS] /\ num'[w] = q
      /\ \A u \in Workers : u # w => num'[u] = num[u]
  BY <1>1, <1>2, <1>4 DEF AfterFill
<1>6. front' = IF queued' = 0 THEN 0 ELSE NUM_TASKS - queued'
  <2>1. front \in 0 .. NUM_TASKS - 1 /\ 1 \in 0 .. NUM_TASKS
    BY <1>4
  <2>2. (front + 1) % NUM_TASKS =
          IF front + 1 < NUM_TASKS THEN front + 1 ELSE front + 1 - NUM_TASKS
    BY <1>4, <2>1, Wrap
  <2> QED BY <1>1, <1>4, <2>2
<1>7. queued' \in 0 .. NUM_TASKS /\ front' \in 0 .. NUM_TASKS - 1
  BY <1>1, <1>4, <1>6
<1>8. Pool!TypeOK' /\ PoolPlaces'
  BY <1>1, <1>3, <1>4, <1>5, <1>7, PoolConstants DEF PoolPlaces, PoolPC
<1>9. ASSUME NEW n \in 1 .. NUM_TASKS
      PROVE  processed'[n] + Cardinality(InHands(n)')
               = IF n <= NUM_TASKS - queued' THEN 1 ELSE 0
  <2>0. IsFiniteSet(InHands(n)) /\ Cardinality(InHands(n)) \in Nat /\ processed[n] \in Nat
    BY InHandsFinite DEF Pool!Tasks
  <2>1. processed[n] + Cardinality(InHands(n)) = IF n <= NUM_TASKS - queued THEN 1 ELSE 0
    BY <1>2 DEF AfterFill
  <2>2. CASE n = q
    <3>1. InHands(n)' = InHands(n) \cup {w} /\ w \notin InHands(n)
      BY <1>1, <1>3, <1>5, <2>2 DEF InHands
    <3>2. Cardinality(InHands(n)') = Cardinality(InHands(n)) + 1
      BY <2>0, <3>1, FS_AddElement
    <3> QED BY <1>1, <1>4, <2>0, <2>1, <2>2, <3>2
  <2>3. CASE n # q
    <3>1. InHands(n)' = InHands(n)
      BY <1>1, <1>3, <1>5, <2>3 DEF InHands
    <3> QED BY <1>1, <1>4, <2>1, <2>3, <3>1
  <2> QED BY <2>2, <2>3
<1>10. AfterFill'
  BY <1>1, <1>2, <1>6, <1>9 DEF AfterFill
<1> QED BY <1>2, <1>3, <1>8, <1>10, PoolConstants

LEMMA PoolProcessInv ==
  ASSUME PoolInv, NEW w \in Workers, Pool!Process(w)
  PROVE  PoolInv'
<1> USE DEF PoolInv, Pool!TypeOK
<1>1. /\ worker_pc[w] = "process" /\ processed' = [processed EXCEPT ![num[w]] = @ + 1]
      /\ Pool!Goto(w, "check") /\ UNCHANGED <<tasks, front, rear, queued, idle, num>>
  BY DEF Pool!Process, Pool!queue
<1>2. worker_pc[Main] # "fill" /\ AfterFill /\ num[w] \in 1 .. NUM_TASKS
  BY <1>1 DEF BeforeFill, PoolPlaces
<1>3. /\ worker_pc' \in [Workers \cup {Main} -> PoolPC] /\ worker_pc'[w] = "check"
      /\ \A u \in Workers \cup {Main} : u # w => worker_pc'[u] = worker_pc[u]
  BY <1>1, PoolMoved DEF PoolPC
<1> DEFINE m == num[w]
<1>b. /\ processed \in [1 .. NUM_TASKS -> Nat] /\ processed' = [processed EXCEPT ![m] = @ + 1]
      /\ m \in 1 .. NUM_TASKS
  BY <1>1, <1>2 DEF Pool!Tasks
<1> HIDE DEF m
<1>4. /\ processed' \in [1 .. NUM_TASKS -> Nat] /\ processed'[m] = processed[m] + 1
      /\ \A n \in 1 .. NUM_TASKS : processed[n] \in Nat
      /\ \A n \in 1 .. NUM_TASKS : n # m => processed'[n] = processed[n]
  BY <1>b
<1>5. Pool!TypeOK' /\ PoolPlaces'
  BY <1>1, <1>3, <1>4, PoolConstants DEF PoolPlaces, PoolPC, Pool!Tasks
<1>6. ASSUME NEW n \in 1 .. NUM_TASKS
      PROVE  processed'[n] + Cardinality(InHands(n)') = processed[n] + Cardinality(InHands(n))
  <2>0. IsFiniteSet(InHands(n)) /\ Cardinality(InHands(n)) \in Nat /\ processed[n] \in Nat
    BY <1>4, InHandsFinite
  <2>1. CASE n = m
    <3>1. InHands(n)' = InHands(n) \ {w} /\ w \in InHands(n)
      BY <1>1, <1>3, <2>1 DEF InHands, m
    <3>2. Cardinality(InHands(n)') = Cardinality(InHands(n)) - 1
      BY <2>0, <3>1, FS_RemoveElement
    <3>3. processed'[n] = processed[n] + 1
      BY <1>4, <2>1
    <3>4. ASSUME NEW a \in Nat, NEW b \in Nat PROVE (a + 1) + (b - 1) = a + b
      OBVIOUS
    <3> QED BY <2>0, <3>2, <3>3, <3>4
  <2>2. CASE n # m
    <3>1. InHands(n)' = InHands(n)
      BY <1>1, <1>3, <2>2 DEF InHands, m
    <3> QED BY <1>4, <2>2, <3>1
  <2> QED BY <2>1, <2>2
<1>7. AfterFill'
  BY <1>1, <1>2, <1>6 DEF AfterFill
<1> QED BY <1>2, <1>3, <1>5, <1>7, PoolConstants

\* The steps that leave the queue and the tasks alone.
LEMMA PoolQuietInv ==
  ASSUME PoolInv, UNCHANGED <<tasks, front, rear, queued, num, processed>>,
         idle' \subseteq Workers, worker_pc' \in [Workers \cup {Main} -> PoolPC],
         worker_pc'[Main] = "fill" <=> worker_pc[Main] = "fill",
         worker_pc[Main] = "fill" => worker_pc' = worker_pc,
         \A w \in Workers : worker_pc'[w] \in {"take", "process", "check", "exited"},
         \A w \in Workers : worker_pc'[w] = "process" <=> worker_pc[w] = "process"
  PROVE  PoolInv'
<1> USE DEF PoolInv, Pool!TypeOK
<1>1. Pool!TypeOK' /\ PoolPlaces'
  BY DEF PoolPlaces, PoolPC, Pool!Tasks
<1>2. CASE worker_pc[Main] = "fill"
  BY <1>1, <1>2 DEF BeforeFill
<1>3. CASE worker_pc[Main] # "fill"
  <2>1. \A n : InHands(n)' = InHands(n)
    BY DEF InHands
  <2>2. AfterFill'
    BY <1>3, <2>1 DEF AfterFill
  <2> QED BY <1>1, <1>3, <2>2
<1> QED BY <1>2, <1>3

LEMMA PoolKeptInv ==
  ASSUME PoolInv, UNCHANGED pool
  PROVE  PoolInv'
BY PoolQuietInv DEF pool, PoolInv, Pool!TypeOK, PoolPlaces, PoolPC

LEMMA PoolNextInv ==
  ASSUME PoolInv, Pool!Next
  PROVE  PoolInv'
<1> USE DEF PoolInv
<1>0. /\ worker_pc \in [Workers \cup {Main} -> PoolPC] /\ idle \subseteq Workers
      /\ \A w \in Workers : worker_pc[w] \in {"take", "process", "check", "exited"}
      /\ Main \notin Workers
  BY PoolConstants DEF Pool!TypeOK, PoolPlaces, PoolPC
<1>1. CASE Pool!Fill
  BY <1>1, FillInv
<1>2. ASSUME NEW w \in Workers, Pool!Wait(w) PROVE PoolInv'
  BY <1>0, <1>2, PoolQuietInv DEF Pool!Wait, Pool!queue
<1>3. ASSUME NEW w \in Workers, Pool!Check(w) PROVE PoolInv'
  <2>1. PICK l \in {"exited", "take"} : Pool!Goto(w, l)
    BY <1>3 DEF Pool!Check
  <2>2. /\ worker_pc[w] = "check" /\ UNCHANGED <<tasks, front, rear, queued, idle, num, processed>>
    BY <1>3 DEF Pool!Check, Pool!queue
  <2>3. /\ worker_pc' \in [Workers \cup {Main} -> PoolPC] /\ worker_pc'[w] = l
        /\ \A u \in Workers \cup {Main} : u # w => worker_pc'[u] = worker_pc[u]
    BY <2>1, PoolMoved DEF PoolPC
  <2>4. worker_pc[Main] # "fill"
    BY <2>2 DEF BeforeFill
  <2> QED BY <1>0, <2>2, <2>3, <2>4, PoolQuietInv
<1>4. ASSUME NEW w \in Workers, Pool!SpuriousWakeup(w) PROVE PoolInv'
  BY <1>0, <1>4, PoolQuietInv DEF Pool!SpuriousWakeup, Pool!queue
<1>5. CASE Pool!Join
  <2>1. /\ worker_pc[Main] = "join" /\ Pool!Goto(Main, "exited")
        /\ UNCHANGED <<tasks, front, rear, queued, idle, num, processed>>
    BY <1>5 DEF Pool!Join, Pool!queue
  <2>2. /\ worker_pc' \in [Workers \cup {Main} -> PoolPC] /\ worker_pc'[Main] = "exited"
        /\ \A u \in Workers \cup {Main} : u # Main => worker_pc'[u] = worker_pc[u]
    BY <2>1, PoolMoved DEF PoolPC
  <2> QED BY <1>0, <2>1, <2>2, PoolQuietInv
<1>6. CASE Pool!Finished
  <2>1. UNCHANGED pool
    BY <1>6 DEF Pool!Finished, Pool!vars, pool
  <2> QED BY <2>1, PoolKeptInv
<1> QED BY <1>1, <1>2, <1>3, <1>4, <1>5, <1>6, TakeInv, PoolProcessInv
       DEF Pool!Next, Pool!WorkerStep

LEMMA PoolInvOnce ==
  ASSUME PoolInv
  PROVE  Pool!OncePerTask
<1> USE DEF PoolInv, Pool!TypeOK
<1> SUFFICES ASSUME NEW n \in 1 .. NUM_TASKS, worker_pc[Main] # "fill"
             PROVE  processed[n] + Cardinality(InHands(n))
                      + Cardinality({k \in 0 .. queued - 1 :
                                       tasks[(front + k) % NUM_TASKS] = n}) = 1
  BY PoolConstants DEF Pool!OncePerTask, Pool!Tasks, InHands
<1> DEFINE Q == {k \in 0 .. queued - 1 : tasks[(front + k) % NUM_TASKS] = n}
<1>0. NUM_TASKS \in Nat \ {0} /\ queued \in 0 .. NUM_TASKS /\ processed[n] \in Nat
  BY PoolConstants DEF Pool!Tasks
<1>1. /\ NUM_TASKS \in Nat \ {0} /\ queued \in 0 .. NUM_TASKS
      /\ tasks = [m \in 0 .. NUM_TASKS - 1 |-> m + 1]
      /\ queued > 0 => front = NUM_TASKS - queued
      /\ processed[n] \in Nat
  BY <1>0 DEF AfterFill
<1>2. Cardinality(InHands(n)) \in Nat
  BY InHandsFinite
<1>3. processed[n] + Cardinality(InHands(n)) = IF n <= NUM_TASKS - queued THEN 1 ELSE 0
  BY DEF AfterFill
<1>4. ASSUME NEW k \in 0 .. queued - 1
      PROVE  tasks[(front + k) % NUM_TASKS] = NUM_TASKS - queued + k + 1
  <2> DEFINE m == front + k
  <2>1. m \in 0 .. NUM_TASKS - 1 /\ m = NUM_TASKS - queued + k
    BY <1>1
  <2> HIDE DEF m
  <2>2. m % NUM_TASKS = m
    BY <1>1, <2>1, WrapNone
  <2>3. tasks[m % NUM_TASKS] = NUM_TASKS - queued + k + 1
    BY <1>1, <2>1, <2>2
  <2> QED BY <2>3 DEF m
<1>5. Cardinality(Q) = IF n <= NUM_TASKS - queued THEN 0 ELSE 1
  <2>1. CASE n <= NUM_TASKS - queued
    <3>1. ASSUME NEW k \in 0 .. queued - 1 PROVE NUM_TASKS - queued + k + 1 # n
      BY <1>1, <2>1
    <3>2. Q = {}
      BY <1>4, <3>1
    <3> HIDE DEF Q
    <3> QED BY <2>1, <3>2, FS_EmptySet
  <2>2. CASE n > NUM_TASKS - queued
    <3> DEFINE j == n - 1 - NUM_TASKS + queued
    <3>1. j \in 0 .. queued - 1
      BY <1>1, <2>2
    <3>2. ASSUME NEW k \in 0 .. queued - 1
          PROVE  NUM_TASKS - queued + k + 1 = n <=> k = j
      BY <1>1
    <3> HIDE DEF j
    <3>3. Q = {j}
      BY <1>4, <3>1, <3>2
    <3>4. Cardinality(Q) = 1
      BY <3>3, FS_Singleton
    <3> QED BY <1>1, <2>2, <3>4
  <2> QED BY <1>1, <2>1, <2>2
<1> QED BY <1>1, <1>2, <1>3, <1>5

LEMMA PoolAlways ==
  /\ Init => PoolInv
  /\ PoolInv /\ [Next]_vars => PoolInv'
<1>1. Init => PoolInv
  BY PoolInitInv DEF Init
<1>2. ASSUME PoolInv, [Next]_vars PROVE PoolInv'
  <2>1. CASE InPool(Pool!Next)
    BY <1>2, <2>1, PoolNextInv DEF InPool
  <2>2. CASE ~InPool(Pool!Next)
    <3>1. UNCHANGED pool
      BY <1>2, <2>2 DEF Next, vars, InServer, InPrinters, InSharing
    <3> QED BY <1>2, <3>1, PoolKeptInv
  <2> QED BY <2>1, <2>2
<1> QED BY <1>1, <1>2
-----------------------------------------------------------------------------
(* The two printers of ThreadsTask.c: the number stays within MAX + 1      *)
(* because it is tested again under the lock.                              *)

LEMMA PrintersAlways ==
  /\ Init => Printers!TypeOK
  /\ Printers!TypeOK /\ [Next]_vars => Printers!TypeOK'
<1> USE MCAssumption DEF Printers!TypeOK, Printers!Threads, Printers!ConstantsOK
<1>1. Init => Printers!TypeOK
  BY DEF Init, Printers!Init
<1>2. ASSUME Printers!TypeOK, [Next]_vars PROVE Printers!TypeOK'
  <2>1. ASSUME NEW t \in Printers!Threads, Printers!Test(t) PROVE Printers!TypeOK'
    BY <1>2, <2>1 DEF Printers!Test
  <2>2. ASSUME NEW t \in Printers!Threads, Printers!Wait(t) PROVE Printers!TypeOK'
    BY <1>2, <2>2 DEF Printers!Wait
  <2>3. ASSUME NEW t \in Printers!Threads, Printers!PrintNumber(t) PROVE Printers!TypeOK'
    <3>1. asleep' \subseteq {0, 1}
      BY <1>2, <2>3 DEF Printers!PrintNumber, Printers!Signal
    <3>2. number' \in 1 .. MAX + 1
      BY <1>2, <2>3 DEF Printers!PrintNumber
    <3>3. printer_pc' \in [{0, 1} -> {"test", "locked", "exited"}]
      BY <1>2, <2>3 DEF Printers!PrintNumber
    <3> QED BY <3>1, <3>2, <3>3
  <2>4. ASSUME NEW t \in Printers!Threads, Printers!SpuriousWakeup(t) PROVE Printers!TypeOK'
    BY <1>2, <2>4 DEF Printers!SpuriousWakeup
  <2>5. CASE UNCHANGED printers
    BY <1>2, <2>5 DEF printers
  <2>6. Printers!Next \/ UNCHANGED printers
    BY <1>2 DEF Next, vars, InServer, InPool, InPrinters, InSharing
  <2> QED BY <2>1, <2>2, <2>3, <2>4, <2>5, <2>6
         DEF Printers!Next, Printers!Step, Printers!Finished, Printers!vars, printers
<1> QED BY <1>1, <1>2
-----------------------------------------------------------------------------
(* The producers and consumers of futexTask.c.  An item carries its        *)
(* producer; the items of one producer are numbered in the order pushed.   *)

Owner(v) == v \div 100
Pushed(v) == v \in Sharing!Items /\ v < Sharing!Item(Owner(v), i[Owner(v)])

SharingValues == {0} \cup Sharing!Items

SharingRing == tail = (head + count) % BUFFER_CAPACITY

SharingItems ==
  /\ \A p \in ProducerIds : i[p] <= ITEMS_PER_PRODUCER
  /\ \A k \in 1 .. count : Pushed(Sharing!Contents[k])
  /\ \A c \in Consumers : \A a \in 1 .. Len(consumed[c]) : Pushed(consumed[c][a])

\* The items of one producer are queued in order, behind those consumed.
SharingOrder ==
  /\ \A k, m \in 1 .. count :
       k < m /\ Owner(Sharing!Contents[k]) = Owner(Sharing!Contents[m])
         => Sharing!Contents[k] < Sharing!Contents[m]
  /\ \A c \in Consumers : \A a \in 1 .. Len(consumed[c]) : \A k \in 1 .. count :
       Owner(consumed[c][a]) = Owner(Sharing!Contents[k])
         => consumed[c][a] < Sharing!Contents[k]

ConsumedInOrder ==
  \A c \in Consumers : \A a, b \in 1 .. Len(consumed[c]) :
    a < b /\ Owner(consumed[c][a]) = Owner(consumed[c][b]) => consumed[c][a] < consumed[c][b]

SharingInv ==
  Sharing!TypeOK /\ SharingRing /\ SharingItems /\ SharingOrder /\ ConsumedInOrder

LEMMA SharingConstants ==
  /\ BUFFER_CAPACITY \in Nat \ {0}
  /\ ProducerIds \subseteq Nat \ {0} /\ \A p \in ProducerIds : p \notin Consumers
  /\ ITEMS_PER_PRODUCER \in 0 .. 100
  /\ SharingValues = {0} \cup {p * 100 + n : p \in ProducerIds, n \in 0 .. ITEMS_PER_PRODUCER - 1}
BY MCAssumption DEF Sharing!ConstantsOK, Sharing!BufferConstantsOK, SharingValues, Sharing!Items,
   Sharing!Item

LEMMA ItemFacts ==
  ASSUME NEW p \in ProducerIds, NEW n \in 0 .. ITEMS_PER_PRODUCER - 1
  PROVE  /\ Sharing!Item(p, n) \in Sharing!Items /\ Owner(Sharing!Item(p, n)) = p
         /\ Sharing!Item(p, n) < Sharing!Item(p, n + 1)
<1>1. p \in Nat /\ n \in 0 .. 99
  BY SharingConstants
<1>2. Sharing!Item(p, n) \in Sharing!Items
  BY DEF Sharing!Items
<1>3. Owner(Sharing!Item(p, n)) = p
  BY <1>1 DEF Owner, Sharing!Item
<1>4. Sharing!Item(p, n) < Sharing!Item(p, n + 1)
  BY <1>1 DEF Sharing!Item
<1> QED BY <1>2, <1>3, <1>4

LEMMA ItemOwner ==
  ASSUME NEW v \in Sharing!Items
  PROVE  v \in Nat /\ Owner(v) \in ProducerIds
<1>1. PICK p \in ProducerIds, n \in 0 .. ITEMS_PER_PRODUCER - 1 : v = Sharing!Item(p, n)
  BY DEF Sharing!Items
<1>2. p \in Nat /\ n \in Nat
  BY SharingConstants
<1>3. v \in Nat
  BY <1>1, <1>2 DEF Sharing!Item
<1> QED BY <1>1, <1>3, ItemFacts

LEMMA BufferType ==
  ASSUME Sharing!TypeOK
  PROVE  /\ buffer \in [0 .. BUFFER_CAPACITY - 1 -> SharingValues]
         /\ head \in 0 .. BUFFER_CAPACITY - 1 /\ tail \in 0 .. BUFFER_CAPACITY - 1
         /\ count \in 0 .. BUFFER_CAPACITY
         /\ Sharing!Contents \in Seq(SharingValues) /\ Len(Sharing!Contents) = count
         /\ \A k \in 1 .. count : Sharing!Contents[k] \in SharingValues
<1>1. /\ buffer \in [0 .. BUFFER_CAPACITY - 1 -> SharingValues]
      /\ head \in 0 .. BUFFER_CAPACITY - 1 /\ tail \in 0 .. BUFFER_CAPACITY - 1
      /\ count \in 0 .. BUFFER_CAPACITY
  BY SharingConstants DEF Sharing!TypeOK, Sharing!RingTypeOK, Sharing!Index, SharingValues
<1>2. Sharing!Contents = Held(buffer, head, count, BUFFER_CAPACITY)
  BY DEF Sharing!Contents, Held
<1>3. Sharing!Contents \in Seq(SharingValues) /\ Len(Sharing!Contents) = count
  <2>1. BUFFER_CAPACITY \in Nat \ {0}
    BY SharingConstants
  <2> QED BY <1>1, <1>2, <2>1, RingIsSeq, SMTT(30)
<1> QED BY <1>1, <1>3

LEMMA BufferPut ==
  ASSUME Sharing!TypeOK, SharingRing, NEW t, NEW v \in SharingValues, Sharing!Enqueue(t, v)
  PROVE  /\ Sharing!RingTypeOK' /\ SharingRing'
         /\ count < BUFFER_CAPACITY /\ count' = count + 1
         /\ Sharing!Contents' = Append(Sharing!Contents, v)
         /\ \A k \in 1 .. count' :
              Sharing!Contents'[k] = IF k <= count THEN Sharing!Contents[k] ELSE v
<1>0. /\ BUFFER_CAPACITY \in Nat \ {0} /\ buffer \in [0 .. BUFFER_CAPACITY - 1 -> SharingValues]
      /\ head \in 0 .. BUFFER_CAPACITY - 1 /\ tail \in 0 .. BUFFER_CAPACITY - 1
      /\ count \in 0 .. BUFFER_CAPACITY
  BY BufferType, SharingConstants
<1>1. /\ count < BUFFER_CAPACITY /\ count' = count + 1 /\ head' = head
      /\ buffer' = [buffer EXCEPT ![tail] = v] /\ tail' = (tail + 1) % BUFFER_CAPACITY
  BY DEF Sharing!Enqueue
<1>2. count \in 0 .. BUFFER_CAPACITY - 1 /\ count' \in 0 .. BUFFER_CAPACITY
  BY <1>0, <1>1
<1>3. tail' \in 0 .. BUFFER_CAPACITY - 1 /\ SharingRing'
  <2>1. tail = IF head + count < BUFFER_CAPACITY THEN head + count ELSE head + count - BUFFER_CAPACITY
    BY <1>0, Wrap DEF SharingRing
  <2>2. tail' = IF tail + 1 < BUFFER_CAPACITY THEN tail + 1 ELSE tail + 1 - BUFFER_CAPACITY
    <3>1. 1 \in 0 .. BUFFER_CAPACITY
      BY <1>0
    <3> QED BY <1>1, <3>1, <1>0, Wrap
  <2>3. (head' + count') % BUFFER_CAPACITY =
          IF head' + count' < BUFFER_CAPACITY THEN head' + count'
                                           ELSE head' + count' - BUFFER_CAPACITY
    BY <1>1, <1>2, <1>0, Wrap
  <2>4. tail' = IF head' + count' < BUFFER_CAPACITY THEN head' + count'
                                               ELSE head' + count' - BUFFER_CAPACITY
    BY <1>0, <1>1, <2>1, <2>2
  <2>5. tail' \in 0 .. BUFFER_CAPACITY - 1
    BY <1>0, <2>2
  <2> QED BY <2>3, <2>4, <2>5 DEF SharingRing
<1>4. buffer' \in [0 .. BUFFER_CAPACITY - 1 -> SharingValues]
  BY <1>0, <1>1
<1>5. Sharing!RingTypeOK'
  BY <1>1, <1>2, <1>3, <1>4, BufferType, SharingConstants
     DEF Sharing!RingTypeOK, Sharing!Index, SharingValues
<1>6. Sharing!Contents' = Append(Sharing!Contents, v)
  <2>1. Sharing!Contents = Held(buffer, head, count, BUFFER_CAPACITY)
    BY DEF Sharing!Contents, Held
  <2>2. Sharing!Contents' = Held(buffer', head, count + 1, BUFFER_CAPACITY)
    BY <1>1 DEF Sharing!Contents, Held
  <2>3. Stored(buffer', buffer, tail, v)
    BY <1>1 DEF Stored
  <2>4. Appended(Held(buffer', head, count + 1, BUFFER_CAPACITY),
                 Held(buffer, head, count, BUFFER_CAPACITY), v)
    <3>1. buffer \in [Slots(BUFFER_CAPACITY) -> SharingValues]
      BY <1>0 DEF Slots
    <3> QED BY <1>0, <1>2, <2>3, <3>1, RingAppend DEF SharingRing
  <2> QED BY <2>1, <2>2, <2>4 DEF Appended
<1>7. \A k \in 1 .. count' :
        Sharing!Contents'[k] = IF k <= count THEN Sharing!Contents[k] ELSE v
  BY <1>1, <1>2, <1>6, BufferType
<1> QED BY <1>1, <1>3, <1>5, <1>6, <1>7

LEMMA BufferGet ==
  ASSUME Sharing!TypeOK, SharingRing, NEW t, NEW v, Sharing!Dequeue(t, v)
  PROVE  /\ Sharing!RingTypeOK' /\ SharingRing'
         /\ count > 0 /\ count' = count - 1
         /\ Sharing!Contents' = Tail(Sharing!Contents) /\ v = Sharing!Contents[1]
         /\ \A k \in 1 .. count' : Sharing!Contents'[k] = Sharing!Contents[k + 1]
<1>0. /\ BUFFER_CAPACITY \in Nat \ {0} /\ buffer \in [0 .. BUFFER_CAPACITY - 1 -> SharingValues]
      /\ head \in 0 .. BUFFER_CAPACITY - 1 /\ tail \in 0 .. BUFFER_CAPACITY - 1
      /\ count \in 0 .. BUFFER_CAPACITY
  BY BufferType, SharingConstants
<1>1. /\ count > 0 /\ count' = count - 1 /\ v = buffer[head]
      /\ head' = (head + 1) % BUFFER_CAPACITY /\ UNCHANGED <<buffer, tail>>
  BY DEF Sharing!Dequeue
<1>2. count \in 1 .. BUFFER_CAPACITY /\ count' \in 0 .. BUFFER_CAPACITY
  BY <1>0, <1>1
<1>3. head' \in 0 .. BUFFER_CAPACITY - 1 /\ SharingRing'
  <2>1. tail = IF head + count < BUFFER_CAPACITY THEN head + count ELSE head + count - BUFFER_CAPACITY
    BY <1>0, Wrap DEF SharingRing
  <2>2. head' = IF head + 1 < BUFFER_CAPACITY THEN head + 1 ELSE head + 1 - BUFFER_CAPACITY
    <3>1. 1 \in 0 .. BUFFER_CAPACITY
      BY <1>0
    <3> QED BY <1>1, <3>1, <1>0, Wrap
  <2>3. head' \in 0 .. BUFFER_CAPACITY - 1
    BY <1>0, <2>2
  <2>4. (head' + count') % BUFFER_CAPACITY =
          IF head' + count' < BUFFER_CAPACITY THEN head' + count'
                                           ELSE head' + count' - BUFFER_CAPACITY
    BY <1>2, <1>0, <2>3, Wrap
  <2>5. tail' = IF head' + count' < BUFFER_CAPACITY THEN head' + count'
                                               ELSE head' + count' - BUFFER_CAPACITY
    BY <1>0, <1>1, <2>1, <2>2
  <2> QED BY <2>3, <2>4, <2>5 DEF SharingRing
<1>4. Sharing!RingTypeOK'
  BY <1>1, <1>2, <1>3, BufferType, SharingConstants
     DEF Sharing!RingTypeOK, Sharing!Index, SharingValues
<1>5. Sharing!Contents' = Tail(Sharing!Contents) /\ v = Sharing!Contents[1]
  <2>1. Sharing!Contents = Held(buffer, head, count, BUFFER_CAPACITY)
    BY DEF Sharing!Contents, Held
  <2>2. Sharing!Contents' = Held(buffer, (head + 1) % BUFFER_CAPACITY, count - 1, BUFFER_CAPACITY)
    BY <1>1 DEF Sharing!Contents, Held
  <2>3. Held(buffer, (head + 1) % BUFFER_CAPACITY, count - 1, BUFFER_CAPACITY)
          = Tail(Held(buffer, head, count, BUFFER_CAPACITY))
    <3>1. buffer \in [Slots(BUFFER_CAPACITY) -> SharingValues]
      BY <1>0 DEF Slots
    <3> QED BY <1>0, <1>2, <3>1, RingTail
  <2>4. Sharing!Contents[1] = buffer[head]
    <3>1. head % BUFFER_CAPACITY = head /\ head + 1 - 1 = head /\ 1 \in 1 .. count
      BY <1>0, <1>2, WrapNone
    <3> QED BY <3>1 DEF Sharing!Contents
  <2> QED BY <1>1, <2>1, <2>2, <2>3, <2>4
<1>6. \A k \in 1 .. count' : Sharing!Contents'[k] = Sharing!Contents[k + 1]
  BY <1>1, <1>2, <1>5, BufferType
<1> QED BY <1>1, <1>3, <1>4, <1>5, <1>6

LEMMA BufferKept ==
  ASSUME Sharing!TypeOK, SharingRing, UNCHANGED Sharing!ring
  PROVE  /\ Sharing!RingTypeOK' /\ SharingRing' /\ count' = count
         /\ Sharing!Contents' = Sharing!Contents
BY DEF Sharing!ring, Sharing!TypeOK, Sharing!RingTypeOK, SharingRing, Sharing!Contents

LEMMA SharingTypes ==
  ASSUME SharingInv
  PROVE  /\ full_waiters \subseteq ProducerIds /\ empty_waiters \subseteq Consumers
         /\ i \in [ProducerIds \cup Consumers -> Nat]
         /\ consumed \in [Consumers -> Seq(Sharing!Items)]
         /\ \A c \in Consumers :
              /\ DOMAIN consumed[c] = 1 .. Len(consumed[c]) /\ Len(consumed[c]) \in Nat
              /\ \A a \in 1 .. Len(consumed[c]) : consumed[c][a] \in Sharing!Items
         /\ \A k \in 1 .. count : Sharing!Contents[k] \in Sharing!Items
BY DEF SharingInv, Sharing!TypeOK, Sharing!Threads, SharingItems, Pushed

LEMMA SharingTyped ==
  ASSUME Sharing!RingTypeOK', full_waiters' \subseteq ProducerIds, empty_waiters' \subseteq Consumers,
         i' \in [ProducerIds \cup Consumers -> Nat], consumed' \in [Consumers -> Seq(Sharing!Items)]
  PROVE  Sharing!TypeOK'
BY DEF Sharing!TypeOK, Sharing!Threads, Sharing!Items

LEMMA SharingInitInv == Sharing!Init => SharingInv
<1> SUFFICES ASSUME Sharing!Init PROVE SharingInv
  OBVIOUS
<1>1. /\ buffer = [n \in 0 .. BUFFER_CAPACITY - 1 |-> 0] /\ head = 0 /\ tail = 0 /\ count = 0
      /\ full_waiters = {} /\ empty_waiters = {}
      /\ i = [t \in ProducerIds \cup Consumers |-> 0] /\ consumed = [c \in Consumers |-> <<>>]
  BY DEF Sharing!Init, Sharing!BufferInit, Sharing!Index, Sharing!Threads
<1>2. BUFFER_CAPACITY \in Nat \ {0} /\ ITEMS_PER_PRODUCER \in Nat
  BY SharingConstants
<1>3. 0 % BUFFER_CAPACITY = 0
  BY <1>2, WrapNone
<1>4. SharingRing
  BY <1>1, <1>2, <1>3 DEF SharingRing
<1>5. Sharing!RingTypeOK
  BY <1>1, <1>2 DEF Sharing!RingTypeOK, Sharing!Index
<1>6. Sharing!TypeOK
  BY <1>1, <1>5 DEF Sharing!TypeOK, Sharing!Threads
<1>7. SharingItems /\ SharingOrder /\ ConsumedInOrder
  BY <1>1, <1>2 DEF SharingItems, SharingOrder, ConsumedInOrder
<1> QED BY <1>4, <1>6, <1>7 DEF SharingInv

\* The steps that change only who is asleep.
LEMMA SharingQuietInv ==
  ASSUME SharingInv, UNCHANGED <<Sharing!ring, i, consumed>>,
         full_waiters' \subseteq ProducerIds, empty_waiters' \subseteq Consumers
  PROVE  SharingInv'
<1> USE DEF SharingInv
<1>1. Sharing!RingTypeOK' /\ SharingRing' /\ UNCHANGED <<count, Sharing!Contents>>
  BY BufferKept
<1>2. Sharing!TypeOK'
  BY <1>1, SharingTypes, SharingTyped
<1>3. \A v : Pushed(v)' <=> Pushed(v)
  BY DEF Pushed, Sharing!Items, Sharing!Item
<1>4. SharingItems' /\ SharingOrder' /\ ConsumedInOrder'
  BY <1>1, <1>3 DEF SharingItems, SharingOrder, ConsumedInOrder
<1> QED BY <1>1, <1>2, <1>4

LEMMA PushInv ==
  ASSUME SharingInv, NEW p \in ProducerIds, i[p] < ITEMS_PER_PRODUCER,
         Sharing!Enqueue(p, Sharing!Item(p, i[p])), i' = [i EXCEPT ![p] = @ + 1],
         UNCHANGED consumed
  PROVE  SharingInv'
<1> USE DEF SharingInv
<1> DEFINE v == Sharing!Item(p, i[p])
<1>1. /\ i' \in [ProducerIds \cup Consumers -> Nat] /\ i'[p] = i[p] + 1 /\ i[p] \in Nat
      /\ \A q \in ProducerIds : q # p => i'[q] = i[q]
  BY SharingTypes
<1>2. i[p] \in 0 .. ITEMS_PER_PRODUCER - 1 /\ ITEMS_PER_PRODUCER \in Nat
  BY <1>1, SharingConstants
<1>3. v \in Sharing!Items /\ Owner(v) = p /\ v < Sharing!Item(p, i'[p]) /\ v \in SharingValues
  BY <1>1, <1>2, ItemFacts DEF SharingValues
<1> HIDE DEF v
<1>4. /\ Sharing!RingTypeOK' /\ SharingRing' /\ count' = count + 1 /\ count \in Nat
      /\ \A k \in 1 .. count' :
           Sharing!Contents'[k] = IF k <= count THEN Sharing!Contents[k] ELSE v
  BY <1>3, BufferPut, BufferType DEF v
<1>5. Sharing!TypeOK'
  <2>1. full_waiters' \subseteq ProducerIds /\ empty_waiters' \subseteq Consumers
    BY SharingTypes DEF Sharing!Enqueue, Sharing!Signal
  <2> QED BY <1>1, <1>4, <2>1, SharingTypes, SharingTyped
<1>6. ASSUME NEW u, Pushed(u)
      PROVE  Pushed(u)' /\ (Owner(u) = p => u < v) /\ u \in Nat
  <2>1. u \in Sharing!Items /\ u \in Nat /\ Owner(u) \in ProducerIds
    BY <1>6, ItemOwner DEF Pushed
  <2>2. Owner(u) = p => u < v
    BY <1>6 DEF Pushed, v
  <2>3. CASE Owner(u) = p
    <3>1. v \in Nat /\ Sharing!Item(p, i'[p]) \in Nat
      BY <1>1, <1>3, ItemOwner, SharingConstants DEF Sharing!Item
    <3>2. u < Sharing!Item(p, i'[p])
      BY <1>3, <2>1, <2>2, <2>3, <3>1
    <3> QED BY <2>1, <2>2, <2>3, <3>2 DEF Pushed, Sharing!Items, Sharing!Item
  <2>4. CASE Owner(u) # p
    BY <1>1, <1>6, <2>1, <2>4 DEF Pushed, Sharing!Items, Sharing!Item
  <2> QED BY <2>3, <2>4
<1>7. ASSUME NEW u, u = v PROVE Pushed(u)'
  BY <1>3, <1>7 DEF Pushed, Sharing!Items, Sharing!Item
<1>8. SharingItems'
  <2>1. \A q \in ProducerIds : i'[q] <= ITEMS_PER_PRODUCER
    BY <1>1, <1>2 DEF SharingItems
  <2>2. ASSUME NEW k \in 1 .. count', NEW u, u = Sharing!Contents'[k]
        PROVE  Pushed(u)'
    <3>1. CASE k <= count
      <4>1. k \in 1 .. count /\ u = Sharing!Contents[k]
        BY <1>4, <2>2, <3>1
      <4> QED BY <1>6, <4>1 DEF SharingItems
    <3>2. CASE ~(k <= count)
      <4>1. u = v
        BY <1>4, <2>2, <3>2
      <4> QED BY <1>7, <4>1
    <3> QED BY <3>1, <3>2
  <2>3. \A c \in Consumers : \A a \in 1 .. Len(consumed[c]) : Pushed(consumed[c][a])'
    BY <1>6 DEF SharingItems
  <2> QED BY <2>1, <2>2, <2>3 DEF SharingItems
<1>9. SharingOrder'
  <2>1. ASSUME NEW u, Pushed(u), NEW k \in 1 .. count', k > count,
               Owner(u) = Owner(Sharing!Contents'[k])
        PROVE  u < Sharing!Contents'[k]
    BY <1>3, <1>4, <1>6, <2>1
  <2>2. \A k \in 1 .. count' : k <= count => k \in 1 .. count /\ Sharing!Contents'[k] = Sharing!Contents[k]
    BY <1>4
  <2>3. ASSUME NEW k \in 1 .. count', NEW m \in 1 .. count', k < m,
               Owner(Sharing!Contents'[k]) = Owner(Sharing!Contents'[m])
        PROVE  Sharing!Contents'[k] < Sharing!Contents'[m]
    <3>1. k <= count /\ k \in 1 .. count /\ Sharing!Contents'[k] = Sharing!Contents[k]
      BY <1>4, <2>2, <2>3
    <3>2. CASE m <= count
      BY <2>2, <2>3, <3>1, <3>2 DEF SharingOrder
    <3>3. CASE ~(m <= count)
      <4>1. m > count /\ Pushed(Sharing!Contents[k])
        BY <1>4, <3>1, <3>3 DEF SharingItems
      <4> QED BY <2>1, <2>3, <3>1, <4>1
    <3> QED BY <3>2, <3>3
  <2>4. ASSUME NEW c \in Consumers, NEW a \in 1 .. Len(consumed[c]), NEW k \in 1 .. count',
               Owner(consumed[c][a]) = Owner(Sharing!Contents'[k])
        PROVE  consumed[c][a] < Sharing!Contents'[k]
    <3>1. CASE k <= count
      BY <2>2, <2>4, <3>1 DEF SharingOrder
    <3>2. CASE ~(k <= count)
      <4>1. k > count /\ Pushed(consumed[c][a])
        BY <1>4, <3>2 DEF SharingItems
      <4> QED BY <2>1, <2>4, <4>1
    <3> QED BY <3>1, <3>2
  <2> QED BY <2>3, <2>4 DEF SharingOrder, Owner
<1>10. ConsumedInOrder'
  BY DEF ConsumedInOrder, Owner
<1> QED BY <1>4, <1>5, <1>8, <1>9, <1>10

LEMMA PopInv ==
  ASSUME SharingInv, NEW c \in Consumers, NEW v, Sharing!Dequeue(c, v),
         consumed' = [consumed EXCEPT ![c] = Append(@, v)], i' = [i EXCEPT ![c] = @ + 1]
  PROVE  SharingInv'
<1> USE DEF SharingInv
<1>1. /\ Sharing!RingTypeOK' /\ SharingRing' /\ count' = count - 1 /\ count \in Nat
      /\ 1 \in 1 .. count /\ v = Sharing!Contents[1]
      /\ \A k \in 1 .. count' : Sharing!Contents'[k] = Sharing!Contents[k + 1]
  BY BufferGet, BufferType, SMTT(30)
<1>2. \A k \in 1 .. count' : k + 1 \in 1 .. count /\ 1 < k + 1
  BY <1>1
<1>3. v \in Sharing!Items /\ Pushed(v)
  BY <1>1 DEF SharingItems, Pushed
<1>4. /\ i' \in [ProducerIds \cup Consumers -> Nat]
      /\ \A p \in ProducerIds : i'[p] = i[p]
  BY SharingTypes, SharingConstants
<1>5. /\ consumed' \in [Consumers -> Seq(Sharing!Items)]
      /\ \A d \in Consumers : d # c => consumed'[d] = consumed[d]
      /\ consumed'[c] = Append(consumed[c], v)
  BY <1>3, SharingTypes
<1> DEFINE l == Len(consumed[c])
<1>6. /\ l \in Nat /\ Len(consumed'[c]) = l + 1
      /\ \A a \in 1 .. l : consumed'[c][a] = consumed[c][a]
      /\ consumed'[c][l + 1] = v
  BY <1>5, SharingTypes
<1> HIDE DEF l
<1>7. Sharing!TypeOK'
  <2>1. full_waiters' \subseteq ProducerIds /\ empty_waiters' \subseteq Consumers
    BY SharingTypes DEF Sharing!Dequeue, Sharing!Signal
  <2> QED BY <1>1, <1>4, <1>5, <2>1, SharingTyped
<1>8. ASSUME NEW u, Pushed(u) PROVE Pushed(u)'
  BY <1>4, <1>8, ItemOwner DEF Pushed, Sharing!Items, Sharing!Item
\* An item of a consumer, after the step, was there before or is v.
<1>9. ASSUME NEW d \in Consumers, NEW a \in 1 .. Len(consumed'[d])
      PROVE  \/ a \in 1 .. Len(consumed[d]) /\ consumed'[d][a] = consumed[d][a]
             \/ d = c /\ a = l + 1 /\ consumed'[d][a] = v
  <2>1. CASE d = c
    BY <1>6, <2>1 DEF l
  <2>2. CASE d # c
    BY <1>5, <2>2
  <2> QED BY <2>1, <2>2
<1>10. SharingItems'
  <2>1. \A p \in ProducerIds : i'[p] <= ITEMS_PER_PRODUCER
    BY <1>4 DEF SharingItems
  <2>2. ASSUME NEW k \in 1 .. count', NEW u, u = Sharing!Contents'[k]
        PROVE  Pushed(u)'
    BY <1>1, <1>2, <1>8, <2>2 DEF SharingItems
  <2>3. ASSUME NEW d \in Consumers, NEW a \in 1 .. Len(consumed'[d]), NEW u, u = consumed'[d][a]
        PROVE  Pushed(u)'
    <3>1. Pushed(u)
      BY <1>3, <1>9, <2>3 DEF SharingItems
    <3> QED BY <1>8, <3>1
  <2> QED BY <2>1, <2>2, <2>3 DEF SharingItems
<1>11. ASSUME NEW k \in 1 .. count', Owner(v) = Owner(Sharing!Contents'[k])
       PROVE  v < Sharing!Contents'[k]
  <2>1. k + 1 \in 1 .. count /\ 1 < k + 1 /\ Sharing!Contents'[k] = Sharing!Contents[k + 1]
    BY <1>1, <1>2
  <2> QED BY <1>1, <1>11, <2>1 DEF SharingOrder
<1>12. SharingOrder'
  <2>1. ASSUME NEW k \in 1 .. count', NEW m \in 1 .. count', k < m,
               Owner(Sharing!Contents'[k]) = Owner(Sharing!Contents'[m])
        PROVE  Sharing!Contents'[k] < Sharing!Contents'[m]
    <3>1. /\ k + 1 \in 1 .. count /\ m + 1 \in 1 .. count /\ k + 1 < m + 1
          /\ Sharing!Contents'[k] = Sharing!Contents[k + 1]
          /\ Sharing!Contents'[m] = Sharing!Contents[m + 1]
      BY <1>1, <1>2, <2>1
    <3> QED BY <2>1, <3>1 DEF SharingOrder
  <2>2. ASSUME NEW d \in Consumers, NEW a \in 1 .. Len(consumed'[d]), NEW k \in 1 .. count',
               Owner(consumed'[d][a]) = Owner(Sharing!Contents'[k])
        PROVE  consumed'[d][a] < Sharing!Contents'[k]
    <3>1. CASE a \in 1 .. Len(consumed[d]) /\ consumed'[d][a] = consumed[d][a]
      BY <1>1, <1>2, <2>2, <3>1 DEF SharingOrder
    <3>2. CASE consumed'[d][a] = v
      BY <1>11, <2>2, <3>2
    <3> QED BY <1>9, <3>1, <3>2
  <2> QED BY <2>1, <2>2 DEF SharingOrder, Owner
<1>13. ConsumedInOrder'
  <2> SUFFICES ASSUME NEW d \in Consumers, NEW a \in 1 .. Len(consumed'[d]),
                      NEW b \in 1 .. Len(consumed'[d]), a < b,
                      Owner(consumed'[d][a]) = Owner(consumed'[d][b])
               PROVE  consumed'[d][a] < consumed'[d][b]
    BY DEF ConsumedInOrder, Owner
  <2>1. a \in 1 .. Len(consumed[d]) /\ consumed'[d][a] = consumed[d][a]
    BY <1>6, <1>9 DEF l
  <2>2. CASE b \in 1 .. Len(consumed[d]) /\ consumed'[d][b] = consumed[d][b]
    BY <2>1, <2>2 DEF ConsumedInOrder
  <2>3. CASE consumed'[d][b] = v
    BY <1>1, <2>1, <2>3 DEF SharingOrder
  <2> QED BY <1>9, <2>2, <2>3
<1> QED BY <1>1, <1>7, <1>10, <1>12, <1>13

LEMMA SharingKeptInv ==
  ASSUME SharingInv, UNCHANGED sharing
  PROVE  SharingInv'
<1>1. UNCHANGED <<Sharing!ring, i, consumed, full_waiters, empty_waiters>>
  BY DEF sharing, Sharing!ring
<1> QED BY <1>1, SharingTypes, SharingQuietInv

LEMMA SharingNextInv ==
  ASSUME SharingInv, Sharing!Next
  PROVE  SharingInv'
<1>1. ASSUME NEW p \in ProducerIds, Sharing!push_to_buffer(p) PROVE SharingInv'
  <2>1. CASE Sharing!EnqueueWait(p) /\ UNCHANGED i
    <3>1. /\ UNCHANGED <<Sharing!ring, i, consumed>>
          /\ full_waiters' \subseteq ProducerIds /\ empty_waiters' \subseteq Consumers
      BY <1>1, <2>1, SharingTypes DEF Sharing!push_to_buffer, Sharing!EnqueueWait
    <3> QED BY <3>1, SharingQuietInv
  <2>2. CASE Sharing!Enqueue(p, Sharing!Item(p, i[p])) /\ i' = [i EXCEPT ![p] = @ + 1]
    BY <1>1, <2>2, PushInv DEF Sharing!push_to_buffer
  <2> QED BY <1>1, <2>1, <2>2 DEF Sharing!push_to_buffer
<1>2. ASSUME NEW c \in Consumers, Sharing!pop_from_buffer(c) PROVE SharingInv'
  <2>1. CASE Sharing!DequeueWait(c) /\ UNCHANGED <<i, consumed>>
    <3>1. /\ UNCHANGED <<Sharing!ring, i, consumed>>
          /\ full_waiters' \subseteq ProducerIds /\ empty_waiters' \subseteq Consumers
      BY <2>1, SharingTypes DEF Sharing!DequeueWait
    <3> QED BY <3>1, SharingQuietInv
  <2>2. CASE ~(Sharing!DequeueWait(c) /\ UNCHANGED <<i, consumed>>)
    <3>1. PICK v : /\ Sharing!Dequeue(c, v) /\ consumed' = [consumed EXCEPT ![c] = Append(@, v)]
                   /\ i' = [i EXCEPT ![c] = @ + 1]
      BY <1>2, <2>2 DEF Sharing!pop_from_buffer
    <3> QED BY <3>1, PopInv
  <2> QED BY <2>1, <2>2
<1>3. CASE Sharing!Wakeup
  <2>1. /\ UNCHANGED <<Sharing!ring, i, consumed>>
        /\ full_waiters' \subseteq ProducerIds /\ empty_waiters' \subseteq Consumers
    BY <1>3, SharingTypes DEF Sharing!Wakeup, Sharing!SpuriousWakeup
  <2> QED BY <2>1, SharingQuietInv
<1>4. CASE Sharing!Finished
  <2>1. UNCHANGED sharing
    BY <1>4 DEF Sharing!Finished, Sharing!vars, Sharing!ring, Sharing!waiters, sharing
  <2> QED BY <2>1, SharingKeptInv
<1> QED BY <1>1, <1>2, <1>3, <1>4 DEF Sharing!Next

LEMMA SharingInvOrder ==
  ASSUME SharingInv
  PROVE  Sharing!PerProducerOrder
BY SharingTypes DEF SharingInv, ConsumedInOrder, Sharing!PerProducerOrder, Owner

LEMMA SharingAlways ==
  /\ Init => SharingInv
  /\ SharingInv /\ [Next]_vars => SharingInv'
<1>1. Init => SharingInv
  BY SharingInitInv DEF Init
<1>2. ASSUME SharingInv, [Next]_vars PROVE SharingInv'
  <2>1. CASE InSharing(Sharing!Next)
    BY <1>2, <2>1, SharingNextInv DEF InSharing
  <2>2. CASE ~InSharing(Sharing!Next)
    <3>1. UNCHANGED sharing
      BY <1>2, <2>2 DEF Next, vars, InServer, InPool, InPrinters
    <3> QED BY <1>2, <3>1, SharingKeptInv
  <2> QED BY <2>1, <2>2
<1> QED BY <1>1, <1>2
-----------------------------------------------------------------------------
\* The variables of the four programs keep their types: the indices of the two
\* ring buffers stay inside them, next_request_id stays within the requests the
\* clients make, and the number printed stays within MAX + 1.
THEOREM Types == Spec => []TypeOK
<1>1. ServerInv /\ PoolInv /\ Printers!TypeOK /\ SharingInv => TypeOK
  BY DEF TypeOK, ServerInv, PoolInv, SharingInv
<1> QED BY <1>1, ServerAlways, PoolAlways, PrintersAlways, SharingAlways, PTL DEF Spec

\* TASK/ThreadAssessment.c: once main has filled the queue each task waits in
\* it, is with one worker, or was processed, and exactly once.
\* POSIX/futexTask.c: a consumer meets the items of each producer in the order
\* they were pushed, however the consumers share them out.
THEOREM EachIsTakenOnce == Spec => []TakenOnce
<1>1. PoolInv /\ SharingInv => TakenOnce
  BY PoolInvOnce, SharingInvOrder DEF TakenOnce
<1> QED BY <1>1, PoolAlways, SharingAlways, PTL DEF Spec
=============================================================================
