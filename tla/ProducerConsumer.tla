--------------------------- MODULE ProducerConsumer ---------------------------
(***************************************************************************)
(* POSIX/futexTask.c: each producer pushes ITEMS_PER_PRODUCER items into   *)
(* the shared buffer; the consumers share out the total by an integer      *)
(* division made before they start.                                        *)
(***************************************************************************)
EXTENDS BoundedBuffer

CONSTANTS Producers,           \* the producer ids
          Consumers, ITEMS_PER_PRODUCER

VARIABLES i,         \* each thread's loop counter
          consumed   \* history: items popped by each consumer, in its order

vars == <<ring, waiters, i, consumed>>

Threads == Producers \cup Consumers
Item(p, n) == p * 100 + n
Items   == {Item(p, n) : p \in Producers, n \in 0 .. ITEMS_PER_PRODUCER - 1}

ConstantsOK ==
  /\ BufferConstantsOK
  /\ Producers \subseteq Nat \ {0}
  /\ IsFiniteSet(Producers) /\ IsFiniteSet(Consumers) /\ Consumers # {}
  /\ Producers \cap Consumers = {}
  /\ ITEMS_PER_PRODUCER \in 0 .. 100
  /\ (Cardinality(Producers) * ITEMS_PER_PRODUCER) % Cardinality(Consumers) = 0
  /\ Values = {0} \cup Items

items_to_consume ==
  (Cardinality(Producers) * ITEMS_PER_PRODUCER) \div Cardinality(Consumers)

TypeOK ==
  /\ RingTypeOK
  /\ full_waiters \subseteq Producers
  /\ empty_waiters \subseteq Consumers
  /\ i \in [Threads -> Nat]
  /\ consumed \in [Consumers -> Seq(Items)]

Init ==
  /\ BufferInit
  /\ i = [t \in Threads |-> 0]
  /\ consumed = [c \in Consumers |-> <<>>]

push_to_buffer(p) ==
  /\ i[p] < ITEMS_PER_PRODUCER
  /\ \/ EnqueueWait(p) /\ UNCHANGED i
     \/ Enqueue(p, Item(p, i[p])) /\ i' = [i EXCEPT ![p] = @ + 1]
  /\ UNCHANGED consumed

pop_from_buffer(c) ==
  /\ i[c] < items_to_consume
  /\ \/ DequeueWait(c) /\ UNCHANGED <<i, consumed>>
     \/ \E v \in Values :
          /\ Dequeue(c, v)
          /\ consumed' = [consumed EXCEPT ![c] = Append(@, v)]
          /\ i' = [i EXCEPT ![c] = @ + 1]

Wakeup == (\E t \in Threads : SpuriousWakeup(t)) /\ UNCHANGED <<i, consumed>>

Done ==
  /\ \A p \in Producers : i[p] = ITEMS_PER_PRODUCER
  /\ \A c \in Consumers : i[c] = items_to_consume

\* main has joined every thread.
Finished == Done /\ UNCHANGED vars

Next ==
  \/ \E p \in Producers : push_to_buffer(p)
  \/ \E c \in Consumers : pop_from_buffer(c)
  \/ Wakeup
  \/ Finished

Spec == Init /\ [][Next]_vars
-----------------------------------------------------------------------------
(* Properties.                                                             *)

\* A consumer meets the items of any one producer in the order they were
\* pushed, none of them twice.
PerProducerOrder ==
  \A c \in Consumers : \A a, b \in DOMAIN consumed[c] :
    a < b /\ consumed[c][a] \div 100 = consumed[c][b] \div 100
      => consumed[c][a] < consumed[c][b]

\* Every thread returns, so that main's joins do, and every item pushed was
\* popped: the shares of items_to_consume add up and no wake-up is lost.
AllConsumed ==
  <>(Done /\ Items = UNION {{consumed[c][n] : n \in DOMAIN consumed[c]} : c \in Consumers})
=============================================================================
