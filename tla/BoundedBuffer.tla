---------------------------- MODULE BoundedBuffer ----------------------------
(***************************************************************************)
(* The monitor of POSIX/posix.c and POSIX/futexTask.c: a ring buffer, one  *)
(* mutex and two condition variables.  A call runs under the mutex from    *)
(* its lock to its unlock or to its pthread_cond_wait, so each of these    *)
(* pieces is one step.  A thread in a wait set sleeps in pthread_cond_wait;*)
(* one that was woken is where it was when it came: about to take the      *)
(* mutex and to test the condition of its while loop.                      *)
(***************************************************************************)
EXTENDS Integers, Sequences, FiniteSets

CONSTANTS Capacity,   \* QUEUE_SIZE, BUFFER_CAPACITY
          Values      \* what the buffer may hold, the zero of static storage included

BufferConstantsOK == Capacity \in Nat \ {0} /\ 0 \in Values

VARIABLES buffer, head, tail, count,
          full_waiters,   \* threads asleep on the not-full condition
          empty_waiters   \* threads asleep on the not-empty condition

ring    == <<buffer, head, tail, count>>
waiters == <<full_waiters, empty_waiters>>

Index == 0 .. Capacity - 1

RingTypeOK ==
  /\ buffer \in [Index -> Values]
  /\ head \in Index
  /\ tail \in Index
  /\ count \in 0 .. Capacity

BufferInit ==
  /\ buffer = [i \in Index |-> 0]
  /\ head = 0
  /\ tail = 0
  /\ count = 0
  /\ full_waiters = {}
  /\ empty_waiters = {}

\* The values held, oldest first.
Contents == [i \in 1 .. count |-> buffer[(head + i - 1) % Capacity]]

\* pthread_cond_signal: one sleeper wakes up, whichever, if there is one.
Signal(sleepers, left) ==
  \/ sleepers = {} /\ left = {}
  \/ \E t \in sleepers : left = sleepers \ {t}

EnqueueWait(t) ==
  /\ t \notin full_waiters
  /\ count = Capacity
  /\ full_waiters' = full_waiters \cup {t}
  /\ UNCHANGED <<ring, empty_waiters>>

\* Mutant: the consumer is not signalled.
EnqueueNoSignal(t, v) ==
  /\ t \notin full_waiters
  /\ count < Capacity
  /\ buffer' = [buffer EXCEPT ![tail] = v]
  /\ tail' = (tail + 1) % Capacity
  /\ count' = count + 1
  /\ UNCHANGED <<head, waiters>>

\* Mutant: the condition is not tested again after the wait.
EnqueueUnchecked(t, v) ==
  /\ t \notin full_waiters
  /\ buffer' = [buffer EXCEPT ![tail] = v]
  /\ tail' = (tail + 1) % Capacity
  /\ count' = count + 1
  /\ Signal(empty_waiters, empty_waiters')
  /\ UNCHANGED <<head, full_waiters>>

Enqueue(t, v) ==
  /\ t \notin full_waiters
  /\ count < Capacity
  /\ buffer' = [buffer EXCEPT ![tail] = v]
  /\ tail' = (tail + 1) % Capacity
  /\ count' = count + 1
  /\ Signal(empty_waiters, empty_waiters')
  /\ UNCHANGED <<head, full_waiters>>

DequeueWait(t) ==
  /\ t \notin empty_waiters
  /\ count = 0
  /\ empty_waiters' = empty_waiters \cup {t}
  /\ UNCHANGED <<ring, full_waiters>>

\* Mutant: the producer is not signalled.
DequeueNoSignal(t, v) ==
  /\ t \notin empty_waiters
  /\ count > 0
  /\ v = buffer[head]
  /\ head' = (head + 1) % Capacity
  /\ count' = count - 1
  /\ UNCHANGED <<buffer, tail, waiters>>

\* Mutant: the head stays where it is.
DequeueHeadStays(t, v) ==
  /\ t \notin empty_waiters
  /\ count > 0
  /\ v = buffer[head]
  /\ count' = count - 1
  /\ Signal(full_waiters, full_waiters')
  /\ UNCHANGED <<buffer, head, tail, empty_waiters>>

\* Mutant: the newest value is taken.
DequeueNewest(t, v) ==
  /\ t \notin empty_waiters
  /\ count > 0
  /\ v = buffer[(head + count - 1) % Capacity]
  /\ tail' = (head + count - 1) % Capacity
  /\ count' = count - 1
  /\ Signal(full_waiters, full_waiters')
  /\ UNCHANGED <<buffer, head, empty_waiters>>

\* dequeue returns v.
Dequeue(t, v) ==
  /\ t \notin empty_waiters
  /\ count > 0
  /\ v = buffer[head]
  /\ head' = (head + 1) % Capacity
  /\ count' = count - 1
  /\ Signal(full_waiters, full_waiters')
  /\ UNCHANGED <<buffer, tail, empty_waiters>>

\* pthread_cond_wait may return without a signal.
SpuriousWakeup(t) ==
  /\ t \in full_waiters \cup empty_waiters
  /\ full_waiters' = full_waiters \ {t}
  /\ empty_waiters' = empty_waiters \ {t}
  /\ UNCHANGED ring

Fifo == INSTANCE FifoQueue WITH items <- Contents
=============================================================================
