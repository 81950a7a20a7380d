---------------------------- MODULE ConcurrentMap ----------------------------
(***************************************************************************)
(* POSIX/thread-safe.c: a hash map with a mutex for each bucket, used by   *)
(* writer and reader threads.  A chain is prepended to and searched, so it *)
(* is the sequence of its <<key, value>> pairs.                            *)
(***************************************************************************)
EXTENDS Integers, Sequences, FiniteSetsExt

CONSTANTS Threads, Keys, Values,
          NUM_BUCKETS,
          hash            \* function from the keys to 0 .. NUM_BUCKETS - 1

VARIABLES buckets,        \* [head, lock] of each bucket
          call,           \* what each thread is doing
          last            \* history: the call that took effect last

vars == <<buckets, call, last>>

NotFound == -1
Nobody   == 0
Idle     == [op |-> "none", key |-> 0, value |-> 0, head |-> <<>>]

ConstantsOK ==
  /\ NUM_BUCKETS \in Nat \ {0} /\ hash \in [Keys -> 0 .. NUM_BUCKETS - 1]
  /\ Nobody \notin Threads

TypeOK ==
  /\ \A b \in DOMAIN buckets : buckets[b].lock \in Threads \cup {Nobody}
  /\ \A t \in Threads : call[t].op \in {"none", "insert", "lookup", "inside"}

hashmapInit ==
  /\ buckets = [b \in 0 .. NUM_BUCKETS - 1 |-> [head |-> <<>>, lock |-> Nobody]]
  /\ call = [t \in Threads |-> Idle]
  /\ last = <<"none", 0, NotFound>>

Bucket(t) == hash[call[t].key]

\* Where the search of a chain finds the key.
Curr(chain, k) == LET is == {i \in DOMAIN chain : chain[i][1] = k}
                  IN  IF is = {} THEN 0 ELSE Min(is)

\* writer_thread and reader_thread call one after the other.
Call(t, op, k, v) ==
  /\ call[t].op = "none"
  /\ call' = [call EXCEPT ![t] = [op |-> op, key |-> k, value |-> v, head |-> <<>>]]
  /\ UNCHANGED <<buckets, last>>

\* Mutant: the lock is not waited for.
MayLockAlways(t) == TRUE

MayLock(t) == buckets[Bucket(t)].lock = Nobody

\* hashmapInsert up to the end of its search: the chain as it was seen.
InsertEnter(t) ==
  /\ call[t].op = "insert" /\ MayLock(t)
  /\ buckets' = [buckets EXCEPT ![Bucket(t)].lock = t]
  /\ call' = [call EXCEPT ![t] = [op |-> "inside", key |-> @.key, value |-> @.value,
                                  head |-> buckets[Bucket(t)].head]]
  /\ UNCHANGED last

\* The value is replaced, or a node put in front of what was the head.
InsertLeave(t) ==
  LET k == call[t].key
      i == Curr(call[t].head, k)
  IN  /\ call[t].op = "inside"
      /\ buckets' = [buckets EXCEPT ![Bucket(t)] =
           [head |-> IF i = 0 THEN <<<<k, call[t].value>>>> \o call[t].head
                     ELSE [call[t].head EXCEPT ![i] = <<k, call[t].value>>],
            lock |-> Nobody]]
      /\ call' = [call EXCEPT ![t] = Idle]
      /\ last' = <<"put", k, call[t].value>>

hashmapInsert(t) == InsertEnter(t) \/ InsertLeave(t)

\* All of it under the lock, which keeps everyone else out of the bucket.
hashmapLookup(t) ==
  LET chain == buckets[Bucket(t)].head
      i     == Curr(chain, call[t].key)
  IN  /\ call[t].op = "lookup" /\ MayLock(t)
      /\ last' = <<"ask", call[t].key, IF i = 0 THEN NotFound ELSE chain[i][2]>>
      /\ call' = [call EXCEPT ![t] = Idle]
      /\ UNCHANGED buckets

\* main, once its threads are joined.
hashmapDestroy ==
  /\ \A t \in Threads : call[t] = Idle
  /\ buckets' = [b \in DOMAIN buckets |-> [head |-> <<>>, lock |-> Nobody]]
  /\ last' = <<"none", 0, NotFound>>
  /\ UNCHANGED call

Next ==
  \/ \E t \in Threads :
       \/ hashmapInsert(t) \/ hashmapLookup(t)
       \/ \E k \in Keys : Call(t, "lookup", k, 0) \/ \E v \in Values : Call(t, "insert", k, v)
  \/ hashmapDestroy
-----------------------------------------------------------------------------
(* Properties.                                                             *)

ValueAt(k) == LET chain == buckets[hash[k]].head IN chain[Curr(chain, k)][2]
Held       == {k \in Keys : Curr(buckets[hash[k]].head, k) # 0}

Map == INSTANCE KeyedMap WITH Missing <- NotFound, map <- [k \in Held |-> ValueAt(k)]

\* Whatever the interleaving, the calls take effect one at a time as those of
\* a map: no insertion is lost, and a lookup answers as of one moment.
IsMap == Map!Spec
=============================================================================
