---------------------------- MODULE SharedCounter ----------------------------
(***************************************************************************)
(* Workers that add to one counter: the processes of                       *)
(* IPCs/SharedMemory/Counters.c under a System V semaphore, and the        *)
(* threads of POSIX/atomic_counter.c under a mutex or by an atomic         *)
(* instruction.  The plain ++ is a load and a store.                       *)
(***************************************************************************)
EXTENDS Integers, FiniteSets

CONSTANTS Kinds,        \* of "semaphore", "mutex", "atomic"
          Workers, increments

VARIABLES kind,
          sem,          \* the semaphore, or 1 when the mutex is free
          shared_total,
          step,         \* of a worker: where it is in its loop
          register, todo,
          final         \* what the parent reports, or -1

vars == <<kind, sem, shared_total, step, register, todo, final>>

ConstantsOK ==
  /\ Kinds \subseteq {"semaphore", "mutex", "atomic"}
  /\ IsFiniteSet(Workers) /\ increments \in Nat \ {0}

TypeOK ==
  /\ kind \in Kinds /\ sem \in {0, 1}
  /\ shared_total \in 0 .. Cardinality(Workers) * increments
  /\ step \in [Workers -> {"none", "failed", "test", "load", "store", "unlock", "exit"}]
  /\ register \in [Workers -> Nat] /\ todo \in [Workers -> 0 .. increments]
  /\ final \in Nat \cup {-1}

Init ==
  /\ kind \in Kinds
  /\ sem = 1 /\ shared_total = 0
  /\ step = [w \in Workers |-> "none"] /\ register = [w \in Workers |-> 0]
  /\ todo = [w \in Workers |-> increments]
  /\ final = -1

Go(w, from, to) == step[w] = from /\ step' = [step EXCEPT ![w] = to]

\* A fork that fails is passed over; a failing pthread_create is not modelled.
Start(w) ==
  /\ Go(w, "none", "test") \/ (kind = "semaphore" /\ Go(w, "none", "failed"))
  /\ UNCHANGED <<kind, sem, shared_total, register, todo, final>>

\* Mutant: nobody waits for the semaphore.
lockFree(w) ==
  /\ kind # "atomic" /\ todo[w] > 0
  /\ Go(w, "test", "load")
  /\ UNCHANGED <<kind, sem, shared_total, register, todo, final>>

lock(w) ==
  /\ kind # "atomic" /\ todo[w] > 0 /\ sem = 1
  /\ Go(w, "test", "load")
  /\ sem' = 0
  /\ UNCHANGED <<kind, shared_total, register, todo, final>>

Load(w) ==
  /\ Go(w, "load", "store")
  /\ register' = [register EXCEPT ![w] = shared_total]
  /\ UNCHANGED <<kind, sem, shared_total, todo, final>>

Increment(w) ==
  /\ Go(w, "store", "unlock")
  /\ shared_total' = register[w] + 1
  /\ UNCHANGED <<kind, sem, register, todo, final>>

unlock(w) ==
  /\ Go(w, "unlock", "test")
  /\ sem' = 1
  /\ todo' = [todo EXCEPT ![w] = @ - 1]
  /\ UNCHANGED <<kind, shared_total, register, final>>

\* atomic_fetch_add
atomic_worker(w) ==
  /\ kind = "atomic" /\ todo[w] > 0 /\ step[w] = "test"
  /\ shared_total' = shared_total + 1
  /\ todo' = [todo EXCEPT ![w] = @ - 1]
  /\ UNCHANGED <<kind, sem, step, register, final>>

Exit(w) ==
  /\ todo[w] = 0 /\ Go(w, "test", "exit")
  /\ UNCHANGED <<kind, sem, shared_total, register, todo, final>>

\* wait for every child, or join every thread: without a child it returns at once.
Report ==
  /\ final = -1
  /\ \A w \in Workers : step[w] \in {"failed", "exit"}
  /\ final' = shared_total
  /\ UNCHANGED <<kind, sem, shared_total, step, register, todo>>

Worker(w) == lock(w) \/ Load(w) \/ Increment(w) \/ unlock(w) \/ atomic_worker(w) \/ Exit(w)

Next == Report \/ \E w \in Workers : Start(w) \/ Worker(w)
-----------------------------------------------------------------------------
(* Properties.                                                             *)

Started == {w \in Workers : step[w] \notin {"none", "failed"}}

\* What is reported is the work of every worker that could be started.
NothingLost == final # -1 => final = Cardinality(Started) * increments

Reported == final # -1
=============================================================================
