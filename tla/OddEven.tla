------------------------------- MODULE OddEven -------------------------------
(***************************************************************************)
(* TASK/ThreadsTask.c: two threads print the numbers up to MAX in turns.   *)
(* Each tests count <= MAX without the lock, then takes the lock, waits    *)
(* for its parity, and tests again.                                        *)
(***************************************************************************)
EXTENDS Integers

CONSTANT MAX

ConstantsOK == MAX \in Nat \ {0}

VARIABLES count, pc, cond   \* cond: threads asleep in pthread_cond_wait

vars == <<count, pc, cond>>

Threads   == {0, 1}   \* print_even and print_odd, by the parity they print
Turn(t)   == count % 2 = t
Signal(sleepers, left) ==
  \/ sleepers = {} /\ left = {}
  \/ \E t \in sleepers : left = sleepers \ {t}

TypeOK ==
  /\ count \in 1 .. MAX + 1
  /\ pc \in [Threads -> {"test", "locked", "exited"}]
  /\ cond \subseteq Threads

Init == count = 1 /\ pc = [t \in Threads |-> "test"] /\ cond = {}

\* while (count <= MAX), without the lock.
Test(t) ==
  /\ pc[t] = "test"
  /\ pc' = [pc EXCEPT ![t] = IF count <= MAX THEN "locked" ELSE "exited"]
  /\ UNCHANGED <<count, cond>>

Wait(t) ==
  /\ pc[t] = "locked" /\ t \notin cond
  /\ ~Turn(t)
  /\ cond' = cond \cup {t}
  /\ UNCHANGED <<count, pc>>

\* Mutant: count is not tested again under the lock.
PrintNumberUntested(t) ==
  /\ pc[t] = "locked" /\ t \notin cond
  /\ Turn(t)
  /\ count' = count + 1 /\ Signal(cond, cond')
  /\ pc' = [pc EXCEPT ![t] = "test"]

\* Mutant: the other thread is not signalled.
PrintNumberSilent(t) ==
  /\ pc[t] = "locked" /\ t \notin cond
  /\ Turn(t)
  /\ count' = IF count <= MAX THEN count + 1 ELSE count
  /\ pc' = [pc EXCEPT ![t] = "test"]
  /\ UNCHANGED cond

PrintNumber(t) ==
  /\ pc[t] = "locked" /\ t \notin cond
  /\ Turn(t)
  /\ IF count <= MAX THEN count' = count + 1 /\ Signal(cond, cond')
                     ELSE UNCHANGED <<count, cond>>
  /\ pc' = [pc EXCEPT ![t] = "test"]

\* pthread_cond_wait may return without a signal.
SpuriousWakeup(t) == t \in cond /\ cond' = cond \ {t} /\ UNCHANGED <<count, pc>>

Done == \A t \in Threads : pc[t] = "exited"

Finished == Done /\ UNCHANGED vars

Step(t) == Test(t) \/ Wait(t) \/ PrintNumber(t)

Next ==
  \/ \E t \in Threads : Step(t) \/ SpuriousWakeup(t)
  \/ Finished

Spec == Init /\ [][Next]_vars
-----------------------------------------------------------------------------
\* Both threads return, so that main's joins do, and all MAX numbers were
\* printed: neither is left asleep by the unlocked test of the other.
BothReturn == <>(Done /\ count = MAX + 1)
=============================================================================
