------------------------------ MODULE ThreadPool ------------------------------
(***************************************************************************)
(* TASK/ThreadAssessment.c: main puts NUM_TASKS tasks in a queue in one    *)
(* critical section and broadcasts; workers take and process tasks until   *)
(* one of them, after a task, reads count == 0 without the lock.           *)
(***************************************************************************)
EXTENDS Integers, FiniteSets

CONSTANTS Workers, Main, NUM_TASKS

ConstantsOK == NUM_TASKS \in Nat \ {0} /\ IsFiniteSet(Workers) /\ Main \notin Workers

VARIABLES tasks, front, rear, count,   \* TaskQueue
          cond,                        \* workers asleep on queue.cond
          pc,
          num,                         \* the task a worker has taken
          processed                    \* history: how often each task was processed

queue == <<tasks, front, rear, count>>
vars  == <<tasks, front, rear, count, cond, pc, num, processed>>

Tasks == 1 .. NUM_TASKS

TypeOK ==
  /\ tasks \in [0 .. NUM_TASKS - 1 -> 0 .. NUM_TASKS]
  /\ front \in 0 .. NUM_TASKS - 1
  /\ rear \in 0 .. NUM_TASKS - 1
  /\ count \in 0 .. NUM_TASKS
  /\ cond \subseteq Workers
  /\ pc \in [Workers \cup {Main} -> {"take", "process", "check", "fill", "join", "exited"}]
  /\ num \in [Workers -> 0 .. NUM_TASKS]
  /\ processed \in [Tasks -> Nat]

Init ==
  /\ tasks = [n \in 0 .. NUM_TASKS - 1 |-> 0]
  /\ front = 0
  /\ rear = 0
  /\ count = 0
  /\ cond = {}
  /\ pc = [t \in Workers \cup {Main} |-> IF t = Main THEN "fill" ELSE "take"]
  /\ num = [w \in Workers |-> 0]
  /\ processed = [n \in Tasks |-> 0]

Goto(t, label) == pc' = [pc EXCEPT ![t] = label]

\* The whole of main's critical section.
Fill ==
  /\ pc[Main] = "fill"
  /\ tasks' = [n \in 0 .. NUM_TASKS - 1 |-> ((n + NUM_TASKS - rear) % NUM_TASKS) + 1]
  /\ rear' = (rear + NUM_TASKS) % NUM_TASKS
  /\ count' = count + NUM_TASKS
  /\ cond' = {}
  /\ Goto(Main, "join")
  /\ UNCHANGED <<front, num, processed>>

Wait(w) ==
  /\ pc[w] = "take" /\ w \notin cond
  /\ count = 0
  /\ cond' = cond \cup {w}
  /\ UNCHANGED <<queue, pc, num, processed>>

\* Mutant: count is decremented after the unlock, here not yet.
TakeCountLate(w) ==
  /\ pc[w] = "take" /\ w \notin cond
  /\ count > 0
  /\ num' = [num EXCEPT ![w] = tasks[front]]
  /\ front' = (front + 1) % NUM_TASKS
  /\ count' \in {count, count - 1}
  /\ Goto(w, "process")
  /\ UNCHANGED <<tasks, rear, cond, processed>>

Take(w) ==
  /\ pc[w] = "take" /\ w \notin cond
  /\ count > 0
  /\ num' = [num EXCEPT ![w] = tasks[front]]
  /\ front' = (front + 1) % NUM_TASKS
  /\ count' = count - 1
  /\ Goto(w, "process")
  /\ UNCHANGED <<tasks, rear, cond, processed>>

Process(w) ==
  /\ pc[w] = "process"
  /\ processed' = [processed EXCEPT ![num[w]] = @ + 1]
  /\ Goto(w, "check")
  /\ UNCHANGED <<queue, cond, num>>

\* Mutant: the worker leaves after any task.
CheckLeaves(w) ==
  /\ pc[w] = "check"
  /\ Goto(w, "exited")
  /\ UNCHANGED <<queue, cond, num, processed>>

\* if (queue.count == 0) break, without the lock.
Check(w) ==
  /\ pc[w] = "check"
  /\ Goto(w, IF count = 0 THEN "exited" ELSE "take")
  /\ UNCHANGED <<queue, cond, num, processed>>

\* pthread_cond_wait may return without a signal.
SpuriousWakeup(w) ==
  /\ w \in cond
  /\ cond' = cond \ {w}
  /\ UNCHANGED <<queue, pc, num, processed>>

Join ==
  /\ pc[Main] = "join"
  /\ \A w \in Workers : pc[w] = "exited"
  /\ Goto(Main, "exited")
  /\ UNCHANGED <<queue, cond, num, processed>>

WorkerStep(w) == Wait(w) \/ Take(w) \/ Process(w) \/ Check(w)

Finished == pc[Main] = "exited" /\ UNCHANGED vars

Next ==
  \/ Fill
  \/ \E w \in Workers : WorkerStep(w) \/ SpuriousWakeup(w)
  \/ Join
  \/ Finished

Spec == Init /\ [][Next]_vars
-----------------------------------------------------------------------------
(* Properties.                                                             *)

\* No task is processed twice, nor by two workers, and none is dropped: once
\* the queue is filled a task waits in it, is with one worker, or was processed.
OncePerTask ==
  \A n \in Tasks : pc[Main] # "fill" =>
    processed[n]
      + Cardinality({w \in Workers : pc[w] = "process" /\ num[w] = n})
      + Cardinality({k \in 0 .. count - 1 : tasks[(front + k) % NUM_TASKS] = n}) = 1

\* Whatever the workers that leave read, all tasks are processed in the end.
EveryTaskProcessed == <>(\A n \in Tasks : processed[n] = 1)

\* "All tasks processed. Exiting." (ThreadAssessment.c:66): main gets there.
MainExits == <>(pc[Main] = "exited")
=============================================================================
