------------------------------ MODULE FutexLatch ------------------------------
(***************************************************************************)
(* POSIX/futex,c: one-shot latches built on futexes.  The coordinator      *)
(* counts the start latch down; the workers wait for it, add to a shared   *)
(* counter with compare-and-swap, and count the completion latch down; the *)
(* coordinator waits for that one.  Every atomic load, store, fetch-and-   *)
(* add, compare-and-swap and futex call is one step.  The spinning that    *)
(* precedes a futex wait only reads, and is part of the first test.        *)
(***************************************************************************)
EXTENDS Integers, FiniteSets, Functions, FiniteSetTheorems, TLAPS

CONSTANTS Workers, Coordinator, Monitor,
          BaseIterations, MoreIterations,   \* of the first worker; more for each next
          MaxSpins                          \* cas_with_spin's max_spins

ASSUME ThreadsAssumption ==
  /\ IsFiniteSet(Workers) /\ Workers # {}
  /\ Coordinator \notin Workers /\ Monitor \notin Workers \cup {Coordinator}
ASSUME SpinsAssumption == MaxSpins \in Nat \ {0}
ASSUME WorkAssumption ==
  Workers \subseteq Nat /\ BaseIterations \in Nat /\ MoreIterations \in Nat

VARIABLES shared_counter, work_done,
          count, futex_var,   \* of the two latches
          sleepers,           \* threads in FUTEX_WAIT on each latch
          pc,
          i,                  \* iterations each worker has done
          expected, desired, spins   \* cas_with_spin's arguments and loop counter

latches == <<count, futex_var, sleepers>>
work    == <<shared_counter, i, expected, desired, spins>>
vars    == <<shared_counter, work_done, count, futex_var, sleepers, pc, i,
             expected, desired, spins>>

Latches == {"start", "completion"}

\* work_iterations, by the number of the worker.
Iterations == [w \in Workers |-> BaseIterations + w * MoreIterations]

Players == Workers \cup {Coordinator}
Threads == Players \cup {Monitor}

WaitsOn(t)      == IF t = Coordinator THEN "completion" ELSE "start"
CountsDown(t)   == IF t = Coordinator THEN "start" ELSE "completion"
AfterWait(t)    == IF t = Coordinator THEN "exited" ELSE "load"
AfterRelease(t) == IF t = Coordinator THEN "test" ELSE "exited"

Waiting   == {"test", "futex_wait", "asleep"}
Working   == {"load", "cas", "reload"}
Releasing == {"release", "wake"}
PC        == Waiting \cup Working \cup Releasing \cup {"count_down", "monitor", "exited"}

TypeOK ==
  /\ shared_counter \in Nat
  /\ work_done \in 0 .. Cardinality(Workers)
  /\ count \in [Latches -> Nat]
  /\ futex_var \in [Latches -> {0, 1}]
  /\ sleepers \in [Latches -> SUBSET Players]
  /\ pc \in [Threads -> PC]
  /\ i \in [Workers -> Nat]
  /\ expected \in [Workers -> Nat]
  /\ desired \in [Workers -> Nat]
  /\ spins \in [Workers -> 0 .. MaxSpins]

Init ==
  /\ shared_counter = 0
  /\ work_done = 0
  /\ count = [l \in Latches |-> IF l = "start" THEN 1 ELSE Cardinality(Workers)]
  /\ futex_var = [l \in Latches |-> 0]
  /\ sleepers = [l \in Latches |-> {}]
  /\ pc = [t \in Threads |-> IF t \in Workers THEN "test"
                             ELSE IF t = Coordinator THEN "count_down" ELSE "monitor"]
  /\ i = [w \in Workers |-> 0]
  /\ expected = i
  /\ desired = i
  /\ spins = i

Goto(t, label) == pc' = [pc EXCEPT ![t] = label]
-----------------------------------------------------------------------------
(* latch_wait: while (futex_var == 0) FUTEX_WAIT.                          *)

Test(t) ==
  /\ pc[t] = "test"
  /\ Goto(t, IF futex_var[WaitsOn(t)] = 0 THEN "futex_wait" ELSE AfterWait(t))
  /\ UNCHANGED <<latches, work, work_done>>

\* Mutant: a wait that does not compare the futex word with 0.
FutexWaitBlind(t) ==
  /\ pc[t] = "futex_wait"
  /\ sleepers' = [sleepers EXCEPT ![WaitsOn(t)] = @ \cup {t}]
  /\ Goto(t, "asleep")
  /\ UNCHANGED <<count, futex_var, work, work_done>>

\* FUTEX_WAIT: the kernel compares and puts to sleep in one step; EAGAIN if
\* the word is no longer 0.
FutexWait(t) ==
  /\ pc[t] = "futex_wait"
  /\ IF futex_var[WaitsOn(t)] = 0
       THEN /\ sleepers' = [sleepers EXCEPT ![WaitsOn(t)] = @ \cup {t}]
            /\ Goto(t, "asleep")
       ELSE Goto(t, "test") /\ UNCHANGED sleepers
  /\ UNCHANGED <<count, futex_var, work, work_done>>

\* FUTEX_WAIT returns because of a wake-up.
Awake(t) ==
  /\ pc[t] = "asleep"
  /\ t \notin sleepers[WaitsOn(t)]
  /\ Goto(t, "test")
  /\ UNCHANGED <<latches, work, work_done>>

\* FUTEX_WAIT returns EINTR.
Interrupted(t) ==
  /\ pc[t] = "asleep"
  /\ sleepers' = [sleepers EXCEPT ![WaitsOn(t)] = @ \ {t}]
  /\ Goto(t, "test")
  /\ UNCHANGED <<count, futex_var, work, work_done>>
-----------------------------------------------------------------------------
(* latch_count_down                                                        *)

\* Mutant: the latch is opened one count too early.
CountDownEarly(t) ==
  /\ pc[t] = "count_down"
  /\ count' = [count EXCEPT ![CountsDown(t)] = @ - 1]
  /\ Goto(t, IF count[CountsDown(t)] <= 2 THEN "release" ELSE AfterRelease(t))
  /\ UNCHANGED <<futex_var, sleepers, work, work_done>>

CountDown(t) ==
  /\ pc[t] = "count_down"
  /\ count' = [count EXCEPT ![CountsDown(t)] = @ - 1]
  /\ Goto(t, IF count[CountsDown(t)] = 1 THEN "release" ELSE AfterRelease(t))
  /\ UNCHANGED <<futex_var, sleepers, work, work_done>>

Release(t) ==
  /\ pc[t] = "release"
  /\ futex_var' = [futex_var EXCEPT ![CountsDown(t)] = 1]
  /\ Goto(t, "wake")
  /\ UNCHANGED <<count, sleepers, work, work_done>>

\* Mutant: FUTEX_WAKE of one waiter instead of INT_MAX.
WakeOne(t) ==
  /\ pc[t] = "wake"
  /\ \/ sleepers[CountsDown(t)] = {} /\ UNCHANGED sleepers
     \/ \E s \in sleepers[CountsDown(t)] :
          sleepers' = [sleepers EXCEPT ![CountsDown(t)] = @ \ {s}]
  /\ Goto(t, AfterRelease(t))
  /\ UNCHANGED <<count, futex_var, work, work_done>>

\* FUTEX_WAKE of every waiter.
Wake(t) ==
  /\ pc[t] = "wake"
  /\ sleepers' = [sleepers EXCEPT ![CountsDown(t)] = {}]
  /\ Goto(t, AfterRelease(t))
  /\ UNCHANGED <<count, futex_var, work, work_done>>
-----------------------------------------------------------------------------
(* worker_thread: add one to the counter with cas_with_spin, in a loop.    *)

Load(w) ==
  /\ pc[w] = "load"
  /\ i[w] < Iterations[w]
  /\ expected' = [expected EXCEPT ![w] = shared_counter]
  /\ desired' = [desired EXCEPT ![w] = shared_counter + 1]
  /\ spins' = [spins EXCEPT ![w] = 0]
  /\ Goto(w, "cas")
  /\ UNCHANGED <<latches, work_done, shared_counter, i>>

\* Mutant: the swap of the last spin is reported as a failure.
SwapForgotten(w) ==
  /\ pc[w] = "cas"
  /\ shared_counter = expected[w]
  /\ shared_counter' = desired[w]
  /\ i' = [i EXCEPT ![w] = IF spins[w] + 1 = MaxSpins THEN @ ELSE @ + 1]
  /\ Goto(w, "load")
  /\ UNCHANGED <<latches, work_done, expected, desired, spins>>

\* The compare-and-swap succeeds.
Swap(w) ==
  /\ pc[w] = "cas"
  /\ shared_counter = expected[w]
  /\ shared_counter' = desired[w]
  /\ i' = [i EXCEPT ![w] = @ + 1]
  /\ Goto(w, "load")
  /\ UNCHANGED <<latches, work_done, expected, desired, spins>>

\* It fails: the counter has another value, or the weak form failed anyway.
SwapFails(w) ==
  /\ pc[w] = "cas"
  /\ Goto(w, "reload")
  /\ UNCHANGED <<latches, work, work_done>>

\* Mutant: one spin too many.
ReloadOneMore(w) ==
  /\ pc[w] = "reload"
  /\ expected' = [expected EXCEPT ![w] = shared_counter]
  /\ spins' = [spins EXCEPT ![w] = @ + 1]
  /\ Goto(w, IF spins[w] = MaxSpins THEN "load" ELSE "cas")
  /\ UNCHANGED <<latches, work_done, shared_counter, i, desired>>

\* The expected value is loaded again, the desired one kept, until the spins
\* are used up.
Reload(w) ==
  /\ pc[w] = "reload"
  /\ expected' = [expected EXCEPT ![w] = shared_counter]
  /\ spins' = [spins EXCEPT ![w] = @ + 1]
  /\ Goto(w, IF spins[w] + 1 = MaxSpins THEN "load" ELSE "cas")
  /\ UNCHANGED <<latches, work_done, shared_counter, i, desired>>

WorkDone(w) ==
  /\ pc[w] = "load"
  /\ i[w] = Iterations[w]
  /\ work_done' = work_done + 1
  /\ Goto(w, "count_down")
  /\ UNCHANGED <<latches, work>>

\* monitor_thread reports until all the work is done.
MonitorReturn ==
  /\ pc[Monitor] = "monitor"
  /\ work_done = Cardinality(Workers)
  /\ Goto(Monitor, "exited")
  /\ UNCHANGED <<latches, work, work_done>>
-----------------------------------------------------------------------------
Done == \A t \in Threads : pc[t] = "exited"

\* main has joined every thread.
Finished == Done /\ UNCHANGED vars

LatchStep(t) ==
  Test(t) \/ FutexWait(t) \/ Awake(t) \/ CountDown(t) \/ Release(t) \/ Wake(t)
WorkStep(w) == Load(w) \/ SwapFails(w) \/ Reload(w) \/ WorkDone(w)

Next ==
  \/ \E t \in Players : LatchStep(t) \/ Interrupted(t)
  \/ \E w \in Workers : Swap(w) \/ WorkStep(w)
  \/ MonitorReturn
  \/ Finished

Spec == Init /\ [][Next]_vars

\* Every thread runs when it can, nothing interrupts a futex wait for it, and
\* a compare-and-swap that could succeed again and again once does.
FairSpec ==
  /\ Spec
  /\ \A t \in Players : WF_vars(LatchStep(t))
  /\ \A w \in Workers : WF_vars(Swap(w) \/ WorkStep(w)) /\ SF_vars(Swap(w))
  /\ WF_vars(MonitorReturn)
-----------------------------------------------------------------------------
(* Properties.                                                             *)

\* A latch that is open has no sleeper that nobody is going to wake: the
\* store of futex_var, the FUTEX_WAKE and a late FUTEX_WAIT never miss.
NoSleeperMissed ==
  \A l \in Latches : futex_var[l] = 1 /\ sleepers[l] # {} =>
    \E t \in Players : CountsDown(t) = l /\ pc[t] = "wake"

\* No worker works before the coordinator has opened the start latch, and the
\* coordinator does not pass the completion latch before all work is done.
LatchesHold ==
  /\ \A w \in Workers : pc[w] \notin Waiting => count["start"] = 0
  /\ pc[Coordinator] = "exited" =>
       work_done = Cardinality(Workers) /\ \A w \in Workers : i[w] = Iterations[w]

\* The increments that were made, each by the worker and its iteration.
Increments == UNION {{w} \X (1 .. i[w]) : w \in Workers}

\* The counter never runs ahead of the increments that were made.
CounterNotAhead == shared_counter <= Cardinality(Increments)

\* Every thread returns, whatever the compare-and-swaps do to each other.
AllReturn == <>Done

\* "Expected counter value: %d" (futex,c:330): at the end the counter is the
\* sum of the iterations.
ExpectedCounter == Done => shared_counter = FoldFunction(+, 0, Iterations)
-----------------------------------------------------------------------------
(* Proofs, for any number of workers, any iterations and any number of     *)
(* spins.                                                                  *)

\* Workers that have yet to count the completion latch down, and those that
\* have said that their work is done.
Pending == {w \in Workers : pc[w] \in Waiting \cup Working \cup {"count_down"}}
Ready   == {w \in Workers : pc[w] \in {"count_down", "exited"} \cup Releasing}

CoordinatorPC == {"count_down", "release", "wake", "test", "futex_wait", "asleep", "exited"}
WorkerPC      == Waiting \cup Working \cup Releasing \cup {"count_down", "exited"}

Places ==
  /\ pc[Coordinator] \in CoordinatorPC
  /\ \A w \in Workers : pc[w] \in WorkerPC
  /\ pc[Monitor] \in {"monitor", "exited"}

\* The start latch: closed until the coordinator has gone through Release.
StartLatch ==
  /\ count["start"] = IF pc[Coordinator] = "count_down" THEN 1 ELSE 0
  /\ futex_var["start"] = 1 => pc[Coordinator] \notin {"count_down", "release"}
  /\ \A w \in Workers : pc[w] \notin Waiting => futex_var["start"] = 1

\* The completion latch: closed until no worker is pending.
CompletionLatch ==
  /\ count["completion"] = Cardinality(Pending)
  /\ futex_var["completion"] = 1 => count["completion"] = 0
  /\ \A w \in Workers : pc[w] = "release" => count["completion"] = 0
  /\ pc[Coordinator] = "exited" => futex_var["completion"] = 1

DoneCounted == work_done = Cardinality(Ready)

\* The loops of the workers stop where they should.
Loops ==
  /\ \A w \in Workers : i[w] <= Iterations[w]
  /\ \A w \in Workers : pc[w] \in {"cas", "reload"} => i[w] < Iterations[w]
  /\ \A w \in Ready : i[w] = Iterations[w]
  /\ \A w \in Workers : pc[w] \in {"cas", "reload"} => spins[w] < MaxSpins

IInv ==
  TypeOK /\ Places /\ StartLatch /\ CompletionLatch /\ DoneCounted /\ Loops
    /\ NoSleeperMissed

USE ThreadsAssumption, SpinsAssumption
USE DEF Waiting, Working, Releasing
-----------------------------------------------------------------------------
LEMMA IterationsType == Iterations \in [Workers -> Nat]
<1> SUFFICES ASSUME NEW w \in Workers PROVE BaseIterations + w * MoreIterations \in Nat
  BY DEF Iterations
<1>1. w \in Nat
  BY WorkAssumption
<1> QED BY <1>1, WorkAssumption

USE IterationsType

LEMMA FiniteParts ==
  /\ IsFiniteSet(Pending) /\ Cardinality(Pending) \in Nat
  /\ Cardinality(Pending) = 0 <=> Pending = {}
  /\ IsFiniteSet(Ready) /\ Cardinality(Ready) \in Nat
  /\ Cardinality(Ready) <= Cardinality(Workers)
  /\ Cardinality(Ready) = Cardinality(Workers) <=> Ready = Workers
  /\ Cardinality(Workers) \in Nat \ {0}
<1>1. Pending \subseteq Workers /\ Ready \subseteq Workers
  BY DEF Pending, Ready
<1>2. IsFiniteSet(Pending) /\ IsFiniteSet(Ready)
  BY <1>1, FS_Subset
<1>3. /\ Cardinality(Ready) <= Cardinality(Workers)
      /\ Cardinality(Ready) = Cardinality(Workers) => Ready = Workers
  BY <1>1, FS_Subset
<1> QED BY <1>2, <1>3, FS_CardinalityType, FS_EmptySet

LEMMA EnterLeave ==
  ASSUME NEW S, IsFiniteSet(S), NEW x
  PROVE  /\ x \notin S => Cardinality(S \cup {x}) = Cardinality(S) + 1
         /\ x \in S => Cardinality(S \ {x}) = Cardinality(S) - 1
BY FS_AddElement, FS_RemoveElement

\* A step that moves one thread leaves the others where they are.
LEMMA Moved ==
  ASSUME TypeOK, NEW t \in Threads, NEW l, Goto(t, l)
  PROVE  /\ pc'[t] = l
         /\ \A u \in Threads : u # t => pc'[u] = pc[u]
         /\ l \in PC => pc' \in [Threads -> PC]
BY DEF TypeOK, Goto

LEMMA WhoIsWho ==
  /\ Coordinator \in Players /\ Coordinator \notin Workers
  /\ Workers \subseteq Players /\ Players \subseteq Threads
  /\ Monitor \in Threads /\ Monitor \notin Players
  /\ \A t \in Players : t = Coordinator \/ t \in Workers
  /\ \A w \in Workers : WaitsOn(w) = "start" /\ CountsDown(w) = "completion"
                        /\ AfterWait(w) = "load" /\ AfterRelease(w) = "exited"
  /\ WaitsOn(Coordinator) = "completion" /\ CountsDown(Coordinator) = "start"
  /\ AfterWait(Coordinator) = "exited" /\ AfterRelease(Coordinator) = "test"
BY DEF Players, Threads, WaitsOn, CountsDown, AfterWait, AfterRelease

LEMMA InitIInv == Init => IInv
<1> SUFFICES ASSUME Init PROVE IInv
  OBVIOUS
<1>1. /\ pc[Coordinator] = "count_down" /\ pc[Monitor] = "monitor"
      /\ \A w \in Workers : pc[w] = "test"
  BY WhoIsWho DEF Init
<1>2. Pending = Workers /\ Ready = {}
  BY <1>1 DEF Pending, Ready
<1>3. TypeOK
  BY FiniteParts, <1>1 DEF Init, TypeOK, PC, Latches, Threads, Players
<1>4. Places /\ StartLatch
  BY <1>1 DEF Init, Places, StartLatch, CoordinatorPC, WorkerPC, Latches
<1>5. CompletionLatch
  BY <1>1, <1>2 DEF Init, CompletionLatch, Latches
<1>6. DoneCounted /\ Loops
  BY <1>1, <1>2, FS_EmptySet DEF Init, DoneCounted, Loops
<1>7. NoSleeperMissed
  BY DEF Init, NoSleeperMissed
<1> QED BY <1>3, <1>4, <1>5, <1>6, <1>7 DEF IInv

\* What a step that moves worker w to l does to the two sets of workers.
LEMMA MoveWorker ==
  ASSUME TypeOK, NEW w \in Workers, NEW l \in WorkerPC, Goto(w, l)
  PROVE  /\ Pending' = IF l \in Waiting \cup Working \cup {"count_down"}
                         THEN Pending \cup {w} ELSE Pending \ {w}
         /\ Ready' = IF l \in {"count_down", "exited"} \cup Releasing
                       THEN Ready \cup {w} ELSE Ready \ {w}
<1>1. \A u \in Workers : pc'[u] = IF u = w THEN l ELSE pc[u]
  BY Moved, WhoIsWho
<1> QED BY <1>1 DEF Pending, Ready

LEMMA MoveOther ==
  ASSUME TypeOK, NEW t \in Threads \ Workers, NEW l, Goto(t, l)
  PROVE  Pending' = Pending /\ Ready' = Ready
<1>1. \A u \in Workers : pc'[u] = pc[u]
  BY Moved, WhoIsWho
<1> QED BY <1>1 DEF Pending, Ready
-----------------------------------------------------------------------------
\* A thread that stays in latch_wait: Test, FutexWait, Awake and Interrupted.
LEMMA StayWaiting ==
  ASSUME IInv, NEW t \in Players, pc[t] \in Waiting, NEW l \in Waiting, Goto(t, l),
         UNCHANGED <<count, futex_var, work, work_done>>,
         sleepers' \in [Latches -> SUBSET Players],
         \A k \in Latches : futex_var[k] = 1 => sleepers'[k] \subseteq sleepers[k]
  PROVE  IInv'
<1> USE DEF IInv, work
<1>1. /\ pc'[t] = l /\ \A u \in Threads : u # t => pc'[u] = pc[u]
      /\ pc' \in [Threads -> PC]
  BY Moved, WhoIsWho DEF PC
<1>2. Pending' = Pending /\ Ready' = Ready
  <2>1. CASE t \in Workers
    <3>1. t \in Pending /\ t \notin Ready
      BY <2>1 DEF Pending, Ready
    <3>2. l \in WorkerPC /\ l \notin {"count_down", "exited"} \cup Releasing
      BY DEF WorkerPC
    <3>3. Pending' = Pending \cup {t} /\ Ready' = Ready \ {t}
      BY <2>1, <3>2, MoveWorker
    <3> QED BY <3>1, <3>3
  <2>2. CASE t \notin Workers
    BY <2>2, MoveOther, WhoIsWho
  <2> QED BY <2>1, <2>2
<1>3. TypeOK'
  BY <1>1 DEF TypeOK
<1>4. Places'
  BY <1>1, WhoIsWho DEF Places, CoordinatorPC, WorkerPC
<1>5. StartLatch'
  BY <1>1, WhoIsWho DEF StartLatch, CoordinatorPC
<1>6. CompletionLatch'
  BY <1>1, <1>2, WhoIsWho DEF CompletionLatch
<1>7. DoneCounted' /\ Loops'
  BY <1>1, <1>2, WhoIsWho DEF DoneCounted, Loops
<1>8. NoSleeperMissed'
  BY <1>1, WhoIsWho DEF NoSleeperMissed, CoordinatorPC, WorkerPC
<1> QED BY <1>3, <1>4, <1>5, <1>6, <1>7, <1>8

\* A worker that starts or goes on with its iterations.
LEMMA StayWorking ==
  ASSUME IInv, NEW w \in Workers, pc[w] \in Waiting \cup Working,
         NEW l \in Working, Goto(w, l), UNCHANGED <<latches, work_done>>,
         futex_var["start"] = 1,
         shared_counter' \in Nat, i' \in [Workers -> Nat],
         expected' \in [Workers -> Nat], desired' \in [Workers -> Nat],
         spins' \in [Workers -> 0 .. MaxSpins], Loops'
  PROVE  IInv'
<1> USE DEF IInv, latches
<1>1. /\ pc'[w] = l /\ \A u \in Threads : u # w => pc'[u] = pc[u]
      /\ pc' \in [Threads -> PC]
  BY Moved, WhoIsWho DEF PC
<1>2. Pending' = Pending /\ Ready' = Ready
  <2>1. w \in Pending /\ w \notin Ready
    BY DEF Pending, Ready
  <2> QED BY <2>1, MoveWorker DEF WorkerPC
<1>3. TypeOK'
  BY <1>1 DEF TypeOK
<1>4. Places'
  BY <1>1, WhoIsWho DEF Places, WorkerPC
<1>5. StartLatch' /\ CompletionLatch' /\ DoneCounted'
  BY <1>1, <1>2, WhoIsWho DEF StartLatch, CompletionLatch, DoneCounted
<1>6. NoSleeperMissed'
  BY <1>1, WhoIsWho DEF NoSleeperMissed
<1> QED BY <1>3, <1>4, <1>5, <1>6

LEMMA WaitIInv ==
  ASSUME IInv, NEW t \in Players, Test(t) \/ FutexWait(t) \/ Awake(t) \/ Interrupted(t)
  PROVE  IInv'
<1>0. WaitsOn(t) \in Latches
  BY DEF WaitsOn, Latches
<1>1. CASE Test(t)
  <2>1. CASE futex_var[WaitsOn(t)] = 0
    BY <1>1, <2>1, StayWaiting DEF Test, latches, IInv, TypeOK
  <2>2. CASE futex_var[WaitsOn(t)] # 0 /\ t \in Workers
    <3>1. futex_var["start"] = 1
      BY <2>2, WhoIsWho DEF IInv, TypeOK, Latches
    <3>2. Goto(t, "load") /\ UNCHANGED <<latches, work, work_done>>
      BY <1>1, <2>2, WhoIsWho DEF Test
    <3>3. Loops'
      <4>1. \A u \in Workers : pc'[u] = IF u = t THEN "load" ELSE pc[u]
        BY <2>2, <3>2, Moved, WhoIsWho DEF IInv
      <4>2. Ready' \subseteq Ready
        BY <4>1 DEF Ready
      <4> QED BY <3>2, <4>1, <4>2 DEF IInv, Loops, work
    <3> QED BY <1>1, <2>2, <3>1, <3>2, <3>3, StayWorking DEF Test, work, IInv, TypeOK
  <2>3. CASE futex_var[WaitsOn(t)] # 0 /\ t = Coordinator
    <3>1. futex_var["completion"] = 1 /\ Goto(t, "exited") /\ pc[t] = "test"
          /\ UNCHANGED <<latches, work, work_done>>
      BY <1>1, <2>3, WhoIsWho DEF IInv, TypeOK, Latches, Test
    <3>2. /\ pc'[t] = "exited" /\ \A u \in Threads : u # t => pc'[u] = pc[u]
          /\ pc' \in [Threads -> PC]
      BY <3>1, Moved, WhoIsWho DEF IInv, PC
    <3>3. Pending' = Pending /\ Ready' = Ready
      BY <2>3, <3>1, MoveOther, WhoIsWho DEF IInv
    <3>4. TypeOK'
      BY <3>1, <3>2 DEF IInv, TypeOK, latches, work
    <3>5. Places' /\ StartLatch'
      BY <2>3, <3>1, <3>2, WhoIsWho DEF IInv, Places, CoordinatorPC, StartLatch, latches
    <3>6. CompletionLatch' /\ DoneCounted' /\ Loops'
      BY <2>3, <3>1, <3>2, <3>3, WhoIsWho DEF IInv, CompletionLatch, DoneCounted, Loops,
         latches, work
    <3>7. NoSleeperMissed'
      BY <2>3, <3>1, <3>2, WhoIsWho DEF IInv, NoSleeperMissed, latches
    <3> QED BY <3>4, <3>5, <3>6, <3>7 DEF IInv
  <2> QED BY <2>1, <2>2, <2>3, WhoIsWho
<1>2. CASE FutexWait(t)
  <2>1. CASE futex_var[WaitsOn(t)] = 0
    <3>1. /\ sleepers' \in [Latches -> SUBSET Players]
          /\ \A k \in Latches : futex_var[k] = 1 => sleepers'[k] \subseteq sleepers[k]
      BY <1>0, <1>2, <2>1 DEF FutexWait, IInv, TypeOK
    <3> QED BY <1>2, <2>1, <3>1, StayWaiting DEF FutexWait
  <2>2. CASE futex_var[WaitsOn(t)] # 0
    BY <1>2, <2>2, StayWaiting DEF FutexWait, IInv, TypeOK
  <2> QED BY <2>1, <2>2
<1>3. CASE Awake(t)
  BY <1>3, StayWaiting DEF Awake, latches, IInv, TypeOK
<1>4. CASE Interrupted(t)
  <2>1. /\ sleepers' \in [Latches -> SUBSET Players]
        /\ \A k \in Latches : sleepers'[k] \subseteq sleepers[k]
    BY <1>0, <1>4 DEF Interrupted, IInv, TypeOK
  <2> QED BY <1>4, <2>1, StayWaiting DEF Interrupted
<1> QED BY <1>1, <1>2, <1>3, <1>4
-----------------------------------------------------------------------------
LEMMA WorkerReleaseIInv ==
  ASSUME IInv, NEW w \in Workers, CountDown(w) \/ Release(w) \/ Wake(w)
  PROVE  IInv'
<1> USE DEF IInv, work
<1>0. /\ CountsDown(w) = "completion" /\ AfterRelease(w) = "exited"
      /\ w \in Threads /\ w \in Players
  BY WhoIsWho
<1>1. CASE CountDown(w)
  <2> DEFINE l == IF count["completion"] = 1 THEN "release" ELSE "exited"
  <2>1. /\ pc[w] = "count_down" /\ Goto(w, l)
        /\ count' = [count EXCEPT !["completion"] = @ - 1]
        /\ UNCHANGED <<futex_var, sleepers, work, work_done>>
    BY <1>0, <1>1 DEF CountDown
  <2>2. /\ pc'[w] = l /\ l \in {"release", "exited"}
        /\ \A u \in Threads : u # w => pc'[u] = pc[u]
        /\ pc' \in [Threads -> PC]
    BY <1>0, <2>1, Moved DEF PC
  <2> HIDE DEF l
  <2>3. w \in Pending /\ w \in Ready
    BY <2>1 DEF Pending, Ready
  <2>4. Pending' = Pending \ {w} /\ Ready' = Ready
    <3>1. Pending' = Pending \ {w} /\ Ready' = Ready \cup {w}
      BY <2>1, <2>2, MoveWorker DEF WorkerPC
    <3> QED BY <2>3, <3>1
  <2>5. count["completion"] \in Nat \ {0} /\ futex_var["completion"] = 0
    BY <2>3, FiniteParts DEF CompletionLatch, TypeOK, Latches
  <2>6. /\ count' \in [Latches -> Nat]
        /\ count'["completion"] = count["completion"] - 1
        /\ count'["start"] = count["start"]
    BY <2>1, <2>5 DEF TypeOK, Latches
  <2>7. TypeOK'
    BY <2>1, <2>2, <2>6 DEF TypeOK
  <2>8. Places' /\ StartLatch'
    BY <2>1, <2>2, <2>6, WhoIsWho DEF Places, WorkerPC, StartLatch
  <2>9. CompletionLatch'
    <3>1. count'["completion"] = Cardinality(Pending')
      BY <2>3, <2>4, <2>6, FiniteParts, EnterLeave DEF CompletionLatch
    <3>2. ASSUME NEW u \in Workers, pc'[u] = "release" PROVE count'["completion"] = 0
      BY <2>2, <2>5, <2>6, <3>2, WhoIsWho DEF CompletionLatch, l
    <3> QED BY <2>1, <2>2, <2>5, <3>1, <3>2, WhoIsWho DEF CompletionLatch
  <2>10. DoneCounted' /\ Loops'
    BY <2>1, <2>2, <2>4, WhoIsWho DEF DoneCounted, Loops
  <2>11. NoSleeperMissed'
    BY <2>1, <2>2, WhoIsWho DEF NoSleeperMissed
  <2> QED BY <2>7, <2>8, <2>9, <2>10, <2>11
<1>2. CASE Release(w)
  <2>1. /\ pc[w] = "release" /\ Goto(w, "wake")
        /\ futex_var' = [futex_var EXCEPT !["completion"] = 1]
        /\ UNCHANGED <<count, sleepers, work, work_done>>
    BY <1>0, <1>2 DEF Release
  <2>2. /\ pc'[w] = "wake"
        /\ \A u \in Threads : u # w => pc'[u] = pc[u]
        /\ pc' \in [Threads -> PC]
    BY <1>0, <2>1, Moved DEF PC
  <2>3. Pending' = Pending /\ Ready' = Ready
    <3>1. w \notin Pending /\ w \in Ready
      BY <2>1 DEF Pending, Ready
    <3>2. Pending' = Pending \ {w} /\ Ready' = Ready \cup {w}
      BY <2>1, MoveWorker DEF WorkerPC
    <3> QED BY <3>1, <3>2
  <2>4. /\ futex_var' \in [Latches -> {0, 1}] /\ futex_var'["completion"] = 1
        /\ futex_var'["start"] = futex_var["start"]
    BY <2>1 DEF TypeOK, Latches
  <2>5. TypeOK'
    BY <2>1, <2>2, <2>4 DEF TypeOK
  <2>6. Places' /\ StartLatch'
    BY <2>1, <2>2, <2>4, WhoIsWho DEF Places, WorkerPC, StartLatch
  <2>7. CompletionLatch'
    BY <2>1, <2>2, <2>3, <2>4, WhoIsWho DEF CompletionLatch
  <2>8. DoneCounted' /\ Loops'
    BY <2>1, <2>2, <2>3, WhoIsWho DEF DoneCounted, Loops
  <2>9. NoSleeperMissed'
    <3>1. ASSUME NEW k \in Latches, futex_var'[k] = 1, sleepers'[k] # {}
          PROVE  \E t \in Players : CountsDown(t) = k /\ pc'[t] = "wake"
      <4>1. CASE k = "completion"
        BY <1>0, <2>2, <4>1
      <4>2. CASE k # "completion"
        BY <1>0, <2>1, <2>2, <2>4, <3>1, <4>2, WhoIsWho DEF NoSleeperMissed, Latches
      <4> QED BY <4>1, <4>2
    <3> QED BY <3>1 DEF NoSleeperMissed
  <2> QED BY <2>5, <2>6, <2>7, <2>8, <2>9
<1>3. CASE Wake(w)
  <2>1. /\ pc[w] = "wake" /\ Goto(w, "exited")
        /\ sleepers' = [sleepers EXCEPT !["completion"] = {}]
        /\ UNCHANGED <<count, futex_var, work, work_done>>
    BY <1>0, <1>3 DEF Wake
  <2>2. /\ pc'[w] = "exited"
        /\ \A u \in Threads : u # w => pc'[u] = pc[u]
        /\ pc' \in [Threads -> PC]
    BY <1>0, <2>1, Moved DEF PC
  <2>3. Pending' = Pending /\ Ready' = Ready
    <3>1. w \notin Pending /\ w \in Ready
      BY <2>1 DEF Pending, Ready
    <3>2. Pending' = Pending \ {w} /\ Ready' = Ready \cup {w}
      BY <2>1, MoveWorker DEF WorkerPC
    <3> QED BY <3>1, <3>2
  <2>4. /\ sleepers' \in [Latches -> SUBSET Players] /\ sleepers'["completion"] = {}
        /\ sleepers'["start"] = sleepers["start"]
    BY <2>1 DEF TypeOK, Latches
  <2>5. TypeOK'
    BY <2>1, <2>2, <2>4 DEF TypeOK
  <2>6. Places' /\ StartLatch'
    BY <2>1, <2>2, WhoIsWho DEF Places, WorkerPC, StartLatch
  <2>7. CompletionLatch' /\ DoneCounted' /\ Loops'
    BY <2>1, <2>2, <2>3, WhoIsWho DEF CompletionLatch, DoneCounted, Loops
  <2>8. NoSleeperMissed'
    BY <1>0, <2>1, <2>2, <2>4, WhoIsWho DEF NoSleeperMissed, Latches
  <2> QED BY <2>5, <2>6, <2>7, <2>8
<1> QED BY <1>1, <1>2, <1>3

LEMMA CoordinatorReleaseIInv ==
  ASSUME IInv, CountDown(Coordinator) \/ Release(Coordinator) \/ Wake(Coordinator)
  PROVE  IInv'
<1> USE DEF IInv, work
<1>0. /\ CountsDown(Coordinator) = "start" /\ AfterRelease(Coordinator) = "test"
      /\ Coordinator \in Threads \ Workers /\ Coordinator \in Players
  BY WhoIsWho
<1>1. CASE CountDown(Coordinator)
  <2>1. /\ pc[Coordinator] = "count_down" /\ count["start"] = 1
        /\ Goto(Coordinator, "release")
        /\ count' = [count EXCEPT !["start"] = @ - 1]
        /\ UNCHANGED <<futex_var, sleepers, work, work_done>>
    BY <1>0, <1>1 DEF CountDown, StartLatch
  <2>2. /\ pc'[Coordinator] = "release"
        /\ \A u \in Threads : u # Coordinator => pc'[u] = pc[u]
        /\ pc' \in [Threads -> PC]
    BY <1>0, <2>1, Moved DEF PC
  <2>3. Pending' = Pending /\ Ready' = Ready
    BY <1>0, <2>1, MoveOther
  <2>4. /\ count' \in [Latches -> Nat] /\ count'["start"] = 0
        /\ count'["completion"] = count["completion"]
    BY <2>1 DEF TypeOK, Latches
  <2>5. TypeOK'
    BY <2>1, <2>2, <2>4 DEF TypeOK
  <2>6. Places' /\ StartLatch'
    BY <2>1, <2>2, <2>4, WhoIsWho DEF Places, CoordinatorPC, StartLatch, TypeOK, Latches
  <2>7. CompletionLatch' /\ DoneCounted' /\ Loops'
    BY <2>1, <2>2, <2>3, <2>4, WhoIsWho DEF CompletionLatch, DoneCounted, Loops
  <2>8. NoSleeperMissed'
    BY <2>1, <2>2, WhoIsWho DEF NoSleeperMissed
  <2> QED BY <2>5, <2>6, <2>7, <2>8
<1>2. CASE Release(Coordinator)
  <2>1. /\ pc[Coordinator] = "release" /\ Goto(Coordinator, "wake")
        /\ futex_var' = [futex_var EXCEPT !["start"] = 1]
        /\ UNCHANGED <<count, sleepers, work, work_done>>
    BY <1>0, <1>2 DEF Release
  <2>2. /\ pc'[Coordinator] = "wake"
        /\ \A u \in Threads : u # Coordinator => pc'[u] = pc[u]
        /\ pc' \in [Threads -> PC]
    BY <1>0, <2>1, Moved DEF PC
  <2>3. Pending' = Pending /\ Ready' = Ready
    BY <1>0, <2>1, MoveOther
  <2>4. /\ futex_var' \in [Latches -> {0, 1}] /\ futex_var'["start"] = 1
        /\ futex_var'["completion"] = futex_var["completion"]
    BY <2>1 DEF TypeOK, Latches
  <2>5. TypeOK'
    BY <2>1, <2>2, <2>4 DEF TypeOK
  <2>6. Places' /\ StartLatch'
    BY <2>1, <2>2, <2>4, WhoIsWho DEF Places, CoordinatorPC, StartLatch
  <2>7. CompletionLatch' /\ DoneCounted' /\ Loops'
    BY <2>1, <2>2, <2>3, <2>4, WhoIsWho DEF CompletionLatch, DoneCounted, Loops
  <2>8. NoSleeperMissed'
    <3>1. ASSUME NEW k \in Latches, futex_var'[k] = 1, sleepers'[k] # {}
          PROVE  \E t \in Players : CountsDown(t) = k /\ pc'[t] = "wake"
      <4>1. CASE k = "start"
        BY <1>0, <2>2, <4>1
      <4>2. CASE k # "start"
        BY <1>0, <2>1, <2>2, <2>4, <3>1, <4>2, WhoIsWho DEF NoSleeperMissed, Latches
      <4> QED BY <4>1, <4>2
    <3> QED BY <3>1 DEF NoSleeperMissed
  <2> QED BY <2>5, <2>6, <2>7, <2>8
<1>3. CASE Wake(Coordinator)
  <2>1. /\ pc[Coordinator] = "wake" /\ Goto(Coordinator, "test")
        /\ sleepers' = [sleepers EXCEPT !["start"] = {}]
        /\ UNCHANGED <<count, futex_var, work, work_done>>
    BY <1>0, <1>3 DEF Wake
  <2>2. /\ pc'[Coordinator] = "test"
        /\ \A u \in Threads : u # Coordinator => pc'[u] = pc[u]
        /\ pc' \in [Threads -> PC]
    BY <1>0, <2>1, Moved DEF PC
  <2>3. Pending' = Pending /\ Ready' = Ready
    BY <1>0, <2>1, MoveOther
  <2>4. /\ sleepers' \in [Latches -> SUBSET Players] /\ sleepers'["start"] = {}
        /\ sleepers'["completion"] = sleepers["completion"]
    BY <2>1 DEF TypeOK, Latches
  <2>5. TypeOK'
    BY <2>1, <2>2, <2>4 DEF TypeOK
  <2>6. Places' /\ StartLatch'
    BY <2>1, <2>2, WhoIsWho DEF Places, CoordinatorPC, StartLatch
  <2>7. CompletionLatch' /\ DoneCounted' /\ Loops'
    BY <2>1, <2>2, <2>3, WhoIsWho DEF CompletionLatch, DoneCounted, Loops
  <2>8. NoSleeperMissed'
    BY <1>0, <2>1, <2>2, <2>4, WhoIsWho DEF NoSleeperMissed, Latches
  <2> QED BY <2>5, <2>6, <2>7, <2>8
<1> QED BY <1>1, <1>2, <1>3
-----------------------------------------------------------------------------
\* The steps of a worker that is inside its loop of iterations.
LEMMA WorkingIInv ==
  ASSUME IInv, NEW w \in Workers, Load(w) \/ Swap(w) \/ SwapFails(w) \/ Reload(w)
  PROVE  IInv'
<1> USE DEF IInv, work
<1>0. pc[w] \in Working /\ futex_var["start"] = 1 /\ UNCHANGED <<latches, work_done>>
  BY DEF Load, Swap, SwapFails, Reload, StartLatch
<1>1. ASSUME NEW l \in Working, Goto(w, l)
      PROVE  /\ Ready' = Ready /\ w \notin Ready
             /\ \A u \in Workers : pc'[u] = IF u = w THEN l ELSE pc[u]
  <2>1. \A u \in Workers : pc'[u] = IF u = w THEN l ELSE pc[u]
    BY <1>1, Moved, WhoIsWho
  <2> QED BY <1>0, <2>1 DEF Ready
<1>2. CASE Load(w)
  <2>1. Ready' = Ready /\ w \notin Ready
        /\ \A u \in Workers : pc'[u] = IF u = w THEN "cas" ELSE pc[u]
    BY <1>1, <1>2 DEF Load
  <2>2. Loops'
    BY <1>2, <2>1 DEF Load, Loops, TypeOK
  <2> QED BY <1>0, <1>2, <2>2, StayWorking DEF Load, TypeOK
<1>3. CASE Swap(w)
  <2>1. Ready' = Ready /\ w \notin Ready
        /\ \A u \in Workers : pc'[u] = IF u = w THEN "load" ELSE pc[u]
    BY <1>1, <1>3 DEF Swap
  <2>2. Loops'
    BY <1>3, <2>1 DEF Swap, Loops, TypeOK
  <2> QED BY <1>0, <1>3, <2>2, StayWorking DEF Swap, TypeOK
<1>4. CASE SwapFails(w)
  <2>1. Ready' = Ready /\ w \notin Ready
        /\ \A u \in Workers : pc'[u] = IF u = w THEN "reload" ELSE pc[u]
    BY <1>1, <1>4 DEF SwapFails
  <2>2. Loops'
    BY <1>4, <2>1 DEF SwapFails, Loops, TypeOK
  <2> QED BY <1>0, <1>4, <2>2, StayWorking DEF SwapFails, TypeOK
<1>5. CASE Reload(w)
  <2> DEFINE l == IF spins[w] + 1 = MaxSpins THEN "load" ELSE "cas"
  <2>0. l \in Working /\ Goto(w, l) /\ spins[w] < MaxSpins /\ spins[w] \in Nat
    BY <1>5 DEF Reload, Loops, TypeOK
  <2>1. Ready' = Ready /\ w \notin Ready
        /\ \A u \in Workers : pc'[u] = IF u = w THEN l ELSE pc[u]
    BY <1>1, <2>0
  <2>2. spins' \in [Workers -> 0 .. MaxSpins] /\ expected' \in [Workers -> Nat]
    BY <1>5, <2>0 DEF Reload, TypeOK
  <2>3. Loops'
    BY <1>5, <2>0, <2>1 DEF Reload, Loops, TypeOK
  <2> HIDE DEF l
  <2> QED BY <1>0, <1>5, <2>0, <2>2, <2>3, StayWorking DEF Reload, TypeOK
<1> QED BY <1>2, <1>3, <1>4, <1>5

LEMMA WorkDoneIInv ==
  ASSUME IInv, NEW w \in Workers, WorkDone(w)
  PROVE  IInv'
<1> USE DEF IInv, work, latches
<1>1. /\ pc[w] = "load" /\ i[w] = Iterations[w] /\ Goto(w, "count_down")
      /\ work_done' = work_done + 1 /\ UNCHANGED <<latches, work>>
  BY DEF WorkDone
<1>2. /\ pc'[w] = "count_down" /\ \A u \in Threads : u # w => pc'[u] = pc[u]
      /\ pc' \in [Threads -> PC]
  BY <1>1, Moved, WhoIsWho DEF PC
<1>3. w \in Pending /\ w \notin Ready
  BY <1>1 DEF Pending, Ready
<1>4. Pending' = Pending /\ Ready' = Ready \cup {w}
  <2>1. Pending' = Pending \cup {w} /\ Ready' = Ready \cup {w}
    BY <1>1, MoveWorker DEF WorkerPC
  <2> QED BY <1>3, <2>1
<1>5. work_done' = Cardinality(Ready') /\ work_done' \in 0 .. Cardinality(Workers)
  <2>1. work_done + 1 = Cardinality(Ready \cup {w})
    BY <1>3, FiniteParts, EnterLeave DEF DoneCounted
  <2>2. Cardinality(Ready) # Cardinality(Workers)
    BY <1>3, FiniteParts
  <2> QED BY <1>1, <1>4, <2>1, <2>2, FiniteParts DEF DoneCounted
<1>6. TypeOK'
  BY <1>1, <1>2, <1>5 DEF TypeOK
<1>7. Places' /\ StartLatch'
  BY <1>1, <1>2, WhoIsWho DEF Places, WorkerPC, StartLatch
<1>8. CompletionLatch' /\ DoneCounted'
  BY <1>1, <1>2, <1>4, <1>5, WhoIsWho DEF CompletionLatch, DoneCounted
<1>9. Loops'
  BY <1>1, <1>2, <1>4, WhoIsWho DEF Loops
<1>10. NoSleeperMissed'
  BY <1>1, <1>2, WhoIsWho DEF NoSleeperMissed
<1> QED BY <1>6, <1>7, <1>8, <1>9, <1>10

LEMMA MonitorIInv ==
  ASSUME IInv, MonitorReturn
  PROVE  IInv'
<1> USE DEF IInv, work, latches
<1>1. Goto(Monitor, "exited") /\ UNCHANGED <<latches, work, work_done>>
  BY DEF MonitorReturn
<1>2. /\ pc'[Monitor] = "exited" /\ \A u \in Threads : u # Monitor => pc'[u] = pc[u]
      /\ pc' \in [Threads -> PC]
  BY <1>1, Moved, WhoIsWho DEF PC
<1>3. Pending' = Pending /\ Ready' = Ready
  BY <1>1, MoveOther, WhoIsWho
<1>4. \A t \in Players : pc'[t] = pc[t]
  BY <1>2, WhoIsWho
<1>5. TypeOK'
  BY <1>1, <1>2 DEF TypeOK
<1>6. Places' /\ StartLatch'
  BY <1>1, <1>2, <1>4, WhoIsWho DEF Places, StartLatch
<1>7. CompletionLatch' /\ DoneCounted' /\ Loops'
  BY <1>1, <1>3, <1>4, WhoIsWho DEF CompletionLatch, DoneCounted, Loops
<1>8. NoSleeperMissed'
  BY <1>1, <1>4 DEF NoSleeperMissed
<1> QED BY <1>5, <1>6, <1>7, <1>8

LEMMA StutterIInv ==
  ASSUME IInv, UNCHANGED vars
  PROVE  IInv'
<1>1. Pending' = Pending /\ Ready' = Ready
  BY DEF vars, Pending, Ready
<1> QED BY <1>1 DEF IInv, vars, TypeOK, Places, StartLatch, CompletionLatch, DoneCounted,
        Loops, NoSleeperMissed

LEMMA NextIInv == IInv /\ [Next]_vars => IInv'
<1> SUFFICES ASSUME IInv, [Next]_vars PROVE IInv'
  OBVIOUS
<1>1. ASSUME NEW t \in Players, LatchStep(t) \/ Interrupted(t) PROVE IInv'
  <2>1. CASE Test(t) \/ FutexWait(t) \/ Awake(t) \/ Interrupted(t)
    BY <2>1, WaitIInv
  <2>2. CASE CountDown(t) \/ Release(t) \/ Wake(t)
    BY <2>2, WorkerReleaseIInv, CoordinatorReleaseIInv, WhoIsWho
  <2> QED BY <1>1, <2>1, <2>2 DEF LatchStep
<1>2. ASSUME NEW w \in Workers, Swap(w) \/ WorkStep(w) PROVE IInv'
  BY <1>2, WorkingIInv, WorkDoneIInv DEF WorkStep
<1>3. CASE MonitorReturn
  BY <1>3, MonitorIInv
<1>4. CASE Finished \/ UNCHANGED vars
  BY <1>4, StutterIInv DEF Finished
<1> QED BY <1>1, <1>2, <1>3, <1>4 DEF Next

LEMMA Inductive == Spec => []IInv
BY InitIInv, NextIInv, PTL DEF Spec
-----------------------------------------------------------------------------
\* The state of the latches, the counters and the workers' loops keeps its
\* type; in particular work_done never passes the number of workers and
\* cas_with_spin never spins more than max_spins times.
THEOREM TypeCorrect == Spec => []TypeOK
<1>1. IInv => TypeOK
  BY DEF IInv
<1> QED BY <1>1, Inductive, PTL

\* The handshake of latch_count_down (store futex_var, then FUTEX_WAKE) with
\* latch_wait (compare, then sleep) never leaves a sleeper on an open latch
\* without a FUTEX_WAKE still to come.
THEOREM NobodySleepsOn == Spec => []NoSleeperMissed
<1>1. IInv => NoSleeperMissed
  BY DEF IInv
<1> QED BY <1>1, Inductive, PTL

\* The start latch holds the workers back until the coordinator has counted it
\* down, and the completion latch holds the coordinator back until every
\* worker has made all its iterations.
THEOREM LatchesAreBarriers == Spec => []LatchesHold
<1>1. IInv => LatchesHold
  <2> SUFFICES ASSUME IInv PROVE LatchesHold
    OBVIOUS
  <2> USE DEF IInv
  <2>1. ASSUME NEW w \in Workers, pc[w] \notin Waiting PROVE count["start"] = 0
    BY <2>1 DEF StartLatch
  <2>2. ASSUME pc[Coordinator] = "exited"
        PROVE  work_done = Cardinality(Workers) /\ \A w \in Workers : i[w] = Iterations[w]
    <3>1. Pending = {}
      BY <2>2, FiniteParts DEF CompletionLatch
    <3>2. Ready = Workers
      BY <3>1 DEF Pending, Ready, Places, WorkerPC
    <3> QED BY <3>2 DEF DoneCounted, Loops
  <2> QED BY <2>1, <2>2 DEF LatchesHold
<1> QED BY <1>1, Inductive, PTL
-----------------------------------------------------------------------------
(* The counter.  A compare-and-swap may store a stale value, but never one  *)
(* greater than the increments made so far and its own.                     *)

NotAhead ==
  /\ IsFiniteSet(Increments)
  /\ CounterNotAhead
  /\ \A w \in Workers :
       pc[w] \in {"cas", "reload"} => desired[w] <= Cardinality(Increments) + 1

LEMMA SameIncrements ==
  ASSUME UNCHANGED i
  PROVE  Increments' = Increments
BY DEF Increments

LEMMA OneMoreIncrement ==
  ASSUME TypeOK, IsFiniteSet(Increments), NEW w \in Workers, i' = [i EXCEPT ![w] = @ + 1]
  PROVE  /\ IsFiniteSet(Increments')
         /\ Cardinality(Increments) \in Nat
         /\ Cardinality(Increments') = Cardinality(Increments) + 1
<1> DEFINE e == <<w, i[w] + 1>>
<1>1. /\ \A u \in Workers : i[u] \in Nat
      /\ \A u \in Workers : i'[u] = IF u = w THEN i[u] + 1 ELSE i[u]
  BY DEF TypeOK
<1>2. \A u : u \in Increments <=> \E x \in Workers : \E n \in 1 .. i[x] : u = <<x, n>>
  BY DEF Increments
<1>3. \A u : u \in Increments' <=> \E x \in Workers : \E n \in 1 .. i'[x] : u = <<x, n>>
  BY DEF Increments
<1>4. e \notin Increments
  BY <1>1, <1>2
<1>5. Increments' = Increments \cup {e}
  <2>1. \A u \in Increments' : u \in Increments \cup {e}
    BY <1>1, <1>2, <1>3
  <2>2. \A u \in Increments : u \in Increments'
    BY <1>1, <1>2, <1>3
  <2>3. e \in Increments'
    BY <1>1, <1>3
  <2> QED BY <2>1, <2>2, <2>3
<1> HIDE DEF e
<1> QED BY <1>4, <1>5, FS_AddElement, FS_CardinalityType

LEMMA InitNotAhead == Init => NotAhead
<1> SUFFICES ASSUME Init PROVE NotAhead
  OBVIOUS
<1>1. Increments = {}
  BY DEF Init, Increments
<1>2. IsFiniteSet(Increments) /\ Cardinality(Increments) = 0
  BY <1>1, FS_EmptySet
<1>3. \A w \in Workers : pc[w] = "test"
  BY DEF Init, Threads, Players
<1> QED BY <1>2, <1>3 DEF Init, NotAhead, CounterNotAhead

LEMMA NextNotAhead == IInv /\ NotAhead /\ [Next]_vars => NotAhead'
<1> SUFFICES ASSUME IInv, NotAhead, [Next]_vars PROVE NotAhead'
  OBVIOUS
<1>0. Cardinality(Increments) \in Nat
  BY FS_CardinalityType DEF NotAhead
<1>1. ASSUME UNCHANGED <<shared_counter, i, desired>>,
             \A w \in Workers : pc'[w] \in {"cas", "reload"} => pc[w] \in {"cas", "reload"}
      PROVE  NotAhead'
  BY <1>1, SameIncrements DEF NotAhead, CounterNotAhead
<1>2. ASSUME NEW t \in Threads, NEW l, l \notin {"cas", "reload"} \/ pc[t] \in {"cas", "reload"},
             Goto(t, l), UNCHANGED <<shared_counter, i, desired>>
      PROVE  NotAhead'
  <2>1. \A w \in Workers : pc'[w] \in {"cas", "reload"} => pc[w] \in {"cas", "reload"}
    BY <1>2, WhoIsWho DEF Goto, IInv, TypeOK
  <2> QED BY <1>1, <1>2, <2>1
<1>3. ASSUME NEW t \in Players, LatchStep(t) \/ Interrupted(t) PROVE NotAhead'
  <2>1. UNCHANGED <<shared_counter, i, desired>>
    BY <1>3 DEF LatchStep, Test, FutexWait, Awake, CountDown, Release, Wake, Interrupted, work
  <2>2. \E l \in PC \ {"cas", "reload"} : Goto(t, l)
    BY <1>3 DEF LatchStep, Test, FutexWait, Awake, CountDown, Release, Wake, Interrupted, PC,
                AfterWait, AfterRelease
  <2> QED BY <1>2, <2>1, <2>2, WhoIsWho
<1>4. ASSUME NEW w \in Workers, Load(w) PROVE NotAhead'
  <2>1. \A u \in Workers : u # w => pc'[u] = pc[u] /\ desired'[u] = desired[u]
    BY <1>4, WhoIsWho DEF Load, Goto, IInv, TypeOK
  <2>2. desired'[w] = shared_counter + 1 /\ UNCHANGED <<shared_counter, i>>
    BY <1>4 DEF Load, IInv, TypeOK
  <2> QED BY <1>0, <2>1, <2>2, SameIncrements DEF NotAhead, CounterNotAhead, IInv, TypeOK
<1>5. ASSUME NEW w \in Workers, Swap(w) PROVE NotAhead'
  <2>1. /\ IsFiniteSet(Increments') /\ Cardinality(Increments') = Cardinality(Increments) + 1
    BY <1>5, OneMoreIncrement DEF Swap, IInv, NotAhead
  <2>2. shared_counter' = desired[w] /\ desired[w] <= Cardinality(Increments) + 1
    BY <1>5 DEF Swap, NotAhead
  <2>3. \A u \in Workers : pc'[u] \in {"cas", "reload"} => pc[u] \in {"cas", "reload"}
    BY <1>5, WhoIsWho DEF Swap, Goto, IInv, TypeOK
  <2>4. UNCHANGED desired /\ \A u \in Workers : desired[u] \in Nat
    BY <1>5 DEF Swap, IInv, TypeOK
  <2>5. ASSUME NEW u \in Workers, pc'[u] \in {"cas", "reload"}
        PROVE  desired'[u] <= Cardinality(Increments') + 1
    BY <1>0, <2>1, <2>3, <2>4, <2>5 DEF NotAhead
  <2> QED BY <2>1, <2>2, <2>5 DEF NotAhead, CounterNotAhead
<1>6. ASSUME NEW w \in Workers, SwapFails(w) \/ Reload(w) PROVE NotAhead'
  <2>1. pc[w] \in {"cas", "reload"} /\ UNCHANGED <<shared_counter, i, desired>>
    BY <1>6 DEF SwapFails, Reload, work
  <2>2. \E l : Goto(w, l)
    BY <1>6 DEF SwapFails, Reload
  <2> QED BY <1>2, <2>1, <2>2, WhoIsWho
<1>7. ASSUME NEW w \in Workers, WorkDone(w) PROVE NotAhead'
  <2>1. Goto(w, "count_down") /\ UNCHANGED <<shared_counter, i, desired>>
    BY <1>7 DEF WorkDone, work
  <2> QED BY <1>2, <2>1, WhoIsWho
<1>8. CASE MonitorReturn
  <2>1. Goto(Monitor, "exited") /\ UNCHANGED <<shared_counter, i, desired>>
    BY <1>8 DEF MonitorReturn, work
  <2> QED BY <1>2, <2>1, WhoIsWho
<1>9. CASE Finished \/ UNCHANGED vars
  BY <1>1, <1>9 DEF Finished, vars
<1> QED BY <1>3, <1>4, <1>5, <1>6, <1>7, <1>8, <1>9 DEF Next, WorkStep

\* shared_counter is never greater than the number of increments that
\* cas_with_spin has reported as made, whatever it does with the desired value
\* it computed before its first failure.
THEOREM CounterIsBounded == Spec => []CounterNotAhead
<1>1. NotAhead => CounterNotAhead
  BY DEF NotAhead
<1> QED BY <1>1, InitNotAhead, NextNotAhead, Inductive, PTL DEF Spec
=============================================================================
