-------------------------------- MODULE RWLock --------------------------------
(***************************************************************************)
(* The reader-writer lock of POSIX/read-write.c, with writer preference,   *)
(* and the reader and writer threads that use it.  Each of its functions   *)
(* runs under the mutex from lock to unlock or to pthread_cond_wait, which *)
(* is one step.  A thread that was woken is still "waiting", and no longer *)
(* in a wait set: it will take the mutex and test its condition again.     *)
(***************************************************************************)
EXTENDS Integers, FiniteSets, FiniteSetTheorems, TLAPS

CONSTANTS Readers, Writers,
          DataModulus   \* bound: shared_data is kept modulo this

ASSUME ThreadsAssumption ==
  IsFiniteSet(Readers) /\ IsFiniteSet(Writers) /\ Readers \cap Writers = {}
ASSUME DataAssumption == DataModulus \in Nat \ {0}

VARIABLES readers, writers, waiting_writers,   \* rwlock_t
          readers_ok, writers_ok,              \* the wait sets of its conditions
          shared_data, pc

counts == <<readers, writers, waiting_writers>>
conds  == <<readers_ok, writers_ok>>
vars   == <<readers, writers, waiting_writers, readers_ok, writers_ok, shared_data, pc>>

Threads == Readers \cup Writers

TypeOK ==
  /\ readers \in Nat
  /\ writers \in {0, 1}
  /\ waiting_writers \in Nat
  /\ readers_ok \subseteq Readers
  /\ writers_ok \subseteq Writers
  /\ shared_data \in 0 .. DataModulus - 1
  /\ pc \in [Threads -> {"idle", "waiting", "reading", "writing", "written"}]

Init ==
  /\ readers = 0
  /\ writers = 0
  /\ waiting_writers = 0
  /\ readers_ok = {}
  /\ writers_ok = {}
  /\ shared_data = 0
  /\ pc = [t \in Threads |-> "idle"]

Goto(t, label) == pc' = [pc EXCEPT ![t] = label]

Signal(sleepers, left) ==
  \/ sleepers = {} /\ left = {}
  \/ \E t \in sleepers : left = sleepers \ {t}
-----------------------------------------------------------------------------
(* rwlock_rdlock, called or resumed after a wake-up, and rwlock_rdunlock.  *)

ReaderMustWait == writers > 0 \/ waiting_writers > 0

RdWait(r) ==
  /\ pc[r] \in {"idle", "waiting"} /\ r \notin readers_ok
  /\ ReaderMustWait
  /\ readers_ok' = readers_ok \cup {r}
  /\ Goto(r, "waiting")
  /\ UNCHANGED <<counts, writers_ok, shared_data>>

\* Mutant: a woken reader does not look for a writer again.
RdLockUnchecked(r) ==
  /\ pc[r] \in {"idle", "waiting"} /\ r \notin readers_ok
  /\ pc[r] = "waiting" \/ ~ReaderMustWait
  /\ readers' = readers + 1
  /\ Goto(r, "reading")
  /\ UNCHANGED <<writers, waiting_writers, conds, shared_data>>

RdLock(r) ==
  /\ pc[r] \in {"idle", "waiting"} /\ r \notin readers_ok
  /\ ~ReaderMustWait
  /\ readers' = readers + 1
  /\ Goto(r, "reading")
  /\ UNCHANGED <<writers, waiting_writers, conds, shared_data>>

\* Mutant: writers_ok is signalled whenever a reader leaves but the last.
RdUnlockSignalsEarly(r) ==
  /\ pc[r] = "reading"
  /\ readers' = readers - 1
  /\ IF readers' = 1 THEN Signal(writers_ok, writers_ok') ELSE UNCHANGED writers_ok
  /\ Goto(r, "idle")
  /\ UNCHANGED <<writers, waiting_writers, readers_ok, shared_data>>

RdUnlock(r) ==
  /\ pc[r] = "reading"
  /\ readers' = readers - 1
  /\ IF readers' = 0 THEN Signal(writers_ok, writers_ok') ELSE UNCHANGED writers_ok
  /\ Goto(r, "idle")
  /\ UNCHANGED <<writers, waiting_writers, readers_ok, shared_data>>
-----------------------------------------------------------------------------
(* rwlock_wrlock and rwlock_wrunlock.                                      *)

WriterMustWait == writers > 0 \/ readers > 0

\* waiting_writers counts a writer from its call to the end of its wait.
WrWait(w) ==
  /\ pc[w] = "idle" \/ (pc[w] = "waiting" /\ w \notin writers_ok)
  /\ WriterMustWait
  /\ waiting_writers' = IF pc[w] = "idle" THEN waiting_writers + 1 ELSE waiting_writers
  /\ writers_ok' = writers_ok \cup {w}
  /\ Goto(w, "waiting")
  /\ UNCHANGED <<readers, writers, readers_ok, shared_data>>

\* Mutant: waiting_writers is not decremented after the wait.
WrLockKeepsCount(w) ==
  /\ pc[w] = "idle" \/ (pc[w] = "waiting" /\ w \notin writers_ok)
  /\ ~WriterMustWait
  /\ writers' = 1
  /\ Goto(w, "writing")
  /\ UNCHANGED <<readers, waiting_writers, conds, shared_data>>

\* Mutant: a writer only looks for readers.
WrLockBlind(w) ==
  /\ pc[w] = "idle" \/ (pc[w] = "waiting" /\ w \notin writers_ok)
  /\ readers = 0
  /\ waiting_writers' = IF pc[w] = "idle" THEN waiting_writers ELSE waiting_writers - 1
  /\ writers' = writers + 1
  /\ Goto(w, "writing")
  /\ UNCHANGED <<readers, conds, shared_data>>

WrLock(w) ==
  /\ pc[w] = "idle" \/ (pc[w] = "waiting" /\ w \notin writers_ok)
  /\ ~WriterMustWait
  /\ waiting_writers' = IF pc[w] = "idle" THEN waiting_writers ELSE waiting_writers - 1
  /\ writers' = 1
  /\ Goto(w, "writing")
  /\ UNCHANGED <<readers, conds, shared_data>>

Write(w) ==
  /\ pc[w] = "writing"
  /\ shared_data' = (shared_data + 1) % DataModulus
  /\ Goto(w, "written")
  /\ UNCHANGED <<counts, conds>>

WrUnlock(w) ==
  /\ pc[w] = "written"
  /\ writers' = 0
  /\ IF waiting_writers > 0
       THEN Signal(writers_ok, writers_ok') /\ UNCHANGED readers_ok
       ELSE readers_ok' = {} /\ UNCHANGED writers_ok
  /\ Goto(w, "idle")
  /\ UNCHANGED <<readers, waiting_writers, shared_data>>

\* pthread_cond_wait may return without a signal.
SpuriousWakeup(t) ==
  /\ t \in readers_ok \cup writers_ok
  /\ readers_ok' = readers_ok \ {t}
  /\ writers_ok' = writers_ok \ {t}
  /\ UNCHANGED <<counts, shared_data, pc>>
-----------------------------------------------------------------------------
ReaderStep(r) == RdWait(r) \/ RdLock(r) \/ RdUnlock(r)
WriterStep(w) == WrWait(w) \/ WrLock(w) \/ Write(w) \/ WrUnlock(w)

Next ==
  \/ \E r \in Readers : ReaderStep(r)
  \/ \E w \in Writers : WriterStep(w)
  \/ \E t \in Threads : SpuriousWakeup(t)

Spec == Init /\ [][Next]_vars

\* Both loops run for ever, and the scheduler runs every thread that can run.
FairSpec ==
  /\ Spec
  /\ \A r \in Readers : WF_vars(ReaderStep(r))
  /\ \A w \in Writers : WF_vars(WriterStep(w))
-----------------------------------------------------------------------------
(* Properties.                                                             *)

Reading == {r \in Readers : pc[r] = "reading"}
Inside  == {w \in Writers : pc[w] \in {"writing", "written"}}
Asking  == {w \in Writers : pc[w] = "waiting"}

\* A writer between rwlock_wrlock and rwlock_wrunlock is alone.
Exclusive ==
  \A w \in Inside : Inside = {w} /\ Reading = {}

\* The counters of rwlock_t are the numbers of the threads they count.
CountsExact ==
  /\ readers = Cardinality(Reading)
  /\ writers = Cardinality(Inside)
  /\ waiting_writers = Cardinality(Asking)

\* No wake-up is lost.  A reader asleep in rwlock_rdlock has a writer to wait
\* for, and a writer asleep in rwlock_wrlock has a holder, or another writer
\* that is awake and about to take the lock, to wait for.
NoLostWakeup ==
  /\ readers_ok # {} => writers > 0 \/ waiting_writers > 0
  /\ writers_ok # {} => writers > 0 \/ readers > 0 \/ Asking \ writers_ok # {}

\* What a reader reads does not change before it calls rwlock_rdunlock.
StableWhileReading == [][Reading # {} => shared_data' = shared_data]_vars

\* Writer preference: while writers wait, the lock goes to one of them, however
\* many readers come back.  (One writer may overtake another for ever.)
WriterGetsIn == Asking # {} ~> Inside # {}
-----------------------------------------------------------------------------
(* Proofs, for any numbers of readers and writers.                         *)

\* Which threads can be where; only those that wait are in a wait set.
Places ==
  /\ \A r \in Readers : pc[r] \in {"idle", "waiting", "reading"}
  /\ \A w \in Writers : pc[w] \in {"idle", "waiting", "writing", "written"}
  /\ \A r \in readers_ok : pc[r] = "waiting"
  /\ writers_ok \subseteq Asking

\* The counters that the tests of the lock use.
ReadersCounted == readers = Cardinality(Reading)
AskingCounted  == waiting_writers = Cardinality(Asking)
WriterCounted  ==
  /\ writers = 0 => Inside = {}
  /\ writers = 1 => readers = 0 /\ \E w \in Writers : Inside = {w}

IInv ==
  TypeOK /\ Places /\ ReadersCounted /\ AskingCounted /\ WriterCounted /\ NoLostWakeup

USE ThreadsAssumption, DataAssumption
-----------------------------------------------------------------------------
\* Subsets of the threads are finite, and their cardinality a number that is
\* 0 only for the empty set.
LEMMA FiniteParts ==
  /\ IsFiniteSet(Reading) /\ Cardinality(Reading) \in Nat
  /\ Cardinality(Reading) = 0 <=> Reading = {}
  /\ IsFiniteSet(Asking) /\ Cardinality(Asking) \in Nat
  /\ Cardinality(Asking) = 0 <=> Asking = {}
<1>1. Reading \subseteq Readers /\ Asking \subseteq Writers
  BY DEF Reading, Asking
<1>2. IsFiniteSet(Reading) /\ IsFiniteSet(Asking)
  BY <1>1, FS_Subset
<1> QED BY <1>2, FS_CardinalityType, FS_EmptySet

\* A thread that enters or leaves a set changes its cardinality by one.
LEMMA EnterLeave ==
  ASSUME NEW S, IsFiniteSet(S), NEW x
  PROVE  /\ x \notin S => Cardinality(S \cup {x}) = Cardinality(S) + 1
         /\ x \in S => Cardinality(S \ {x}) = Cardinality(S) - 1
BY FS_AddElement, FS_RemoveElement

\* What a step that moves one thread does to the three sets.
LEMMA MoveReader ==
  ASSUME TypeOK, NEW r \in Readers, NEW l \in {"idle", "waiting", "reading"}, Goto(r, l)
  PROVE  /\ Reading' = IF l = "reading" THEN Reading \cup {r} ELSE Reading \ {r}
         /\ Inside' = Inside
         /\ Asking' = Asking
<1>1. \A t \in Threads : pc'[t] = IF t = r THEN l ELSE pc[t]
  BY DEF TypeOK, Goto, Threads
<1>2. r \notin Writers /\ Readers \subseteq Threads /\ Writers \subseteq Threads
  BY DEF Threads
<1> QED BY <1>1, <1>2 DEF Reading, Inside, Asking

LEMMA MoveWriter ==
  ASSUME TypeOK, NEW w \in Writers,
         NEW l \in {"idle", "waiting", "writing", "written"}, Goto(w, l)
  PROVE  /\ Reading' = Reading
         /\ Inside' = IF l \in {"writing", "written"} THEN Inside \cup {w} ELSE Inside \ {w}
         /\ Asking' = IF l = "waiting" THEN Asking \cup {w} ELSE Asking \ {w}
<1>1. \A t \in Threads : pc'[t] = IF t = w THEN l ELSE pc[t]
  BY DEF TypeOK, Goto, Threads
<1>2. w \notin Readers /\ Readers \subseteq Threads /\ Writers \subseteq Threads
  BY DEF Threads
<1> QED BY <1>1, <1>2 DEF Reading, Inside, Asking

\* pthread_cond_signal takes one thread, if there is one, out of a wait set.
LEMMA SignalSound ==
  ASSUME NEW S, NEW T, Signal(S, T)
  PROVE  T \subseteq S /\ (S # {} => \E t \in S : T = S \ {t})
BY DEF Signal
-----------------------------------------------------------------------------
LEMMA InitIInv == Init => IInv
<1> SUFFICES ASSUME Init PROVE IInv
  OBVIOUS
<1>1. TypeOK /\ Places
  BY DEF Init, TypeOK, Places, Threads
<1>2. Reading = {} /\ Inside = {} /\ Asking = {}
  BY DEF Init, Reading, Inside, Asking, Threads
<1>3. ReadersCounted /\ AskingCounted /\ WriterCounted /\ NoLostWakeup
  BY <1>2, FS_EmptySet DEF Init, ReadersCounted, AskingCounted, WriterCounted, NoLostWakeup
<1> QED BY <1>1, <1>3 DEF IInv

LEMMA ReaderIInv ==
  ASSUME IInv, NEW r \in Readers, ReaderStep(r)
  PROVE  IInv'
<1> USE DEF IInv, counts, conds
<1>1. CASE RdWait(r)
  <2>1. Reading' = Reading \ {r} /\ Inside' = Inside /\ Asking' = Asking
    BY <1>1, MoveReader DEF RdWait
  <2>2. Reading' = Reading
    BY <1>1, <2>1 DEF RdWait, Reading
  <2>3. TypeOK'
    BY <1>1 DEF RdWait, TypeOK, Goto, Threads
  <2>4. Places'
    BY <1>1, <2>1 DEF RdWait, TypeOK, Places, Goto, Threads
  <2> QED BY <1>1, <2>1, <2>2, <2>3, <2>4 DEF RdWait, ReaderMustWait, ReadersCounted,
            AskingCounted, WriterCounted, NoLostWakeup
<1>2. CASE RdLock(r)
  <2>1. Reading' = Reading \cup {r} /\ Inside' = Inside /\ Asking' = Asking
    BY <1>2, MoveReader DEF RdLock
  <2>2. r \notin Reading
    BY <1>2 DEF RdLock, Reading
  <2>3. ReadersCounted'
    BY <1>2, <2>1, <2>2, FiniteParts, EnterLeave DEF RdLock, ReadersCounted
  <2>4. TypeOK'
    BY <1>2 DEF RdLock, TypeOK, Goto, Threads
  <2>5. Places'
    BY <1>2, <2>1 DEF RdLock, TypeOK, Places, Goto, Threads
  <2>6. writers = 0 /\ waiting_writers = 0 /\ readers' > 0
    BY <1>2 DEF RdLock, ReaderMustWait, TypeOK
  <2> QED BY <1>2, <2>1, <2>3, <2>4, <2>5, <2>6 DEF RdLock, AskingCounted,
            WriterCounted, NoLostWakeup
<1>3. CASE RdUnlock(r)
  <2>1. Reading' = Reading \ {r} /\ Inside' = Inside /\ Asking' = Asking
    BY <1>3, MoveReader DEF RdUnlock
  <2>2. r \in Reading
    BY <1>3 DEF RdUnlock, Reading
  <2>3. ReadersCounted'
    BY <1>3, <2>1, <2>2, FiniteParts, EnterLeave DEF RdUnlock, ReadersCounted
  <2>4. readers \in Nat \ {0}
    BY <2>2, FiniteParts DEF TypeOK, ReadersCounted
  <2>5. writers_ok' \subseteq writers_ok
    BY <1>3, SignalSound DEF RdUnlock
  <2>6. TypeOK'
    BY <1>3, <2>4, <2>5 DEF RdUnlock, TypeOK, Goto, Threads
  <2>7. Places'
    BY <1>3, <2>1, <2>5 DEF RdUnlock, TypeOK, Places, Goto, Threads
  <2>8. AskingCounted' /\ WriterCounted'
    BY <1>3, <2>1, <2>4 DEF RdUnlock, AskingCounted, WriterCounted, TypeOK
  <2>9. NoLostWakeup'
    <3>1. CASE readers' = 0
      <4>1. Signal(writers_ok, writers_ok')
        BY <1>3, <3>1 DEF RdUnlock
      <4>2. writers_ok # {} => \E t \in writers_ok : writers_ok' = writers_ok \ {t}
        BY <4>1, SignalSound
      <4>3. writers_ok' # {} => Asking' \ writers_ok' # {}
        BY <2>1, <2>5, <4>2 DEF Places
      <4> QED BY <1>3, <4>3 DEF RdUnlock, NoLostWakeup
    <3>2. CASE readers' # 0
      BY <1>3, <3>2, <2>4 DEF RdUnlock, NoLostWakeup
    <3> QED BY <3>1, <3>2
  <2> QED BY <2>3, <2>6, <2>7, <2>8, <2>9
<1> QED BY <1>1, <1>2, <1>3 DEF ReaderStep

LEMMA WriterIInv ==
  ASSUME IInv, NEW w \in Writers, WriterStep(w)
  PROVE  IInv'
<1> USE DEF IInv, counts, conds
<1>1. CASE WrWait(w)
  <2>1. Reading' = Reading /\ Inside' = Inside \ {w} /\ Asking' = Asking \cup {w}
    BY <1>1, MoveWriter DEF WrWait
  <2>2. Inside' = Inside
    BY <1>1, <2>1 DEF WrWait, Inside
  <2>3. AskingCounted'
    <3>1. CASE pc[w] = "idle"
      <4>1. w \notin Asking
        BY <3>1 DEF Asking
      <4> QED BY <1>1, <2>1, <3>1, <4>1, FiniteParts, EnterLeave DEF WrWait, AskingCounted
    <3>2. CASE pc[w] # "idle"
      <4>1. w \in Asking
        BY <1>1, <3>2 DEF WrWait, Asking
      <4>2. Asking' = Asking
        BY <2>1, <4>1
      <4> QED BY <1>1, <3>2, <4>2 DEF WrWait, AskingCounted
    <3> QED BY <3>1, <3>2
  <2>4. TypeOK'
    BY <1>1 DEF WrWait, TypeOK, Goto, Threads
  <2>5. Places'
    BY <1>1, <2>1 DEF WrWait, TypeOK, Places, Goto, Threads
  <2>6. ReadersCounted' /\ WriterCounted'
    BY <1>1, <2>1, <2>2 DEF WrWait, ReadersCounted, WriterCounted
  <2>7. NoLostWakeup'
    BY <1>1 DEF WrWait, WriterMustWait, NoLostWakeup, TypeOK
  <2> QED BY <2>3, <2>4, <2>5, <2>6, <2>7
<1>2. CASE WrLock(w)
  <2>1. Reading' = Reading /\ Inside' = Inside \cup {w} /\ Asking' = Asking \ {w}
    BY <1>2, MoveWriter DEF WrLock
  <2>2. writers = 0 /\ readers = 0
    BY <1>2 DEF WrLock, WriterMustWait, TypeOK
  <2>3. AskingCounted' /\ waiting_writers' \in Nat
    <3>1. CASE pc[w] = "idle"
      <4>1. Asking' = Asking
        BY <2>1, <3>1 DEF Asking
      <4> QED BY <1>2, <3>1, <4>1 DEF WrLock, AskingCounted, TypeOK
    <3>2. CASE pc[w] # "idle"
      <4>1. w \in Asking
        BY <1>2, <3>2 DEF WrLock, Asking
      <4>2. waiting_writers \in Nat \ {0}
        BY <4>1, FiniteParts DEF AskingCounted
      <4> QED BY <1>2, <2>1, <3>2, <4>1, <4>2, FiniteParts, EnterLeave DEF WrLock, AskingCounted
    <3> QED BY <3>1, <3>2
  <2>4. w \notin writers_ok
    BY <1>2 DEF WrLock, Places, Asking
  <2>5. TypeOK'
    BY <1>2, <2>3 DEF WrLock, TypeOK, Goto, Threads
  <2>6. Places'
    BY <1>2, <2>1, <2>4 DEF WrLock, TypeOK, Places, Goto, Threads
  <2>7. ReadersCounted' /\ WriterCounted' /\ NoLostWakeup'
    BY <1>2, <2>1, <2>2 DEF WrLock, ReadersCounted, WriterCounted, NoLostWakeup
  <2> QED BY <2>3, <2>5, <2>6, <2>7
<1>3. CASE Write(w)
  <2>1. /\ Reading' = Reading /\ Inside' = Inside \cup {w} /\ Asking' = Asking \ {w}
        /\ w \in Inside /\ w \notin Asking
    BY <1>3, MoveWriter DEF Write, Inside, Asking
  <2>2. Inside' = Inside /\ Asking' = Asking
    BY <2>1
  <2>3. shared_data' \in 0 .. DataModulus - 1
    BY <1>3 DEF Write, TypeOK
  <2>4. TypeOK'
    BY <1>3, <2>3 DEF Write, TypeOK, Goto, Threads
  <2>5. Places'
    BY <1>3, <2>2 DEF Write, TypeOK, Places, Goto, Threads
  <2> QED BY <1>3, <2>1, <2>2, <2>4, <2>5 DEF Write, ReadersCounted, AskingCounted,
            WriterCounted, NoLostWakeup
<1>4. CASE WrUnlock(w)
  <2>1. /\ Reading' = Reading /\ Inside' = Inside \ {w} /\ Asking' = Asking \ {w}
        /\ w \in Inside /\ w \notin Asking
    BY <1>4, MoveWriter DEF WrUnlock, Inside, Asking
  <2>2. Inside' = {} /\ Asking' = Asking
    BY <2>1 DEF WriterCounted, TypeOK
  <2>3. writers_ok' \subseteq writers_ok /\ readers_ok' \subseteq readers_ok
    BY <1>4, SignalSound DEF WrUnlock
  <2>4. TypeOK'
    BY <1>4, <2>3 DEF WrUnlock, TypeOK, Goto, Threads
  <2>5. Places'
    BY <1>4, <2>2, <2>3 DEF WrUnlock, TypeOK, Places, Goto, Threads
  <2>6. ReadersCounted' /\ AskingCounted' /\ WriterCounted'
    BY <1>4, <2>1, <2>2 DEF WrUnlock, ReadersCounted, AskingCounted, WriterCounted
  <2>7. NoLostWakeup'
    <3>1. CASE waiting_writers > 0
      <4>1. writers_ok # {} => \E t \in writers_ok : writers_ok' = writers_ok \ {t}
        BY <1>4, <3>1, SignalSound DEF WrUnlock
      <4>2. writers_ok' # {} => Asking' \ writers_ok' # {}
        BY <2>2, <2>3, <4>1 DEF Places
      <4> QED BY <1>4, <3>1, <4>2 DEF WrUnlock, NoLostWakeup
    <3>2. CASE ~(waiting_writers > 0)
      <4>1. writers_ok = {}
        BY <3>2, FiniteParts DEF AskingCounted, Places, TypeOK
      <4> QED BY <1>4, <2>3, <3>2, <4>1 DEF WrUnlock, NoLostWakeup
    <3> QED BY <3>1, <3>2
  <2> QED BY <2>4, <2>5, <2>6, <2>7
<1> QED BY <1>1, <1>2, <1>3, <1>4 DEF WriterStep

LEMMA NextIInv == IInv /\ [Next]_vars => IInv'
<1> SUFFICES ASSUME IInv, [Next]_vars PROVE IInv'
  OBVIOUS
<1>1. ASSUME NEW t \in Threads, SpuriousWakeup(t) PROVE IInv'
  <2>1. /\ readers_ok' \subseteq readers_ok /\ writers_ok' = writers_ok \ {t}
        /\ UNCHANGED <<counts, shared_data, pc>>
    BY <1>1 DEF SpuriousWakeup
  <2>2. Reading' = Reading /\ Inside' = Inside /\ Asking' = Asking
    BY <2>1 DEF Reading, Inside, Asking
  <2>3. TypeOK' /\ Places'
    BY <2>1, <2>2 DEF IInv, TypeOK, Places, counts
  <2>4. ReadersCounted' /\ AskingCounted' /\ WriterCounted'
    BY <2>1, <2>2 DEF IInv, ReadersCounted, AskingCounted, WriterCounted, counts
  <2>5. NoLostWakeup'
    BY <2>1, <2>2 DEF IInv, Places, NoLostWakeup, counts
  <2> QED BY <2>3, <2>4, <2>5 DEF IInv
<1>2. CASE UNCHANGED vars
  BY <1>2 DEF vars, IInv, TypeOK, Places, ReadersCounted, AskingCounted, WriterCounted,
     NoLostWakeup, Reading, Inside, Asking
<1> QED BY <1>1, <1>2, ReaderIInv, WriterIInv DEF Next

LEMMA Inductive == Spec => []IInv
BY InitIInv, NextIInv, PTL DEF Spec
-----------------------------------------------------------------------------
\* Every variable of the lock stays in its type; in particular no counter of
\* rwlock_t goes below zero.
THEOREM TypeCorrect == Spec => []TypeOK
BY Inductive, PTL DEF IInv

\* Mutual exclusion: a writer inside has neither a reader nor another writer
\* with it, for any number of each.
THEOREM MutualExclusion == Spec => []Exclusive
<1>1. IInv => Exclusive
  BY FiniteParts DEF IInv, Exclusive, WriterCounted, ReadersCounted, TypeOK
<1> QED BY <1>1, Inductive, PTL

\* The counters of rwlock_t are the numbers of readers inside, of writers
\* inside and of writers that wait.
THEOREM CountersMatch == Spec => []CountsExact
<1>1. IInv => CountsExact
  BY FS_EmptySet, FS_Singleton DEF IInv, CountsExact, WriterCounted, ReadersCounted,
     AskingCounted, TypeOK
<1> QED BY <1>1, Inductive, PTL

\* No wake-up is lost, whichever sleeper each signal reaches and however many
\* waits return without one.
THEOREM WakeupsArrive == Spec => []NoLostWakeup
BY Inductive, PTL DEF IInv

\* What a reader reads is stable until it unlocks.
THEOREM ReadsAreStable == Spec => StableWhileReading
<1>1. IInv /\ [Next]_vars => [Reading # {} => shared_data' = shared_data]_vars
  <2> SUFFICES ASSUME IInv, Next, Reading # {}
               PROVE  shared_data' = shared_data
    BY DEF vars
  <2>1. ASSUME NEW w \in Writers, WriterStep(w) PROVE shared_data' = shared_data
    <3>1. ~Write(w)
      BY FiniteParts DEF IInv, TypeOK, Write, Inside, WriterCounted, ReadersCounted
    <3> QED BY <2>1, <3>1 DEF WriterStep, WrWait, WrLock, WrUnlock
  <2>2. ASSUME NEW r \in Readers, ReaderStep(r) PROVE shared_data' = shared_data
    BY <2>2 DEF ReaderStep, RdWait, RdLock, RdUnlock
  <2>3. ASSUME NEW t \in Threads, SpuriousWakeup(t) PROVE shared_data' = shared_data
    BY <2>3 DEF SpuriousWakeup
  <2> QED BY <2>1, <2>2, <2>3 DEF Next
<1> QED BY <1>1, Inductive, PTL DEF Spec, StableWhileReading
=============================================================================
