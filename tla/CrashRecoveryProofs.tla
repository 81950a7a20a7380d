------------------------- MODULE CrashRecoveryProofs -------------------------
(***************************************************************************)
(* Proofs about CrashRecovery, for every number of slots, every set of     *)
(* names, every bound and every set of system calls that may fail.         *)
(***************************************************************************)
EXTENDS CrashRecovery, SequenceTheorems, WellFoundedInduction, TLAPS

\* What is logged or about to be logged is an active record.
Active ==
  /\ \A i \in 1 .. Len(wal) : wal[i].data.active
  /\ \A i \in 1 .. Len(walDisk) : walDisk[i].data.active
  /\ pc \in Inserting => rec.active

\* The disk lags behind the mapping but never disagrees on a slot's id.
DiskBehind ==
  \A s \in Slots : dbDisk[s].active => mem[s].active /\ mem[s].id = dbDisk[s].id

UniqueMem ==
  \A s, t \in Slots : mem[s].active /\ mem[t].active /\ mem[s].id = mem[t].id => s = t

\* The entry is in the log before it is synced, and on disk after.
Logged ==
  /\ pc = "wal_sync" => HasEntry(wal, rec)
  /\ LogBeforeApply

IInv == TypeOK /\ Active /\ DiskBehind /\ UniqueMem /\ Logged
-----------------------------------------------------------------------------
\* A record is stored in a slot that is empty or already has its id, and then
\* no other slot has that id.
LEMMA SlotForSound ==
  ASSUME NEW m \in [Slots -> Record], NEW r \in Record, NEW s \in SlotFor(m, r),
         \A a, b \in Slots : m[a].active /\ m[b].active /\ m[a].id = m[b].id => a = b
  PROVE  /\ s \in Slots
         /\ m[s].active => m[s].id = r.id
         /\ \A t \in Slots : t # s /\ m[t].active => m[t].id # r.id
BY DEF SlotFor, Lowest, Holding, Empty

\* Storing an active record keeps ids unique and the disk consistent with
\* the mapping: the step Apply and Replay share.
LEMMA StoreSound ==
  ASSUME TypeOK, DiskBehind, UniqueMem,
         NEW r \in Record, r.active, NEW s \in SlotFor(mem, r),
         mem' = [mem EXCEPT ![s] = r], dbDisk' = dbDisk
  PROVE  mem' \in [Slots -> Record] /\ DiskBehind' /\ UniqueMem'
<1>1. /\ s \in Slots
      /\ mem[s].active => mem[s].id = r.id
      /\ \A t \in Slots : t # s /\ mem[t].active => mem[t].id # r.id
  BY SlotForSound DEF TypeOK, UniqueMem
<1>2. mem' \in [Slots -> Record]
  BY <1>1 DEF TypeOK
<1>3. \A t \in Slots : mem'[t] = IF t = s THEN r ELSE mem[t]
  BY <1>1 DEF TypeOK
<1>4. DiskBehind'
  BY <1>1, <1>3 DEF DiskBehind, TypeOK
<1>5. UniqueMem'
  BY <1>1, <1>3 DEF UniqueMem, TypeOK
<1> QED BY <1>2, <1>4, <1>5

LEMMA InitIInv == Init => IInv
<1> SUFFICES ASSUME Init PROVE IInv
  OBVIOUS
<1>1. Zeroed \in Record /\ ~Zeroed.active
  BY DEF Zeroed, Record
<1>2. TypeOK
  BY <1>1 DEF Init, TypeOK, PC
<1>3. Active /\ DiskBehind /\ UniqueMem /\ Logged
  BY <1>1 DEF Init, Active, DiskBehind, UniqueMem, Logged, LogBeforeApply, Inserting
<1> QED BY <1>2, <1>3 DEF IInv

\* Writing an entry after the log keeps what it held and adds the entry.
LEMMA AppendEntry ==
  ASSUME NEW w \in Seq(Cell), NEW r \in Record, NEW n \in 0 .. ENTRY
  PROVE  LET x == w \o SubSeq(Entry(r), 1, n)
         IN  /\ x \in Seq(Cell)
             /\ Len(x) = Len(w) + n
             /\ \A i \in 1 .. Len(w) : x[i] = w[i]
             /\ \A i \in 1 .. n : x[Len(w) + i] = [data |-> r, part |-> i]
<1>1. Entry(r) \in Seq(Cell) /\ Len(Entry(r)) = ENTRY
  BY DEF Entry, ENTRY, Cell
<1> DEFINE e == SubSeq(Entry(r), 1, n)
<1>2. n \in Nat /\ n <= Len(Entry(r)) /\ 1 .. n \subseteq 1 .. ENTRY
  BY <1>1 DEF ENTRY
<1>3. e \in Seq(Cell) /\ Len(e) = n
  BY <1>1, <1>2, SubSeqProperties
<1>4. \A i \in 1 .. n : e[i] = Entry(r)[i]
  BY <1>1, <1>2, SubSeqProperties
<1>5. \A i \in 1 .. n : e[i] = [data |-> r, part |-> i]
  BY <1>2, <1>4 DEF Entry
<1> HIDE DEF e
<1>6. /\ w \o e \in Seq(Cell)
      /\ Len(w \o e) = Len(w) + n
      /\ \A i \in 1 .. Len(w) : (w \o e)[i] = w[i]
      /\ \A i \in 1 .. n : (w \o e)[Len(w) + i] = e[i]
  BY <1>2, <1>3
<1> QED BY <1>5, <1>6 DEF e

\* What is on disk after a power failure is a log of whole cells, all active.
LEMMA ImageSound ==
  ASSUME TypeOK, Active, NEW w \in WalImages
  PROVE  w \in Seq(Cell) /\ \A i \in 1 .. Len(w) : w[i].data.active
<1>1. ASSUME NEW n \in 0 .. Len(wal), w = SubSeq(wal, 1, n)
      PROVE  w \in Seq(Cell) /\ \A i \in 1 .. Len(w) : w[i].data.active
  <2>1. w \in Seq(Cell) /\ Len(w) = n /\ \A i \in 1 .. n : w[i] = wal[i]
    BY <1>1 DEF TypeOK
  <2> QED BY <2>1 DEF Active, TypeOK
<1>2. CASE w = walDisk
  BY <1>2 DEF TypeOK, Active
<1>3. w = walDisk \/ \E n \in 0 .. Len(wal) : w = SubSeq(wal, 1, n)
  BY DEF WalImages, TypeOK
<1> QED BY <1>1, <1>2, <1>3

LEMMA NextIInv == IInv /\ [Next]_vars => IInv'
<1> SUFFICES ASSUME IInv, [Next]_vars PROVE IInv'
  OBVIOUS
<1> USE DEF IInv, db, log
<1>1. CASE Start
  BY <1>1 DEF Start, TypeOK, Active, DiskBehind, UniqueMem, Logged,
     LogBeforeApply, HasEntry, PC, Inserting, Recovering
<1>2. CASE Replay
  <2>1. Len(wal) \in Nat /\ cursor \in Nat
    BY DEF TypeOK
  <2> DEFINE r == wal[cursor + 1].data
  <2>2. cursor + 1 \in 1 .. Len(wal)
    BY <1>2, <2>1 DEF Replay, ENTRY
  <2>3. r \in Record /\ r.active
    <3>1. wal[cursor + 1] \in Cell
      BY <2>2, ElementOfSeq DEF TypeOK
    <3>2. r \in Record
      BY <3>1 DEF Cell
    <3>3. r.active
      BY <2>2 DEF Active
    <3> QED BY <3>2, <3>3
  <2>4. mem' \in [Slots -> Record] /\ DiskBehind' /\ UniqueMem'
    <3>1. CASE UNCHANGED mem
      BY <3>1, <1>2 DEF Replay, TypeOK, DiskBehind, UniqueMem
    <3>2. CASE \E s \in SlotFor(mem, r) : mem' = [mem EXCEPT ![s] = r]
      BY <3>2, <1>2, <2>3, StoreSound DEF Replay
    <3> QED BY <1>2, <3>1, <3>2 DEF Replay
  <2>5. TypeOK'
    BY <1>2, <2>1, <2>4 DEF Replay, TypeOK, PC, Recovering, ENTRY
  <2>6. Active' /\ Logged'
    BY <1>2 DEF Replay, Active, Logged, LogBeforeApply, HasEntry, Inserting
  <2> QED BY <2>4, <2>5, <2>6
<1>3. CASE ReplayMsync
  BY <1>3 DEF ReplayMsync, TypeOK, Active, DiskBehind, UniqueMem, Logged,
     LogBeforeApply, HasEntry, PC, Inserting, Recovering
<1>4. CASE RecoverDone
  <2>1. wal' \in Seq(Cell) /\ \A i \in 1 .. Len(wal') : wal'[i].data.active
    <3>1. CASE wal' = <<>>
      BY <3>1
    <3>2. CASE wal' = wal
      BY <3>2 DEF TypeOK, Active
    <3> QED BY <1>4, <3>1, <3>2 DEF RecoverDone
  <2>2. TypeOK'
    BY <1>4, <2>1 DEF RecoverDone, TypeOK, PC
  <2>3. Active' /\ DiskBehind' /\ UniqueMem' /\ Logged'
    BY <1>4, <2>1 DEF RecoverDone, Active, DiskBehind, UniqueMem, Logged,
       LogBeforeApply, Inserting
  <2> QED BY <2>2, <2>3
<1>5. ASSUME NEW name \in Names, InsertBegin(name) PROVE IInv'
  BY <1>5 DEF InsertBegin, TypeOK, Active, DiskBehind, UniqueMem, Logged,
     LogBeforeApply, HasEntry, PC, Inserting, Record
<1>6. CASE WalWrite
  <2>1. PICK n \in 0 .. ENTRY :
           /\ wal' = wal \o SubSeq(Entry(rec), 1, n)
           /\ pc' = IF n = ENTRY THEN "wal_sync" ELSE "ready"
    BY <1>6 DEF WalWrite, ENTRY
  <2>2. rec \in Record /\ rec.active /\ wal \in Seq(Cell) /\ Len(wal) \in Nat
    BY <1>6 DEF WalWrite, TypeOK, Active, Inserting
  <2>3. /\ wal' \in Seq(Cell)
        /\ Len(wal') = Len(wal) + n
        /\ \A i \in 1 .. Len(wal) : wal'[i] = wal[i]
        /\ \A i \in 1 .. n : wal'[Len(wal) + i] = [data |-> rec, part |-> i]
    BY <2>1, <2>2, AppendEntry
  <2>4. TypeOK'
    BY <1>6, <2>1, <2>3 DEF WalWrite, TypeOK, PC, Inserting
  <2>5. \A i \in 1 .. Len(wal') : wal'[i].data.active
    <3>1. ASSUME NEW i \in 1 .. n PROVE wal'[Len(wal) + i].data.active
      <4>1. wal'[Len(wal) + i] = [data |-> rec, part |-> i]
        BY <2>3
      <4>2. wal'[Len(wal) + i].data = rec
        BY <4>1
      <4> QED BY <2>2, <4>2, Zenon
    <3>2. ASSUME NEW i \in 1 .. Len(wal'), i > Len(wal)
          PROVE  wal'[i].data.active
      <4>1. i - Len(wal) \in 1 .. n /\ i = Len(wal) + (i - Len(wal))
        BY <2>2, <2>3, <3>2 DEF ENTRY
      <4> QED BY <3>1, <4>1
    <3> QED BY <2>2, <2>3, <3>2 DEF Active
  <2>6. Active'
    BY <1>6, <2>2, <2>5 DEF WalWrite, Active
  <2>7. Logged'
    <3>1. n = ENTRY => HasEntry(wal', rec)
      BY <2>2, <2>3 DEF HasEntry, Entry, ENTRY
    <3> QED BY <1>6, <2>1, <3>1 DEF WalWrite, Logged, LogBeforeApply, HasEntry
  <2>8. DiskBehind' /\ UniqueMem'
    BY <1>6 DEF WalWrite, DiskBehind, UniqueMem
  <2> QED BY <2>4, <2>6, <2>7, <2>8
<1>7. CASE WalSync
  BY <1>7 DEF WalSync, TypeOK, Active, DiskBehind, UniqueMem, Logged,
     LogBeforeApply, HasEntry, PC, Inserting
<1>8. CASE Apply
  <2>1. rec \in Record /\ rec.active
    BY <1>8 DEF Apply, TypeOK, Active, Inserting
  <2>2. mem' \in [Slots -> Record] /\ DiskBehind' /\ UniqueMem'
    <3>1. CASE UNCHANGED mem
      BY <3>1, <1>8 DEF Apply, TypeOK, DiskBehind, UniqueMem
    <3>2. CASE \E s \in SlotFor(mem, rec) : mem' = [mem EXCEPT ![s] = rec]
      BY <3>2, <1>8, <2>1, StoreSound DEF Apply
    <3> QED BY <1>8, <3>1, <3>2 DEF Apply
  <2>3. TypeOK'
    BY <1>8, <2>2 DEF Apply, TypeOK, PC, Inserting
  <2>4. Active' /\ Logged'
    BY <1>8, <2>1 DEF Apply, Active, Logged, LogBeforeApply, HasEntry, Inserting
  <2> QED BY <2>2, <2>3, <2>4
<1>9. CASE Msync
  <2>1. rec.name \in Names \cup {NoName}
    BY DEF TypeOK, Record
  <2>2. acked' \in [Ids -> Names \cup {NoName}]
    BY <1>9, <2>1 DEF Msync, TypeOK
  <2>3. TypeOK'
    BY <1>9, <2>2 DEF Msync, TypeOK, PC
  <2>4. Active' /\ DiskBehind' /\ UniqueMem' /\ Logged'
    BY <1>9 DEF Msync, TypeOK, Active, DiskBehind, UniqueMem, Logged,
       LogBeforeApply, Inserting
  <2> QED BY <2>3, <2>4
<1>10. CASE ProcessExit
  BY <1>10 DEF ProcessExit, ProcessGone, TypeOK, Active, DiskBehind, UniqueMem,
     Logged, LogBeforeApply, PC, Inserting, Zeroed, Record
<1>11. CASE PowerFailure
  <2>1. /\ wal' = walDisk' /\ wal' \in Seq(Cell)
        /\ \A i \in 1 .. Len(wal') : wal'[i].data.active
    BY <1>11, ImageSound DEF PowerFailure
  <2>2. mem' = dbDisk' /\ mem' \in [Slots -> Record]
        /\ \A s \in Slots : mem'[s] \in {mem[s], dbDisk[s]}
    BY <1>11 DEF PowerFailure, DbImages, TypeOK
  <2>3. TypeOK'
    BY <1>11, <2>1, <2>2 DEF PowerFailure, ProcessGone, TypeOK, PC, Zeroed, Record
  <2>4. Active' /\ Logged'
    BY <1>11, <2>1 DEF PowerFailure, ProcessGone, Active, Logged,
       LogBeforeApply, Inserting
  <2>5. DiskBehind' /\ UniqueMem'
    BY <2>2 DEF DiskBehind, UniqueMem, TypeOK
  <2> QED BY <2>3, <2>4, <2>5
<1>12. CASE UNCHANGED vars
  BY <1>12 DEF vars, TypeOK, Active, DiskBehind, UniqueMem, Logged,
     LogBeforeApply, HasEntry
<1> QED
  BY <1>1, <1>2, <1>3, <1>4, <1>5, <1>6, <1>7, <1>8, <1>9, <1>10, <1>11, <1>12
  DEF Next, Process

LEMMA Inductive == Spec => []IInv
BY InitIInv, NextIInv, PTL DEF Spec

\* Every value stays in its type, for every instance of the constants.
THEOREM TypeCorrect == Spec => []TypeOK
BY Inductive, PTL DEF IInv

\* However often recovery is interrupted and run again, and whatever fails,
\* no record id is ever in two slots, in the mapping or on disk.
THEOREM NoDuplicateIds == Spec => []UniqueIds
<1>1. IInv => UniqueIds
  BY DEF IInv, UniqueIds, UniqueMem, DiskBehind, TypeOK
<1> QED BY <1>1, Inductive, PTL

\* A record is stored in the mapping only when its log entry is on disk.
THEOREM WriteAhead == Spec => []LogBeforeApply
BY Inductive, PTL DEF IInv, Logged

\* A slot that holds a record on disk holds that record id for ever.
THEOREM SlotsKeepTheirId == Spec => SlotIdStable
<1>1. IInv /\ [Next]_vars =>
        [\A s \in Slots : dbDisk[s].active =>
            dbDisk'[s].active /\ dbDisk'[s].id = dbDisk[s].id]_vars
  <2> SUFFICES ASSUME IInv, Next, NEW s \in Slots, dbDisk[s].active
               PROVE  dbDisk'[s].active /\ dbDisk'[s].id = dbDisk[s].id
    BY DEF vars
  <2>1. mem[s].active /\ mem[s].id = dbDisk[s].id
    BY DEF IInv, DiskBehind
  <2>2. dbDisk' = dbDisk \/ dbDisk' = mem \/ dbDisk'[s] \in {mem[s], dbDisk[s]}
    BY DEF Next, Process, Start, Replay, ReplayMsync, RecoverDone, InsertBegin,
       WalWrite, WalSync, Apply, Msync, ProcessExit, PowerFailure, DbImages, db
  <2> QED BY <2>1, <2>2
<1> QED BY <1>1, Inductive, PTL DEF Spec, SlotIdStable
-----------------------------------------------------------------------------
(* Acknowledged records, when msync and ftruncate do not fail.             *)

\* The records a recovery would replay from the log w, and those it has read
\* once it is at the cell c.
Replayable(w) ==
  {w[ENTRY * k + 1].data : k \in {j \in 0 .. Len(w) : Intact(w, ENTRY * j)}}
ReadUpTo(w, c) ==
  {w[ENTRY * k + 1].data : k \in {j \in 0 .. Len(w) : Intact(w, ENTRY * j) /\ ENTRY * j < c}}

Acked == {i \in Ids : acked[i] # NoName}

\* There is no slot for this id, and there never will be.
NoRoom(id) == Empty(mem) = {} /\ Holding(mem, id) = {}

\* An acknowledged id is on disk, and neither a slot nor a log has another
\* name for it.
AckedStored ==
  \A i \in Acked :
    /\ \E s \in Slots : dbDisk[s].active /\ dbDisk[s].id = i
    /\ \A s \in Slots : mem[s].active /\ mem[s].id = i => mem[s].name = acked[i]
    /\ \A s \in Slots : dbDisk[s].active /\ dbDisk[s].id = i => dbDisk[s].name = acked[i]
AckedLogged ==
  \A i \in Acked : \A r \in Replayable(wal) \cup Replayable(walDisk) : r.id = i => r.name = acked[i]

\* A running process gives out ids that were not acknowledged before.
IdsFresh ==
  /\ pc # "down" => \A i \in Acked : i < next_id
  /\ pc \in Inserting => rec.id < next_id /\ rec.id \notin Acked

\* An id of a log that was read and not emptied was given out before, or has
\* no room.
Settled(R) == \A r \in R : r.id < next_id \/ NoRoom(r.id)
LogSettled ==
  /\ pc \in {"ready"} \cup Inserting => Settled(Replayable(wal))
  /\ pc = "recover" /\ entries_recovered = 0 =>
       /\ Settled(ReadUpTo(wal, cursor))
       /\ \A s \in Slots : mem[s].active => mem[s].id < next_id
  /\ pc \in Inserting =>
       \A r \in Replayable(wal) : r.id = rec.id => r.name = rec.name \/ NoRoom(rec.id)

Steps ==
  /\ \E k \in 0 .. cursor : cursor = ENTRY * k
  /\ pc = "down" => cursor = 0 /\ entries_recovered = 0
  /\ pc \in {"apply", "msync"} => walDisk = wal
  /\ pc = "msync" => \E s \in Slots : mem[s] = rec

AckInv == AckedStored /\ AckedLogged /\ IdsFresh /\ LogSettled /\ Steps

LEMMA ReplayableIs ==
  ASSUME NEW w \in Seq(Cell), NEW r
  PROVE  r \in Replayable(w) <=> \E k \in Nat : Intact(w, ENTRY * k) /\ r = w[ENTRY * k + 1].data
<1>1. \A k \in Nat : Intact(w, ENTRY * k) => k \in 0 .. Len(w)
  BY DEF Intact, ENTRY
<1> QED BY <1>1 DEF Replayable

LEMMA ReadUpToIs ==
  ASSUME NEW w \in Seq(Cell), NEW c \in Nat, NEW r
  PROVE  r \in ReadUpTo(w, c) <=>
           \E k \in Nat : Intact(w, ENTRY * k) /\ ENTRY * k < c /\ r = w[ENTRY * k + 1].data
<1>1. \A k \in Nat : Intact(w, ENTRY * k) => k \in 0 .. Len(w)
  BY DEF Intact, ENTRY
<1> QED BY <1>1 DEF ReadUpTo

LEMMA NothingReplayable == Replayable(<<>>) = {}
<1>1. \A k \in Nat : ~Intact(<<>>, ENTRY * k)
  BY DEF Intact, ENTRY
<1>2. <<>> \in Seq(Cell)
  OBVIOUS
<1> QED BY <1>1, <1>2, ReplayableIs

\* A log that agrees with another as far as it goes has no other records.
LEMMA PrefixReplayable ==
  ASSUME NEW w \in Seq(Cell), NEW v \in Seq(Cell), Len(v) <= Len(w),
         \A i \in 1 .. Len(v) : v[i] = w[i]
  PROVE  Replayable(v) \subseteq Replayable(w)
<1> SUFFICES ASSUME NEW r \in Replayable(v) PROVE r \in Replayable(w)
  OBVIOUS
<1>1. PICK k \in Nat : Intact(v, ENTRY * k) /\ r = v[ENTRY * k + 1].data
  BY ReplayableIs
<1>2. PICK c \in Nat : c = ENTRY * k
  BY DEF ENTRY
<1>3. c + 2 <= Len(v) /\ v[c + 1] = w[c + 1] /\ v[c + 2] = w[c + 2]
  BY <1>1, <1>2 DEF Intact, ENTRY
<1>4. Intact(w, c)
  BY <1>1, <1>2, <1>3 DEF Intact, ENTRY
<1> QED BY <1>1, <1>2, <1>3, <1>4, ReplayableIs

\* What is written behind a log is not taken for another record.
LEMMA WrittenReplayable ==
  ASSUME NEW w \in Seq(Cell), NEW v \in Seq(Cell), NEW q \in Record, NEW n \in 0 .. ENTRY,
         Len(v) = Len(w) + n,
         \A i \in 1 .. Len(w) : v[i] = w[i],
         \A i \in 1 .. n : v[Len(w) + i] = [data |-> q, part |-> i]
  PROVE  Replayable(v) \subseteq Replayable(w) \cup {q}
<1> SUFFICES ASSUME NEW r \in Replayable(v), r # q PROVE r \in Replayable(w)
  OBVIOUS
<1>1. PICK k \in Nat : Intact(v, ENTRY * k) /\ r = v[ENTRY * k + 1].data
  BY ReplayableIs
<1>2. PICK c \in Nat : c = ENTRY * k
  BY DEF ENTRY
<1>3. c + 2 <= Len(v) /\ v[c + 2] = [data |-> r, part |-> 2] /\ v[c + 1] = [data |-> r, part |-> 1]
  BY <1>1, <1>2 DEF Intact, ENTRY
<1>4. c + 2 <= Len(w)
  <2> SUFFICES ASSUME ~(c + 2 <= Len(w)) PROVE FALSE
    OBVIOUS
  <2>1. PICK i \in 1 .. n : c + 2 = Len(w) + i
    <3>1. Len(w) \in Nat /\ n \in Nat
      BY DEF ENTRY
    <3>2. c + 2 - Len(w) \in 1 .. n /\ c + 2 = Len(w) + (c + 2 - Len(w))
      BY <1>3, <3>1
    <3> QED BY <3>2
  <2>2. v[c + 2] = [data |-> q, part |-> i]
    BY <2>1
  <2>3. v[c + 2].data = q /\ v[c + 2].data = r
    BY <1>3, <2>2
  <2> QED BY <2>3
<1>5. v[c + 1] = w[c + 1] /\ v[c + 2] = w[c + 2]
  BY <1>4
<1>6. Intact(w, c)
  BY <1>1, <1>2, <1>4, <1>5 DEF Intact, ENTRY
<1> QED BY <1>1, <1>2, <1>5, <1>6, ReplayableIs

\* A turn of recovery's loop reads one entry.
LEMMA OneMoreRead ==
  ASSUME NEW w \in Seq(Cell), NEW c \in Nat, NEW k \in Nat, c = ENTRY * k
  PROVE  /\ ReadUpTo(w, c + ENTRY) \subseteq ReadUpTo(w, c) \cup {w[c + 1].data}
         /\ ~Intact(w, c) => ReadUpTo(w, c + ENTRY) \subseteq ReadUpTo(w, c)
         /\ Intact(w, c) => w[c + 1].data \in Replayable(w)
<1>0. c + ENTRY \in Nat
  BY DEF ENTRY
<1>1. ASSUME NEW r \in ReadUpTo(w, c + ENTRY)
      PROVE  r \in ReadUpTo(w, c) \/ (Intact(w, c) /\ r = w[c + 1].data)
  <2>1. PICK j \in Nat : Intact(w, ENTRY * j) /\ ENTRY * j < c + ENTRY /\ r = w[ENTRY * j + 1].data
    BY <1>0, ReadUpToIs
  <2>2. ENTRY * j = c \/ ENTRY * j < c
    BY <2>1 DEF ENTRY
  <2>3. CASE ENTRY * j < c
    BY <2>1, <2>3, ReadUpToIs
  <2>4. CASE ENTRY * j = c
    BY <2>1, <2>4
  <2> QED BY <2>2, <2>3, <2>4
<1>2. Intact(w, c) => w[c + 1].data \in Replayable(w)
  BY ReplayableIs
<1> QED BY <1>1, <1>2

\* At the end of the log all of it is read.
LEMMA AllRead ==
  ASSUME NEW w \in Seq(Cell), NEW c \in Nat, c + ENTRY > Len(w)
  PROVE  Replayable(w) \subseteq ReadUpTo(w, c)
<1> SUFFICES ASSUME NEW r \in Replayable(w) PROVE r \in ReadUpTo(w, c)
  OBVIOUS
<1>1. PICK k \in Nat : Intact(w, ENTRY * k) /\ r = w[ENTRY * k + 1].data
  BY ReplayableIs
<1>2. ENTRY * k < c
  BY <1>1 DEF Intact, ENTRY
<1> QED BY <1>1, <1>2, ReadUpToIs

LEMMA NothingRead == ASSUME NEW w \in Seq(Cell) PROVE ReadUpTo(w, 0) = {}
<1>1. \A k \in Nat : ~(ENTRY * k < 0)
  BY DEF ENTRY
<1> QED BY <1>1, ReadUpToIs

LEMMA LeastExists ==
  ASSUME NEW T, T \subseteq Nat, T # {}
  PROVE  \E x \in T : \A y \in T : x <= y
<1>1. \A x, y \in Nat : <<y, x>> \in OpToRel(<, Nat) <=> y < x
  BY DEF OpToRel
<1>2. PICK R : IsWellFoundedOn(R, Nat) /\ \A x, y \in Nat : <<y, x>> \in R <=> y < x
  BY <1>1, NatLessThanWellFounded, Zenon
<1>3. PICK x \in T : \A y \in T : ~(<<y, x>> \in R)
  BY <1>2, WFMin
<1>4. ASSUME NEW y \in T PROVE x <= y
  <2>1. x \in Nat /\ y \in Nat /\ ~(y < x)
    BY <1>2, <1>3
  <2> QED BY <2>1
<1> QED BY <1>4

\* A set of slots that is not empty has a lowest one.
LEMMA LowestExists == ASSUME NEW S \in SUBSET Slots, S # {} PROVE Lowest(S) # {}
<1>1. S \subseteq Nat
  BY RecordsAssumption DEF Slots
<1>2. PICK n \in S : \A m \in S : n <= m
  BY <1>1, LeastExists
<1> QED BY <1>2 DEF Lowest

\* A record without a slot has no room.
LEMMA EmptyPick ==
  ASSUME NEW r, SlotFor(mem, r) = {} PROVE Holding(mem, r.id) = {} /\ Empty(mem) = {}
<1>1. Holding(mem, r.id) \in SUBSET Slots /\ Empty(mem) \in SUBSET Slots
  BY DEF Holding, Empty
<1> QED BY <1>1, LowestExists DEF SlotFor

\* What the store of a record with id r.id leaves as it was.
LEMMA StoreKeeps ==
  ASSUME IInv, NEW r \in Record, r.active, NEW s \in SlotFor(mem, r), mem' = [mem EXCEPT ![s] = r]
  PROVE  /\ s \in Slots /\ mem'[s] = r
         /\ \A t \in Slots : mem'[t] = mem[t] \/ (t = s /\ mem'[t] = r)
         /\ \A id \in Nat : NoRoom(id) => NoRoom(id)'
<1>0. mem \in [Slots -> Record]
  BY DEF IInv, TypeOK
<1>1. s \in Slots /\ (mem[s].active => mem[s].id = r.id)
  BY <1>0, SlotForSound DEF IInv, UniqueMem
<1>2. \A t \in Slots : mem'[t] = IF t = s THEN r ELSE mem[t]
  BY <1>0, <1>1
<1>3. ASSUME NEW id \in Nat, NoRoom(id) PROVE NoRoom(id)'
  <2>1. \A t \in Slots : mem[t].active /\ mem[t].id # id
    BY <1>3 DEF NoRoom, Empty, Holding
  <2>2. \A t \in Slots : mem'[t].active /\ mem'[t].id # id
    BY <1>1, <1>2, <2>1
  <2> QED BY <2>2 DEF NoRoom, Empty, Holding
<1> QED BY <1>1, <1>2, <1>3

LEMMA AckInit == Init => AckInv
<1> SUFFICES ASSUME Init PROVE AckInv
  OBVIOUS
<1>1. Acked = {}
  BY DEF Init, Acked
<1>2. AckedStored /\ AckedLogged /\ IdsFresh
  BY <1>1 DEF Init, AckedStored, AckedLogged, IdsFresh, Inserting
<1>3. LogSettled
  BY DEF Init, LogSettled, Inserting
<1>4. 0 = ENTRY * 0 /\ 0 \in 0 .. 0
  BY DEF ENTRY
<1>5. Steps
  BY <1>4 DEF Init, Steps
<1> QED BY <1>2, <1>3, <1>5 DEF AckInv

\* The steps of recovery.
LEMMA AckStart == ASSUME IInv, AckInv, Start PROVE AckInv'
<1>1. /\ pc = "down" /\ pc' = "recover" /\ next_id' \in Nat /\ NextAvailable(mem, next_id')
      /\ UNCHANGED <<mem, dbDisk, wal, walDisk, rec, cursor, entries_recovered, acked>>
  BY DEF Start, db, log
<1>2. \A s \in Slots : mem[s].active => mem[s].id < next_id'
  BY <1>1 DEF NextAvailable
<1>3. Acked' = Acked /\ AckedStored' /\ AckedLogged'
  BY <1>1 DEF AckInv, AckedStored, AckedLogged, Acked
<1>4. \A i \in Acked : i < next_id'
  <2> TAKE i \in Acked
  <2>1. PICK s \in Slots : dbDisk[s].active /\ dbDisk[s].id = i
    BY DEF AckInv, AckedStored
  <2>2. mem[s].active /\ mem[s].id = i
    BY <2>1 DEF IInv, DiskBehind
  <2> QED BY <1>2, <2>2
<1>5. IdsFresh'
  BY <1>1, <1>3, <1>4 DEF IdsFresh, Inserting
<1>6. cursor = 0 /\ ReadUpTo(wal, 0) = {}
  BY <1>1, NothingRead DEF AckInv, Steps, IInv, TypeOK
<1>7. LogSettled'
  <2>1. Settled(ReadUpTo(wal, cursor))'
    BY <1>1, <1>6 DEF Settled
  <2>2. \A s \in Slots : mem'[s].active => mem'[s].id < next_id'
    BY <1>1, <1>2
  <2> QED BY <1>1, <2>1, <2>2 DEF LogSettled, Inserting
<1>8. Steps'
  BY <1>1 DEF AckInv, Steps
<1> QED BY <1>3, <1>5, <1>7, <1>8 DEF AckInv

LEMMA AckReplay == ASSUME IInv, AckInv, Replay PROVE AckInv'
<1> DEFINE r == wal[cursor + 1].data
<1>1. /\ pc = "recover" /\ cursor + ENTRY <= Len(wal) /\ cursor' = cursor + ENTRY
      /\ UNCHANGED <<dbDisk, wal, walDisk, next_id, rec, entries_recovered, acked>>
      /\ \/ /\ ~Intact(wal, cursor) \/ AlreadyApplied(mem, r) \/ SlotFor(mem, r) = {}
            /\ UNCHANGED <<mem, pc>>
         \/ /\ Intact(wal, cursor) /\ pc' = "replay_msync"
            /\ \E s \in SlotFor(mem, r) : mem' = [mem EXCEPT ![s] = r]
  BY DEF Replay, log
<1>2. wal \in Seq(Cell) /\ Len(wal) \in Nat /\ cursor \in Nat /\ mem \in [Slots -> Record] /\ next_id \in Nat
  BY DEF IInv, TypeOK
<1>3. PICK k \in Nat : cursor = ENTRY * k
  BY <1>2 DEF AckInv, Steps
<1>4. r \in Record /\ r.active
  <2>1. cursor + 1 \in 1 .. Len(wal)
    BY <1>1, <1>2 DEF ENTRY
  <2>2. wal[cursor + 1] \in Cell
    BY <1>2, <2>1
  <2>3. r.active
    BY <2>1 DEF IInv, Active
  <2> QED BY <2>2, <2>3 DEF Cell
<1>5. /\ ReadUpTo(wal, cursor + ENTRY) \subseteq ReadUpTo(wal, cursor) \cup {r}
      /\ ~Intact(wal, cursor) => ReadUpTo(wal, cursor + ENTRY) \subseteq ReadUpTo(wal, cursor)
      /\ Intact(wal, cursor) => r \in Replayable(wal)
  BY <1>2, <1>3, OneMoreRead
<1> HIDE DEF r
<1>6. Acked' = Acked /\ AckedLogged'
  BY <1>1 DEF AckInv, AckedLogged, Acked
<1>7. IdsFresh'
  BY <1>1, <1>6 DEF AckInv, IdsFresh, Inserting
<1>8. \E j \in 0 .. cursor' : cursor' = ENTRY * j
  <2>1. cursor' = ENTRY * (k + 1) /\ k + 1 \in 0 .. cursor'
    BY <1>1, <1>2, <1>3 DEF ENTRY
  <2> QED BY <2>1
<1>9. CASE UNCHANGED <<mem, pc>> /\ (~Intact(wal, cursor) \/ AlreadyApplied(mem, r) \/ SlotFor(mem, r) = {})
  <2>1. AckedStored'
    BY <1>1, <1>6, <1>9 DEF AckInv, AckedStored
  <2>2. ASSUME entries_recovered = 0, NEW q \in ReadUpTo(wal, cursor + ENTRY)
        PROVE  q.id < next_id \/ NoRoom(q.id)
    <3>1. /\ \A x \in ReadUpTo(wal, cursor) : x.id < next_id \/ NoRoom(x.id)
          /\ \A s \in Slots : mem[s].active => mem[s].id < next_id
      BY <1>1, <2>2 DEF AckInv, LogSettled, Settled
    <3>2. CASE q \in ReadUpTo(wal, cursor)
      BY <3>1, <3>2
    <3>3. CASE q = r /\ AlreadyApplied(mem, r)
      BY <3>1, <3>3 DEF AlreadyApplied
    <3>4. CASE q = r /\ SlotFor(mem, r) = {}
      <4>1. Holding(mem, r.id) = {} /\ Empty(mem) = {}
        BY <3>4, EmptyPick DEF SlotFor
      <4> QED BY <3>4, <4>1 DEF NoRoom
    <3> QED BY <1>5, <1>9, <2>2, <3>2, <3>3, <3>4
  <2>3. LogSettled'
    <3>1. pc' = "recover" /\ cursor' = cursor + ENTRY /\ UNCHANGED <<mem, wal, next_id, entries_recovered>>
      BY <1>1, <1>9
    <3>2. entries_recovered = 0 => \A s \in Slots : mem[s].active => mem[s].id < next_id
      BY <1>1 DEF AckInv, LogSettled
    <3> QED BY <2>2, <3>1, <3>2 DEF LogSettled, Settled, Inserting, NoRoom
  <2>4. Steps'
    BY <1>1, <1>8, <1>9 DEF AckInv, Steps
  <2> QED BY <1>6, <1>7, <2>1, <2>3, <2>4 DEF AckInv
<1>10. CASE Intact(wal, cursor) /\ pc' = "replay_msync" /\ \E s \in SlotFor(mem, r) : mem' = [mem EXCEPT ![s] = r]
  <2>1. PICK s \in SlotFor(mem, r) : mem' = [mem EXCEPT ![s] = r]
    BY <1>10
  <2>2. \A t \in Slots : mem'[t] = mem[t] \/ mem'[t] = r
    BY <1>4, <2>1, StoreKeeps
  <2>3. \A i \in Acked : r.id = i => r.name = acked[i]
    BY <1>5, <1>10 DEF AckInv, AckedLogged
  <2>4. AckedStored'
    BY <1>1, <1>6, <2>2, <2>3 DEF AckInv, AckedStored
  <2>5. LogSettled'
    BY <1>10 DEF LogSettled, Inserting
  <2>6. Steps'
    BY <1>8, <1>10 DEF Steps
  <2> QED BY <1>6, <1>7, <2>4, <2>5, <2>6 DEF AckInv
<1> QED BY <1>1, <1>9, <1>10

LEMMA ReplayableTyped == ASSUME NEW w \in Seq(Cell) PROVE Replayable(w) \subseteq Record
<1> SUFFICES ASSUME NEW r \in Replayable(w) PROVE r \in Record
  OBVIOUS
<1>1. PICK k \in Nat : Intact(w, ENTRY * k) /\ r = w[ENTRY * k + 1].data
  BY ReplayableIs
<1>2. ENTRY * k + 1 \in 1 .. Len(w)
  BY <1>1 DEF Intact, ENTRY
<1>3. w[ENTRY * k + 1] \in Cell
  BY <1>2
<1> QED BY <1>1, <1>3 DEF Cell

LEMMA AckReplayMsync == ASSUME "msync" \notin Faults, IInv, AckInv, ReplayMsync PROVE AckInv'
<1>1. /\ pc = "replay_msync" /\ pc' = "recover" /\ dbDisk' = mem /\ entries_recovered' = entries_recovered + 1
      /\ UNCHANGED <<mem, wal, walDisk, next_id, rec, cursor, acked>>
  BY DEF ReplayMsync, log
<1>2. entries_recovered' # 0
  BY <1>1 DEF IInv, TypeOK
<1>3. Acked' = Acked /\ AckedLogged' /\ IdsFresh'
  BY <1>1 DEF AckInv, AckedLogged, Acked, IdsFresh, Inserting
<1>4. AckedStored'
  BY <1>1, <1>3 DEF AckInv, AckedStored, IInv, DiskBehind
<1>5. LogSettled' /\ Steps'
  BY <1>1, <1>2 DEF AckInv, LogSettled, Steps, Inserting
<1> QED BY <1>3, <1>4, <1>5 DEF AckInv

LEMMA AckRecoverDone == ASSUME "ftruncate" \notin Faults, IInv, AckInv, RecoverDone PROVE AckInv'
<1>1. /\ pc = "recover" /\ cursor + ENTRY > Len(wal) /\ pc' = "ready" /\ cursor' = 0 /\ entries_recovered' = 0
      /\ wal' = <<>> \/ (entries_recovered = 0 /\ wal' = wal)
      /\ UNCHANGED <<mem, dbDisk, walDisk, next_id, rec, acked>>
  BY DEF RecoverDone, db, IInv, TypeOK
<1>2. wal \in Seq(Cell) /\ cursor \in Nat
  BY DEF IInv, TypeOK
<1>3. Replayable(wal') = {} \/ (entries_recovered = 0 /\ wal' = wal)
  BY <1>1, NothingReplayable
<1>4. Acked' = Acked /\ AckedStored' /\ IdsFresh'
  BY <1>1 DEF AckInv, AckedStored, Acked, IdsFresh, Inserting
<1>5. AckedLogged'
  BY <1>1, <1>3, <1>4 DEF AckInv, AckedLogged
<1>6. \A r \in Replayable(wal') : r.id < next_id \/ NoRoom(r.id)
  <2>1. Replayable(wal) \subseteq ReadUpTo(wal, cursor)
    BY <1>1, <1>2, AllRead
  <2> QED BY <1>1, <1>3, <2>1 DEF AckInv, LogSettled, Settled
<1>7. LogSettled'
  BY <1>1, <1>6 DEF LogSettled, Settled, NoRoom, Inserting
<1>8. 0 = ENTRY * 0 /\ 0 \in 0 .. 0
  BY DEF ENTRY
<1>9. Steps'
  BY <1>1, <1>8 DEF Steps
<1> QED BY <1>4, <1>5, <1>7, <1>9 DEF AckInv

\* The steps of an insert.
LEMMA AckBegin == ASSUME IInv, AckInv, NEW name \in Names, InsertBegin(name) PROVE AckInv'
<1>1. /\ pc = "ready" /\ pc' = "wal_write" /\ rec' = [id |-> next_id, name |-> name, active |-> TRUE]
      /\ next_id' = next_id + 1 /\ UNCHANGED <<mem, dbDisk, wal, walDisk, cursor, entries_recovered, acked>>
  BY DEF InsertBegin, db, log
<1>2. next_id \in Nat /\ rec'.id = next_id /\ wal \in Seq(Cell)
  BY <1>1 DEF IInv, TypeOK
<1>3. Acked' = Acked /\ AckedStored' /\ AckedLogged'
  BY <1>1 DEF AckInv, AckedStored, AckedLogged, Acked
<1>4. \A i \in Acked : i < next_id /\ i \in Nat
  BY <1>1 DEF AckInv, IdsFresh, Acked, Ids
<1>5. IdsFresh'
  BY <1>1, <1>2, <1>3, <1>4 DEF IdsFresh, Inserting
<1>6. \A r \in Replayable(wal) : r.id \in Nat /\ (r.id < next_id \/ NoRoom(r.id))
  BY <1>1, <1>2, ReplayableTyped DEF AckInv, LogSettled, Settled, Record
<1>7. \A r \in Replayable(wal) : r.id < next_id + 1 \/ NoRoom(r.id)
  BY <1>2, <1>6
<1>8. \A r \in Replayable(wal) : r.id = next_id => NoRoom(r.id)
  BY <1>2, <1>6
<1>9. LogSettled'
  BY <1>1, <1>2, <1>7, <1>8 DEF LogSettled, Settled, NoRoom, Inserting
<1>10. Steps'
  BY <1>1 DEF AckInv, Steps
<1> QED BY <1>3, <1>5, <1>9, <1>10 DEF AckInv

LEMMA AckWrite == ASSUME IInv, AckInv, WalWrite PROVE AckInv'
<1>1. PICK n \in 0 .. ENTRY :
         /\ wal' = wal \o SubSeq(Entry(rec), 1, n)
         /\ pc' = IF n = ENTRY THEN "wal_sync" ELSE "ready"
  BY DEF WalWrite, ENTRY
<1>2. pc = "wal_write" /\ pc' \in {"wal_sync", "ready"}
      /\ UNCHANGED <<mem, dbDisk, walDisk, next_id, rec, cursor, entries_recovered, acked>>
  BY <1>1 DEF WalWrite, db
<1>3. rec \in Record /\ wal \in Seq(Cell)
  BY DEF IInv, TypeOK
<1>4. /\ wal' \in Seq(Cell)
      /\ Len(wal') = Len(wal) + n
      /\ \A i \in 1 .. Len(wal) : wal'[i] = wal[i]
      /\ \A i \in 1 .. n : wal'[Len(wal) + i] = [data |-> rec, part |-> i]
  BY <1>1, <1>3, AppendEntry
<1>5. Replayable(wal') \subseteq Replayable(wal) \cup {rec}
  <2>1. PICK v : v = wal'
    OBVIOUS
  <2>2. Replayable(v) \subseteq Replayable(wal) \cup {rec}
    BY <1>3, <1>4, <2>1, WrittenReplayable
  <2> QED BY <2>1, <2>2
<1>6. rec.id < next_id /\ rec.id \notin Acked
  BY <1>2 DEF AckInv, IdsFresh, Inserting
<1>7. Acked' = Acked /\ AckedStored'
  BY <1>2 DEF AckInv, AckedStored, Acked
<1>8. AckedLogged'
  BY <1>2, <1>5, <1>6, <1>7 DEF AckInv, AckedLogged
<1>9. IdsFresh'
  BY <1>2, <1>6, <1>7 DEF AckInv, IdsFresh
<1>10. /\ \A r \in Replayable(wal') : r.id < next_id \/ NoRoom(r.id)
       /\ \A r \in Replayable(wal') : r.id = rec.id => r.name = rec.name \/ NoRoom(rec.id)
  BY <1>2, <1>5, <1>6 DEF AckInv, LogSettled, Settled, Inserting
<1>11. LogSettled'
  BY <1>2, <1>10 DEF LogSettled, Settled, NoRoom
<1>12. Steps'
  BY <1>2 DEF AckInv, Steps
<1> QED BY <1>7, <1>8, <1>9, <1>11, <1>12 DEF AckInv

LEMMA AckSync == ASSUME IInv, AckInv, WalSync PROVE AckInv'
<1>1. /\ pc = "wal_sync"
      /\ (walDisk' = wal /\ pc' = "apply") \/ (walDisk' = walDisk /\ pc' = "ready")
      /\ UNCHANGED <<mem, dbDisk, wal, next_id, rec, cursor, entries_recovered, acked>>
  BY DEF WalSync, db
<1>2. Acked' = Acked /\ AckedStored' /\ AckedLogged' /\ IdsFresh'
  BY <1>1 DEF AckInv, AckedStored, AckedLogged, Acked, IdsFresh, Inserting
<1>3. LogSettled'
  BY <1>1 DEF AckInv, LogSettled, Settled, NoRoom, Inserting
<1>4. Steps'
  BY <1>1 DEF AckInv, Steps
<1> QED BY <1>2, <1>3, <1>4 DEF AckInv

LEMMA AckApply == ASSUME IInv, AckInv, Apply PROVE AckInv'
<1>1. /\ pc = "apply" /\ UNCHANGED <<dbDisk, wal, walDisk, next_id, rec, cursor, entries_recovered, acked>>
      /\ \/ pc' = "ready" /\ UNCHANGED mem
         \/ pc' = "msync" /\ \E s \in SlotFor(mem, rec) : mem' = [mem EXCEPT ![s] = rec]
  BY DEF Apply, log
<1>2. rec \in Record /\ rec.active /\ rec.id < next_id /\ rec.id \notin Acked /\ wal \in Seq(Cell)
  BY <1>1 DEF IInv, TypeOK, Active, AckInv, IdsFresh, Inserting
<1>3. Acked' = Acked /\ AckedLogged' /\ IdsFresh'
  BY <1>1, <1>2 DEF AckInv, AckedLogged, Acked, IdsFresh, Inserting
<1>4. /\ \A r \in Replayable(wal) : r.id \in Nat /\ (r.id < next_id \/ NoRoom(r.id))
      /\ \A r \in Replayable(wal) : r.id = rec.id => r.name = rec.name \/ NoRoom(rec.id)
  BY <1>1, <1>2, ReplayableTyped DEF AckInv, LogSettled, Settled, Inserting, Record
<1>5. CASE pc' = "ready" /\ UNCHANGED mem
  <2>1. AckedStored'
    BY <1>1, <1>3, <1>5 DEF AckInv, AckedStored
  <2>2. LogSettled'
    BY <1>1, <1>4, <1>5 DEF LogSettled, Settled, NoRoom, Inserting
  <2>3. Steps'
    BY <1>1, <1>5 DEF AckInv, Steps
  <2> QED BY <1>3, <2>1, <2>2, <2>3 DEF AckInv
<1>6. ASSUME pc' = "msync", NEW s \in SlotFor(mem, rec), mem' = [mem EXCEPT ![s] = rec] PROVE AckInv'
  <2>1. /\ s \in Slots /\ mem'[s] = rec
        /\ \A t \in Slots : mem'[t] = mem[t] \/ (t = s /\ mem'[t] = rec)
        /\ \A id \in Nat : NoRoom(id) => NoRoom(id)'
    BY <1>2, <1>6, StoreKeeps
  <2>2. AckedStored'
    BY <1>1, <1>2, <1>3, <2>1 DEF AckInv, AckedStored
  <2>3. rec.id \in Nat
    BY <1>2 DEF Record
  <2>4. /\ \A r \in Replayable(wal) : r.id < next_id \/ NoRoom(r.id)'
        /\ \A r \in Replayable(wal) : r.id = rec.id => r.name = rec.name \/ NoRoom(rec.id)'
    <3>1. ASSUME NEW r \in Replayable(wal) PROVE r.id < next_id \/ NoRoom(r.id)'
      <4>1. PICK x \in Nat : x = r.id
        BY <1>4
      <4>2. NoRoom(x) => NoRoom(x)'
        BY <2>1
      <4> QED BY <1>4, <4>1, <4>2 DEF NoRoom
    <3>2. NoRoom(rec.id) => (Empty(mem') = {} /\ Holding(mem', rec.id) = {})
      <4>1. PICK x \in Nat : x = rec.id
        BY <2>3
      <4>2. NoRoom(x) => NoRoom(x)'
        BY <2>1
      <4> QED BY <4>1, <4>2 DEF NoRoom
    <3> QED BY <1>1, <1>4, <3>1, <3>2 DEF NoRoom
  <2>5. LogSettled'
    BY <1>1, <1>6, <2>4 DEF LogSettled, Settled, NoRoom, Inserting
  <2>6. Steps'
    BY <1>1, <1>6, <2>1 DEF AckInv, Steps
  <2> QED BY <1>3, <2>2, <2>5, <2>6 DEF AckInv
<1> QED BY <1>1, <1>5, <1>6

LEMMA AckMsync == ASSUME "msync" \notin Faults, IInv, AckInv, Msync PROVE AckInv'
<1>1. /\ pc = "msync" /\ pc' = "ready" /\ dbDisk' = mem /\ acked' = [acked EXCEPT ![rec.id] = rec.name]
      /\ UNCHANGED <<mem, wal, walDisk, next_id, rec, cursor, entries_recovered>>
  BY DEF Msync, log
<1>2. rec \in Record /\ rec.active /\ rec.id < next_id /\ rec.id \notin Acked /\ walDisk = wal
      /\ acked \in [Ids -> Names \cup {NoName}]
  BY <1>1 DEF IInv, TypeOK, Active, AckInv, IdsFresh, Steps, Inserting
<1>3. PICK s \in Slots : mem[s] = rec
  BY <1>1 DEF AckInv, Steps
<1>4. ~NoRoom(rec.id)
  BY <1>2, <1>3 DEF NoRoom, Holding
<1>5. \A r \in Replayable(wal) : r.id = rec.id => r.name = rec.name
  BY <1>1, <1>4 DEF AckInv, LogSettled, Inserting
<1>6. \A t \in Slots : mem[t].active /\ mem[t].id = rec.id => mem[t].name = rec.name
  BY <1>2, <1>3 DEF IInv, UniqueMem
<1>7. \A i \in Ids : acked'[i] = IF i = rec.id THEN rec.name ELSE acked[i]
  BY <1>1, <1>2
<1>8. \A i \in Acked' : (i = rec.id /\ acked'[i] = rec.name) \/ (i \in Acked /\ acked'[i] = acked[i])
  BY <1>7 DEF Acked
<1>9. AckedStored'
  <2> SUFFICES ASSUME NEW i \in Acked'
               PROVE  /\ \E t \in Slots : mem[t].active /\ mem[t].id = i
                      /\ \A t \in Slots : mem[t].active /\ mem[t].id = i => mem[t].name = acked'[i]
    BY <1>1 DEF AckedStored
  <2>1. CASE i = rec.id /\ acked'[i] = rec.name
    BY <1>2, <1>3, <1>6, <2>1
  <2>2. CASE i \in Acked /\ acked'[i] = acked[i]
    BY <2>2 DEF AckInv, AckedStored, IInv, DiskBehind
  <2> QED BY <1>8, <2>1, <2>2
<1>10. AckedLogged'
  <2> SUFFICES ASSUME NEW i \in Acked', NEW r \in Replayable(wal), r.id = i PROVE r.name = acked'[i]
    BY <1>1, <1>2 DEF AckedLogged
  <2> QED BY <1>5, <1>8 DEF AckInv, AckedLogged
<1>11. IdsFresh'
  <2>1. \A i \in Acked : i < next_id
    BY <1>1 DEF AckInv, IdsFresh
  <2> QED BY <1>1, <1>2, <1>8, <2>1 DEF IdsFresh, Inserting
<1>12. LogSettled'
  BY <1>1 DEF AckInv, LogSettled, Settled, NoRoom, Inserting
<1>13. Steps'
  BY <1>1 DEF AckInv, Steps
<1> QED BY <1>9, <1>10, <1>11, <1>12, <1>13 DEF AckInv

\* The end of a process and the loss of power: every image of the log is a
\* log before it, or the beginning of one.
LEMMA AckGone ==
  ASSUME AckInv, ProcessGone, acked' = acked, AckedStored', AckedLogged' PROVE AckInv'
<1>1. pc' = "down" /\ cursor' = 0 /\ entries_recovered' = 0
  BY DEF ProcessGone
<1>2. IdsFresh' /\ LogSettled'
  BY <1>1 DEF IdsFresh, LogSettled, Inserting
<1>3. 0 = ENTRY * 0 /\ 0 \in 0 .. 0
  BY DEF ENTRY
<1>4. Steps'
  BY <1>1, <1>3 DEF Steps
<1> QED BY <1>2, <1>4 DEF AckInv

LEMMA ImageReplayable ==
  ASSUME TypeOK, NEW w \in WalImages PROVE Replayable(w) \subseteq Replayable(wal) \cup Replayable(walDisk)
<1>1. CASE w = walDisk
  BY <1>1
<1>2. ASSUME NEW n \in 0 .. Len(wal), w = SubSeq(wal, 1, n)
      PROVE  Replayable(w) \subseteq Replayable(wal)
  <2>1. wal \in Seq(Cell) /\ Len(wal) \in Nat
    BY DEF TypeOK
  <2>2. w \in Seq(Cell) /\ Len(w) = n /\ \A i \in 1 .. n : w[i] = wal[i]
    BY <1>2, <2>1
  <2>3. Len(w) <= Len(wal)
    BY <2>1, <2>2
  <2> QED BY <2>1, <2>2, <2>3, PrefixReplayable
<1>3. w = walDisk \/ \E n \in 0 .. Len(wal) : w = SubSeq(wal, 1, n)
  BY DEF WalImages, TypeOK
<1> QED BY <1>1, <1>2, <1>3

LEMMA AckPower == ASSUME IInv, AckInv, PowerFailure PROVE AckInv'
<1>1. PICK w \in WalImages : wal' = w /\ walDisk' = w
  BY DEF PowerFailure
<1>2. mem' = dbDisk' /\ acked' = acked /\ \A s \in Slots : mem'[s] \in {mem[s], dbDisk[s]}
  BY DEF PowerFailure, DbImages
<1>3. Replayable(wal') \subseteq Replayable(wal) \cup Replayable(walDisk) /\ walDisk' = wal'
  BY <1>1, ImageReplayable DEF IInv
<1>4. Acked' = Acked
  BY <1>2 DEF Acked
<1>5. AckedLogged'
  BY <1>2, <1>3, <1>4 DEF AckInv, AckedLogged
<1>6. AckedStored'
  BY <1>2, <1>4 DEF AckInv, AckedStored, IInv, DiskBehind
<1> QED BY <1>2, <1>5, <1>6, AckGone DEF PowerFailure

LEMMA AckExit == ASSUME IInv, AckInv, ProcessExit PROVE AckInv'
<1>1. UNCHANGED <<mem, dbDisk, wal, walDisk, acked>>
  BY DEF ProcessExit, db, log
<1>2. AckedStored' /\ AckedLogged'
  BY <1>1 DEF AckInv, AckedStored, AckedLogged, Acked
<1> QED BY <1>1, <1>2, AckGone DEF ProcessExit

\* insert_record, recover_from_wal: as long as msync and ftruncate do not fail,
\* a record whose insert returned success is in the database under its name
\* ever after, for any number of slots and ids and whatever writes and syncs of
\* the log fail, processes are killed, and power is lost in a write, in a sync
\* or in the middle of a recovery.
THEOREM AckedAreKept ==
  ASSUME Faults \cap {"msync", "ftruncate"} = {} PROVE Spec => []AckedAfterRecovery
<1>1. "msync" \notin Faults /\ "ftruncate" \notin Faults
  OBVIOUS
<1>2. IInv /\ AckInv /\ [Next]_vars => AckInv'
  <2> SUFFICES ASSUME IInv, AckInv, [Next]_vars PROVE AckInv'
    OBVIOUS
  <2>1. CASE UNCHANGED vars
    <3>1. UNCHANGED <<mem, dbDisk, wal, walDisk, pc, next_id, rec, cursor, entries_recovered, acked>>
      BY <2>1 DEF vars
    <3>2. AckedStored' /\ AckedLogged' /\ IdsFresh'
      BY <3>1 DEF AckInv, AckedStored, AckedLogged, Acked, IdsFresh
    <3>3. LogSettled' /\ Steps'
      BY <3>1 DEF AckInv, LogSettled, Settled, NoRoom, Steps
    <3> QED BY <3>2, <3>3 DEF AckInv
  <2> QED BY <1>1, <2>1, AckStart, AckReplay, AckReplayMsync, AckRecoverDone, AckBegin, AckWrite, AckSync,
             AckApply, AckMsync, AckExit, AckPower
          DEF Next, Process
<1>3. Spec => []AckInv
  BY <1>2, AckInit, Inductive, PTL DEF Spec
<1>4. IInv /\ AckInv => AckedAfterRecovery
  BY DEF IInv, DiskBehind, AckInv, AckedStored, Acked, AckedAfterRecovery
<1> QED BY <1>3, <1>4, Inductive, PTL
=============================================================================
