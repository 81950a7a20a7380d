---------------------------- MODULE CrashRecovery ----------------------------
(***************************************************************************)
(* The write-ahead-logged record store of FILEIO/CrashRecovery: one        *)
(* process at a time maps the database file, replays the log, and then     *)
(* inserts records, each of them logged and fsync'ed before it is stored   *)
(* and msync'ed.                                                           *)
(*                                                                         *)
(* Both files exist twice: what the kernel holds (mem, wal), which outlives*)
(* the process, and what the disk holds (dbDisk, walDisk), which is all    *)
(* that outlives a power failure.  A log entry takes ENTRY cells, so that  *)
(* a short write, or a power failure in the middle of a write, leaves a    *)
(* log whose tail is not a whole entry.                                    *)
(***************************************************************************)
EXTENDS Integers, Sequences, TLC

CONSTANTS MAX_RECORDS,  \* slots of the database file
          Names,        \* names a record may be given
          NoName,       \* the zero-filled name of a slot never written
          Faults,       \* system calls that may fail
          MaxId,        \* bound: no insert is begun once next_id exceeds it
          MaxWal        \* bound: cells the log may reach

ASSUME RecordsAssumption == MAX_RECORDS \in Nat \ {0}
ASSUME BoundsAssumption == MaxId \in Nat /\ MaxWal \in Nat
ASSUME NamesAssumption == NoName \notin Names
ASSUME FaultsAssumption == Faults \subseteq {"write", "fsync", "msync", "ftruncate"}

VARIABLES mem,       \* db_mmap: the shared mapping, i.e. the page cache
          dbDisk,    \* the database file as the disk holds it
          wal,       \* the log file as read() and write() see it
          walDisk,   \* the log file as the disk holds it
          pc,        \* where the process is, "down" when none runs
          next_id,   \* ctx->next_id
          rec,       \* insert_record's record
          cursor,    \* cells of the log that recovery has read
          entries_recovered,
          acked      \* history: last name insert_record returned success for

db   == <<mem, dbDisk>>
log  == <<wal, walDisk>>
vars == <<mem, dbDisk, wal, walDisk, pc, next_id, rec, cursor,
          entries_recovered, acked>>

ENTRY  == 2
Slots  == 0 .. MAX_RECORDS - 1
Ids    == 1 .. MaxId
Record == [id : Nat, name : Names \cup {NoName}, active : BOOLEAN]
Cell   == [data : Record, part : 1 .. ENTRY]
Zeroed == [id |-> 0, name |-> NoName, active |-> FALSE]

Inserting  == {"wal_write", "wal_sync", "apply", "msync"}
Recovering == {"recover", "replay_msync"}
PC         == {"down", "ready"} \cup Inserting \cup Recovering

TypeOK ==
  /\ mem \in [Slots -> Record]
  /\ dbDisk \in [Slots -> Record]
  /\ wal \in Seq(Cell)
  /\ walDisk \in Seq(Cell)
  /\ pc \in PC
  /\ next_id \in Nat
  /\ rec \in Record
  /\ cursor \in Nat
  /\ entries_recovered \in Nat
  /\ acked \in [Ids -> Names \cup {NoName}]

Init ==
  /\ mem = [s \in Slots |-> Zeroed]
  /\ dbDisk = mem
  /\ wal = <<>>
  /\ walDisk = <<>>
  /\ pc = "down"
  /\ next_id = 0
  /\ rec = Zeroed
  /\ cursor = 0
  /\ entries_recovered = 0
  /\ acked = [i \in Ids |-> NoName]
-----------------------------------------------------------------------------
(* Reading the database and the log.                                       *)

Lowest(S) == {s \in S : \A t \in S : s <= t}

Holding(m, id) == {s \in Slots : m[s].active /\ m[s].id = id}
Empty(m)       == {s \in Slots : ~m[s].active}

\* Mutant: the second scan only, without the look for the same id.
EmptySlotOnly(m, r) == Lowest(Empty(m))

\* Mutant: a full database gives up its first slot.
FirstSlotWhenFull(m, r) ==
  IF Holding(m, r.id) # {} THEN Lowest(Holding(m, r.id))
  ELSE IF Empty(m) # {} THEN Lowest(Empty(m)) ELSE Lowest(Slots)

\* The slot apply_to_database picks, as a set with at most one element.
SlotFor(m, r) ==
  IF Holding(m, r.id) # {} THEN Lowest(Holding(m, r.id)) ELSE Lowest(Empty(m))

Entry(r) == [p \in 1 .. ENTRY |-> [data |-> r, part |-> p]]

\* The ENTRY cells after position c are one entry that passes its checksum.
Intact(w, c) ==
  /\ c + ENTRY <= Len(w)
  /\ \A p \in 1 .. ENTRY : w[c + p] = [data |-> w[c + 1].data, part |-> p]

AlreadyApplied(m, r) ==
  \E s \in Slots : m[s].active /\ m[s].id = r.id /\ m[s].name = r.name

\* The id init_database settles on: one more than the largest active id.
NextAvailable(m, n) ==
  LET active == {m[s].id : s \in {t \in Slots : m[t].active}}
  IN  n \in {1} \cup {i + 1 : i \in active} /\ \A i \in active : i < n
-----------------------------------------------------------------------------
(* Starting up: init_database, then recover_from_wal.                      *)

\* init_database: next_id comes from the database, before the log is read.
Start ==
  /\ pc = "down"
  /\ next_id' \in 1 .. MaxId + 1
  /\ NextAvailable(mem, next_id')
  /\ pc' = "recover"
  /\ UNCHANGED <<db, log, rec, cursor, entries_recovered, acked>>

\* One turn of recovery's loop: read an entry, check it, store it if needed.
Replay ==
  /\ pc = "recover"
  /\ cursor + ENTRY <= Len(wal)
  /\ cursor' = cursor + ENTRY
  /\ LET r == wal[cursor + 1].data
     IN  IF ~Intact(wal, cursor) \/ AlreadyApplied(mem, r) \/ SlotFor(mem, r) = {}
           THEN UNCHANGED <<mem, pc>>
           ELSE /\ \E s \in SlotFor(mem, r) : mem' = [mem EXCEPT ![s] = r]
                /\ pc' = "replay_msync"
  /\ UNCHANGED <<dbDisk, log, next_id, rec, entries_recovered, acked>>

\* Mutant: the -1 of a failed apply_to_database is added to the count.
ReplayMsyncCountsFailure ==
  /\ pc = "replay_msync"
  /\ \/ dbDisk' = mem /\ entries_recovered' = entries_recovered + 1
     \/ /\ "msync" \in Faults
        /\ dbDisk' = dbDisk
        /\ entries_recovered' = entries_recovered - 1
  /\ pc' = "recover"
  /\ UNCHANGED <<mem, log, next_id, rec, cursor, acked>>

\* The msync of a replayed record; when it fails the loop goes on.
ReplayMsync ==
  /\ pc = "replay_msync"
  /\ \/ /\ dbDisk' = mem
        /\ entries_recovered' = entries_recovered + 1
     \/ "msync" \in Faults /\ UNCHANGED <<dbDisk, entries_recovered>>
  /\ pc' = "recover"
  /\ UNCHANGED <<mem, log, next_id, rec, cursor, acked>>

\* The log is read to its end; it is emptied if anything was replayed.  The
\* ftruncate is not synced, and when it fails recovery still returns.
RecoverDone ==
  /\ pc = "recover"
  /\ cursor + ENTRY > Len(wal)
  /\ pc' = "ready"
  /\ \/ entries_recovered > 0 /\ wal' = <<>>
     \/ (entries_recovered > 0 => "ftruncate" \in Faults) /\ UNCHANGED wal
  /\ cursor' = 0
  /\ entries_recovered' = 0
  /\ UNCHANGED <<db, walDisk, next_id, rec, acked>>
-----------------------------------------------------------------------------
(* insert_record: write_wal_entry, then apply_to_database.                 *)

InsertBegin(name) ==
  /\ pc = "ready"
  /\ next_id <= MaxId
  /\ rec' = [id |-> next_id, name |-> name, active |-> TRUE]
  /\ next_id' = next_id + 1
  /\ pc' = "wal_write"
  /\ UNCHANGED <<db, log, cursor, entries_recovered, acked>>

\* write() appends the entry, or a part of it, or nothing; anything short of
\* the whole entry fails the insert and stays in the log.
WalWrite ==
  /\ pc = "wal_write"
  /\ Len(wal) + ENTRY <= MaxWal
  /\ \E n \in (IF "write" \in Faults THEN 0 .. ENTRY ELSE {ENTRY}) :
       /\ wal' = wal \o SubSeq(Entry(rec), 1, n)
       /\ pc' = IF n = ENTRY THEN "wal_sync" ELSE "ready"
  /\ UNCHANGED <<db, walDisk, next_id, rec, cursor, entries_recovered, acked>>

\* Mutant: the log entry is not fsync'ed.
WalNoSync ==
  /\ pc = "wal_sync"
  /\ pc' = "apply"
  /\ UNCHANGED <<db, log, next_id, rec, cursor, entries_recovered, acked>>

WalSync ==
  /\ pc = "wal_sync"
  /\ \/ walDisk' = wal /\ pc' = "apply"
     \/ "fsync" \in Faults /\ walDisk' = walDisk /\ pc' = "ready"
  /\ UNCHANGED <<db, wal, next_id, rec, cursor, entries_recovered, acked>>

Apply ==
  /\ pc = "apply"
  /\ IF SlotFor(mem, rec) = {}
       THEN pc' = "ready" /\ UNCHANGED mem
       ELSE /\ \E s \in SlotFor(mem, rec) : mem' = [mem EXCEPT ![s] = rec]
            /\ pc' = "msync"
  /\ UNCHANGED <<dbDisk, log, next_id, rec, cursor, entries_recovered, acked>>

\* Mutant: success is returned without waiting for msync.
AckBeforeMsync ==
  /\ pc = "msync"
  /\ acked' = [acked EXCEPT ![rec.id] = rec.name]
  /\ pc' = "ready"
  /\ UNCHANGED <<db, log, next_id, rec, cursor, entries_recovered>>

\* The msync of an inserted record, after which insert_record returns its id.
Msync ==
  /\ pc = "msync"
  /\ \/ /\ dbDisk' = mem
        /\ acked' = [acked EXCEPT ![rec.id] = rec.name]
     \/ "msync" \in Faults /\ UNCHANGED <<dbDisk, acked>>
  /\ pc' = "ready"
  /\ UNCHANGED <<mem, log, next_id, rec, cursor, entries_recovered>>
-----------------------------------------------------------------------------
(* The end of a process and the loss of power.                             *)

ProcessGone ==
  /\ pc' = "down"
  /\ next_id' = 0
  /\ rec' = Zeroed
  /\ cursor' = 0
  /\ entries_recovered' = 0

\* cleanup and return, the exit of simulate_crash, or a kill at any point:
\* the kernel keeps what was stored and written.
ProcessExit ==
  /\ pc # "down"
  /\ ProcessGone
  /\ UNCHANGED <<db, log, acked>>

\* What the disk may hold of the log after a power failure: what was synced,
\* or what the kernel held up to some point past it.
WalImages ==
  LET grown == Len(walDisk) <= Len(wal) /\ SubSeq(wal, 1, Len(walDisk)) = walDisk
      least == IF grown THEN Len(walDisk) ELSE 0
  IN  {walDisk} \cup {SubSeq(wal, 1, n) : n \in least .. Len(wal)}

\* What it may hold of the database: each slot as synced or as stored.
DbImages ==
  {d \in [Slots -> {mem[s] : s \in Slots} \cup {dbDisk[s] : s \in Slots}] :
      \A s \in Slots : d[s] \in {mem[s], dbDisk[s]}}

PowerFailure ==
  /\ \E w \in WalImages : wal' = w /\ walDisk' = w
  /\ \E d \in DbImages  : mem' = d /\ dbDisk' = d
  /\ ProcessGone
  /\ UNCHANGED acked
-----------------------------------------------------------------------------
Process ==
  \/ Start \/ Replay \/ ReplayMsync \/ RecoverDone
  \/ WalWrite \/ WalSync \/ Apply \/ Msync

Next ==
  \/ Process
  \/ \E name \in Names : InsertBegin(name)
  \/ ProcessExit
  \/ PowerFailure

Spec == Init /\ [][Next]_vars
-----------------------------------------------------------------------------
(* Properties.                                                             *)

\* No two slots hold the same record id, in the mapping or on disk: replaying
\* a log again after an interrupted recovery never doubles a record.
UniqueIds ==
  \A s, t \in Slots :
    /\ mem[s].active /\ mem[t].active /\ mem[s].id = mem[t].id => s = t
    /\ dbDisk[s].active /\ dbDisk[t].active /\ dbDisk[s].id = dbDisk[t].id => s = t

HasEntry(w, r) ==
  \E c \in 0 .. Len(w) - ENTRY : \A p \in 1 .. ENTRY : w[c + p] = Entry(r)[p]

\* Write-ahead: when apply_to_database stores an inserted record, all of its
\* log entry is on disk.
LogBeforeApply == pc \in {"apply", "msync"} => HasEntry(walDisk, rec)

\* Once recovery has finished, every id for which insert_record ever returned
\* success is in the database with the last name it returned for, whatever
\* short writes, failed syncs of the log, kills and power failures came before.
\* (A failed msync or ftruncate of a recovery can break this.)
AckedAfterRecovery ==
  pc \in {"ready"} \cup Inserting =>
    \A i \in Ids : acked[i] # NoName =>
      \E s \in Slots : mem[s].active /\ mem[s].id = i /\ mem[s].name = acked[i]

\* A slot of the database on disk, once it holds a record, holds that record
\* id for ever.
SlotIdStable ==
  [][\A s \in Slots : dbDisk[s].active =>
        dbDisk'[s].active /\ dbDisk'[s].id = dbDisk[s].id]_vars

\* "Insert a new record" (crashRecovery.c:173), with the "next available ID"
\* (crashRecovery.c:95): an insert never replaces a record of the database.
InsertIsNew ==
  [][pc = "apply" => \A s \in Slots : mem[s].active => mem'[s] = mem[s]]_vars

\* For TLC: the names are interchangeable.
NameSymmetry == Permutations(Names)
=============================================================================
