------------------------------- MODULE WalDemo -------------------------------
(***************************************************************************)
(* FILEIO/wal_demo.c: each run of the program is one command on a log and  *)
(* a database, both text files that are appended to.  A transaction is     *)
(* three lines of the log; recover reads it line by line and applies every *)
(* pair with a COMMIT behind it again.                                     *)
(*                                                                         *)
(* The process may be killed, and the machine may fail: what was not       *)
(* synced is then cut off anywhere, inside a line too.  Such a piece ends  *)
(* up in front of the next line.  The value of a key is that of its last   *)
(* whole line in the database.  Keys and values are not empty, have no     *)
(* newline, and a line of them fits the program's buffers.                 *)
(***************************************************************************)
EXTENDS Integers, Sequences

CONSTANTS Keys, Values,
          Pairs,       \* of a key and a value, that are written
          Odd,         \* those whose text contains "BEGIN"
          Scanned,     \* what sscanf makes of each, either part up to its first blank
          MaxLog,      \* bound: lines of the log
          MaxUnsynced  \* bound: lines of the database left unsynced by kills

VARIABLES log,         \* lines: <<"BEGIN">>, <<"SET", key, value>>, <<"COMMIT">>, or
                       \* <<"PART", line>>, the last one, without its newline
          synced,      \* lines of it that are on the disk
          db,          \* value of each key, None before the first
          dbTail,      \* whether the database ends with a whole line
          older,       \* the values before each line of it that is not yet synced
          pc, cmd,     \* the command, and where it is
          at, inside_tx, pair,   \* cmd_recover's line, flag and variables key, val
          acked,       \* history: value of the last synced transaction of a key
                       \* among those recover can read
          later,       \* history: values tried after it
          lost         \* history: keys whose line the database may have missed since
                       \* the last recovery began

vars == <<log, synced, db, dbTail, older, pc, cmd, at, inside_tx, pair, acked, later, lost>>

None   == 0
NoPair == <<>>          \* uninitialized key and val
Text   == <<log, synced>>
Data   == <<db, dbTail, older>>
Reader == <<at, inside_tx, pair>>
Past   == <<acked, later>>
Table  == [Keys -> Values \cup {None}]

ConstantsOK ==
  /\ Values \subseteq Nat \ {None} /\ MaxLog \in Nat /\ MaxUnsynced \in Nat
  /\ Pairs \subseteq Keys \X Values /\ Odd \subseteq Pairs
  /\ Scanned \in [Pairs -> Keys \X Values]

TypeOK ==
  /\ Len(log) <= MaxLog /\ synced \in 0 .. Len(log)
  /\ db \in Table /\ dbTail \in BOOLEAN /\ older \in Seq(Table)
  /\ pc \in {"idle", "begin", "set", "commit", "recover", "apply", "fsync"}
  /\ at \in 0 .. MaxLog /\ inside_tx \in BOOLEAN
  /\ acked \in Table /\ later \in [Keys -> SUBSET Values]
  /\ lost \subseteq Keys

NoCmd == [op |-> "none", key |-> 0, val |-> None]

Init ==
  /\ log = <<>> /\ synced = 0
  /\ db = [k \in Keys |-> None] /\ dbTail = TRUE /\ older = <<>>
  /\ pc = "idle" /\ cmd = NoCmd
  /\ at = 0 /\ inside_tx = FALSE /\ pair = NoPair
  /\ acked = [k \in Keys |-> None] /\ later = [k \in Keys |-> {}]
  /\ lost = {}

\* The process ends, and its variables with it.
Exit == pc' = "idle" /\ cmd' = NoCmd /\ at' = 0 /\ inside_tx' = FALSE /\ pair' = NoPair
-----------------------------------------------------------------------------
(* main: write, write-nosync, crash-after-wal, recover.                    *)

\* The pair, and the one recover will read, are tried from now on.
Start(op, k, v) ==
  /\ pc = "idle" /\ Len(log) + 3 <= MaxLog
  /\ cmd' = [op |-> op, key |-> k, val |-> v]
  /\ pc' = "begin"
  /\ later' = [j \in Keys |-> later[j] \cup {w \in Values : <<j, w>> \in {<<k, v>>, Scanned[<<k, v>>]}}]
  /\ UNCHANGED <<Text, Data, Reader, acked, lost>>

StartRecover ==
  /\ pc = "idle"
  /\ cmd' = [NoCmd EXCEPT !.op = "recover"]
  /\ pc' = "recover"
  /\ at' = 0 /\ inside_tx' = FALSE /\ pair' = NoPair
  /\ lost' = {}
  /\ UNCHANGED <<Text, Data, Past>>
-----------------------------------------------------------------------------
(* log_to_wal.  safe_write exits if the write or fsync fails, as Kill.     *)

Line(step) ==
  CASE step = "begin"  -> <<"BEGIN">>
    [] step = "set"    -> <<"SET", cmd.key, cmd.val>>
    [] step = "commit" -> <<"COMMIT">>

\* A piece of a line in front of the line that follows, which is a BEGIN.
Appended(line) ==
  IF log # <<>> /\ log[Len(log)][1] = "PART"
    THEN [log EXCEPT ![Len(log)] = line] ELSE Append(log, line)

\* Mutant: the COMMIT line is not synced.
safe_writeLazy(step) == cmd.op # "write-nosync" /\ step # "commit"

\* Whether safe_write syncs.
safe_write(step) == cmd.op # "write-nosync"

Write(step) ==
  /\ pc = step
  /\ log' = Appended(Line(step))
  /\ synced' = IF safe_write(step) THEN Len(log') ELSE synced

\* Whether recover reads the SET line of a pair as one, and under its key.
Readable(p) == p \notin Odd /\ Scanned[p][1] = p[1]

\* A synced COMMIT of such a pair is what the program promises to keep.  The
\* database has not seen it yet.
Committed ==
  IF cmd.op = "write-nosync" \/ ~Readable(<<cmd.key, cmd.val>>) THEN UNCHANGED <<Past, lost>>
  ELSE /\ acked' = [acked EXCEPT ![cmd.key] = cmd.val]
       /\ later' = [later EXCEPT ![cmd.key] = {}]
       /\ lost' = lost \cup {cmd.key}

log_to_wal ==
  /\ \/ Write("begin") /\ pc' = "set" /\ UNCHANGED <<Past, lost>>
     \/ Write("set") /\ pc' = "commit" /\ UNCHANGED <<Past, lost>>
     \/ Write("commit") /\ cmd.op # "crash-after-wal" /\ pc' = "apply" /\ Committed
  /\ UNCHANGED <<Data, cmd, Reader>>

\* exit(1) once the log is written.
crash_after_wal ==
  /\ cmd.op = "crash-after-wal" /\ Write("commit") /\ Committed
  /\ Exit
  /\ UNCHANGED Data
-----------------------------------------------------------------------------
(* apply_to_db.                                                            *)

Applied == IF cmd.op = "recover" THEN pair ELSE <<cmd.key, cmd.val>>

\* A pair that recover applies and the database misses, although "Recovered"
\* is reported.
Missed == lost' = IF cmd.op = "recover" /\ pair # NoPair THEN lost \cup {pair[1]} ELSE lost

\* A failed write is only reported.  A line behind a piece of one is not whole.
\* Uninitialized text gives no key a value.
ApplyWrite ==
  /\ pc = "apply" /\ pc' = "fsync"
  /\ \/ Missed /\ UNCHANGED Data
     \/ /\ ~dbTail /\ dbTail' = TRUE /\ older' = Append(older, db)
        /\ Missed /\ UNCHANGED db
     \/ /\ dbTail /\ older' = Append(older, db) /\ UNCHANGED dbTail
        /\ IF Applied = NoPair THEN UNCHANGED <<db, lost>>
           ELSE /\ db' = [db EXCEPT ![Applied[1]] = Applied[2]]
                /\ lost' = lost \ {Applied[1]}
  /\ UNCHANGED <<Text, cmd, Reader, Past>>

ApplySync ==
  /\ pc = "fsync"
  /\ older' = <<>>
  /\ IF cmd.op = "recover" THEN pc' = "recover" /\ UNCHANGED <<cmd, Reader>> ELSE Exit
  /\ UNCHANGED <<Text, db, dbTail, Past, lost>>

apply_to_db == ApplyWrite \/ ApplySync
-----------------------------------------------------------------------------
(* cmd_recover.                                                            *)

\* What fgets returns: the last line may be a piece.
Read(i) == IF log[i][1] = "PART" THEN log[i][2] ELSE log[i]

\* "BEGIN" is looked for first, and anywhere in the line.
IsBegin(line) == line[1] = "BEGIN" \/ (line[1] = "SET" /\ <<line[2], line[3]>> \in Odd)

RecoverLine ==
  LET line == Read(at + 1)
  IN  /\ pc = "recover" /\ at < Len(log)
      /\ at' = at + 1
      /\ inside_tx' = (IsBegin(line) \/ (inside_tx /\ line[1] # "COMMIT"))
      /\ pair' = IF line[1] = "SET" /\ ~IsBegin(line) /\ inside_tx
                   THEN Scanned[<<line[2], line[3]>>] ELSE pair
      /\ pc' = IF line[1] = "COMMIT" /\ inside_tx THEN "apply" ELSE pc
      /\ UNCHANGED <<Text, Data, cmd, Past, lost>>

RecoverEnd ==
  /\ pc = "recover" /\ at = Len(log)
  /\ Exit
  /\ UNCHANGED <<Text, Data, Past, lost>>

cmd_recover == RecoverLine \/ RecoverEnd
-----------------------------------------------------------------------------
(* Failures.                                                               *)

\* A recovery that is cut short has put older values back.
Broken == IF cmd.op = "recover" THEN Keys ELSE lost

\* The process is killed, or exits on an error: the files stay.
Kill ==
  /\ pc # "idle" /\ Len(older) < MaxUnsynced
  /\ Exit
  /\ lost' = Broken
  /\ UNCHANGED <<Text, Data, Past>>

\* The machine fails: the log is cut behind a line or inside one, with or
\* without the words recover looks for, and so is the database.
PowerFailure ==
  /\ Exit
  /\ \E n \in synced .. Len(log) :
       \/ log' = SubSeq(log, 1, n)
       \/ /\ n < Len(log) /\ log[n + 1][1] # "PART"
          /\ log' = Append(SubSeq(log, 1, n), <<"PART", log[n + 1]>>)
       \/ /\ n < Len(log)
          /\ log' = Append(SubSeq(log, 1, n), <<"PART", <<"junk">>>>)
  /\ synced' = Len(log')
  /\ \/ UNCHANGED <<db, dbTail>>
     \/ \E n \in 1 .. Len(older) : db' = older[n] /\ dbTail' \in BOOLEAN
  /\ older' = <<>>
  /\ lost' = Broken \cup {k \in Keys : db'[k] # db[k]}
  /\ UNCHANGED Past

Next ==
  \/ \E op \in {"write", "write-nosync", "crash-after-wal"}, p \in Pairs : Start(op, p[1], p[2])
  \/ StartRecover
  \/ log_to_wal \/ crash_after_wal \/ apply_to_db \/ cmd_recover
  \/ Kill \/ PowerFailure
-----------------------------------------------------------------------------
(* Properties.                                                             *)

\* Between commands the database has for every key the value of the last synced
\* transaction that recover can read, or what sscanf leaves of that value, or
\* one tried after it.  Not claimed of the keys in lost: those of a transaction
\* that was not applied, or whose line of the database was cut off, up to the
\* next recovery; and those whose last line a recovery that ran to its end has
\* itself failed to write, or written behind a piece of a line, up to the next.
LogRecovers ==
  pc = "idle" =>
    \A k \in Keys \ lost :
      acked[k] # None => db[k] \in {acked[k], Scanned[<<k, acked[k]>>][2]} \cup later[k]
=============================================================================
