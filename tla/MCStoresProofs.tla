--------------------------- MODULE MCStoresProofs ---------------------------
(***************************************************************************)
(* Theorems about programs that store data.  Each program has an inductive *)
(* invariant of its own, which also holds while another program runs, as   *)
(* then nothing of it changes: that of the write-ahead log comes first,    *)
(* the others are in StoresCoreProofs and MemoryProofs.                    *)
(***************************************************************************)
EXTENDS MCStores, StoresCoreProofs, MemoryProofs, TLAPS
-----------------------------------------------------------------------------
(* The write-ahead log.                                                    *)

WalWhole == {<<"BEGIN">>, <<"COMMIT">>}
              \cup {l \in {"SET"} \X WalKeys \X WalValues : <<l[2], l[3]>> \in WalPairs}
WalLines == WalWhole \cup {<<"PART", l>> : l \in WalWhole \cup {<<"junk">>}}
WalNow   == [op : {"none", "write", "write-nosync", "crash-after-wal", "recover"},
             key : WalKeys \cup {0}, val : WalValues \cup {0}]
WalTable == [WalKeys -> WalValues \cup {0}]

\* What the database may have for a key: the last synced value, what is scanned
\* of it, or a value tried later.
WalGood(k) == {promised[k], ScannedPairs[<<k, promised[k]>>][2]} \cup later[k]

\* What a line gives a key, as recover reads it.
WalGives(l, k, v) == l[1] = "SET" /\ ScannedPairs[<<l[2], l[3]>>] = <<k, v>>

\* The last synced transaction of a key that can be read is in the log, its SET
\* as line j.  No line behind that gives it another value than those tried
\* later, so that once a recovery has come past it the database has such a
\* value, or has missed its last line.
WalPlace(k, j) ==
  /\ <<k, promised[k]>> \in WalPairs /\ Wal!Readable(<<k, promised[k]>>)
  /\ j \in Nat /\ j >= 2 /\ j + 1 <= synced
  /\ log[j - 1] = <<"BEGIN">> /\ log[j] = <<"SET", k, promised[k]>> /\ log[j + 1] = <<"COMMIT">>
  /\ \A i \in j + 1 .. Len(log) : \A v : WalGives(Wal!Read(i), k, v) => v \in WalGood(k)
WalPassed(k, j) ==
  cmd.op = "recover" =>
    /\ at + 1 = j => inside_tx
    /\ at = j => inside_tx
    /\ at >= j => pair # <<>> /\ (pair[1] = k => pair[2] \in WalGood(k))
    /\ at = j => pair[1] = k
    /\ at > j /\ k \notin lost => db[k] \in WalGood(k) \/ (step = "apply" /\ pair[1] = k)

WalTypes ==
  /\ Wal!TypeOK /\ log \in Seq(WalLines) /\ cmd \in WalNow
  /\ pair \in {<<>>} \cup (WalKeys \X WalValues)

\* A pair is being tried, and so is what is scanned of it.
WalTried(k, v) ==
  /\ <<k, v>> \in WalPairs /\ v \in later[k]
  /\ ScannedPairs[<<k, v>>][2] \in later[ScannedPairs[<<k, v>>][1]]

\* Where a command is, and what it has written so far.
WalCommand ==
  /\ step = "idle" <=> cmd.op = "none"
  /\ step = "recover" => cmd.op = "recover"
  /\ step \in {"apply", "fsync"} => cmd.op \in {"recover", "write", "write-nosync"}
  /\ step \in {"begin", "set", "commit"} => cmd.op \in {"write", "write-nosync", "crash-after-wal"}
  /\ cmd.op \in {"write", "write-nosync", "crash-after-wal"} =>
       cmd.key \in WalKeys /\ cmd.val \in WalValues
  /\ step = "begin" => Len(log) + 3 <= MaxLog
  /\ step = "set" => Len(log) + 2 <= MaxLog /\ Len(log) >= 1 /\ log[Len(log)] = <<"BEGIN">>
  /\ step = "commit" =>
       /\ Len(log) + 1 <= MaxLog /\ Len(log) >= 2
       /\ log[Len(log) - 1] = <<"BEGIN">> /\ log[Len(log)] = <<"SET", cmd.key, cmd.val>>
  /\ step \in {"begin", "set", "commit"} => WalTried(cmd.key, cmd.val)
  /\ step = "apply" /\ cmd.op # "recover" => cmd.val \in WalGood(cmd.key)

\* The database is right for a key, but for one whose line it may have missed.
WalRight(k) == cmd.op # "recover" /\ k \notin lost => db[k] \in WalGood(k)

WalKey(k) == promised[k] # 0 => WalRight(k) /\ \E j : WalPlace(k, j) /\ WalPassed(k, j)

WalInv == WalTypes /\ WalCommand /\ \A k \in WalKeys : WalKey(k)

\* What a line of the log may be, and what recovery reads of it.
LEMMA WalWholeLine ==
  ASSUME NEW l \in WalWhole \cup {<<"junk">>}
  PROVE  /\ l[1] \in {"BEGIN", "COMMIT", "SET", "junk"}
         /\ l[1] = "SET" => <<l[2], l[3]>> \in WalPairs
BY DEF WalWhole
LEMMA WalLine ==
  ASSUME NEW l \in WalLines
  PROVE  /\ l[1] = "PART" => l[2] \in WalWhole \cup {<<"junk">>}
         /\ l[1] # "PART" => l \in WalWhole
<1>1. CASE l \in WalWhole
  BY <1>1, WalWholeLine
<1>2. ASSUME NEW x \in WalWhole \cup {<<"junk">>}, l = <<"PART", x>>
      PROVE  l[1] = "PART" /\ l[2] \in WalWhole \cup {<<"junk">>}
  BY <1>2
<1> QED
  BY <1>1, <1>2 DEF WalLines
LEMMA WalReads ==
  ASSUME log \in Seq(WalLines), NEW i \in 1 .. Len(log)
  PROVE  Wal!Read(i) \in WalWhole \cup {<<"junk">>}
BY WalLine DEF Wal!Read

\* What a proof needs of the types.
LEMMA WalFacts ==
  ASSUME WalInv
  PROVE  /\ Len(log) \in Nat /\ Len(log) <= MaxLog /\ synced \in Nat /\ synced <= Len(log)
         /\ MaxLog \in Nat /\ log \in Seq(WalLines) /\ at \in Nat /\ at <= MaxLog
         /\ db \in WalTable /\ cmd \in WalNow /\ dbTail \in BOOLEAN /\ older \in Seq(WalTable)
         /\ promised \in WalTable /\ later \in [WalKeys -> SUBSET WalValues] /\ lost \subseteq WalKeys
         /\ WalValues \subseteq Nat \ {0}
<1> USE DEF WalInv, WalTypes, Wal!TypeOK, Wal!None, Wal!Table, WalTable
<1>1. MaxLog \in Nat /\ WalValues \subseteq Nat \ {0}
  BY CoreAssumption DEF CoreAssumption, Wal!ConstantsOK
<1>2. log \in Seq(WalLines) /\ Len(log) \in Nat
  OBVIOUS
<1>3. Len(log) <= MaxLog /\ synced \in 0 .. Len(log) /\ at \in 0 .. MaxLog
  OBVIOUS
<1>4. synced \in Nat /\ synced <= Len(log) /\ at \in Nat /\ at <= MaxLog
  BY <1>1, <1>2, <1>3
<1> QED
  BY <1>1, <1>2, <1>3, <1>4

\* What is scanned of a pair is one of a key and a value.
LEMMA WalScans ==
  ASSUME NEW k, NEW v, <<k, v>> \in WalPairs
  PROVE  /\ k \in WalKeys /\ v \in WalValues
         /\ ScannedPairs[<<k, v>>] \in WalKeys \X WalValues
         /\ ScannedPairs[<<k, v>>] = <<ScannedPairs[<<k, v>>][1], ScannedPairs[<<k, v>>][2]>>
         /\ ScannedPairs[<<k, v>>][1] \in WalKeys /\ ScannedPairs[<<k, v>>][2] \in WalValues
<1>1. /\ WalPairs \subseteq WalKeys \X WalValues
      /\ ScannedPairs \in [WalPairs -> WalKeys \X WalValues]
  BY CoreAssumption DEF CoreAssumption, Wal!ConstantsOK
<1>2. k \in WalKeys /\ v \in WalValues
  BY <1>1
<1>3. PICK x : x = ScannedPairs[<<k, v>>]
  OBVIOUS
<1>4. x \in WalKeys \X WalValues
  BY <1>1, <1>3
<1>5. x = <<x[1], x[2]>> /\ x[1] \in WalKeys /\ x[2] \in WalValues
  BY <1>4
<1> QED
  BY <1>2, <1>3, <1>4, <1>5

\* A line is appended, or takes the place of a piece of one.
LEMMA WalAppended ==
  ASSUME log \in Seq(WalLines), NEW line \in WalWhole, NEW l, l = Wal!Appended(line)
  PROVE  /\ l \in Seq(WalLines) /\ Len(l) \in Nat /\ Len(l) >= 1
         /\ Len(l) = Len(log) + 1 \/ (Len(l) = Len(log) /\ log[Len(log)][1] = "PART")
         /\ l[Len(l)] = line
         /\ \A i \in 1 .. Len(l) - 1 : i \in 1 .. Len(log) /\ l[i] = log[i]
<1>1. line \in WalLines /\ Len(log) \in Nat
  BY DEF WalLines
<1>2. CASE log # <<>> /\ log[Len(log)][1] = "PART"
  <2>1. l = [log EXCEPT ![Len(log)] = line] /\ Len(log) >= 1
    BY <1>1, <1>2 DEF Wal!Appended
  <2>2. Len(log) \in 1 .. Len(log)
    BY <1>1, <2>1
  <2>3. /\ l \in Seq(WalLines) /\ Len(l) = Len(log)
        /\ \A i \in 1 .. Len(log) : l[i] = IF i = Len(log) THEN line ELSE log[i]
    BY <1>1, <2>1, <2>2
  <2>4. PICK m \in Nat : m = Len(log)
    BY <1>1
  <2>5. m >= 1 /\ Len(l) = m /\ \A i \in 1 .. m : l[i] = IF i = m THEN line ELSE log[i]
    BY <2>1, <2>3, <2>4
  <2>6. l[m] = line /\ \A i \in 1 .. m - 1 : i \in 1 .. m /\ l[i] = log[i]
    BY ONLY <2>5, m \in Nat
  <2>7. l \in Seq(WalLines) /\ log[m][1] = "PART"
    BY <1>2, <2>3, <2>4
  <2> QED
    BY ONLY <2>4, <2>5, <2>6, <2>7
<1>3. CASE ~(log # <<>> /\ log[Len(log)][1] = "PART")
  <2>1. l = Append(log, line)
    BY <1>3 DEF Wal!Appended
  <2>2. /\ l \in Seq(WalLines) /\ Len(l) = Len(log) + 1 /\ l[Len(log) + 1] = line
        /\ \A i \in 1 .. Len(log) : l[i] = log[i]
    BY <1>1, <2>1
  <2> QED
    BY <1>1, <2>2
<1> QED
  BY <1>2, <1>3

\* The place of a transaction stays while the log behind it changes.
LEMMA WalPlaceKept ==
  ASSUME NEW k, NEW j, WalPlace(k, j), Len(log) \in Nat, synced \in Nat, synced <= Len(log),
         Len(log') \in Nat, synced' \in Nat, synced' >= synced,
         promised'[k] = promised[k], WalGood(k) \subseteq WalGood(k)',
         NEW n \in Nat, n >= j + 1, n <= Len(log), n <= Len(log'), Len(log') <= n + 1 \/ Len(log') <= Len(log),
         \A i \in 1 .. n : log'[i] = log[i],
         \A i \in n + 1 .. Len(log') : \A v : WalGives(Wal!Read(i)', k, v) => v \in WalGood(k)'
  PROVE  WalPlace(k, j)'
<1>1. j \in Nat /\ j >= 2
  BY DEF WalPlace
<1>2. j \in 1 .. n /\ j - 1 \in 1 .. n /\ j + 1 \in 1 .. n
  BY <1>1
<1>3. /\ log'[j - 1] = <<"BEGIN">> /\ log'[j] = <<"SET", k, promised'[k]>>
      /\ log'[j + 1] = <<"COMMIT">> /\ j + 1 <= synced'
  BY <1>1, <1>2 DEF WalPlace
<1>4. ASSUME NEW i \in j + 1 .. Len(log'), NEW v, WalGives(Wal!Read(i)', k, v)
      PROVE  v \in WalGood(k)'
  <2>1. CASE i > n
    BY <1>1, <1>4, <2>1
  <2>2. CASE i <= n
    <3>1. i \in 1 .. n /\ i \in j + 1 .. Len(log)
      BY <1>1, <2>2
    <3>2. Wal!Read(i)' = Wal!Read(i)
      BY <3>1 DEF Wal!Read
    <3>3. v \in WalGood(k)
      BY <1>4, <3>1, <3>2 DEF WalPlace
    <3> QED
      BY <3>3
  <2> QED
    BY <1>1, <2>1, <2>2
<1>5. <<k, promised'[k]>> \in WalPairs /\ Wal!Readable(<<k, promised'[k]>>)
  BY DEF WalPlace
<1>6. \A i \in j + 1 .. Len(log') : \A v : WalGives(Wal!Read(i)', k, v) => v \in WalGood(k)'
  BY <1>4
<1> QED
  BY <1>1, <1>3, <1>5, <1>6 DEF WalPlace, WalGives, Wal!Readable
LEMMA WalPlaceSame ==
  ASSUME NEW k, NEW j, WalPlace(k, j), log' = log, synced' = synced,
         promised'[k] = promised[k], later[k] \subseteq later'[k]
  PROVE  WalPlace(k, j)'
<1>1. WalGood(k) \subseteq WalGood(k)'
  BY DEF WalGood
<1> QED
  BY <1>1 DEF WalPlace, WalGives, Wal!Read, Wal!Readable

\* Another line leaves the place of a transaction, if it does not take a value
\* back that was tried before.
LEMMA WalWriteKey ==
  ASSUME WalInv, NEW k, NEW j, WalPlace(k, j), NEW line \in WalWhole,
         log' = Wal!Appended(line), synced' \in {synced, Len(log')},
         promised'[k] = promised[k], later'[k] = later[k],
         \A v : WalGives(line, k, v) => v \in WalGood(k)
  PROVE  WalPlace(k, j)'
<1>1. /\ log' \in Seq(WalLines) /\ Len(log') \in Nat /\ Len(log') >= 1
      /\ Len(log') = Len(log) + 1 \/ (Len(log') = Len(log) /\ log[Len(log)][1] = "PART")
      /\ log'[Len(log')] = line
      /\ \A i \in 1 .. Len(log') - 1 : i \in 1 .. Len(log) /\ log'[i] = log[i]
  <2>1. PICK l : l = log'
    OBVIOUS
  <2>2. log \in Seq(WalLines)
    BY WalFacts
  <2> QED
    BY <2>1, <2>2, WalAppended
<1>2. j \in Nat /\ j + 1 <= synced /\ log[j + 1] = <<"COMMIT">>
  BY DEF WalPlace
<1>3. PICK n \in Nat : n = Len(log') - 1
  <2>1. Len(log') - 1 \in Nat
    <3>1. Len(log') \in Nat /\ Len(log') >= 1
      BY <1>1
    <3> QED
      BY ONLY <3>1
  <2> QED
    BY ONLY <2>1
<1>4. n >= j + 1
  <2>1. CASE Len(log') = Len(log) + 1
    BY <2>1, <1>2, <1>3, WalFacts
  <2>2. CASE Len(log') = Len(log) /\ log[Len(log)][1] = "PART"
    <3>1. j + 1 # Len(log)
      BY <2>2, <1>2
    <3> QED
      BY <2>2, <3>1, <1>2, <1>3, WalFacts
  <2> QED
    BY <1>1, <2>1, <2>2
<1>5. Len(log) \in Nat /\ synced \in Nat /\ synced <= Len(log) /\ synced' \in Nat /\ synced' >= synced
  <2>1. Len(log') >= Len(log)
    BY <1>1, WalFacts
  <2> QED
    BY <2>1, <1>1, WalFacts
<1>6. n <= Len(log) /\ n <= Len(log') /\ Len(log') <= n + 1 /\ \A i \in 1 .. n : log'[i] = log[i]
  BY <1>1, <1>3, <1>5
<1>7. WalGood(k)' = WalGood(k)
  BY DEF WalGood
<1>8. ASSUME NEW i \in n + 1 .. Len(log'), NEW v, WalGives(Wal!Read(i)', k, v)
      PROVE  v \in WalGood(k)'
  <2>1. i = Len(log')
    BY <1>1, <1>3
  <2>2. line[1] # "PART"
    BY WalWholeLine
  <2>3. Wal!Read(i)' = line
    BY <2>1, <2>2, <1>1 DEF Wal!Read
  <2> QED
    BY <2>3, <1>7, <1>8
<1> QED
  BY <1>1, <1>4, <1>5, <1>6, <1>7, <1>8, WalPlaceKept

\* A command begins.
LEMMA WalStart ==
  ASSUME WalInv, NEW op \in {"write", "write-nosync", "crash-after-wal"}, NEW k, NEW v,
         <<k, v>> \in WalPairs, Wal!Start(op, k, v)
  PROVE  WalInv'
<1>0. /\ k \in WalKeys /\ v \in WalValues
      /\ ScannedPairs[<<k, v>>] = <<ScannedPairs[<<k, v>>][1], ScannedPairs[<<k, v>>][2]>>
      /\ ScannedPairs[<<k, v>>][1] \in WalKeys /\ ScannedPairs[<<k, v>>][2] \in WalValues
  BY WalScans
<1>1. /\ step = "idle" /\ Len(log) + 3 <= MaxLog /\ cmd' = [op |-> op, key |-> k, val |-> v]
      /\ step' = "begin"
      /\ later' = [n \in WalKeys |->
                    later[n] \cup {w \in WalValues : <<n, w>> \in {<<k, v>>, ScannedPairs[<<k, v>>]}}]
      /\ UNCHANGED <<log, synced, db, dbTail, older, at, inside_tx, pair, promised, lost>>
  BY DEF Wal!Start, Wal!Text, Wal!Data, Wal!Reader
<1>2. cmd'.op = op /\ cmd'.key = k /\ cmd'.val = v /\ cmd' \in WalNow
  BY <1>0, <1>1 DEF WalNow
<1>3. cmd.op = "none"
  BY <1>1 DEF WalInv, WalCommand
<1>4. /\ later' \in [WalKeys -> SUBSET WalValues]
      /\ \A n \in WalKeys : later[n] \subseteq later'[n]
  BY <1>1, WalFacts
<1>5. v \in later'[k] /\ ScannedPairs[<<k, v>>][2] \in later'[ScannedPairs[<<k, v>>][1]]
  <2>1. PICK x, y : x = ScannedPairs[<<k, v>>][1] /\ y = ScannedPairs[<<k, v>>][2]
    OBVIOUS
  <2>2. ScannedPairs[<<k, v>>] = <<x, y>> /\ x \in WalKeys /\ y \in WalValues
    BY <1>0, <2>1
  <2>3. later' = [n \in WalKeys |->
                    later[n] \cup {w \in WalValues : <<n, w>> \in {<<k, v>>, <<x, y>>}}]
    BY <1>1, <2>2
  <2>4. v \in later'[k] /\ y \in later'[x]
    BY <1>0, <2>2, <2>3
  <2> QED
    BY <2>1, <2>4
<1>6. WalTypes'
  BY <1>1, <1>2, <1>4 DEF WalInv, WalTypes, Wal!TypeOK
<1>7. WalCommand'
  <2>1. WalTried(cmd.key, cmd.val)'
    BY <1>2, <1>5 DEF WalTried
  <2>2. cmd'.op # "none" /\ cmd'.op # "recover" /\ cmd'.op \in {"write", "write-nosync", "crash-after-wal"}
    BY <1>2
  <2> QED
    BY <1>0, <1>1, <1>2, <2>1, <2>2 DEF WalCommand
<1>8. ASSUME NEW n \in WalKeys
      PROVE  WalKey(n)'
  <2>1. WalKey(n) /\ promised'[n] = promised[n] /\ later[n] \subseteq later'[n]
    BY <1>1, <1>4 DEF WalInv
  <2>2. CASE promised[n] # 0
    <3>1. PICK j : WalPlace(n, j)
      BY <2>1, <2>2 DEF WalKey
    <3>2. WalPlace(n, j)'
      BY <1>1, <2>1, <3>1, WalPlaceSame
    <3>3. WalPassed(n, j)'
      BY <1>2 DEF WalPassed
    <3>4. WalGood(n) \subseteq WalGood(n)'
      BY <2>1 DEF WalGood
    <3>5. WalRight(n)'
      BY <1>1, <1>2, <1>3, <2>1, <2>2, <3>4 DEF WalKey, WalRight
    <3> QED
      BY <3>2, <3>3, <3>5 DEF WalKey
  <2> QED
    BY <2>1, <2>2 DEF WalKey
<1> QED
  BY <1>6, <1>7, <1>8 DEF WalInv

LEMMA WalStartRecover ==
  ASSUME WalInv, Wal!StartRecover
  PROVE  WalInv'
<1>1. /\ step = "idle" /\ cmd' = [Wal!NoCmd EXCEPT !.op = "recover"] /\ step' = "recover"
      /\ at' = 0 /\ inside_tx' = FALSE /\ pair' = <<>>
      /\ lost' = {}
      /\ UNCHANGED <<log, synced, db, dbTail, older, promised, later>>
  BY DEF Wal!StartRecover, Wal!Text, Wal!Data, Wal!Past, Wal!NoPair
<1>2. cmd'.op = "recover" /\ cmd' \in WalNow
  <2>1. cmd' = [op |-> "recover", key |-> 0, val |-> 0]
    BY <1>1 DEF Wal!NoCmd, Wal!None
  <2> QED
    BY <2>1 DEF WalNow
<1>3. WalTypes'
  <2>1. at' \in 0 .. MaxLog
    BY <1>1, WalFacts
  <2>2. inside_tx' \in BOOLEAN
    BY <1>1
  <2>3. lost' \subseteq WalKeys
    BY <1>1
  <2>4. /\ step' = "recover" /\ pair' = <<>>
        /\ UNCHANGED <<log, synced, db, dbTail, older, promised, later>>
    BY <1>1
  <2> QED
    BY <1>2, <2>1, <2>2, <2>3, <2>4 DEF WalInv, WalTypes, Wal!TypeOK
<1>4. WalCommand'
  BY <1>1, <1>2 DEF WalCommand
<1>5. ASSUME NEW n \in WalKeys
      PROVE  WalKey(n)'
  <2>1. WalKey(n)
    BY DEF WalInv
  <2>2. CASE promised[n] # 0
    <3>1. PICK j : WalPlace(n, j)
      BY <2>1, <2>2 DEF WalKey
    <3>2. WalPlace(n, j)' /\ j \in Nat /\ j >= 2
      BY <1>1, <3>1, WalPlaceSame DEF WalPlace
    <3>3. WalPassed(n, j)'
      BY <1>1, <3>2 DEF WalPassed
    <3>4. WalRight(n)'
      BY <1>2 DEF WalRight
    <3> QED
      BY <3>2, <3>3, <3>4 DEF WalKey
  <2> QED
    BY <1>1, <2>1, <2>2 DEF WalKey
<1> QED
  BY <1>3, <1>4, <1>5 DEF WalInv

\* log_to_wal writes a line: what it does to the log, and what it leaves alone.
WalWritten(line) ==
  /\ step \in {"begin", "set", "commit"} /\ line = Wal!Line(step)
  /\ log' = Wal!Appended(line) /\ synced' \in {synced, Len(log')}
  /\ cmd.op # "write-nosync" => synced' = Len(log')

LEMMA WalLineWritten ==
  ASSUME WalInv, NEW line, WalWritten(line)
  PROVE  /\ line \in WalWhole
         /\ line = CASE step = "begin" -> <<"BEGIN">> [] step = "set" -> <<"SET", cmd.key, cmd.val>>
                     [] step = "commit" -> <<"COMMIT">>
         /\ log' \in Seq(WalLines) /\ Len(log') \in Nat /\ Len(log') >= 1 /\ Len(log') <= Len(log) + 1
         /\ log'[Len(log')] = line
         /\ step # "begin" => Len(log') = Len(log) + 1 /\ log'[Len(log)] = log[Len(log)]
         /\ step = "commit" => log'[Len(log) - 1] = log[Len(log) - 1]
         /\ synced' \in 0 .. Len(log') /\ Len(log') <= MaxLog
<1>1. step \in {"begin", "set", "commit"} /\ WalCommand /\ log \in Seq(WalLines) /\ Len(log) \in Nat
  BY WalFacts DEF WalInv, WalWritten
<1>2. <<cmd.key, cmd.val>> \in WalPairs /\ cmd.key \in WalKeys /\ cmd.val \in WalValues
  BY <1>1, WalScans DEF WalCommand, WalTried
<1>3. line = CASE step = "begin" -> <<"BEGIN">> [] step = "set" -> <<"SET", cmd.key, cmd.val>>
                   [] step = "commit" -> <<"COMMIT">>
  BY DEF WalWritten, Wal!Line
<1>4. line \in WalWhole
  BY <1>1, <1>2, <1>3 DEF WalWhole
<1>5. PICK l : l = log'
  OBVIOUS
<1>6. /\ l \in Seq(WalLines) /\ Len(l) \in Nat /\ Len(l) >= 1
      /\ Len(l) = Len(log) + 1 \/ (Len(l) = Len(log) /\ log[Len(log)][1] = "PART")
      /\ l[Len(l)] = line
      /\ \A i \in 1 .. Len(l) - 1 : i \in 1 .. Len(log) /\ l[i] = log[i]
  <2>1. l = Wal!Appended(line)
    BY <1>5 DEF WalWritten
  <2> QED
    BY <1>1, <1>4, <2>1, WalAppended
<1>7. step # "begin" => Len(log) >= 1 /\ log[Len(log)][1] # "PART"
  BY <1>1 DEF WalCommand
<1>8. step = "commit" => Len(log) >= 2
  BY <1>1 DEF WalCommand
<1>9. step # "begin" => Len(l) = Len(log) + 1 /\ l[Len(log)] = log[Len(log)]
  BY <1>1, <1>6, <1>7
<1>10. step = "commit" => l[Len(log) - 1] = log[Len(log) - 1]
  BY <1>1, <1>6, <1>8, <1>9
<1>11. Len(l) <= Len(log) + 1 /\ Len(l) >= Len(log)
  BY <1>1, <1>6
<1>12. synced' \in 0 .. Len(l)
  BY <1>5, <1>6, <1>11, WalFacts DEF WalWritten
<1>13. Len(log) + 1 <= MaxLog
  BY <1>1, WalFacts DEF WalCommand
<1>14. Len(l) <= MaxLog
  BY <1>1, <1>6, <1>11, <1>13, WalFacts
<1> QED
  BY <1>3, <1>4, <1>5, <1>6, <1>9, <1>10, <1>11, <1>12, <1>14

LEMMA WalPlaceWritten ==
  ASSUME WalInv, NEW line, WalWritten(line), NEW k \in WalKeys, NEW j, WalPlace(k, j),
         promised'[k] = promised[k], later'[k] = later[k]
  PROVE  WalPlace(k, j)'
<1>1. line \in WalWhole
  BY WalLineWritten
<1>2. \A v : WalGives(line, k, v) => v \in WalGood(k)
  <2>1. CASE step = "set"
    <3>1. line = <<"SET", cmd.key, cmd.val>>
      BY <2>1 DEF WalWritten, Wal!Line
    <3>2. WalTried(cmd.key, cmd.val)
      BY <2>1 DEF WalInv, WalCommand
    <3>3. ASSUME NEW v, ScannedPairs[<<cmd.key, cmd.val>>] = <<k, v>>
          PROVE  v \in later[k]
      BY <3>2, <3>3 DEF WalTried
    <3> QED
      BY <3>1, <3>3 DEF WalGood, WalGives
  <2>2. CASE step # "set"
    BY <2>2 DEF WalWritten, Wal!Line, WalGives
  <2> QED
    BY <2>1, <2>2
<1>3. log' = Wal!Appended(line) /\ synced' \in {synced, Len(log')}
  BY DEF WalWritten
<1> QED
  BY <1>1, <1>2, <1>3, WalWriteKey

\* BEGIN and SET.
LEMMA WalLogLine ==
  ASSUME WalInv, NEW line, WalWritten(line), step = "begin" \/ step = "set",
         step' = IF step = "begin" THEN "set" ELSE "commit",
         UNCHANGED <<db, dbTail, older, cmd, at, inside_tx, pair, promised, later, lost>>
  PROVE  WalInv'
<1>1. /\ line = CASE step = "begin" -> <<"BEGIN">> [] step = "set" -> <<"SET", cmd.key, cmd.val>>
                  [] step = "commit" -> <<"COMMIT">>
      /\ log' \in Seq(WalLines) /\ Len(log') \in Nat /\ Len(log') >= 1 /\ Len(log') <= Len(log) + 1
      /\ log'[Len(log')] = line
      /\ step # "begin" => Len(log') = Len(log) + 1 /\ log'[Len(log)] = log[Len(log)]
      /\ synced' \in 0 .. Len(log') /\ Len(log') <= MaxLog
  BY WalLineWritten
<1>2. WalCommand /\ Len(log) \in Nat /\ MaxLog \in Nat
  BY WalFacts DEF WalInv
<1>3. cmd.op \in {"write", "write-nosync", "crash-after-wal"}
  BY <1>2 DEF WalCommand
<1>4. WalTypes'
  <2>1. step' \in {"idle", "begin", "set", "commit", "recover", "apply", "fsync"}
    OBVIOUS
  <2> QED
    BY <1>1, <2>1 DEF WalInv, WalTypes, Wal!TypeOK
<1>5. WalCommand'
  <2>1. CASE step = "begin"
    <3>1. line = <<"BEGIN">> /\ Len(log) + 3 <= MaxLog
      BY <1>1, <1>2, <2>1 DEF WalCommand
    <3>2. Len(log') + 2 <= MaxLog
      BY <1>1, <1>2, <3>1
    <3> QED
      BY <1>1, <1>2, <1>3, <2>1, <3>1, <3>2 DEF WalCommand, WalGood, WalTried
  <2>2. CASE step = "set"
    <3>1. /\ line = <<"SET", cmd.key, cmd.val>> /\ Len(log) + 2 <= MaxLog /\ Len(log) >= 1
          /\ log[Len(log)] = <<"BEGIN">>
      BY <1>1, <1>2, <2>2 DEF WalCommand
    <3>2. Len(log') = Len(log) + 1 /\ Len(log') - 1 = Len(log)
      BY <1>1, <1>2, <2>2
    <3>3. /\ Len(log') + 1 <= MaxLog /\ Len(log') >= 2
          /\ log'[Len(log') - 1] = <<"BEGIN">>
      BY <1>1, <1>2, <2>2, <3>1, <3>2
    <3> QED
      BY <1>1, <1>2, <1>3, <2>2, <3>1, <3>3 DEF WalCommand, WalGood, WalTried
  <2> QED
    BY <2>1, <2>2
<1>6. ASSUME NEW k \in WalKeys
      PROVE  WalKey(k)'
  <2>1. WalKey(k)
    BY DEF WalInv
  <2>2. CASE promised[k] # 0
    <3>1. PICK j : WalPlace(k, j)
      BY <2>1, <2>2 DEF WalKey
    <3>2. WalPlace(k, j)'
      BY <3>1, WalPlaceWritten
    <3>3. WalPassed(k, j)'
      BY <1>3 DEF WalPassed
    <3>4. WalRight(k)'
      BY <2>1, <2>2 DEF WalKey, WalRight, WalGood
    <3> QED
      BY <3>2, <3>3, <3>4 DEF WalKey
  <2> QED
    BY <2>1, <2>2 DEF WalKey
<1> QED
  BY <1>4, <1>5, <1>6 DEF WalInv

\* COMMIT: the transaction has its place in the log, and the others keep theirs.
LEMMA WalCommit ==
  ASSUME WalInv, NEW line, WalWritten(line), step = "commit", Wal!Committed, NEW q, q = cmd.key
  PROVE  /\ promised' \in WalTable /\ later' \in [WalKeys -> SUBSET WalValues]
         /\ lost' \subseteq WalKeys /\ cmd.val \in WalGood(q)'
         /\ \A k \in WalKeys : k \notin lost' =>
              k \notin lost /\ promised'[k] = promised[k] /\ later'[k] = later[k]
         /\ \A k \in WalKeys : promised'[k] # 0 => \E j : WalPlace(k, j)'
<1>1. /\ WalCommand /\ promised \in WalTable /\ later \in [WalKeys -> SUBSET WalValues]
      /\ lost \subseteq WalKeys
  BY WalFacts DEF WalInv
<1>2. WalTried(q, cmd.val) /\ <<q, cmd.val>> \in WalPairs
  BY <1>1 DEF WalCommand, WalTried
<1>3. q \in WalKeys /\ cmd.val \in WalValues /\ cmd.val \in later[q]
  BY <1>2, WalScans DEF WalTried
<1>4. ASSUME NEW k \in WalKeys, promised'[k] = promised[k], later'[k] = later[k], promised'[k] # 0
      PROVE  \E j : WalPlace(k, j)'
  <2>1. PICK j : WalPlace(k, j)
    BY <1>4 DEF WalInv, WalKey
  <2> QED
    BY <1>4, <2>1, WalPlaceWritten
<1>5. CASE cmd.op = "write-nosync" \/ ~Wal!Readable(<<cmd.key, cmd.val>>)
  <2>1. promised' = promised /\ later' = later /\ lost' = lost
    BY <1>5 DEF Wal!Committed, Wal!Past
  <2> QED
    BY <1>1, <1>3, <1>4, <2>1 DEF WalGood
<1>6. CASE ~(cmd.op = "write-nosync" \/ ~Wal!Readable(<<cmd.key, cmd.val>>))
  <2>1. /\ promised' = [promised EXCEPT ![q] = cmd.val]
        /\ later' = [later EXCEPT ![q] = {}] /\ lost' = lost \cup {q}
    BY <1>6 DEF Wal!Committed
  <2>2. /\ promised' \in WalTable /\ later' \in [WalKeys -> SUBSET WalValues]
        /\ \A k \in WalKeys : k # q => promised'[k] = promised[k] /\ later'[k] = later[k]
        /\ promised'[q] = cmd.val
    BY <1>1, <1>3, <2>1 DEF WalTable
  <2>3. \E j : WalPlace(q, j)'
    <3>1. /\ line = <<"COMMIT">> /\ log' \in Seq(WalLines) /\ Len(log') = Len(log) + 1
          /\ log'[Len(log')] = line
          /\ log'[Len(log)] = log[Len(log)] /\ log'[Len(log) - 1] = log[Len(log) - 1]
      BY WalLineWritten
    <3>2. PICK j \in Nat : j = Len(log)
      BY WalFacts
    <3>3. j >= 2 /\ log[j - 1] = <<"BEGIN">> /\ log[j] = <<"SET", q, cmd.val>>
      BY <1>1, <3>2 DEF WalCommand
    <3>4. /\ log'[j - 1] = <<"BEGIN">> /\ log'[j] = <<"SET", q, promised'[q]>>
          /\ log'[j + 1] = <<"COMMIT">> /\ Len(log') = j + 1
      BY <2>2, <3>1, <3>2, <3>3
    <3>5. synced' = j + 1
      BY <1>6, <3>4 DEF WalWritten
    <3>6. ASSUME NEW i \in j + 1 .. Len(log'), NEW v
          PROVE  ~WalGives(Wal!Read(i)', q, v)
      <4>1. i = j + 1
        BY <3>4
      <4>2. Wal!Read(i)' = <<"COMMIT">>
        BY <4>1, <3>4 DEF Wal!Read
      <4> QED
        BY <4>2 DEF WalGives
    <3>7. j + 1 <= synced'
      BY <3>5
    <3>8. <<q, promised'[q]>> \in WalPairs /\ Wal!Readable(<<q, promised'[q]>>)
      BY <1>2, <1>6, <2>2
    <3>9. \A i \in j + 1 .. Len(log') : \A v : WalGives(Wal!Read(i)', q, v) => v \in WalGood(q)'
      BY <3>6
    <3>10. WalPlace(q, j)'
      BY <3>3, <3>4, <3>7, <3>8, <3>9 DEF WalPlace, WalGives, Wal!Readable
    <3> QED
      BY <3>10
  <2> QED
    BY <1>1, <1>3, <1>4, <2>1, <2>2, <2>3 DEF WalGood
<1> QED
  BY <1>5, <1>6

LEMMA WalExit ==
  ASSUME WalInv, Wal!Exit
  PROVE  /\ step' = "idle" /\ cmd' \in WalNow /\ cmd'.op = "none" /\ at' \in 0 .. MaxLog
         /\ inside_tx' \in BOOLEAN /\ pair' = <<>>
<1>1. cmd' = [op |-> "none", key |-> 0, val |-> 0]
  BY DEF Wal!Exit, Wal!NoCmd, Wal!None
<1>2. cmd' \in WalNow /\ cmd'.op = "none"
  BY <1>1 DEF WalNow
<1>3. at' \in 0 .. MaxLog
  BY WalFacts DEF Wal!Exit
<1>4. inside_tx' \in BOOLEAN
  BY DEF Wal!Exit
<1> QED
  BY <1>2, <1>3, <1>4 DEF Wal!Exit, Wal!NoPair

\* The process or the machine fails: the log keeps what was promised, and where
\* the database does not, the key is known to be lost.
LEMMA WalFails ==
  ASSUME WalInv, Wal!Exit,
         log' \in Seq(WalLines), Len(log') <= MaxLog, synced' \in 0 .. Len(log'),
         db' \in WalTable, dbTail' \in BOOLEAN, older' \in Seq(WalTable),
         promised' \in WalTable, later' \in [WalKeys -> SUBSET WalValues], lost' \subseteq WalKeys,
         \A k \in WalKeys : promised'[k] # 0 => \E j : WalPlace(k, j)',
         \A k \in WalKeys : promised'[k] # 0 /\ k \notin lost' => db'[k] \in WalGood(k)'
  PROVE  WalInv'
<1>1. /\ step' = "idle" /\ cmd' \in WalNow /\ cmd'.op = "none" /\ at' \in 0 .. MaxLog
      /\ inside_tx' \in BOOLEAN /\ pair' = <<>>
  BY WalExit
<1>2. WalTypes'
  BY <1>1 DEF WalTypes, Wal!TypeOK, Wal!None, Wal!Table, WalTable
<1>3. WalCommand'
  BY <1>1 DEF WalCommand
<1>4. ASSUME NEW k \in WalKeys
      PROVE  WalKey(k)'
  <2>1. \A j : WalPassed(k, j)'
    BY <1>1 DEF WalPassed
  <2>2. promised'[k] # 0 => WalRight(k)'
    BY DEF WalRight
  <2> QED
    BY <2>1, <2>2 DEF WalKey
<1> QED
  BY <1>2, <1>3, <1>4 DEF WalInv

LEMMA WalKill ==
  ASSUME WalInv, Wal!Kill
  PROVE  WalInv'
<1>1. /\ Wal!Exit /\ lost' = IF cmd.op = "recover" THEN WalKeys ELSE lost
      /\ UNCHANGED <<log, synced, db, dbTail, older, promised, later>>
  BY DEF Wal!Kill, Wal!Text, Wal!Data, Wal!Past, Wal!Broken
<1>2. ASSUME NEW k \in WalKeys, promised'[k] # 0
      PROVE  \E j : WalPlace(k, j)'
  <2>1. PICK j : WalPlace(k, j)
    BY <1>1, <1>2 DEF WalInv, WalKey
  <2> QED
    BY <1>1, <2>1, WalPlaceSame
<1>3. synced' \in 0 .. Len(log') /\ Len(log') <= MaxLog
  BY <1>1 DEF WalInv, WalTypes, Wal!TypeOK
<1>4. ASSUME NEW k \in WalKeys, promised'[k] # 0, k \notin lost'
      PROVE  db'[k] \in WalGood(k)'
  <2>1. cmd.op # "recover" /\ k \notin lost /\ promised[k] # 0
    BY <1>1, <1>4
  <2>2. db[k] \in WalGood(k)
    BY <2>1 DEF WalInv, WalKey, WalRight
  <2> QED
    BY <1>1, <2>2 DEF WalGood
<1>5. lost' \subseteq WalKeys
  BY <1>1, WalFacts
<1> QED
  BY <1>1, <1>2, <1>3, <1>4, <1>5, WalFacts, WalFails

\* The log is cut behind line n, which is synced, and a piece of the next may stay.
LEMMA WalCut ==
  ASSUME WalInv, NEW n \in synced .. Len(log), NEW l,
         \/ l = SubSeq(log, 1, n)
         \/ n < Len(log) /\ log[n + 1][1] # "PART" /\ l = Append(SubSeq(log, 1, n), <<"PART", log[n + 1]>>)
         \/ n < Len(log) /\ l = Append(SubSeq(log, 1, n), <<"PART", <<"junk">>>>)
  PROVE  /\ l \in Seq(WalLines) /\ Len(l) \in Nat /\ Len(l) <= Len(log) /\ n <= Len(l) /\ Len(l) <= n + 1
         /\ \A i \in 1 .. n : l[i] = log[i]
         /\ Len(l) = n + 1 => /\ l[n + 1][1] = "PART"
                              /\ l[n + 1][2] = <<"junk">> \/ (l[n + 1][2] = log[n + 1] /\ log[n + 1][1] # "PART")
<1>1. log \in Seq(WalLines) /\ Len(log) \in Nat /\ n \in Nat /\ n <= Len(log)
  BY WalFacts
<1>2. PICK m : m = SubSeq(log, 1, n)
  OBVIOUS
<1>3. m \in Seq(WalLines) /\ Len(m) = n /\ \A i \in 1 .. n : m[i] = log[i]
  BY <1>1, <1>2, SubSeqProperties
<1>4. CASE l = SubSeq(log, 1, n)
  BY <1>1, <1>2, <1>3, <1>4
<1>5. ASSUME NEW x \in WalWhole \cup {<<"junk">>}, l = Append(m, <<"PART", x>>), n < Len(log)
      PROVE  /\ l \in Seq(WalLines) /\ Len(l) = n + 1 /\ \A i \in 1 .. n : l[i] = log[i]
             /\ l[n + 1] = <<"PART", x>>
  <2>1. PICK e \in WalLines : e = <<"PART", x>>
    BY DEF WalLines
  <2>2. /\ l \in Seq(WalLines) /\ Len(l) = n + 1 /\ l[n + 1] = e
        /\ \A i \in 1 .. n : l[i] = m[i]
    BY <2>1, <1>1, <1>3, <1>5
  <2> QED
    BY <2>1, <2>2, <1>3
<1>6. CASE n < Len(log) /\ log[n + 1][1] # "PART" /\ l = Append(SubSeq(log, 1, n), <<"PART", log[n + 1]>>)
  <2>1. n + 1 \in 1 .. Len(log)
    BY <1>1, <1>6
  <2>2. log[n + 1] \in WalWhole
    BY <2>1, <1>1, <1>6, WalLine
  <2>3. /\ l \in Seq(WalLines) /\ Len(l) = n + 1 /\ \A i \in 1 .. n : l[i] = log[i]
        /\ l[n + 1] = <<"PART", log[n + 1]>>
    BY <2>2, <1>2, <1>5, <1>6
  <2> QED
    BY <2>3, <1>1, <1>6
<1>7. CASE n < Len(log) /\ l = Append(SubSeq(log, 1, n), <<"PART", <<"junk">>>>)
  <2>1. /\ l \in Seq(WalLines) /\ Len(l) = n + 1 /\ \A i \in 1 .. n : l[i] = log[i]
        /\ l[n + 1] = <<"PART", <<"junk">>>>
    BY <1>2, <1>5, <1>7
  <2> QED
    BY <2>1, <1>1, <1>7
<1> QED
  BY <1>4, <1>6, <1>7

LEMMA WalPowerFailure ==
  ASSUME WalInv, Wal!PowerFailure
  PROVE  WalInv'
<1>1. PICK n \in synced .. Len(log) :
        \/ log' = SubSeq(log, 1, n)
        \/ /\ n < Len(log) /\ log[n + 1][1] # "PART"
           /\ log' = Append(SubSeq(log, 1, n), <<"PART", log[n + 1]>>)
        \/ n < Len(log) /\ log' = Append(SubSeq(log, 1, n), <<"PART", <<"junk">>>>)
  BY DEF Wal!PowerFailure
<1>2. PICK l : l = log'
  OBVIOUS
<1>3. /\ l \in Seq(WalLines) /\ Len(l) \in Nat /\ Len(l) <= Len(log) /\ n <= Len(l) /\ Len(l) <= n + 1
      /\ \A i \in 1 .. n : l[i] = log[i]
      /\ Len(l) = n + 1 => /\ l[n + 1][1] = "PART"
                           /\ l[n + 1][2] = <<"junk">> \/ (l[n + 1][2] = log[n + 1] /\ log[n + 1][1] # "PART")
  BY <1>1, <1>2, WalCut
<1>4. n \in Nat /\ synced <= n /\ n <= Len(log)
  BY WalFacts
<1>5. /\ Wal!Exit /\ synced' = Len(log') /\ promised' = promised /\ later' = later
      /\ older' = <<>>
      /\ lost' = (IF cmd.op = "recover" THEN WalKeys ELSE lost) \cup {k \in WalKeys : db'[k] # db[k]}
  BY DEF Wal!PowerFailure, Wal!Past, Wal!Broken
<1>6. ASSUME NEW k \in WalKeys, promised'[k] # 0
      PROVE  \E j : WalPlace(k, j)'
  <2>1. PICK j : WalPlace(k, j)
    BY <1>5, <1>6 DEF WalInv, WalKey
  <2>2. j \in Nat /\ j + 1 <= synced
    BY <2>1 DEF WalPlace
  <2>3. n >= j + 1 /\ synced' \in Nat /\ synced' >= synced
    BY <2>2, <1>2, <1>3, <1>4, <1>5, WalFacts
  <2>4. WalGood(k)' = WalGood(k)
    BY <1>5 DEF WalGood
  <2>5. ASSUME NEW i \in n + 1 .. Len(log'), NEW v, WalGives(Wal!Read(i)', k, v)
        PROVE  v \in WalGood(k)'
    <3>1. i = n + 1 /\ Len(l) = n + 1
      BY <1>2, <1>3, <1>4
    <3>2. Wal!Read(i)' = l[n + 1][2]
      BY <1>2, <1>3, <3>1 DEF Wal!Read
    <3>3. l[n + 1][2] = log[n + 1] /\ log[n + 1][1] # "PART"
      BY <2>5, <3>1, <3>2, <1>3 DEF WalGives
    <3>4. Wal!Read(i) = Wal!Read(i)' /\ i \in j + 1 .. Len(log)
      BY <3>1, <3>2, <3>3, <1>3, <1>4, <2>2, <2>3, WalFacts DEF Wal!Read
    <3> QED
      BY <2>1, <2>4, <2>5, <3>4 DEF WalPlace
  <2>6. promised'[k] = promised[k] /\ WalGood(k) \subseteq WalGood(k)'
    BY <1>5, <2>4
  <2>7. Len(log') \in Nat /\ n <= Len(log') /\ Len(log') <= n + 1 /\ \A i \in 1 .. n : log'[i] = log[i]
    BY <1>2, <1>3
  <2>8. Len(log) \in Nat /\ synced \in Nat /\ synced <= Len(log)
    BY WalFacts
  <2> QED
    BY <2>1, <2>3, <2>5, <2>6, <2>7, <2>8, <1>4, WalPlaceKept
<1>7. db' \in WalTable /\ dbTail' \in BOOLEAN
  <2>1. \/ db' = db /\ dbTail' = dbTail
        \/ \E i \in 1 .. Len(older) : db' = older[i] /\ dbTail' \in BOOLEAN
    BY DEF Wal!PowerFailure
  <2> QED
    BY <2>1, WalFacts
<1>8. log' \in Seq(WalLines) /\ Len(log') <= MaxLog /\ synced' \in 0 .. Len(log')
  BY <1>2, <1>3, <1>5, WalFacts
<1>9. /\ promised' \in WalTable /\ later' \in [WalKeys -> SUBSET WalValues]
      /\ lost' \subseteq WalKeys /\ older' \in Seq(WalTable)
  BY <1>5, WalFacts
<1>10. ASSUME NEW k \in WalKeys, promised'[k] # 0, k \notin lost'
       PROVE  db'[k] \in WalGood(k)'
  <2>1. cmd.op # "recover" /\ k \notin lost /\ promised[k] # 0 /\ db'[k] = db[k]
    BY <1>5, <1>10
  <2>2. db[k] \in WalGood(k)
    BY <2>1 DEF WalInv, WalKey, WalRight
  <2> QED
    BY <1>5, <2>1, <2>2 DEF WalGood
<1> QED
  BY <1>5, <1>6, <1>7, <1>8, <1>9, <1>10, WalFails

\* The steps of log_to_wal, and the end of crash-after-wal.
LEMMA WalWrites ==
  ASSUME WalInv, NEW s \in {"begin", "set", "commit"}, Wal!Write(s)
  PROVE  step = s /\ WalWritten(Wal!Line(s))
BY DEF Wal!Write, WalWritten, Wal!safe_write

LEMMA WalCrash ==
  ASSUME WalInv, Wal!crash_after_wal
  PROVE  WalInv'
<1>1. /\ Wal!Write("commit") /\ Wal!Committed /\ Wal!Exit
      /\ UNCHANGED <<db, dbTail, older>>
  BY DEF Wal!crash_after_wal, Wal!Data
<1>2. PICK line : line = Wal!Line("commit")
  OBVIOUS
<1>3. step = "commit" /\ WalWritten(line)
  BY <1>1, <1>2, WalWrites
<1>4. PICK q : q = cmd.key
  OBVIOUS
<1>5. /\ promised' \in WalTable /\ later' \in [WalKeys -> SUBSET WalValues]
      /\ lost' \subseteq WalKeys
      /\ \A k \in WalKeys : k \notin lost' =>
           k \notin lost /\ promised'[k] = promised[k] /\ later'[k] = later[k]
      /\ \A k \in WalKeys : promised'[k] # 0 => \E j : WalPlace(k, j)'
  BY <1>1, <1>3, <1>4, WalCommit
<1>6. log' \in Seq(WalLines) /\ Len(log') <= MaxLog /\ synced' \in 0 .. Len(log')
  BY <1>3, WalLineWritten
<1>7. db' \in WalTable /\ dbTail' \in BOOLEAN /\ older' \in Seq(WalTable)
  BY <1>1, WalFacts
<1>8. cmd.op # "recover"
  BY <1>3 DEF WalInv, WalCommand
<1>9. ASSUME NEW k \in WalKeys, promised'[k] # 0, k \notin lost'
      PROVE  db'[k] \in WalGood(k)'
  <2>1. k \notin lost /\ promised'[k] = promised[k] /\ later'[k] = later[k]
    BY <1>5, <1>9
  <2>2. db[k] \in WalGood(k)
    BY <1>8, <1>9, <2>1 DEF WalInv, WalKey, WalRight
  <2> QED
    BY <1>1, <2>1, <2>2 DEF WalGood
<1> QED
  BY <1>1, <1>5, <1>6, <1>7, <1>9, WalFails

LEMMA WalLog ==
  ASSUME WalInv, Wal!log_to_wal
  PROVE  WalInv'
<1>1. UNCHANGED <<db, dbTail, older, cmd, at, inside_tx, pair>>
  BY DEF Wal!log_to_wal, Wal!Data, Wal!Reader
<1>2. ASSUME Wal!Write("begin"), step' = "set", UNCHANGED <<Wal!Past, lost>>
      PROVE  WalInv'
  <2>1. step = "begin" /\ WalWritten(Wal!Line("begin"))
    BY <1>2, WalWrites
  <2>2. UNCHANGED <<db, dbTail, older, cmd, at, inside_tx, pair, promised, later, lost>>
    BY <1>1, <1>2 DEF Wal!Past
  <2> QED
    BY <1>2, <2>1, <2>2, WalLogLine
<1>3. ASSUME Wal!Write("set"), step' = "commit", UNCHANGED <<Wal!Past, lost>>
      PROVE  WalInv'
  <2>1. step = "set" /\ WalWritten(Wal!Line("set"))
    BY <1>3, WalWrites
  <2>2. UNCHANGED <<db, dbTail, older, cmd, at, inside_tx, pair, promised, later, lost>>
    BY <1>1, <1>3 DEF Wal!Past
  <2> QED
    BY <1>3, <2>1, <2>2, WalLogLine
<1>4. ASSUME Wal!Write("commit"), cmd.op # "crash-after-wal", step' = "apply", Wal!Committed
      PROVE  WalInv'
  <2>1. PICK line : line = Wal!Line("commit")
    OBVIOUS
  <2>2. step = "commit" /\ WalWritten(line)
    BY <1>4, <2>1, WalWrites
  <2>3. PICK q : q = cmd.key
    OBVIOUS
  <2>4. /\ promised' \in WalTable /\ later' \in [WalKeys -> SUBSET WalValues]
        /\ lost' \subseteq WalKeys /\ cmd.val \in WalGood(q)'
        /\ \A k \in WalKeys : k \notin lost' =>
             k \notin lost /\ promised'[k] = promised[k] /\ later'[k] = later[k]
        /\ \A k \in WalKeys : promised'[k] # 0 => \E j : WalPlace(k, j)'
    BY <1>4, <2>2, <2>3, WalCommit
  <2>5. log' \in Seq(WalLines) /\ Len(log') <= MaxLog /\ synced' \in 0 .. Len(log')
    BY <2>2, WalLineWritten
  <2>6. WalTypes'
    BY <1>1, <1>4, <2>4, <2>5 DEF WalInv, WalTypes, Wal!TypeOK, Wal!None, Wal!Table, WalTable
  <2>7. WalCommand
    BY DEF WalInv
  <2>8. cmd.op \in {"write", "write-nosync"}
    BY <1>4, <2>2, <2>7 DEF WalCommand
  <2>9. cmd' = cmd /\ cmd'.key = q /\ cmd'.val = cmd.val
    BY <1>1, <2>3
  <2>10. WalCommand'
    <3>1. cmd'.val \in WalGood(q)'
      BY <2>4, <2>9
    <3>2. WalGood(q)' = {promised'[cmd'.key], ScannedPairs[<<cmd'.key, promised'[cmd'.key]>>][2]}
                          \cup later'[cmd'.key]
      BY <2>9 DEF WalGood
    <3>3. cmd'.val \in {promised'[cmd'.key], ScannedPairs[<<cmd'.key, promised'[cmd'.key]>>][2]}
                          \cup later'[cmd'.key]
      BY <3>1, <3>2
    <3> QED
      BY <1>4, <2>2, <2>7, <2>8, <2>9, <3>3 DEF WalCommand, WalGood
  <2>11. ASSUME NEW k \in WalKeys
         PROVE  WalKey(k)'
    <3>1. \A j : WalPassed(k, j)'
      BY <2>8, <2>9 DEF WalPassed
    <3>2. ASSUME promised'[k] # 0, k \notin lost'
          PROVE  db'[k] \in WalGood(k)'
      <4>1. k \notin lost /\ promised'[k] = promised[k] /\ later'[k] = later[k] /\ WalKey(k)
        BY <2>4, <3>2 DEF WalInv
      <4> QED
        BY <4>1, <1>1, <2>8, <3>2 DEF WalKey, WalRight, WalGood
    <3> QED
      BY <2>4, <3>1, <3>2 DEF WalKey, WalRight
  <2> QED
    BY <2>6, <2>10, <2>11 DEF WalInv
<1> QED
  BY <1>2, <1>3, <1>4 DEF Wal!log_to_wal

\* A command that leaves log and promises alone, key by key.
LEMMA WalQuiet ==
  ASSUME WalInv, WalTypes', WalCommand', UNCHANGED <<log, synced, promised, later>>,
         \A k \in WalKeys, j \in Nat :
           promised[k] # 0 /\ WalPlace(k, j) /\ WalPassed(k, j) /\ WalRight(k) =>
             WalPassed(k, j)' /\ WalRight(k)'
  PROVE  WalInv'
<1>1. ASSUME NEW k \in WalKeys
      PROVE  WalKey(k)'
  <2>1. CASE promised[k] # 0
    <3>1. PICK j : WalPlace(k, j) /\ WalPassed(k, j) /\ WalRight(k)
      BY <2>1 DEF WalInv, WalKey
    <3>2. j \in Nat
      BY <3>1 DEF WalPlace
    <3>3. WalPlace(k, j)'
      BY <3>1, WalPlaceSame
    <3>4. WalPassed(k, j)' /\ WalRight(k)'
      BY <2>1, <3>1, <3>2
    <3> QED
      BY <3>3, <3>4 DEF WalKey
  <2>2. CASE promised[k] = 0
    BY <2>2 DEF WalKey
  <2> QED
    BY <2>1, <2>2
<1> QED
  BY <1>1 DEF WalInv

\* A line of the database is written, or is not.
LEMMA WalApplyWrite ==
  ASSUME WalInv, Wal!ApplyWrite
  PROVE  WalInv'
<1>1. /\ step = "apply" /\ step' = "fsync"
      /\ UNCHANGED <<log, synced, cmd, at, inside_tx, pair, promised, later>>
  BY DEF Wal!ApplyWrite, Wal!Text, Wal!Reader, Wal!Past
<1>2. /\ WalCommand /\ WalTypes /\ db \in WalTable /\ cmd \in WalNow /\ older \in Seq(WalTable)
      /\ dbTail \in BOOLEAN /\ lost \subseteq WalKeys
  BY WalFacts DEF WalInv
<1>3. Append(older, db) \in Seq(WalTable)
  BY <1>2
<1>4. ASSUME Wal!Missed, db' = db, older' \in Seq(WalTable), dbTail' \in BOOLEAN
      PROVE  WalInv'
  <2>1. /\ lost' \subseteq WalKeys /\ lost \subseteq lost'
        /\ cmd.op = "recover" /\ pair # <<>> => pair[1] \in lost'
    BY <1>2, <1>4 DEF Wal!Missed, Wal!NoPair, WalTypes
  <2>2. WalTypes'
    BY <1>1, <1>2, <1>4, <2>1 DEF WalTypes, Wal!TypeOK, Wal!Table, WalTable, Wal!None
  <2>3. WalCommand'
    BY <1>1, <1>2, <1>4 DEF WalCommand
  <2>4. ASSUME NEW k \in WalKeys, NEW j \in Nat, WalPassed(k, j), WalRight(k)
        PROVE  WalPassed(k, j)' /\ WalRight(k)'
    <3>1. WalGood(k)' = WalGood(k)
      BY <1>1 DEF WalGood
    <3>2. WalRight(k)'
      BY <1>1, <1>4, <2>1, <2>4, <3>1 DEF WalRight
    <3>3. ASSUME cmd.op = "recover", at > j, k \notin lost'
          PROVE  db[k] \in WalGood(k)
      <4>1. at >= j
        BY <3>3, WalFacts
      <4>2. pair # <<>> /\ pair[1] # k
        BY <2>1, <2>4, <3>3, <4>1 DEF WalPassed
      <4> QED
        BY <2>1, <2>4, <3>3, <4>2 DEF WalPassed
    <3>4. WalPassed(k, j)'
      BY <1>1, <1>4, <2>4, <3>1, <3>3 DEF WalPassed
    <3> QED
      BY <3>2, <3>4
  <2> QED
    BY <1>1, <2>2, <2>3, <2>4, WalQuiet
<1>5. ASSUME dbTail' = dbTail, older' \in Seq(WalTable),
             IF Wal!Applied = Wal!NoPair THEN UNCHANGED <<db, lost>>
             ELSE /\ db' = [db EXCEPT ![Wal!Applied[1]] = Wal!Applied[2]]
                  /\ lost' = lost \ {Wal!Applied[1]}
      PROVE  WalInv'
  <2>1. PICK a : a = Wal!Applied
    OBVIOUS
  <2>2. /\ cmd.op = "recover" => a = pair
        /\ cmd.op # "recover" => a = <<cmd.key, cmd.val>>
    BY <2>1 DEF Wal!Applied
  <2>3. a # <<>> => a[1] \in WalKeys /\ a[2] \in WalValues
    <3>1. CASE cmd.op = "recover"
      BY <1>2, <2>2, <3>1 DEF WalTypes
    <3>2. CASE cmd.op # "recover"
      <4>1. cmd.key \in WalKeys /\ cmd.val \in WalValues
        BY <1>1, <1>2, <3>2 DEF WalCommand
      <4> QED
        BY <2>2, <3>2, <4>1
    <3> QED
      BY <3>1, <3>2
  <2>4. /\ a = <<>> => db' = db /\ lost' = lost
        /\ a # <<>> => db' = [db EXCEPT ![a[1]] = a[2]] /\ lost' = lost \ {a[1]}
    BY <1>5, <2>1 DEF Wal!NoPair
  <2>5. db' \in WalTable /\ lost' \subseteq WalKeys
    BY <1>2, <2>3, <2>4 DEF WalTable
  <2>6. ASSUME NEW k \in WalKeys
        PROVE  /\ a # <<>> /\ a[1] = k => db'[k] = a[2]
               /\ a = <<>> \/ a[1] # k => db'[k] = db[k] /\ (k \in lost' <=> k \in lost)
    BY <1>2, <2>3, <2>4 DEF WalTable
  <2>7. WalTypes'
    BY <1>1, <1>2, <1>5, <2>5 DEF WalTypes, Wal!TypeOK, Wal!None, Wal!Table, WalTable
  <2>8. WalCommand'
    BY <1>1, <1>2, <1>5 DEF WalCommand
  <2>9. ASSUME NEW k \in WalKeys, NEW j \in Nat, WalPassed(k, j), WalRight(k)
        PROVE  WalPassed(k, j)' /\ WalRight(k)'
    <3>1. WalGood(k)' = WalGood(k)
      BY <1>1 DEF WalGood
    <3>2. CASE cmd.op = "recover"
      <4>1. at > j => at >= j
        BY WalFacts
      <4>2. ASSUME at > j, k \notin lost'
            PROVE  db'[k] \in WalGood(k)
        BY <1>1, <2>2, <2>6, <2>9, <3>2, <4>1, <4>2 DEF WalPassed
      <4>3. WalPassed(k, j)'
        BY <1>1, <1>5, <2>9, <3>1, <3>2, <4>2 DEF WalPassed
      <4>4. WalRight(k)'
        BY <1>1, <3>2 DEF WalRight
      <4> QED
        BY <4>3, <4>4
    <3>3. CASE cmd.op # "recover"
      <4>1. a # <<>> /\ a[1] = cmd.key /\ a[2] = cmd.val
        BY <2>2, <3>3
      <4>2. cmd.key = k => cmd.val \in WalGood(k)
        BY <1>1, <1>2, <3>3 DEF WalCommand
      <4>3. k \notin lost' => db'[k] \in WalGood(k)
        BY <2>6, <2>9, <3>3, <4>1, <4>2 DEF WalRight
      <4>4. WalRight(k)'
        BY <1>1, <1>5, <3>1, <4>3 DEF WalRight
      <4>5. WalPassed(k, j)'
        BY <1>1, <3>3 DEF WalPassed
      <4> QED
        BY <4>4, <4>5
    <3> QED
      BY <3>2, <3>3
  <2> QED
    BY <1>1, <2>7, <2>8, <2>9, WalQuiet
<1>6. CASE Wal!Missed /\ UNCHANGED Wal!Data
  BY <1>2, <1>4, <1>6 DEF Wal!Data
<1>7. CASE ~dbTail /\ dbTail' = TRUE /\ older' = Append(older, db) /\ Wal!Missed /\ UNCHANGED db
  <2>1. dbTail' \in BOOLEAN
    BY <1>7
  <2> QED
    BY <1>3, <1>4, <1>7, <2>1
<1>8. CASE /\ dbTail /\ older' = Append(older, db) /\ UNCHANGED dbTail
           /\ IF Wal!Applied = Wal!NoPair THEN UNCHANGED <<db, lost>>
              ELSE /\ db' = [db EXCEPT ![Wal!Applied[1]] = Wal!Applied[2]]
                   /\ lost' = lost \ {Wal!Applied[1]}
  BY <1>3, <1>5, <1>8
<1> QED
  BY <1>6, <1>7, <1>8 DEF Wal!ApplyWrite

LEMMA WalApplySync ==
  ASSUME WalInv, Wal!ApplySync
  PROVE  WalInv'
<1>1. /\ step = "fsync" /\ older' = <<>>
      /\ UNCHANGED <<log, synced, db, dbTail, promised, later, lost>>
  BY DEF Wal!ApplySync, Wal!Text, Wal!Past, Wal!NoPair
<1>2. WalCommand /\ WalTypes /\ older' \in Seq(Wal!Table)
  BY <1>1 DEF WalInv
<1>3. CASE cmd.op = "recover"
  <2>1. step' = "recover" /\ UNCHANGED <<cmd, at, inside_tx, pair>>
    BY <1>3 DEF Wal!ApplySync, Wal!Reader
  <2>2. WalTypes'
    BY <1>1, <1>2, <2>1 DEF WalTypes, Wal!TypeOK
  <2>3. WalCommand'
    BY <1>1, <1>2, <1>3, <2>1 DEF WalCommand
  <2>4. ASSUME NEW k \in WalKeys, NEW j \in Nat, WalPassed(k, j)
        PROVE  WalPassed(k, j)' /\ WalRight(k)'
    BY <1>1, <1>3, <2>1, <2>4 DEF WalPassed, WalRight, WalGood
  <2> QED
    BY <1>1, <2>2, <2>3, <2>4, WalQuiet
<1>4. CASE cmd.op # "recover"
  <2>1. Wal!Exit
    BY <1>4 DEF Wal!ApplySync
  <2>2. /\ step' = "idle" /\ cmd' \in WalNow /\ cmd'.op = "none" /\ at' \in 0 .. MaxLog
        /\ inside_tx' \in BOOLEAN /\ pair' = <<>>
    BY <2>1, WalExit
  <2>3. WalTypes'
    BY <1>1, <1>2, <2>2 DEF WalTypes, Wal!TypeOK
  <2>4. WalCommand'
    BY <1>1, <1>2, <1>4, <2>2 DEF WalCommand
  <2>5. ASSUME NEW k \in WalKeys, NEW j \in Nat, WalRight(k)
        PROVE  WalPassed(k, j)' /\ WalRight(k)'
    BY <1>1, <1>4, <2>2, <2>5 DEF WalPassed, WalRight, WalGood
  <2> QED
    BY <1>1, <2>3, <2>4, <2>5, WalQuiet
<1> QED
  BY <1>3, <1>4

\* A line of the log is read by cmd_recover.
LEMMA WalRecoverLine ==
  ASSUME WalInv, Wal!RecoverLine
  PROVE  WalInv'
<1>1. PICK line : line = Wal!Read(at + 1)
  OBVIOUS
<1>2. /\ step = "recover" /\ at < Len(log) /\ at' = at + 1
      /\ inside_tx' = (Wal!IsBegin(line) \/ (inside_tx /\ line[1] # "COMMIT"))
      /\ pair' = IF line[1] = "SET" /\ ~Wal!IsBegin(line) /\ inside_tx
                   THEN ScannedPairs[<<line[2], line[3]>>] ELSE pair
      /\ step' = IF line[1] = "COMMIT" /\ inside_tx THEN "apply" ELSE step
      /\ UNCHANGED <<log, synced, db, dbTail, older, cmd, promised, later, lost>>
  BY <1>1 DEF Wal!RecoverLine, Wal!Text, Wal!Data, Wal!Past
<1>3. WalCommand /\ WalTypes
  BY DEF WalInv
<1>4. cmd.op = "recover"
  BY <1>2, <1>3 DEF WalCommand
<1>5. at + 1 \in 1 .. Len(log) /\ at \in Nat
  BY <1>2, WalFacts
<1>6. line \in WalWhole \cup {<<"junk">>}
  BY <1>1, <1>5, WalFacts, WalReads
<1>7. /\ line[1] \in {"BEGIN", "COMMIT", "SET", "junk"}
      /\ line[1] = "SET" => <<line[2], line[3]>> \in WalPairs
  BY <1>6, WalWholeLine
<1>8. /\ pair' \in {<<>>} \cup (WalKeys \X WalValues)
      /\ line[1] = "SET" /\ ~Wal!IsBegin(line) /\ inside_tx =>
           pair' # <<>> /\ WalGives(line, pair'[1], pair'[2])
  <2>1. CASE line[1] = "SET" /\ ~Wal!IsBegin(line) /\ inside_tx
    <3>1. PICK x : x = ScannedPairs[<<line[2], line[3]>>]
      OBVIOUS
    <3>2. x \in WalKeys \X WalValues
      BY <1>7, <2>1, <3>1, WalScans
    <3>3. x = <<x[1], x[2]>> /\ x # <<>>
      BY <3>2
    <3>4. pair' = x
      BY <1>2, <2>1, <3>1
    <3> QED
      BY <2>1, <3>1, <3>2, <3>3, <3>4 DEF WalGives
  <2>2. CASE ~(line[1] = "SET" /\ ~Wal!IsBegin(line) /\ inside_tx)
    BY <1>2, <1>3, <2>2 DEF WalTypes
  <2> QED
    BY <2>1, <2>2
<1>9. WalTypes'
  <2>1. at' \in 0 .. MaxLog
    BY <1>2, <1>5, WalFacts
  <2>2. inside_tx' \in BOOLEAN
    BY <1>2 DEF Wal!IsBegin
  <2>3. step' \in {"idle", "begin", "set", "commit", "recover", "apply", "fsync"}
    BY <1>2
  <2>4. UNCHANGED <<log, synced, db, dbTail, older, cmd, promised, later, lost>>
    BY <1>2
  <2> QED
    BY <1>3, <1>8, <2>1, <2>2, <2>3, <2>4 DEF WalTypes, Wal!TypeOK
<1>10. WalCommand'
  <2>1. step' \in {"recover", "apply"} /\ cmd' = cmd
    BY <1>2
  <2> QED
    BY <1>4, <2>1 DEF WalCommand
<1>11. ASSUME NEW k \in WalKeys, NEW j \in Nat, promised[k] # 0, WalPlace(k, j), WalPassed(k, j)
       PROVE  WalPassed(k, j)' /\ WalRight(k)'
  <2>1. /\ j >= 2 /\ j + 1 <= synced /\ log[j - 1] = <<"BEGIN">>
        /\ log[j] = <<"SET", k, promised[k]>> /\ log[j + 1] = <<"COMMIT">>
        /\ <<k, promised[k]>> \in WalPairs /\ Wal!Readable(<<k, promised[k]>>)
    BY <1>11 DEF WalPlace
  <2>2. /\ at + 1 = j => inside_tx
        /\ at = j => inside_tx
        /\ at >= j => pair # <<>> /\ (pair[1] = k => pair[2] \in WalGood(k))
        /\ at = j => pair[1] = k
        /\ at > j /\ k \notin lost => db[k] \in WalGood(k)
    BY <1>2, <1>4, <1>11 DEF WalPassed
  <2>3. /\ at + 1 = j - 1 => line = <<"BEGIN">>
        /\ at + 1 = j => line = <<"SET", k, promised[k]>>
        /\ at + 1 = j + 1 => line = <<"COMMIT">>
    BY <1>1, <2>1 DEF Wal!Read
  <2>4. /\ <<k, promised[k]>> \notin OddPairs /\ WalGood(k)' = WalGood(k)
        /\ ScannedPairs[<<k, promised[k]>>][1] = k
        /\ ScannedPairs[<<k, promised[k]>>][2] \in WalGood(k)
    BY <1>2, <2>1 DEF Wal!Readable, WalGood
  <2>5. at' + 1 = j => inside_tx'
    <3>1. ASSUME at' + 1 = j
          PROVE  at + 1 = j - 1
      BY <1>2, <1>5, <3>1
    <3>2. CASE at' + 1 = j
      <4>1. line = <<"BEGIN">>
        BY <2>3, <3>1, <3>2
      <4>2. Wal!IsBegin(line)
        BY <4>1 DEF Wal!IsBegin
      <4> QED
        BY <4>2, <1>2
    <3> QED
      BY <3>2
  <2>6. at' = j => inside_tx' /\ pair' = ScannedPairs[<<k, promised[k]>>] /\ pair' # <<>>
    <3>1. CASE at' = j
      <4>1. line = <<"SET", k, promised[k]>> /\ inside_tx
        BY <1>2, <2>2, <2>3, <3>1
      <4>2. ~Wal!IsBegin(line) /\ line[1] = "SET" /\ line[2] = k /\ line[3] = promised[k]
        BY <4>1, <2>4 DEF Wal!IsBegin
      <4>3. pair' = ScannedPairs[<<k, promised[k]>>] /\ pair' # <<>>
        BY <1>2, <1>8, <4>1, <4>2
      <4>4. inside_tx'
        BY <1>2, <4>1, <4>2
      <4> QED
        BY <4>3, <4>4
    <3> QED
      BY <3>1
  <2>7. at' >= j => pair' # <<>> /\ (pair'[1] = k => pair'[2] \in WalGood(k))
    <3>1. CASE at' = j
      BY <2>4, <2>6, <3>1
    <3>2. CASE at >= j
      <4>1. at + 1 \in j + 1 .. Len(log)
        BY <1>5, <3>2
      <4>2. \A v : WalGives(line, k, v) => v \in WalGood(k)
        BY <1>1, <1>11, <4>1 DEF WalPlace
      <4>3. CASE line[1] = "SET" /\ ~Wal!IsBegin(line) /\ inside_tx
        BY <1>8, <4>2, <4>3
      <4>4. CASE ~(line[1] = "SET" /\ ~Wal!IsBegin(line) /\ inside_tx)
        BY <1>2, <2>2, <3>2, <4>4
      <4> QED
        BY <4>3, <4>4
    <3>3. at' >= j => at' = j \/ at >= j
      BY <1>2, <1>5
    <3> QED
      BY <3>1, <3>2, <3>3
  <2>8. at' > j /\ k \notin lost => db[k] \in WalGood(k) \/ (step' = "apply" /\ pair'[1] = k)
    <3>1. CASE at = j
      <4>1. line = <<"COMMIT">> /\ inside_tx /\ pair[1] = k
        BY <2>2, <2>3, <3>1
      <4>2. line[1] = "COMMIT"
        BY <4>1
      <4> QED
        BY <1>2, <4>1, <4>2
    <3>2. at' > j => at = j \/ at > j
      BY <1>2, <1>5
    <3> QED
      BY <2>2, <3>1, <3>2
  <2>9. WalPassed(k, j)'
    <3>1. at' = j => pair'[1] = k
      BY <2>4, <2>6
    <3> QED
      BY <1>2, <2>4, <2>5, <2>6, <2>7, <2>8, <3>1 DEF WalPassed
  <2>10. WalRight(k)'
    BY <1>2, <1>4 DEF WalRight
  <2> QED
    BY <2>9, <2>10
<1>12. UNCHANGED <<log, synced, promised, later>>
  BY <1>2
<1> QED
  BY <1>9, <1>10, <1>11, <1>12, WalQuiet

LEMMA WalRecoverEnd ==
  ASSUME WalInv, Wal!RecoverEnd
  PROVE  WalInv'
<1>1. /\ step = "recover" /\ at = Len(log) /\ Wal!Exit
      /\ UNCHANGED <<log, synced, db, dbTail, older, promised, later, lost>>
  BY DEF Wal!RecoverEnd, Wal!Text, Wal!Data, Wal!Past
<1>2. WalCommand /\ WalTypes
  BY DEF WalInv
<1>3. cmd.op = "recover"
  BY <1>1, <1>2 DEF WalCommand
<1>4. /\ step' = "idle" /\ cmd' \in WalNow /\ cmd'.op = "none" /\ at' \in 0 .. MaxLog
      /\ inside_tx' \in BOOLEAN /\ pair' = <<>>
  BY <1>1, WalExit
<1>5. WalTypes'
  <2>1. UNCHANGED <<log, synced, db, dbTail, older, promised, later, lost>>
    BY <1>1
  <2> QED
    BY <1>2, <1>4, <2>1 DEF WalTypes, Wal!TypeOK
<1>6. WalCommand'
  BY <1>4 DEF WalCommand
<1>7. ASSUME NEW k \in WalKeys, NEW j \in Nat, WalPlace(k, j), WalPassed(k, j)
      PROVE  WalPassed(k, j)' /\ WalRight(k)'
  <2>1. at > j
    BY <1>1, <1>7, WalFacts DEF WalPlace
  <2>2. k \notin lost => db[k] \in WalGood(k)
    BY <1>1, <1>3, <1>7, <2>1 DEF WalPassed
  <2> QED
    BY <1>1, <1>4, <2>2 DEF WalPassed, WalRight, WalGood
<1>8. UNCHANGED <<log, synced, promised, later>>
  BY <1>1
<1> QED
  BY <1>5, <1>6, <1>7, <1>8, WalQuiet

LEMMA WalStep ==
  ASSUME WalInv, Wal!Next \/ UNCHANGED logged
  PROVE  WalInv'
<1>1. CASE UNCHANGED logged
  <2>1. WalTypes'
    BY <1>1 DEF logged, WalInv, WalTypes, Wal!TypeOK
  <2>2. WalCommand'
    BY <1>1 DEF logged, WalInv, WalCommand, WalGood, WalTried
  <2>3. ASSUME NEW k \in WalKeys, NEW j \in Nat, WalPassed(k, j), WalRight(k)
        PROVE  WalPassed(k, j)' /\ WalRight(k)'
    BY <1>1, <2>3 DEF logged, WalPassed, WalRight, WalGood
  <2> QED
    BY <1>1, <2>1, <2>2, <2>3, WalQuiet DEF logged
<1>2. ASSUME NEW op \in {"write", "write-nosync", "crash-after-wal"}, NEW x \in WalPairs,
             Wal!Start(op, x[1], x[2])
      PROVE  WalInv'
  <2>1. WalPairs \subseteq WalKeys \X WalValues
    BY CoreAssumption DEF CoreAssumption, Wal!ConstantsOK
  <2>2. <<x[1], x[2]>> \in WalPairs
    BY <2>1
  <2> QED
    BY <1>2, <2>2, WalStart
<1> QED
  BY <1>1, <1>2, WalStartRecover, WalLog, WalCrash, WalApplyWrite, WalApplySync, WalRecoverLine,
     WalRecoverEnd, WalKill, WalPowerFailure DEF Wal!Next, Wal!apply_to_db, Wal!cmd_recover

LEMMA WalStarts ==
  ASSUME Wal!Init
  PROVE  WalInv
<1>1. /\ log = <<>> /\ synced = 0 /\ db = [k \in WalKeys |-> 0] /\ dbTail = TRUE /\ older = <<>>
      /\ step = "idle" /\ cmd = [op |-> "none", key |-> 0, val |-> 0]
      /\ at = 0 /\ inside_tx = FALSE /\ pair = <<>>
      /\ promised = [k \in WalKeys |-> 0] /\ later = [k \in WalKeys |-> {}] /\ lost = {}
  BY DEF Wal!Init, Wal!None, Wal!NoCmd, Wal!NoPair
<1>2. MaxLog \in Nat
  BY CoreAssumption DEF CoreAssumption, Wal!ConstantsOK
<1>3. at \in 0 .. MaxLog /\ Len(log) <= MaxLog /\ synced \in 0 .. Len(log) /\ log \in Seq(WalLines)
  BY <1>1, <1>2
<1>4. inside_tx \in BOOLEAN /\ dbTail \in BOOLEAN
  BY <1>1
<1>5. cmd \in WalNow /\ cmd.op = "none"
  BY <1>1 DEF WalNow
<1>6. WalTypes
  <2>1. /\ db \in WalTable /\ promised \in WalTable
        /\ later \in [WalKeys -> SUBSET WalValues]
    BY <1>1 DEF WalTable
  <2>2. step = "idle" /\ older \in Seq(WalTable) /\ pair = <<>> /\ lost \subseteq WalKeys
    BY <1>1
  <2> QED
    BY <1>3, <1>4, <1>5, <2>1, <2>2 DEF WalTypes, Wal!TypeOK, Wal!None, Wal!Table, WalTable
<1>7. WalCommand
  BY <1>1, <1>5 DEF WalCommand
<1>8. \A k \in WalKeys : WalKey(k)
  BY <1>1 DEF WalKey
<1> QED
  BY <1>6, <1>7, <1>8 DEF WalInv

\* The invariant is enough.
LEMMA WalImplies == WalInv => Wal!LogRecovers
<1>1. ASSUME WalInv, step = "idle", NEW k \in WalKeys \ lost, promised[k] # 0
      PROVE  db[k] \in {promised[k], ScannedPairs[<<k, promised[k]>>][2]} \cup later[k]
  <2>1. WalKey(k) /\ cmd.op = "none"
    BY <1>1 DEF WalInv, WalCommand
  <2> QED
    BY <1>1, <2>1 DEF WalKey, WalRight, WalGood
<1> QED
  BY <1>1 DEF Wal!LogRecovers, Wal!None
-----------------------------------------------------------------------------
(* The theorems.                                                           *)

\* A step of MCStores is a step of a program, or leaves it alone.
LEMMA MvccMoves == [Next]_vars => Mvcc!Next \/ UNCHANGED versioned
BY DEF Next, Only, vars
LEMMA ServersMove == [Next]_vars => Servers!Next \/ UNCHANGED served
BY DEF Next, Only, vars
LEMMA WalMoves == [Next]_vars => Wal!Next \/ UNCHANGED logged
BY DEF Next, Only, vars
LEMMA PoliciesMove == [Next]_vars => Policies!Next \/ UNCHANGED replaced
BY DEF Next, Only, vars
LEMMA TrackerMoves == [Next]_vars => Tracker!Next \/ UNCHANGED tracked
BY DEF Next, Only, vars
LEMMA PoolMoves == [Next]_vars => Memory!PoolNext \/ UNCHANGED pieces
BY DEF Next, Only, vars
LEMMA ManagerMoves == [Next]_vars => Memory!PagesNext \/ UNCHANGED paged
BY DEF Next, Only, vars
LEMMA BlocksMove == [Next]_vars => Blocks!Next \/ UNCHANGED storage
BY DEF Next, Only, vars
LEMMA FilesMove == [Next]_vars => Files!Next \/ UNCHANGED cached
BY DEF Next, Only, vars
LEMMA LruMoves == [Next]_vars => Lru!Next \/ UNCHANGED linked
BY DEF Next, Only, vars
LEMMA MapMoves == [Next]_vars => Conc!Next \/ UNCHANGED mapped
BY DEF Next, Only, vars
LEMMA TableMoves == [Next]_vars => Hash!Next \/ UNCHANGED chained
BY DEF Next, Only, vars
LEMMA StringsMove == [Next]_vars => Strings!Next \/ UNCHANGED stringed
BY DEF Next, Only, vars
-----------------------------------------------------------------------------
\* The multi-version store, for any number of threads, keys, operations, nodes and
\* seconds: racing insertions never make the list turn back on itself, the
\* versions of a node are newest first, whoever added them and whatever was
\* rolled back, and a committed transaction is in the log in one piece.
THEOREM VersionsAreSound == Spec => []MvccSound
<1>1. Init => MvInv
  BY MvStarts DEF Init
<1>2. MvInv /\ [Next]_vars => MvInv'
  BY MvStep, MvccMoves
<1>3. MvInv => MvccSound
  BY MvImplies DEF MvccSound
<1> QED
  BY <1>1, <1>2, <1>3, PTL DEF Spec

\* Rollback, for any numbers of keys, nodes and operations: if the transaction has
\* recorded all of its writes, each node has the versions it had when the
\* transaction began, and a node that it added has none, whatever is in the list
\* that the racing threads left behind.
THEOREM RollbackUndoesAll == Spec => RollbackRestores
<1> DEFINE Inv == MvInv /\ RbInv
<1>1. Init => Inv
  BY MvStarts, RbStarts DEF Init
<1>2. Inv /\ [Next]_vars => Inv'
  BY MvStep, RbStep, MvccMoves
<1>3. Inv => [program = "mvcc" => Mvcc!RollbackUndoes]_vars
  BY RbImplies
<1> QED
  BY <1>1, <1>2, <1>3, PTL DEF Spec, RollbackRestores

\* The key-value servers, for any number of clients of each of the three, any
\* keys and values and any room: where SET takes a lock, no two SETs ever write
\* one slot at a time.  As long as none have done so in dynamicLIB, which takes no
\* lock, what holds of all three is that no key has two pairs, an acknowledged
\* one is kept unless the store was full, and a GET answers with halves of values
\* of its own key, and with the last value, whole, unless a SET of that key ran
\* into it.
THEOREM PairsAreKept == Spec => []KvSound
<1>1. Init => KvInv
  BY KvStarts DEF Init
<1>2. KvInv /\ [Next]_vars => KvInv'
  BY KvStep, ServersMove
<1>3. KvInv => KvSound
  BY KvImplies DEF KvSound
<1> QED
  BY <1>1, <1>2, <1>3, PTL DEF Spec

\* The write-ahead log, for any keys and values, with blanks and BEGINs in them,
\* and a log of any length: between commands, and wherever the machine or the
\* process failed, also during an earlier recovery, the database has for every key
\* the value of the last synced transaction that recover can read, or what sscanf
\* leaves of it, or one tried later.  It is not claimed of the keys whose last
\* line the database has missed since the last recovery began; a recovery that
\* runs to its end leaves only those whose own line it failed to write, or wrote
\* behind a piece of a line.
THEOREM LogIsReplayed == Spec => []LogRecovers
<1>1. Init => WalInv
  BY WalStarts DEF Init
<1>2. WalInv /\ [Next]_vars => WalInv'
  BY WalStep, WalMoves
<1>3. WalInv => LogRecovers
  BY WalImplies DEF LogRecovers
<1> QED
  BY <1>1, <1>2, <1>3, PTL DEF Spec

\* The page replacement policies, for any number of pages, frames and requests:
\* LRU has exactly the MAX_FRAMES pages that were used last, no policy evicts
\* while there is room, nor the page just requested, no page is in two frames,
\* and each page that was requested is in one of ARC's lists, once, with no more
\* in memory than fits but for the replacements that found T2 empty.
THEOREM PagesAreKept == Spec => []PoliciesSound
<1>1. Init => PrInv
  BY PrStarts DEF Init
<1>2. PrInv /\ [Next]_vars => PrInv'
  BY PrStep, PoliciesMove
<1>3. PrInv => PoliciesSound
  BY PrImplies DEF PoliciesSound
<1> QED
  BY <1>1, <1>2, <1>3, PTL DEF Spec

\* The allocators, for any addresses, sizes, pool and number of pages: the leak
\* report lists exactly what is allocated and has a node, also after addresses
\* were given out again, and no pointer of main's dangles; the blocks of the
\* pool tile it, free neighbours merged, and each pointer handed out has a
\* block that is large enough; find_free_block finds the lowest run of free
\* pages, and none only if there is none.
THEOREM AllocationsAreSound == Spec => []AllocatorsSound
<1> DEFINE Inv == TkInv /\ AlInv /\ PgInv
<1>1. Init => Inv
  BY TkStarts, AlStarts, PgStarts DEF Init
<1>2. Inv /\ [Next]_vars => Inv'
  BY TkStep, AlStep, PgStep, TrackerMoves, PoolMoves, ManagerMoves
<1>3. Inv => AllocatorsSound
  BY TkImplies, AlImplies, PgImplies DEF AllocatorsSound
<1> QED
  BY <1>1, <1>2, <1>3, PTL DEF Spec

\* The buffers of the caches, for any numbers of buffers, blocks, files and
\* nodes and any hash function: each call of the block cache gives back the
\* buffer that it took, also when the disk fails it; each buffer of the file
\* cache is in the free list, once, or belongs to one cached file, whatever is
\* read, fails or is evicted; and the string cache counts the nodes it allocated,
\* within its capacity, although it leaves nodes of evicted keys in its chains.
THEOREM BuffersAreKept == Spec => []BuffersKept
<1> DEFINE Inv == BcPoolInv /\ FcInv /\ ScInv
<1>1. Init => Inv
  BY BcPoolStarts, FcStarts, ScStarts DEF Init
<1>2. Inv /\ [Next]_vars => Inv'
  BY BcPoolStep, FcStep, ScStep, BlocksMove, FilesMove, StringsMove
<1>3. Inv => BuffersKept
  BY BcPoolImplies, FcPartition, ScImplies DEF BuffersKept
<1> QED
  BY <1>1, <1>2, <1>3, PTL DEF Spec

\* What the caches answer, for any numbers of blocks, files, entries and buffers,
\* any hash functions and a disk that may fail: read_block returns what was
\* written last of a block, unless the disk refused it, also where the cache has
\* the block more than once and evicts some of its entries; a hit of the file
\* cache is the text of a file whose stored name is the one asked for, so of that
\* file itself unless a longer name of its bucket is cut to it, and no file is
\* there twice under its own name.
THEOREM ReadsAreRight == Spec => []ReadsRight
<1> DEFINE Inv == BcInv /\ FcInv
<1>1. Init => Inv
  BY BcStarts, FcStarts DEF Init
<1>2. Inv /\ [Next]_vars => Inv'
  BY BcStep, FcStep, BlocksMove, FilesMove
<1>3. Inv => ReadsRight
  BY BcReads, FcHitsOwn DEF ReadsRight
<1> QED
  BY <1>1, <1>2, <1>3, PTL DEF Spec

\* The lists of the caches, for any numbers of blocks, keys, entries and nodes:
\* the list in order of use of either cache is linked both ways and has exactly
\* what is allocated, and the hash chains have each of it once, in the bucket of
\* its key.  Nothing leaks, and no entry of lrucache.c points to a freed node,
\* also with a capacity of 0, where a new node is dropped at once.
THEOREM LinksAreSound == Spec => []LinksSound
<1> DEFINE Inv == LcInv /\ BcInv
<1>1. Init => Inv
  BY LcStarts, BcStarts DEF Init
<1>2. Inv /\ [Next]_vars => Inv'
  BY LcStep, BcStep, LruMoves, BlocksMove
<1>3. Inv => LinksSound
  BY LcImplies, BcAgree DEF LinksSound
<1> QED
  BY <1>1, <1>2, <1>3, PTL DEF Spec

\* The thread-safe hash map implements a map, for any numbers of threads, keys,
\* values and buckets and any hash function: whatever the interleaving, each
\* insertion takes effect at once and none is lost, though it links its node to
\* the chain it has seen before, and a lookup answers as of one moment.
THEOREM MapIsAtomic == Spec => Conc!IsMap
<1>1. Init => CmInv /\ Conc!Map!Init
  BY CmStarts DEF Init
<1>2. CmInv /\ [Next]_vars => CmInv' /\ Conc!Map!Step
  BY CmStep, MapMoves
<1> QED
  BY <1>1, <1>2, PTL DEF Spec, Conc!IsMap, Conc!Map!Spec

\* The hash table implements a map too, for any keys, values, size and hash
\* function, up to the first insertion that links a freed node: updating the last
\* node of a chain and removing from within one never disturb another key.
THEOREM TableIsMap == Spec => Hash!IsMap
<1>1. Init => HtInv /\ Hash!Map!Init
  BY HtStarts DEF Init
<1>2. HtInv /\ [Next]_vars => HtInv' /\ Hash!Map!Step
  BY HtStep, TableMoves
<1> QED
  BY <1>1, <1>2, PTL DEF Spec, Hash!IsMap, Hash!Map!Spec
=============================================================================
