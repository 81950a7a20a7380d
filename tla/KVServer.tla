------------------------------ MODULE KVServer ------------------------------
(***************************************************************************)
(* The key-value servers on a Unix socket: one thread per client over one  *)
(* array of pairs.  There are three of them: KeyValueStored, which locks   *)
(* set_value but not get_value, staticLIB, whose library locks both, and   *)
(* dynamicLIB, whose library locks neither, so that two SETs may write one *)
(* slot at a time.                                                         *)
(*                                                                         *)
(* A value is two cells, copied one after the other, so that a copy can be *)
(* overtaken half-way; a cell says which key it was written for.           *)
(***************************************************************************)
EXTENDS Integers, Sequences, FiniteSetsExt

CONSTANTS Kinds,        \* the servers to be run
          Clients,      \* clients of one server
          Keys, Values,
          MAX_ITEMS     \* pairs each of the three has room for

VARIABLES kind,         \* which server it is
          store,        \* store[i] = [key, val], the first store_count in use
          store_count,
          lock,         \* who holds the mutex
          h,            \* the thread of each client, with its client's end
          acked,        \* history: keys whose SET was answered with OK
          latest,       \* history: the value last copied in for a key
          race          \* history: "clash" once two SETs have written one slot at a time,
                        \* "wild" once that has led out of the array

vars == <<kind, store, store_count, lock, h, acked, latest, race>>

Nobody == 0
NULL   == 0
Blank  == <<0, 0>>
Cell   == {Blank} \cup (Keys \X Values)
Idle   == [pc |-> "closed", key |-> 0, val |-> 0, slot |-> NULL, new |-> FALSE,
           out |-> <<Blank, Blank>>, overlapped |-> FALSE, gone |-> FALSE]

ConstantsOK ==
  /\ Kinds \subseteq {"shared", "static", "dynamic"}
  /\ MAX_ITEMS \in [Kinds -> Nat] /\ Nobody \notin Clients

TypeOK ==
  /\ kind \in Kinds
  /\ store \in [1 .. MAX_ITEMS[kind] -> [key : Keys \cup {0}, val : Cell \X Cell]]
  /\ store_count \in 0 .. MAX_ITEMS[kind]
  /\ lock \in Clients \cup {Nobody}
  /\ h \in [Clients -> [pc : {"closed", "hello", "read", "set", "copy", "copied", "ok", "get", "send",
                              "sent", "value", "error", "bye"},
                        key : Keys \cup {0}, val : Values \cup {0}, slot : 0 .. MAX_ITEMS[kind],
                        new : BOOLEAN, out : Cell \X Cell, overlapped : BOOLEAN, gone : BOOLEAN]]
  /\ acked \subseteq Keys
  /\ race \in {"none", "clash", "wild"}

\* The server as it starts, with nothing stored.
Started ==
  /\ store' = [i \in 1 .. MAX_ITEMS[kind] |-> [key |-> 0, val |-> <<Blank, Blank>>]]
  /\ store_count' = 0 /\ lock' = Nobody
  /\ h' = [c \in Clients |-> Idle]
  /\ acked' = {} /\ latest' = [k \in Keys |-> Blank] /\ race' = "none"

Init ==
  /\ kind \in Kinds
  /\ store = [i \in 1 .. MAX_ITEMS[kind] |-> [key |-> 0, val |-> <<Blank, Blank>>]]
  /\ store_count = 0 /\ lock = Nobody
  /\ h = [c \in Clients |-> Idle]
  /\ acked = {} /\ latest = [k \in Keys |-> Blank] /\ race = "none"
-----------------------------------------------------------------------------
(* What the three do differently.                                          *)

\* Mutant: set_value does not lock.
NoLocks == {}

SharedLocks  == {"set"}
StaticLocks  == {"set", "get"}
DynamicLocks == {}

\* A call that locks waits until nobody else does.
MayEnter(op, locks) == op \in locks => lock = Nobody
-----------------------------------------------------------------------------
(* set_value.                                                              *)

SlotOf(k) == LET is == {i \in 1 .. store_count : store[i].key = k}
             IN  IF is = {} THEN NULL ELSE Min(is)

Goto(c, label) == h' = [h EXCEPT ![c].pc = label]

Writing(d, slot) == h[d].pc \in {"copy", "copied"} /\ h[d].slot = slot

\* The slot to be written: the key's own, or the first free one; with the
\* store full nothing is written.
SetFind(c, locks) ==
  LET old  == SlotOf(h[c].key)
      slot == IF old # NULL THEN old
              ELSE IF store_count < MAX_ITEMS[kind] THEN store_count + 1 ELSE NULL
  IN  /\ h[c].pc = "set" /\ MayEnter("set", locks)
      /\ h' = [h EXCEPT ![c].slot = slot, ![c].new = old = NULL /\ slot # NULL,
                        ![c].pc = IF slot = NULL THEN "ok" ELSE "copy"]
      /\ lock' = IF "set" \in locks /\ slot # NULL THEN c ELSE lock
      /\ race' = IF slot # NULL /\ \E d \in Clients : Writing(d, slot) THEN "clash" ELSE race
      /\ UNCHANGED <<kind, store, store_count, acked, latest>>

Overlap(slot) == [d \in Clients |-> IF h[d].slot = slot /\ h[d].pc \in {"send", "sent", "value"}
                                    THEN [h[d] EXCEPT !.overlapped = TRUE] ELSE h[d]]

\* Where a new pair goes: store[count] is an access of its own each time, and
\* a compiler may also keep count.  They differ only after a clash.
Targets(c) == IF h[c].new THEN {h[c].slot, store_count + 1} ELSE {h[c].slot}

\* An access behind the end of the array: what the server does then is undefined.
Overrun == race' = "wild" /\ UNCHANGED <<kind, store, store_count, lock, h, acked, latest>>

Given(c) == <<h[c].key, h[c].val>>

\* The store with the key in slot s, if it is new, and half of the value in t.
HalfCopied(c, s, t) ==
  [i \in DOMAIN store |->
     [key |-> IF h[c].new /\ i = s THEN h[c].key ELSE store[i].key,
      val |-> IF i = t THEN <<Given(c), store[i].val[2]>> ELSE store[i].val]]

\* Mutant: the pair is counted before its value is copied.
CopyFirstCounted(c) ==
  LET s == h[c].slot
  IN  /\ h[c].pc = "copy"
      /\ store' = HalfCopied(c, s, s)
      /\ store_count' = Max({store_count, s})
      /\ h' = [Overlap(s) EXCEPT ![c].pc = "copied"]
      /\ UNCHANGED <<kind, lock, acked, latest, race>>

\* strncpy of the key, where it is new, and of the first half of the value.
CopyFirst(c) ==
  /\ h[c].pc = "copy"
  /\ \E s, t \in Targets(c) :
       IF s > MAX_ITEMS[kind] \/ t > MAX_ITEMS[kind] THEN Overrun
       ELSE /\ store' = HalfCopied(c, s, t)
            /\ h' = [Overlap(t) EXCEPT ![c].pc = "copied", ![c].slot = t]
            /\ UNCHANGED <<kind, store_count, lock, acked, latest, race>>

\* The second half; a new pair is counted, and the lock given back.  count++
\* may lose the count of another thread.
CopySecond(c) ==
  /\ h[c].pc = "copied"
  /\ \E n \in IF h[c].new THEN Targets(c) ELSE {store_count} :
       IF n > MAX_ITEMS[kind] THEN Overrun
       ELSE /\ store' = [store EXCEPT ![h[c].slot].val[2] = Given(c)]
            /\ store_count' = n
            /\ lock' = IF lock = c THEN Nobody ELSE lock
            /\ h' = [Overlap(h[c].slot) EXCEPT ![c].pc = "ok"]
            /\ latest' = [latest EXCEPT ![h[c].key] = Given(c)]
            /\ UNCHANGED <<kind, acked, race>>
-----------------------------------------------------------------------------
(* get_value, which returns a pointer into the store, and dprintf, which   *)
(* reads through it with no lock held.                                     *)

GetFind(c, locks) ==
  LET slot == SlotOf(h[c].key)
  IN  /\ h[c].pc = "get" /\ MayEnter("get", locks)
      /\ h' = [h EXCEPT ![c].slot = slot, ![c].pc = IF slot = NULL THEN "value" ELSE "send",
                        ![c].overlapped = \E d \in Clients : h[d].pc = "copied" /\ h[d].slot = slot]
      /\ UNCHANGED <<kind, store, store_count, lock, acked, latest, race>>

SendHalf(c, i, from, to) ==
  /\ h[c].pc = from
  /\ h' = [h EXCEPT ![c].out[i] = store[h[c].slot].val[i], ![c].pc = to]
  /\ UNCHANGED <<kind, store, store_count, lock, acked, latest, race>>
-----------------------------------------------------------------------------
(* client_handler.                                                         *)

\* The greeting and the answers.  A write to a client that has gone raises
\* SIGPIPE, which ends the server.
Answer(c) ==
  /\ h[c].pc \in {"hello", "ok", "value", "error"} \/ (h[c].pc = "bye" /\ h[c].gone)
  /\ IF h[c].gone THEN Started
     ELSE /\ h' = [h EXCEPT ![c] = [Idle EXCEPT !.pc = "read"]]
          /\ acked' = IF h[c].pc = "ok" THEN acked \cup {h[c].key} ELSE acked
          /\ UNCHANGED <<store, store_count, lock, latest, race>>
  /\ UNCHANGED kind

\* EXIT, which is answered first, or read returning 0.
Close(c) ==
  /\ \/ h[c].pc = "read" /\ h[c].gone
     \/ h[c].pc = "bye" /\ ~h[c].gone
  /\ h' = [h EXCEPT ![c] = Idle]
  /\ UNCHANGED <<kind, store, store_count, lock, acked, latest, race>>

Handler(c, locks) ==
  \/ SetFind(c, locks) \/ CopyFirst(c) \/ CopySecond(c)
  \/ GetFind(c, locks) \/ SendHalf(c, 1, "send", "sent") \/ SendHalf(c, 2, "sent", "value")
  \/ Answer(c) \/ Close(c)

shared_client_handler(c)  == kind = "shared" /\ Handler(c, SharedLocks)
static_client_handler(c)  == kind = "static" /\ Handler(c, StaticLocks)
dynamic_client_handler(c) == kind = "dynamic" /\ Handler(c, DynamicLocks)
-----------------------------------------------------------------------------
(* main, the signals and the clients.                                      *)

\* A thread for each connection.
Accept(c) ==
  /\ h[c].pc = "closed"
  /\ Goto(c, "hello")
  /\ UNCHANGED <<kind, store, store_count, lock, acked, latest, race>>

shared_main(c)  == kind = "shared" /\ Accept(c)
static_main(c)  == kind = "static" /\ Accept(c)
dynamic_main(c) == kind = "dynamic" /\ Accept(c)

\* SIGINT or SIGTERM; what was stored is lost, and the server may be started
\* again.
on_signal == Started /\ UNCHANGED kind

\* A client sends one line and waits for the answer.
Request(c) ==
  /\ h[c].pc = "read" /\ ~h[c].gone
  /\ \E k \in Keys : \/ \E v \in Values :
                          h' = [h EXCEPT ![c].pc = "set", ![c].key = k, ![c].val = v]
                     \/ h' = [h EXCEPT ![c].pc = "get", ![c].key = k]
     \/ Goto(c, "error")
     \/ Goto(c, "bye")
  /\ UNCHANGED <<kind, store, store_count, lock, acked, latest, race>>

\* A client closes its end without EXIT.
Leave(c) ==
  /\ h[c].pc # "closed" /\ ~h[c].gone
  /\ h' = [h EXCEPT ![c].gone = TRUE]
  /\ UNCHANGED <<kind, store, store_count, lock, acked, latest, race>>

Next ==
  \/ /\ race # "wild"
     /\ \E c \in Clients : \/ shared_client_handler(c) \/ static_client_handler(c)
                           \/ dynamic_client_handler(c)
                           \/ shared_main(c) \/ static_main(c) \/ dynamic_main(c)
                           \/ Request(c) \/ Leave(c)
  \/ on_signal
-----------------------------------------------------------------------------
(* Properties.                                                             *)

\* With a lock no two SETs ever write one slot at a time.  dynamicLIB has none,
\* and two SETs of a new key, or of one key, may then clash: what follows is
\* claimed of it only until that happens.
NoClash == race # "none" => kind = "dynamic"

\* A key has one pair, and one that was acknowledged is there unless the store
\* was full, in which case set_value drops it and OK is answered all the same.
PairsKept ==
  race = "none" =>
    /\ \A i, j \in 1 .. store_count : store[i].key = store[j].key => i = j
    /\ \A k \in acked : SlotOf(k) # NULL \/ store_count = MAX_ITEMS[kind]

\* A GET that finds its key answers with halves of values of that key, and
\* with the last value, whole, unless a SET of the key ran into it.
ValuesRight ==
  race = "none" =>
    \A c \in Clients :
      h[c].pc = "value" /\ h[c].slot # NULL =>
        /\ \A i \in 1 .. 2 : h[c].out[i] \in {h[c].key} \X Values
        /\ ~h[c].overlapped => h[c].out = <<latest[h[c].key], latest[h[c].key]>>

Sound == NoClash /\ PairsKept /\ ValuesRight
=============================================================================
