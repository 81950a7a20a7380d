----------------------------- MODULE ShmMessage -----------------------------
(***************************************************************************)
(* A message in shared memory behind a flag: shmWriter.c and shmReader.c,  *)
(* separate programs on a segment that outlives them, and shmForkDemo.c,   *)
(* a parent and its child on a segment of their own.  The text is two      *)
(* cells, copied one after the other.                                      *)
(***************************************************************************)
EXTENDS Integers, Sequences

CONSTANTS Texts,        \* messages, positive numbers
          MaxRuns       \* bound: runs of shmWriter

VARIABLES mode,         \* which programs
          segment,      \* the shared memory, or <<>> while there is none
          writer, text, runs,   \* the writer, its message, and which run it is
          reader, got, length,  \* the reader, and what it has read
          seen          \* history: the run the reader saw the flag of, 0 once another began

vars == <<mode, segment, writer, text, runs, reader, got, length, seen>>

ConstantsOK == Texts \subseteq Nat \ {0} /\ Texts # {} /\ MaxRuns \in Nat \ {0}

TypeOK ==
  /\ mode \in {"programs", "fork"}
  /\ segment = <<>> \/ segment \in [ready : {0, 1}, text : [1 .. 2 -> Texts \cup {0}],
                                    length : Texts \cup {0}]
  /\ writer \in {"start", "attached", "copy", "copied", "publish", "wait", "done", "died"}
  /\ reader \in {"start", "waiting", "read", "reading", "done", "died"}
  /\ text \in Texts /\ runs \in 0 .. MaxRuns
  /\ got \in [1 .. 2 -> Texts \cup {0}] /\ length \in Texts \cup {0} /\ seen \in 0 .. MaxRuns

Zeros == [ready |-> 0, text |-> <<0, 0>>, length |-> 0]

\* shmForkDemo clears the flag before it forks.
Init ==
  /\ mode \in {"programs", "fork"}
  /\ segment = IF mode = "fork" THEN Zeros ELSE <<>>
  /\ writer = (IF mode = "fork" THEN "copy" ELSE "start")
  /\ reader = "start"
  /\ text \in Texts
  /\ runs = IF mode = "fork" THEN 1 ELSE 0
  /\ got = <<0, 0>> /\ length = 0 /\ seen = 0

Quiet == <<mode, text, runs, reader, got, length, seen>>
-----------------------------------------------------------------------------
(* Writers.  The message ends with its length.                             *)

\* shmget: the segment of an earlier run is found as it was left.
Attach ==
  /\ writer = "start" /\ runs < MaxRuns
  /\ segment' = IF segment = <<>> THEN Zeros ELSE segment
  /\ text' \in Texts
  /\ runs' = runs + 1
  /\ writer' = "attached"
  /\ UNCHANGED <<mode, reader, got, length, seen>>

\* Mutant: the flag of an earlier message stays up.
UnreadyNot ==
  /\ writer = "attached" /\ writer' = "copy"
  /\ UNCHANGED <<segment, mode, text, runs, reader, got, length, seen>>

Unready ==
  /\ writer = "attached" /\ writer' = "copy"
  /\ segment' = [segment EXCEPT !.ready = 0]
  /\ seen' = 0
  /\ UNCHANGED <<mode, text, runs, reader, got, length>>

\* Mutant: the flag is up before the message is complete.
CopyEarly ==
  \/ /\ writer = "copy" /\ writer' = "copied"
     /\ segment' = [segment EXCEPT !.text[1] = text, !.ready = 1]
     /\ UNCHANGED Quiet
  \/ /\ writer = "copied" /\ writer' = "publish"
     /\ segment' = [segment EXCEPT !.text[2] = text, !.length = text]
     /\ UNCHANGED Quiet

Copy ==
  \/ /\ writer = "copy" /\ writer' = "copied"
     /\ segment' = [segment EXCEPT !.text[1] = text]
     /\ UNCHANGED Quiet
  \/ /\ writer = "copied" /\ writer' = "publish"
     /\ segment' = [segment EXCEPT !.text[2] = text, !.length = text]
     /\ UNCHANGED Quiet

Publish(next) ==
  /\ writer = "publish" /\ writer' = next
  /\ segment' = [segment EXCEPT !.ready = 1]
  /\ UNCHANGED Quiet

\* The next run may follow.
shm_writer == mode = "programs" /\ (Attach \/ Unready \/ Copy \/ Publish("start"))

\* wait, then the segment is removed.
ForkEnd ==
  /\ writer = "wait" /\ reader \in {"done", "died"}
  /\ writer' = "done" /\ segment' = <<>>
  /\ UNCHANGED Quiet

fork_parent == mode = "fork" /\ (Copy \/ Publish("wait") \/ ForkEnd)
-----------------------------------------------------------------------------
(* Readers.                                                                *)

\* shmReader dies when no writer has created the segment, and shmat may fail.
ReaderAttach ==
  /\ reader = "start"
  /\ \/ segment # <<>> /\ reader' = "waiting"
     \/ (mode = "programs" => segment = <<>>) /\ reader' = "died"
  /\ UNCHANGED <<segment, writer, mode, text, runs, got, length, seen>>

SeeReady ==
  /\ reader = "waiting" /\ segment.ready = 1
  /\ reader' = "read" /\ seen' = runs
  /\ UNCHANGED <<segment, writer, mode, text, runs, got, length>>

\* printf reads the length first or last, and the text from its start.
ReadMessage ==
  \/ /\ reader = "read" /\ reader' = "reading"
     /\ got' = [got EXCEPT ![1] = segment.text[1]]
     /\ UNCHANGED <<segment, writer, mode, text, runs, length, seen>>
  \/ /\ reader = "reading" /\ reader' = "done"
     /\ got' = [got EXCEPT ![2] = segment.text[2]] /\ length' = segment.length
     /\ UNCHANGED <<segment, writer, mode, text, runs, seen>>

shm_reader == mode = "programs" /\ (ReaderAttach \/ SeeReady \/ ReadMessage)
fork_child == mode = "fork" /\ (ReaderAttach \/ SeeReady \/ ReadMessage)

WriterStep == shm_writer \/ fork_parent
ReaderStep == shm_reader \/ fork_child
Next       == WriterStep \/ ReaderStep
-----------------------------------------------------------------------------
(* Properties.                                                             *)

\* What the reader printed is one whole message, unless another run of the
\* writer cleared the flag after the reader had seen it.
MessageWhole ==
  reader = "done" /\ seen # 0 => got[1] # 0 /\ got[2] = got[1] /\ length = got[1]

\* A reader that has attached comes to an end, and the parent with its child.
Awaited == reader = "waiting" \/ mode = "fork"
Arrived == reader \in {"done", "died"} /\ (mode = "fork" => writer = "done")
=============================================================================
