------------------------------ MODULE ChatQueue ------------------------------
(***************************************************************************)
(* IPCs/SharedMemory/Chat: chata.c and chatb.c take turns over one System  *)
(* V queue, with messages of type 1 for B and of type 2 for A.  A creates  *)
(* the queue and removes it when it leaves.  Type, and whether the text is *)
(* "exit", are all that matters of a message but its place.                *)
(***************************************************************************)
EXTENDS Integers, Sequences, SequencesExt

CONSTANT MaxTurns      \* bound: what each side says before "exit"

VARIABLES queue,       \* whether it is there, and its messages [type, text]
          a, b,        \* where the two are
          said, heard  \* history: what each said, and what it heard

vars == <<queue, a, b, said, heard>>

Types == {1, 2}

TypeOK ==
  /\ queue.there \in BOOLEAN
  /\ \A i \in DOMAIN queue.messages : queue.messages[i].type \in Types
  /\ a \in {"start", "say", "check", "listen", "remove", "left", "failed"}
  /\ b \in {"start", "listen", "say", "left", "failed"}

Init ==
  /\ queue = [there |-> FALSE, messages |-> <<>>]
  /\ a = "start" /\ b = "start"
  /\ said = [t \in Types |-> <<>>] /\ heard = [t \in Types |-> <<>>]

\* msgsnd of a text the user types; said[t] are the messages of type t.
Send(t, text) ==
  /\ queue' = [queue EXCEPT !.messages = Append(@, [type |-> t, text |-> text])]
  /\ said' = [said EXCEPT ![t] = Append(@, text)]
  /\ UNCHANGED heard

Typed(t) == IF Len(said[t]) < MaxTurns THEN {"hello", "exit"} ELSE {"exit"}

\* msgrcv takes the first message of the type, and waits while there is none.
Receive(t, text) ==
  LET is == {i \in DOMAIN queue.messages : queue.messages[i].type = t}
  IN  \E i \in is :
        /\ \A j \in is : i <= j
        /\ text = queue.messages[i].text
        /\ queue' = [queue EXCEPT !.messages = RemoveAt(@, i)]
        /\ heard' = [heard EXCEPT ![t] = Append(@, text)]
        /\ UNCHANGED said

chata ==
  /\ \/ /\ a = "start" /\ a' = "say"      \* msgget with IPC_CREAT
        /\ queue' = [queue EXCEPT !.there = TRUE]
        /\ UNCHANGED <<said, heard>>
     \/ /\ a = "say"
        /\ \E text \in Typed(1) :
             Send(1, text) /\ a' = IF text = "exit" THEN "remove" ELSE "listen"
     \/ /\ a = "listen"
        /\ \E text \in {"hello", "exit"} :
             Receive(2, text) /\ a' = IF text = "exit" THEN "remove" ELSE "say"
     \/ /\ a = "remove" /\ a' = "left"    \* msgctl IPC_RMID
        /\ queue' = [there |-> FALSE, messages |-> <<>>]
        /\ UNCHANGED <<said, heard>>
  /\ UNCHANGED b

\* Mutant: B does not set the type of its answer.
AnswerTypeUnset == 1

AnswerType == 2

\* Without a queue msgget, msgsnd and a waiting msgrcv fail.
chatb ==
  /\ \/ b = "start" /\ queue.there /\ b' = "listen" /\ UNCHANGED <<queue, said, heard>>
     \/ b \in {"start", "listen", "say"} /\ ~queue.there /\ b' = "failed"
        /\ UNCHANGED <<queue, said, heard>>
     \/ /\ b = "listen" /\ queue.there
        /\ \E text \in {"hello", "exit"} :
             Receive(1, text) /\ b' = IF text = "exit" THEN "left" ELSE "say"
     \/ /\ b = "say" /\ queue.there
        /\ \E text \in Typed(AnswerType) :
             Send(AnswerType, text) /\ b' = IF text = "exit" THEN "left" ELSE "listen"
  /\ UNCHANGED a

Next == chata \/ chatb
-----------------------------------------------------------------------------
(* Properties.                                                             *)

\* Each side hears what the other said, in order and once, and the two take
\* turns: A is never more than one message ahead.
TurnsTaken ==
  /\ \A t \in Types : IsPrefix(heard[t], said[t])
  /\ Len(said[2]) <= Len(said[1]) /\ Len(said[1]) <= Len(said[2]) + 1

\* Once B has found the queue, both come to an end; what A says last may be
\* gone with the queue, which B then reports.
Over == a = "left" /\ b \in {"left", "failed"}
=============================================================================
