----------------------------- MODULE FileTransfer -----------------------------
(***************************************************************************)
(* IPCs/SharedMemory/FileTransfer: a sender and a receiver process and two *)
(* named pipes.  The sender writes the file in pieces of MAX cells, then   *)
(* the marker "EOF", and reads an acknowledgment; the receiver reads up to *)
(* MAX cells at a time, and stops at a read that starts with the marker or *)
(* at the end of the pipe.                                                 *)
(*                                                                         *)
(* A cell stands for a few bytes; the marker takes two of them, so that a  *)
(* read can end between them.                                              *)
(***************************************************************************)
EXTENDS Integers, Sequences

CONSTANTS MAX,            \* cells of the buffers
          PipeCapacity,   \* cells the kernel holds
          Cells,          \* contents of a cell
          Files,          \* contents of the file to send
          Failing         \* processes whose fopen may fail

ConstantsOK ==
  /\ MAX \in Nat \ {0} /\ PipeCapacity \in Nat /\ PipeCapacity >= MAX
  /\ Files \subseteq Seq(Cells) /\ Files # {} /\ {"EO", "F"} \subseteq Cells
  /\ Failing \subseteq {"sender", "receiver"}

VARIABLES file,       \* what the sender's file contains
          sentCells,  \* cells of it read and written so far
          fifo1,      \* the pipe to the receiver
          ack,        \* whether fifo2 holds the acknowledgment
          opened,     \* pipes each process has opened
          buffer,     \* the receiver's buffer
          received,   \* what it wrote to received_file.txt
          pc

vars == <<file, sentCells, fifo1, ack, opened, buffer, received, pc>>

Processes == {"sender", "receiver"}
Marker    == <<"EO", "F">>
Gone(p)   == pc[p] \in {"exited", "failed", "killed"}
Least(a, b) == IF a < b THEN a ELSE b

TypeOK ==
  /\ file \in Files
  /\ sentCells \in 0 .. Len(file)
  /\ fifo1 \in Seq(Cells) /\ Len(fifo1) <= PipeCapacity
  /\ ack \in BOOLEAN
  /\ opened \in [Processes -> Seq({"fifo1", "fifo2"})]
  /\ buffer \in [1 .. MAX -> Cells]
  /\ received \in Seq(Cells)
  /\ pc \in [Processes -> {"open", "fopen", "send", "read_ack", "receive",
                           "acknowledge", "exited", "failed", "killed"}]

Init ==
  /\ file \in Files
  /\ sentCells = 0
  /\ fifo1 = <<>>
  /\ ack = FALSE
  /\ opened = [p \in Processes |-> <<>>]
  /\ buffer \in [1 .. MAX -> Cells]   \* not initialized by the code
  /\ received = <<>>
  /\ pc = [p \in Processes |-> "open"]

Goto(p, label) == pc' = [pc EXCEPT ![p] = label]
-----------------------------------------------------------------------------
(* Both: open the pipes, each open waiting for the other end, then fopen.  *)

OpenOrder(p) == <<"fifo1", "fifo2">>

Opening(p) == IF pc[p] = "open" THEN OpenOrder(p)[Len(opened[p]) + 1] ELSE "none"

Open(p) ==
  /\ pc[p] = "open"
  /\ \E q \in Processes \ {p} :
       Opening(q) = Opening(p) \/ Opening(p) \in {opened[q][k] : k \in DOMAIN opened[q]}
  /\ opened' = [opened EXCEPT ![p] = Append(@, Opening(p))]
  /\ Goto(p, IF Len(opened[p]) = 1 THEN "fopen" ELSE "open")
  /\ UNCHANGED <<file, sentCells, fifo1, ack, buffer, received>>

Fopen(p) ==
  /\ pc[p] = "fopen"
  /\ \/ Goto(p, IF p = "sender" THEN "send" ELSE "receive")
     \/ p \in Failing /\ Goto(p, "failed")
  /\ UNCHANGED <<file, sentCells, fifo1, ack, opened, buffer, received>>
-----------------------------------------------------------------------------
(* The sender.                                                             *)

\* Mutant: a short read of the file counts as a full one.
SendCountsMax ==
  LET n == Least(MAX, Len(file) - sentCells)
  IN  /\ pc["sender"] = "send"
      /\ n > 0
      /\ fifo1' = fifo1 \o SubSeq(file, sentCells + 1, sentCells + n)
      /\ sentCells' = sentCells + MAX
      /\ UNCHANGED <<file, ack, opened, buffer, received, pc>>

\* Every write is of at most MAX bytes and so is atomic; it blocks while the
\* pipe has no room, and SIGPIPE ends the writer once the reader is gone.
Send ==
  LET n == Least(MAX, Len(file) - sentCells)
  IN  /\ pc["sender"] = "send"
      /\ n > 0
      /\ \/ /\ Gone("receiver")
            /\ Goto("sender", "killed")
            /\ UNCHANGED <<sentCells, fifo1>>
         \/ /\ ~Gone("receiver") /\ Len(fifo1) + n <= PipeCapacity
            /\ fifo1' = fifo1 \o SubSeq(file, sentCells + 1, sentCells + n)
            /\ sentCells' = sentCells + n
            /\ UNCHANGED pc
      /\ UNCHANGED <<file, ack, opened, buffer, received>>

SendMarker ==
  /\ pc["sender"] = "send"
  /\ sentCells = Len(file)
  /\ \/ Gone("receiver") /\ Goto("sender", "killed") /\ UNCHANGED fifo1
     \/ /\ ~Gone("receiver") /\ Len(fifo1) + Len(Marker) <= PipeCapacity
        /\ fifo1' = fifo1 \o Marker
        /\ Goto("sender", "read_ack")
  /\ UNCHANGED <<file, sentCells, ack, opened, buffer, received>>

ReadAck ==
  /\ pc["sender"] = "read_ack"
  /\ ack \/ Gone("receiver")
  /\ Goto("sender", "exited")
  /\ UNCHANGED <<file, sentCells, fifo1, ack, opened, buffer, received>>
-----------------------------------------------------------------------------
(* The receiver.                                                           *)

\* The buffer after a read of n cells: what follows them is left from before.
Overlay(n) == [k \in 1 .. MAX |-> IF k <= n THEN fifo1[k] ELSE buffer[k]]

\* Mutant: fewer bytes than the marker has are compared.
IsMarkerShort(b) == b[1] = Marker[1]

IsMarker(b) == \A k \in 1 .. Len(Marker) : k <= MAX /\ b[k] = Marker[k]

\* Mutant: the whole buffer is written, not the n cells read.
ReceiveWholeBuffer ==
  LET n == Least(MAX, Len(fifo1))
  IN  /\ pc["receiver"] = "receive"
      /\ n > 0
      /\ buffer' = Overlay(n)
      /\ fifo1' = SubSeq(fifo1, n + 1, Len(fifo1))
      /\ IF IsMarker(buffer')
           THEN Goto("receiver", "acknowledge") /\ UNCHANGED received
           ELSE received' = received \o buffer' /\ UNCHANGED pc
      /\ UNCHANGED <<file, sentCells, ack, opened>>

Receive ==
  LET n == Least(MAX, Len(fifo1))
  IN  /\ pc["receiver"] = "receive"
      /\ n > 0
      /\ buffer' = Overlay(n)
      /\ fifo1' = SubSeq(fifo1, n + 1, Len(fifo1))
      /\ IF IsMarker(buffer')
           THEN Goto("receiver", "acknowledge") /\ UNCHANGED received
           ELSE received' = received \o SubSeq(fifo1, 1, n) /\ UNCHANGED pc
      /\ UNCHANGED <<file, sentCells, ack, opened>>

\* read returns 0: the pipe is empty and its writer gone.
ReceiveEnd ==
  /\ pc["receiver"] = "receive"
  /\ fifo1 = <<>> /\ Gone("sender")
  /\ Goto("receiver", "acknowledge")
  /\ UNCHANGED <<file, sentCells, fifo1, ack, opened, buffer, received>>

Acknowledge ==
  /\ pc["receiver"] = "acknowledge"
  /\ \/ Gone("sender") /\ Goto("receiver", "killed") /\ UNCHANGED ack
     \/ ~Gone("sender") /\ ack' = TRUE /\ Goto("receiver", "exited")
  /\ UNCHANGED <<file, sentCells, fifo1, opened, buffer, received>>
-----------------------------------------------------------------------------
SenderStep   == Open("sender") \/ Fopen("sender") \/ Send \/ SendMarker \/ ReadAck
ReceiverStep ==
  Open("receiver") \/ Fopen("receiver") \/ Receive \/ ReceiveEnd \/ Acknowledge

Done == \A p \in Processes : Gone(p)

Finished == Done /\ UNCHANGED vars

Next == SenderStep \/ ReceiverStep \/ Finished

-----------------------------------------------------------------------------
(* Properties.                                                             *)

Prefix(s, t) == Len(s) <= Len(t) /\ SubSeq(t, 1, Len(s)) = s

\* Until the marker is taken for one, what was received and what is in the
\* pipe are the stream so far, in order: no cell is lost, doubled or stale.
StreamKept ==
  pc["receiver"] = "receive" => Prefix(received \o fifo1, file \o Marker)

\* The file can be told from the marker: it ends where a read ends, and no
\* read of it begins with the marker.
Separable ==
  /\ Len(file) % MAX = 0
  /\ \A k \in 0 .. Len(file) \div MAX - 1 : ~Prefix(Marker, SubSeq(file, k * MAX + 1, k * MAX + MAX))

\* Where the code can tell file and marker apart and no fopen fails, the two
\* processes part company in order: both return, neither is killed, and the
\* received file is the file.
Parted ==
  \/ pc["sender"] = "exited" /\ pc["receiver"] = "exited" /\ received = file
  \/ \E p \in Processes : pc[p] = "failed"
=============================================================================
