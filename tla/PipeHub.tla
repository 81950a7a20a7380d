------------------------------- MODULE PipeHub -------------------------------
(***************************************************************************)
(* IPCs/Poll: a parent polls for one message of its child until the child  *)
(* hangs up, over a named pipe (hub_pipe.c) or a socket (pollhup_socket.c). *)
(***************************************************************************)
EXTENDS Integers

CONSTANT Kinds        \* of "pipe", "socket"

VARIABLES kind, parent, child,
          channel,    \* messages written and not read
          revents,    \* what the last poll returned
          shown       \* messages the parent has shown

vars == <<kind, parent, child, channel, revents, shown>>

ConstantsOK == Kinds \subseteq {"pipe", "socket"}

TypeOK ==
  /\ kind \in Kinds
  /\ parent \in {"start", "accept", "poll", "read", "hup", "left"}
  /\ child \in {"start", "open", "written", "closed", "failed"}
  /\ channel \in {0, 1} /\ shown \in {0, 1}
  /\ revents \subseteq {"POLLIN", "POLLHUP"}

Init ==
  /\ kind \in Kinds
  /\ parent = "start" /\ child = "start"
  /\ channel = 0 /\ revents = {} /\ shown = 0

\* open with O_NONBLOCK does not wait; a socket has to be accepted first.
ParentOpen ==
  /\ \/ parent = "start" /\ parent' = IF kind = "pipe" THEN "poll" ELSE "accept"
     \/ parent = "accept" /\ child \notin {"start", "failed"} /\ parent' = "poll"
  /\ UNCHANGED <<kind, child, channel, revents, shown>>

\* The child's open waits for the reader; its connect fails when it comes
\* before listen, which sleep makes rare and does not rule out.
ChildOpen ==
  /\ child = "start"
  /\ \/ parent # "start" /\ child' = "open"
     \/ kind = "socket" /\ parent = "start" /\ child' = "failed"
  /\ UNCHANGED <<kind, parent, channel, revents, shown>>

ChildWrite ==
  /\ child = "open" /\ child' = "written"
  /\ channel' = 1
  /\ UNCHANGED <<kind, parent, revents, shown>>

ChildClose ==
  /\ child = "written" /\ child' = "closed"
  /\ UNCHANGED <<kind, parent, channel, revents, shown>>

\* poll: a pipe whose writer has gone hangs up; a socket that was closed on the
\* other side only can be read, to its end.
Events ==
  {e \in {"POLLIN", "POLLHUP"} :
     \/ e = "POLLIN" /\ (channel > 0 \/ (kind = "socket" /\ child = "closed"))
     \/ e = "POLLHUP" /\ kind = "pipe" /\ child = "closed"}

\* A timeout with no event goes round again.
Poll ==
  /\ parent = "poll"
  /\ revents' = Events
  /\ parent' = IF Events = {} THEN "poll" ELSE "read"
  /\ UNCHANGED <<kind, child, channel, shown>>

\* Mutant: a hangup is looked at first.
ReadLate ==
  /\ parent = "read"
  /\ IF "POLLIN" \in revents /\ "POLLHUP" \notin revents
     THEN shown' = shown + channel /\ channel' = 0
          /\ parent' = IF channel = 0 THEN "left" ELSE "hup"
     ELSE parent' = "hup" /\ UNCHANGED <<channel, shown>>
  /\ UNCHANGED <<kind, child, revents>>

\* The end of a socket is a read of nothing, which leaves the loop.
Read ==
  /\ parent = "read"
  /\ IF "POLLIN" \in revents
     THEN /\ shown' = shown + channel /\ channel' = 0
          /\ parent' = IF channel = 0 /\ kind = "socket" THEN "left" ELSE "hup"
     ELSE parent' = "hup" /\ UNCHANGED <<channel, shown>>
  /\ UNCHANGED <<kind, child, revents>>

Hangup ==
  /\ parent = "hup"
  /\ parent' = IF "POLLHUP" \in revents THEN "left" ELSE "poll"
  /\ UNCHANGED <<kind, child, channel, revents, shown>>

ParentStep == ParentOpen \/ Poll \/ Read \/ Hangup
ChildStep  == ChildOpen \/ ChildWrite \/ ChildClose

Next == ParentStep \/ ChildStep
-----------------------------------------------------------------------------
(* Properties.                                                             *)

\* The parent does not leave before it has shown the message, also when data
\* and hangup come in one poll.
ShownFirst == parent = "left" => shown = 1

\* A child that got through ends the parent's wait.
Through == child = "open"
Left    == parent = "left"
=============================================================================
