----------------------------- MODULE ConnServer -----------------------------
(***************************************************************************)
(* One answer per connection: IPCs/miniServer with a process or a thread   *)
(* for each, and IPCs/checkLatency, which serves MAX_SERVED one after the  *)
(* other and exits.  Descriptors of the server are numbers that are reused *)
(* as soon as they are closed.                                             *)
(***************************************************************************)
EXTENDS Integers, FiniteSets

CONSTANTS Kinds,        \* of "fork", "thread", "serial"
          Connections,  \* those of all clients
          MAX_SERVED

VARIABLES kind,
          conn,         \* of a connection: the client's side, and what it received
          fds,          \* the server's descriptors: descriptor to connection, or None
          client_fd,    \* the main loop's variable; None before accept
          loop,         \* where the main loop is
          task,         \* of the worker for a connection: [at, fd], fd its argument
          served        \* connections accepted

vars == <<kind, conn, fds, client_fd, loop, task, served>>

None == 0
ConstantsOK ==
  /\ Kinds \subseteq {"fork", "thread", "serial"}
  /\ Connections \subseteq Nat \ {None} /\ IsFiniteSet(Connections)
  /\ MAX_SERVED \in Nat \ {0}

Fds == 1 .. Cardinality(Connections)

TypeOK ==
  /\ kind \in Kinds
  /\ conn \in [Connections -> {"none", "sent", "answered", "ended"}]
  /\ fds \in [Fds -> Connections \cup {None}]
  /\ client_fd \in Fds \cup {None}
  /\ loop \in {"accept", "start", "left"}
  /\ task \in [Connections -> [at : {"none", "read", "write", "close", "over"}, fd : Fds \cup {None}]]
  /\ served \in 0 .. Cardinality(Connections)

Init ==
  /\ kind \in Kinds
  /\ conn = [c \in Connections |-> "none"]
  /\ fds = [f \in Fds |-> None] /\ client_fd = None
  /\ loop = "accept"
  /\ task = [c \in Connections |-> [at |-> "none", fd |-> None]]
  /\ served = 0
-----------------------------------------------------------------------------
(* The client: connect, send, recv, close.                                 *)

ClientSend(c) ==
  /\ conn[c] = "none" /\ loop # "left"
  /\ conn' = [conn EXCEPT ![c] = "sent"]
  /\ UNCHANGED <<kind, fds, client_fd, loop, task, served>>

\* recv returns with the answer, or with nothing once the server has closed.
ClientReceive(c) ==
  /\ \/ conn[c] = "answered"
     \/ conn[c] = "sent" /\ task[c].at = "over"
     \/ conn[c] = "sent" /\ loop = "left"
  /\ conn' = [conn EXCEPT ![c] = "ended"]
  /\ UNCHANGED <<kind, fds, client_fd, loop, task, served>>
-----------------------------------------------------------------------------
(* The server.                                                             *)

Lowest(fs) == CHOOSE f \in fs : \A g \in fs : f <= g

Accept(c) ==
  /\ loop = "accept" /\ conn[c] = "sent"
  /\ task[c].at = "none" /\ \A f \in Fds : fds[f] # c
  /\ client_fd' = Lowest({f \in Fds : fds[f] = None})
  /\ fds' = [fds EXCEPT ![client_fd'] = c]
  /\ served' = served + 1
  /\ loop' = "start"
  /\ UNCHANGED <<kind, conn, task>>

\* To a process, to a thread with a copy of client_fd, or to a call.
HandOver(c) == task' = [task EXCEPT ![c] = [at |-> "read", fd |-> client_fd]]

Fork(c) ==
  /\ kind = "fork" /\ loop = "start" /\ fds[client_fd] = c
  /\ \/ HandOver(c)
     \/ task' = [task EXCEPT ![c].at = "over"]     \* fork fails
  /\ fds' = [fds EXCEPT ![client_fd] = None]
  /\ loop' = "accept"
  /\ UNCHANGED <<kind, conn, client_fd, served>>

\* Mutant: the main loop closes the descriptor here too.
ThreadCloses(c) ==
  /\ kind = "thread" /\ loop = "start" /\ fds[client_fd] = c
  /\ HandOver(c)
  /\ fds' = [fds EXCEPT ![client_fd] = None]
  /\ loop' = "accept"
  /\ UNCHANGED <<kind, conn, client_fd, served>>

Thread(c) ==
  /\ kind = "thread" /\ loop = "start" /\ fds[client_fd] = c
  /\ HandOver(c)
  /\ loop' = "accept"
  /\ UNCHANGED <<kind, conn, fds, client_fd, served>>

\* The main loop itself is busy until the call returns.
Call(c) ==
  /\ kind = "serial" /\ loop = "start" /\ fds[client_fd] = c /\ task[c].at = "none"
  /\ HandOver(c)
  /\ UNCHANGED <<kind, conn, fds, client_fd, loop, served>>

\* The connection the worker for c finds behind its descriptor: a child has
\* copies of its own, which stay when the parent closes.
Mine(c) == IF kind = "fork" THEN c ELSE fds[task[c].fd]

Goes(c, from, to) == task[c].at = from /\ task' = [task EXCEPT ![c].at = to]

handle_client(c) ==
  \/ /\ Goes(c, "read", "write")
     /\ UNCHANGED <<kind, conn, fds, client_fd, loop, served>>
  \/ /\ Goes(c, "write", "close")
     /\ conn' = [d \in Connections |-> IF d = Mine(c) /\ conn[d] = "sent" THEN "answered" ELSE conn[d]]
     /\ UNCHANGED <<kind, fds, client_fd, loop, served>>
  \/ /\ Goes(c, "close", "over")
     /\ fds' = IF kind = "fork" THEN fds ELSE [fds EXCEPT ![task[c].fd] = None]
     /\ loop' = IF kind # "serial" THEN loop
                ELSE IF served = MAX_SERVED THEN "left" ELSE "accept"
     /\ UNCHANGED <<kind, conn, client_fd, served>>

ServerLoop == \E c \in Connections : Accept(c) \/ Fork(c) \/ Thread(c) \/ Call(c)

Next ==
  \/ ServerLoop
  \/ \E c \in Connections : handle_client(c) \/ ClientSend(c) \/ ClientReceive(c)
-----------------------------------------------------------------------------
(* Properties.                                                             *)

\* A worker that is done has answered its own connection; none answers that of
\* another, though the main loop has gone on and descriptors are reused.
OwnAnswer ==
  \A c \in Connections :
    /\ task[c].at \in {"read", "write", "close"} => Mine(c) = c
    /\ task[c].at = "over" /\ task[c].fd # None => conn[c] \in {"answered", "ended"}
    /\ conn[c] = "answered" => task[c].at \in {"close", "over"}

Waiting(c) == conn[c] = "sent"
Ended(c)   == conn[c] = "ended"
=============================================================================
