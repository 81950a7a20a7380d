---------------------------- MODULE SelectServer ----------------------------
(***************************************************************************)
(* The single-threaded servers around select: Nonblocking, which echoes,   *)
(* and clientchatserver, which sends a message to every other descriptor   *)
(* of master_set.  They share the loop: select, then the readable          *)
(* descriptors in ascending order.                                         *)
(***************************************************************************)
EXTENDS Integers, Sequences, FiniteSetsExt

CONSTANTS Connections,   \* connections made, each by one run of a client
          MaxMessages    \* bound: messages of a connection

VARIABLES kind,          \* "echo" or "chat"
          conn,          \* a connection: the client's end and the bytes under way
          backlog,       \* connections waiting for accept
          fd_of,         \* the server's descriptor of each accepted one
          master_set, read_set,
          fd,            \* where the for loop is, 0 in select
          alive          \* the server runs

vars == <<kind, conn, backlog, fd_of, master_set, read_set, fd, alive>>

server_fd == 3
Fds  == server_fd .. server_fd + Cardinality(Connections)
None == 0

ConstantsOK == IsFiniteSet(Connections) /\ MaxMessages \in Nat

TypeOK ==
  /\ kind \in {"echo", "chat"}
  /\ conn \in [Connections -> [end : {"new", "open", "left"}, sent : 0 .. MaxMessages,
                               inbox : Seq(Connections \X (1 .. MaxMessages)),
                               outbox : Seq(Connections \X (1 .. MaxMessages)),
                               got : 0 .. MaxMessages, closed : BOOLEAN]]
  /\ fd_of \in [Connections -> Fds \cup {None}]
  /\ server_fd \in master_set /\ master_set \subseteq Fds /\ read_set \subseteq master_set
  /\ fd \in Fds \cup {None} /\ alive \in BOOLEAN

Init ==
  /\ kind \in {"echo", "chat"}
  /\ conn = [c \in Connections |-> [end |-> "new", sent |-> 0, inbox |-> <<>>, outbox |-> <<>>,
                                    got |-> 0, closed |-> FALSE]]
  /\ backlog = <<>>
  /\ fd_of = [c \in Connections |-> None]
  /\ master_set = {server_fd} /\ read_set = {} /\ fd = None /\ alive = TRUE

Of(f) == CHOOSE c \in Connections : fd_of[c] = f
-----------------------------------------------------------------------------
(* The server.                                                             *)

Readable(f) ==
  IF f = server_fd THEN backlog # <<>>
  ELSE conn[Of(f)].inbox # <<>> \/ conn[Of(f)].end = "left"

\* Mutant: the set that select has not changed is looked at.
SelectedAll == master_set

Selected == {f \in master_set : Readable(f)}

After(f, set) == LET rest == {g \in set : g > f} IN IF rest = {} THEN None ELSE Min(rest)

Select ==
  /\ alive /\ fd = None
  /\ \E f \in master_set : Readable(f)
  /\ read_set' = Selected
  /\ fd' = After(0, Selected)
  /\ UNCHANGED <<kind, conn, backlog, fd_of, master_set, alive>>

Step == /\ fd' = After(fd, read_set)
        /\ read_set' = IF After(fd, read_set) = None THEN {} ELSE read_set \ {fd}

\* The lowest descriptor that is free; EWOULDBLOCK when nobody waits.
Accept ==
  /\ alive /\ fd = server_fd
  /\ IF backlog = <<>> THEN UNCHANGED <<backlog, fd_of, master_set>>
     ELSE LET f == Min(Fds \ ({server_fd} \cup {fd_of[c] : c \in Connections}))
          IN  /\ backlog' = Tail(backlog)
              /\ fd_of' = [fd_of EXCEPT ![Head(backlog)] = f]
              /\ master_set' = master_set \cup {f}
  /\ Step
  /\ UNCHANGED <<kind, conn, alive>>

\* recv returns 0 or fails, with EAGAIN too.
Drop ==
  /\ alive /\ fd \notin {None, server_fd} /\ conn[Of(fd)].inbox = <<>>
  /\ conn' = [conn EXCEPT ![Of(fd)].closed = TRUE]
  /\ fd_of' = [fd_of EXCEPT ![Of(fd)] = None]
  /\ master_set' = master_set \ {fd}
  /\ Step
  /\ UNCHANGED <<kind, backlog, alive>>

Killed ==
  /\ alive' = FALSE
  /\ conn' = [c \in Connections |-> [conn[c] EXCEPT !.closed = TRUE, !.inbox = <<>>]]
  /\ backlog' = <<>> /\ fd_of' = [c \in Connections |-> None]
  /\ master_set' = {server_fd} /\ read_set' = {} /\ fd' = None

\* A send to a client that has closed its end raises SIGPIPE.
Echo ==
  /\ alive /\ fd \notin {None, server_fd} /\ conn[Of(fd)].inbox # <<>>
  /\ IF conn[Of(fd)].end = "left" THEN Killed
     ELSE /\ conn' = [conn EXCEPT ![Of(fd)].outbox = @ \o conn[Of(fd)].inbox,
                                  ![Of(fd)].inbox = <<>>]
          /\ Step
          /\ UNCHANGED <<backlog, fd_of, master_set, alive>>
  /\ UNCHANGED kind

\* The listening descriptor is in master_set too and comes first; a send on it
\* raises SIGPIPE as well.
broadcast ==
  LET targets == master_set \ {fd}
  IN  /\ alive /\ fd \notin {None, server_fd} /\ conn[Of(fd)].inbox # <<>>
      /\ IF server_fd \in targets \/ \E f \in targets : conn[Of(f)].end = "left" THEN Killed
         ELSE /\ conn' = [c \in Connections |->
                   CASE fd_of[c] = fd -> [conn[c] EXCEPT !.inbox = <<>>]
                     [] fd_of[c] \in targets -> [conn[c] EXCEPT !.outbox = @ \o conn[Of(fd)].inbox]
                     [] OTHER -> conn[c]]
              /\ Step
              /\ UNCHANGED <<backlog, fd_of, master_set, alive>>
      /\ UNCHANGED kind

echo_main == kind = "echo" /\ (Select \/ Accept \/ Drop \/ Echo)
chat_main == kind = "chat" /\ (Select \/ Accept \/ Drop \/ broadcast)

ServerLoop == echo_main \/ chat_main
-----------------------------------------------------------------------------
(* The clients.                                                            *)

Connect(c) ==
  /\ alive /\ conn[c].end = "new"
  /\ conn' = [conn EXCEPT ![c].end = "open"]
  /\ backlog' = Append(backlog, c)
  /\ UNCHANGED <<kind, fd_of, master_set, read_set, fd, alive>>

\* The echo client waits for its answer before it sends again.
ClientSend(c) ==
  /\ conn[c].end = "open" /\ ~conn[c].closed /\ conn[c].sent < MaxMessages
  /\ kind = "echo" => conn[c].got = conn[c].sent
  /\ conn' = [conn EXCEPT ![c].sent = @ + 1,
                          ![c].inbox = Append(@, <<c, conn[c].sent + 1>>)]
  /\ UNCHANGED <<kind, backlog, fd_of, master_set, read_set, fd, alive>>

ClientReceive(c) ==
  /\ conn[c].end = "open" /\ conn[c].outbox # <<>>
  /\ conn' = [conn EXCEPT ![c].outbox = Tail(@), ![c].got = Head(conn[c].outbox)[2]]
  /\ UNCHANGED <<kind, backlog, fd_of, master_set, read_set, fd, alive>>

\* End of input, a signal, or recv returning 0.
ClientLeave(c) ==
  /\ conn[c].end = "open"
  /\ conn' = [conn EXCEPT ![c].end = "left", ![c].outbox = <<>>]
  /\ UNCHANGED <<kind, backlog, fd_of, master_set, read_set, fd, alive>>

Next ==
  \/ ServerLoop
  \/ \E c \in Connections : Connect(c) \/ ClientSend(c) \/ ClientReceive(c) \/ ClientLeave(c)
-----------------------------------------------------------------------------
(* Properties.                                                             *)

\* While the server runs it closes no connection its client has not left,
\* although descriptors are closed and reused between select and the end of
\* the loop, and a descriptor has one client.
NoFalseDisconnect ==
  /\ \A c \in Connections : alive /\ conn[c].closed => conn[c].end = "left"
  /\ master_set = {server_fd} \cup ({fd_of[c] : c \in Connections} \ {None})
  /\ \A c, d \in Connections : fd_of[c] = fd_of[d] /\ fd_of[c] # None => c = d

\* What comes back is the client's own message, and the last one it sent.
OwnEcho ==
  \A c \in Connections : \A i \in DOMAIN conn[c].outbox : conn[c].outbox[i] = <<c, conn[c].sent>>

\* No client is starved: a message is answered unless its client leaves or
\* the server is killed.
Waiting(c)  == kind = "echo" /\ conn[c].end = "open" /\ conn[c].got < conn[c].sent
Answered(c) == conn[c].got = conn[c].sent \/ conn[c].end = "left" \/ ~alive
=============================================================================
