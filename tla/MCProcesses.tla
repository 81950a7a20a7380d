----------------------------- MODULE MCProcesses -----------------------------
(***************************************************************************)
(* The programs made of several processes, for TLC and for the proofs:     *)
(* files over pipes, the message in shared memory, the chat over a message *)
(* queue, the servers around select and one connection each, the counter   *)
(* in shared memory, the parent that polls and the job controller.  A      *)
(* behaviour is one of them, chosen at the start, while the others stay in *)
(* their initial state.                                                    *)
(***************************************************************************)
EXTENDS Integers, Sequences

CONSTANTS Programs,                          \* those to be run
          MAX, PipeCapacity, Cells,          \* of the file transfer
          Transfers,                         \* the files to be sent
          Failing,                           \* its ends whose fopen may fail
          Texts, MaxRuns,                    \* of the message in shared memory
          MaxTurns,                          \* of the chat
          Connections, MaxMessages,          \* of the servers
          MAX_SERVED,
          MAX_CHILDREN, MaxPids, MaxSignals, \* of the job controller
          Workers, increments                \* of the counter

VARIABLES program,
          file, sentCells, fifo1, ack, opened, buffer, received, pc,
          mode, segment, writer, text, runs, reader, got, length, seen,
          queue, a, b, said, heard,
          kind, conn, backlog, fd_of, master_set, read_set, fd, alive,
          children, running, stack, pending, child, sigterm, inherited, sent,
          locking, sem, shared_total, step, register, todo, final,
          medium, poller, talker, channel, revents, shown,
          model, peer, fds, client_fd, loop, task, served

transferred == <<file, sentCells, fifo1, ack, opened, buffer, received, pc>>
shared      == <<mode, segment, writer, text, runs, reader, got, length, seen>>
talked      == <<queue, a, b, said, heard>>
connected   == <<kind, conn, backlog, fd_of, master_set, read_set, fd, alive>>
controlled  == <<children, running, stack, pending, child, sigterm, inherited, sent>>
counted     == <<locking, sem, shared_total, step, register, todo, final>>
polled      == <<medium, poller, talker, channel, revents, shown>>
answered    == <<model, peer, fds, client_fd, loop, task, served>>
vars == <<program, transferred, shared, talked, connected, controlled, counted, polled, answered>>

\* Files of whole buffers, with pieces of the marker; of other lengths; and one
\* with the marker at the start of a read.
MCOther == {<<>>, <<"x">>, <<"x", "y">>, <<"x", "y", "x", "y">>}
MCFiles ==
  {<<"x", "y", "EO">>, <<"F", "EO", "F">>, <<"EO", "F", "x">>} \cup MCOther
    \cup {s \o t : s, t \in {<<"x", "y", "EO">>, <<"EO", "x", "y">>, <<"F", "x", "EO">>}}
MCEnds == {"sender", "receiver"}
MCNone == {}

Transfer == INSTANCE FileTransfer WITH Files <- Transfers

Shm == INSTANCE ShmMessage

Chat == INSTANCE ChatQueue

Server == INSTANCE SelectServer

Jobs == INSTANCE JobController

Counter == INSTANCE SharedCounter WITH
  Kinds <- {"semaphore", "mutex", "atomic"}, kind <- locking

Hub == INSTANCE PipeHub WITH
  Kinds <- {"pipe", "socket"}, kind <- medium, parent <- poller, child <- talker

Conn == INSTANCE ConnServer WITH
  Kinds <- {"fork", "thread", "serial"}, kind <- model, conn <- peer

ASSUME MCAssumption ==
  /\ Programs \subseteq {"transfer", "shm", "chat", "select", "jobs", "counter", "hub", "conn"}
  /\ Transfer!ConstantsOK /\ Shm!ConstantsOK /\ Server!ConstantsOK /\ Jobs!ConstantsOK
  /\ Counter!ConstantsOK /\ Hub!ConstantsOK /\ Conn!ConstantsOK

\* The initial states differ only where the program that runs has a choice.
Init ==
  /\ program \in Programs
  /\ Transfer!Init /\ Shm!Init /\ Chat!Init /\ Server!Init /\ Jobs!Init
  /\ Counter!Init /\ Hub!Init /\ Conn!Init
  /\ program # "transfer" =>
       buffer = [k \in 1 .. MAX |-> "F"] /\ file = CHOOSE f \in Transfers : TRUE
  /\ program # "shm" => mode = "fork" /\ text = CHOOSE t \in Texts : TRUE
  /\ program # "select" => kind = "echo"
  /\ program # "counter" => locking = "mutex"
  /\ program # "hub" => medium = "pipe"
  /\ program # "conn" => model = "fork"

\* The program me runs, and nothing of the others changes.
Only(me) ==
  /\ program = me /\ UNCHANGED program
  /\ IF me = "transfer" THEN TRUE ELSE UNCHANGED transferred
  /\ IF me = "shm" THEN TRUE ELSE UNCHANGED shared
  /\ IF me = "chat" THEN TRUE ELSE UNCHANGED talked
  /\ IF me = "select" THEN TRUE ELSE UNCHANGED connected
  /\ IF me = "jobs" THEN TRUE ELSE UNCHANGED controlled
  /\ IF me = "counter" THEN TRUE ELSE UNCHANGED counted
  /\ IF me = "hub" THEN TRUE ELSE UNCHANGED polled
  /\ IF me = "conn" THEN TRUE ELSE UNCHANGED answered

Next ==
  \/ Only("transfer") /\ Transfer!Next
  \/ Only("shm") /\ Shm!Next
  \/ Only("chat") /\ Chat!Next
  \/ Only("select") /\ Server!Next
  \/ Only("jobs") /\ Jobs!Next
  \/ Only("counter") /\ Counter!Next
  \/ Only("hub") /\ Hub!Next
  \/ Only("conn") /\ Conn!Next

Spec == Init /\ [][Next]_vars

\* One process of a program that runs, and the other, or the others.
FirstProcess ==
  \/ Only("transfer") /\ Transfer!SenderStep
  \/ Only("shm") /\ Shm!WriterStep
  \/ Only("chat") /\ Chat!chata
  \/ Only("select") /\ Server!ServerLoop
  \/ Only("jobs") /\ Jobs!ParentStep
  \/ Only("hub") /\ Hub!ParentStep
  \/ Only("conn") /\ Conn!ServerLoop
SecondProcess ==
  \/ Only("transfer") /\ Transfer!ReceiverStep
  \/ Only("shm") /\ Shm!ReaderStep
  \/ Only("chat") /\ Chat!chatb
  \/ Only("jobs") /\ \E p \in 1 .. MaxPids : Jobs!ChildSigterm(p)
  \/ Only("hub") /\ Hub!ChildStep
  \/ Only("counter") /\ Counter!Next
  \/ Only("conn") /\ \E c \in Connections : Conn!handle_client(c)

\* Every process that can go on does, and a signal sent to one is delivered.
\* Nothing is assumed of users: when clients connect, send or leave, and which
\* signals are sent; those of the chat type something in the end.
FairSpec ==
  /\ Spec
  /\ WF_vars(FirstProcess) /\ WF_vars(SecondProcess)
  /\ \A c \in Connections : WF_vars(Only("select") /\ Server!ClientReceive(c))
                     /\ WF_vars(Only("conn") /\ Conn!ClientReceive(c))
-----------------------------------------------------------------------------
(* Properties: what the modules say of the program that runs.              *)

TypeOK ==
  CASE program = "transfer" -> Transfer!TypeOK [] program = "shm" -> Shm!TypeOK
    [] program = "chat" -> Chat!TypeOK         [] program = "select" -> Server!TypeOK
    [] program = "jobs" -> Jobs!TypeOK         [] program = "counter" -> Counter!TypeOK
    [] program = "hub" -> Hub!TypeOK           [] program = "conn" -> Conn!TypeOK

\* receiver.c, shmReader.c, shmForkDemo.c, chata.c, chatb.c: what one process
\* hands to another arrives whole, in order and once.  Counters.c,
\* atomic_counter.c: no increment is lost.  hub_pipe.c, pollhup_socket.c: the
\* parent does not leave before it has shown the message.
HandedOver ==
  /\ program = "transfer" => Transfer!StreamKept
  /\ program = "shm" => Shm!MessageWhole
  /\ program = "chat" => Chat!TurnsTaken
  /\ program = "counter" => Counter!NothingLost
  /\ program = "hub" => Hub!ShownFirst

\* Nonblocking/server.c: a client is disconnected only when it left, and is
\* sent its own message.  miniServer, checkLatency: a worker answers and closes
\* its own connection and no other.
EchoSound ==
  /\ program = "select" => Server!NoFalseDisconnect /\ Server!OwnEcho
  /\ program = "conn" => Conn!OwnAnswer

\* controller.c: a child that ended is reaped, however the handlers nest.
ZombiesReaped == program = "jobs" => Jobs!ZombiesReaped

\* A separable file is transferred, a reader gets its message, both sides of a
\* chat come to an end, the counter is reported, a child that got through ends
\* the parent's wait, and a client is answered, or told that it will not be.
\* (One leads-to for all, as the program that runs stays the same.)
Completes ==
  /\ \/ program = "transfer" /\ Transfer!Separable
     \/ program = "shm" /\ Shm!Awaited
     \/ program = "chat" /\ b = "listen"
     \/ program = "counter"
     \/ program = "hub" /\ Hub!Through
    ~>
     \/ program = "transfer" /\ Transfer!Parted
     \/ program = "shm" /\ Shm!Arrived
     \/ program = "chat" /\ Chat!Over
     \/ program = "counter" /\ Counter!Reported
     \/ program = "hub" /\ Hub!Left
  /\ \A c \in Connections :
       (program = "select" /\ Server!Waiting(c)) \/ (program = "conn" /\ Conn!Waiting(c))
         ~> (program = "select" /\ Server!Answered(c)) \/ (program = "conn" /\ Conn!Ended(c))

\* "Indicate end of transfer", "Wait for acknowledgment" (sender.c:38,41): the
\* marker ends the transfer, so that the wait comes to an end.
TransferEnds == (program = "transfer") ~> Transfer!Done

\* "stopping all children..." (controller.c:50), "SIGINT/SIGTERM to stop"
\* (controller.c:91): once the parent has left on a signal, no child goes on
\* for ever.
ChildrenStopped == (program = "jobs" /\ Jobs!Stopped) ~> Jobs!Childless
=============================================================================
