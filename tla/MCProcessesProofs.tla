-------------------------- MODULE MCProcessesProofs --------------------------
(***************************************************************************)
(* Proofs about the programs made of several processes, for any numbers of *)
(* processes, messages, files and connections.  Each program has an        *)
(* inductive invariant of its own, which also holds while another program  *)
(* runs, as then nothing of it changes.                                    *)
(***************************************************************************)
EXTENDS MCProcesses, FiniteSetTheorems, SequenceTheorems, WellFoundedInduction,
        TLAPS

\* A step of MCProcesses is a step of a program, or leaves it alone.
LEMMA TransferMoves == [Next]_vars => Transfer!Next \/ UNCHANGED transferred
BY DEF Next, Only, vars
LEMMA ShmMoves == [Next]_vars => Shm!Next \/ UNCHANGED shared
BY DEF Next, Only, vars
LEMMA ChatMoves == [Next]_vars => Chat!Next \/ UNCHANGED talked
BY DEF Next, Only, vars
LEMMA ServerMoves == [Next]_vars => Server!Next \/ UNCHANGED connected
BY DEF Next, Only, vars
LEMMA JobsMove == [Next]_vars => Jobs!Next \/ UNCHANGED controlled
BY DEF Next, Only, vars
LEMMA CounterMoves == [Next]_vars => Counter!Next \/ UNCHANGED counted
BY DEF Next, Only, vars
LEMMA HubMoves == [Next]_vars => Hub!Next \/ UNCHANGED polled
BY DEF Next, Only, vars
LEMMA ConnMoves == [Next]_vars => Conn!Next \/ UNCHANGED answered
BY DEF Next, Only, vars
-----------------------------------------------------------------------------
(* Sequences.                                                              *)

LEMMA SubSeqIs ==
  ASSUME NEW S, NEW s \in Seq(S), NEW m \in 1 .. Len(s) + 1, NEW n \in m - 1 .. Len(s),
         NEW r, r = SubSeq(s, m, n)
  PROVE  r \in Seq(S) /\ Len(r) = n - m + 1 /\ \A i \in 1 .. n - m + 1 : r[i] = s[m + i - 1]
<1>1. \A i \in m .. n : s[i] \in S
  OBVIOUS
<1>2. m \in Int /\ n \in Int
  OBVIOUS
<1> QED BY <1>1, <1>2, SubSeqProperties

LEMMA PrefixIs ==
  ASSUME NEW S, NEW s \in Seq(S), NEW n \in 0 .. Len(s), NEW r, r = SubSeq(s, 1, n)
  PROVE  r \in Seq(S) /\ Len(r) = n /\ \A i \in 1 .. n : r[i] = s[i]
<1>1. 1 \in 1 .. Len(s) + 1 /\ n \in 1 - 1 .. Len(s)
  OBVIOUS
<1>2. r \in Seq(S) /\ Len(r) = n - 1 + 1 /\ \A i \in 1 .. n - 1 + 1 : r[i] = s[1 + i - 1]
  BY <1>1, SubSeqIs
<1> QED BY <1>2

LEMMA AppendIs ==
  ASSUME NEW S, NEW s \in Seq(S), NEW x \in S, NEW r, r = s \o <<x>> \/ r = Append(s, x)
  PROVE  r \in Seq(S) /\ Len(r) = Len(s) + 1 /\ r[Len(s) + 1] = x
         /\ \A k \in 1 .. Len(s) : r[k] = s[k]
<1>1. <<x>> \in Seq(S) /\ Len(<<x>>) = 1 /\ <<x>>[1] = x
  OBVIOUS
<1>2. CASE r = s \o <<x>>
  BY <1>1, <1>2
<1>3. CASE r = Append(s, x)
  BY <1>3
<1> QED BY <1>2, <1>3

\* A set of numbers that is not empty has a least one.
LEMMA LeastExists ==
  ASSUME NEW T, T \subseteq Nat, T # {}
  PROVE  \E x \in T : \A y \in T : x <= y
<1>1. \A x, y \in Nat : <<y, x>> \in OpToRel(<, Nat) <=> y < x
  BY DEF OpToRel
<1>2. PICK R : IsWellFoundedOn(R, Nat) /\ \A x, y \in Nat : <<y, x>> \in R <=> y < x
  BY <1>1, NatLessThanWellFounded, Zenon
<1>3. PICK x \in T : \A y \in T : ~(<<y, x>> \in R)
  BY <1>2, WFMin
<1>4. ASSUME NEW y \in T PROVE x <= y
  <2>1. x \in Nat /\ y \in Nat /\ ~(y < x)
    BY <1>2, <1>3
  <2> QED BY <2>1
<1> QED BY <1>4
-----------------------------------------------------------------------------
(* The parent that polls.                                                  *)

\* The message is in the channel or was shown, and what the last poll returned
\* is still true of the channel.
HubInv ==
  /\ Hub!TypeOK
  /\ talker \in {"start", "open", "failed"} => channel = 0 /\ shown = 0
  /\ talker \in {"written", "closed"} => channel + shown = 1
  /\ "POLLHUP" \in revents => medium = "pipe" /\ talker = "closed"
  /\ poller = "read" /\ "POLLHUP" \in revents /\ channel = 1 => "POLLIN" \in revents
  /\ poller = "read" /\ "POLLIN" \in revents =>
       channel > 0 \/ (medium = "socket" /\ talker = "closed")
  /\ poller = "hup" /\ "POLLHUP" \in revents => shown = 1
  /\ poller = "left" => shown = 1

LEMMA HubInvariant == Spec => []HubInv
<1>1. Init => HubInv
  BY DEF Init, Hub!Init, HubInv, Hub!TypeOK
<1>2. HubInv /\ [Next]_vars => HubInv'
  <2> SUFFICES ASSUME HubInv, [Next]_vars PROVE HubInv'
    OBVIOUS
  <2>1. CASE UNCHANGED polled
    BY <2>1 DEF HubInv, Hub!TypeOK, polled
  <2>2. CASE Hub!ParentOpen
    BY <2>2 DEF HubInv, Hub!TypeOK, Hub!ParentOpen
  <2>3. CASE Hub!Poll
    <3>1. Hub!Events \subseteq {"POLLIN", "POLLHUP"}
      BY DEF Hub!Events
    <3>2. "POLLHUP" \in Hub!Events <=> medium = "pipe" /\ talker = "closed"
      BY DEF Hub!Events
    <3>3. "POLLIN" \in Hub!Events <=> channel > 0 \/ (medium = "socket" /\ talker = "closed")
      BY DEF Hub!Events
    <3>4. poller' \in {"poll", "read"} /\ revents' = Hub!Events
          /\ UNCHANGED <<medium, talker, channel, shown>>
      BY <2>3 DEF Hub!Poll
    <3> QED BY <3>1, <3>2, <3>3, <3>4 DEF HubInv, Hub!TypeOK
  <2>4. CASE Hub!Read
    <3>1. CASE "POLLIN" \in revents
      <4>1. shown' = shown + channel /\ channel' = 0 /\ UNCHANGED <<medium, talker, revents>>
            /\ poller = "read" /\ poller' = IF channel = 0 /\ medium = "socket" THEN "left" ELSE "hup"
        BY <2>4, <3>1 DEF Hub!Read
      <4>2. talker \in {"written", "closed"}
        BY <3>1, <4>1 DEF HubInv, Hub!TypeOK
      <4>3. shown' = 1
        BY <4>1, <4>2 DEF HubInv, Hub!TypeOK
      <4> QED BY <4>1, <4>2, <4>3 DEF HubInv, Hub!TypeOK
    <3>2. CASE "POLLIN" \notin revents
      BY <2>4, <3>2 DEF HubInv, Hub!TypeOK, Hub!Read
    <3> QED BY <3>1, <3>2
  <2>5. CASE Hub!Hangup
    BY <2>5 DEF HubInv, Hub!TypeOK, Hub!Hangup
  <2>6. CASE Hub!ChildOpen
    BY <2>6 DEF HubInv, Hub!TypeOK, Hub!ChildOpen
  <2>7. CASE Hub!ChildWrite
    BY <2>7 DEF HubInv, Hub!TypeOK, Hub!ChildWrite
  <2>8. CASE Hub!ChildClose
    BY <2>8 DEF HubInv, Hub!TypeOK, Hub!ChildClose
  <2> QED BY HubMoves, <2>1, <2>2, <2>3, <2>4, <2>5, <2>6, <2>7, <2>8
          DEF Hub!Next, Hub!ParentStep, Hub!ChildStep
<1> QED BY <1>1, <1>2, PTL DEF Spec
-----------------------------------------------------------------------------
(* The job controller.                                                     *)

\* What the parent runs; only handle_sigchld waits for children, and it does
\* nothing else.
JobsStack ==
  /\ stack \in Seq(Jobs!Frames)
  /\ \A k \in 1 .. Len(stack) : stack[k].of = "SIGCHLD" <=> stack[k].step = "reap"
  /\ \A k \in 1 .. Len(stack) : stack[k].step \in {"spawn", "kill"} => stack[k].i > 0

JobsInv == Jobs!TypeOK /\ JobsStack /\ Jobs!ZombiesReaped

\* The top frame goes on with step s at i, where it keeps what it is of.
LEMMA StackContinues ==
  ASSUME JobsStack, Jobs!Alive, NEW s, NEW i \in 0 .. MAX_CHILDREN + 1, Jobs!Continue(s, i),
         s \in {"spawn", "test", "enter", "pause", "stop", "kill"},
         s \in {"spawn", "kill"} => i > 0, Jobs!Top.step # "reap"
  PROVE  JobsStack' /\ Len(stack') = Len(stack) /\ stack' # <<>>
         /\ \A k \in 1 .. Len(stack) : stack'[k].of = stack[k].of
<1>1. stack \in Seq(Jobs!Frames) /\ Len(stack) \in Nat /\ Len(stack) > 0
  BY DEF JobsStack, Jobs!Alive
<1>2. Jobs!Top \in Jobs!Frames /\ Jobs!Top = stack[Len(stack)]
  BY <1>1 DEF Jobs!Top
<1> DEFINE new == [of |-> Jobs!Top.of, step |-> s, i |-> i]
<1>3. new \in Jobs!Frames /\ new.of = Jobs!Top.of /\ new.of # "SIGCHLD" /\ new.step = s
      /\ new.i = i
  BY <1>1, <1>2 DEF Jobs!Frames, JobsStack
<1>4. stack' = [stack EXCEPT ![Len(stack)] = new]
  BY DEF Jobs!Continue
<1> HIDE DEF new
<1>5. stack' \in Seq(Jobs!Frames) /\ Len(stack') = Len(stack)
      /\ \A k \in 1 .. Len(stack) : stack'[k] = IF k = Len(stack) THEN new ELSE stack[k]
  BY <1>1, <1>3, <1>4
<1>6. \A k \in 1 .. Len(stack) : stack'[k].of = stack[k].of
  BY <1>2, <1>3, <1>5
<1>7. \A k \in 1 .. Len(stack') : stack'[k].of = "SIGCHLD" <=> stack'[k].step = "reap"
  BY <1>2, <1>3, <1>5, <1>1 DEF JobsStack
<1>8. \A k \in 1 .. Len(stack') : stack'[k].step \in {"spawn", "kill"} => stack'[k].i > 0
  BY <1>3, <1>5, <1>1 DEF JobsStack
<1>9. stack' # <<>>
  BY <1>1, <1>5
<1> QED BY <1>5, <1>6, <1>7, <1>8, <1>9 DEF JobsStack

\* The top frame returns.
LEMMA StackReturns ==
  ASSUME JobsStack, Jobs!Alive, Jobs!Return
  PROVE  JobsStack' /\ Len(stack') = Len(stack) - 1
         /\ \A k \in 1 .. Len(stack) - 1 : stack'[k] = stack[k]
<1>1. stack \in Seq(Jobs!Frames) /\ Len(stack) \in Nat /\ Len(stack) > 0
  BY DEF JobsStack, Jobs!Alive
<1>2. stack' \in Seq(Jobs!Frames) /\ Len(stack') = Len(stack) - 1
      /\ \A k \in 1 .. Len(stack) - 1 : stack'[k] = stack[k]
  <2> DEFINE n == Len(stack) - 1
  <2>1. stack' = SubSeq(stack, 1, n) /\ n \in 0 .. Len(stack)
    BY <1>1 DEF Jobs!Return
  <2> HIDE DEF n
  <2>2. stack' \in Seq(Jobs!Frames) /\ Len(stack') = n /\ \A i \in 1 .. n : stack'[i] = stack[i]
    BY <1>1, <2>1, PrefixIs
  <2> QED BY <2>2 DEF n
<1> QED BY <1>1, <1>2 DEF JobsStack

\* A handler that is not interrupted by its own signal is still there.
LEMMA StillReaped ==
  ASSUME JobsStack, JobsStack', Jobs!ZombiesReaped, Jobs!Zombies' = Jobs!Zombies,
         stack' # <<>> => stack # <<>>,
         "SIGCHLD" \in pending => "SIGCHLD" \in pending',
         \A k \in 1 .. Len(stack) : stack[k].of = "SIGCHLD" =>
           \E j \in 1 .. Len(stack') : stack'[j].of = "SIGCHLD"
  PROVE  Jobs!ZombiesReaped'
<1>1. DOMAIN stack = 1 .. Len(stack) /\ DOMAIN stack' = 1 .. Len(stack')
  BY DEF JobsStack
<1> QED BY <1>1 DEF Jobs!ZombiesReaped, Jobs!Alive

LEMMA JobsConstants == MAX_CHILDREN \in Nat \ {0} /\ MaxPids \in Nat /\ MaxSignals \in Nat
BY MCAssumption DEF Jobs!ConstantsOK

\* The frame on top, when there is one.
LEMMA TopFrame ==
  ASSUME JobsStack, Jobs!Alive
  PROVE  Jobs!Top \in Jobs!Frames /\ Jobs!Top.i \in 0 .. MAX_CHILDREN + 1
         /\ Len(stack) \in Nat \ {0} /\ Jobs!Top = stack[Len(stack)]
         /\ (Jobs!Top.step \in {"spawn", "kill"} => Jobs!Top.i > 0)
<1>1. stack \in Seq(Jobs!Frames) /\ Len(stack) \in Nat /\ Len(stack) > 0
  BY DEF JobsStack, Jobs!Alive
<1>2. Jobs!Top \in Jobs!Frames /\ Jobs!Top = stack[Len(stack)]
  BY <1>1 DEF Jobs!Top
<1>3. \A f \in Jobs!Frames : f.i \in 0 .. MAX_CHILDREN + 1
  BY DEF Jobs!Frames
<1>4. Jobs!Top.step \in {"spawn", "kill"} => Jobs!Top.i > 0
  BY <1>1, <1>2 DEF JobsStack
<1> QED BY <1>1, <1>2, <1>3, <1>4

\* A parent that goes on, or a handler other than handle_sigchld that returns,
\* leaves the duty to reap where it was.
LEMMA JobsContinue ==
  ASSUME JobsInv, Jobs!Alive, Jobs!Zombies' = Jobs!Zombies, pending' = pending, Jobs!TypeOK',
         NEW s, NEW i \in 0 .. MAX_CHILDREN + 1, Jobs!Continue(s, i),
         s \in {"spawn", "test", "enter", "pause", "stop", "kill"},
         s \in {"spawn", "kill"} => i > 0, Jobs!Top.step # "reap"
  PROVE  JobsInv'
<1>1. JobsStack' /\ Len(stack') = Len(stack) /\ stack' # <<>>
      /\ \A k \in 1 .. Len(stack) : stack'[k].of = stack[k].of
  BY StackContinues DEF JobsInv
<1>2. \A k \in 1 .. Len(stack) : stack[k].of = "SIGCHLD" =>
        \E j \in 1 .. Len(stack') : stack'[j].of = "SIGCHLD"
  BY <1>1
<1> QED BY <1>1, <1>2, StillReaped DEF JobsInv, Jobs!Alive

LEMMA JobsReturn ==
  ASSUME JobsInv, Jobs!Alive, Jobs!Zombies' = Jobs!Zombies, pending' = pending, Jobs!TypeOK',
         Jobs!Return, Jobs!Top.step # "reap"
  PROVE  JobsInv'
<1>1. JobsStack' /\ Len(stack') = Len(stack) - 1
      /\ \A k \in 1 .. Len(stack) - 1 : stack'[k] = stack[k]
  BY StackReturns DEF JobsInv
<1>2. Len(stack) \in Nat \ {0} /\ Jobs!Top = stack[Len(stack)]
  BY TopFrame DEF JobsInv
<1>3. \A k \in 1 .. Len(stack) : stack[k].of = "SIGCHLD" => k \in 1 .. Len(stack) - 1
  BY <1>2 DEF JobsInv, JobsStack
<1>4. \A k \in 1 .. Len(stack) : stack[k].of = "SIGCHLD" =>
        \E j \in 1 .. Len(stack') : stack'[j].of = "SIGCHLD"
  BY <1>1, <1>3
<1> QED BY <1>1, <1>4, StillReaped DEF JobsInv, Jobs!Alive

\* The types of what a frame that goes on or returns leaves alone.
LEMMA JobsTypes ==
  ASSUME Jobs!TypeOK, JobsStack', UNCHANGED <<children, running, pending, child, inherited, sent>>,
         sigterm' \subseteq Jobs!Pids
  PROVE  Jobs!TypeOK'
BY DEF Jobs!TypeOK, JobsStack

LEMMA JobsReturns ==
  ASSUME JobsInv, Jobs!Alive, UNCHANGED <<children, running, pending, child, inherited, sent>>,
         sigterm' \subseteq Jobs!Pids, Jobs!Return, Jobs!Top.step # "reap"
  PROVE  JobsInv'
<1>1. Jobs!Zombies' = Jobs!Zombies
  BY DEF Jobs!Zombies
<1>2. JobsStack'
  BY StackReturns DEF JobsInv
<1> QED BY <1>1, <1>2, JobsTypes, JobsReturn DEF JobsInv

LEMMA JobsContinues ==
  ASSUME JobsInv, Jobs!Alive, UNCHANGED <<children, running, pending, child, inherited, sent>>,
         sigterm' \subseteq Jobs!Pids, NEW s, NEW i \in 0 .. MAX_CHILDREN + 1, Jobs!Continue(s, i),
         s \in {"spawn", "test", "enter", "pause", "stop", "kill"},
         s \in {"spawn", "kill"} => i > 0, Jobs!Top.step # "reap"
  PROVE  JobsInv'
<1>1. Jobs!Zombies' = Jobs!Zombies
  BY DEF Jobs!Zombies
<1>2. JobsStack'
  BY StackContinues DEF JobsInv
<1> QED BY <1>1, <1>2, JobsTypes, JobsContinue DEF JobsInv

LEMMA JobsSpawn == ASSUME JobsInv, Jobs!spawn_child PROVE JobsInv'
<1> USE JobsConstants
<1>1. Jobs!Alive /\ Jobs!Top.step = "spawn" /\ Jobs!Top.i <= MAX_CHILDREN
      /\ UNCHANGED <<running, pending, sigterm, sent>>
  BY DEF Jobs!spawn_child, Jobs!At
<1>2. Jobs!Top.i \in 0 .. MAX_CHILDREN + 1 /\ Jobs!Top.i + 1 \in 0 .. MAX_CHILDREN + 1
      /\ Jobs!Top.i > 0 /\ Jobs!Top.i + 1 > 0
  BY <1>1, TopFrame DEF JobsInv
<1>3. ASSUME NEW p \in Jobs!Pids, child[p] = "none", child' = [child EXCEPT ![p] = "running"],
             inherited' = [inherited EXCEPT ![p] = children],
             children' = [children EXCEPT ![Jobs!Top.i] = p],
             Jobs!Continue("spawn", Jobs!Top.i + 1)
      PROVE  JobsInv'
  <2>1. Jobs!Zombies' = Jobs!Zombies
    BY <1>3 DEF JobsInv, Jobs!TypeOK, Jobs!Zombies
  <2>2. JobsStack'
    BY <1>1, <1>2, <1>3, StackContinues DEF JobsInv
  <2>3. child' \in [Jobs!Pids -> {"none", "running", "zombie", "reaped"}]
    BY <1>3 DEF JobsInv, Jobs!TypeOK
  <2>4. children' \in [Jobs!Indices -> Jobs!Pids \cup {0}]
        /\ inherited' \in [Jobs!Pids -> [Jobs!Indices -> Jobs!Pids \cup {0}]]
    BY <1>3 DEF JobsInv, Jobs!TypeOK
  <2>5. Jobs!TypeOK'
    BY <1>1, <2>2, <2>3, <2>4 DEF JobsInv, Jobs!TypeOK, JobsStack
  <2> QED BY <1>1, <1>2, <1>3, <2>1, <2>5, JobsContinue
<1>4. CASE stack' = <<>> /\ UNCHANGED <<child, inherited, children>>
  <2>1. JobsStack'
    BY <1>4 DEF JobsStack
  <2>2. Jobs!TypeOK'
    BY <1>1, <1>4, <2>1 DEF JobsInv, Jobs!TypeOK, JobsStack
  <2>3. Jobs!ZombiesReaped'
    BY <1>4 DEF Jobs!ZombiesReaped, Jobs!Alive
  <2> QED BY <2>1, <2>2, <2>3 DEF JobsInv
<1> QED BY <1>3, <1>4 DEF Jobs!spawn_child

LEMMA JobsKill == ASSUME JobsInv, Jobs!kill_children PROVE JobsInv'
<1> USE JobsConstants
<1>1. Jobs!Alive /\ Jobs!Top.step = "kill"
      /\ UNCHANGED <<children, running, pending, child, inherited, sent>>
  BY DEF Jobs!kill_children, Jobs!At
<1>2. Jobs!Top.i \in 0 .. MAX_CHILDREN + 1 /\ 1 \in 0 .. MAX_CHILDREN + 1
      /\ Jobs!Top.i > 0 /\ Jobs!Top.i + 1 > 0
  BY <1>1, TopFrame DEF JobsInv
<1>3. CASE Jobs!Top.i <= MAX_CHILDREN
  <2>1. sigterm' = sigterm \cup {p \in {children[Jobs!Top.i]} \ {0} : child[p] = "running"}
        /\ Jobs!Continue("kill", Jobs!Top.i + 1)
    BY <1>3 DEF Jobs!kill_children
  <2>2. Jobs!Top.i \in Jobs!Indices
    BY <1>2, <1>3 DEF Jobs!Indices
  <2>3. sigterm' \subseteq Jobs!Pids
    BY <2>1, <2>2 DEF JobsInv, Jobs!TypeOK
  <2>4. Jobs!Top.i + 1 \in 0 .. MAX_CHILDREN + 1
    BY <1>2, <1>3
  <2> QED BY <1>1, <1>2, <2>1, <2>3, <2>4, JobsContinues
<1>4. CASE ~(Jobs!Top.i <= MAX_CHILDREN)
  <2>1. sigterm' \subseteq Jobs!Pids
    BY <1>4 DEF Jobs!kill_children, JobsInv, Jobs!TypeOK
  <2>2. CASE Jobs!Continue("spawn", 1)
    BY <1>1, <1>2, <2>1, <2>2, JobsContinues
  <2>3. CASE Jobs!Return
    BY <1>1, <2>1, <2>3, JobsReturns
  <2> QED BY <1>4, <2>2, <2>3 DEF Jobs!kill_children
<1> QED BY <1>3, <1>4

LEMMA JobsStop == ASSUME JobsInv, Jobs!Stop PROVE JobsInv'
<1> USE JobsConstants
<1>1. Jobs!Alive /\ Jobs!Top.step = "stop" /\ running' = FALSE /\ Jobs!Continue("kill", 1)
      /\ UNCHANGED <<children, pending, child, sigterm, inherited, sent>>
  BY DEF Jobs!Stop, Jobs!At
<1>2. 1 \in 0 .. MAX_CHILDREN + 1
  OBVIOUS
<1>3. JobsStack'
  BY <1>1, <1>2, StackContinues DEF JobsInv
<1>4. Jobs!TypeOK' /\ Jobs!Zombies' = Jobs!Zombies
  <2>1. \A k \in DOMAIN stack' : stack'[k] \in Jobs!Frames
    BY <1>3 DEF JobsStack
  <2> QED BY <1>1, <2>1 DEF JobsInv, Jobs!TypeOK, Jobs!Zombies
<1> QED BY <1>1, <1>2, <1>4, JobsContinue

LEMMA JobsMain == ASSUME JobsInv, Jobs!Spawned \/ Jobs!MainLoop PROVE JobsInv'
<1> USE JobsConstants
<1>1. UNCHANGED <<children, running, pending, child, inherited, sent>> /\ sigterm' = sigterm
      /\ Jobs!Alive /\ Jobs!Top.step \in {"spawn", "test", "enter"}
  BY DEF Jobs!Spawned, Jobs!MainLoop, Jobs!At
<1>2. sigterm' \subseteq Jobs!Pids /\ 0 \in 0 .. MAX_CHILDREN + 1
  BY <1>1 DEF JobsInv, Jobs!TypeOK
<1>3. \/ Jobs!Continue("test", 0) \/ Jobs!Continue("enter", 0) \/ Jobs!Continue("pause", 0)
      \/ Jobs!Return
  BY DEF Jobs!Spawned, Jobs!MainLoop
<1>4. ASSUME NEW s \in {"test", "enter", "pause"}, Jobs!Continue(s, 0) PROVE JobsInv'
  BY <1>1, <1>2, <1>4, JobsContinues
<1>5. CASE Jobs!Return
  BY <1>1, <1>2, <1>5, JobsReturns
<1> QED BY <1>3, <1>4, <1>5

\* handle_sigchld leaves when there is no zombie, and only then.
LEMMA JobsReap == ASSUME JobsInv, Jobs!handle_sigchld PROVE JobsInv'
<1>1. Jobs!Alive /\ Jobs!Top.step = "reap"
      /\ UNCHANGED <<children, running, pending, sigterm, inherited, sent>>
  BY DEF Jobs!handle_sigchld, Jobs!At
<1>2. CASE Jobs!Zombies # {}
  <2>1. PICK p \in Jobs!Zombies : child' = [child EXCEPT ![p] = "reaped"]
    BY <1>2 DEF Jobs!handle_sigchld
  <2>2. stack' = stack
    BY <1>2 DEF Jobs!handle_sigchld
  <2>3. p \in Jobs!Pids
    BY DEF Jobs!Zombies
  <2>4. Jobs!TypeOK'
    BY <1>1, <2>1, <2>2, <2>3 DEF JobsInv, Jobs!TypeOK
  <2>5. Len(stack) \in 1 .. Len(stack) /\ stack[Len(stack)].of = "SIGCHLD" /\ DOMAIN stack = 1 .. Len(stack)
    BY <1>1, TopFrame DEF JobsInv, JobsStack
  <2>6. Jobs!ZombiesReaped'
    BY <2>2, <2>5 DEF Jobs!ZombiesReaped
  <2> QED BY <2>2, <2>4, <2>6 DEF JobsInv, JobsStack
<1>3. CASE Jobs!Zombies = {}
  <2>1. Jobs!Return /\ child' = child
    BY <1>3 DEF Jobs!handle_sigchld
  <2>2. JobsStack' /\ Jobs!Zombies' = {}
    BY <1>1, <1>3, <2>1, StackReturns DEF JobsInv, Jobs!Zombies
  <2>3. Jobs!TypeOK'
    BY <1>1, <2>1, <2>2, JobsTypes DEF JobsInv, Jobs!TypeOK
  <2>4. Jobs!ZombiesReaped'
    BY <2>2 DEF Jobs!ZombiesReaped
  <2> QED BY <2>2, <2>3, <2>4 DEF JobsInv
<1> QED BY <1>2, <1>3

LEMMA StackInterrupted ==
  ASSUME JobsStack, Jobs!Alive, NEW sig \in Jobs!Signals, Jobs!Deliver(sig)
  PROVE  JobsStack' /\ Len(stack') = Len(stack) + 1 /\ stack'[Len(stack) + 1].of = sig
         /\ \A k \in 1 .. Len(stack) : stack'[k].of = stack[k].of
<1> USE JobsConstants
<1> DEFINE under == IF Jobs!At("pause") THEN [stack EXCEPT ![Len(stack)].step = "test"] ELSE stack
           new == [of |-> sig, step |-> Jobs!First(sig), i |-> IF sig = "SIGHUP" THEN 1 ELSE 0]
           n == Len(stack)
<1>1. stack \in Seq(Jobs!Frames) /\ n \in Nat \ {0} /\ Jobs!Top = stack[n]
  BY TopFrame DEF JobsStack
<1>2. new \in Jobs!Frames /\ (new.of = "SIGCHLD" <=> new.step = "reap") /\ new.of = sig
      /\ (new.step \in {"spawn", "kill"} => new.i > 0)
  BY DEF Jobs!First, Jobs!Signals, Jobs!Frames
<1>3. stack' = under \o <<new>>
  BY DEF Jobs!Deliver
<1>4. under \in Seq(Jobs!Frames) /\ Len(under) = n /\ \A k \in 1 .. n :
        /\ under[k].of = stack[k].of
        /\ under[k].of = "SIGCHLD" <=> under[k].step = "reap"
        /\ under[k].step \in {"spawn", "kill"} => under[k].i > 0
  <2>1. CASE ~Jobs!At("pause")
    BY <1>1, <2>1 DEF JobsStack
  <2>2. CASE Jobs!At("pause")
    <3>1. under = [stack EXCEPT ![n].step = "test"] /\ stack[n].step = "pause"
      BY <1>1, <2>2 DEF Jobs!At
    <3> DEFINE f == [stack[n] EXCEPT !.step = "test"]
    <3>2. stack[n] \in Jobs!Frames /\ n \in 1 .. Len(stack)
      BY <1>1
    <3>3. f \in Jobs!Frames /\ f.step = "test" /\ f.of = stack[n].of
      BY <3>2 DEF Jobs!Frames
    <3>4. under = [stack EXCEPT ![n] = f]
      BY <3>1
    <3> HIDE DEF f, under
    <3>5. under \in Seq(Jobs!Frames) /\ Len(under) = n
          /\ \A k \in 1 .. n : under[k] = IF k = n THEN f ELSE stack[k]
      BY <1>1, <3>2, <3>3, <3>4
    <3> QED BY <1>1, <3>1, <3>2, <3>3, <3>5 DEF JobsStack
  <2> QED BY <2>1, <2>2
<1> HIDE DEF under, new, n
<1>5. stack' \in Seq(Jobs!Frames) /\ Len(stack') = n + 1 /\ stack'[n + 1] = new
      /\ \A k \in 1 .. n : stack'[k] = under[k]
  <2>1. under \in Seq(Jobs!Frames) /\ new \in Jobs!Frames /\ Len(under) = n
    BY <1>2, <1>4
  <2> QED BY <1>3, <2>1, AppendIs
<1>6. \A k \in 1 .. Len(stack') : /\ stack'[k].of = "SIGCHLD" <=> stack'[k].step = "reap"
                                  /\ stack'[k].step \in {"spawn", "kill"} => stack'[k].i > 0
  <2> TAKE k \in 1 .. Len(stack')
  <2>1. k \in 1 .. n \/ k = n + 1
    BY <1>1, <1>5
  <2> QED BY <1>2, <1>4, <1>5, <2>1
<1> QED BY <1>2, <1>4, <1>5, <1>6 DEF JobsStack, n

LEMMA JobsDeliver ==
  ASSUME JobsInv, NEW sig \in Jobs!Signals, Jobs!Deliver(sig) PROVE JobsInv'
<1>1. Jobs!Alive /\ pending' = pending \ {sig} /\ Jobs!Zombies' = Jobs!Zombies
      /\ UNCHANGED <<children, running, child, sigterm, inherited, sent>>
  BY DEF Jobs!Deliver, Jobs!Zombies
<1>2. JobsStack' /\ Len(stack') = Len(stack) + 1 /\ stack'[Len(stack) + 1].of = sig
      /\ \A k \in 1 .. Len(stack) : stack'[k].of = stack[k].of
  BY <1>1, StackInterrupted DEF JobsInv
<1>3. Jobs!TypeOK'
  <2>1. \A k \in DOMAIN stack' : stack'[k] \in Jobs!Frames
    BY <1>2 DEF JobsStack
  <2> QED BY <1>1, <2>1 DEF JobsInv, Jobs!TypeOK
<1>4. Len(stack) \in Nat /\ DOMAIN stack = 1 .. Len(stack) /\ DOMAIN stack' = 1 .. Len(stack')
  BY <1>2 DEF JobsInv, JobsStack
<1>5. Jobs!ZombiesReaped'
  <2>1. CASE sig = "SIGCHLD"
    <3>1. Len(stack) + 1 \in DOMAIN stack'
      BY <1>2, <1>4
    <3> QED BY <1>2, <2>1, <3>1 DEF Jobs!ZombiesReaped
  <2>2. CASE sig # "SIGCHLD"
    <3>1. \A k \in DOMAIN stack : k \in DOMAIN stack' /\ stack'[k].of = stack[k].of
      BY <1>2, <1>4
    <3> QED BY <1>1, <2>2, <3>1 DEF Jobs!ZombiesReaped, JobsInv
  <2> QED BY <2>1, <2>2
<1> QED BY <1>2, <1>3, <1>5 DEF JobsInv

LEMMA JobsChild ==
  ASSUME JobsInv, NEW p \in Jobs!Pids, Jobs!ChildSigterm(p) \/ Jobs!ChildKilled(p)
  PROVE  JobsInv'
<1>1. UNCHANGED <<children, running, stack, inherited, sent>>
  BY DEF Jobs!ChildSigterm, Jobs!ChildKilled
<1>2. JobsStack'
  BY <1>1 DEF JobsInv, JobsStack
<1>3. CASE Jobs!ChildSigterm(p)
  <2>1. UNCHANGED <<pending, child>> /\ sigterm' \subseteq Jobs!Pids
    <3>1. \A i \in Jobs!Indices : inherited[p][i] \in Jobs!Pids \cup {0}
      BY DEF JobsInv, Jobs!TypeOK
    <3> QED BY <1>3, <3>1 DEF Jobs!ChildSigterm, JobsInv, Jobs!TypeOK
  <2>2. Jobs!TypeOK'
    BY <1>1, <1>2, <2>1, JobsTypes DEF JobsInv
  <2>3. Jobs!ZombiesReaped'
    BY <1>1, <2>1 DEF JobsInv, Jobs!ZombiesReaped, Jobs!Zombies, Jobs!Alive
  <2> QED BY <1>2, <2>2, <2>3 DEF JobsInv
<1>4. CASE Jobs!ChildKilled(p)
  <2>1. /\ child' = [child EXCEPT ![p] = "zombie"] /\ sigterm' = sigterm \ {p}
        /\ pending' = IF Jobs!Alive THEN pending \cup {"SIGCHLD"} ELSE pending
    BY <1>4 DEF Jobs!ChildKilled
  <2>2. pending' \subseteq Jobs!Signals
    BY <2>1 DEF JobsInv, Jobs!TypeOK, Jobs!Signals
  <2>3. child' \in [Jobs!Pids -> {"none", "running", "zombie", "reaped"}]
    BY <2>1 DEF JobsInv, Jobs!TypeOK
  <2>4. Jobs!TypeOK'
    BY <1>1, <2>1, <2>2, <2>3 DEF JobsInv, Jobs!TypeOK
  <2>5. Jobs!ZombiesReaped'
    BY <1>1, <2>1 DEF Jobs!ZombiesReaped, Jobs!Alive
  <2> QED BY <1>2, <2>4, <2>5 DEF JobsInv
<1> QED BY <1>3, <1>4

LEMMA JobsSignal ==
  ASSUME JobsInv, NEW sig \in Jobs!Signals, Jobs!Signal(sig)
  PROVE  JobsInv'
<1> USE JobsConstants
<1>1. UNCHANGED <<children, running, stack, child, sigterm, inherited>>
      /\ sent' = sent + 1 /\ sent < MaxSignals /\ pending' = pending \cup {sig}
  BY DEF Jobs!Signal
<1>2. Jobs!TypeOK'
  BY <1>1 DEF JobsInv, Jobs!TypeOK
<1>3. Jobs!ZombiesReaped'
  BY <1>1 DEF JobsInv, Jobs!ZombiesReaped, Jobs!Zombies, Jobs!Alive
<1> QED BY <1>1, <1>2, <1>3 DEF JobsInv, JobsStack

LEMMA JobsInvariant == Spec => []JobsInv
<1>1. Init => JobsInv
  <2> SUFFICES ASSUME Jobs!Init PROVE JobsInv
    BY DEF Init
  <2> USE JobsConstants DEF Jobs!Init
  <2> DEFINE f == [of |-> "main", step |-> "spawn", i |-> 1]
  <2>1. f \in Jobs!Frames /\ f.of = "main" /\ f.step = "spawn" /\ f.i > 0 /\ stack = <<f>>
    BY DEF Jobs!Frames
  <2> HIDE DEF f
  <2>2. stack \in Seq(Jobs!Frames) /\ Len(stack) = 1 /\ stack[1] = f
    BY <2>1
  <2>3. JobsStack
    BY <2>1, <2>2 DEF JobsStack
  <2>4. Jobs!Zombies = {}
    BY DEF Jobs!Zombies
  <2>5. Jobs!TypeOK
    BY <2>2 DEF Jobs!TypeOK, Jobs!Nobody
  <2> QED BY <2>3, <2>4, <2>5 DEF JobsInv, Jobs!ZombiesReaped
<1>2. JobsInv /\ [Next]_vars => JobsInv'
  <2> SUFFICES ASSUME JobsInv, [Next]_vars PROVE JobsInv'
    OBVIOUS
  <2>1. CASE UNCHANGED controlled
    BY <2>1 DEF JobsInv, JobsStack, Jobs!TypeOK, Jobs!ZombiesReaped, Jobs!Zombies, Jobs!Alive, controlled
  <2>2. CASE Jobs!ParentStep
    BY <2>2, JobsSpawn, JobsKill, JobsStop, JobsMain, JobsReap, JobsDeliver DEF Jobs!ParentStep
  <2> QED BY JobsMove, <2>1, <2>2, JobsChild, JobsSignal DEF Jobs!Next
<1> QED BY <1>1, <1>2, PTL DEF Spec

\* controller.c: in every reachable state of the job controller, for any
\* numbers of children and signals and however the handlers nest, a child that
\* ended has its SIGCHLD pending or handle_sigchld still to call waitpid.
THEOREM ChildrenAreReaped == Spec => []ZombiesReaped
<1>1. JobsInv => ZombiesReaped
  BY DEF JobsInv, ZombiesReaped
<1> QED BY <1>1, JobsInvariant, PTL
-----------------------------------------------------------------------------
(* The counter.                                                            *)

\* The increments made, numbered for each worker.
Made(w) == increments - todo[w] + (IF step[w] = "unlock" THEN 1 ELSE 0)
Increments == {x \in Workers \X (1 .. increments) : x[2] <= Made(x[1])}

Critical == {"load", "store", "unlock"}

\* The semaphore or mutex has at most one holder.
CounterLock ==
  /\ \A w \in Workers : step[w] \in Critical => sem = 0 /\ locking # "atomic" /\ todo[w] > 0
  /\ \A v, w \in Workers : step[v] \in Critical /\ step[w] \in Critical => v = w

\* What a worker loaded is the counter as it stores the next value, and the
\* counter is the number of increments made.
CounterInv ==
  /\ locking \in {"semaphore", "mutex", "atomic"} /\ sem \in {0, 1}
  /\ step \in [Workers -> {"none", "failed", "test", "load", "store", "unlock", "exit"}]
  /\ register \in [Workers -> Nat] /\ todo \in [Workers -> 0 .. increments]
  /\ final \in Nat \cup {-1}
  /\ CounterLock
  /\ \A w \in Workers : step[w] = "store" => register[w] = shared_total
  /\ \A w \in Workers : /\ step[w] = "exit" => todo[w] = 0
                        /\ step[w] \in {"none", "failed"} => todo[w] = increments
  /\ shared_total = Cardinality(Increments)
  /\ final # -1 => /\ \A w \in Workers : step[w] \in {"failed", "exit"}
                   /\ final = shared_total

LEMMA CounterConstants == IsFiniteSet(Workers) /\ increments \in Nat \ {0}
<1>1. \A S : Counter!IsFiniteSet(S) = IsFiniteSet(S)
  BY DEF IsFiniteSet, Counter!IsFiniteSet
<1> QED BY <1>1, MCAssumption DEF Counter!ConstantsOK

LEMMA CounterCardinality == \A S : Counter!Cardinality(S) = Cardinality(S)
BY DEF Cardinality, Counter!Cardinality

LEMMA IncrementsFinite ==
  /\ IsFiniteSet(Increments) /\ Cardinality(Increments) \in Nat
  /\ IsFiniteSet(Workers \X (1 .. increments))
  /\ Cardinality(Workers \X (1 .. increments)) = Cardinality(Workers) * increments
  /\ Cardinality(Increments) <= Cardinality(Workers) * increments
<1>1. IsFiniteSet(1 .. increments) /\ Cardinality(1 .. increments) = increments
  BY CounterConstants, FS_Interval
<1>2. IsFiniteSet(Workers \X (1 .. increments))
      /\ Cardinality(Workers \X (1 .. increments)) = Cardinality(Workers) * increments
  BY <1>1, CounterConstants, FS_Product
<1>3. Increments \in SUBSET (Workers \X (1 .. increments))
  BY DEF Increments
<1>4. IsFiniteSet(Increments) /\ Cardinality(Increments) <= Cardinality(Workers \X (1 .. increments))
  BY <1>2, <1>3, FS_Subset
<1>5. Cardinality(Increments) \in Nat
  BY <1>4, FS_CardinalityType
<1> QED BY <1>2, <1>4, <1>5

LEMMA SameIncrements ==
  ASSUME \A w \in Workers : Made(w)' = Made(w)
  PROVE  Increments' = Increments
BY DEF Increments

\* A worker that makes its next increment adds one to them.
LEMMA OneIncrement ==
  ASSUME NEW w \in Workers, Made(w) \in Nat, Made(w) < increments,
         \A v \in Workers : Made(v)' = IF v = w THEN Made(w) + 1 ELSE Made(v)
  PROVE  Cardinality(Increments') = Cardinality(Increments) + 1
<1> DEFINE m == Made(w)
<1>1. m \in Nat /\ m + 1 \in 1 .. increments /\ increments \in Nat
  BY CounterConstants
<1>2. <<w, m + 1>> \notin Increments
  BY <1>1 DEF Increments
<1>3. Increments' = Increments \cup {<<w, m + 1>>}
  <2>1. \A x \in Workers \X (1 .. increments) :
          x \in Increments' <=> x \in Increments \/ x = <<w, m + 1>>
    <3> TAKE x \in Workers \X (1 .. increments)
    <3>1. x[1] \in Workers /\ x[2] \in 1 .. increments /\ x = <<x[1], x[2]>>
      OBVIOUS
    <3>2. /\ x \in Increments' <=> x[2] <= Made(x[1])'
          /\ x \in Increments <=> x[2] <= Made(x[1])
      BY DEF Increments
    <3>3. CASE x[1] # w
      BY <3>1, <3>2, <3>3
    <3>4. CASE x[1] = w
      BY <3>1, <3>2, <3>4, <1>1
    <3> QED BY <3>3, <3>4
  <2>2. <<w, m + 1>> \in Workers \X (1 .. increments)
    BY <1>1
  <2> QED BY <2>1, <2>2 DEF Increments
<1> QED BY <1>2, <1>3, IncrementsFinite, FS_AddElement

\* Everything but the numbers, for a worker that goes from one label to another.
LEMMA CounterGoes ==
  ASSUME CounterInv, NEW w \in Workers, NEW from, NEW to, Counter!Go(w, from, to),
         to \in {"none", "failed", "test", "load", "store", "unlock", "exit"}
  PROVE  /\ step' \in [Workers -> {"none", "failed", "test", "load", "store", "unlock", "exit"}]
         /\ step[w] = from /\ step'[w] = to
         /\ \A v \in Workers \ {w} : step'[v] = step[v]
BY DEF Counter!Go, CounterInv

\* A worker that is not done keeps the parent waiting.
LEMMA NotReported ==
  ASSUME CounterInv, NEW w \in Workers, step[w] \notin {"failed", "exit"}
  PROVE  final = -1
BY DEF CounterInv

LEMMA CounterStart == ASSUME CounterInv, NEW w \in Workers, Counter!Start(w) PROVE CounterInv'
<1>1. PICK to \in {"test", "failed"} : Counter!Go(w, "none", to)
  BY DEF Counter!Start
<1>2. UNCHANGED <<locking, sem, shared_total, register, todo, final>>
  BY DEF Counter!Start
<1>3. /\ step' \in [Workers -> {"none", "failed", "test", "load", "store", "unlock", "exit"}]
      /\ step[w] = "none" /\ step'[w] = to
      /\ \A v \in Workers \ {w} : step'[v] = step[v]
  BY <1>1, CounterGoes
<1>4. Increments' = Increments
  <2>1. \A v \in Workers : Made(v)' = Made(v)
    BY <1>2, <1>3 DEF Made
  <2> QED BY <2>1, SameIncrements
<1>5. final = -1
  BY <1>3, NotReported
<1>6. CounterLock'
  BY <1>2, <1>3 DEF CounterInv, CounterLock, Critical
<1> QED BY <1>2, <1>3, <1>4, <1>5, <1>6 DEF CounterInv

LEMMA CounterLocks == ASSUME CounterInv, NEW w \in Workers, Counter!lock(w) PROVE CounterInv'
<1>1. Counter!Go(w, "test", "load")
  BY DEF Counter!lock
<1>2. UNCHANGED <<locking, shared_total, register, todo, final>>
      /\ sem = 1 /\ sem' = 0 /\ locking # "atomic" /\ todo[w] > 0
  BY DEF Counter!lock
<1>3. /\ step' \in [Workers -> {"none", "failed", "test", "load", "store", "unlock", "exit"}]
      /\ step[w] = "test" /\ step'[w] = "load"
      /\ \A v \in Workers \ {w} : step'[v] = step[v]
  BY <1>1, CounterGoes
<1>4. Increments' = Increments
  <2>1. \A v \in Workers : Made(v)' = Made(v)
    BY <1>2, <1>3 DEF Made
  <2> QED BY <2>1, SameIncrements
<1>5. final = -1
  BY <1>3, NotReported
<1>6. CounterLock'
  BY <1>2, <1>3 DEF CounterInv, CounterLock, Critical
<1> QED BY <1>2, <1>3, <1>4, <1>5, <1>6 DEF CounterInv

LEMMA CounterLoads == ASSUME CounterInv, NEW w \in Workers, Counter!Load(w) PROVE CounterInv'
<1>1. Counter!Go(w, "load", "store") /\ register' = [register EXCEPT ![w] = shared_total]
  BY DEF Counter!Load
<1>2. UNCHANGED <<locking, sem, shared_total, todo, final>>
  BY DEF Counter!Load
<1>3. /\ step' \in [Workers -> {"none", "failed", "test", "load", "store", "unlock", "exit"}]
      /\ step[w] = "load" /\ step'[w] = "store"
      /\ \A v \in Workers \ {w} : step'[v] = step[v]
  BY <1>1, CounterGoes
<1>4. Increments' = Increments
  <2>1. \A v \in Workers : Made(v)' = Made(v)
    BY <1>2, <1>3 DEF Made
  <2> QED BY <2>1, SameIncrements
<1>5. final = -1
  BY <1>3, NotReported
<1>6. CounterLock'
  BY <1>2, <1>3 DEF CounterInv, CounterLock, Critical
<1>7. shared_total \in Nat
  BY IncrementsFinite DEF CounterInv
<1>8. register' \in [Workers -> Nat] /\ register'[w] = shared_total
      /\ \A v \in Workers \ {w} : register'[v] = register[v]
  BY <1>1, <1>7 DEF CounterInv
<1> QED BY <1>2, <1>3, <1>4, <1>5, <1>6, <1>8 DEF CounterInv

LEMMA CounterIncrements ==
  ASSUME CounterInv, NEW w \in Workers, Counter!Increment(w) PROVE CounterInv'
<1>1. Counter!Go(w, "store", "unlock") /\ shared_total' = register[w] + 1
  BY DEF Counter!Increment
<1>2. UNCHANGED <<locking, sem, register, todo, final>>
  BY DEF Counter!Increment
<1>3. /\ step' \in [Workers -> {"none", "failed", "test", "load", "store", "unlock", "exit"}]
      /\ step[w] = "store" /\ step'[w] = "unlock"
      /\ \A v \in Workers \ {w} : step'[v] = step[v]
  BY <1>1, CounterGoes
<1>4. Cardinality(Increments') = Cardinality(Increments) + 1
  <2>1. todo[w] \in 0 .. increments /\ todo[w] > 0 /\ increments \in Nat
    BY <1>3, CounterConstants DEF CounterInv, CounterLock, Critical
  <2>2. Made(w) \in Nat /\ Made(w) < increments
    BY <1>3, <2>1 DEF Made
  <2>3. \A v \in Workers : Made(v)' = IF v = w THEN Made(w) + 1 ELSE Made(v)
    BY <1>2, <1>3, <2>1 DEF Made
  <2> QED BY <2>2, <2>3, OneIncrement
<1>5. final = -1
  BY <1>3, NotReported
<1>6. CounterLock'
  BY <1>2, <1>3 DEF CounterInv, CounterLock, Critical
<1>7. shared_total' = Cardinality(Increments')
  BY <1>1, <1>3, <1>4 DEF CounterInv
<1>8. \A v \in Workers : step'[v] # "store"
  BY <1>3 DEF CounterInv, CounterLock, Critical
<1> QED BY <1>2, <1>3, <1>5, <1>6, <1>7, <1>8 DEF CounterInv

LEMMA CounterUnlocks == ASSUME CounterInv, NEW w \in Workers, Counter!unlock(w) PROVE CounterInv'
<1>1. Counter!Go(w, "unlock", "test") /\ todo' = [todo EXCEPT ![w] = @ - 1]
  BY DEF Counter!unlock
<1>2. UNCHANGED <<locking, shared_total, register, final>> /\ sem' = 1
  BY DEF Counter!unlock
<1>3. /\ step' \in [Workers -> {"none", "failed", "test", "load", "store", "unlock", "exit"}]
      /\ step[w] = "unlock" /\ step'[w] = "test"
      /\ \A v \in Workers \ {w} : step'[v] = step[v]
  BY <1>1, CounterGoes
<1>4. todo[w] \in 0 .. increments /\ todo[w] > 0 /\ increments \in Nat
  BY <1>3, CounterConstants DEF CounterInv, CounterLock, Critical
<1>5. todo' \in [Workers -> 0 .. increments] /\ todo'[w] = todo[w] - 1
      /\ \A v \in Workers \ {w} : todo'[v] = todo[v]
  BY <1>1, <1>4 DEF CounterInv
<1>6. Increments' = Increments
  <2>1. \A v \in Workers : Made(v)' = Made(v)
    BY <1>3, <1>4, <1>5 DEF Made
  <2> QED BY <2>1, SameIncrements
<1>7. final = -1
  BY <1>3, NotReported
<1>8. CounterLock'
  BY <1>2, <1>3, <1>5 DEF CounterInv, CounterLock, Critical
<1> QED BY <1>2, <1>3, <1>5, <1>6, <1>7, <1>8 DEF CounterInv

LEMMA CounterAtomic ==
  ASSUME CounterInv, NEW w \in Workers, Counter!atomic_worker(w) PROVE CounterInv'
<1>1. shared_total' = shared_total + 1 /\ todo' = [todo EXCEPT ![w] = @ - 1]
      /\ todo[w] > 0 /\ step[w] = "test" /\ locking = "atomic"
  BY DEF Counter!atomic_worker
<1>2. UNCHANGED <<locking, sem, step, register, final>>
  BY DEF Counter!atomic_worker
<1>3. todo[w] \in 0 .. increments /\ increments \in Nat
  BY CounterConstants DEF CounterInv
<1>4. todo' \in [Workers -> 0 .. increments] /\ todo'[w] = todo[w] - 1
      /\ \A v \in Workers \ {w} : todo'[v] = todo[v]
  BY <1>1, <1>3 DEF CounterInv
<1>5. Cardinality(Increments') = Cardinality(Increments) + 1
  <2>1. Made(w) \in Nat /\ Made(w) < increments
    BY <1>1, <1>3 DEF Made
  <2>2. \A v \in Workers : Made(v)' = IF v = w THEN Made(w) + 1 ELSE Made(v)
    BY <1>1, <1>2, <1>3, <1>4 DEF Made
  <2> QED BY <2>1, <2>2, OneIncrement
<1>6. final = -1
  BY <1>1, NotReported
<1>7. CounterLock' /\ \A v \in Workers : step[v] # "store"
  BY <1>1, <1>2 DEF CounterInv, CounterLock, Critical
<1>8. shared_total' = Cardinality(Increments')
  BY <1>1, <1>5 DEF CounterInv
<1> QED BY <1>1, <1>2, <1>4, <1>6, <1>7, <1>8 DEF CounterInv

LEMMA CounterExit == ASSUME CounterInv, NEW w \in Workers, Counter!Exit(w) PROVE CounterInv'
<1>1. Counter!Go(w, "test", "exit") /\ todo[w] = 0
  BY DEF Counter!Exit
<1>2. UNCHANGED <<locking, sem, shared_total, register, todo, final>>
  BY DEF Counter!Exit
<1>3. /\ step' \in [Workers -> {"none", "failed", "test", "load", "store", "unlock", "exit"}]
      /\ step[w] = "test" /\ step'[w] = "exit"
      /\ \A v \in Workers \ {w} : step'[v] = step[v]
  BY <1>1, CounterGoes
<1>4. Increments' = Increments
  <2>1. \A v \in Workers : Made(v)' = Made(v)
    BY <1>2, <1>3 DEF Made
  <2> QED BY <2>1, SameIncrements
<1>5. final = -1
  BY <1>3, NotReported
<1>6. CounterLock'
  BY <1>2, <1>3 DEF CounterInv, CounterLock, Critical
<1> QED BY <1>1, <1>2, <1>3, <1>4, <1>5, <1>6 DEF CounterInv

LEMMA CounterInvariant == Spec => []CounterInv
<1>1. Init => CounterInv
  <2> SUFFICES ASSUME Counter!Init PROVE CounterInv
    BY DEF Init
  <2> USE DEF Counter!Init
  <2>1. \A w \in Workers : Made(w) = 0
    BY CounterConstants DEF Made
  <2>2. Increments = {}
    BY <2>1 DEF Increments
  <2>3. CounterLock
    BY DEF CounterLock, Critical
  <2>4. Cardinality(Increments) = 0
    BY <2>2, FS_EmptySet
  <2> QED BY <2>3, <2>4, CounterConstants DEF CounterInv
<1>2. CounterInv /\ [Next]_vars => CounterInv'
  <2> SUFFICES ASSUME CounterInv, [Next]_vars PROVE CounterInv'
    OBVIOUS
  <2>1. CASE UNCHANGED counted
    <3>1. Increments' = Increments
      BY <2>1 DEF Increments, Made, counted
    <3> QED BY <2>1, <3>1 DEF CounterInv, CounterLock, counted
  <2>2. CASE Counter!Report
    <3>1. Increments' = Increments
      BY <2>2 DEF Increments, Made, Counter!Report
    <3>2. shared_total \in Nat
      BY IncrementsFinite DEF CounterInv
    <3> QED BY <2>2, <3>1, <3>2 DEF CounterInv, CounterLock, Counter!Report
  <2>3. ASSUME NEW w \in Workers, Counter!Start(w) \/ Counter!Worker(w) PROVE CounterInv'
    BY <2>3, CounterStart, CounterLocks, CounterLoads, CounterIncrements, CounterUnlocks,
       CounterAtomic, CounterExit DEF Counter!Worker
  <2> QED BY CounterMoves, <2>1, <2>2, <2>3 DEF Counter!Next
<1> QED BY <1>1, <1>2, PTL DEF Spec

LEMMA CounterTypes == CounterInv => Counter!TypeOK
<1> SUFFICES ASSUME CounterInv PROVE Counter!TypeOK
  OBVIOUS
<1> DEFINE all == Cardinality(Workers) * increments
<1>1. shared_total \in Nat /\ shared_total <= all /\ all \in Nat
  <2>1. all = Cardinality(Workers \X (1 .. increments))
    BY IncrementsFinite
  <2>2. Cardinality(Workers \X (1 .. increments)) \in Nat
    BY IncrementsFinite, FS_CardinalityType
  <2> QED BY <2>1, <2>2, IncrementsFinite DEF CounterInv
<1>2. Counter!Cardinality(Workers) * increments = all
  BY CounterCardinality
<1> HIDE DEF all
<1>3. shared_total \in 0 .. all
  BY <1>1
<1> QED BY <1>2, <1>3 DEF CounterInv, Counter!TypeOK

\* When all are done, the increments are those of the workers that started.
LEMMA CounterWhole == CounterInv => Counter!NothingLost
<1> SUFFICES ASSUME CounterInv, final # -1 PROVE final = Counter!Cardinality(Counter!Started) * increments
  BY DEF Counter!NothingLost
<1>1. Increments = Counter!Started \X (1 .. increments)
  <2>1. \A w \in Workers : Made(w) = IF step[w] = "exit" THEN increments ELSE 0
    BY CounterConstants DEF CounterInv, Made
  <2>2. \A w \in Workers : w \in Counter!Started <=> step[w] = "exit"
    BY DEF CounterInv, Counter!Started
  <2>3. \A x \in Workers \X (1 .. increments) : x \in Increments <=> x[1] \in Counter!Started
    BY <2>1, <2>2, CounterConstants DEF Increments
  <2> QED BY <2>3 DEF Increments, Counter!Started
<1>2. IsFiniteSet(1 .. increments) /\ Cardinality(1 .. increments) = increments
  BY CounterConstants, FS_Interval
<1>3. IsFiniteSet(Counter!Started)
  BY CounterConstants, FS_Subset DEF Counter!Started
<1>4. Cardinality(Increments) = Cardinality(Counter!Started) * increments
  BY <1>1, <1>2, <1>3, FS_Product
<1> QED BY <1>4, CounterCardinality DEF CounterInv
-----------------------------------------------------------------------------
(* The message in shared memory.                                           *)

Segments == [ready : {0, 1}, text : [1 .. 2 -> Texts \cup {0}], length : Texts \cup {0}]

\* While the message is written the flag is down; once it is up the message
\* is whole.
ShmWritten ==
  /\ writer \in {"attached", "copy", "copied", "publish", "wait"} => segment # <<>>
  /\ writer \in {"copy", "copied", "publish"} => segment.ready = 0
  /\ writer \in {"copied", "publish"} => segment.text[1] = text
  /\ writer = "publish" => segment.text[2] = text /\ segment.length = text
  /\ segment # <<>> /\ segment.ready = 1 =>
       segment.text[1] # 0 /\ segment.text[2] = segment.text[1] /\ segment.length = segment.text[1]

\* What the reader has read is that message, until the flag is cleared.
ShmRead ==
  /\ reader \in {"waiting", "read", "reading"} => segment # <<>>
  /\ reader \in {"read", "reading"} /\ seen # 0 => segment.ready = 1
  /\ reader = "reading" /\ seen # 0 => got[1] = segment.text[1]

ShmInv == Shm!TypeOK /\ ShmWritten /\ ShmRead /\ Shm!MessageWhole

LEMMA ShmConstants == Texts \subseteq Nat \ {0} /\ Texts # {} /\ MaxRuns \in Nat \ {0}
BY MCAssumption DEF Shm!ConstantsOK

LEMMA SegmentIsThere == \A s \in Segments : s # <<>>
<1> SUFFICES ASSUME NEW s \in Segments, s = <<>> PROVE FALSE
  OBVIOUS
<1>1. "ready" \in DOMAIN s
  BY DEF Segments
<1>2. DOMAIN s = {}
  OBVIOUS
<1> QED BY <1>1, <1>2

\* The initial segment.
LEMMA ZerosIs ==
  /\ Shm!Zeros \in Segments /\ Shm!Zeros.ready = 0
<1>1. <<0, 0>> \in [1 .. 2 -> Texts \cup {0}]
  OBVIOUS
<1> QED BY <1>1 DEF Shm!Zeros, Segments

LEMMA ShmInitially == ASSUME Shm!Init PROVE ShmInv
<1> USE ShmConstants
<1>1. <<0, 0>> \in [1 .. 2 -> Texts \cup {0}]
  OBVIOUS
<1>2. Shm!TypeOK
  BY <1>1, ZerosIs DEF Shm!Init, Shm!TypeOK, Segments
<1>3. ShmWritten
  BY ZerosIs, SegmentIsThere DEF Shm!Init, ShmWritten
<1>4. ShmRead /\ Shm!MessageWhole
  BY DEF Shm!Init, ShmRead, Shm!MessageWhole
<1> QED BY <1>2, <1>3, <1>4 DEF ShmInv

\* The writer sets a field of the segment; the reader stands still.
LEMMA ShmAttach == ASSUME ShmInv, Shm!Attach PROVE ShmInv'
<1> USE ShmConstants
<1>1. /\ writer = "start" /\ writer' = "attached" /\ runs < MaxRuns /\ runs' = runs + 1 /\ text' \in Texts
      /\ segment' = (IF segment = <<>> THEN Shm!Zeros ELSE segment)
      /\ UNCHANGED <<mode, reader, got, length, seen>>
  BY DEF Shm!Attach
<1>2. segment' \in Segments /\ segment' # <<>> /\ (segment # <<>> => segment' = segment)
      /\ (segment = <<>> => segment'.ready = 0)
  BY <1>1, ZerosIs, SegmentIsThere DEF ShmInv, Shm!TypeOK, Segments
<1>3. Shm!TypeOK'
  BY <1>1, <1>2 DEF ShmInv, Shm!TypeOK, Segments
<1>4. ShmWritten' /\ ShmRead' /\ Shm!MessageWhole'
  BY <1>1, <1>2 DEF ShmInv, ShmWritten, ShmRead, Shm!MessageWhole
<1> QED BY <1>3, <1>4 DEF ShmInv

LEMMA ShmUnready == ASSUME ShmInv, Shm!Unready PROVE ShmInv'
<1> USE ShmConstants
<1>1. /\ writer = "attached" /\ writer' = "copy" /\ seen' = 0
      /\ segment' = [segment EXCEPT !.ready = 0]
      /\ UNCHANGED <<mode, text, runs, reader, got, length>>
  BY DEF Shm!Unready
<1>2. segment \in Segments
  BY <1>1 DEF ShmInv, ShmWritten, Shm!TypeOK, Segments
<1>3. segment' \in Segments /\ segment'.ready = 0 /\ segment' # <<>>
  BY <1>1, <1>2, SegmentIsThere DEF Segments
<1>4. Shm!TypeOK'
  BY <1>1, <1>3 DEF ShmInv, Shm!TypeOK, Segments
<1>5. ShmWritten' /\ ShmRead' /\ Shm!MessageWhole'
  BY <1>1, <1>3 DEF ShmInv, ShmWritten, ShmRead, Shm!MessageWhole
<1> QED BY <1>4, <1>5 DEF ShmInv

LEMMA ShmCopy == ASSUME ShmInv, Shm!Copy PROVE ShmInv'
<1> USE ShmConstants
<1>1. /\ writer \in {"copy", "copied"} /\ UNCHANGED <<mode, text, runs, reader, got, length, seen>>
  BY DEF Shm!Copy, Shm!Quiet
<1>2. segment \in Segments /\ segment.ready = 0 /\ segment.text \in [1 .. 2 -> Texts \cup {0}]
      /\ text \in Texts /\ (writer = "copied" => segment.text[1] = text)
  BY <1>1 DEF ShmInv, ShmWritten, Shm!TypeOK, Segments
<1>3. CASE writer = "copy"
  <2>1. writer' = "copied" /\ segment' = [segment EXCEPT !.text[1] = text]
    BY <1>3 DEF Shm!Copy
  <2>2. segment' \in Segments /\ segment'.ready = 0 /\ segment'.text[1] = text
    BY <1>2, <2>1 DEF Segments
  <2>3. Shm!TypeOK' /\ segment' # <<>>
    BY <1>1, <2>1, <2>2, SegmentIsThere DEF ShmInv, Shm!TypeOK, Segments
  <2>4. ShmWritten' /\ ShmRead' /\ Shm!MessageWhole'
    BY <1>1, <1>2, <2>1, <2>2, <2>3 DEF ShmInv, ShmWritten, ShmRead, Shm!MessageWhole
  <2> QED BY <2>3, <2>4 DEF ShmInv
<1>4. CASE writer = "copied"
  <2>1. writer' = "publish" /\ segment' = [segment EXCEPT !.text[2] = text, !.length = text]
    BY <1>4 DEF Shm!Copy
  <2>2. segment' \in Segments /\ segment'.ready = 0 /\ segment'.text[1] = text
        /\ segment'.text[2] = text /\ segment'.length = text
    <3> DEFINE t == [segment.text EXCEPT ![2] = text]
    <3>1. t \in [1 .. 2 -> Texts \cup {0}] /\ t[1] = text /\ t[2] = text
      BY <1>2, <1>4
    <3>2. segment' = [segment EXCEPT !.text = t, !.length = text]
      BY <2>1
    <3> HIDE DEF t
    <3>3. segment' \in Segments /\ segment'.ready = 0 /\ segment'.text = t /\ segment'.length = text
      BY <1>2, <3>1, <3>2 DEF Segments
    <3> QED BY <3>1, <3>3
  <2>3. Shm!TypeOK' /\ segment' # <<>>
    BY <1>1, <2>1, <2>2, SegmentIsThere DEF ShmInv, Shm!TypeOK, Segments
  <2>4. ShmWritten' /\ ShmRead' /\ Shm!MessageWhole'
    <3>1. ShmWritten'
      BY <1>1, <1>2, <2>1, <2>2, <2>3 DEF ShmWritten
    <3>2. reader \in {"read", "reading"} => seen = 0
      BY <1>2 DEF ShmInv, ShmRead
    <3>3. ShmRead'
      BY <1>1, <2>3, <3>2 DEF ShmRead
    <3>4. Shm!MessageWhole'
      BY <1>1 DEF ShmInv, Shm!MessageWhole
    <3> QED BY <3>1, <3>3, <3>4
  <2> QED BY <2>3, <2>4 DEF ShmInv
<1> QED BY <1>1, <1>3, <1>4

LEMMA ShmPublish ==
  ASSUME ShmInv, NEW next \in {"start", "wait"}, Shm!Publish(next) PROVE ShmInv'
<1> USE ShmConstants
<1>1. /\ writer = "publish" /\ writer' = next /\ segment' = [segment EXCEPT !.ready = 1]
      /\ UNCHANGED <<mode, text, runs, reader, got, length, seen>>
  BY DEF Shm!Publish, Shm!Quiet
<1>2. segment \in Segments /\ segment.ready = 0 /\ text \in Texts
      /\ segment.text[1] = text /\ segment.text[2] = text /\ segment.length = text
  BY <1>1 DEF ShmInv, ShmWritten, Shm!TypeOK, Segments
<1>3. segment' \in Segments /\ segment'.ready = 1 /\ segment'.text = segment.text
      /\ segment'.length = segment.length
  BY <1>1, <1>2 DEF Segments
<1>4. Shm!TypeOK' /\ segment' # <<>>
  BY <1>1, <1>3, SegmentIsThere DEF ShmInv, Shm!TypeOK, Segments
<1>5. ShmWritten' /\ ShmRead' /\ Shm!MessageWhole'
  BY <1>1, <1>2, <1>3, <1>4 DEF ShmInv, ShmWritten, ShmRead, Shm!MessageWhole
<1> QED BY <1>4, <1>5 DEF ShmInv

LEMMA ShmForkEnd == ASSUME ShmInv, Shm!ForkEnd PROVE ShmInv'
BY DEF ShmInv, Shm!ForkEnd, Shm!Quiet, Shm!TypeOK, ShmWritten, ShmRead, Shm!MessageWhole

LEMMA ShmReads ==
  ASSUME ShmInv, Shm!ReaderAttach \/ Shm!SeeReady \/ Shm!ReadMessage PROVE ShmInv'
<1> USE ShmConstants
<1>1. UNCHANGED <<mode, segment, writer, text, runs>>
  BY DEF Shm!ReaderAttach, Shm!SeeReady, Shm!ReadMessage
<1>2. ShmWritten'
  BY <1>1 DEF ShmInv, ShmWritten
<1>3. CASE Shm!ReaderAttach
  BY <1>1, <1>2, <1>3 DEF ShmInv, Shm!ReaderAttach, Shm!TypeOK, ShmRead, Shm!MessageWhole
<1>4. CASE Shm!SeeReady
  BY <1>1, <1>2, <1>4 DEF ShmInv, Shm!SeeReady, Shm!TypeOK, ShmRead, Shm!MessageWhole
<1>5. CASE Shm!ReadMessage
  <2>1. segment \in Segments /\ segment # <<>>
    BY <1>5 DEF Shm!ReadMessage, ShmInv, ShmRead, Shm!TypeOK, Segments
  <2>2. segment.text[1] \in Texts \cup {0} /\ segment.text[2] \in Texts \cup {0}
        /\ segment.length \in Texts \cup {0}
    BY <2>1 DEF Segments
  <2>3. got \in [1 .. 2 -> Texts \cup {0}] /\ seen' = seen
    BY <1>5 DEF ShmInv, Shm!TypeOK, Shm!ReadMessage
  <2>4. CASE reader = "read"
    <3>1. reader' = "reading" /\ got' = [got EXCEPT ![1] = segment.text[1]] /\ length' = length
      BY <1>5, <2>4 DEF Shm!ReadMessage
    <3>2. got' \in [1 .. 2 -> Texts \cup {0}] /\ got'[1] = segment.text[1]
      BY <2>2, <2>3, <3>1
    <3>3. Shm!TypeOK'
      BY <1>1, <2>3, <3>1, <3>2 DEF ShmInv, Shm!TypeOK
    <3> QED BY <1>1, <1>2, <2>1, <2>3, <2>4, <3>1, <3>2, <3>3 DEF ShmInv, ShmRead, Shm!MessageWhole
  <2>5. CASE reader = "reading"
    <3>1. reader' = "done" /\ got' = [got EXCEPT ![2] = segment.text[2]] /\ length' = segment.length
      BY <1>5, <2>5 DEF Shm!ReadMessage
    <3>2. got' \in [1 .. 2 -> Texts \cup {0}] /\ got'[1] = got[1] /\ got'[2] = segment.text[2]
      BY <2>2, <2>3, <3>1
    <3>3. Shm!TypeOK'
      BY <1>1, <2>2, <2>3, <3>1, <3>2 DEF ShmInv, Shm!TypeOK
    <3>4. Shm!MessageWhole'
      BY <2>1, <2>3, <2>5, <3>1, <3>2 DEF ShmInv, ShmRead, ShmWritten, Shm!MessageWhole
    <3> QED BY <1>2, <3>1, <3>3, <3>4 DEF ShmInv, ShmRead
  <2> QED BY <1>5, <2>4, <2>5 DEF Shm!ReadMessage
<1> QED BY <1>3, <1>4, <1>5

LEMMA ShmInvariant == Spec => []ShmInv
<1>1. Init => ShmInv
  BY ShmInitially DEF Init
<1>2. ShmInv /\ [Next]_vars => ShmInv'
  <2> SUFFICES ASSUME ShmInv, [Next]_vars PROVE ShmInv'
    OBVIOUS
  <2>1. CASE UNCHANGED shared
    <3>1. UNCHANGED <<mode, segment, writer, text, runs, reader, got, length, seen>>
      BY <2>1 DEF shared
    <3>2. ShmWritten' = ShmWritten /\ ShmRead' = ShmRead
      BY <3>1 DEF ShmWritten, ShmRead
    <3>3. Shm!TypeOK' = Shm!TypeOK /\ Shm!MessageWhole' = Shm!MessageWhole
      BY <3>1 DEF Shm!TypeOK, Shm!MessageWhole
    <3> QED BY <3>2, <3>3 DEF ShmInv
  <2>2. CASE Shm!WriterStep
    <3>1. \/ Shm!Attach \/ Shm!Unready \/ Shm!Copy \/ Shm!ForkEnd
          \/ \E next \in {"start", "wait"} : Shm!Publish(next)
      BY <2>2 DEF Shm!WriterStep, Shm!shm_writer, Shm!fork_parent
    <3> QED BY <3>1, ShmAttach, ShmUnready, ShmCopy, ShmPublish, ShmForkEnd
  <2>3. CASE Shm!ReaderStep
    BY <2>3, ShmReads DEF Shm!ReaderStep, Shm!shm_reader, Shm!fork_child
  <2> QED BY ShmMoves, <2>1, <2>2, <2>3 DEF Shm!Next
<1> QED BY <1>1, <1>2, PTL DEF Spec
-----------------------------------------------------------------------------
(* The chat over a message queue.                                          *)

ChatTexts == {"hello", "exit"}
ChatMessages == [type : Chat!Types, text : ChatTexts]

\* All that was said was heard; or one message, of type t, is under way.
Delivered == queue.messages = <<>> /\ said[1] = heard[1] /\ said[2] = heard[2]
Underway(t, u, x) ==
  /\ queue.messages = <<[type |-> t, text |-> x]>>
  /\ said[t] = Append(heard[t], x) /\ said[u] = heard[u]

\* The turns: A's, its message under way, B's, its answer under way, the ends.
ChatTurn ==
  \/ Delivered /\ Len(said[1]) = Len(said[2]) /\ a \in {"start", "say"} /\ b \in {"start", "listen", "failed"}
  \/ \E x \in ChatTexts :
       /\ Underway(1, 2, x) /\ Len(said[1]) = Len(said[2]) + 1
       /\ a = (IF x = "exit" THEN "remove" ELSE "listen") /\ b \in {"start", "listen", "failed"}
  \/ /\ Delivered /\ Len(said[1]) = Len(said[2]) + 1
     /\ (a = "listen" /\ b = "say") \/ (a = "remove" /\ b = "left")
  \/ \E x \in ChatTexts :
       /\ Underway(2, 1, x) /\ Len(said[1]) = Len(said[2])
       /\ a = "listen" /\ b = (IF x = "exit" THEN "left" ELSE "listen")
  \/ Delivered /\ Len(said[1]) = Len(said[2]) /\ a = "remove" /\ b = "left"
  \/ a = "left" /\ b \in {"start", "listen", "say", "left", "failed"} /\ queue.messages = <<>>

ChatInv ==
  /\ queue \in [there : BOOLEAN, messages : Seq(ChatMessages)]
  /\ queue.there <=> a \notin {"start", "left"}
  /\ said \in [Chat!Types -> Seq(ChatTexts)] /\ heard \in [Chat!Types -> Seq(ChatTexts)]
  /\ ChatTurn
  /\ Chat!TurnsTaken

LEMMA PrefixOfSelf == ASSUME NEW S, NEW s \in Seq(S) PROVE Chat!IsPrefix(s, s)
BY DEF Chat!IsPrefix

LEMMA PrefixOfAppend ==
  ASSUME NEW S, NEW s \in Seq(S), NEW x \in S, NEW r, r = Append(s, x)
  PROVE  Chat!IsPrefix(s, r)
<1> DEFINE p == SubSeq(s, 1, Len(s)) q == SubSeq(r, 1, Len(s))
<1>1. r \in Seq(S) /\ Len(r) = Len(s) + 1 /\ \A k \in 1 .. Len(s) : r[k] = s[k]
  BY AppendIs
<1>2. Len(s) \in 0 .. Len(s) /\ Len(s) \in 0 .. Len(r)
  BY <1>1
<1>3. p \in Seq(S) /\ Len(p) = Len(s) /\ \A k \in 1 .. Len(s) : p[k] = s[k]
  BY <1>2, PrefixIs
<1>4. q \in Seq(S) /\ Len(q) = Len(s) /\ \A k \in 1 .. Len(s) : q[k] = r[k]
  BY <1>1, <1>2, PrefixIs
<1>5. p = q
  <2> HIDE DEF p, q
  <2>1. \A k \in 1 .. Len(s) : p[k] = q[k]
    BY <1>1, <1>3, <1>4
  <2> QED BY <1>3, <1>4, <2>1, SeqEqual
<1> QED BY <1>1, <1>5 DEF Chat!IsPrefix

\* The turns keep both in step.
LEMMA ChatTurns ==
  ASSUME said \in [Chat!Types -> Seq(ChatTexts)], heard \in [Chat!Types -> Seq(ChatTexts)],
         ChatTurn, a # "left"
  PROVE  Chat!TurnsTaken
<1> USE DEF Chat!Types
<1>1. said[1] \in Seq(ChatTexts) /\ said[2] \in Seq(ChatTexts)
      /\ heard[1] \in Seq(ChatTexts) /\ heard[2] \in Seq(ChatTexts)
  OBVIOUS
<1>2. Len(said[1]) \in Nat /\ Len(said[2]) \in Nat
  BY <1>1
<1>3. Len(said[2]) <= Len(said[1]) /\ Len(said[1]) <= Len(said[2]) + 1
  BY <1>2 DEF ChatTurn
<1>4. ASSUME NEW t \in Chat!Types PROVE Chat!IsPrefix(heard[t], said[t])
  <2>1. said[t] = heard[t] \/ \E x \in ChatTexts : said[t] = Append(heard[t], x)
    BY DEF ChatTurn, Delivered, Underway
  <2> QED BY <1>1, <2>1, PrefixOfSelf, PrefixOfAppend
<1> QED BY <1>3, <1>4 DEF Chat!TurnsTaken

LEMMA ChatTurnsNext ==
  (said \in [Chat!Types -> Seq(ChatTexts)] /\ heard \in [Chat!Types -> Seq(ChatTexts)]
    /\ ChatTurn /\ a # "left")' => Chat!TurnsTaken'
BY ChatTurns, PTL

\* What a send and a receive do to a queue of at most one message.
LEMMA ChatSends ==
  ASSUME ChatInv, NEW t \in Chat!Types, NEW u \in Chat!Types, t # u, NEW x \in ChatTexts,
         Delivered, Chat!Send(t, x)
  PROVE  /\ queue' \in [there : BOOLEAN, messages : Seq(ChatMessages)] /\ queue'.there = queue.there
         /\ said' \in [Chat!Types -> Seq(ChatTexts)] /\ heard' \in [Chat!Types -> Seq(ChatTexts)]
         /\ Underway(t, u, x)'
         /\ Len(said'[t]) = Len(said[t]) + 1 /\ Len(said'[u]) = Len(said[u])
<1> DEFINE m == [type |-> t, text |-> x]
<1>1. m \in ChatMessages
  BY DEF ChatMessages
<1>2. queue' = [queue EXCEPT !.messages = Append(@, m)] /\ queue.messages = <<>>
      /\ said' = [said EXCEPT ![t] = Append(@, x)] /\ heard' = heard
  BY DEF Chat!Send, Delivered
<1> HIDE DEF m
<1>3. Append(<<>>, m) = <<m>> /\ <<m>> \in Seq(ChatMessages)
  BY <1>1
<1>4. queue' = [queue EXCEPT !.messages = <<m>>]
  BY <1>2, <1>3
<1>5. queue' \in [there : BOOLEAN, messages : Seq(ChatMessages)] /\ queue'.there = queue.there
      /\ queue'.messages = <<m>>
  BY <1>3, <1>4 DEF ChatInv
<1>6. said[t] \in Seq(ChatTexts) /\ said[u] \in Seq(ChatTexts)
  BY DEF ChatInv
<1>7. Append(said[t], x) \in Seq(ChatTexts) /\ Len(Append(said[t], x)) = Len(said[t]) + 1
  BY <1>6
<1>8. said'[t] = Append(said[t], x) /\ said'[u] = said[u] /\ said' \in [Chat!Types -> Seq(ChatTexts)]
  BY <1>2, <1>7 DEF ChatInv
<1>9. said[t] = heard[t] /\ said[u] = heard[u]
  BY DEF Delivered, Chat!Types
<1> QED BY <1>2, <1>5, <1>7, <1>8, <1>9 DEF ChatInv, Underway, m

LEMMA NothingReceived ==
  ASSUME queue.messages = <<>>, NEW t, NEW x, Chat!Receive(t, x) PROVE FALSE
BY DEF Chat!Receive

LEMMA RemoveOnly == ASSUME NEW S, NEW m \in S PROVE Chat!RemoveAt(<<m>>, 1) = <<>>
<1>1. Len(<<m>>) = 1
  OBVIOUS
<1>2. SubSeq(<<m>>, 1, 0) = <<>> /\ SubSeq(<<m>>, 2, 1) = <<>>
  BY SubSeqEmpty
<1> QED BY <1>1, <1>2 DEF Chat!RemoveAt

LEMMA ChatReceives ==
  ASSUME ChatInv, NEW v \in Chat!Types, NEW t \in Chat!Types, NEW u \in Chat!Types, t # u,
         NEW x \in ChatTexts, NEW y, Underway(t, u, x), Chat!Receive(v, y)
  PROVE  /\ v = t /\ y = x
         /\ queue' \in [there : BOOLEAN, messages : Seq(ChatMessages)] /\ queue'.there = queue.there
         /\ heard' \in [Chat!Types -> Seq(ChatTexts)] /\ said' = said
         /\ Delivered'
<1> DEFINE m == [type |-> t, text |-> x]
<1>1. m \in ChatMessages /\ m.type = t /\ m.text = x
  BY DEF ChatMessages
<1>2. queue.messages = <<m>>
  BY DEF Underway
<1> HIDE DEF m
<1>3. DOMAIN queue.messages = {1} /\ queue.messages[1] = m
  BY <1>2
<1>4. /\ queue.messages[1].type = v /\ y = queue.messages[1].text
      /\ queue' = [queue EXCEPT !.messages = Chat!RemoveAt(@, 1)]
      /\ heard' = [heard EXCEPT ![v] = Append(@, y)] /\ said' = said
  BY <1>3 DEF Chat!Receive
<1>5. v = t /\ y = x
  BY <1>1, <1>3, <1>4
<1>6. queue' = [queue EXCEPT !.messages = <<>>]
  BY <1>1, <1>2, <1>4, RemoveOnly
<1>7. queue' \in [there : BOOLEAN, messages : Seq(ChatMessages)] /\ queue'.there = queue.there
      /\ queue'.messages = <<>>
  <2>1. <<>> \in Seq(ChatMessages) /\ queue \in [there : BOOLEAN, messages : Seq(ChatMessages)]
    BY DEF ChatInv
  <2> QED BY <1>6, <2>1
<1>8. heard[t] \in Seq(ChatTexts) /\ Append(heard[t], x) \in Seq(ChatTexts)
  BY DEF ChatInv
<1>9. heard' \in [Chat!Types -> Seq(ChatTexts)] /\ heard'[t] = Append(heard[t], x) /\ heard'[u] = heard[u]
  BY <1>4, <1>5, <1>8 DEF ChatInv
<1>10. heard'[t] = said'[t] /\ heard'[u] = said'[u]
  BY <1>4, <1>9 DEF Underway
<1> QED BY <1>4, <1>5, <1>7, <1>9, <1>10 DEF Delivered, Chat!Types

LEMMA ChatA == ASSUME ChatInv, Chat!chata PROVE ChatInv'
<1> USE DEF Chat!Types
<1>0. b' = b /\ said \in [Chat!Types -> Seq(ChatTexts)] /\ heard \in [Chat!Types -> Seq(ChatTexts)]
      /\ queue \in [there : BOOLEAN, messages : Seq(ChatMessages)] /\ ChatTurn
  BY DEF Chat!chata, ChatInv
<1>1. CASE a = "start"
  <2>1. a' = "say" /\ queue' = [queue EXCEPT !.there = TRUE] /\ said' = said /\ heard' = heard
    BY <1>1 DEF Chat!chata
  <2>2. queue' \in [there : BOOLEAN, messages : Seq(ChatMessages)] /\ queue'.there
        /\ queue'.messages = queue.messages
    BY <1>0, <2>1
  <2>3. ChatTurn'
    BY <1>0, <1>1, <2>1, <2>2 DEF ChatTurn, Delivered
  <2>4. Chat!TurnsTaken'
    BY <2>1 DEF ChatInv, Chat!TurnsTaken
  <2> QED BY <1>0, <2>1, <2>2, <2>3, <2>4 DEF ChatInv
<1>2. CASE a = "say"
  <2>1. PICK x \in ChatTexts : Chat!Send(1, x) /\ a' = IF x = "exit" THEN "remove" ELSE "listen"
    BY <1>2 DEF Chat!chata, Chat!Typed, ChatTexts
  <2>2. Delivered /\ Len(said[1]) = Len(said[2]) /\ b \in {"start", "listen", "failed"} /\ queue.there
    BY <1>0, <1>2 DEF ChatTurn, ChatTexts, ChatInv
  <2>3. /\ queue' \in [there : BOOLEAN, messages : Seq(ChatMessages)] /\ queue'.there = queue.there
        /\ said' \in [Chat!Types -> Seq(ChatTexts)] /\ heard' \in [Chat!Types -> Seq(ChatTexts)]
        /\ Underway(1, 2, x)'
        /\ Len(said'[1]) = Len(said[1]) + 1 /\ Len(said'[2]) = Len(said[2])
    <3>1. Chat!Send(1, x) /\ Delivered
      BY <2>1, <2>2
    <3>2. 1 \in Chat!Types /\ 2 \in Chat!Types /\ x \in ChatTexts /\ ChatInv
      OBVIOUS
    <3> QED BY ONLY <3>1, <3>2, ChatSends
  <2>4. ChatTurn'
    BY <1>0, <2>1, <2>2, <2>3 DEF ChatTurn
  <2>5. a' # "left" /\ a' # "start"
    BY <2>1
  <2>6. Chat!TurnsTaken'
    <3>1. (said \in [Chat!Types -> Seq(ChatTexts)] /\ heard \in [Chat!Types -> Seq(ChatTexts)]
            /\ ChatTurn /\ a # "left")'
      BY <2>3, <2>4, <2>5
    <3> QED BY <3>1, ChatTurnsNext
  <2> QED BY <2>2, <2>3, <2>4, <2>5, <2>6 DEF ChatInv
<1>3. CASE a = "listen"
  <2>1. PICK y \in ChatTexts : Chat!Receive(2, y) /\ a' = IF y = "exit" THEN "remove" ELSE "say"
    BY <1>3 DEF Chat!chata, ChatTexts
  <2>2. queue.messages # <<>>
    BY <2>1, NothingReceived
  <2>3. \/ \E x \in ChatTexts : Underway(1, 2, x)
        \/ \E x \in ChatTexts : /\ Underway(2, 1, x) /\ Len(said[1]) = Len(said[2])
                                /\ b = (IF x = "exit" THEN "left" ELSE "listen")
    BY <1>0, <1>3, <2>2 DEF ChatTurn, Delivered
  <2>4. ASSUME NEW x \in ChatTexts, Underway(1, 2, x) PROVE FALSE
    BY <2>1, <2>4, ChatReceives
  <2>5. PICK x \in ChatTexts : /\ Underway(2, 1, x) /\ Len(said[1]) = Len(said[2])
                               /\ b = (IF x = "exit" THEN "left" ELSE "listen")
    BY <2>3, <2>4
  <2>6. /\ y = x
        /\ queue' \in [there : BOOLEAN, messages : Seq(ChatMessages)] /\ queue'.there = queue.there
        /\ heard' \in [Chat!Types -> Seq(ChatTexts)] /\ said' = said
        /\ Delivered'
    BY <2>1, <2>5, ChatReceives
  <2>7. ChatTurn'
    BY <1>0, <2>1, <2>5, <2>6 DEF ChatTurn
  <2>8. a' # "left" /\ a' # "start" /\ queue.there
    BY <1>3, <2>1 DEF ChatInv
  <2>9. Chat!TurnsTaken'
    <3>1. (said \in [Chat!Types -> Seq(ChatTexts)] /\ heard \in [Chat!Types -> Seq(ChatTexts)]
            /\ ChatTurn /\ a # "left")'
      BY <1>0, <2>6, <2>7, <2>8
    <3> QED BY <3>1, ChatTurnsNext
  <2> QED BY <1>0, <2>6, <2>7, <2>8, <2>9 DEF ChatInv
<1>4. CASE a = "remove"
  <2>1. a' = "left" /\ queue' = [there |-> FALSE, messages |-> <<>>] /\ said' = said /\ heard' = heard
    BY <1>4 DEF Chat!chata
  <2>2. <<>> \in Seq(ChatMessages)
    OBVIOUS
  <2>3. queue' \in [there : BOOLEAN, messages : Seq(ChatMessages)] /\ ~queue'.there
        /\ queue'.messages = <<>>
    BY <2>1, <2>2
  <2>4. ChatTurn'
    BY <1>0, <2>1, <2>3 DEF ChatTurn, ChatTexts
  <2>5. Chat!TurnsTaken'
    BY <2>1 DEF ChatInv, Chat!TurnsTaken
  <2> QED BY <1>0, <2>1, <2>3, <2>4, <2>5 DEF ChatInv
<1> QED BY <1>1, <1>2, <1>3, <1>4 DEF Chat!chata

LEMMA ChatB == ASSUME ChatInv, Chat!chatb PROVE ChatInv'
<1> USE DEF Chat!Types
<1>0. a' = a /\ said \in [Chat!Types -> Seq(ChatTexts)] /\ heard \in [Chat!Types -> Seq(ChatTexts)]
      /\ queue \in [there : BOOLEAN, messages : Seq(ChatMessages)] /\ ChatTurn
  BY DEF Chat!chatb, ChatInv
<1>1. CASE (b = "start" /\ queue.there /\ b' = "listen" /\ UNCHANGED <<queue, said, heard>>)
           \/ (b \in {"start", "listen", "say"} /\ ~queue.there /\ b' = "failed"
               /\ UNCHANGED <<queue, said, heard>>)
  <2>1. queue' = queue /\ said' = said /\ heard' = heard
    BY <1>1
  <2>2. ChatTurn'
    <3>1. CASE b = "start" /\ b' = "listen"
      BY <1>0, <2>1, <3>1 DEF ChatTurn, Delivered, Underway
    <3>2. CASE b \in {"start", "listen", "say"} /\ ~queue.there /\ b' = "failed"
      <4>1. a \in {"start", "left"}
        BY <3>2 DEF ChatInv
      <4>2. CASE a = "left"
        BY <1>0, <2>1, <3>2, <4>2 DEF ChatTurn
      <4>3. CASE a = "start"
        BY <1>0, <2>1, <3>2, <4>3 DEF ChatTurn, Delivered
      <4> QED BY <4>1, <4>2, <4>3
    <3> QED BY <1>1, <3>1, <3>2
  <2>3. Chat!TurnsTaken'
    BY <2>1 DEF ChatInv, Chat!TurnsTaken
  <2> QED BY <1>0, <2>1, <2>2, <2>3 DEF ChatInv
<1>2. CASE b = "listen" /\ queue.there
           /\ \E y \in {"hello", "exit"} : Chat!Receive(1, y) /\ b' = IF y = "exit" THEN "left" ELSE "say"
  <2>1. PICK y \in ChatTexts : Chat!Receive(1, y) /\ b' = IF y = "exit" THEN "left" ELSE "say"
    BY <1>2 DEF ChatTexts
  <2>2. queue.messages # <<>> /\ a # "left"
    BY <1>2, <2>1, NothingReceived DEF ChatInv
  <2>3. \/ \E x \in ChatTexts : Underway(2, 1, x)
        \/ \E x \in ChatTexts : /\ Underway(1, 2, x) /\ Len(said[1]) = Len(said[2]) + 1
                                /\ a = (IF x = "exit" THEN "remove" ELSE "listen")
    BY <1>0, <2>2 DEF ChatTurn, Delivered
  <2>4. ASSUME NEW x \in ChatTexts, Underway(2, 1, x) PROVE FALSE
    BY <2>1, <2>4, ChatReceives
  <2>5. PICK x \in ChatTexts : /\ Underway(1, 2, x) /\ Len(said[1]) = Len(said[2]) + 1
                               /\ a = (IF x = "exit" THEN "remove" ELSE "listen")
    BY <2>3, <2>4
  <2>6. /\ y = x
        /\ queue' \in [there : BOOLEAN, messages : Seq(ChatMessages)] /\ queue'.there = queue.there
        /\ heard' \in [Chat!Types -> Seq(ChatTexts)] /\ said' = said
        /\ Delivered'
    BY <2>1, <2>5, ChatReceives
  <2>7. ChatTurn'
    BY <1>0, <2>1, <2>5, <2>6 DEF ChatTurn
  <2>8. Chat!TurnsTaken'
    <3>1. (said \in [Chat!Types -> Seq(ChatTexts)] /\ heard \in [Chat!Types -> Seq(ChatTexts)]
            /\ ChatTurn /\ a # "left")'
      BY <1>0, <2>2, <2>6, <2>7
    <3> QED BY <3>1, ChatTurnsNext
  <2> QED BY <1>0, <2>6, <2>7, <2>8 DEF ChatInv
<1>3. CASE b = "say" /\ queue.there
           /\ \E x \in Chat!Typed(Chat!AnswerType) :
                Chat!Send(Chat!AnswerType, x) /\ b' = IF x = "exit" THEN "left" ELSE "listen"
  <2>1. PICK x \in ChatTexts : Chat!Send(2, x) /\ b' = IF x = "exit" THEN "left" ELSE "listen"
    BY <1>3 DEF Chat!Typed, ChatTexts, Chat!AnswerType
  <2>2. Delivered /\ Len(said[1]) = Len(said[2]) + 1 /\ a = "listen"
    BY <1>0, <1>3 DEF ChatTurn, ChatTexts, ChatInv
  <2>3. /\ queue' \in [there : BOOLEAN, messages : Seq(ChatMessages)] /\ queue'.there = queue.there
        /\ said' \in [Chat!Types -> Seq(ChatTexts)] /\ heard' \in [Chat!Types -> Seq(ChatTexts)]
        /\ Underway(2, 1, x)'
        /\ Len(said'[2]) = Len(said[2]) + 1 /\ Len(said'[1]) = Len(said[1])
    BY <2>1, <2>2, ChatSends
  <2>4. ChatTurn'
    BY <1>0, <2>1, <2>2, <2>3 DEF ChatTurn
  <2>5. Chat!TurnsTaken'
    <3>1. (said \in [Chat!Types -> Seq(ChatTexts)] /\ heard \in [Chat!Types -> Seq(ChatTexts)]
            /\ ChatTurn /\ a # "left")'
      BY <1>0, <2>2, <2>3, <2>4
    <3> QED BY <3>1, ChatTurnsNext
  <2> QED BY <1>0, <2>2, <2>3, <2>4, <2>5 DEF ChatInv
<1> QED BY <1>1, <1>2, <1>3 DEF Chat!chatb

LEMMA ChatInvariant == Spec => []ChatInv
<1>1. Init => ChatInv
  <2> SUFFICES ASSUME Chat!Init PROVE ChatInv
    BY DEF Init
  <2> USE DEF Chat!Init, Chat!Types
  <2>1. queue \in [there : BOOLEAN, messages : Seq(ChatMessages)] /\ ~queue.there
        /\ queue.messages = <<>>
    OBVIOUS
  <2>2. said[1] = <<>> /\ said[2] = <<>> /\ heard[1] = <<>> /\ heard[2] = <<>>
        /\ said \in [Chat!Types -> Seq(ChatTexts)] /\ heard \in [Chat!Types -> Seq(ChatTexts)]
    OBVIOUS
  <2>3. ChatTurn
    BY <2>1, <2>2 DEF ChatTurn, Delivered
  <2> QED BY <2>1, <2>2, <2>3, ChatTurns DEF ChatInv
<1>2. ChatInv /\ [Next]_vars => ChatInv'
  <2> SUFFICES ASSUME ChatInv, [Next]_vars PROVE ChatInv'
    OBVIOUS
  <2>1. CASE UNCHANGED talked
    <3>1. ChatTurn' = ChatTurn /\ Chat!TurnsTaken' = Chat!TurnsTaken
      BY <2>1 DEF ChatTurn, Chat!TurnsTaken, talked, Delivered, Underway
    <3> QED BY <2>1, <3>1 DEF ChatInv, talked
  <2> QED BY ChatMoves, <2>1, ChatA, ChatB DEF Chat!Next
<1> QED BY <1>1, <1>2, PTL DEF Spec

LEMMA ChatTypes == ChatInv => Chat!TypeOK
<1> SUFFICES ASSUME ChatInv PROVE Chat!TypeOK
  OBVIOUS
<1>1. queue.there \in BOOLEAN /\ queue.messages \in Seq(ChatMessages)
  BY DEF ChatInv
<1>2. \A i \in DOMAIN queue.messages : queue.messages[i].type \in Chat!Types
  <2>1. \A m \in ChatMessages : m.type \in Chat!Types
    BY DEF ChatMessages
  <2> QED BY <1>1, <2>1
<1>3. a \in {"start", "say", "check", "listen", "remove", "left", "failed"}
      /\ b \in {"start", "listen", "say", "left", "failed"}
  BY DEF ChatInv, ChatTurn
<1> QED BY <1>1, <1>2, <1>3 DEF Chat!TypeOK
-----------------------------------------------------------------------------
(* The servers with one connection after the other.                        *)

Accepted == {c \in Connections : task[c].at # "none" \/ \E f \in Conn!Fds : fds[f] = c}
Working  == {"read", "write", "close"}

\* The table of descriptors: none has two connections, a worker other than a
\* process of its own finds its connection, and the main loop the one that it
\* accepted last.
ConnTable ==
  /\ \A f, g \in Conn!Fds : fds[f] = fds[g] /\ fds[f] # 0 => f = g
  /\ \A c \in Connections : model # "fork" /\ task[c].at \in Working =>
       task[c].fd \in Conn!Fds /\ fds[task[c].fd] = c
  /\ loop = "start" =>
       /\ client_fd \in Conn!Fds /\ fds[client_fd] \in Connections
       /\ model = "serial" \/ task[fds[client_fd]].at = "none"

\* The worker of a connection and what its client knows.
ConnAnswers ==
  \A c \in Connections :
    /\ task[c].at = "none" => task[c].fd = 0
    /\ task[c].at \in Working => task[c].fd # 0
    /\ c \in Accepted => peer[c] # "none"
    /\ peer[c] = "answered" => task[c].at \in {"close", "over"}
    /\ task[c].at = "close" => peer[c] \in {"answered", "ended"}
    /\ task[c].at = "over" /\ task[c].fd # 0 => peer[c] \in {"answered", "ended"}

ConnTypes ==
  /\ model \in {"fork", "thread", "serial"}
  /\ peer \in [Connections -> {"none", "sent", "answered", "ended"}]
  /\ fds \in [Conn!Fds -> Connections \cup {0}]
  /\ client_fd \in Conn!Fds \cup {0}
  /\ loop \in {"accept", "start", "left"}
  /\ task \in [Connections -> [at : {"none", "read", "write", "close", "over"}, fd : Conn!Fds \cup {0}]]
  /\ served = Cardinality(Accepted)

ConnInv == ConnTypes /\ ConnTable /\ ConnAnswers

LEMMA ConnConstants ==
  /\ Connections \subseteq Nat \ {0} /\ IsFiniteSet(Connections)
  /\ 0 \notin Connections /\ 0 \notin Conn!Fds /\ Conn!Fds \subseteq Nat
  /\ IsFiniteSet(Conn!Fds) /\ Cardinality(Conn!Fds) = Cardinality(Connections)
  /\ Cardinality(Connections) \in Nat
  /\ Conn!Cardinality(Connections) = Cardinality(Connections)
<1>1. \A S : Conn!IsFiniteSet(S) = IsFiniteSet(S)
  BY DEF IsFiniteSet, Conn!IsFiniteSet
<1>2. \A S : Conn!Cardinality(S) = Cardinality(S)
  BY DEF Cardinality, Conn!Cardinality
<1>3. Connections \subseteq Nat \ {0} /\ IsFiniteSet(Connections)
  BY <1>1, MCAssumption DEF Conn!ConstantsOK, Conn!None
<1>4. Cardinality(Connections) \in Nat /\ Conn!Fds = 1 .. Cardinality(Connections)
  BY <1>2, <1>3, FS_CardinalityType DEF Conn!Fds
<1>5. IsFiniteSet(Conn!Fds) /\ Cardinality(Conn!Fds) = Cardinality(Connections)
  BY <1>4, FS_Interval
<1> QED BY <1>2, <1>3, <1>4, <1>5

LEMMA ConnAllTypes == ConnInv => Conn!TypeOK
<1> SUFFICES ASSUME ConnInv PROVE Conn!TypeOK
  OBVIOUS
<1>1. served \in 0 .. Conn!Cardinality(Connections)
  <2>1. Accepted \subseteq Connections
    BY DEF Accepted
  <2>2. Cardinality(Accepted) \in Nat /\ Cardinality(Accepted) <= Cardinality(Connections)
    BY <2>1, ConnConstants, FS_Subset, FS_CardinalityType
  <2> QED BY <2>2, ConnConstants DEF ConnInv, ConnTypes
<1> QED BY <1>1 DEF ConnInv, ConnTypes, Conn!TypeOK, Conn!None

LEMMA ConnSound == ConnInv => Conn!OwnAnswer
<1> SUFFICES ASSUME ConnInv, NEW c \in Connections
             PROVE  /\ task[c].at \in Working => Conn!Mine(c) = c
                    /\ task[c].at = "over" /\ task[c].fd # 0 => peer[c] \in {"answered", "ended"}
                    /\ peer[c] = "answered" => task[c].at \in {"close", "over"}
  BY DEF Conn!OwnAnswer, Working, Conn!None
<1>1. task[c].at \in Working => Conn!Mine(c) = c
  BY DEF ConnInv, ConnTable, Conn!Mine
<1> QED BY <1>1 DEF ConnInv, ConnAnswers

LEMMA ConnClientSend ==
  ASSUME ConnInv, NEW c \in Connections, Conn!ClientSend(c) PROVE ConnInv'
<1>1. peer[c] = "none" /\ peer' = [peer EXCEPT ![c] = "sent"]
      /\ UNCHANGED <<model, fds, client_fd, loop, task, served>>
  BY DEF Conn!ClientSend
<1>2. Accepted' = Accepted
  BY <1>1 DEF Accepted
<1>3. peer' \in [Connections -> {"none", "sent", "answered", "ended"}]
      /\ \A d \in Connections : peer'[d] = IF d = c THEN "sent" ELSE peer[d]
  BY <1>1 DEF ConnInv, ConnTypes
<1>4. ConnTypes' /\ ConnTable'
  BY <1>1, <1>2, <1>3 DEF ConnInv, ConnTypes, ConnTable
<1>5. ConnAnswers'
  <2>1. task[c].at = "none"
    BY <1>1 DEF ConnInv, ConnAnswers, Accepted
  <2> QED BY <1>1, <1>2, <1>3, <2>1 DEF ConnInv, ConnAnswers
<1> QED BY <1>4, <1>5 DEF ConnInv

LEMMA ConnClientReceive ==
  ASSUME ConnInv, NEW c \in Connections, Conn!ClientReceive(c) PROVE ConnInv'
<1>1. peer' = [peer EXCEPT ![c] = "ended"]
      /\ UNCHANGED <<model, fds, client_fd, loop, task, served>>
  BY DEF Conn!ClientReceive
<1>2. Accepted' = Accepted
  BY <1>1 DEF Accepted
<1>3. peer' \in [Connections -> {"none", "sent", "answered", "ended"}]
      /\ \A d \in Connections : peer'[d] = IF d = c THEN "ended" ELSE peer[d]
  BY <1>1 DEF ConnInv, ConnTypes
<1>4. ConnTypes' /\ ConnTable'
  BY <1>1, <1>2, <1>3 DEF ConnInv, ConnTypes, ConnTable
<1>5. ConnAnswers'
  BY <1>1, <1>2, <1>3 DEF ConnInv, ConnAnswers
<1> QED BY <1>4, <1>5 DEF ConnInv

LEMMA ConnAccept ==
  ASSUME ConnInv, NEW c \in Connections, Conn!Accept(c) PROVE ConnInv'
<1> USE ConnConstants
<1>1. /\ loop = "accept" /\ loop' = "start" /\ peer[c] = "sent" /\ task[c].at = "none"
      /\ \A f \in Conn!Fds : fds[f] # c
      /\ client_fd' = Conn!Lowest({f \in Conn!Fds : fds[f] = 0})
      /\ fds' = [fds EXCEPT ![client_fd'] = c] /\ served' = served + 1
      /\ UNCHANGED <<model, peer, task>>
  BY DEF Conn!Accept, Conn!None
\* If none were free, as many connections as there are descriptors would be
\* open besides this one.
<1>2. client_fd' \in Conn!Fds /\ fds[client_fd'] = 0
  <2> DEFINE free == {f \in Conn!Fds : fds[f] = 0}
  <2>1. \E f \in Conn!Fds : fds[f] = 0
    <3> SUFFICES ASSUME \A f \in Conn!Fds : fds[f] # 0 PROVE FALSE
      OBVIOUS
    <3> DEFINE others == Connections \ {c}
    <3>1. IsFiniteSet(others) /\ Cardinality(others) = Cardinality(Connections) - 1
      BY FS_RemoveElement
    <3>2. fds \in [Conn!Fds -> others] /\ \A f, g \in Conn!Fds : fds[f] = fds[g] => f = g
      BY <1>1 DEF ConnInv, ConnTypes, ConnTable
    <3> HIDE DEF others
    <3>3. fds \in Injection(Conn!Fds, others)
      BY <3>2 DEF Injection, IsInjective
    <3>4. Cardinality(Conn!Fds) <= Cardinality(others)
      BY <3>1, <3>3, FS_Injection
    <3> QED BY <3>1, <3>4
  <2>2. free # {} /\ free \subseteq Nat /\ client_fd' = Conn!Lowest(free)
    BY <1>1, <2>1
  <2> HIDE DEF free
  <2>3. \E f \in free : \A g \in free : f <= g
    BY <2>2, LeastExists
  <2>4. client_fd' \in free
    BY <2>2, <2>3 DEF Conn!Lowest
  <2> QED BY <2>4 DEF free
<1> DEFINE n == client_fd'
<1>3. fds' \in [Conn!Fds -> Connections \cup {0}]
      /\ \A f \in Conn!Fds : fds'[f] = IF f = n THEN c ELSE fds[f]
  BY <1>1, <1>2 DEF ConnInv, ConnTypes
<1>4. Accepted' = Accepted \cup {c} /\ c \notin Accepted
  <2>1. c \notin Accepted
    BY <1>1 DEF Accepted
  <2>2. \A d \in Connections : d \in Accepted' <=> d \in Accepted \/ d = c
    <3> TAKE d \in Connections
    <3>1. (\E f \in Conn!Fds : fds'[f] = d) <=> d = c \/ \E f \in Conn!Fds : fds[f] = d
      BY <1>2, <1>3
    <3> QED BY <1>1, <3>1 DEF Accepted
  <2> QED BY <2>1, <2>2 DEF Accepted
<1>5. served' = Cardinality(Accepted')
  <2>1. IsFiniteSet(Accepted)
    BY FS_Subset DEF Accepted
  <2> QED BY <1>1, <1>4, <2>1, FS_AddElement DEF ConnInv, ConnTypes
<1>6. ConnTypes'
  BY <1>1, <1>2, <1>3, <1>5 DEF ConnInv, ConnTypes
<1>7. ConnTable'
  BY <1>1, <1>2, <1>3 DEF ConnInv, ConnTable
<1>8. ConnAnswers'
  BY <1>1, <1>4 DEF ConnInv, ConnAnswers
<1> QED BY <1>6, <1>7, <1>8 DEF ConnInv

\* A worker, started with the descriptor of the main loop or not at all.
LEMMA ConnStarts ==
  ASSUME ConnInv, NEW c \in Connections, Conn!Fork(c) \/ Conn!Thread(c) \/ Conn!Call(c) PROVE ConnInv'
<1> USE ConnConstants
<1>1. /\ loop = "start" /\ fds[client_fd] = c /\ UNCHANGED <<model, peer, client_fd, served>>
      /\ client_fd \in Conn!Fds /\ task[c].at = "none" /\ task[c].fd = 0 /\ c \in Accepted
  <2>1. /\ loop = "start" /\ fds[client_fd] = c /\ UNCHANGED <<model, peer, client_fd, served>>
    BY DEF Conn!Fork, Conn!Thread, Conn!Call
  <2>2. client_fd \in Conn!Fds
    BY <2>1 DEF ConnInv, ConnTable
  <2>3. task[c].at = "none"
    BY <2>1 DEF ConnInv, ConnTable, Conn!Fork, Conn!Thread, Conn!Call
  <2> QED BY <2>1, <2>2, <2>3 DEF ConnInv, ConnAnswers, Accepted
<1>2. peer[c] # "answered" /\ peer[c] # "none"
  BY <1>1 DEF ConnInv, ConnAnswers
<1>3. /\ task' \in [Connections -> [at : {"none", "read", "write", "close", "over"}, fd : Conn!Fds \cup {0}]]
      /\ \A d \in Connections \ {c} : task'[d] = task[d]
      /\ \/ task'[c].at = "read" /\ task'[c].fd = client_fd
         \/ model = "fork" /\ task'[c].at = "over" /\ task'[c].fd = 0
  <2> DEFINE w == [at |-> "read", fd |-> client_fd] o == [task[c] EXCEPT !.at = "over"]
             Tasks == [at : {"none", "read", "write", "close", "over"}, fd : Conn!Fds \cup {0}]
  <2>1. task \in [Connections -> Tasks]
    BY DEF ConnInv, ConnTypes
  <2>2. w \in Tasks /\ w.at = "read" /\ w.fd = client_fd
    BY <1>1
  <2>3. o \in Tasks /\ o.at = "over" /\ o.fd = 0
    <3>1. task[c] \in Tasks
      BY <2>1
    <3> QED BY <1>1, <3>1
  <2>4. task' = [task EXCEPT ![c] = w] \/ (model = "fork" /\ task' = [task EXCEPT ![c] = o])
    BY DEF Conn!Fork, Conn!Thread, Conn!Call, Conn!HandOver
  <2> HIDE DEF w, o, Tasks
  <2>5. task' \in [Connections -> Tasks] /\ \A d \in Connections \ {c} : task'[d] = task[d]
    BY <2>1, <2>2, <2>3, <2>4
  <2>6. task'[c] = w \/ (model = "fork" /\ task'[c] = o)
    BY <2>1, <2>4
  <2> QED BY <2>2, <2>3, <2>5, <2>6 DEF Tasks
<1>4. /\ fds' \in [Conn!Fds -> Connections \cup {0}] /\ loop' \in {"accept", "start"}
      /\ \A f \in Conn!Fds : fds'[f] = IF model = "fork" /\ f = client_fd THEN 0 ELSE fds[f]
      /\ loop' = "start" => model = "serial"
  <2>1. CASE Conn!Fork(c)
    BY <1>1, <2>1 DEF Conn!Fork, ConnInv, ConnTypes, Conn!None
  <2>2. CASE Conn!Thread(c)
    BY <1>1, <2>2 DEF Conn!Thread, ConnInv, ConnTypes
  <2>3. CASE Conn!Call(c)
    BY <1>1, <2>3 DEF Conn!Call, ConnInv, ConnTypes
  <2> QED BY <2>1, <2>2, <2>3
<1>5. Accepted' = Accepted
  <2>1. \A d \in Connections : d \in Accepted' <=> d \in Accepted
    <3> TAKE d \in Connections
    <3>1. CASE d = c
      <4>1. task'[c].at # "none"
        BY <1>3
      <4> QED BY <1>1, <3>1, <4>1 DEF Accepted
    <3>2. CASE d # c
      <4>1. (\E f \in Conn!Fds : fds'[f] = d) <=> \E f \in Conn!Fds : fds[f] = d
        BY <1>1, <1>4, <3>2
      <4> QED BY <1>3, <3>2, <4>1 DEF Accepted
    <3> QED BY <3>1, <3>2
  <2> QED BY <2>1 DEF Accepted
<1>6. ConnTypes'
  BY <1>1, <1>3, <1>4, <1>5 DEF ConnInv, ConnTypes
<1>7. ConnTable'
  <2>1. \A f, g \in Conn!Fds : fds'[f] = fds'[g] /\ fds'[f] # 0 => f = g
    BY <1>4 DEF ConnInv, ConnTable
  <2>2. ASSUME NEW d \in Connections, model # "fork", task'[d].at \in Working
        PROVE  task'[d].fd \in Conn!Fds /\ fds'[task'[d].fd] = d
    <3>1. CASE d = c
      BY <1>1, <1>3, <1>4, <2>2, <3>1
    <3>2. CASE d # c
      BY <1>3, <1>4, <2>2, <3>2 DEF ConnInv, ConnTable
    <3> QED BY <3>1, <3>2
  <2>3. loop' = "start" =>
          /\ client_fd' \in Conn!Fds /\ fds'[client_fd'] \in Connections
          /\ model' = "serial" \/ task'[fds'[client_fd']].at = "none"
    BY <1>1, <1>4
  <2> QED BY <1>1, <2>1, <2>2, <2>3 DEF ConnTable
<1>8. ConnAnswers'
  <2> SUFFICES ASSUME NEW d \in Connections
               PROVE  /\ task'[d].at = "none" => task'[d].fd = 0
                      /\ task'[d].at \in Working => task'[d].fd # 0
                      /\ d \in Accepted' => peer'[d] # "none"
                      /\ peer'[d] = "answered" => task'[d].at \in {"close", "over"}
                      /\ task'[d].at = "close" => peer'[d] \in {"answered", "ended"}
                      /\ task'[d].at = "over" /\ task'[d].fd # 0 => peer'[d] \in {"answered", "ended"}
    BY DEF ConnAnswers
  <2>1. CASE d = c
    BY <1>1, <1>2, <1>3, <2>1 DEF Working
  <2>2. CASE d # c
    BY <1>1, <1>3, <1>5, <2>2 DEF ConnInv, ConnAnswers
  <2> QED BY <2>1, <2>2
<1> QED BY <1>6, <1>7, <1>8 DEF ConnInv

LEMMA ConnGoes ==
  ASSUME ConnInv, NEW c \in Connections, NEW from \in Working, NEW to \in {"write", "close", "over"},
         Conn!Goes(c, from, to)
  PROVE  /\ task[c].at = from /\ task'[c].at = to /\ task'[c].fd = task[c].fd
         /\ \A d \in Connections \ {c} : task'[d] = task[d]
         /\ task' \in [Connections -> [at : {"none", "read", "write", "close", "over"}, fd : Conn!Fds \cup {0}]]
<1> DEFINE Tasks == [at : {"none", "read", "write", "close", "over"}, fd : Conn!Fds \cup {0}]
           w == [task[c] EXCEPT !.at = to]
<1>1. task \in [Connections -> Tasks] /\ task[c] \in Tasks
  BY DEF ConnInv, ConnTypes
<1>2. w \in Tasks /\ w.at = to /\ w.fd = task[c].fd
  BY <1>1
<1>3. task' = [task EXCEPT ![c] = w] /\ task[c].at = from
  BY DEF Conn!Goes
<1> HIDE DEF w, Tasks
<1>4. task' \in [Connections -> Tasks] /\ task'[c] = w
      /\ \A d \in Connections \ {c} : task'[d] = task[d]
  BY <1>1, <1>2, <1>3
<1> QED BY <1>2, <1>3, <1>4 DEF Tasks

LEMMA ConnWorker ==
  ASSUME ConnInv, NEW c \in Connections, Conn!handle_client(c) PROVE ConnInv'
<1> USE ConnConstants
<1>1. ASSUME NEW to \in {"write", "close"}, Conn!Goes(c, IF to = "write" THEN "read" ELSE "write", to),
             UNCHANGED <<model, fds, client_fd, loop, served>>,
             peer' = (IF to = "write" THEN peer
                      ELSE [d \in Connections |-> IF d = c /\ peer[d] = "sent" THEN "answered" ELSE peer[d]])
      PROVE  ConnInv'
  <2>1. /\ task[c].at \in {"read", "write"} /\ task'[c].at = to /\ task'[c].fd = task[c].fd
        /\ \A d \in Connections \ {c} : task'[d] = task[d]
        /\ task' \in [Connections -> [at : {"none", "read", "write", "close", "over"}, fd : Conn!Fds \cup {0}]]
    BY <1>1, ConnGoes DEF Working
  <2>2. Accepted' = Accepted
    BY <1>1, <2>1 DEF Accepted
  <2>3. peer' \in [Connections -> {"none", "sent", "answered", "ended"}]
        /\ (\A d \in Connections \ {c} : peer'[d] = peer[d])
        /\ peer'[c] = IF to = "close" /\ peer[c] = "sent" THEN "answered" ELSE peer[c]
    BY <1>1 DEF ConnInv, ConnTypes
  <2>4. ConnTypes'
    BY <1>1, <2>1, <2>2, <2>3 DEF ConnInv, ConnTypes
  <2>5. ConnTable'
    <3>1. \A d \in Connections : task'[d].fd = task[d].fd /\ (task'[d].at = "none" <=> task[d].at = "none")
                                 /\ (task'[d].at \in Working => task[d].at \in Working)
      BY <1>1, <2>1 DEF Working
    <3> QED BY <1>1, <3>1 DEF ConnInv, ConnTable
  <2>6. peer[c] \in {"sent", "ended"}
    <3>1. c \in Accepted
      BY <2>1 DEF Accepted
    <3> QED BY <2>1, <3>1 DEF ConnInv, ConnTypes, ConnAnswers
  <2>7. ConnAnswers'
    <3> SUFFICES ASSUME NEW d \in Connections
                 PROVE  /\ task'[d].at = "none" => task'[d].fd = 0
                        /\ task'[d].at \in Working => task'[d].fd # 0
                        /\ d \in Accepted' => peer'[d] # "none"
                        /\ peer'[d] = "answered" => task'[d].at \in {"close", "over"}
                        /\ task'[d].at = "close" => peer'[d] \in {"answered", "ended"}
                        /\ task'[d].at = "over" /\ task'[d].fd # 0 => peer'[d] \in {"answered", "ended"}
      BY DEF ConnAnswers
    <3>1. CASE d = c
      <4>1. task[c].fd # 0
        BY <2>1 DEF ConnInv, ConnAnswers, Working
      <4> QED BY <1>1, <2>1, <2>3, <2>6, <3>1, <4>1
    <3>2. CASE d # c
      BY <2>1, <2>2, <2>3, <3>2 DEF ConnInv, ConnAnswers
    <3> QED BY <3>1, <3>2
  <2> QED BY <2>4, <2>5, <2>7 DEF ConnInv
<1>2. CASE Conn!Goes(c, "read", "write") /\ UNCHANGED <<model, peer, fds, client_fd, loop, served>>
  BY <1>1, <1>2
<1>3. CASE /\ Conn!Goes(c, "write", "close")
           /\ peer' = [d \in Connections |->
                IF d = Conn!Mine(c) /\ peer[d] = "sent" THEN "answered" ELSE peer[d]]
           /\ UNCHANGED <<model, fds, client_fd, loop, served>>
  <2>1. Conn!Mine(c) = c
    BY <1>3 DEF ConnInv, ConnTable, Conn!Mine, Conn!Goes, Working
  <2> QED BY <1>1, <1>3, <2>1
<1>4. CASE /\ Conn!Goes(c, "close", "over")
           /\ fds' = (IF model = "fork" THEN fds ELSE [fds EXCEPT ![task[c].fd] = 0])
           /\ loop' = (IF model # "serial" THEN loop
                       ELSE IF served = MAX_SERVED THEN "left" ELSE "accept")
           /\ UNCHANGED <<model, peer, client_fd, served>>
  <2>1. /\ task[c].at = "close" /\ task'[c].at = "over" /\ task'[c].fd = task[c].fd
        /\ \A d \in Connections \ {c} : task'[d] = task[d]
        /\ task' \in [Connections -> [at : {"none", "read", "write", "close", "over"}, fd : Conn!Fds \cup {0}]]
    BY <1>4, ConnGoes DEF Working
  <2>2. model # "fork" => task[c].fd \in Conn!Fds /\ fds[task[c].fd] = c
    BY <2>1 DEF ConnInv, ConnTable, Working
  <2>3. /\ fds' \in [Conn!Fds -> Connections \cup {0}]
        /\ \A f \in Conn!Fds : fds'[f] = fds[f] \/ (fds'[f] = 0 /\ fds[f] = c)
    BY <1>4, <2>2 DEF ConnInv, ConnTypes
  <2>4. Accepted' = Accepted
    <3>1. \A d \in Connections : d \in Accepted' <=> d \in Accepted
      <4> TAKE d \in Connections
      <4>1. CASE d = c
        BY <2>1, <4>1 DEF Accepted
      <4>2. CASE d # c
        <5>1. (\E f \in Conn!Fds : fds'[f] = d) <=> \E f \in Conn!Fds : fds[f] = d
          BY <2>3, <4>2
        <5> QED BY <2>1, <4>2, <5>1 DEF Accepted
      <4> QED BY <4>1, <4>2
    <3> QED BY <3>1 DEF Accepted
  <2>5. ConnTypes'
    BY <1>4, <2>1, <2>3, <2>4 DEF ConnInv, ConnTypes
  <2>6. ConnTable'
    <3>1. \A f, g \in Conn!Fds : fds'[f] = fds'[g] /\ fds'[f] # 0 => f = g
      BY <2>3 DEF ConnInv, ConnTable
    <3>2. ASSUME NEW d \in Connections, model # "fork", task'[d].at \in Working
          PROVE  task'[d].fd \in Conn!Fds /\ fds'[task'[d].fd] = d
      <4>1. d # c
        BY <2>1, <3>2 DEF Working
      <4>2. task'[d] = task[d] /\ task[d].fd \in Conn!Fds /\ fds[task[d].fd] = d
        BY <2>1, <3>2, <4>1 DEF ConnInv, ConnTable
      <4> QED BY <2>3, <4>1, <4>2
    <3>3. loop' = "start" =>
            /\ client_fd' \in Conn!Fds /\ fds'[client_fd'] \in Connections
            /\ model' = "serial" \/ task'[fds'[client_fd']].at = "none"
      <4> SUFFICES ASSUME loop' = "start"
                   PROVE  /\ client_fd' \in Conn!Fds /\ fds'[client_fd'] \in Connections
                          /\ task'[fds'[client_fd']].at = "none"
        OBVIOUS
      <4>1. loop = "start" /\ model # "serial"
        BY <1>4
      <4>2. client_fd \in Conn!Fds /\ fds[client_fd] \in Connections /\ task[fds[client_fd]].at = "none"
        BY <4>1 DEF ConnInv, ConnTable
      <4>3. fds[client_fd] # c
        BY <2>1, <4>2
      <4>4. fds'[client_fd] = fds[client_fd]
        BY <2>3, <4>2, <4>3
      <4>5. task'[fds[client_fd]] = task[fds[client_fd]]
        BY <2>1, <4>2, <4>3
      <4>6. client_fd' = client_fd
        BY <1>4
      <4>7. task'[fds'[client_fd']].at = "none"
        BY ONLY <4>2, <4>4, <4>5, <4>6
      <4> QED BY ONLY <4>2, <4>4, <4>6, <4>7
    <3> QED BY <1>4, <3>1, <3>2, <3>3 DEF ConnTable
  <2>7. ConnAnswers'
    <3> SUFFICES ASSUME NEW d \in Connections
                 PROVE  /\ task'[d].at = "none" => task'[d].fd = 0
                        /\ task'[d].at \in Working => task'[d].fd # 0
                        /\ d \in Accepted' => peer'[d] # "none"
                        /\ peer'[d] = "answered" => task'[d].at \in {"close", "over"}
                        /\ task'[d].at = "close" => peer'[d] \in {"answered", "ended"}
                        /\ task'[d].at = "over" /\ task'[d].fd # 0 => peer'[d] \in {"answered", "ended"}
      BY DEF ConnAnswers
    <3>1. CASE d = c
      BY <1>4, <2>1, <2>4, <3>1 DEF ConnInv, ConnAnswers, Working
    <3>2. CASE d # c
      BY <1>4, <2>1, <2>4, <3>2 DEF ConnInv, ConnAnswers
    <3> QED BY <3>1, <3>2
  <2> QED BY <2>5, <2>6, <2>7 DEF ConnInv
<1> QED BY <1>2, <1>3, <1>4 DEF Conn!handle_client, Conn!None

LEMMA ConnInvariant == Spec => []ConnInv
<1>1. Init => ConnInv
  <2> SUFFICES ASSUME Conn!Init PROVE ConnInv
    BY DEF Init
  <2> USE ConnConstants DEF Conn!Init, Conn!None
  <2>1. \A c \in Connections : task[c].at = "none" /\ task[c].fd = 0
    OBVIOUS
  <2>2. Accepted = {}
    BY <2>1 DEF Accepted
  <2>3. Cardinality(Accepted) = 0
    BY <2>2, FS_EmptySet
  <2>4. ConnTypes
    BY <2>3 DEF ConnTypes
  <2>5. ConnTable /\ ConnAnswers
    BY <2>1, <2>2 DEF ConnTable, ConnAnswers, Working
  <2> QED BY <2>4, <2>5 DEF ConnInv
<1>2. ConnInv /\ [Next]_vars => ConnInv'
  <2> SUFFICES ASSUME ConnInv, [Next]_vars PROVE ConnInv'
    OBVIOUS
  <2>1. CASE UNCHANGED answered
    <3>1. Accepted' = Accepted
      BY <2>1 DEF Accepted, answered
    <3> QED BY <2>1, <3>1 DEF ConnInv, ConnTypes, ConnTable, ConnAnswers, answered
  <2>2. ASSUME NEW c \in Connections,
               \/ Conn!Accept(c) \/ Conn!Fork(c) \/ Conn!Thread(c) \/ Conn!Call(c)
               \/ Conn!handle_client(c) \/ Conn!ClientSend(c) \/ Conn!ClientReceive(c)
        PROVE  ConnInv'
    BY <2>2, ConnAccept, ConnStarts, ConnWorker, ConnClientSend, ConnClientReceive
  <2> QED BY ConnMoves, <2>1, <2>2 DEF Conn!Next, Conn!ServerLoop
<1> QED BY <1>1, <1>2, PTL DEF Spec
-----------------------------------------------------------------------------
(* The servers around select.                                              *)

Messages == Connections \X (1 .. MaxMessages)
Ends ==
  [end : {"new", "open", "left"}, sent : 0 .. MaxMessages, inbox : Seq(Messages),
   outbox : Seq(Messages), got : 0 .. MaxMessages, closed : BOOLEAN]

SelectTypes == Server!TypeOK /\ backlog \in Seq(Connections)

\* A descriptor has one client, and master_set the descriptors in use.
SelectTable ==
  /\ master_set = {3} \cup ({fd_of[c] : c \in Connections} \ {0})
  /\ \A c \in Connections : fd_of[c] # 3
  /\ \A c, d \in Connections : fd_of[c] = fd_of[d] /\ fd_of[c] # 0 => c = d

\* Who waits for accept has connected, once, and has no descriptor yet.
SelectBacklog ==
  /\ \A i \in 1 .. Len(backlog) : fd_of[backlog[i]] = 0 /\ conn[backlog[i]].end # "new"
  /\ \A i, j \in 1 .. Len(backlog) : backlog[i] = backlog[j] => i = j
  /\ \A c \in Connections : conn[c].end = "new" => fd_of[c] = 0

\* What select returned is still true of the descriptors the loop has not
\* come to, though others are closed and reused meanwhile.
SelectLoop ==
  /\ fd # 0 => fd \in read_set
  /\ \A c \in Connections : fd_of[c] \in read_set => conn[c].inbox # <<>> \/ conn[c].end = "left"

\* The echo server holds at most one message of a client, the last it sent.
Mail(c, r) ==
  /\ r.got <= r.sent
  /\ kind = "chat" => r.outbox = <<>>
  /\ kind = "echo" =>
       \/ r.inbox = <<>> /\ r.outbox = <<>>
       \/ /\ r.got # r.sent
          /\ \/ r.inbox = <<<<c, r.sent>>>> /\ r.outbox = <<>>
             \/ r.inbox = <<>> /\ r.outbox = <<<<c, r.sent>>>>

SelectMail ==
  \A c \in Connections : Mail(c, conn[c]) /\ (alive /\ conn[c].closed => conn[c].end = "left")

SelectInv == SelectTypes /\ SelectTable /\ SelectBacklog /\ SelectLoop /\ SelectMail

LEMMA SelectConstants ==
  /\ IsFiniteSet(Connections) /\ Cardinality(Connections) \in Nat /\ MaxMessages \in Nat
  /\ Server!Fds = 3 .. 3 + Cardinality(Connections) /\ Server!server_fd = 3 /\ Server!None = 0
<1>1. \A S : Server!Cardinality(S) = Cardinality(S)
  BY DEF Cardinality, Server!Cardinality
<1>2. IsFiniteSet(Connections) /\ MaxMessages \in Nat
  BY ConnConstants, MCAssumption DEF Server!ConstantsOK
<1> QED BY <1>1, <1>2, FS_CardinalityType DEF Server!Fds, Server!server_fd, Server!None

LEMMA SelectTypesAre ==
  SelectTypes <=>
    /\ kind \in {"echo", "chat"} /\ conn \in [Connections -> Ends]
    /\ fd_of \in [Connections -> Server!Fds \cup {0}]
    /\ 3 \in master_set /\ master_set \subseteq Server!Fds /\ read_set \subseteq master_set
    /\ fd \in Server!Fds \cup {0} /\ alive \in BOOLEAN
    /\ backlog \in Seq(Connections)
BY SelectConstants DEF SelectTypes, Server!TypeOK, Ends, Messages

\* The loop goes on to the next descriptor, or ends.
LEMMA AfterIs ==
  ASSUME NEW f \in Nat, NEW s, s \subseteq Nat
  PROVE  \/ Server!After(f, s) = 0 /\ \A g \in s : ~(g > f)
         \/ Server!After(f, s) \in s /\ Server!After(f, s) > f
<1> DEFINE rest == {g \in s : g > f}
<1>1. Server!After(f, s) = IF rest = {} THEN 0 ELSE Server!Min(rest)
  BY SelectConstants DEF Server!After
<1>2. CASE rest # {}
  <2>1. \E x \in rest : \A y \in rest : x <= y
    BY <1>2, LeastExists
  <2>2. Server!Min(rest) \in rest
    BY <2>1 DEF Server!Min
  <2> QED BY <1>1, <1>2, <2>2
<1> QED BY <1>1, <1>2

\* The client of a descriptor in use.
LEMMA OfIs ==
  ASSUME SelectInv, NEW f \in master_set, f # 3
  PROVE  Server!Of(f) \in Connections /\ fd_of[Server!Of(f)] = f
         /\ \A c \in Connections : fd_of[c] = f <=> c = Server!Of(f)
<1>1. f # 0 /\ \E c \in Connections : fd_of[c] = f
  BY SelectTypesAre, SelectConstants DEF SelectInv, SelectTable
<1>2. Server!Of(f) \in Connections /\ fd_of[Server!Of(f)] = f
  BY <1>1 DEF Server!Of
<1> QED BY <1>1, <1>2 DEF SelectInv, SelectTable

\* A step of the loop body at fd.
LEMMA SelectSteps ==
  ASSUME SelectInv, fd # 0, Server!Step
  PROVE  /\ fd' \in Server!Fds \cup {0} /\ (fd' # 0 => fd' \in read_set')
         /\ read_set' \subseteq read_set /\ fd \notin read_set'
<1>1. fd \in read_set /\ read_set \subseteq Server!Fds /\ fd \in Nat /\ read_set \subseteq Nat
  BY SelectTypesAre, SelectConstants DEF SelectInv, SelectLoop
<1>2. fd' = Server!After(fd, read_set)
      /\ read_set' = IF Server!After(fd, read_set) = 0 THEN {} ELSE read_set \ {fd}
  BY SelectConstants DEF Server!Step
<1>3. \/ Server!After(fd, read_set) = 0
      \/ Server!After(fd, read_set) \in read_set /\ Server!After(fd, read_set) > fd
  BY <1>1, AfterIs
<1>4. CASE Server!After(fd, read_set) = 0
  BY <1>2, <1>4
<1>5. CASE Server!After(fd, read_set) # 0
  <2> DEFINE n == Server!After(fd, read_set)
  <2>1. n \in read_set /\ n > fd /\ n \in Server!Fds /\ n # fd
    <3>1. n \in read_set /\ n > fd
      BY <1>3, <1>5
    <3> HIDE DEF n
    <3>2. n \in Nat /\ n \in Server!Fds
      BY <1>1, <3>1
    <3> QED BY <1>1, <3>1, <3>2
  <2>2. fd' = n /\ read_set' = read_set \ {fd}
    BY <1>2, <1>5
  <2> HIDE DEF n
  <2> QED BY <2>1, <2>2
<1> QED BY <1>4, <1>5

LEMMA SelectSelect == ASSUME SelectInv, Server!Select PROVE SelectInv'
<1>1. /\ fd' = Server!After(0, Server!Selected) /\ read_set' = Server!Selected
      /\ UNCHANGED <<kind, conn, backlog, fd_of, master_set, alive>>
  BY DEF Server!Select
<1>2. Server!Selected \subseteq master_set /\ master_set \subseteq Nat /\ Server!Selected \subseteq Server!Fds
  BY SelectTypesAre, SelectConstants DEF Server!Selected, SelectInv
<1>3. fd' \in Server!Fds \cup {0} /\ (fd' # 0 => fd' \in read_set')
  <2>1. Server!Selected \subseteq Nat /\ 0 \in Nat
    BY <1>2
  <2> QED BY <1>1, <1>2, <2>1, AfterIs
<1>4. SelectTypes'
  BY <1>1, <1>2, <1>3 DEF SelectInv, SelectTypes, Server!TypeOK, Server!None
<1>5. \A c \in Connections : fd_of[c] \in Server!Selected => conn[c].inbox # <<>> \/ conn[c].end = "left"
  <2> SUFFICES ASSUME NEW c \in Connections, fd_of[c] \in Server!Selected
               PROVE  conn[c].inbox # <<>> \/ conn[c].end = "left"
    OBVIOUS
  <2>1. fd_of[c] # 3 /\ fd_of[c] \in master_set
    BY <1>2 DEF SelectInv, SelectTable
  <2>2. Server!Of(fd_of[c]) = c
    BY <2>1, OfIs
  <2>3. Server!Readable(fd_of[c])
    BY DEF Server!Selected
  <2> QED BY <2>1, <2>2, <2>3, SelectConstants DEF Server!Readable
<1>6. SelectLoop'
  BY <1>1, <1>3, <1>5 DEF SelectLoop
<1>7. SelectTable' /\ SelectBacklog'
  BY <1>1 DEF SelectInv, SelectTable, SelectBacklog
<1>8. SelectMail'
  BY <1>1 DEF SelectInv, SelectMail, Mail
<1> QED BY <1>4, <1>6, <1>7, <1>8 DEF SelectInv

\* One connection has changed, and how.
Changed(new, c, r) == new = [conn EXCEPT ![c] = r]

LEMMA ChangedIs ==
  ASSUME SelectInv, NEW c \in Connections, NEW r \in Ends, NEW new, Changed(new, c, r)
  PROVE  new \in [Connections -> Ends] /\ new[c] = r /\ \A d \in Connections \ {c} : new[d] = conn[d]
BY SelectTypesAre DEF Changed, SelectInv

\* What a client does leaves the server's variables alone, but for the backlog.
LEMMA SelectClient ==
  ASSUME SelectInv, NEW c \in Connections, NEW r \in Ends, Changed(conn', c, r),
         UNCHANGED <<kind, backlog, fd_of, master_set, read_set, fd, alive>>,
         Mail(c, r), conn[c].end # "new", r.end # "new", alive /\ r.closed => r.end = "left",
         fd_of[c] \in read_set => r.inbox # <<>> \/ r.end = "left"
  PROVE  SelectInv'
<1>1. conn' \in [Connections -> Ends] /\ conn'[c] = r /\ \A d \in Connections \ {c} : conn'[d] = conn[d]
  BY ChangedIs
<1>2. SelectTypes'
  <2>1. conn' \in [Connections -> [end : {"new", "open", "left"}, sent : 0 .. MaxMessages,
                               inbox : Seq(Connections \X (1 .. MaxMessages)),
                               outbox : Seq(Connections \X (1 .. MaxMessages)),
                               got : 0 .. MaxMessages, closed : BOOLEAN]]
    BY <1>1 DEF Ends, Messages
  <2> QED BY <2>1 DEF SelectInv, SelectTypes, Server!TypeOK
<1>3. SelectTable'
  BY DEF SelectInv, SelectTable
<1>4. SelectBacklog'
  <2>1. \A d \in Connections : conn'[d].end = "new" <=> conn[d].end = "new"
    BY <1>1
  <2>2. \A i \in 1 .. Len(backlog) : backlog[i] \in Connections
    BY SelectTypesAre DEF SelectInv
  <2> QED BY <2>1, <2>2 DEF SelectInv, SelectBacklog
<1>5. SelectLoop'
  BY <1>1 DEF SelectInv, SelectLoop
<1>6. SelectMail'
  BY <1>1 DEF SelectInv, SelectMail, Mail
<1> QED BY <1>2, <1>3, <1>4, <1>5, <1>6 DEF SelectInv

LEMMA SelectLeave == ASSUME SelectInv, NEW c \in Connections, Server!ClientLeave(c) PROVE SelectInv'
<1>1. conn[c].end = "open" /\ conn' = [conn EXCEPT ![c].end = "left", ![c].outbox = <<>>]
      /\ UNCHANGED <<kind, backlog, fd_of, master_set, read_set, fd, alive>>
  BY DEF Server!ClientLeave
<1> DEFINE o == conn[c] r == [o EXCEPT !.end = "left", !.outbox = <<>>]
<1>2. conn \in [Connections -> Ends] /\ o \in Ends /\ o.end = "open" /\ Mail(c, o)
  BY <1>1, SelectTypesAre DEF SelectInv, SelectMail
<1>3. Changed(conn', c, r)
  BY <1>1, <1>2 DEF Changed
<1> HIDE DEF o
<1>4. <<>> \in Seq(Messages)
  OBVIOUS
<1>5. r \in Ends /\ r.end = "left" /\ r.outbox = <<>> /\ r.inbox = o.inbox /\ r.sent = o.sent /\ r.got = o.got
  BY <1>2, <1>4 DEF Ends
<1> HIDE DEF r
<1>6. Mail(c, r)
  BY <1>2, <1>5 DEF Mail
<1> QED BY <1>1, <1>3, <1>5, <1>6, SelectClient

LEMMA SelectReceive == ASSUME SelectInv, NEW c \in Connections, Server!ClientReceive(c) PROVE SelectInv'
<1>1. conn[c].end = "open" /\ conn[c].outbox # <<>>
      /\ conn' = [conn EXCEPT ![c].outbox = Tail(@), ![c].got = Head(conn[c].outbox)[2]]
      /\ UNCHANGED <<kind, backlog, fd_of, master_set, read_set, fd, alive>>
  BY DEF Server!ClientReceive
<1> DEFINE o == conn[c] t == Tail(o.outbox) g == Head(o.outbox)[2] r == [o EXCEPT !.outbox = t, !.got = g]
<1>2. conn \in [Connections -> Ends] /\ o \in Ends /\ o.end = "open" /\ Mail(c, o) /\ o.outbox # <<>>
      /\ kind \in {"echo", "chat"} /\ (alive /\ o.closed => o.end = "left")
      /\ (fd_of[c] \in read_set => o.inbox # <<>> \/ o.end = "left")
  BY <1>1, SelectTypesAre DEF SelectInv, SelectMail, SelectLoop
<1>3. Changed(conn', c, r)
  BY <1>1, <1>2 DEF Changed
<1> HIDE DEF o
<1>4. o.inbox = <<>> /\ o.outbox = <<<<c, o.sent>>>> /\ o.got # o.sent
  BY <1>2 DEF Mail
<1>5. t = <<>> /\ g = o.sent
  BY <1>4
<1>6. o.sent \in 0 .. MaxMessages /\ <<>> \in Seq(Messages)
  BY <1>2 DEF Ends
<1> HIDE DEF t, g
<1>7. r \in Ends /\ r.end = "open" /\ r.outbox = <<>> /\ r.inbox = <<>> /\ r.sent = o.sent /\ r.got = o.sent
      /\ r.closed = o.closed
  BY <1>2, <1>4, <1>5, <1>6 DEF Ends
<1> HIDE DEF r
<1>8. Mail(c, r)
  BY <1>6, <1>7, SelectConstants DEF Mail
<1>9. conn[c].end # "new" /\ (alive /\ r.closed => r.end = "left")
      /\ (fd_of[c] \in read_set => r.inbox # <<>> \/ r.end = "left")
  BY <1>1, <1>2, <1>4, <1>7
<1> QED BY <1>1, <1>3, <1>7, <1>8, <1>9, SelectClient

LEMMA SelectSend == ASSUME SelectInv, NEW c \in Connections, Server!ClientSend(c) PROVE SelectInv'
<1>1. /\ conn[c].end = "open" /\ ~conn[c].closed /\ conn[c].sent < MaxMessages
      /\ kind = "echo" => conn[c].got = conn[c].sent
      /\ conn' = [conn EXCEPT ![c].sent = @ + 1, ![c].inbox = Append(@, <<c, conn[c].sent + 1>>)]
      /\ UNCHANGED <<kind, backlog, fd_of, master_set, read_set, fd, alive>>
  BY DEF Server!ClientSend
<1> DEFINE o == conn[c] n == o.sent + 1 m == <<c, n>> i == Append(o.inbox, m)
           r == [o EXCEPT !.sent = n, !.inbox = i]
<1>2. conn \in [Connections -> Ends] /\ o \in Ends /\ o.end = "open" /\ Mail(c, o) /\ ~o.closed
      /\ o.sent < MaxMessages /\ (kind = "echo" => o.got = o.sent) /\ kind \in {"echo", "chat"}
  BY <1>1, SelectTypesAre DEF SelectInv, SelectMail
<1>3. Changed(conn', c, r)
  BY <1>1, <1>2 DEF Changed
<1> HIDE DEF o
<1>4. o.sent \in 0 .. MaxMessages /\ o.got \in 0 .. MaxMessages /\ o.inbox \in Seq(Messages)
      /\ o.outbox \in Seq(Messages)
  BY <1>2 DEF Ends
<1>5. n \in 1 .. MaxMessages /\ o.got # n /\ o.got <= n /\ n \in 0 .. MaxMessages
  BY <1>2, <1>4, SelectConstants DEF Mail
<1> HIDE DEF n
<1>6. m \in Messages
  BY <1>5 DEF Messages
<1> HIDE DEF m
<1>7. i \in Seq(Messages) /\ i # <<>> /\ (o.inbox = <<>> => i = <<m>>)
  <2>1. i \in Seq(Messages) /\ Len(i) = Len(o.inbox) + 1 /\ Len(o.inbox) \in Nat
    BY <1>4, <1>6
  <2>2. i # <<>>
    BY <2>1
  <2>3. o.inbox = <<>> => i = <<m>>
    OBVIOUS
  <2> QED BY <2>1, <2>2, <2>3
<1> HIDE DEF i
<1>8. r \in Ends /\ r.end = "open" /\ r.outbox = o.outbox /\ r.inbox = i /\ r.sent = n /\ r.got = o.got
      /\ ~r.closed
  BY <1>2, <1>5, <1>7 DEF Ends
<1> HIDE DEF r
<1>9. Mail(c, r)
  BY <1>2, <1>5, <1>7, <1>8 DEF Mail, m
<1> QED BY <1>1, <1>3, <1>7, <1>8, <1>9, SelectClient

LEMMA SelectConnect == ASSUME SelectInv, NEW c \in Connections, Server!Connect(c) PROVE SelectInv'
<1>1. /\ alive /\ conn[c].end = "new" /\ conn' = [conn EXCEPT ![c].end = "open"]
      /\ backlog' = Append(backlog, c)
      /\ UNCHANGED <<kind, fd_of, master_set, read_set, fd, alive>>
  BY DEF Server!Connect
<1> DEFINE o == conn[c] r == [o EXCEPT !.end = "open"]
<1>2. conn \in [Connections -> Ends] /\ o \in Ends /\ o.end = "new" /\ Mail(c, o)
      /\ backlog \in Seq(Connections) /\ (alive /\ o.closed => o.end = "left")
      /\ (fd_of[c] \in read_set => o.inbox # <<>> \/ o.end = "left")
  BY <1>1, SelectTypesAre DEF SelectInv, SelectMail, SelectLoop
<1>3. Changed(conn', c, r)
  BY <1>1, <1>2 DEF Changed
<1> HIDE DEF o
<1>4. r \in Ends /\ r.end = "open" /\ r.outbox = o.outbox /\ r.inbox = o.inbox /\ r.sent = o.sent
      /\ r.got = o.got /\ r.closed = o.closed
  BY <1>2 DEF Ends
<1> HIDE DEF r
<1>5. conn' \in [Connections -> Ends] /\ conn'[c] = r /\ \A d \in Connections \ {c} : conn'[d] = conn[d]
  BY <1>3, <1>4, ChangedIs
<1>6. backlog' \in Seq(Connections) /\ Len(backlog') = Len(backlog) + 1 /\ backlog'[Len(backlog) + 1] = c
      /\ (\A k \in 1 .. Len(backlog) : backlog'[k] = backlog[k]) /\ Len(backlog) \in Nat
  BY <1>1, <1>2, AppendIs
<1>7. SelectTypes'
  <2>1. conn' \in [Connections -> [end : {"new", "open", "left"}, sent : 0 .. MaxMessages,
                               inbox : Seq(Connections \X (1 .. MaxMessages)),
                               outbox : Seq(Connections \X (1 .. MaxMessages)),
                               got : 0 .. MaxMessages, closed : BOOLEAN]]
    BY <1>5 DEF Ends, Messages
  <2> QED BY <1>1, <1>6, <2>1 DEF SelectInv, SelectTypes, Server!TypeOK
<1>8. SelectTable'
  BY <1>1 DEF SelectInv, SelectTable
<1>9. SelectBacklog'
  <2>1. \A k \in 1 .. Len(backlog) : backlog[k] # c /\ backlog[k] \in Connections
    BY <1>1, <1>2 DEF SelectInv, SelectBacklog
  <2>2. fd_of[c] = 0
    BY <1>1 DEF SelectInv, SelectBacklog
  <2>3. \A k \in 1 .. Len(backlog') : k \in 1 .. Len(backlog) \/ k = Len(backlog) + 1
    BY <1>6
  <2>4. \A k \in 1 .. Len(backlog') : fd_of'[backlog'[k]] = 0 /\ conn'[backlog'[k]].end # "new"
    BY <1>1, <1>4, <1>5, <1>6, <2>1, <2>2, <2>3 DEF SelectInv, SelectBacklog
  <2>5. \A k, j \in 1 .. Len(backlog') : backlog'[k] = backlog'[j] => k = j
    BY <1>6, <2>1, <2>3 DEF SelectInv, SelectBacklog
  <2>6. \A d \in Connections : conn'[d].end = "new" => fd_of'[d] = 0
    BY <1>1, <1>4, <1>5 DEF SelectInv, SelectBacklog
  <2> QED BY <2>4, <2>5, <2>6 DEF SelectBacklog
<1>10. SelectLoop'
  BY <1>1, <1>2, <1>4, <1>5 DEF SelectInv, SelectLoop
<1>11. SelectMail'
  <2>1. Mail(c, conn[c])' /\ (alive' /\ conn'[c].closed => conn'[c].end = "left")
    BY <1>1, <1>2, <1>4, <1>5 DEF Mail
  <2> QED BY <1>1, <1>5, <2>1 DEF SelectInv, SelectMail, Mail
<1> QED BY <1>7, <1>8, <1>9, <1>10, <1>11 DEF SelectInv

\* There is a descriptor for one more connection.
LEMMA FreeServerFd ==
  ASSUME SelectInv, NEW c \in Connections, fd_of[c] = 0
  PROVE  Server!Fds \ ({3} \cup {fd_of[d] : d \in Connections}) # {}
<1> SUFFICES ASSUME \A f \in Server!Fds \ {3} : \E d \in Connections : fd_of[d] = f PROVE FALSE
  OBVIOUS
<1> DEFINE free == Server!Fds \ {3} others == Connections \ {c}
           g == [f \in free |-> CHOOSE d \in others : fd_of[d] = f]
<1>1. \A f \in free : f # 0 /\ \E d \in others : fd_of[d] = f
  BY SelectConstants
<1>2. \A f \in free : g[f] \in others /\ fd_of[g[f]] = f
  BY <1>1
<1>3. g \in [free -> others]
  BY <1>2
<1>4. IsFiniteSet(others) /\ Cardinality(others) = Cardinality(Connections) - 1
  BY SelectConstants, FS_RemoveElement
<1>5. IsFiniteSet(free) /\ Cardinality(free) = Cardinality(Connections)
  <2>1. free = 4 .. 3 + Cardinality(Connections)
    BY SelectConstants
  <2>2. IsFiniteSet(4 .. 3 + Cardinality(Connections))
        /\ Cardinality(4 .. 3 + Cardinality(Connections)) = Cardinality(Connections)
    BY SelectConstants, FS_Interval
  <2> QED BY <2>1, <2>2
<1> HIDE DEF free, others, g
<1>6. g \in Injection(free, others)
  BY <1>2, <1>3 DEF Injection, IsInjective
<1>7. Cardinality(free) <= Cardinality(others)
  BY <1>4, <1>6, FS_Injection
<1> QED BY <1>4, <1>5, <1>7, SelectConstants

LEMMA SelectAccept == ASSUME SelectInv, Server!Accept PROVE SelectInv'
<1> USE SelectConstants
<1>1. alive /\ fd = 3 /\ Server!Step /\ UNCHANGED <<kind, conn, alive>>
  BY DEF Server!Accept
<1>2. /\ fd' \in Server!Fds \cup {0} /\ (fd' # 0 => fd' \in read_set')
      /\ read_set' \subseteq read_set
  BY <1>1, SelectSteps
<1>3. read_set \subseteq master_set /\ master_set \subseteq Server!Fds /\ backlog \in Seq(Connections)
      /\ fd_of \in [Connections -> Server!Fds \cup {0}] /\ 3 \in master_set
  BY SelectTypesAre DEF SelectInv
<1>4. CASE backlog = <<>>
  <2>1. UNCHANGED <<backlog, fd_of, master_set>>
    BY <1>4 DEF Server!Accept
  <2>2. SelectTypes'
    BY <1>1, <1>2, <1>3, <2>1 DEF SelectInv, SelectTypes, Server!TypeOK
  <2>3. SelectTable' /\ SelectBacklog' /\ SelectLoop'
    BY <1>1, <1>2, <2>1 DEF SelectInv, SelectTable, SelectBacklog, SelectLoop
  <2>4. SelectMail'
    BY <1>1 DEF SelectInv, SelectMail, Mail
  <2> QED BY <2>2, <2>3, <2>4 DEF SelectInv
<1>5. CASE backlog # <<>>
  <2> DEFINE free == Server!Fds \ ({3} \cup {fd_of[d] : d \in Connections})
             f == Server!Min(free) c == Head(backlog)
  <2>1. backlog' = Tail(backlog) /\ fd_of' = [fd_of EXCEPT ![c] = f] /\ master_set' = master_set \cup {f}
    BY <1>5 DEF Server!Accept
  <2>2. c \in Connections /\ Len(backlog) \in Nat /\ Len(backlog) > 0 /\ backlog[1] = c
    BY <1>3, <1>5
  <2>3. fd_of[c] = 0 /\ conn[c].end # "new"
    BY <2>2 DEF SelectInv, SelectBacklog
  <2>4. f \in free
    <3>1. free # {} /\ free \subseteq Nat
      BY <2>2, <2>3, FreeServerFd
    <3> HIDE DEF free
    <3>2. \E x \in free : \A y \in free : x <= y
      BY <3>1, LeastExists
    <3> QED BY <3>2 DEF Server!Min
  <2> HIDE DEF f, c
  <2>5. f \in Server!Fds /\ f # 3 /\ f # 0 /\ \A d \in Connections : fd_of[d] # f
    <3>1. f \in Server!Fds /\ f \notin {3} \cup {fd_of[d] : d \in Connections}
      BY <2>4
    <3>2. 0 \notin Server!Fds
      OBVIOUS
    <3> QED BY <3>1, <3>2
  <2> HIDE DEF free
  <2>6. fd_of' \in [Connections -> Server!Fds \cup {0}] /\ fd_of'[c] = f
        /\ \A d \in Connections \ {c} : fd_of'[d] = fd_of[d]
    BY <1>3, <2>1, <2>2, <2>5
  <2>7. backlog' \in Seq(Connections) /\ Len(backlog') = Len(backlog) - 1
        /\ \A k \in 1 .. Len(backlog) - 1 : backlog'[k] = backlog[k + 1]
    BY <1>3, <1>5, <2>1
  <2>8. f \notin read_set
    BY <1>3, <2>5 DEF SelectInv, SelectTable
  <2>9. SelectTypes'
    BY <1>1, <1>2, <1>3, <2>1, <2>5, <2>6, <2>7 DEF SelectInv, SelectTypes, Server!TypeOK
  <2>10. SelectTable'
    <3>1. \A d \in Connections : fd_of'[d] # 3
      BY <2>5, <2>6 DEF SelectInv, SelectTable
    <3>2. \A d, e \in Connections : fd_of'[d] = fd_of'[e] /\ fd_of'[d] # 0 => d = e
      BY <2>2, <2>5, <2>6 DEF SelectInv, SelectTable
    <3>3. {fd_of'[d] : d \in Connections} \ {0} = ({fd_of[d] : d \in Connections} \ {0}) \cup {f}
      <4>1. ASSUME NEW x \in {fd_of'[d] : d \in Connections} \ {0}
            PROVE  x \in ({fd_of[d] : d \in Connections} \ {0}) \cup {f}
        BY <2>6
      <4>2. ASSUME NEW x \in ({fd_of[d] : d \in Connections} \ {0}) \cup {f}
            PROVE  x \in {fd_of'[d] : d \in Connections} \ {0}
        <5>1. CASE x = f
          BY <2>2, <2>5, <2>6, <5>1
        <5>2. CASE x # f
          <6>1. PICK d \in Connections : fd_of[d] = x /\ x # 0
            BY <4>2, <5>2
          <6>2. d # c
            BY <2>3, <6>1
          <6> QED BY <2>6, <6>1, <6>2
        <5> QED BY <5>1, <5>2
      <4> QED BY <4>1, <4>2
    <3>4. master_set' = {3} \cup ({fd_of'[d] : d \in Connections} \ {0})
      BY <2>1, <3>3 DEF SelectInv, SelectTable
    <3> QED BY <3>1, <3>2, <3>4 DEF SelectTable
  <2>11. SelectBacklog'
    <3>1. \A k \in 1 .. Len(backlog') : k + 1 \in 1 .. Len(backlog) /\ k + 1 # 1 /\ backlog'[k] = backlog[k + 1]
      BY <2>2, <2>7
    <3>2. \A k \in 1 .. Len(backlog') : backlog'[k] \in Connections /\ backlog'[k] # c
      <4> TAKE k \in 1 .. Len(backlog')
      <4>1. 1 \in 1 .. Len(backlog)
        BY <2>2
      <4> QED BY <1>3, <2>2, <3>1, <4>1 DEF SelectInv, SelectBacklog
    <3>3. \A k \in 1 .. Len(backlog') : fd_of'[backlog'[k]] = 0 /\ conn'[backlog'[k]].end # "new"
      BY <1>1, <2>6, <3>1, <3>2 DEF SelectInv, SelectBacklog
    <3>4. \A k, j \in 1 .. Len(backlog') : backlog'[k] = backlog'[j] => k = j
      <4> TAKE k, j \in 1 .. Len(backlog')
      <4>1. backlog'[k] = backlog'[j] => k + 1 = j + 1
        BY <3>1 DEF SelectInv, SelectBacklog
      <4> QED BY <4>1
    <3>5. \A d \in Connections : conn'[d].end = "new" => fd_of'[d] = 0
      BY <1>1, <2>3, <2>6 DEF SelectInv, SelectBacklog
    <3> QED BY <3>3, <3>4, <3>5 DEF SelectBacklog
  <2>12. SelectLoop'
    BY <1>1, <1>2, <2>6, <2>8 DEF SelectInv, SelectLoop
  <2>13. SelectMail'
    BY <1>1 DEF SelectInv, SelectMail, Mail
  <2> QED BY <2>9, <2>10, <2>11, <2>12, <2>13 DEF SelectInv
<1> QED BY <1>4, <1>5

LEMMA SelectDrop == ASSUME SelectInv, Server!Drop PROVE SelectInv'
<1> USE SelectConstants
<1> DEFINE c == Server!Of(fd) o == conn[c] r == [o EXCEPT !.closed = TRUE]
<1>1. /\ alive /\ fd # 0 /\ fd # 3 /\ o.inbox = <<>> /\ conn' = [conn EXCEPT ![c].closed = TRUE]
      /\ fd_of' = [fd_of EXCEPT ![c] = 0] /\ master_set' = master_set \ {fd}
      /\ Server!Step /\ UNCHANGED <<kind, backlog, alive>>
  BY DEF Server!Drop
<1>2. /\ fd' \in Server!Fds \cup {0} /\ (fd' # 0 => fd' \in read_set')
      /\ read_set' \subseteq read_set /\ fd \notin read_set'
  BY <1>1, SelectSteps
<1>3. fd \in read_set /\ fd \in master_set
  BY <1>1, SelectTypesAre DEF SelectInv, SelectLoop
<1>4. c \in Connections /\ fd_of[c] = fd /\ \A d \in Connections : fd_of[d] = fd <=> d = c
  BY <1>1, <1>3, OfIs
<1> HIDE DEF c
<1>5. o.end = "left"
  BY <1>1, <1>3, <1>4 DEF SelectInv, SelectLoop
<1>6. /\ conn \in [Connections -> Ends] /\ o \in Ends /\ Mail(c, o)
      /\ fd_of \in [Connections -> Server!Fds \cup {0}] /\ 3 \in master_set
      /\ master_set \subseteq Server!Fds /\ read_set \subseteq master_set /\ backlog \in Seq(Connections)
  BY <1>4, SelectTypesAre DEF SelectInv, SelectMail
<1>7. Changed(conn', c, r)
  BY <1>1, <1>4, <1>6 DEF Changed
<1> HIDE DEF o
<1>8. r \in Ends /\ r.end = "left" /\ r.outbox = o.outbox /\ r.inbox = o.inbox /\ r.sent = o.sent
      /\ r.got = o.got
  BY <1>5, <1>6 DEF Ends
<1> HIDE DEF r
<1>9. conn' \in [Connections -> Ends] /\ conn'[c] = r /\ \A d \in Connections \ {c} : conn'[d] = conn[d]
  BY <1>4, <1>7, <1>8, ChangedIs
<1>10. fd_of' \in [Connections -> Server!Fds \cup {0}] /\ fd_of'[c] = 0
       /\ \A d \in Connections \ {c} : fd_of'[d] = fd_of[d]
  BY <1>1, <1>4, <1>6
<1>11. SelectTypes'
  <2>1. conn' \in [Connections -> [end : {"new", "open", "left"}, sent : 0 .. MaxMessages,
                               inbox : Seq(Connections \X (1 .. MaxMessages)),
                               outbox : Seq(Connections \X (1 .. MaxMessages)),
                               got : 0 .. MaxMessages, closed : BOOLEAN]]
    BY <1>9 DEF Ends, Messages
  <2> QED BY <1>1, <1>2, <1>6, <1>10, <2>1 DEF SelectInv, SelectTypes, Server!TypeOK
<1>12. SelectTable'
  <2>1. \A d \in Connections : fd_of'[d] # 3
    BY <1>10 DEF SelectInv, SelectTable
  <2>2. \A d, e \in Connections : fd_of'[d] = fd_of'[e] /\ fd_of'[d] # 0 => d = e
    BY <1>10 DEF SelectInv, SelectTable
  <2>3. {fd_of'[d] : d \in Connections} \ {0} = ({fd_of[d] : d \in Connections} \ {0}) \ {fd}
    <3>1. ASSUME NEW x \in {fd_of'[d] : d \in Connections} \ {0}
          PROVE  x \in ({fd_of[d] : d \in Connections} \ {0}) \ {fd}
      BY <1>4, <1>10
    <3>2. ASSUME NEW x \in ({fd_of[d] : d \in Connections} \ {0}) \ {fd}
          PROVE  x \in {fd_of'[d] : d \in Connections} \ {0}
      <4>1. PICK d \in Connections : fd_of[d] = x /\ x # 0 /\ x # fd
        OBVIOUS
      <4> QED BY <1>4, <1>10, <4>1
    <3> QED BY <3>1, <3>2
  <2>4. master_set' = {3} \cup ({fd_of'[d] : d \in Connections} \ {0})
    BY <1>1, <2>3 DEF SelectInv, SelectTable
  <2> QED BY <2>1, <2>2, <2>4 DEF SelectTable
<1>13. SelectBacklog'
  <2>1. \A k \in 1 .. Len(backlog) : backlog[k] \in Connections
    BY <1>6
  <2>2. \A d \in Connections : (conn'[d].end = "new" <=> conn[d].end = "new") /\ (fd_of[d] = 0 => fd_of'[d] = 0)
    BY <1>5, <1>8, <1>9, <1>10 DEF o
  <2> QED BY <1>1, <2>1, <2>2 DEF SelectInv, SelectBacklog
<1>14. SelectLoop'
  <2>1. 0 \notin read_set'
    BY <1>2, <1>6
  <2>2. ASSUME NEW d \in Connections, fd_of'[d] \in read_set'
        PROVE  conn'[d].inbox # <<>> \/ conn'[d].end = "left"
    <3>1. d # c
      BY <1>10, <2>1, <2>2
    <3>2. fd_of[d] \in read_set /\ conn'[d] = conn[d]
      BY <1>2, <1>9, <1>10, <2>2, <3>1
    <3> QED BY <3>2 DEF SelectInv, SelectLoop
  <2> QED BY <1>2, <2>2 DEF SelectLoop
<1>15. SelectMail'
  <2>1. ASSUME NEW d \in Connections
        PROVE  Mail(d, conn[d])' /\ (alive' /\ conn'[d].closed => conn'[d].end = "left")
    <3>1. CASE d = c
      BY <1>1, <1>6, <1>8, <1>9, <3>1 DEF Mail
    <3>2. CASE d # c
      BY <1>1, <1>9, <3>2 DEF SelectInv, SelectMail, Mail
    <3> QED BY <3>1, <3>2
  <2> QED BY <2>1 DEF SelectMail
<1> QED BY <1>11, <1>12, <1>13, <1>14, <1>15 DEF SelectInv

LEMMA SelectKilled ==
  ASSUME SelectInv, Server!Killed, kind' = kind PROVE SelectInv'
<1> USE SelectConstants
<1>1. /\ alive' = FALSE /\ backlog' = <<>> /\ fd_of' = [c \in Connections |-> 0]
      /\ conn' = [c \in Connections |-> [conn[c] EXCEPT !.closed = TRUE, !.inbox = <<>>]]
      /\ master_set' = {3} /\ read_set' = {} /\ fd' = 0
  BY DEF Server!Killed
<1>2. conn \in [Connections -> Ends] /\ kind \in {"echo", "chat"} /\ \A c \in Connections : Mail(c, conn[c])
  BY SelectTypesAre DEF SelectInv, SelectMail
<1>3. ASSUME NEW o \in Ends, NEW c \in Connections, Mail(c, o),
             NEW r, r = [o EXCEPT !.closed = TRUE, !.inbox = <<>>]
      PROVE  r \in Ends /\ Mail(c, r) /\ r.end = o.end
  <2>1. <<>> \in Seq(Messages)
    OBVIOUS
  <2>2. r \in Ends /\ r.end = o.end /\ r.inbox = <<>> /\ r.outbox = o.outbox /\ r.sent = o.sent /\ r.got = o.got
    BY <1>3, <2>1 DEF Ends
  <2> QED BY <1>3, <2>2 DEF Mail
<1>4. \A c \in Connections : conn'[c] \in Ends /\ Mail(c, conn'[c]) /\ conn'[c].end = conn[c].end
  <2> TAKE c \in Connections
  <2>1. conn'[c] = [conn[c] EXCEPT !.closed = TRUE, !.inbox = <<>>] /\ conn[c] \in Ends /\ Mail(c, conn[c])
    BY <1>1, <1>2
  <2> QED BY <1>3, <2>1
<1>5. conn' \in [Connections -> Ends]
  BY <1>1, <1>4
<1>6. SelectTypes'
  <2>1. conn' \in [Connections -> [end : {"new", "open", "left"}, sent : 0 .. MaxMessages,
                               inbox : Seq(Connections \X (1 .. MaxMessages)),
                               outbox : Seq(Connections \X (1 .. MaxMessages)),
                               got : 0 .. MaxMessages, closed : BOOLEAN]]
    BY <1>5 DEF Ends, Messages
  <2>2. 3 \in Server!Fds /\ <<>> \in Seq(Connections)
    OBVIOUS
  <2> QED BY <1>1, <1>2, <2>1, <2>2 DEF SelectTypes, Server!TypeOK
<1>7. SelectTable' /\ SelectBacklog' /\ SelectLoop'
  <2>1. \A c \in Connections : fd_of'[c] = 0
    BY <1>1
  <2>2. Len(backlog') = 0
    BY <1>1
  <2>3. {fd_of'[c] : c \in Connections} \ {0} = {}
    BY <2>1
  <2>4. SelectTable'
    <3>1. master_set' = {3}
      BY <1>1
    <3>2. {3} = {3} \cup {}
      OBVIOUS
    <3>3. master_set' = {3} \cup ({fd_of'[c] : c \in Connections} \ {0})
      BY ONLY <3>1, <3>2, <2>3, Zenon
    <3> QED BY ONLY <2>1, <3>3, 0 # 3 DEF SelectTable
  <2>5. SelectBacklog'
    BY <2>1, <2>2 DEF SelectBacklog
  <2>6. SelectLoop'
    BY <1>1 DEF SelectLoop
  <2> QED BY <2>4, <2>5, <2>6
<1>8. SelectMail'
  BY <1>1, <1>4 DEF SelectMail, Mail
<1> QED BY <1>6, <1>7, <1>8 DEF SelectInv

\* A broadcast reaches the listening descriptor, and kills the server.
LEMMA SelectBroadcast == ASSUME SelectInv, Server!broadcast PROVE SelectInv'
<1>1. 3 \in master_set /\ fd # 3
  BY SelectConstants, SelectTypesAre DEF SelectInv, Server!broadcast
<1>2. Server!Killed /\ kind' = kind
  BY <1>1, SelectConstants DEF Server!broadcast
<1> QED BY <1>2, SelectKilled

LEMMA SelectEcho == ASSUME SelectInv, Server!Echo, kind = "echo" PROVE SelectInv'
<1> USE SelectConstants
<1> DEFINE c == Server!Of(fd) o == conn[c] b1 == o.outbox \o o.inbox
           r == [o EXCEPT !.outbox = b1, !.inbox = <<>>]
<1>1. alive /\ fd # 0 /\ fd # 3 /\ o.inbox # <<>> /\ kind' = kind
  BY DEF Server!Echo
<1>2. CASE o.end = "left"
  BY <1>1, <1>2, SelectKilled DEF Server!Echo
<1>3. CASE o.end # "left"
  <2>1. /\ conn' = [conn EXCEPT ![c].outbox = @ \o o.inbox, ![c].inbox = <<>>]
        /\ Server!Step /\ UNCHANGED <<backlog, fd_of, master_set, alive>>
    BY <1>3 DEF Server!Echo
  <2>2. /\ fd' \in Server!Fds \cup {0} /\ (fd' # 0 => fd' \in read_set')
        /\ read_set' \subseteq read_set /\ fd \notin read_set'
    BY <1>1, <2>1, SelectSteps
  <2>3. fd \in read_set /\ fd \in master_set
    BY <1>1, SelectTypesAre DEF SelectInv, SelectLoop
  <2>4. c \in Connections /\ fd_of[c] = fd /\ \A d \in Connections : fd_of[d] = fd <=> d = c
    BY <1>1, <2>3, OfIs
  <2> HIDE DEF c
  <2>5. /\ conn \in [Connections -> Ends] /\ o \in Ends /\ Mail(c, o)
        /\ (alive /\ o.closed => o.end = "left")
        /\ fd_of \in [Connections -> Server!Fds \cup {0}] /\ 3 \in master_set
        /\ master_set \subseteq Server!Fds /\ read_set \subseteq master_set /\ backlog \in Seq(Connections)
    BY <2>4, SelectTypesAre DEF SelectInv, SelectMail
  <2>6. Changed(conn', c, r)
    BY <2>1, <2>4, <2>5 DEF Changed
  <2> HIDE DEF o
  <2>7. o.inbox = <<<<c, o.sent>>>> /\ o.outbox = <<>> /\ o.got # o.sent /\ o.inbox \in Seq(Messages)
    BY <1>1, <2>5 DEF Mail, Ends
  <2>8. b1 = <<<<c, o.sent>>>> /\ b1 \in Seq(Messages)
    BY <2>7
  <2> HIDE DEF b1
  <2>9. r \in Ends /\ r.end = o.end /\ r.outbox = b1 /\ r.inbox = <<>> /\ r.sent = o.sent
        /\ r.got = o.got /\ r.closed = o.closed
    <3>1. <<>> \in Seq(Messages)
      OBVIOUS
    <3> QED BY <2>5, <2>8, <3>1 DEF Ends
  <2> HIDE DEF r
  <2>10. conn' \in [Connections -> Ends] /\ conn'[c] = r /\ \A d \in Connections \ {c} : conn'[d] = conn[d]
    BY <2>4, <2>6, <2>9, ChangedIs
  <2>11. SelectTypes'
    <3>1. conn' \in [Connections -> [end : {"new", "open", "left"}, sent : 0 .. MaxMessages,
                                 inbox : Seq(Connections \X (1 .. MaxMessages)),
                                 outbox : Seq(Connections \X (1 .. MaxMessages)),
                                 got : 0 .. MaxMessages, closed : BOOLEAN]]
      BY <2>10 DEF Ends, Messages
    <3> QED BY <1>1, <2>1, <2>2, <2>5, <3>1 DEF SelectInv, SelectTypes, Server!TypeOK
  <2>12. SelectTable'
    BY <2>1 DEF SelectInv, SelectTable
  <2>13. SelectBacklog'
    <3>1. \A k \in 1 .. Len(backlog) : backlog[k] \in Connections
      BY <2>5
    <3>2. \A d \in Connections : conn'[d].end = "new" <=> conn[d].end = "new"
      BY <2>9, <2>10 DEF o
    <3> QED BY <2>1, <3>1, <3>2 DEF SelectInv, SelectBacklog
  <2>14. SelectLoop'
    BY <2>1, <2>2, <2>4, <2>10 DEF SelectInv, SelectLoop
  <2>15. SelectMail'
    <3>1. ASSUME NEW d \in Connections
          PROVE  Mail(d, conn[d])' /\ (alive' /\ conn'[d].closed => conn'[d].end = "left")
      <4>1. CASE d = c
        BY <1>1, <2>1, <2>5, <2>7, <2>8, <2>9, <2>10, <4>1 DEF Mail
      <4>2. CASE d # c
        BY <1>1, <2>1, <2>10, <4>2 DEF SelectInv, SelectMail, Mail
      <4> QED BY <4>1, <4>2
    <3> QED BY <3>1 DEF SelectMail
  <2> QED BY <2>11, <2>12, <2>13, <2>14, <2>15 DEF SelectInv
<1> QED BY <1>2, <1>3

LEMMA SelectInvariant == Spec => []SelectInv
<1>1. Init => SelectInv
  <2> SUFFICES ASSUME Server!Init PROVE SelectInv
    BY DEF Init
  <2> USE SelectConstants DEF Server!Init
  <2> DEFINE r == [end |-> "new", sent |-> 0, inbox |-> <<>>, outbox |-> <<>>, got |-> 0, closed |-> FALSE]
  <2>1. r \in Ends /\ r.end = "new" /\ r.inbox = <<>> /\ r.outbox = <<>> /\ r.got = 0 /\ r.sent = 0 /\ ~r.closed
    BY DEF Ends
  <2>2. \A c \in Connections : conn[c] = r
    OBVIOUS
  <2>3. conn = [c \in Connections |-> r]
    OBVIOUS
  <2> HIDE DEF r
  <2>4. conn \in [Connections -> Ends]
    BY <2>1, <2>3
  <2>5. 3 \in Server!Fds /\ <<>> \in Seq(Connections) /\ backlog = <<>>
    OBVIOUS
  <2>6. SelectTypes
    BY <2>4, <2>5, SelectTypesAre
  <2>7. SelectTable /\ SelectBacklog /\ SelectLoop
    BY <2>5 DEF SelectTable, SelectBacklog, SelectLoop
  <2>8. SelectMail
    BY <2>1, <2>2 DEF SelectMail, Mail
  <2> QED BY <2>6, <2>7, <2>8 DEF SelectInv
<1>2. SelectInv /\ [Next]_vars => SelectInv'
  <2> SUFFICES ASSUME SelectInv, [Next]_vars PROVE SelectInv'
    OBVIOUS
  <2>1. CASE UNCHANGED connected
    <3>1. UNCHANGED <<kind, conn, backlog, fd_of, master_set, read_set, fd, alive>>
      BY <2>1 DEF connected
    <3>2. SelectTypes'
      BY <3>1 DEF SelectInv, SelectTypes, Server!TypeOK
    <3>3. SelectTable' /\ SelectBacklog' /\ SelectLoop'
      BY <3>1 DEF SelectInv, SelectTable, SelectBacklog, SelectLoop
    <3>4. SelectMail'
      BY <3>1 DEF SelectInv, SelectMail, Mail
    <3> QED BY <3>2, <3>3, <3>4 DEF SelectInv
  <2>2. CASE Server!ServerLoop
    BY <2>2, SelectSelect, SelectAccept, SelectDrop, SelectEcho, SelectBroadcast
       DEF Server!ServerLoop, Server!echo_main, Server!chat_main
  <2>3. ASSUME NEW c \in Connections,
               Server!Connect(c) \/ Server!ClientSend(c) \/ Server!ClientReceive(c) \/ Server!ClientLeave(c)
        PROVE  SelectInv'
    BY <2>3, SelectConnect, SelectSend, SelectReceive, SelectLeave
  <2> QED BY ServerMoves, <2>1, <2>2, <2>3 DEF Server!Next
<1> QED BY <1>1, <1>2, PTL DEF Spec

LEMMA SelectSound == SelectInv => Server!NoFalseDisconnect /\ Server!OwnEcho
<1> SUFFICES ASSUME SelectInv PROVE Server!NoFalseDisconnect /\ Server!OwnEcho
  OBVIOUS
<1>1. Server!NoFalseDisconnect
  BY SelectConstants DEF SelectInv, SelectMail, SelectTable, Server!NoFalseDisconnect
<1>2. ASSUME NEW c \in Connections, NEW i \in DOMAIN conn[c].outbox
      PROVE  conn[c].outbox[i] = <<c, conn[c].sent>>
  <2>1. conn[c].outbox = <<>> \/ conn[c].outbox = <<<<c, conn[c].sent>>>>
    BY SelectTypesAre DEF SelectInv, SelectMail, Mail
  <2> QED BY <1>2, <2>1
<1> QED BY <1>1, <1>2 DEF Server!OwnEcho

\* Nonblocking/server.c, clientchatserver.c, miniServer.c, checkLatency: for
\* any number of connections, the select servers disconnect only who has left
\* and answer each client with its own message, and a worker answers and
\* closes its own connection, however descriptors are closed and reused.
THEOREM AnswersAreOwn == Spec => []EchoSound
<1>1. SelectInv /\ ConnInv => EchoSound
  BY SelectSound, ConnSound DEF EchoSound
<1> QED BY <1>1, SelectInvariant, ConnInvariant, PTL
-----------------------------------------------------------------------------
(* Files over named pipes.                                                 *)

LEMMA ConcatIs ==
  ASSUME NEW S, NEW s \in Seq(S), NEW t \in Seq(S), NEW r, r = s \o t
  PROVE  /\ r \in Seq(S) /\ Len(r) = Len(s) + Len(t)
         /\ \A k \in 1 .. Len(s) : r[k] = s[k]
         /\ \A k \in 1 .. Len(t) : r[Len(s) + k] = t[k]
<1>1. r \in Seq(S) /\ Len(r) = Len(s) + Len(t)
  OBVIOUS
<1>2. \A k \in 1 .. Len(s) + Len(t) : r[k] = IF k <= Len(s) THEN s[k] ELSE t[k - Len(s)]
  BY ConcatProperties
<1>3. \A k \in 1 .. Len(s) : r[k] = s[k]
  <2> TAKE k \in 1 .. Len(s)
  <2>1. k \in 1 .. Len(s) + Len(t) /\ k <= Len(s)
    OBVIOUS
  <2> QED BY <1>2, <2>1
<1>4. \A k \in 1 .. Len(t) : r[Len(s) + k] = t[k]
  <2> TAKE k \in 1 .. Len(t)
  <2> DEFINE j == Len(s) + k
  <2>1. j \in 1 .. Len(s) + Len(t) /\ ~(j <= Len(s)) /\ j - Len(s) = k
    OBVIOUS
  <2> HIDE DEF j
  <2>2. r[j] = t[j - Len(s)]
    BY <1>2, <2>1
  <2> QED BY <2>1, <2>2 DEF j
<1> QED BY <1>1, <1>3, <1>4

\* What was received, and after it what is in the pipe, are the stream so far.
Streamed(r, f, s) ==
  /\ Len(r) + Len(f) <= Len(s)
  /\ \A k \in 1 .. Len(r) : r[k] = s[k]
  /\ \A k \in 1 .. Len(f) : f[k] = s[Len(r) + k]

LEMMA StreamGrows ==
  ASSUME NEW S, NEW r \in Seq(S), NEW f \in Seq(S), NEW s \in Seq(S), NEW t \in Seq(S),
         Streamed(r, f, s), Len(r) + Len(f) + Len(t) <= Len(s),
         \A k \in 1 .. Len(t) : t[k] = s[Len(r) + Len(f) + k],
         NEW g, g = f \o t
  PROVE  Streamed(r, g, s)
<1>1. /\ g \in Seq(S) /\ Len(g) = Len(f) + Len(t)
      /\ \A k \in 1 .. Len(f) : g[k] = f[k]
      /\ \A k \in 1 .. Len(t) : g[Len(f) + k] = t[k]
  BY ConcatIs
<1>2. Len(r) \in Nat /\ Len(f) \in Nat /\ Len(t) \in Nat /\ Len(s) \in Nat
  OBVIOUS
<1>3. ASSUME NEW k \in 1 .. Len(g) PROVE g[k] = s[Len(r) + k]
  <2>1. CASE k <= Len(f)
    <3>1. k \in 1 .. Len(f)
      BY <1>1, <1>2, <2>1
    <3> QED BY <1>1, <3>1 DEF Streamed
  <2>2. CASE ~(k <= Len(f))
    <3> DEFINE j == k - Len(f)
    <3>1. j \in 1 .. Len(t) /\ Len(f) + j = k /\ Len(r) + Len(f) + j = Len(r) + k
      BY <1>1, <1>2, <2>2
    <3> HIDE DEF j
    <3>2. g[Len(f) + j] = t[j] /\ t[j] = s[Len(r) + Len(f) + j]
      BY <1>1, <3>1
    <3> QED BY <3>1, <3>2
  <2> QED BY <2>1, <2>2
<1>4. Len(r) + Len(g) <= Len(s)
  BY <1>1, <1>2
<1> QED BY <1>3, <1>4 DEF Streamed

\* n cells taken from the pipe f, which leaves g, and appended to r, which
\* gives q.
Shifted(r, f, n, q, g) ==
  /\ Len(q) = Len(r) + n
  /\ \A k \in 1 .. Len(r) : q[k] = r[k]
  /\ \A k \in 1 .. n : q[Len(r) + k] = f[k]
  /\ Len(g) = Len(f) - n
  /\ \A k \in 1 .. Len(f) - n : g[k] = f[n + k]

LEMMA StreamShifts ==
  ASSUME NEW S, NEW r \in Seq(S), NEW f \in Seq(S), NEW s \in Seq(S), NEW n \in Nat, n <= Len(f),
         Streamed(r, f, s), NEW q \in Seq(S), NEW g \in Seq(S), Shifted(r, f, n, q, g)
  PROVE  Streamed(q, g, s) /\ Len(q) + Len(g) = Len(r) + Len(f) /\ Len(g) <= Len(f)
<1> USE DEF Shifted
<1>0. Len(r) \in Nat /\ Len(f) \in Nat /\ Len(s) \in Nat
  OBVIOUS
<1>4. ASSUME NEW k \in 1 .. Len(q) PROVE q[k] = s[k]
  <2>1. CASE k <= Len(r)
    <3>1. k \in 1 .. Len(r)
      BY <1>0, <2>1
    <3> QED BY <3>1 DEF Streamed
  <2>2. CASE ~(k <= Len(r))
    <3> DEFINE j == k - Len(r)
    <3>1. j \in 1 .. n /\ j \in 1 .. Len(f) /\ Len(r) + j = k
      BY <1>0, <2>2
    <3> HIDE DEF j
    <3>2. q[Len(r) + j] = f[j] /\ f[j] = s[Len(r) + j]
      BY <3>1 DEF Streamed
    <3> QED BY <3>1, <3>2
  <2> QED BY <2>1, <2>2
<1>5. ASSUME NEW k \in 1 .. Len(g) PROVE g[k] = s[Len(q) + k]
  <2> DEFINE j == n + k
  <2>1. k \in 1 .. Len(f) - n
    OBVIOUS
  <2>2. g[k] = f[j]
    BY <2>1
  <2>3. j \in 1 .. Len(f)
    BY <1>0, <2>1
  <2>4. Len(r) + j = Len(q) + k
    <3>1. k \in Int
      OBVIOUS
    <3> QED BY <1>0, <3>1
  <2> HIDE DEF j
  <2>5. f[j] = s[Len(r) + j]
    BY <2>3 DEF Streamed
  <2> QED BY <2>2, <2>4, <2>5
<1>6. Len(q) + Len(g) = Len(r) + Len(f) /\ Len(g) <= Len(f)
  BY <1>0
<1>7. Len(r) + Len(f) <= Len(s)
  BY DEF Streamed
<1> QED BY <1>4, <1>5, <1>6, <1>7 DEF Streamed

LEMMA RestIs ==
  ASSUME NEW S, NEW f \in Seq(S), NEW n \in Nat, n <= Len(f), NEW g, g = SubSeq(f, n + 1, Len(f))
  PROVE  g \in Seq(S) /\ Len(g) = Len(f) - n /\ \A k \in 1 .. Len(f) - n : g[k] = f[n + k]
<1>1. Len(f) \in Nat
  OBVIOUS
<1>2. PICK m \in Nat : m = n + 1
  OBVIOUS
<1>3. m \in 1 .. Len(f) + 1 /\ Len(f) \in m - 1 .. Len(f) /\ g = SubSeq(f, m, Len(f)) /\ f \in Seq(S)
  BY <1>1, <1>2
<1>4. Len(f) - m + 1 = Len(f) - n
  BY <1>1, <1>2
<1>5. \A k \in 1 .. Len(f) - n : m + k - 1 = n + k
  BY <1>1, <1>2
<1>6. g \in Seq(S) /\ Len(g) = Len(f) - m + 1 /\ \A k \in 1 .. Len(f) - m + 1 : g[k] = f[m + k - 1]
  BY ONLY <1>3, SubSeqIs
<1> QED BY <1>4, <1>5, <1>6

\* The same in the terms of the code.
Taken(r, f, n, q, g) ==
  n \in 0 .. Len(f) /\ q = r \o SubSeq(f, 1, n) /\ g = SubSeq(f, n + 1, Len(f))

LEMMA StreamMoves ==
  ASSUME NEW S, NEW r \in Seq(S), NEW f \in Seq(S), NEW s \in Seq(S), Streamed(r, f, s),
         NEW n, NEW q, NEW g, Taken(r, f, n, q, g)
  PROVE  Streamed(q, g, s) /\ q \in Seq(S) /\ g \in Seq(S) /\ Len(q) + Len(g) = Len(r) + Len(f)
         /\ Len(g) <= Len(f)
<1> USE DEF Taken
<1> DEFINE p == SubSeq(f, 1, n)
<1>0. n \in Nat /\ n <= Len(f) /\ r \in Seq(S) /\ f \in Seq(S) /\ s \in Seq(S)
  OBVIOUS
<1>1. p \in Seq(S) /\ Len(p) = n /\ \A k \in 1 .. n : p[k] = f[k]
  BY PrefixIs
<1>2. q = r \o p
  OBVIOUS
<1> HIDE DEF p
<1>3. /\ q \in Seq(S) /\ Len(q) = Len(r) + Len(p)
      /\ \A k \in 1 .. Len(r) : q[k] = r[k]
      /\ \A k \in 1 .. Len(p) : q[Len(r) + k] = p[k]
  <2>1. r \in Seq(S) /\ p \in Seq(S)
    BY <1>0, <1>1
  <2> QED BY ONLY <2>1, <1>2, ConcatIs
<1>4. Len(q) = Len(r) + n /\ \A k \in 1 .. n : q[Len(r) + k] = f[k]
  BY ONLY <1>1, <1>3
<1>5. g \in Seq(S) /\ Len(g) = Len(f) - n /\ \A k \in 1 .. Len(f) - n : g[k] = f[n + k]
  BY RestIs, <1>0
<1>6. Streamed(r, f, s)
  OBVIOUS
<1>7. Shifted(r, f, n, q, g)
  BY <1>3, <1>4, <1>5 DEF Shifted
<1>8. q \in Seq(S) /\ g \in Seq(S)
  BY <1>3, <1>5
<1>9. Streamed(q, g, s) /\ Len(q) + Len(g) = Len(r) + Len(f) /\ Len(g) <= Len(f)
  BY ONLY <1>0, <1>6, <1>7, <1>8, StreamShifts
<1> QED BY <1>8, <1>9

LEMMA StreamIsPrefix ==
  ASSUME NEW S, NEW r \in Seq(S), NEW f \in Seq(S), NEW s \in Seq(S), Streamed(r, f, s)
  PROVE  Transfer!Prefix(r \o f, s)
<1> DEFINE q == r \o f p == SubSeq(s, 1, Len(q))
<1>0. Len(r) \in Nat /\ Len(f) \in Nat /\ Len(s) \in Nat
  OBVIOUS
<1>1. /\ q \in Seq(S) /\ Len(q) = Len(r) + Len(f)
      /\ \A k \in 1 .. Len(r) : q[k] = r[k]
      /\ \A k \in 1 .. Len(f) : q[Len(r) + k] = f[k]
  BY ConcatIs
<1> HIDE DEF q
<1>2. Len(q) <= Len(s) /\ Len(q) \in 0 .. Len(s)
  BY <1>0, <1>1 DEF Streamed
<1>3. p \in Seq(S) /\ Len(p) = Len(q) /\ \A k \in 1 .. Len(q) : p[k] = s[k]
  BY <1>2, PrefixIs
<1>4. ASSUME NEW k \in 1 .. Len(q) PROVE q[k] = s[k]
  <2>1. CASE k <= Len(r)
    <3>1. k \in 1 .. Len(r)
      BY <1>0, <1>1, <2>1
    <3> QED BY <1>1, <3>1 DEF Streamed
  <2>2. CASE ~(k <= Len(r))
    <3> DEFINE j == k - Len(r)
    <3>1. j \in 1 .. Len(f) /\ Len(r) + j = k
      BY <1>0, <1>1, <2>2
    <3> HIDE DEF j
    <3>2. q[Len(r) + j] = f[j] /\ f[j] = s[Len(r) + j]
      BY <1>1, <3>1 DEF Streamed
    <3> QED BY <3>1, <3>2
  <2> QED BY <2>1, <2>2
<1> HIDE DEF p
<1>5. p = q
  <2>1. \A k \in 1 .. Len(q) : p[k] = q[k]
    BY <1>3, <1>4
  <2> QED BY <1>1, <1>3, <2>1, SeqEqual
<1> QED BY <1>2, <1>5 DEF Transfer!Prefix, p, q

\* What the sender writes: the file and the marker.
TransferStream ==
  pc["receiver"] \in {"open", "fopen", "receive"} =>
    /\ Streamed(received, fifo1, file \o Transfer!Marker)
    /\ pc["sender"] \in {"open", "fopen", "send"} => Len(received) + Len(fifo1) = sentCells

TransferOpens == \A p \in Transfer!Processes : pc[p] = "open" => Len(opened[p]) \in {0, 1}

TransferInv == Transfer!TypeOK /\ TransferOpens /\ TransferStream

LEMMA TransferConstants ==
  /\ MAX \in Nat \ {0} /\ PipeCapacity \in Nat
  /\ Transfers \subseteq Seq(Cells) /\ "EO" \in Cells /\ "F" \in Cells
BY MCAssumption DEF Transfer!ConstantsOK

LEMMA MarkerIs == Transfer!Marker \in Seq(Cells) /\ Len(Transfer!Marker) = 2
BY TransferConstants DEF Transfer!Marker

\* The file and the marker, for a file that is sent.
LEMMA StreamIs ==
  ASSUME NEW f \in Transfers, NEW s, s = f \o Transfer!Marker
  PROVE  /\ f \in Seq(Cells) /\ Len(f) \in Nat
         /\ s \in Seq(Cells) /\ Len(s) = Len(f) + 2
         /\ \A k \in 1 .. Len(f) : s[k] = f[k]
         /\ \A k \in 1 .. 2 : s[Len(f) + k] = Transfer!Marker[k]
<1>1. f \in Seq(Cells) /\ Transfer!Marker \in Seq(Cells)
  BY TransferConstants, MarkerIs
<1>2. /\ s \in Seq(Cells) /\ Len(s) = Len(f) + Len(Transfer!Marker)
      /\ \A k \in 1 .. Len(f) : s[k] = f[k]
      /\ \A k \in 1 .. Len(Transfer!Marker) : s[Len(f) + k] = Transfer!Marker[k]
  BY <1>1, ConcatIs
<1> QED BY <1>1, <1>2, MarkerIs

LEMMA TransferOpen ==
  ASSUME TransferInv, NEW p \in Transfer!Processes, Transfer!Open(p) \/ Transfer!Fopen(p)
  PROVE  TransferInv'
<1> USE DEF TransferInv
<1>1. UNCHANGED <<file, sentCells, fifo1, ack, buffer, received>>
  BY DEF Transfer!Open, Transfer!Fopen
<1>2. pc \in [Transfer!Processes -> {"open", "fopen", "send", "read_ack", "receive",
                                     "acknowledge", "exited", "failed", "killed"}]
      /\ opened \in [Transfer!Processes -> Seq({"fifo1", "fifo2"})]
  BY DEF Transfer!TypeOK
<1>3. CASE Transfer!Open(p)
  <2>1. pc[p] = "open" /\ Len(opened[p]) \in {0, 1} /\ opened[p] \in Seq({"fifo1", "fifo2"})
    BY <1>2, <1>3 DEF Transfer!Open, TransferOpens
  <2>2. Transfer!Opening(p) \in {"fifo1", "fifo2"}
    <3>1. CASE Len(opened[p]) = 0
      <4>1. Len(opened[p]) + 1 = 1
        BY <3>1
      <4> QED BY <2>1, <4>1 DEF Transfer!Opening, Transfer!OpenOrder
    <3>2. CASE Len(opened[p]) = 1
      <4>1. Len(opened[p]) + 1 = 2
        BY <3>2
      <4> QED BY <2>1, <4>1 DEF Transfer!Opening, Transfer!OpenOrder
    <3> QED BY <2>1, <3>1, <3>2
  <2>3. PICK x \in {"fifo1", "fifo2"} : opened' = [opened EXCEPT ![p] = Append(opened[p], x)]
    BY <1>3, <2>2 DEF Transfer!Open
  <2>4. /\ Append(opened[p], x) \in Seq({"fifo1", "fifo2"})
        /\ Len(Append(opened[p], x)) = Len(opened[p]) + 1
    BY <2>1
  <2>5. PICK l \in {"open", "fopen"} : pc' = [pc EXCEPT ![p] = l] /\ (l = "open" => Len(opened[p]) # 1)
    BY <1>3 DEF Transfer!Open, Transfer!Goto
  <2>6. opened' \in [Transfer!Processes -> Seq({"fifo1", "fifo2"})]
    BY <1>2, <2>3, <2>4
  <2>7. Transfer!TypeOK'
    BY <1>1, <1>2, <2>5, <2>6 DEF Transfer!TypeOK
  <2>8. TransferOpens'
    BY <1>2, <2>1, <2>3, <2>4, <2>5 DEF TransferOpens
  <2>9. TransferStream'
    BY <1>1, <1>2, <2>1, <2>5 DEF TransferStream, Transfer!Processes
  <2> QED BY <2>7, <2>8, <2>9
<1>4. CASE Transfer!Fopen(p)
  <2>1. pc[p] = "fopen" /\ UNCHANGED opened
    BY <1>4 DEF Transfer!Fopen
  <2>2. PICK l \in {"send", "receive", "failed"} : pc' = [pc EXCEPT ![p] = l] /\ (l = "send" => p = "sender")
                                             /\ (l = "receive" => p = "receiver")
    BY <1>4 DEF Transfer!Fopen, Transfer!Goto, Transfer!Processes
  <2>3. Transfer!TypeOK'
    BY <1>1, <1>2, <2>1, <2>2 DEF Transfer!TypeOK
  <2>4. TransferOpens'
    BY <1>2, <2>1, <2>2 DEF TransferOpens
  <2>5. TransferStream'
    BY <1>1, <1>2, <2>1, <2>2 DEF TransferStream, Transfer!Processes
  <2> QED BY <2>3, <2>4, <2>5
<1> QED BY <1>3, <1>4

\* The sender comes to stand at l, without anything more in the pipe.
LEMMA SenderEnds ==
  ASSUME TransferInv, NEW l \in {"killed", "exited"}, Transfer!Goto("sender", l),
         UNCHANGED <<file, sentCells, fifo1, ack, opened, buffer, received>>
  PROVE  TransferInv'
<1>1. Transfer!TypeOK'
  BY DEF TransferInv, Transfer!TypeOK, Transfer!Goto
<1>2. pc'["sender"] = l /\ pc'["receiver"] = pc["receiver"] /\ \A p \in Transfer!Processes : pc'[p] = "open" => pc[p] = "open"
  BY DEF TransferInv, Transfer!TypeOK, Transfer!Goto, Transfer!Processes
<1>3. TransferOpens' /\ TransferStream'
  BY <1>2 DEF TransferInv, TransferOpens, TransferStream
<1> QED BY <1>1, <1>3 DEF TransferInv

\* The receiver reads no more.
LEMMA ReceiverStops ==
  ASSUME TransferInv, NEW l \in {"acknowledge", "killed", "exited"}, Transfer!Goto("receiver", l),
         UNCHANGED <<file, sentCells, opened, received>>,
         fifo1' \in Seq(Cells), Len(fifo1') <= PipeCapacity, ack' \in BOOLEAN,
         buffer' \in [1 .. MAX -> Cells]
  PROVE  TransferInv'
<1>1. Transfer!TypeOK'
  BY DEF TransferInv, Transfer!TypeOK, Transfer!Goto
<1>2. pc'["receiver"] = l /\ \A p \in Transfer!Processes : pc'[p] = "open" => pc[p] = "open"
  BY DEF TransferInv, Transfer!TypeOK, Transfer!Goto, Transfer!Processes
<1>3. TransferOpens' /\ TransferStream'
  BY <1>2 DEF TransferInv, TransferOpens, TransferStream
<1> QED BY <1>1, <1>3 DEF TransferInv

LEMMA TransferSend == ASSUME TransferInv, Transfer!Send PROVE TransferInv'
<1> DEFINE n == Transfer!Least(MAX, Len(file) - sentCells)
           t == SubSeq(file, sentCells + 1, sentCells + n)
<1> USE TransferConstants
<1>1. CASE Transfer!Goto("sender", "killed") /\ UNCHANGED <<file, sentCells, fifo1, ack, opened, buffer, received>>
  BY <1>1, SenderEnds
<1>2. CASE /\ pc["sender"] = "send" /\ ~Transfer!Gone("receiver") /\ n > 0 /\ Len(fifo1) + n <= PipeCapacity
           /\ fifo1' = fifo1 \o t /\ sentCells' = sentCells + n
           /\ UNCHANGED <<file, ack, opened, buffer, received, pc>>
  <2>1. /\ file \in Transfers /\ file \in Seq(Cells) /\ Len(file) \in Nat
        /\ sentCells \in Nat /\ sentCells <= Len(file)
        /\ fifo1 \in Seq(Cells) /\ received \in Seq(Cells)
    BY DEF TransferInv, Transfer!TypeOK
  <2>2. n \in Nat /\ n >= 1 /\ n <= Len(file) - sentCells
    <3>1. ASSUME NEW x \in Nat, NEW y \in Nat PROVE Transfer!Least(x, y) \in Nat /\ Transfer!Least(x, y) <= y
      BY DEF Transfer!Least
    <3>2. Len(file) - sentCells \in Nat
      BY <2>1
    <3>3. n \in Nat /\ n <= Len(file) - sentCells
      BY <3>1, <3>2
    <3>4. n > 0
      BY <1>2
    <3> HIDE DEF n
    <3> QED BY ONLY <3>3, <3>4
  <2>3. PICK i \in Nat : i = sentCells + 1
    BY <2>1
  <2>4. PICK j \in Nat : j = sentCells + n
    BY <2>1, <2>2
  <2> HIDE DEF n
  <2>5. i \in 1 .. Len(file) + 1 /\ j \in i - 1 .. Len(file) /\ j - i + 1 = n /\ t = SubSeq(file, i, j)
    BY <2>1, <2>2, <2>3, <2>4
  <2>6. PICK u : u = t
    OBVIOUS
  <2>7. u = SubSeq(file, i, j) /\ fifo1' = fifo1 \o u
    BY <1>2, <2>5, <2>6
  <2> HIDE DEF t
  <2>8. u \in Seq(Cells) /\ Len(u) = j - i + 1 /\ \A k \in 1 .. j - i + 1 : u[k] = file[i + k - 1]
    BY ONLY <2>1, <2>5, <2>7, SubSeqIs
  <2>9. /\ fifo1' \in Seq(Cells) /\ Len(fifo1') = Len(fifo1) + n
    BY <2>1, <2>5, <2>7, <2>8
  <2>10. Transfer!TypeOK'
    <3>1. sentCells' \in 0 .. Len(file)
      BY <1>2, <2>1, <2>2
    <3> QED BY <1>2, <2>9, <3>1 DEF TransferInv, Transfer!TypeOK
  <2>11. TransferOpens'
    BY <1>2 DEF TransferInv, TransferOpens
  <2>12. ASSUME pc["receiver"] \in {"open", "fopen", "receive"}
         PROVE  Streamed(received, fifo1', file \o Transfer!Marker) /\ Len(received) + Len(fifo1') = sentCells'
    <3>1. PICK s : s = file \o Transfer!Marker
      OBVIOUS
    <3>2. /\ s \in Seq(Cells) /\ Len(s) = Len(file) + 2
          /\ \A k \in 1 .. Len(file) : s[k] = file[k]
      BY <2>1, <3>1, StreamIs
    <3>3. Streamed(received, fifo1, s) /\ Len(received) + Len(fifo1) = sentCells
      BY <1>2, <2>12, <3>1 DEF TransferInv, TransferStream
    <3>4. Len(received) + Len(fifo1) + Len(u) <= Len(s)
      BY <2>1, <2>2, <2>5, <2>8, <3>2, <3>3
    <3>5. ASSUME NEW k \in 1 .. Len(u) PROVE u[k] = s[Len(received) + Len(fifo1) + k]
      <4>1. k \in 1 .. j - i + 1 /\ i + k - 1 = sentCells + k /\ sentCells + k \in 1 .. Len(file)
        BY <2>1, <2>2, <2>3, <2>5, <2>8
      <4>2. u[k] = file[sentCells + k]
        BY <2>8, <4>1
      <4>3. s[sentCells + k] = file[sentCells + k]
        BY <3>2, <4>1
      <4> QED BY <3>3, <4>2, <4>3
    <3>6. \A k \in 1 .. Len(u) : u[k] = s[Len(received) + Len(fifo1) + k]
      BY <3>5
    <3>7. Streamed(received, fifo1', s)
      <4>1. PICK g : g = fifo1'
        OBVIOUS
      <4>2. g = fifo1 \o u /\ u \in Seq(Cells) /\ s \in Seq(Cells) /\ received \in Seq(Cells) /\ fifo1 \in Seq(Cells)
        BY <2>1, <2>7, <2>8, <3>2, <4>1
      <4>3. Streamed(received, fifo1, s)
        BY <3>3
      <4>4. Streamed(received, g, s)
        BY ONLY <3>4, <3>6, <4>2, <4>3, StreamGrows
      <4> QED BY <4>1, <4>4
    <3>8. Len(received) + Len(fifo1') = sentCells'
      <4>1. Len(received) \in Nat /\ Len(fifo1) \in Nat /\ sentCells' = sentCells + n
        BY <1>2, <2>1
      <4>2. ASSUME NEW x \in Nat, NEW y \in Nat, NEW m \in Nat PROVE x + (y + m) = (x + y) + m
        OBVIOUS
      <4>3. Len(received) + (Len(fifo1) + n) = (Len(received) + Len(fifo1)) + n
        BY <2>2, <4>1, <4>2
      <4> QED BY <2>9, <3>3, <4>1, <4>3
    <3> QED BY <3>1, <3>7, <3>8
  <2>13. TransferStream'
    BY <1>2, <2>12 DEF TransferStream
  <2> QED BY <2>10, <2>11, <2>13 DEF TransferInv
<1> QED BY <1>1, <1>2 DEF Transfer!Send

LEMMA TransferMarker == ASSUME TransferInv, Transfer!SendMarker PROVE TransferInv'
<1> USE TransferConstants
<1>1. CASE Transfer!Goto("sender", "killed") /\ UNCHANGED <<file, sentCells, fifo1, ack, opened, buffer, received>>
  BY <1>1, SenderEnds
<1>2. CASE /\ pc["sender"] = "send" /\ sentCells = Len(file)
           /\ ~Transfer!Gone("receiver") /\ Len(fifo1) + Len(Transfer!Marker) <= PipeCapacity
           /\ fifo1' = fifo1 \o Transfer!Marker /\ Transfer!Goto("sender", "read_ack")
           /\ UNCHANGED <<file, sentCells, ack, opened, buffer, received>>
  <2>1. /\ file \in Transfers /\ file \in Seq(Cells) /\ Len(file) \in Nat
        /\ fifo1 \in Seq(Cells) /\ received \in Seq(Cells)
    BY DEF TransferInv, Transfer!TypeOK
  <2>2. fifo1' \in Seq(Cells) /\ Len(fifo1') = Len(fifo1) + Len(Transfer!Marker)
    <3>1. PICK g : g = fifo1'
      OBVIOUS
    <3>2. g = fifo1 \o Transfer!Marker /\ Transfer!Marker \in Seq(Cells)
      BY <1>2, <3>1, MarkerIs
    <3>3. g \in Seq(Cells) /\ Len(g) = Len(fifo1) + Len(Transfer!Marker)
      BY ONLY <2>1, <3>2, ConcatIs
    <3> QED BY <3>1, <3>3
  <2>3. Transfer!TypeOK'
    BY <1>2, <2>2 DEF TransferInv, Transfer!TypeOK, Transfer!Goto
  <2>4. pc'["sender"] = "read_ack" /\ pc'["receiver"] = pc["receiver"]
        /\ \A p \in Transfer!Processes : pc'[p] = "open" => pc[p] = "open"
    BY <1>2 DEF TransferInv, Transfer!TypeOK, Transfer!Goto, Transfer!Processes
  <2>5. TransferOpens'
    BY <1>2, <2>4 DEF TransferInv, TransferOpens
  <2>6. ASSUME pc["receiver"] \in {"open", "fopen", "receive"}
        PROVE  Streamed(received, fifo1', file \o Transfer!Marker)
    <3>1. PICK s : s = file \o Transfer!Marker
      OBVIOUS
    <3>2. PICK u : u = Transfer!Marker
      OBVIOUS
    <3>3. /\ s \in Seq(Cells) /\ Len(s) = Len(file) + 2
          /\ \A k \in 1 .. 2 : s[Len(file) + k] = u[k]
          /\ u \in Seq(Cells) /\ Len(u) = 2 /\ fifo1' = fifo1 \o u
      BY <1>2, <2>1, <3>1, <3>2, StreamIs, MarkerIs
    <3>4. Streamed(received, fifo1, s) /\ Len(received) + Len(fifo1) = Len(file)
      BY <1>2, <2>6, <3>1 DEF TransferInv, TransferStream
    <3>5. Len(received) + Len(fifo1) + Len(u) <= Len(s)
      BY <2>1, <3>3, <3>4
    <3>6. \A k \in 1 .. Len(u) : u[k] = s[Len(received) + Len(fifo1) + k]
      BY <3>3, <3>4
    <3>7. Streamed(received, fifo1', s)
      BY ONLY <2>1, <3>3, <3>4, <3>5, <3>6, StreamGrows
    <3> QED BY <3>1, <3>7
  <2>7. TransferStream'
    BY <1>2, <2>4, <2>6 DEF TransferStream
  <2> QED BY <2>3, <2>5, <2>7 DEF TransferInv
<1> QED BY <1>1, <1>2 DEF Transfer!SendMarker

LEMMA TransferReceive == ASSUME TransferInv, Transfer!Receive PROVE TransferInv'
<1> DEFINE n == Transfer!Least(MAX, Len(fifo1))
<1> USE TransferConstants
<1>1. /\ pc["receiver"] = "receive" /\ n > 0 /\ buffer' = Transfer!Overlay(n)
      /\ fifo1' = SubSeq(fifo1, n + 1, Len(fifo1))
      /\ UNCHANGED <<file, sentCells, ack, opened>>
      /\ \/ Transfer!Goto("receiver", "acknowledge") /\ UNCHANGED received
         \/ received' = received \o SubSeq(fifo1, 1, n) /\ UNCHANGED pc
  BY DEF Transfer!Receive
<1>2. /\ file \in Transfers /\ fifo1 \in Seq(Cells) /\ Len(fifo1) \in Nat /\ Len(fifo1) <= PipeCapacity
      /\ received \in Seq(Cells) /\ buffer \in [1 .. MAX -> Cells] /\ ack \in BOOLEAN
  BY DEF TransferInv, Transfer!TypeOK
<1>3. n \in Nat /\ n <= Len(fifo1) /\ n \in 0 .. Len(fifo1)
  BY <1>2 DEF Transfer!Least
<1> HIDE DEF n
<1>4. buffer' \in [1 .. MAX -> Cells]
  <2>1. ASSUME NEW k \in 1 .. MAX PROVE (IF k <= n THEN fifo1[k] ELSE buffer[k]) \in Cells
    BY <1>2, <1>3
  <2> QED BY <1>1, <2>1 DEF Transfer!Overlay
<1>5. fifo1' \in Seq(Cells) /\ Len(fifo1') = Len(fifo1) - n
  BY <1>1, <1>2, <1>3, RestIs
<1>6. Len(fifo1') <= PipeCapacity
  BY <1>2, <1>3, <1>5
<1>7. CASE Transfer!Goto("receiver", "acknowledge") /\ UNCHANGED received
  BY <1>1, <1>2, <1>4, <1>5, <1>6, <1>7, ReceiverStops
<1>8. CASE received' = received \o SubSeq(fifo1, 1, n) /\ UNCHANGED pc
  <2>1. PICK s : s = file \o Transfer!Marker
    OBVIOUS
  <2>2. s \in Seq(Cells)
    BY <1>2, <2>1, StreamIs
  <2>3. Streamed(received, fifo1, s)
        /\ (pc["sender"] \in {"open", "fopen", "send"} => Len(received) + Len(fifo1) = sentCells)
    BY <1>1, <2>1 DEF TransferInv, TransferStream
  <2>4. Streamed(received', fifo1', s) /\ received' \in Seq(Cells)
        /\ Len(received') + Len(fifo1') = Len(received) + Len(fifo1)
    <3>1. PICK q : q = received'
      OBVIOUS
    <3>2. PICK g : g = fifo1'
      OBVIOUS
    <3>3. Taken(received, fifo1, n, q, g)
      BY <1>1, <1>3, <1>8, <3>1, <3>2 DEF Taken
    <3>4. received \in Seq(Cells) /\ fifo1 \in Seq(Cells) /\ Streamed(received, fifo1, s)
      BY <1>2, <2>3
    <3>5. Streamed(q, g, s) /\ q \in Seq(Cells) /\ Len(q) + Len(g) = Len(received) + Len(fifo1)
      BY ONLY <2>2, <3>3, <3>4, StreamMoves
    <3> QED BY <3>1, <3>2, <3>5
  <2>5. Transfer!TypeOK'
    BY <1>1, <1>2, <1>4, <1>5, <1>6, <1>8, <2>4 DEF TransferInv, Transfer!TypeOK
  <2>6. TransferOpens'
    BY <1>1, <1>8 DEF TransferInv, TransferOpens
  <2>7. TransferStream'
    BY <1>1, <1>8, <2>1, <2>3, <2>4 DEF TransferStream
  <2> QED BY <2>5, <2>6, <2>7 DEF TransferInv
<1> QED BY <1>1, <1>7, <1>8

LEMMA TransferInvariant == Spec => []TransferInv
<1>1. Init => TransferInv
  <2> SUFFICES ASSUME Transfer!Init PROVE TransferInv
    BY DEF Init
  <2> USE TransferConstants DEF Transfer!Init
  <2>1. file \in Seq(Cells) /\ Len(file) \in Nat
    OBVIOUS
  <2>2. <<>> \in Seq(Cells) /\ Len(<<>>) = 0 /\ <<>> \in Seq({"fifo1", "fifo2"})
    OBVIOUS
  <2>3. Transfer!TypeOK
    <3>1. sentCells \in 0 .. Len(file) /\ fifo1 \in Seq(Cells) /\ Len(fifo1) <= PipeCapacity
      BY <2>1, <2>2
    <3>2. opened \in [Transfer!Processes -> Seq({"fifo1", "fifo2"})] /\ received \in Seq(Cells)
      BY <2>2
    <3>3. file \in Transfers /\ ack \in BOOLEAN /\ buffer \in [1 .. MAX -> Cells]
      OBVIOUS
    <3>4. pc \in [Transfer!Processes -> {"open", "fopen", "send", "read_ack", "receive",
                                         "acknowledge", "exited", "failed", "killed"}]
      OBVIOUS
    <3> QED BY ONLY <3>1, <3>2, <3>3, <3>4 DEF Transfer!TypeOK
  <2>4. TransferOpens
    BY <2>2 DEF TransferOpens
  <2>5. PICK s : s = file \o Transfer!Marker
    OBVIOUS
  <2>6. Len(s) \in Nat
    BY <2>1, <2>5, StreamIs
  <2>7. Streamed(received, fifo1, s) /\ Len(received) + Len(fifo1) = sentCells
    <3>1. received = <<>> /\ fifo1 = <<>> /\ sentCells = 0
      OBVIOUS
    <3>2. Len(received) = 0 /\ Len(fifo1) = 0
      BY <3>1
    <3>3. \A k \in 1 .. 0 : FALSE
      OBVIOUS
    <3> QED BY ONLY <2>6, <3>1, <3>2, <3>3 DEF Streamed
  <2>8. TransferStream
    BY <2>5, <2>7 DEF TransferStream
  <2> QED BY <2>3, <2>4, <2>8 DEF TransferInv
<1>2. TransferInv /\ [Next]_vars => TransferInv'
  <2> SUFFICES ASSUME TransferInv, [Next]_vars PROVE TransferInv'
    OBVIOUS
  <2>1. CASE UNCHANGED transferred
    <3>1. UNCHANGED <<file, sentCells, fifo1, ack, opened, buffer, received, pc>>
      BY <2>1 DEF transferred
    <3>2. Transfer!TypeOK' /\ TransferOpens'
      BY <3>1 DEF TransferInv, Transfer!TypeOK, TransferOpens
    <3>3. TransferStream'
      BY <3>1 DEF TransferInv, TransferStream
    <3> QED BY <3>2, <3>3 DEF TransferInv
  <2>2. CASE \E p \in Transfer!Processes : Transfer!Open(p) \/ Transfer!Fopen(p)
    BY <2>2, TransferOpen
  <2>3. CASE Transfer!Send \/ Transfer!SendMarker \/ Transfer!Receive
    BY <2>3, TransferSend, TransferMarker, TransferReceive
  <2>4. CASE Transfer!ReadAck
    BY <2>4, SenderEnds DEF Transfer!ReadAck
  <2>5. CASE Transfer!ReceiveEnd \/ Transfer!Acknowledge
    <3>1. PICK l \in {"acknowledge", "killed", "exited"} : Transfer!Goto("receiver", l)
      BY <2>5 DEF Transfer!ReceiveEnd, Transfer!Acknowledge
    <3>2. UNCHANGED <<file, sentCells, fifo1, opened, buffer, received>> /\ ack' \in {ack, TRUE}
      BY <2>5 DEF Transfer!ReceiveEnd, Transfer!Acknowledge
    <3>3. /\ fifo1' \in Seq(Cells) /\ Len(fifo1') <= PipeCapacity /\ ack' \in BOOLEAN
          /\ buffer' \in [1 .. MAX -> Cells]
      BY <3>2 DEF TransferInv, Transfer!TypeOK
    <3> QED BY <3>1, <3>2, <3>3, ReceiverStops
  <2>6. CASE Transfer!Finished
    BY <2>1, <2>6 DEF Transfer!Finished, Transfer!vars, transferred
  <2> QED BY TransferMoves, <2>1, <2>2, <2>3, <2>4, <2>5, <2>6
          DEF Transfer!Next, Transfer!SenderStep, Transfer!ReceiverStep, Transfer!Processes
<1> QED BY <1>1, <1>2, PTL DEF Spec

LEMMA TransferWhole == TransferInv => Transfer!StreamKept
<1> SUFFICES ASSUME TransferInv, pc["receiver"] = "receive"
             PROVE  Transfer!Prefix(received \o fifo1, file \o Transfer!Marker)
  BY DEF Transfer!StreamKept
<1>1. PICK s : s = file \o Transfer!Marker
  OBVIOUS
<1>2. file \in Transfers /\ received \in Seq(Cells) /\ fifo1 \in Seq(Cells)
  BY DEF TransferInv, Transfer!TypeOK
<1>3. s \in Seq(Cells)
  BY <1>1, <1>2, StreamIs
<1>4. Streamed(received, fifo1, s)
  BY <1>1 DEF TransferInv, TransferStream
<1>5. Transfer!Prefix(received \o fifo1, s)
  BY ONLY <1>2, <1>3, <1>4, StreamIsPrefix
<1> QED BY <1>1, <1>5

\* receiver.c, shmReader.c, shmForkDemo.c, chata.c, chatb.c, Counters.c,
\* atomic_counter.c, hub_pipe.c, pollhup_socket.c: for every file, buffer and
\* pipe, every text, number of turns, workers and increments, what one process
\* hands to another arrives whole, in order and once, and nothing of it is
\* lost on the way.
THEOREM AllIsHandedOver == Spec => []HandedOver
<1>1. TransferInv /\ ShmInv /\ ChatInv /\ CounterInv /\ HubInv => HandedOver
  BY TransferWhole, CounterWhole DEF HandedOver, ShmInv, ChatInv, HubInv, Hub!ShownFirst
<1> QED BY <1>1, TransferInvariant, ShmInvariant, ChatInvariant, CounterInvariant, HubInvariant, PTL

\* The program that runs is one of the eight, and stays the same.
Running == program \in {"transfer", "shm", "chat", "select", "jobs", "counter", "hub", "conn"}

\* All programs of several processes: every variable of the program that runs
\* keeps to its type, among them the pipe to its capacity, the descriptors to
\* the lowest free ones and the children's table to its size.
THEOREM Types == Spec => []TypeOK
<1>1. Spec => []Running
  <2>1. Init => Running
    BY MCAssumption DEF Init, Running
  <2>2. Running /\ [Next]_vars => Running'
    BY DEF Running, Next, Only, vars
  <2> QED BY <2>1, <2>2, PTL DEF Spec
<1>2. Running /\ TransferInv /\ ShmInv /\ ChatInv /\ SelectInv /\ JobsInv /\ CounterInv /\ HubInv /\ ConnInv
        => TypeOK
  <2> SUFFICES ASSUME Running, TransferInv, ShmInv, ChatInv, SelectInv, JobsInv, CounterInv, HubInv, ConnInv
               PROVE  TypeOK
    OBVIOUS
  <2>1. Transfer!TypeOK /\ Shm!TypeOK /\ Server!TypeOK /\ Jobs!TypeOK /\ Hub!TypeOK
    BY DEF TransferInv, ShmInv, SelectInv, SelectTypes, JobsInv, HubInv
  <2>2. Chat!TypeOK /\ Counter!TypeOK /\ Conn!TypeOK
    BY ChatTypes, CounterTypes, ConnAllTypes
  <2> QED BY <2>1, <2>2 DEF TypeOK, Running
<1>3. Spec => [](Running /\ TransferInv /\ ShmInv /\ ChatInv /\ SelectInv)
  BY <1>1, TransferInvariant, ShmInvariant, ChatInvariant, SelectInvariant, PTL
<1>4. Spec => [](JobsInv /\ CounterInv /\ HubInv /\ ConnInv)
  BY JobsInvariant, CounterInvariant, HubInvariant, ConnInvariant, PTL
<1> QED BY <1>2, <1>3, <1>4, PTL
=============================================================================
