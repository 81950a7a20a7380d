---------------------------- MODULE JobController ----------------------------
(***************************************************************************)
(* IPCs/signals/controller.c: a parent that forks MAX_CHILDREN children,   *)
(* restarts them on SIGHUP and stops on SIGINT or SIGTERM.  A handler runs *)
(* on top of what the parent was doing, with only its own signal blocked,  *)
(* so handlers nest; a signal that is already pending is not counted       *)
(* twice.  The children inherit handlers and variables.                    *)
(***************************************************************************)
EXTENDS Integers, Sequences

CONSTANTS MAX_CHILDREN,
          MaxPids,       \* bound: processes forked
          MaxSignals     \* bound: signals a user sends

VARIABLES children,      \* pid of each child, 0 before it is forked
          running,
          stack,         \* what the parent runs: main, and the handlers on top
          pending,       \* signals pending in the parent
          child,         \* state of each process forked
          sigterm,       \* whether SIGTERM is pending in it
          inherited,     \* its copy of the array children
          sent           \* signals sent so far

vars == <<children, running, stack, pending, child, sigterm, inherited, sent>>

Pids    == 1 .. MaxPids
Indices == 1 .. MAX_CHILDREN
Signals == {"SIGINT", "SIGHUP", "SIGTERM", "SIGCHLD"}
Nobody  == [i \in Indices |-> 0]

ConstantsOK == MAX_CHILDREN \in Nat \ {0} /\ MaxPids \in Nat /\ MaxPids >= MAX_CHILDREN /\ MaxSignals \in Nat

Frames == [of : Signals \cup {"main"}, i : 0 .. MAX_CHILDREN + 1,
           step : {"spawn", "test", "enter", "pause", "stop", "kill", "reap"}]

TypeOK ==
  /\ children \in [Indices -> Pids \cup {0}]
  /\ running \in BOOLEAN
  /\ \A k \in DOMAIN stack : stack[k] \in Frames
  /\ pending \subseteq Signals
  /\ child \in [Pids -> {"none", "running", "zombie", "reaped"}]
  /\ sigterm \subseteq Pids
  /\ inherited \in [Pids -> [Indices -> Pids \cup {0}]]
  /\ sent \in 0 .. MaxSignals

Init ==
  /\ children = Nobody
  /\ running = TRUE
  /\ stack = <<[of |-> "main", step |-> "spawn", i |-> 1]>>
  /\ pending = {}
  /\ child = [p \in Pids |-> "none"]
  /\ sigterm = {}
  /\ inherited = [p \in Pids |-> Nobody]
  /\ sent = 0

Alive == stack # <<>>       \* the parent has not returned
Top   == stack[Len(stack)]
At(step) == Alive /\ Top.step = step

Continue(step, i) ==
  stack' = [stack EXCEPT ![Len(stack)] = [of |-> Top.of, step |-> step, i |-> i]]
Return == stack' = SubSeq(stack, 1, Len(stack) - 1)
-----------------------------------------------------------------------------
(* The parent: main and what the handlers call.                            *)

\* fork may fail, which ends the parent, and does when there is no pid left.
\* The child has what the parent had, without the pid just given to it.
spawn_child ==
  /\ At("spawn") /\ Top.i <= MAX_CHILDREN
  /\ \/ \E p \in Pids :
          /\ child[p] = "none" /\ \A q \in 1 .. p - 1 : child[q] # "none"
          /\ child' = [child EXCEPT ![p] = "running"]
          /\ inherited' = [inherited EXCEPT ![p] = children]
          /\ children' = [children EXCEPT ![Top.i] = p]
          /\ Continue("spawn", Top.i + 1)
     \/ stack' = <<>> /\ UNCHANGED <<child, inherited, children>>
  /\ UNCHANGED <<running, pending, sigterm, sent>>

Spawned ==
  /\ At("spawn") /\ Top.i > MAX_CHILDREN
  /\ IF Top.of = "main" THEN Continue("test", 0) ELSE Return
  /\ UNCHANGED <<children, running, pending, child, sigterm, inherited, sent>>

\* kill reaches processes that are there; SIGHUP goes on to fork new ones.
kill_children ==
  /\ At("kill")
  /\ IF Top.i <= MAX_CHILDREN
     THEN /\ sigterm' = sigterm \cup {p \in {children[Top.i]} \ {0} : child[p] = "running"}
          /\ Continue("kill", Top.i + 1)
     ELSE /\ IF Top.of = "SIGHUP" THEN Continue("spawn", 1) ELSE Return
          /\ UNCHANGED sigterm
  /\ UNCHANGED <<children, running, pending, child, inherited, sent>>

\* handle_signal for SIGINT and SIGTERM, before kill_children.
Stop ==
  /\ At("stop")
  /\ running' = FALSE
  /\ Continue("kill", 1)
  /\ UNCHANGED <<children, pending, child, sigterm, inherited, sent>>

Zombies == {p \in Pids : child[p] = "zombie"}

\* Mutant: waitpid is called once.
handle_sigchldOnce ==
  /\ At("reap")
  /\ \/ \E p \in Zombies : child' = [child EXCEPT ![p] = "reaped"]
     \/ Zombies = {} /\ UNCHANGED child
  /\ Return
  /\ UNCHANGED <<children, running, pending, sigterm, inherited, sent>>

\* waitpid in a loop, until there is none to be waited for.
handle_sigchld ==
  /\ At("reap")
  /\ IF Zombies # {}
     THEN (\E p \in Zombies : child' = [child EXCEPT ![p] = "reaped"]) /\ UNCHANGED stack
     ELSE Return /\ UNCHANGED child
  /\ UNCHANGED <<children, running, pending, sigterm, inherited, sent>>

\* while(running) pause(); a signal handled before pause does not end it.
MainLoop ==
  /\ \/ At("test") /\ IF running THEN Continue("enter", 0) ELSE Return
     \/ At("enter") /\ Continue("pause", 0)
  /\ UNCHANGED <<children, running, pending, child, sigterm, inherited, sent>>

First(sig) == CASE sig \in {"SIGINT", "SIGTERM"} -> "stop"
                [] sig = "SIGHUP" -> "kill"
                [] sig = "SIGCHLD" -> "reap"

\* A signal is handled when its handler does not run; it ends pause.
Deliver(sig) ==
  /\ Alive /\ sig \in pending
  /\ \A k \in DOMAIN stack : stack[k].of # sig
  /\ pending' = pending \ {sig}
  /\ stack' = (IF At("pause") THEN [stack EXCEPT ![Len(stack)].step = "test"] ELSE stack)
                \o <<[of |-> sig, step |-> First(sig), i |-> IF sig = "SIGHUP" THEN 1 ELSE 0]>>
  /\ UNCHANGED <<children, running, child, sigterm, inherited, sent>>
-----------------------------------------------------------------------------
(* The children and the user.                                              *)

\* The loop of a child goes on: its SIGTERM is handled as the parent's is,
\* with its own copy of the variables.
ChildSigterm(p) ==
  /\ child[p] = "running" /\ p \in sigterm
  /\ sigterm' = (sigterm \ {p})
                  \cup {q \in {inherited[p][i] : i \in Indices} \ {0} : child[q] = "running"}
  /\ UNCHANGED <<children, running, stack, pending, child, inherited, sent>>

\* SIGKILL from outside is what ends a child.
ChildKilled(p) ==
  /\ child[p] = "running"
  /\ child' = [child EXCEPT ![p] = "zombie"]
  /\ sigterm' = sigterm \ {p}
  /\ pending' = IF Alive THEN pending \cup {"SIGCHLD"} ELSE pending
  /\ UNCHANGED <<children, running, stack, inherited, sent>>

Signal(sig) ==
  /\ Alive /\ sent < MaxSignals
  /\ sent' = sent + 1
  /\ pending' = pending \cup {sig}
  /\ UNCHANGED <<children, running, stack, child, sigterm, inherited>>

ParentStep ==
  \/ spawn_child \/ Spawned \/ kill_children \/ Stop \/ handle_sigchld \/ MainLoop
  \/ \E sig \in Signals : Deliver(sig)

Next ==
  \/ ParentStep
  \/ \E p \in Pids : ChildSigterm(p) \/ ChildKilled(p)
  \/ \E sig \in Signals \ {"SIGCHLD"} : Signal(sig)
-----------------------------------------------------------------------------
(* Properties.                                                             *)

\* However the handlers nest, and however many children end at once, a child
\* that ended is reaped: until then its signal is pending or handle_sigchld
\* has its last waitpid to come.
ZombiesReaped ==
  Alive /\ Zombies # {} =>
    "SIGCHLD" \in pending \/ \E k \in DOMAIN stack : stack[k].of = "SIGCHLD"

\* Said by the parent when it leaves on a signal ("stopping all children...",
\* controller.c:50): no child goes on for ever.
Stopped   == ~Alive /\ ~running
Childless == \A p \in Pids : child[p] # "running"
=============================================================================
