------------------------------ MODULE MvccStore ------------------------------
(***************************************************************************)
(* The multi-version key-value store of POSIX/Thread/threads.c.  Threads   *)
(* that each run one transaction share a linked list of nodes, which       *)
(* get_node searches and extends without a lock; a node's versions are     *)
(* changed under its own lock.  When the threads have ended, a console     *)
(* runs transactions of its own, which it may roll back.                   *)
(*                                                                         *)
(* The body of kv_set, kv_delete, kv_get and commit runs under one lock    *)
(* and is one step; get_node is three: the search, node->next = store, and *)
(* store = node.  Values are kept only as far as the code tells them apart,*)
(* empty or not.                                                           *)
(***************************************************************************)
EXTENDS Integers, Sequences, FiniteSets

CONSTANTS Threads,      \* those of main's loop
          Console, Keys,
          Demos,        \* what may be run: [calls, commands], the operations of each
                        \* thread that is started, and how many commands the user types
          MAX_OPS, MAX_LOGS,
          MaxNodes,     \* bound: nodes that are allocated
          MaxClock      \* bound: seconds that pass

Ops == [op : {"SET", "DEL", "GET"}, key : Keys]

ConstantsOK ==
  /\ \A d \in Demos :
       /\ DOMAIN d.calls \subseteq Threads /\ d.commands \in Nat
       /\ \A t \in DOMAIN d.calls : d.calls[t] \in Seq(Ops)
  /\ Console \notin Threads
  /\ MAX_OPS \in Nat /\ MAX_LOGS \in Nat
  /\ MaxNodes \in Nat /\ MaxClock \in Nat

VARIABLES store,        \* the first node, 0 for NULL
          nodes,        \* the nodes allocated so far
          clock,        \* time(NULL)
          tid_counter, logs,
          pc, tx,
          todo,         \* operations a thread has yet to call
          node,         \* the node get_node returned or is adding
          commands,     \* commands the user has yet to type
          atBegin       \* history: the nodes when the console's transaction began

list    == <<store, nodes>>
console == <<commands, atBegin>>
vars    == <<store, nodes, clock, tid_counter, logs, pc, tx, todo, node, commands, atBegin>>

Actors  == Threads \cup {Console}
Version == [value : {"empty", "text"}, timestamp : 0 .. MaxClock, tid : Nat]
Node    == [key : Keys, versions : Seq(Version), next : 0 .. MaxNodes]
Logged  == [tid : Nat, op : {"SET", "DEL"}, key : Keys, ts : 0 .. MaxClock]
NoTx    == [tid |-> 0, start_time |-> 0, ops |-> <<>>]

TypeOK ==
  /\ store \in 0 .. Len(nodes)
  /\ nodes \in Seq(Node) /\ Len(nodes) <= MaxNodes
  /\ clock \in 0 .. MaxClock
  /\ tid_counter \in Nat
  /\ logs \in Seq(Logged) /\ Len(logs) <= MAX_LOGS
  /\ pc \in [Actors -> {"joining", "begin", "count", "call", "link", "publish",
                        "body", "exited"}]
  /\ \A t \in Actors : /\ tx[t].tid \in Nat /\ tx[t].start_time \in 0 .. MaxClock
                       /\ tx[t].ops \in Seq(Logged) /\ Len(tx[t].ops) <= MAX_OPS
                       /\ todo[t] \in Seq(Ops)
                       /\ node[t] \in 0 .. Len(nodes)
  /\ commands \in Nat
  /\ atBegin \in Seq(Node)

\* A thread that is not started counts as one that has returned.
Init ==
  /\ \E d \in Demos :
       /\ pc = [t \in Actors |-> IF t = Console THEN "joining"
                                 ELSE IF t \in DOMAIN d.calls THEN "begin" ELSE "exited"]
       /\ todo = [t \in Actors |-> IF t \in DOMAIN d.calls THEN d.calls[t] ELSE <<>>]
       /\ commands = d.commands
  /\ store = 0
  /\ nodes = <<>>
  /\ clock = 0
  /\ tid_counter = 1
  /\ logs = <<>>
  /\ tx = [t \in Actors |-> NoTx]
  /\ node = [t \in Actors |-> 0]
  /\ atBegin = <<>>

Goto(t, label) == pc' = [pc EXCEPT ![t] = label]
-----------------------------------------------------------------------------
(* begin_transaction: tid_counter++ is a load and a store.                 *)

BeginLoad(t) ==
  /\ pc[t] = "begin"
  /\ tx' = [tx EXCEPT ![t] = [NoTx EXCEPT !.tid = tid_counter]]
  /\ Goto(t, "count")
  /\ UNCHANGED <<list, clock, tid_counter, logs, todo, node, console>>

BeginStore(t) ==
  /\ pc[t] = "count"
  /\ tid_counter' = tx[t].tid + 1
  /\ tx' = [tx EXCEPT ![t].start_time = clock]
  /\ atBegin' = IF t = Console THEN nodes ELSE atBegin
  /\ Goto(t, "call")
  /\ UNCHANGED <<list, clock, logs, todo, node, commands>>
-----------------------------------------------------------------------------
(* get_node                                                                *)

\* What cur comes to in the search for a key, NULL included: the least set
\* with store and the next of every node in it that has another key.
Passed(key) ==
  LET All     == 0 .. Len(nodes)
      Closed(S) == /\ store \in S
                   /\ \A n \in S \ {0} : nodes[n].key # key => nodes[n].next \in S
  IN  {n \in All : \A S \in SUBSET All : Closed(S) => n \in S}

\* The node the search ends at, if it does not end with NULL.
Search(key) == {n \in Passed(key) \ {0} : nodes[n].key = key}

Find(t) ==
  /\ pc[t] = "call"
  /\ todo[t] # <<>>
  /\ IF Search(Head(todo[t]).key) = {}
       THEN Goto(t, "link") /\ UNCHANGED node
       ELSE /\ \E n \in Search(Head(todo[t]).key) : node' = [node EXCEPT ![t] = n]
            /\ Goto(t, "body")
  /\ UNCHANGED <<list, clock, tid_counter, logs, tx, todo, console>>

\* Mutant: the node is on the list before its next is set.
LinkLate(t) ==
  /\ pc[t] = "link"
  /\ Len(nodes) < MaxNodes
  /\ nodes' = Append(nodes, [key |-> Head(todo[t]).key, versions |-> <<>>,
                             next |-> Len(nodes) + 1])
  /\ store' = Len(nodes')
  /\ node' = [node EXCEPT ![t] = Len(nodes')]
  /\ Goto(t, "publish")
  /\ UNCHANGED <<clock, tid_counter, logs, tx, todo, console>>

\* malloc, and node->next = store.
Link(t) ==
  /\ pc[t] = "link"
  /\ Len(nodes) < MaxNodes
  /\ nodes' = Append(nodes, [key |-> Head(todo[t]).key, versions |-> <<>>, next |-> store])
  /\ node' = [node EXCEPT ![t] = Len(nodes')]
  /\ Goto(t, "publish")
  /\ UNCHANGED <<store, clock, tid_counter, logs, tx, todo, console>>

\* store = node.
Publish(t) ==
  /\ pc[t] = "publish"
  /\ store' = node[t]
  /\ Goto(t, "body")
  /\ UNCHANGED <<nodes, clock, tid_counter, logs, tx, todo, node, console>>
-----------------------------------------------------------------------------
(* kv_set, kv_delete, kv_get, after get_node and under the node's lock.    *)

\* The entry kv_set and kv_delete add to the transaction, if there is room.
WithOp(x, c, ts) ==
  IF Len(x.ops) < MAX_OPS
    THEN [x EXCEPT !.ops = Append(@, [tid |-> x.tid, op |-> c.op, key |-> c.key, ts |-> ts])]
    ELSE x

\* Mutant: the time is read at the start of the transaction.
WriteAtStart(t) ==
  LET c == Head(todo[t])
      v == [value |-> IF c.op = "SET" THEN "text" ELSE "empty",
            timestamp |-> tx[t].start_time, tid |-> tx[t].tid]
  IN  /\ pc[t] = "body"
      /\ c.op \in {"SET", "DEL"}
      /\ nodes' = [nodes EXCEPT ![node[t]].versions = <<v>> \o @]
      /\ tx' = [tx EXCEPT ![t] = WithOp(tx[t], c, clock)]
      /\ todo' = [todo EXCEPT ![t] = Tail(@)]
      /\ Goto(t, "call")
      /\ UNCHANGED <<store, clock, tid_counter, logs, node, console>>

\* Mutant: the operation is recorded whether there is room or not.
WriteNoRoom(t) ==
  LET c == Head(todo[t])
      v == [value |-> IF c.op = "SET" THEN "text" ELSE "empty",
            timestamp |-> clock, tid |-> tx[t].tid]
      e == [tid |-> tx[t].tid, op |-> c.op, key |-> c.key, ts |-> clock]
  IN  /\ pc[t] = "body"
      /\ c.op \in {"SET", "DEL"}
      /\ nodes' = [nodes EXCEPT ![node[t]].versions = <<v>> \o @]
      /\ tx' = [tx EXCEPT ![t].ops = Append(@, e)]
      /\ todo' = [todo EXCEPT ![t] = Tail(@)]
      /\ Goto(t, "call")
      /\ UNCHANGED <<store, clock, tid_counter, logs, node, console>>

Write(t) ==
  LET c == Head(todo[t])
      v == [value |-> IF c.op = "SET" THEN "text" ELSE "empty",
            timestamp |-> clock, tid |-> tx[t].tid]
  IN  /\ pc[t] = "body"
      /\ c.op \in {"SET", "DEL"}
      /\ nodes' = [nodes EXCEPT ![node[t]].versions = <<v>> \o @]
      /\ tx' = [tx EXCEPT ![t] = WithOp(tx[t], c, clock)]
      /\ todo' = [todo EXCEPT ![t] = Tail(@)]
      /\ Goto(t, "call")
      /\ UNCHANGED <<store, clock, tid_counter, logs, node, console>>

\* kv_get only reads, once its key has a node.
Get(t) ==
  /\ pc[t] = "body"
  /\ Head(todo[t]).op = "GET"
  /\ todo' = [todo EXCEPT ![t] = Tail(@)]
  /\ Goto(t, "call")
  /\ UNCHANGED <<list, clock, tid_counter, logs, tx, node, console>>
-----------------------------------------------------------------------------
(* commit and rollback.                                                    *)

\* The user typed a command.
Typed == commands > 0 /\ commands' = commands - 1 /\ UNCHANGED atBegin

\* Mutant: commit without store_lock, so that two of them write one entry.
CommitUnlocked(t) ==
  /\ pc[t] = "call"
  /\ todo[t] = <<>>
  /\ \E n \in {0, 1} : n <= Len(logs) /\ logs' = SubSeq(logs, 1, Len(logs) - n) \o tx[t].ops
  /\ IF t = Console THEN Typed /\ Goto(t, "begin") ELSE UNCHANGED console /\ Goto(t, "exited")
  /\ UNCHANGED <<list, clock, tid_counter, tx, todo, node>>

Commit(t) ==
  /\ pc[t] = "call"
  /\ todo[t] = <<>>
  /\ Len(logs) + Len(tx[t].ops) <= MAX_LOGS
  /\ logs' = logs \o tx[t].ops
  /\ IF t = Console THEN Typed /\ Goto(t, "begin") ELSE UNCHANGED console /\ Goto(t, "exited")
  /\ UNCHANGED <<list, clock, tid_counter, tx, todo, node>>

\* How many versions rollback takes off node n: one for each operation whose
\* key get_node finds there.
Undone(n) ==
  Cardinality({k \in DOMAIN tx[Console].ops : n \in Search(tx[Console].ops[k].key)})

DropFirst(s, n) == SubSeq(s, 1 + (IF n < Len(s) THEN n ELSE Len(s)), Len(s))

\* Mutant: the loop stops before the first operation.
RollbackSkipsFirst ==
  /\ pc[Console] = "call"
  /\ todo[Console] = <<>>
  /\ nodes' = [n \in DOMAIN nodes |->
                 [nodes[n] EXCEPT !.versions =
                    DropFirst(@, IF Undone(n) > 0 THEN Undone(n) - 1 ELSE 0)]]
  /\ Typed
  /\ Goto(Console, "begin")
  /\ UNCHANGED <<store, clock, tid_counter, logs, tx, todo, node>>

Rollback ==
  /\ pc[Console] = "call"
  /\ todo[Console] = <<>>
  /\ nodes' = [n \in DOMAIN nodes |->
                 [nodes[n] EXCEPT !.versions = DropFirst(@, Undone(n))]]
  /\ Typed
  /\ Goto(Console, "begin")
  /\ UNCHANGED <<store, clock, tid_counter, logs, tx, todo, node>>
-----------------------------------------------------------------------------
(* main and console_demo.                                                  *)

Joined ==
  /\ pc[Console] = "joining"
  /\ \A t \in Threads : pc[t] = "exited"
  /\ Goto(Console, "begin")
  /\ UNCHANGED <<list, clock, tid_counter, logs, tx, todo, node, console>>

Command(c) ==
  /\ pc[Console] = "call"
  /\ todo[Console] = <<>>
  /\ Typed
  /\ todo' = [todo EXCEPT ![Console] = <<c>>]
  /\ UNCHANGED <<list, clock, tid_counter, logs, pc, tx, node>>

Exit ==
  /\ pc[Console] = "call"
  /\ todo[Console] = <<>>
  /\ Goto(Console, "exited")
  /\ UNCHANGED <<list, clock, tid_counter, logs, tx, todo, node, console>>

Tick ==
  /\ clock < MaxClock
  /\ clock' = clock + 1
  /\ UNCHANGED <<list, tid_counter, logs, pc, tx, todo, node, console>>

Step(t) ==
  \/ BeginLoad(t) \/ BeginStore(t)
  \/ Find(t) \/ Link(t) \/ Publish(t)
  \/ Write(t) \/ Get(t) \/ Commit(t)

Next ==
  \/ \E t \in Actors : Step(t)
  \/ Joined
  \/ \E c \in Ops : Command(c)
  \/ Rollback
  \/ Exit
  \/ Tick

Spec == Init /\ [][Next]_vars
-----------------------------------------------------------------------------
(* Properties.                                                             *)

\* Racing insertions may lose a node but never damage the list: no nodes lead
\* only to each other, so that from every node it comes to NULL.
ListSound ==
  \A S \in SUBSET DOMAIN nodes : S # {} => \E n \in S : nodes[n].next \notin S

\* The versions of a node are newest first, whichever threads added them, so
\* that kv_get may stop at the first that is old enough.
NewestFirst ==
  \A n \in DOMAIN nodes : \A j, k \in DOMAIN nodes[n].versions :
    j < k => nodes[n].versions[j].timestamp >= nodes[n].versions[k].timestamp

\* The operations of a thread's transaction are all in the log, one after
\* the other and in their order, once it has committed.
LoggedTogether ==
  \A t \in Threads : pc[t] = "exited" =>
    \E k \in 0 .. Len(logs) - Len(tx[t].ops) :
      \A j \in DOMAIN tx[t].ops : logs[k + j] = tx[t].ops[j]

\* The versions the console's transaction has added to node n, and all of them.
Extra(n) ==
  Len(nodes[n].versions) - (IF n \in DOMAIN atBegin THEN Len(atBegin[n].versions) ELSE 0)
Added == UNION {{<<n, k>> : k \in 1 .. Extra(n)} : n \in DOMAIN nodes}

\* "Transaction %d rolled back." (threads.c:137): each node has the versions
\* it had when the transaction began; a node it added has none.  (For as long
\* as the transaction has no more than MAX_OPS operations.)
RollbackUndoes ==
  Rollback /\ Cardinality(Added) <= MAX_OPS => \A n \in DOMAIN nodes' :
    nodes'[n].versions = IF n \in DOMAIN atBegin THEN atBegin[n].versions ELSE <<>>
=============================================================================
