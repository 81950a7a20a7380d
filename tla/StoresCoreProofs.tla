-------------------------- MODULE StoresCoreProofs --------------------------
(***************************************************************************)
(* The inductive invariants of the multi-version store, the key-value      *)
(* servers, the page replacement policies and the hash maps, for any       *)
(* numbers of threads, clients, keys, values, pages, frames and buckets,   *)
(* and the proofs that every step keeps them.                              *)
(***************************************************************************)
EXTENDS StoresCore, Integers, Sequences, FiniteSets, FiniteSetTheorems, SequenceTheorems, WellFoundedInduction, TLAPS

-----------------------------------------------------------------------------
(* The multi-version store.                                                *)

MvTx == [tid : Nat, start_time : 0 .. MaxClock, ops : Seq(Mvcc!Logged)]

MvTypes ==
  /\ store \in 0 .. Len(vnodes) /\ vnodes \in Seq(Mvcc!Node) /\ Len(vnodes) <= MaxNodes
  /\ clock \in 0 .. MaxClock /\ tid_counter \in Nat /\ logs \in Seq(Mvcc!Logged)
  /\ pc \in [Mvcc!Actors -> {"joining", "begin", "count", "call", "link", "publish", "body",
                             "exited"}]
  /\ tx \in [Mvcc!Actors -> MvTx]
  /\ todo \in [Mvcc!Actors -> Seq(Mvcc!Ops)]
  /\ vnode \in [Mvcc!Actors -> 0 .. Len(vnodes)]

\* Where get_node is at work there is an operation, and then a node.
MvPlaces ==
  \A t \in Mvcc!Actors :
    /\ pc[t] \in {"link", "publish", "body"} => todo[t] # <<>>
    /\ pc[t] \in {"publish", "body"} => vnode[t] # 0

\* The list goes down: a node was there when another was linked before it.
MvDown == \A n \in 1 .. Len(vnodes) : vnodes[n].next < n

\* No version is from the future, and each is at least as new as the next.
MvOrdered(s) ==
  /\ \A k \in 1 .. Len(s) : s[k].timestamp <= clock
  /\ \A j, k \in 1 .. Len(s) : j < k => s[j].timestamp >= s[k].timestamp
MvNewest == \A n \in 1 .. Len(vnodes) : MvOrdered(vnodes[n].versions)

\* A transaction is in the log in one piece.
MvInLog(s) == \E k \in 0 .. Len(logs) - Len(s) : \A j \in DOMAIN s : logs[k + j] = s[j]
MvLogged   == \A t \in Threads : pc[t] = "exited" => MvInLog(tx[t].ops)

MvInv == MvTypes /\ MvPlaces /\ MvDown /\ MvNewest /\ MvLogged

LEMMA MvConstants ==
  /\ MAX_OPS \in Nat /\ MaxNodes \in Nat /\ MaxClock \in Nat /\ Console \notin Threads
  /\ Mvcc!Actors = Threads \cup {Console}
  /\ \A S : Mvcc!IsFiniteSet(S) = IsFiniteSet(S)
  /\ \A S : Mvcc!Cardinality(S) = Cardinality(S)
<1>1. \A S : Mvcc!IsFiniteSet(S) = IsFiniteSet(S)
  BY DEF IsFiniteSet, Mvcc!IsFiniteSet
<1>2. \A S : Mvcc!Cardinality(S) = Cardinality(S)
  BY DEF Cardinality, Mvcc!Cardinality
<1> QED
  BY <1>1, <1>2, CoreAssumption DEF CoreAssumption, Mvcc!ConstantsOK, Mvcc!Actors

\* A step that does not touch the log, nor a thread that has returned.
LEMMA MvLoggedKept ==
  ASSUME MvInv, UNCHANGED logs,
         \A u \in Threads : pc'[u] = "exited" => pc[u] = "exited" /\ tx'[u] = tx[u]
  PROVE  MvLogged'
<1>1. ASSUME NEW u \in Threads, pc'[u] = "exited"
      PROVE  MvInLog(tx[u].ops)'
  <2>1. PICK s : s = tx[u].ops
    OBVIOUS
  <2>2. MvInLog(s) /\ tx'[u].ops = s
    BY <1>1, <2>1 DEF MvInv, MvLogged
  <2> QED
    BY <2>2 DEF MvInLog
<1> QED
  BY <1>1 DEF MvLogged

\* A step that leaves the list, the time and the log alone, and does not touch
\* a thread that has returned.
LEMMA MvQuiet ==
  ASSUME MvInv, UNCHANGED <<store, vnodes, clock, logs>>, MvTypes', MvPlaces',
         \A u \in Threads : pc'[u] = "exited" => pc[u] = "exited" /\ tx'[u] = tx[u]
  PROVE  MvInv'
<1>1. MvDown' /\ MvNewest'
  BY DEF MvInv, MvDown, MvNewest, MvOrdered
<1>2. MvLogged'
  BY MvLoggedKept
<1> QED
  BY <1>1, <1>2 DEF MvInv

\* A thread goes to another place, which is not the end.
LEMMA MvGoto ==
  ASSUME MvInv, NEW t \in Mvcc!Actors,
         NEW l \in {"joining", "begin", "count", "call", "link", "publish", "body", "exited"},
         Mvcc!Goto(t, l)
  PROVE  /\ pc' \in [Mvcc!Actors -> {"joining", "begin", "count", "call", "link", "publish", "body",
                                     "exited"}]
         /\ pc'[t] = l /\ \A u \in Mvcc!Actors \ {t} : pc'[u] = pc[u]
BY DEF MvInv, MvTypes, Mvcc!Goto

LEMMA MvStarts == Mvcc!Init => MvInv
<1> SUFFICES ASSUME Mvcc!Init
             PROVE  MvInv
  OBVIOUS
<1>1. PICK d \in Demos :
        /\ pc = [t \in Mvcc!Actors |-> IF t = Console THEN "joining"
                                       ELSE IF t \in DOMAIN d.calls THEN "begin" ELSE "exited"]
        /\ todo = [t \in Mvcc!Actors |-> IF t \in DOMAIN d.calls THEN d.calls[t] ELSE <<>>]
  BY DEF Mvcc!Init
<1>2. /\ store = 0 /\ vnodes = <<>> /\ clock = 0 /\ tid_counter = 1 /\ logs = <<>>
      /\ tx = [t \in Mvcc!Actors |-> Mvcc!NoTx] /\ vnode = [t \in Mvcc!Actors |-> 0]
  BY DEF Mvcc!Init
<1>3. Mvcc!NoTx \in MvTx /\ Mvcc!NoTx.ops = <<>>
  BY MvConstants DEF Mvcc!NoTx, MvTx
<1>4. MvTypes
  <2>1. \A t \in DOMAIN d.calls : d.calls[t] \in Seq(Mvcc!Ops)
    BY CoreAssumption DEF CoreAssumption, Mvcc!ConstantsOK
  <2>2. todo \in [Mvcc!Actors -> Seq(Mvcc!Ops)]
    BY <1>1, <2>1
  <2>3. vnodes \in Seq(Mvcc!Node) /\ Len(vnodes) = 0 /\ logs \in Seq(Mvcc!Logged)
    BY <1>2
  <2>4. pc \in [Mvcc!Actors -> {"joining", "begin", "count", "call", "link", "publish", "body",
                                "exited"}]
    BY <1>1
  <2> QED
    BY <1>2, <1>3, <2>2, <2>3, <2>4, MvConstants DEF MvTypes
<1>5. MvPlaces
  BY <1>1 DEF MvPlaces
<1>6. MvDown /\ MvNewest
  BY <1>2 DEF MvDown, MvNewest
<1>7. MvLogged
  <2>1. ASSUME NEW t \in Threads
        PROVE  \E k \in 0 .. Len(logs) - Len(tx[t].ops) :
                 \A j \in DOMAIN tx[t].ops : logs[k + j] = tx[t].ops[j]
    <3>1. tx[t].ops = <<>> /\ Len(logs) = 0
      BY <1>2, <1>3, MvConstants
    <3> QED
      BY <3>1
  <2> QED
    BY <2>1 DEF MvLogged, MvInLog
<1> QED
  BY <1>4, <1>5, <1>6, <1>7 DEF MvInv

LEMMA MvBegin ==
  ASSUME MvInv, NEW t \in Mvcc!Actors, Mvcc!BeginLoad(t) \/ Mvcc!BeginStore(t)
  PROVE  MvInv'
<1>1. PICK l \in {"count", "call"} : Mvcc!Goto(t, l)
  BY DEF Mvcc!BeginLoad, Mvcc!BeginStore
<1>2. /\ pc' \in [Mvcc!Actors -> {"joining", "begin", "count", "call", "link", "publish", "body",
                                  "exited"}]
      /\ pc'[t] = l /\ \A u \in Mvcc!Actors \ {t} : pc'[u] = pc[u]
  BY <1>1, MvGoto
<1>3. UNCHANGED <<store, vnodes, clock, logs, todo, vnode>>
  BY DEF Mvcc!BeginLoad, Mvcc!BeginStore, Mvcc!list
<1>4. PICK x \in MvTx : tx' = [tx EXCEPT ![t] = x]
  <2>1. CASE Mvcc!BeginLoad(t)
    <3>1. [Mvcc!NoTx EXCEPT !.tid = tid_counter] \in MvTx
      <4>1. tid_counter \in Nat /\ MaxClock \in Nat
        BY MvConstants DEF MvInv, MvTypes
      <4>2. [Mvcc!NoTx EXCEPT !.tid = tid_counter]
              = [tid |-> tid_counter, start_time |-> 0, ops |-> <<>>]
        BY ONLY <4>1 DEF Mvcc!NoTx
      <4>3. 0 \in 0 .. MaxClock /\ <<>> \in Seq(Mvcc!Logged)
        BY <4>1
      <4> QED
        BY ONLY <4>1, <4>2, <4>3 DEF MvTx
    <3> QED
      BY <2>1, <3>1 DEF Mvcc!BeginLoad
  <2>2. CASE Mvcc!BeginStore(t)
    <3>1. [tx[t] EXCEPT !.start_time = clock] \in MvTx
      BY DEF MvInv, MvTypes, MvTx
    <3> QED
      BY <2>2, <3>1 DEF Mvcc!BeginStore
  <2> QED
    BY <2>1, <2>2
<1>5. tid_counter' \in Nat
  BY DEF MvInv, MvTypes, MvTx, Mvcc!BeginLoad, Mvcc!BeginStore
<1>6. tx' \in [Mvcc!Actors -> MvTx] /\ \A u \in Mvcc!Actors \ {t} : tx'[u] = tx[u]
  BY <1>4 DEF MvInv, MvTypes
<1>7. MvTypes'
  BY <1>2, <1>3, <1>5, <1>6 DEF MvInv, MvTypes
<1>8. MvPlaces'
  BY <1>2, <1>3 DEF MvInv, MvPlaces
<1>9. \A u \in Threads : pc'[u] = "exited" => pc[u] = "exited" /\ tx'[u] = tx[u]
  BY <1>2, <1>6, MvConstants
<1> QED
  BY <1>3, <1>7, <1>8, <1>9, MvQuiet

LEMMA MvFind ==
  ASSUME MvInv, NEW t \in Mvcc!Actors, Mvcc!Find(t)
  PROVE  MvInv'
<1>1. /\ todo[t] # <<>> /\ pc[t] = "call"
      /\ UNCHANGED <<store, vnodes, clock, logs, tid_counter, tx, todo>>
  BY DEF Mvcc!Find, Mvcc!list
<1>2. PICK l \in {"link", "body"} : Mvcc!Goto(t, l)
  BY DEF Mvcc!Find
<1>3. /\ pc' \in [Mvcc!Actors -> {"joining", "begin", "count", "call", "link", "publish", "body",
                                  "exited"}]
      /\ pc'[t] = l /\ \A u \in Mvcc!Actors \ {t} : pc'[u] = pc[u]
  BY <1>2, MvGoto
<1>4. /\ vnode' \in [Mvcc!Actors -> 0 .. Len(vnodes)]
      /\ \A u \in Mvcc!Actors \ {t} : vnode'[u] = vnode[u]
      /\ pc'[t] = "body" => vnode'[t] # 0
  <2>1. CASE UNCHANGED vnode /\ Mvcc!Goto(t, "link")
    BY <2>1, MvGoto DEF MvInv, MvTypes
  <2>2. CASE \E n \in Mvcc!Search(Head(todo[t]).key) : vnode' = [vnode EXCEPT ![t] = n]
    <3>1. PICK n \in 0 .. Len(vnodes) : n # 0 /\ vnode' = [vnode EXCEPT ![t] = n]
      BY <2>2 DEF Mvcc!Search, Mvcc!Passed
    <3> QED
      BY <3>1 DEF MvInv, MvTypes
  <2> QED
    BY <2>1, <2>2 DEF Mvcc!Find
<1>5. MvTypes'
  BY <1>1, <1>3, <1>4 DEF MvInv, MvTypes
<1>6. MvPlaces'
  BY <1>1, <1>3, <1>4 DEF MvInv, MvPlaces
<1>7. \A u \in Threads : pc'[u] = "exited" => pc[u] = "exited" /\ tx'[u] = tx[u]
  BY <1>1, <1>3, MvConstants
<1> QED
  BY <1>1, <1>5, <1>6, <1>7, MvQuiet

\* The new node is the last allocated, its next the one that was first.
LEMMA MvLink ==
  ASSUME MvInv, NEW t \in Mvcc!Actors, Mvcc!Link(t)
  PROVE  MvInv'
<1>1. /\ pc[t] = "link" /\ Len(vnodes) < MaxNodes
      /\ UNCHANGED <<store, clock, logs, tid_counter, tx, todo>>
  BY DEF Mvcc!Link
<1>2. /\ pc' \in [Mvcc!Actors -> {"joining", "begin", "count", "call", "link", "publish", "body",
                                  "exited"}]
      /\ pc'[t] = "publish" /\ \A u \in Mvcc!Actors \ {t} : pc'[u] = pc[u]
  BY MvGoto DEF Mvcc!Link
<1>3. todo[t] \in Seq(Mvcc!Ops) /\ todo[t] # <<>>
  BY <1>1 DEF MvInv, MvTypes, MvPlaces
<1>4. Head(todo[t]) \in Mvcc!Ops
  BY <1>3
<1>5. PICK n \in Mvcc!Node : /\ n.next = store /\ n.versions = <<>>
                             /\ vnodes' = Append(vnodes, n)
  <2>1. Head(todo[t]).key \in MvKeys
    BY <1>4 DEF Mvcc!Ops
  <2>2. store \in 0 .. MaxNodes
    BY <1>1, MvConstants DEF MvInv, MvTypes
  <2>3. [key |-> Head(todo[t]).key, versions |-> <<>>, next |-> store] \in Mvcc!Node
    BY <2>1, <2>2 DEF Mvcc!Node
  <2> QED
    BY <2>3 DEF Mvcc!Link
<1>6. /\ vnodes' \in Seq(Mvcc!Node) /\ Len(vnodes') = Len(vnodes) + 1 /\ Len(vnodes) \in Nat
      /\ vnodes'[Len(vnodes) + 1] = n
      /\ \A i \in 1 .. Len(vnodes) : vnodes'[i] = vnodes[i]
  BY <1>5 DEF MvInv, MvTypes
<1>7. vnode' = [vnode EXCEPT ![t] = Len(vnodes) + 1]
  BY <1>6 DEF Mvcc!Link
<1>8. MvTypes'
  <2>1. vnode' \in [Mvcc!Actors -> 0 .. Len(vnodes')]
    BY <1>6, <1>7 DEF MvInv, MvTypes
  <2>2. store' \in 0 .. Len(vnodes') /\ Len(vnodes') <= MaxNodes
    BY <1>1, <1>6, MvConstants DEF MvInv, MvTypes
  <2> QED
    BY <1>1, <1>2, <1>6, <2>1, <2>2 DEF MvInv, MvTypes
<1>9. MvPlaces'
  BY <1>1, <1>2, <1>3, <1>6, <1>7 DEF MvInv, MvTypes, MvPlaces
<1>10. MvDown'
  <2>1. ASSUME NEW i \in 1 .. Len(vnodes')
        PROVE  vnodes'[i].next < i
    <3>1. CASE i = Len(vnodes) + 1
      BY <1>5, <1>6, <3>1 DEF MvInv, MvTypes
    <3>2. CASE i # Len(vnodes) + 1
      <4>1. i \in 1 .. Len(vnodes)
        BY <1>6, <3>2
      <4> QED
        BY <1>6, <4>1 DEF MvInv, MvDown
    <3> QED
      BY <3>1, <3>2
  <2> QED
    BY <2>1 DEF MvDown
<1>11. MvNewest'
  <2>1. ASSUME NEW i \in 1 .. Len(vnodes')
        PROVE  MvOrdered(vnodes[i].versions)'
    <3>1. CASE i = Len(vnodes) + 1
      <4>1. vnodes'[i].versions = <<>>
        BY <1>5, <1>6, <3>1
      <4> QED
        BY <4>1 DEF MvOrdered
    <3>2. CASE i # Len(vnodes) + 1
      <4>1. i \in 1 .. Len(vnodes)
        BY <1>6, <3>2
      <4>2. PICK s : s = vnodes[i].versions
        OBVIOUS
      <4>3. MvOrdered(s) /\ vnodes'[i].versions = s
        BY <1>6, <4>1, <4>2 DEF MvInv, MvNewest
      <4> QED
        BY <1>1, <4>3 DEF MvOrdered
    <3> QED
      BY <3>1, <3>2
  <2> QED
    BY <2>1 DEF MvNewest
<1>12. MvLogged'
  <2>1. \A u \in Threads : pc'[u] = "exited" => pc[u] = "exited" /\ tx'[u] = tx[u]
    BY <1>1, <1>2, MvConstants
  <2> QED
    BY <1>1, <2>1, MvLoggedKept
<1> QED
  BY <1>8, <1>9, <1>10, <1>11, <1>12 DEF MvInv

LEMMA MvPublish ==
  ASSUME MvInv, NEW t \in Mvcc!Actors, Mvcc!Publish(t)
  PROVE  MvInv'
<1>1. /\ pc[t] = "publish" /\ store' = vnode[t]
      /\ UNCHANGED <<vnodes, clock, logs, tid_counter, tx, todo, vnode>>
  BY DEF Mvcc!Publish
<1>2. /\ pc' \in [Mvcc!Actors -> {"joining", "begin", "count", "call", "link", "publish", "body",
                                  "exited"}]
      /\ pc'[t] = "body" /\ \A u \in Mvcc!Actors \ {t} : pc'[u] = pc[u]
  BY MvGoto DEF Mvcc!Publish
<1>3. MvTypes'
  BY <1>1, <1>2 DEF MvInv, MvTypes
<1>4. MvPlaces'
  BY <1>1, <1>2 DEF MvInv, MvPlaces
<1>5. MvDown' /\ MvNewest'
  BY <1>1 DEF MvInv, MvDown, MvNewest, MvOrdered
<1>6. MvLogged'
  <2>1. \A u \in Threads : pc'[u] = "exited" => pc[u] = "exited" /\ tx'[u] = tx[u]
    BY <1>1, <1>2, MvConstants
  <2> QED
    BY <1>1, <2>1, MvLoggedKept
<1> QED
  BY <1>3, <1>4, <1>5, <1>6 DEF MvInv

\* A version with the time that it is goes before the others.
LEMMA MvNewFirst ==
  ASSUME clock \in Nat, NEW s \in Seq(Mvcc!Version), MvOrdered(s), NEW v \in Mvcc!Version,
         v.timestamp = clock
  PROVE  MvOrdered(<<v>> \o s) /\ <<v>> \o s \in Seq(Mvcc!Version)
<1>1. PICK r : r = <<v>> \o s
  OBVIOUS
<1>2. /\ r \in Seq(Mvcc!Version) /\ Len(r) = Len(s) + 1 /\ Len(s) \in Nat
      /\ r[1] = v /\ \A k \in 2 .. Len(r) : k - 1 \in 1 .. Len(s) /\ r[k] = s[k - 1]
  BY <1>1
<1>3. \A k \in 1 .. Len(s) : s[k].timestamp \in Nat
  <2>1. MaxClock \in Nat
    BY MvConstants
  <2>2. \A k \in 1 .. Len(s) : s[k] \in Mvcc!Version
    OBVIOUS
  <2> QED
    BY <2>1, <2>2 DEF Mvcc!Version
<1>4. ASSUME NEW k \in 1 .. Len(r)
      PROVE  r[k].timestamp <= clock
  <2>1. CASE k = 1
    BY <1>2, <2>1
  <2>2. CASE k \in 2 .. Len(r)
    BY <1>2, <2>2 DEF MvOrdered
  <2> QED
    BY <1>2, <2>1, <2>2
<1>5. ASSUME NEW j \in 1 .. Len(r), NEW k \in 1 .. Len(r), j < k
      PROVE  r[j].timestamp >= r[k].timestamp
  <2>1. k \in 2 .. Len(r)
    BY <1>2, <1>5
  <2>2. CASE j = 1
    BY <1>2, <1>3, <2>1, <2>2 DEF MvOrdered
  <2>3. CASE j \in 2 .. Len(r)
    <3>1. j - 1 < k - 1
      BY <1>2, <1>5
    <3> QED
      BY <1>2, <2>1, <2>3, <3>1 DEF MvOrdered
  <2> QED
    BY <1>2, <2>2, <2>3
<1> QED
  BY <1>1, <1>2, <1>4, <1>5 DEF MvOrdered

\* The transaction records the operation, if there is room.
LEMMA MvWithOp ==
  ASSUME MvInv, NEW x \in MvTx, NEW c \in Mvcc!Ops, c.op \in {"SET", "DEL"}
  PROVE  Mvcc!WithOp(x, c, clock) \in MvTx
<1>1. x.tid \in Nat /\ x.ops \in Seq(Mvcc!Logged) /\ c.key \in MvKeys /\ clock \in 0 .. MaxClock
  BY DEF MvTx, Mvcc!Ops, MvInv, MvTypes
<1>2. [tid |-> x.tid, op |-> c.op, key |-> c.key, ts |-> clock] \in Mvcc!Logged
  BY <1>1 DEF Mvcc!Logged
<1>3. PICK e \in Mvcc!Logged : e = [tid |-> x.tid, op |-> c.op, key |-> c.key, ts |-> clock]
  BY <1>2
<1>4. Append(x.ops, e) \in Seq(Mvcc!Logged)
  BY <1>1, <1>3
<1>5. PICK q \in Seq(Mvcc!Logged) : q = Append(x.ops, e)
  BY <1>4
<1>6. [x EXCEPT !.ops = q] \in MvTx
  BY <1>5 DEF MvTx
<1> QED
  BY <1>3, <1>5, <1>6 DEF Mvcc!WithOp

\* Nodes keep their places and links, and their versions are in order.
LEMMA MvRewritten ==
  ASSUME MvInv, UNCHANGED clock, Len(vnodes') = Len(vnodes),
         \A i \in 1 .. Len(vnodes) : /\ vnodes'[i].next = vnodes[i].next
                                     /\ MvOrdered(vnodes'[i].versions)
  PROVE  MvDown' /\ MvNewest'
<1>1. MvDown'
  BY DEF MvInv, MvDown
<1>2. MvNewest'
  <2>1. ASSUME NEW i \in 1 .. Len(vnodes')
        PROVE  MvOrdered(vnodes[i].versions)'
    <3>1. PICK s : s = vnodes'[i].versions
      OBVIOUS
    <3>2. MvOrdered(s)
      BY <2>1, <3>1
    <3> QED
      BY <3>1, <3>2 DEF MvOrdered
  <2> QED
    BY <2>1 DEF MvNewest
<1> QED
  BY <1>1, <1>2

LEMMA MvWrite ==
  ASSUME MvInv, NEW t \in Mvcc!Actors, Mvcc!Write(t)
  PROVE  MvInv'
<1>1. PICK c : c = Head(todo[t])
  OBVIOUS
<1>2. PICK v : v = [value |-> IF c.op = "SET" THEN "text" ELSE "empty",
                    timestamp |-> clock, tid |-> tx[t].tid]
  OBVIOUS
<1>3. /\ pc[t] = "body" /\ c.op \in {"SET", "DEL"}
      /\ vnodes' = [vnodes EXCEPT ![vnode[t]].versions = <<v>> \o @]
      /\ tx' = [tx EXCEPT ![t] = Mvcc!WithOp(tx[t], c, clock)]
      /\ todo' = [todo EXCEPT ![t] = Tail(@)]
      /\ UNCHANGED <<store, clock, logs, tid_counter, vnode>>
  BY <1>1, <1>2 DEF Mvcc!Write
<1>4. /\ pc' \in [Mvcc!Actors -> {"joining", "begin", "count", "call", "link", "publish", "body",
                                  "exited"}]
      /\ pc'[t] = "call" /\ \A u \in Mvcc!Actors \ {t} : pc'[u] = pc[u]
  BY MvGoto DEF Mvcc!Write
<1>5. todo[t] \in Seq(Mvcc!Ops) /\ todo[t] # <<>>
  BY <1>3 DEF MvInv, MvTypes, MvPlaces
<1>6. c \in Mvcc!Ops /\ Tail(todo[t]) \in Seq(Mvcc!Ops)
  BY <1>1, <1>5
<1>7. tx[t] \in MvTx /\ clock \in 0 .. MaxClock /\ MaxClock \in Nat
  BY MvConstants DEF MvInv, MvTypes
<1>8. v \in Mvcc!Version /\ v.timestamp = clock
  <2>1. tx[t].tid \in Nat
    BY <1>7 DEF MvTx
  <2> QED
    BY <1>2, <1>7, <2>1 DEF Mvcc!Version
<1>9. /\ todo' \in [Mvcc!Actors -> Seq(Mvcc!Ops)]
      /\ \A u \in Mvcc!Actors \ {t} : todo'[u] = todo[u]
  BY <1>3, <1>6 DEF MvInv, MvTypes
<1>10. /\ tx' \in [Mvcc!Actors -> MvTx]
       /\ \A u \in Mvcc!Actors \ {t} : tx'[u] = tx[u]
  <2>1. Mvcc!WithOp(tx[t], c, clock) \in MvTx
    BY <1>3, <1>6, <1>7, MvWithOp
  <2> QED
    BY <1>3, <2>1 DEF MvInv, MvTypes
<1>11. PICK m \in 1 .. Len(vnodes) : m = vnode[t]
  BY <1>3 DEF MvInv, MvTypes, MvPlaces
<1>12. PICK s \in Seq(Mvcc!Version) : s = vnodes[m].versions /\ MvOrdered(s)
  <2>1. vnodes[m] \in Mvcc!Node /\ MvOrdered(vnodes[m].versions)
    BY <1>11 DEF MvInv, MvTypes, MvNewest
  <2> QED
    BY <2>1 DEF Mvcc!Node
<1>13. PICK r \in Seq(Mvcc!Version) : r = <<v>> \o s /\ MvOrdered(r)
  <2>1. clock \in Nat
    BY <1>7
  <2> QED
    BY <2>1, <1>8, <1>12, MvNewFirst
<1>14. vnodes' = [vnodes EXCEPT ![m] = [vnodes[m] EXCEPT !.versions = r]]
  BY <1>3, <1>11, <1>12, <1>13
<1>15. [vnodes[m] EXCEPT !.versions = r] \in Mvcc!Node
  <2>1. vnodes[m] \in Mvcc!Node
    BY <1>11 DEF MvInv, MvTypes
  <2> QED
    BY <2>1, <1>13 DEF Mvcc!Node
<1>16. PICK n \in Mvcc!Node : /\ n.next = vnodes[m].next /\ n.versions = r
                              /\ vnodes' = [vnodes EXCEPT ![m] = n]
  <2>1. vnodes[m] \in Mvcc!Node
    BY <1>11 DEF MvInv, MvTypes
  <2> QED
    BY <1>14, <1>15, <2>1 DEF Mvcc!Node
<1>17. /\ vnodes' \in Seq(Mvcc!Node) /\ Len(vnodes') = Len(vnodes)
       /\ \A i \in 1 .. Len(vnodes) : vnodes'[i] = IF i = m THEN n ELSE vnodes[i]
  BY <1>11, <1>16 DEF MvInv, MvTypes
<1>18. MvTypes'
  BY <1>3, <1>4, <1>9, <1>10, <1>17 DEF MvInv, MvTypes
<1>19. MvPlaces'
  BY <1>3, <1>4, <1>9 DEF MvInv, MvPlaces
<1>20. MvDown' /\ MvNewest'
  <2>1. ASSUME NEW i \in 1 .. Len(vnodes)
        PROVE  vnodes'[i].next = vnodes[i].next /\ MvOrdered(vnodes'[i].versions)
    BY <1>11, <1>13, <1>16, <1>17 DEF MvInv, MvNewest
  <2> QED
    BY <1>3, <1>17, <2>1, MvRewritten
<1>21. MvLogged'
  <2>1. \A u \in Threads : pc'[u] = "exited" => pc[u] = "exited" /\ tx'[u] = tx[u]
    BY <1>4, <1>10, MvConstants
  <2> QED
    BY <1>3, <2>1, MvLoggedKept
<1> QED
  BY <1>18, <1>19, <1>20, <1>21 DEF MvInv

LEMMA MvGet ==
  ASSUME MvInv, NEW t \in Mvcc!Actors, Mvcc!Get(t)
  PROVE  MvInv'
<1>1. /\ pc[t] = "body" /\ todo' = [todo EXCEPT ![t] = Tail(@)]
      /\ UNCHANGED <<store, vnodes, clock, logs, tid_counter, tx, vnode>>
  BY DEF Mvcc!Get, Mvcc!list
<1>2. /\ pc' \in [Mvcc!Actors -> {"joining", "begin", "count", "call", "link", "publish", "body",
                                  "exited"}]
      /\ pc'[t] = "call" /\ \A u \in Mvcc!Actors \ {t} : pc'[u] = pc[u]
  BY MvGoto DEF Mvcc!Get
<1>3. todo[t] \in Seq(Mvcc!Ops) /\ todo[t] # <<>>
  BY <1>1 DEF MvInv, MvTypes, MvPlaces
<1>4. Tail(todo[t]) \in Seq(Mvcc!Ops)
  BY <1>3
<1>5. /\ todo' \in [Mvcc!Actors -> Seq(Mvcc!Ops)]
      /\ \A u \in Mvcc!Actors \ {t} : todo'[u] = todo[u]
  BY <1>1, <1>4 DEF MvInv, MvTypes
<1>6. MvTypes'
  BY <1>1, <1>2, <1>5 DEF MvInv, MvTypes
<1>7. MvPlaces'
  BY <1>1, <1>2, <1>5 DEF MvInv, MvPlaces
<1>8. \A u \in Threads : pc'[u] = "exited" => pc[u] = "exited" /\ tx'[u] = tx[u]
  BY <1>1, <1>2, MvConstants
<1> QED
  BY <1>1, <1>6, <1>7, <1>8, MvQuiet

\* The log grows by a whole transaction; what was in one piece stays so.
LEMMA MvCommit ==
  ASSUME MvInv, NEW t \in Mvcc!Actors, Mvcc!Commit(t)
  PROVE  MvInv'
<1>1. /\ logs' = logs \o tx[t].ops
      /\ UNCHANGED <<store, vnodes, clock, tid_counter, tx, todo, vnode>>
  BY DEF Mvcc!Commit, Mvcc!list
<1>2. PICK l \in {"begin", "exited"} : Mvcc!Goto(t, l)
  BY DEF Mvcc!Commit
<1>3. /\ pc' \in [Mvcc!Actors -> {"joining", "begin", "count", "call", "link", "publish", "body",
                                  "exited"}]
      /\ pc'[t] = l /\ \A u \in Mvcc!Actors \ {t} : pc'[u] = pc[u]
  BY <1>2, MvGoto
<1>4. \A u \in Mvcc!Actors : tx[u].ops \in Seq(Mvcc!Logged)
  BY DEF MvInv, MvTypes, MvTx
<1>5. PICK e \in Seq(Mvcc!Logged) : e = tx[t].ops
  BY <1>4
<1>6. logs \in Seq(Mvcc!Logged) /\ logs' = logs \o e
  BY <1>1, <1>5 DEF MvInv, MvTypes
<1>7. /\ logs' \in Seq(Mvcc!Logged) /\ Len(logs') = Len(logs) + Len(e)
      /\ Len(logs) \in Nat /\ Len(e) \in Nat
      /\ \A i \in 1 .. Len(logs) : logs'[i] = logs[i]
      /\ \A i \in 1 .. Len(e) : logs'[Len(logs) + i] = e[i]
  BY <1>6
<1>8. MvTypes'
  BY <1>1, <1>3, <1>7 DEF MvInv, MvTypes
<1>9. MvPlaces'
  BY <1>1, <1>3 DEF MvInv, MvPlaces
<1>10. MvDown' /\ MvNewest'
  BY <1>1 DEF MvInv, MvDown, MvNewest, MvOrdered
<1>11. ASSUME NEW s \in Seq(Mvcc!Logged), MvInLog(s)
       PROVE  MvInLog(s)'
  <2>1. PICK k \in 0 .. Len(logs) - Len(s) : \A j \in DOMAIN s : logs[k + j] = s[j]
    BY <1>11 DEF MvInLog
  <2>2. Len(s) \in Nat /\ DOMAIN s = 1 .. Len(s)
    OBVIOUS
  <2>3. k \in 0 .. Len(logs') - Len(s)
    BY <1>7, <2>1, <2>2
  <2>4. ASSUME NEW j \in DOMAIN s
        PROVE  logs'[k + j] = s[j]
    <3>1. k + j \in 1 .. Len(logs)
      BY <1>7, <2>1, <2>2, <2>4
    <3> QED
      BY <1>7, <2>1, <3>1
  <2> QED
    BY <2>3, <2>4 DEF MvInLog
<1>12. MvInLog(e)'
  <2>1. Len(logs) \in 0 .. Len(logs') - Len(e)
    BY <1>7
  <2>2. \A j \in DOMAIN e : logs'[Len(logs) + j] = e[j]
    <3>1. DOMAIN e = 1 .. Len(e)
      OBVIOUS
    <3> QED
      BY <1>7, <3>1
  <2>3. PICK k : k = Len(logs)
    OBVIOUS
  <2> QED
    BY <2>1, <2>2, <2>3 DEF MvInLog
<1>13. MvLogged'
  <2>1. ASSUME NEW u \in Threads, pc'[u] = "exited"
        PROVE  MvInLog(tx[u].ops)'
    <3>1. u \in Mvcc!Actors
      BY MvConstants
    <3>2. PICK s \in Seq(Mvcc!Logged) : s = tx[u].ops
      BY <1>4, <3>1
    <3>3. tx'[u].ops = s
      BY <1>1, <3>2
    <3>4. MvInLog(s)'
      <4>1. CASE u = t
        BY <1>5, <1>12, <3>2, <4>1
      <4>2. CASE u # t
        BY <1>3, <1>11, <2>1, <3>1, <3>2, <4>2 DEF MvInv, MvLogged
      <4> QED
        BY <4>1, <4>2
    <3> QED
      BY <3>3, <3>4 DEF MvInLog
  <2> QED
    BY <2>1 DEF MvLogged
<1> QED
  BY <1>8, <1>9, <1>10, <1>13 DEF MvInv

\* What is left when the newest versions go is in order.
LEMMA MvDrop ==
  ASSUME NEW s \in Seq(Mvcc!Version), MvOrdered(s), NEW d \in Nat
  PROVE  Mvcc!DropFirst(s, d) \in Seq(Mvcc!Version) /\ MvOrdered(Mvcc!DropFirst(s, d))
<1>1. PICK m \in 0 .. Len(s) : m = IF d < Len(s) THEN d ELSE Len(s)
  OBVIOUS
<1>2. Len(s) \in Nat
  OBVIOUS
<1>3. PICK r : r = SubSeq(s, 1 + m, Len(s))
  OBVIOUS
<1>4. /\ r \in Seq(Mvcc!Version) /\ Len(r) = Len(s) - m
      /\ \A i \in 1 .. Len(r) : m + i \in 1 .. Len(s) /\ r[i] = s[m + i]
  <2>1. PICK a \in Int : a = 1 + m
    BY <1>1, <1>2
  <2>2. PICK b \in Int : b = Len(s)
    BY <1>2
  <2>3. r = SubSeq(s, a, b)
    BY <1>3, <2>1, <2>2
  <2>4. \A i \in a .. b : s[i] \in Mvcc!Version
    BY <1>1, <1>2, <2>1, <2>2
  <2>5. /\ r \in Seq(Mvcc!Version)
        /\ Len(r) = IF a <= b THEN b - a + 1 ELSE 0
        /\ \A i \in 1 .. b - a + 1 : r[i] = s[a + i - 1]
    <3>1. /\ SubSeq(s, a, b) \in Seq(Mvcc!Version)
          /\ Len(SubSeq(s, a, b)) = IF a <= b THEN b - a + 1 ELSE 0
          /\ \A i \in 1 .. b - a + 1 : SubSeq(s, a, b)[i] = s[a + i - 1]
      BY <2>4, SubSeqProperties
    <3> QED
      BY ONLY <2>3, <3>1
  <2>6. Len(r) = Len(s) - m
    <3>1. m \in Nat /\ m <= Len(s)
      BY <1>2
    <3>2. Len(r) = IF a <= b THEN b - a + 1 ELSE 0
      BY <2>5
    <3> QED
      BY ONLY <1>2, <2>1, <2>2, <3>1, <3>2
  <2>7. ASSUME NEW i \in 1 .. Len(r)
        PROVE  m + i \in 1 .. Len(s) /\ r[i] = s[m + i]
    <3>1. a + i - 1 = m + i
      BY <1>1, <1>2, <2>1, <2>6
    <3>2. i \in 1 .. b - a + 1 /\ m + i \in 1 .. Len(s)
      BY <1>1, <1>2, <2>1, <2>2, <2>6
    <3> QED
      BY <2>5, <3>1, <3>2
  <2> QED
    BY <2>5, <2>6, <2>7
<1>5. MvOrdered(r)
  <2>1. \A i \in 1 .. Len(r) : r[i].timestamp <= clock
    BY <1>4 DEF MvOrdered
  <2>2. ASSUME NEW j \in 1 .. Len(r), NEW k \in 1 .. Len(r), j < k
        PROVE  r[j].timestamp >= r[k].timestamp
    <3>1. m + j < m + k
      BY <1>1, <1>2, <2>2, <1>4
    <3> QED
      BY <1>4, <3>1 DEF MvOrdered
  <2> QED
    BY <2>1, <2>2 DEF MvOrdered
<1> QED
  BY <1>1, <1>3, <1>4, <1>5 DEF Mvcc!DropFirst

LEMMA MvRollback ==
  ASSUME MvInv, Mvcc!Rollback
  PROVE  MvInv'
<1>1. /\ vnodes' = [n \in DOMAIN vnodes |->
                      [vnodes[n] EXCEPT !.versions = Mvcc!DropFirst(@, Mvcc!Undone(n))]]
      /\ UNCHANGED <<store, clock, tid_counter, logs, tx, todo, vnode>>
  BY DEF Mvcc!Rollback
<1>2. Console \in Mvcc!Actors
  BY MvConstants
<1>3. /\ pc' \in [Mvcc!Actors -> {"joining", "begin", "count", "call", "link", "publish", "body",
                                  "exited"}]
      /\ pc'[Console] = "begin" /\ \A u \in Mvcc!Actors \ {Console} : pc'[u] = pc[u]
  BY <1>2, MvGoto DEF Mvcc!Rollback
<1>4. \A n : Mvcc!Undone(n) \in Nat
  <2>1. tx[Console].ops \in Seq(Mvcc!Logged)
    BY <1>2 DEF MvInv, MvTypes, MvTx
  <2>2. IsFiniteSet(1 .. Len(tx[Console].ops))
    BY <2>1, FS_Interval
  <2>3. ASSUME NEW n
        PROVE  Mvcc!Undone(n) \in Nat
    <3>1. PICK S : S = {k \in DOMAIN tx[Console].ops : n \in Mvcc!Search(tx[Console].ops[k].key)}
      OBVIOUS
    <3>2. S \subseteq 1 .. Len(tx[Console].ops)
      BY <2>1, <3>1
    <3>3. IsFiniteSet(S)
      BY <2>2, <3>2, FS_Subset
    <3>4. Cardinality(S) \in Nat
      BY <3>3, FS_CardinalityType
    <3> QED
      BY <3>1, <3>4, MvConstants DEF Mvcc!Undone
  <2> QED
    BY <2>3
<1>5. vnodes \in Seq(Mvcc!Node) /\ DOMAIN vnodes = 1 .. Len(vnodes) /\ Len(vnodes) \in Nat
  BY DEF MvInv, MvTypes
<1>6. ASSUME NEW i \in 1 .. Len(vnodes)
      PROVE  /\ vnodes'[i] \in Mvcc!Node /\ vnodes'[i].next = vnodes[i].next
             /\ MvOrdered(vnodes'[i].versions)
  <2>1. vnodes[i] \in Mvcc!Node /\ MvOrdered(vnodes[i].versions)
    BY <1>5 DEF MvInv, MvNewest
  <2>2. PICK s \in Seq(Mvcc!Version) : s = vnodes[i].versions
    BY <2>1 DEF Mvcc!Node
  <2>3. PICK d \in Nat : d = Mvcc!Undone(i)
    BY <1>4
  <2>4. PICK r \in Seq(Mvcc!Version) : r = Mvcc!DropFirst(s, d) /\ MvOrdered(r)
    BY <2>1, <2>2, MvDrop
  <2>5. vnodes'[i] = [vnodes[i] EXCEPT !.versions = r]
    BY <1>1, <1>5, <2>2, <2>3, <2>4
  <2> QED
    BY <2>1, <2>4, <2>5 DEF Mvcc!Node
<1>7. vnodes' \in Seq(Mvcc!Node) /\ Len(vnodes') = Len(vnodes)
  <2>1. PICK f : f = vnodes'
    OBVIOUS
  <2>2. PICK n \in Nat : n = Len(vnodes)
    BY <1>5
  <2>3. f \in [1 .. n -> Mvcc!Node]
    BY <1>1, <1>5, <1>6, <2>1, <2>2
  <2>4. f \in Seq(Mvcc!Node) /\ Len(f) = n
    BY <2>3
  <2> QED
    BY <2>1, <2>2, <2>4
<1>8. MvTypes'
  BY <1>1, <1>3, <1>7 DEF MvInv, MvTypes
<1>9. MvPlaces'
  BY <1>1, <1>2, <1>3 DEF MvInv, MvPlaces
<1>10. MvDown' /\ MvNewest'
  BY <1>1, <1>6, <1>7, MvRewritten
<1>11. MvLogged'
  <2>1. \A u \in Threads : pc'[u] = "exited" => pc[u] = "exited" /\ tx'[u] = tx[u]
    BY <1>1, <1>3, MvConstants
  <2> QED
    BY <1>1, <2>1, MvLoggedKept
<1> QED
  BY <1>8, <1>9, <1>10, <1>11 DEF MvInv

\* main has joined the threads, the user types an operation, or leaves.
LEMMA MvConsole ==
  ASSUME MvInv, Mvcc!Joined \/ (\E c \in Mvcc!Ops : Mvcc!Command(c)) \/ Mvcc!Exit
  PROVE  MvInv'
<1>1. /\ Console \in Mvcc!Actors /\ Console \notin Threads
      /\ UNCHANGED <<store, vnodes, clock, logs, tid_counter, tx, vnode>>
  BY MvConstants DEF Mvcc!Joined, Mvcc!Command, Mvcc!Exit, Mvcc!list
<1>2. /\ pc' \in [Mvcc!Actors -> {"joining", "begin", "count", "call", "link", "publish", "body",
                                  "exited"}]
      /\ pc'[Console] \in {"begin", "call", "exited"}
      /\ \A u \in Mvcc!Actors \ {Console} : pc'[u] = pc[u]
  <2>1. CASE Mvcc!Joined
    BY <1>1, <2>1, MvGoto DEF Mvcc!Joined
  <2>2. CASE \E c \in Mvcc!Ops : Mvcc!Command(c)
    BY <1>1, <2>2 DEF Mvcc!Command, MvInv, MvTypes
  <2>3. CASE Mvcc!Exit
    BY <1>1, <2>3, MvGoto DEF Mvcc!Exit
  <2> QED
    BY <2>1, <2>2, <2>3
<1>3. /\ todo' \in [Mvcc!Actors -> Seq(Mvcc!Ops)]
      /\ \A u \in Mvcc!Actors \ {Console} : todo'[u] = todo[u]
  <2>1. CASE UNCHANGED todo
    BY <2>1 DEF MvInv, MvTypes
  <2>2. CASE \E c \in Mvcc!Ops : todo' = [todo EXCEPT ![Console] = <<c>>]
    <3>1. PICK c \in Mvcc!Ops : todo' = [todo EXCEPT ![Console] = <<c>>]
      BY <2>2
    <3>2. <<c>> \in Seq(Mvcc!Ops)
      OBVIOUS
    <3> QED
      BY <3>1, <3>2 DEF MvInv, MvTypes
  <2> QED
    BY <2>1, <2>2 DEF Mvcc!Joined, Mvcc!Command, Mvcc!Exit
<1>4. MvTypes'
  BY <1>1, <1>2, <1>3 DEF MvInv, MvTypes
<1>5. MvPlaces'
  BY <1>1, <1>2, <1>3 DEF MvInv, MvPlaces
<1>6. \A u \in Threads : pc'[u] = "exited" => pc[u] = "exited" /\ tx'[u] = tx[u]
  BY <1>1, <1>2, MvConstants
<1> QED
  BY <1>1, <1>4, <1>5, <1>6, MvQuiet

\* Time passes; no version gets older than the next by it.
LEMMA MvTick ==
  ASSUME MvInv, Mvcc!Tick
  PROVE  MvInv'
<1>1. /\ clock < MaxClock /\ clock' = clock + 1 /\ clock \in 0 .. MaxClock
      /\ UNCHANGED <<store, vnodes, tid_counter, logs, pc, tx, todo, vnode>>
  BY DEF Mvcc!Tick, Mvcc!list, MvInv, MvTypes
<1>2. clock' \in 0 .. MaxClock
  BY <1>1, MvConstants
<1>3. MvTypes'
  BY <1>1, <1>2 DEF MvInv, MvTypes
<1>4. MvPlaces' /\ MvDown'
  BY <1>1 DEF MvInv, MvPlaces, MvDown
<1>5. ASSUME NEW n \in 1 .. Len(vnodes)
      PROVE  MvOrdered(vnodes[n].versions)'
  <2>1. PICK s : s = vnodes[n].versions
    OBVIOUS
  <2>2. MvOrdered(s) /\ vnodes'[n].versions = s
    BY <1>1, <2>1 DEF MvInv, MvNewest
  <2>3. s \in Seq(Mvcc!Version)
    <3>1. vnodes[n] \in Mvcc!Node
      BY DEF MvInv, MvTypes
    <3> QED
      BY <2>1, <3>1 DEF Mvcc!Node
  <2>4. \A k \in 1 .. Len(s) : s[k].timestamp \in Int
    <3>1. \A k \in 1 .. Len(s) : s[k] \in Mvcc!Version
      BY <2>3
    <3> QED
      BY <3>1, MvConstants DEF Mvcc!Version
  <2>5. \A k \in 1 .. Len(s) : s[k].timestamp <= clock + 1
    BY <1>1, <2>2, <2>4 DEF MvOrdered
  <2> QED
    BY <1>1, <2>2, <2>5 DEF MvOrdered
<1>6. MvNewest'
  BY <1>1, <1>5 DEF MvNewest
<1>7. MvLogged'
  BY <1>1, MvLoggedKept
<1> QED
  BY <1>3, <1>4, <1>6, <1>7 DEF MvInv

LEMMA MvStep == MvInv /\ (Mvcc!Next \/ UNCHANGED versioned) => MvInv'
<1> SUFFICES ASSUME MvInv, Mvcc!Next \/ UNCHANGED versioned
             PROVE  MvInv'
  OBVIOUS
<1>1. ASSUME NEW t \in Mvcc!Actors, Mvcc!Step(t)
      PROVE  MvInv'
  BY <1>1, MvBegin, MvFind, MvLink, MvPublish, MvWrite, MvGet, MvCommit DEF Mvcc!Step
<1>2. CASE Mvcc!Joined \/ (\E c \in Mvcc!Ops : Mvcc!Command(c)) \/ Mvcc!Exit
  BY <1>2, MvConsole
<1>3. CASE Mvcc!Rollback
  BY <1>3, MvRollback
<1>4. CASE Mvcc!Tick
  BY <1>4, MvTick
<1>5. CASE UNCHANGED versioned
  <2>1. UNCHANGED <<store, vnodes, clock, logs, tid_counter, pc, tx, todo, vnode>>
    BY <1>5 DEF versioned
  <2>2. MvTypes' /\ MvPlaces'
    BY <2>1 DEF MvInv, MvTypes, MvPlaces
  <2> QED
    BY <2>1, <2>2, MvQuiet
<1> QED
  BY <1>1, <1>2, <1>3, <1>4, <1>5 DEF Mvcc!Next

\* A set of numbers has a least one.
LEMMA MvLeast ==
  ASSUME NEW T, T \subseteq Nat, T # {}
  PROVE  \E x \in T : \A y \in T : x <= y
<1>1. \A x, y \in Nat : <<y, x>> \in OpToRel(<, Nat) <=> y < x
  BY DEF OpToRel
<1>2. PICK R : IsWellFoundedOn(R, Nat) /\ \A x, y \in Nat : <<y, x>> \in R <=> y < x
  BY <1>1, NatLessThanWellFounded, Zenon
<1>3. PICK x \in T : \A y \in T : ~(<<y, x>> \in R)
  BY <1>2, WFMin
<1>4. ASSUME NEW y \in T
      PROVE  x <= y
  <2>1. x \in Nat /\ y \in Nat /\ ~(y < x)
    BY <1>2, <1>3
  <2> QED
    BY <2>1
<1> QED
  BY <1>4

\* The invariant is enough: in any set of nodes the one allocated first leads
\* out of it.
LEMMA MvImplies == MvInv => Mvcc!ListSound /\ Mvcc!NewestFirst /\ Mvcc!LoggedTogether
<1> SUFFICES ASSUME MvInv
             PROVE  Mvcc!ListSound /\ Mvcc!NewestFirst /\ Mvcc!LoggedTogether
  OBVIOUS
<1>1. vnodes \in Seq(Mvcc!Node) /\ DOMAIN vnodes = 1 .. Len(vnodes)
  BY DEF MvInv, MvTypes
<1>2. Mvcc!ListSound
  <2>1. ASSUME NEW S \in SUBSET DOMAIN vnodes, S # {}
        PROVE  \E n \in S : vnodes[n].next \notin S
    <3>1. S \subseteq Nat
      BY <1>1
    <3>2. PICK n \in S : \A m \in S : n <= m
      BY <2>1, <3>1, MvLeast
    <3>3. vnodes[n].next < n /\ vnodes[n].next \in Nat
      <4>1. vnodes[n] \in Mvcc!Node /\ n \in 1 .. Len(vnodes)
        BY <1>1
      <4> QED
        BY <4>1, MvConstants DEF MvInv, MvDown, Mvcc!Node
    <3> QED
      BY <3>1, <3>2, <3>3
  <2> QED
    BY <2>1 DEF Mvcc!ListSound
<1>3. Mvcc!NewestFirst
  <2>1. ASSUME NEW n \in DOMAIN vnodes, NEW j \in DOMAIN vnodes[n].versions,
               NEW k \in DOMAIN vnodes[n].versions, j < k
        PROVE  vnodes[n].versions[j].timestamp >= vnodes[n].versions[k].timestamp
    <3>1. vnodes[n] \in Mvcc!Node /\ MvOrdered(vnodes[n].versions)
      BY <1>1 DEF MvInv, MvNewest
    <3>2. vnodes[n].versions \in Seq(Mvcc!Version)
      BY <3>1 DEF Mvcc!Node
    <3> QED
      BY <2>1, <3>1, <3>2 DEF MvOrdered
  <2> QED
    BY <2>1 DEF Mvcc!NewestFirst
<1>4. Mvcc!LoggedTogether
  BY DEF MvInv, MvLogged, MvInLog, Mvcc!LoggedTogether
<1> QED
  BY <1>2, <1>3, <1>4
-----------------------------------------------------------------------------
(* The key-value servers.                                                  *)

\* What a thread has of a request, whatever has become of the store.
KvTyped(c) ==
  /\ h[c].pc \in {"set", "get", "copy", "copied", "ok"} => h[c].key \in KvKeys
  /\ h[c].pc \in {"set", "copy", "copied"} => h[c].val \in KvValues
  /\ h[c].pc \in {"copy", "copied", "send", "sent"} => h[c].slot # 0

KvBase ==
  /\ Servers!TypeOK /\ written \in [KvKeys -> Servers!Cell]
  /\ \A c \in Clients : KvTyped(c)

\* What is stored: pairs of different keys, each cell written for the key of
\* its pair, and both with the last value unless somebody is half-way.
KvPairs ==
  /\ \A i \in 1 .. store_count :
       /\ pairs[i].key \in KvKeys
       /\ \A n \in 1 .. 2 : pairs[i].val[n] \in {pairs[i].key} \X KvValues
  /\ \A i, j \in 1 .. store_count : pairs[i].key = pairs[j].key => i = j
  /\ \A i \in 1 .. store_count :
       (\A d \in Clients : ~(h[d].pc = "copied" /\ h[d].slot = i)) =>
         pairs[i].val = <<written[pairs[i].key], written[pairs[i].key]>>

\* A key that was written, or that there was no room for.
KvKept(k) == store_count = MAX_ITEMS[kind] \/ \E i \in 1 .. store_count : pairs[i].key = k

\* A thread that writes has the slot of its key, or the first free one if the
\* key has none; where SETs lock it is the only one that writes.
KvWrites(c) == h[c].pc \in {"copy", "copied"}
KvWriter(c) ==
  /\ h[c].new => /\ h[c].slot = store_count + 1
                 /\ \A i \in 1 .. store_count : pairs[i].key # h[c].key
  /\ ~h[c].new => h[c].slot <= store_count /\ pairs[h[c].slot].key = h[c].key
  /\ h[c].pc = "copied" =>
       pairs[h[c].slot].key = h[c].key /\ pairs[h[c].slot].val[1] = <<h[c].key, h[c].val>>
  /\ kind # "dynamic" => lock = c

\* A thread that reads has the slot of its key; what it has sent was written for
\* that key, and is the last value, as the slot is, unless a SET ran into it.
KvReads(c) == h[c].pc \in {"send", "sent"} \/ (h[c].pc = "value" /\ h[c].slot # 0)
KvReader(c) ==
  /\ h[c].key \in KvKeys /\ h[c].slot \in 1 .. store_count
  /\ pairs[h[c].slot].key = h[c].key
  /\ h[c].pc \in {"sent", "value"} => h[c].out[1] \in {h[c].key} \X KvValues
  /\ h[c].pc = "value" => h[c].out[2] \in {h[c].key} \X KvValues
  /\ ~h[c].overlapped =>
       /\ pairs[h[c].slot].val = <<written[h[c].key], written[h[c].key]>>
       /\ h[c].pc \in {"sent", "value"} => h[c].out[1] = written[h[c].key]
       /\ h[c].pc = "value" => h[c].out[2] = written[h[c].key]

KvThread(c) ==
  /\ h[c].pc = "ok" => KvKept(h[c].key)
  /\ KvWrites(c) => KvWriter(c)
  /\ KvReads(c) => KvReader(c)

\* No two threads write one slot.
KvApart == \A c, d \in Clients : KvWrites(c) /\ KvWrites(d) /\ h[c].slot = h[d].slot => c = d

KvGood ==
  /\ KvPairs
  /\ \A k \in acked : KvKept(k)
  /\ \A c \in Clients : KvThread(c)
  /\ KvApart

\* With locks there never is a clash, and until there is one all is well.
KvInv ==
  /\ KvBase
  /\ kind # "dynamic" => race = "none"
  /\ race = "none" => KvGood

KvRecord ==
  [pc : {"closed", "hello", "read", "set", "copy", "copied", "ok", "get", "send", "sent", "value",
         "error", "bye"},
   key : KvKeys \cup {0}, val : KvValues \cup {0}, slot : 0 .. MAX_ITEMS[kind], new : BOOLEAN,
   out : Servers!Cell \X Servers!Cell, overlapped : BOOLEAN, gone : BOOLEAN]
KvItem == [key : KvKeys \cup {0}, val : Servers!Cell \X Servers!Cell]

\* What a proof needs of the types.
LEMMA KvTypes ==
  ASSUME KvInv
  PROVE  /\ kind \in {"shared", "static", "dynamic"} /\ MAX_ITEMS[kind] \in Nat
         /\ store_count \in Nat /\ store_count <= MAX_ITEMS[kind]
         /\ pairs \in [1 .. MAX_ITEMS[kind] -> KvItem]
         /\ h \in [Clients -> KvRecord]
         /\ lock \in Clients \cup {0} /\ 0 \notin Clients
         /\ acked \subseteq KvKeys /\ written \in [KvKeys -> Servers!Cell]
         /\ race \in {"none", "clash", "wild"}
<1> USE CoreAssumption DEF KvInv, KvBase, Servers!TypeOK, Servers!ConstantsOK, CoreAssumption, Servers!Nobody
<1>1. kind \in {"shared", "static", "dynamic"} /\ MAX_ITEMS[kind] \in Nat
  OBVIOUS
<1>2. store_count \in 0 .. MAX_ITEMS[kind]
  OBVIOUS
<1>3. store_count \in Nat /\ store_count <= MAX_ITEMS[kind]
  BY ONLY <1>1, <1>2
<1>4. h \in [Clients -> KvRecord]
  BY DEF KvRecord
<1>5. pairs \in [1 .. MAX_ITEMS[kind] -> KvItem]
  BY DEF KvItem
<1> QED
  BY <1>1, <1>3, <1>4, <1>5

\* And what it shows of them.
LEMMA KvTypesHold ==
  ASSUME KvInv, kind' = kind, store_count' \in Nat, store_count' <= MAX_ITEMS[kind],
         pairs' \in [1 .. MAX_ITEMS[kind] -> KvItem], h' \in [Clients -> KvRecord],
         lock' \in Clients \cup {0}, acked' \subseteq KvKeys, written' \in [KvKeys -> Servers!Cell],
         race' \in {"none", "clash", "wild"}, \A c \in Clients : KvTyped(c)'
  PROVE  KvBase'
<1>1. store_count' \in 0 .. MAX_ITEMS[kind']
  BY KvTypes
<1>2. pairs' \in [1 .. MAX_ITEMS[kind'] -> [key : KvKeys \cup {0}, val : Servers!Cell \X Servers!Cell]]
  BY DEF KvItem
<1>3. h' \in [Clients -> KvRecord'] /\ KvRecord' = KvRecord
  BY DEF KvRecord
<1>4. kind' \in {"shared", "static", "dynamic"}
  BY KvTypes
<1>5. Servers!TypeOK'
  BY <1>1, <1>2, <1>3, <1>4 DEF Servers!TypeOK, KvRecord, Servers!Nobody
<1> QED
  BY <1>5 DEF KvBase

\* The slot that is found is the key's, and none is found only if there is none.
LEMMA KvSlotOf ==
  ASSUME KvInv, NEW k
  PROVE  \/ Servers!SlotOf(k) = 0 /\ \A i \in 1 .. store_count : pairs[i].key # k
         \/ Servers!SlotOf(k) \in 1 .. store_count /\ pairs[Servers!SlotOf(k)].key = k
<1> DEFINE is == {i \in 1 .. store_count : pairs[i].key = k}
<1>1. CASE is = {}
  <2>1. Servers!SlotOf(k) = 0
    BY <1>1 DEF Servers!SlotOf, Servers!NULL
  <2> QED
    BY <1>1, <2>1
<1>2. CASE is # {}
  <2>1. is \subseteq Nat
    BY KvTypes
  <2>2. PICK T : T = is
    OBVIOUS
  <2>3. \E x \in T : \A y \in T : x <= y
    BY <1>2, <2>1, <2>2, MvLeast
  <2>4. Servers!Min(T) \in T
    BY <2>3 DEF Servers!Min
  <2>5. Servers!SlotOf(k) = Servers!Min(T)
    BY <1>2, <2>2 DEF Servers!SlotOf
  <2> QED
    BY <2>2, <2>4, <2>5
<1> QED
  BY <1>1, <1>2

\* With a key's pair stored, or the store full, its SET may be answered with OK.
LEMMA KvKeptFound ==
  ASSUME KvInv, NEW k, KvKept(k)
  PROVE  Servers!SlotOf(k) # 0 \/ store_count = MAX_ITEMS[kind]
<1>1. CASE store_count = MAX_ITEMS[kind]
  BY <1>1
<1>2. ASSUME NEW i \in 1 .. store_count, pairs[i].key = k
      PROVE  Servers!SlotOf(k) # 0
  BY <1>2, KvSlotOf, KvTypes
<1> QED
  BY <1>1, <1>2 DEF KvKept

\* A step of one thread that leaves the store alone.  Until there is a clash, it
\* writes no slot that another writes.
KvMoves(c, r) ==
  /\ h[c].pc = "copied" => r.pc = "copied" /\ r.slot = h[c].slot
  /\ kind = "dynamic" \/ lock' = lock \/ lock = 0
  /\ \A k \in acked' : KvKept(k)
  /\ r.pc \in {"copy", "copied"} => \A d \in Clients : d # c => ~Servers!Writing(d, r.slot)
LEMMA KvOwnStep ==
  ASSUME KvInv, NEW c \in Clients, NEW r \in KvRecord,
         UNCHANGED <<kind, pairs, store_count, written>>,
         h' = [h EXCEPT ![c] = r], KvTyped(c)',
         lock' \in Clients \cup {0}, acked' \subseteq KvKeys, race' \in {race, "clash"},
         race' # race => kind = "dynamic",
         race = "none" /\ race' = "none" => KvMoves(c, r) /\ KvThread(c)'
  PROVE  KvInv'
<1>1. h' \in [Clients -> KvRecord] /\ h'[c] = r /\ \A d \in Clients : d # c => h'[d] = h[d]
  BY KvTypes
<1>2. \A d \in Clients : KvTyped(d)'
  BY <1>1 DEF KvInv, KvBase, KvTyped
<1>3. KvBase'
  <2>1. /\ kind' = kind /\ store_count' \in Nat /\ store_count' <= MAX_ITEMS[kind]
        /\ pairs' \in [1 .. MAX_ITEMS[kind] -> KvItem] /\ written' \in [KvKeys -> Servers!Cell]
        /\ race' \in {"none", "clash", "wild"}
    BY KvTypes
  <2> QED
    BY <1>1, <1>2, <2>1, KvTypesHold
<1>4. kind' # "dynamic" => race' = "none"
  BY DEF KvInv
<1>5. ASSUME race' = "none"
      PROVE  KvGood'
  <2>0. race = "none" /\ KvMoves(c, r) /\ KvThread(c)' /\ KvGood
    BY <1>5 DEF KvInv
  <2>4. \A k : KvKept(k)' <=> KvKept(k)
    BY DEF KvKept
  <2>5. ASSUME NEW i \in 1 .. store_count,
               \A d \in Clients : ~(h'[d].pc = "copied" /\ h'[d].slot = i)
        PROVE  \A d \in Clients : ~(h[d].pc = "copied" /\ h[d].slot = i)
    BY <1>1, <2>0, <2>5 DEF KvMoves
  <2>6. KvPairs'
    BY <2>0, <2>5 DEF KvGood, KvPairs
  <2>7. ASSUME NEW d \in Clients, d # c
        PROVE  KvThread(d)'
    <3>1. KvThread(d) /\ h'[d] = h[d]
      BY <1>1, <2>0, <2>7 DEF KvGood
    <3>2. KvWrites(d) => KvWriter(d)'
      <4>1. CASE KvWrites(d)
        <5>1. KvWriter(d)
          BY <3>1, <4>1 DEF KvThread
        <5>2. kind # "dynamic" => lock' = d
          BY <2>0, <5>1, KvTypes DEF KvWriter, KvMoves
        <5> QED
          BY <3>1, <5>1, <5>2 DEF KvWriter
      <4> QED
        BY <4>1
    <3>3. KvReads(d) => KvReader(d)'
      BY <3>1 DEF KvThread, KvReader
    <3> QED
      BY <3>1, <3>2, <3>3, <2>4 DEF KvThread, KvWrites, KvReads
  <2>8. \A k \in acked' : KvKept(k)'
    BY <2>0, <2>4 DEF KvMoves
  <2>9. KvApart'
    <3>1. ASSUME NEW d \in Clients, d # c, KvWrites(c)', KvWrites(d)'
          PROVE  h'[c].slot # h'[d].slot
      BY <3>1, <1>1, <2>0 DEF KvMoves, KvWrites, Servers!Writing
    <3>2. ASSUME NEW d \in Clients, NEW e \in Clients, d # c, e # c, KvWrites(d)', KvWrites(e)',
                 h'[d].slot = h'[e].slot
          PROVE  d = e
      BY <3>2, <1>1, <2>0 DEF KvGood, KvApart, KvWrites
    <3> QED
      BY <3>1, <3>2 DEF KvApart
  <2> QED
    BY <2>0, <2>6, <2>7, <2>8, <2>9 DEF KvGood
<1> QED
  BY <1>3, <1>4, <1>5 DEF KvInv

\* set_value looks for the slot and locks.
LEMMA KvSetFind ==
  ASSUME KvInv, NEW c \in Clients, NEW locks, kind # "dynamic" => "set" \in locks,
         Servers!SetFind(c, locks)
  PROVE  KvInv'
<1>0. KvTyped(c) /\ h[c].pc = "set" /\ h[c] \in KvRecord
  BY KvTypes DEF KvInv, KvBase, Servers!SetFind
<1>1. h[c].key \in KvKeys /\ h[c].val \in KvValues
  BY <1>0 DEF KvTyped
<1>2. PICK s : s = IF Servers!SlotOf(h[c].key) # 0 THEN Servers!SlotOf(h[c].key)
                   ELSE IF store_count < MAX_ITEMS[kind] THEN store_count + 1 ELSE 0
  OBVIOUS
<1>3. PICK b \in BOOLEAN : b = (Servers!SlotOf(h[c].key) = 0 /\ s # 0)
  OBVIOUS
<1>30. b <=> (Servers!SlotOf(h[c].key) = 0 /\ s # 0)
  BY <1>3, Zenon
<1>4. /\ kind # "dynamic" => lock = 0
      /\ h' = [h EXCEPT ![c].slot = s, ![c].new = b, ![c].pc = IF s = 0 THEN "ok" ELSE "copy"]
      /\ lock' = IF "set" \in locks /\ s # 0 THEN c ELSE lock
      /\ race' = IF s # 0 /\ \E d \in Clients : Servers!Writing(d, s) THEN "clash" ELSE race
      /\ UNCHANGED <<kind, pairs, store_count, acked, written>>
  BY <1>2, <1>3 DEF Servers!SetFind, Servers!MayEnter, Servers!NULL, Servers!Nobody
<1>5. /\ s \in 0 .. MAX_ITEMS[kind]
      /\ s = 0 => store_count = MAX_ITEMS[kind]
      /\ s # 0 /\ ~b => s <= store_count /\ pairs[s].key = h[c].key
      /\ s # 0 /\ b => s = store_count + 1 /\ \A i \in 1 .. store_count : pairs[i].key # h[c].key
  <2>1. CASE Servers!SlotOf(h[c].key) # 0
    BY <1>2, <1>30, <2>1, KvSlotOf, KvTypes
  <2>2. CASE Servers!SlotOf(h[c].key) = 0
    <3>1. \A i \in 1 .. store_count : pairs[i].key # h[c].key
      BY <2>2, KvSlotOf
    <3> QED
      BY <1>2, <1>30, <2>2, <3>1, KvTypes
  <2> QED
    BY <2>1, <2>2
<1>6. PICK l : l = IF s = 0 THEN "ok" ELSE "copy"
  OBVIOUS
<1>7. PICK r : r = [h[c] EXCEPT !.slot = s, !.new = b, !.pc = l]
  OBVIOUS
<1>8. r = [pc |-> l, key |-> h[c].key, val |-> h[c].val, slot |-> s, new |-> b, out |-> h[c].out,
           overlapped |-> h[c].overlapped, gone |-> h[c].gone]
  <2>1. PICK a \in KvRecord : a = h[c]
    BY <1>0
  <2>2. r = [a EXCEPT !.slot = s, !.new = b, !.pc = l]
    BY <1>7, <2>1
  <2>3. r = [pc |-> l, key |-> a.key, val |-> a.val, slot |-> s, new |-> b, out |-> a.out,
             overlapped |-> a.overlapped, gone |-> a.gone]
    BY ONLY <2>2, a \in KvRecord DEF KvRecord
  <2> QED
    BY <2>1, <2>3
<1>9. r \in KvRecord
  BY <1>0, <1>5, <1>6, <1>8 DEF KvRecord
<1>10. h' = [h EXCEPT ![c] = r]
  BY <1>4, <1>6, <1>7, KvTypes
<1>11. /\ h'[c] = r /\ r.slot = s /\ r.key = h[c].key /\ r.val = h[c].val /\ r.new = b /\ r.pc = l
  BY <1>8, <1>10, KvTypes
<1>12. KvTyped(c)'
  BY <1>1, <1>6, <1>11 DEF KvTyped
<1>13. UNCHANGED <<kind, pairs, store_count, written>> /\ lock' \in Clients \cup {0} /\ acked' \subseteq KvKeys
  BY <1>4, KvTypes
<1>14. race' # race => kind = "dynamic"
  <2>1. ASSUME kind # "dynamic", NEW d \in Clients, Servers!Writing(d, s)
        PROVE  FALSE
    <3>1. KvThread(d) /\ KvWrites(d)
      BY <2>1 DEF KvInv, KvGood, KvWrites, Servers!Writing
    <3>2. lock = d
      BY <2>1, <3>1 DEF KvThread, KvWriter
    <3> QED
      BY <2>1, <3>2, <1>4, KvTypes
  <2> QED
    BY <2>1, <1>4
<1>15. ASSUME race = "none", race' = "none"
       PROVE  KvMoves(c, r) /\ KvThread(c)'
  <2>0. KvGood
    BY <1>15 DEF KvInv
  <2>1. KvMoves(c, r)
    <3>1. h[c].pc # "copied" /\ (kind = "dynamic" \/ lock = 0)
      BY <1>0, <1>4
    <3>2. \A k \in acked' : KvKept(k)
      BY <2>0, <1>4 DEF KvGood
    <3>3. s # 0 => ~\E d \in Clients : Servers!Writing(d, s)
      BY <1>4, <1>15
    <3>4. r.pc \in {"copy", "copied"} => s # 0
      BY <1>6, <1>11
    <3> QED
      BY <3>1, <3>2, <3>3, <3>4, <1>11 DEF KvMoves
  <2>2. CASE s = 0
    BY <2>2, <1>4, <1>5, <1>6, <1>11, <2>1 DEF KvThread, KvWrites, KvReads, KvKept
  <2>3. CASE s # 0
    <3>1. kind # "dynamic" => lock' = c
      BY <1>4, <2>3
    <3>2. /\ h'[c].slot = s /\ h'[c].key = h[c].key /\ h'[c].new = b
          /\ h'[c].pc = "copy"
      BY <2>3, <1>6, <1>11
    <3>3. pairs' = pairs /\ store_count' = store_count /\ kind' = kind
      BY <1>4
    <3>4. KvWriter(c)'
      BY <2>3, <3>1, <3>2, <3>3, <1>5 DEF KvWriter
    <3> QED
      BY <3>2, <3>4, <2>1 DEF KvThread, KvWrites, KvReads
  <2> QED
    BY <2>2, <2>3
<1>16. race' \in {race, "clash"}
  BY <1>4
<1> QED
  BY <1>9, <1>10, <1>12, <1>13, <1>14, <1>15, <1>16, KvOwnStep

LEMMA KvMarked ==
  ASSUME NEW r \in KvRecord, NEW q, q = [r EXCEPT !.overlapped = TRUE]
  PROVE  /\ q \in KvRecord /\ q.overlapped = TRUE
         /\ q.pc = r.pc /\ q.key = r.key /\ q.val = r.val /\ q.slot = r.slot /\ q.out = r.out
         /\ q.new = r.new
<1>1. q = [pc |-> r.pc, key |-> r.key, val |-> r.val, slot |-> r.slot, new |-> r.new, out |-> r.out,
           overlapped |-> TRUE, gone |-> r.gone]
  BY DEF KvRecord
<1> QED
  BY <1>1 DEF KvRecord

\* Who reads a slot that is written is known to be overlapped; the writer is not.
LEMMA KvUnmarked ==
  ASSUME KvInv, NEW c \in Clients, KvWrites(c), NEW s, NEW f, f = Servers!Overlap(s)
  PROVE  /\ f \in [Clients -> KvRecord] /\ f[c] = h[c]
         /\ \A d \in Clients : f[d] = IF h[d].slot = s /\ h[d].pc \in {"send", "sent", "value"}
                                        THEN [h[d] EXCEPT !.overlapped = TRUE] ELSE h[d]
<1>1. \A d \in Clients : h[d] \in KvRecord
  BY KvTypes
<1>2. \A d \in Clients : [h[d] EXCEPT !.overlapped = TRUE] \in KvRecord
  BY <1>1, KvMarked
<1>3. ~(h[c].pc \in {"send", "sent", "value"})
  BY DEF KvWrites
<1> QED
  BY <1>1, <1>2, <1>3 DEF Servers!Overlap

\* Thread c, which writes, comes to label l with the slot s.
KvShifted(c, s, l) ==
  [pc |-> l, key |-> h[c].key, val |-> h[c].val, slot |-> s, new |-> h[c].new, out |-> h[c].out,
   overlapped |-> h[c].overlapped, gone |-> h[c].gone]
KvShifts(c, s, l) ==
  /\ /\ h'[c].pc = l /\ h'[c].key = h[c].key /\ h'[c].val = h[c].val
     /\ h'[c].new = h[c].new /\ h'[c].slot = s
  /\ \A d \in Clients : d # c =>
       /\ h'[d].pc = h[d].pc /\ h'[d].key = h[d].key /\ h'[d].val = h[d].val
       /\ h'[d].slot = h[d].slot /\ h'[d].new = h[d].new /\ h'[d].out = h[d].out
       /\ ~h'[d].overlapped => ~h[d].overlapped
       /\ ~h'[d].overlapped /\ h[d].pc \in {"send", "sent", "value"} => h[d].slot # s
LEMMA KvOverlap ==
  ASSUME KvInv, NEW c \in Clients, KvWrites(c), NEW s \in 1 .. MAX_ITEMS[kind],
         NEW l \in {"copied", "ok"}, NEW r, r = KvShifted(c, s, l),
         h' = [Servers!Overlap(s) EXCEPT ![c] = r]
  PROVE  /\ h' \in [Clients -> KvRecord] /\ KvShifts(c, s, l)
         /\ \A d \in Clients : KvTyped(d)'
<1>1. \A d \in Clients : h[d] \in KvRecord
  BY KvTypes
<1>4. PICK f : f = Servers!Overlap(s)
  OBVIOUS
<1>5. /\ f \in [Clients -> KvRecord] /\ f[c] = h[c]
      /\ \A d \in Clients : f[d] = IF h[d].slot = s /\ h[d].pc \in {"send", "sent", "value"}
                                     THEN [h[d] EXCEPT !.overlapped = TRUE] ELSE h[d]
  BY <1>4, KvUnmarked
<1>7. h' = [f EXCEPT ![c] = r]
  BY <1>4
<1>8. r = [pc |-> l, key |-> h[c].key, val |-> h[c].val, slot |-> s, new |-> h[c].new, out |-> h[c].out,
           overlapped |-> h[c].overlapped, gone |-> h[c].gone]
  BY DEF KvShifted
<1>9. r \in KvRecord
  BY <1>1, <1>8, KvTypes DEF KvRecord
<1>10. h' \in [Clients -> KvRecord] /\ h'[c] = r /\ \A d \in Clients : d # c => h'[d] = f[d]
  BY <1>5, <1>7, <1>9
<1>11. /\ h'[c].pc = l /\ h'[c].key = h[c].key /\ h'[c].val = h[c].val
       /\ h'[c].new = h[c].new /\ h'[c].slot = s
  <2>1. PICK b \in BOOLEAN : b = h[c].new
    BY <1>1 DEF KvRecord
  <2>2. PICK k, v, o, ov, g : k = h[c].key /\ v = h[c].val /\ o = h[c].out /\ ov = h[c].overlapped /\ g = h[c].gone
    OBVIOUS
  <2>3. h'[c] = [pc |-> l, key |-> k, val |-> v, slot |-> s, new |-> b, out |-> o,
                 overlapped |-> ov, gone |-> g]
    BY ONLY <1>8, <1>10, <2>1, <2>2
  <2>4. h'[c].pc = l /\ h'[c].key = k /\ h'[c].val = v /\ h'[c].new = b /\ h'[c].slot = s
    BY ONLY <2>3, b \in BOOLEAN
  <2> QED
    BY ONLY <2>1, <2>2, <2>4
<1>12. ASSUME NEW d \in Clients, d # c
       PROVE  /\ h'[d].pc = h[d].pc /\ h'[d].key = h[d].key /\ h'[d].val = h[d].val
              /\ h'[d].slot = h[d].slot /\ h'[d].new = h[d].new /\ h'[d].out = h[d].out
              /\ ~h'[d].overlapped => ~h[d].overlapped
              /\ ~h'[d].overlapped /\ h[d].pc \in {"send", "sent", "value"} => h[d].slot # s
  <2>2. CASE h[d].slot = s /\ h[d].pc \in {"send", "sent", "value"}
    <3>1. h'[d] = [h[d] EXCEPT !.overlapped = TRUE]
      BY <1>5, <1>10, <1>12, <2>2
    <3> QED
      BY <1>1, <3>1, KvMarked
  <2>3. CASE ~(h[d].slot = s /\ h[d].pc \in {"send", "sent", "value"})
    <3>1. h'[d] = h[d]
      BY <1>5, <1>10, <1>12, <2>3
    <3> QED
      BY <3>1, <2>3
  <2> QED
    BY <2>2, <2>3
<1>13. \A d \in Clients : d # c => KvTyped(d)'
  BY <1>12 DEF KvTyped, KvInv, KvBase
<1>14. KvTyped(c)'
  <2>1. KvTyped(c) /\ s # 0
    BY KvTypes DEF KvInv, KvBase
  <2> QED
    BY <2>1, <1>11 DEF KvTyped, KvWrites
<1> QED
  BY <1>10, <1>11, <1>12, <1>13, <1>14 DEF KvShifts

\* Until there is a clash, thread c copies into its slot s, which then has the
\* pair q.
KvCopies(c, s, l, q) ==
  /\ KvShifts(c, s, l) /\ l \in {"copied", "ok"}
  /\ pairs' = [pairs EXCEPT ![s] = q]
  /\ q \in KvItem /\ q.key = h[c].key
  /\ kind' = kind /\ store_count' \in {store_count, s}
  /\ store_count' \in Nat /\ store_count' >= store_count
  /\ \A k \in KvKeys : k # h[c].key => written'[k] = written[k]
  /\ lock' = lock \/ kind = "dynamic" \/ lock = c

\* What a copy into a slot leaves of the others: the pair at another slot has
\* another key, and a reader of this slot is known to be overlapped.
KvLeaves(c, s, l, q) ==
  /\ s \in 1 .. MAX_ITEMS[kind] /\ KvWriter(c) /\ store_count' <= MAX_ITEMS[kind]
  /\ pairs' \in [1 .. MAX_ITEMS[kind] -> KvItem]
  /\ pairs'[s] = q
  /\ \A i \in 1 .. store_count : i # s => pairs'[i] = pairs[i] /\ pairs[i].key # h[c].key
  /\ \A i \in 1 .. store_count : pairs'[i].key = pairs[i].key
  /\ \A i \in 1 .. store_count' : i = s \/ i \in 1 .. store_count
  /\ /\ h'[c].pc = l /\ h'[c].key = h[c].key /\ h'[c].val = h[c].val
     /\ h'[c].new = h[c].new /\ h'[c].slot = s
  /\ \A d \in Clients : d # c => h'[d].pc = h[d].pc /\ h'[d].slot = h[d].slot
  /\ \A k : KvKept(k) => KvKept(k)'
  /\ \A d \in Clients : d # c => KvThread(d)'
  /\ KvApart'
LEMMA KvCopy ==
  ASSUME KvInv, KvGood, NEW c \in Clients, KvWrites(c), NEW s, s = h[c].slot,
         NEW l, NEW q, KvCopies(c, s, l, q)
  PROVE  KvLeaves(c, s, l, q)
<1> USE DEF KvCopies
<1>1. KvThread(c) /\ KvTyped(c) /\ h[c] \in KvRecord
  BY KvTypes DEF KvInv, KvBase, KvGood
<1>2. KvWriter(c)
  BY <1>1 DEF KvThread
<1>3. s \in 1 .. MAX_ITEMS[kind]
  BY <1>1, KvTypes DEF KvTyped, KvWrites, KvRecord
<1>4. store_count' <= MAX_ITEMS[kind]
  BY <1>3, KvTypes
<1>5. /\ pairs' \in [1 .. MAX_ITEMS[kind] -> KvItem]
      /\ pairs'[s] = q
      /\ \A i \in 1 .. MAX_ITEMS[kind] : i # s => pairs'[i] = pairs[i]
  BY <1>3, KvTypes
<1>6. ASSUME NEW i \in 1 .. store_count
      PROVE  i \in 1 .. MAX_ITEMS[kind]
  BY KvTypes
<1>7. ASSUME NEW i \in 1 .. store_count, i # s
      PROVE  pairs[i].key # h[c].key
  <2>1. CASE ~h[c].new
    <3>1. s \in 1 .. store_count /\ pairs[s].key = h[c].key
      BY <1>2, <1>3, <2>1, KvTypes DEF KvWriter
    <3> QED
      BY <1>7, <3>1 DEF KvGood, KvPairs
  <2>2. CASE h[c].new
    BY <1>2, <2>2 DEF KvWriter
  <2> QED
    BY <2>1, <2>2
<1>8. ASSUME NEW i \in 1 .. store_count
      PROVE  pairs'[i].key = pairs[i].key
  <2>1. CASE i = s
    <3>1. s <= store_count /\ s # store_count + 1
      BY <2>1, KvTypes
    <3>2. pairs[s].key = h[c].key
      BY <1>2, <3>1 DEF KvWriter
    <3> QED
      BY <1>5, <2>1, <3>2
  <2>2. CASE i # s
    BY <1>5, <1>6, <2>2
  <2> QED
    BY <2>1, <2>2
<1>9. ASSUME NEW i \in 1 .. store_count', i # s
      PROVE  i \in 1 .. store_count
  <2>1. s <= store_count \/ s = store_count + 1
    BY <1>2 DEF KvWriter
  <2> QED
    BY <2>1, <1>9, <1>3, KvTypes
<1>11. KvShifts(c, s, l)
  OBVIOUS
<1> USE <1>11 DEF KvShifts
<1>13. ASSUME NEW k, KvKept(k)
       PROVE  KvKept(k)'
  <2>1. CASE store_count = MAX_ITEMS[kind]
    BY <1>4, <2>1, KvTypes DEF KvKept
  <2>2. ASSUME NEW i \in 1 .. store_count, pairs[i].key = k
        PROVE  KvKept(k)'
    <3>1. i \in 1 .. store_count' /\ pairs'[i].key = k
      BY <1>8, <2>2, KvTypes
    <3> QED
      BY <3>1 DEF KvKept
  <2> QED
    BY <1>13, <2>1, <2>2 DEF KvKept
<1>14. ASSUME NEW d \in Clients, d # c, KvWrites(d)
       PROVE  KvWriter(d)'
  <2>1. KvThread(d) /\ h[d].slot # s /\ KvTyped(d) /\ h[d] \in KvRecord
    BY <1>14, KvTypes DEF KvGood, KvApart, KvInv, KvBase
  <2>2. KvWriter(d)
    BY <2>1, <1>14 DEF KvThread
  <2>3. PICK j \in 1 .. MAX_ITEMS[kind] : j = h[d].slot
    BY <2>1, <1>14, KvTypes DEF KvTyped, KvWrites, KvRecord
  <2>4. pairs'[j] = pairs[j]
    BY <2>1, <2>3, <1>5
  <2>5. kind' # "dynamic" => lock' = d
    BY <1>2, <1>14, <2>2 DEF KvWriter
  <2>6. CASE h[d].new
    <3>0. h[d].slot = store_count + 1 /\ \A i \in 1 .. store_count : pairs[i].key # h[d].key
      BY ONLY <2>2, <2>6 DEF KvWriter
    <3>1. ~h[c].new
      BY <2>1, <2>2, <2>6, <1>2 DEF KvWriter
    <3>2. store_count' = store_count
      BY <3>1, <1>2, <1>3, KvTypes DEF KvWriter
    <3>3. \A i \in 1 .. store_count' : pairs'[i].key # h'[d].key
      <4>1. h'[d].key = h[d].key
        BY <1>14
      <4> QED
        BY ONLY <4>1, <3>0, <3>2, <1>8
    <3>4. h'[d].new /\ h'[d].slot = store_count' + 1
      <4>1. h'[d].new = h[d].new /\ h'[d].slot = h[d].slot
        BY <1>14
      <4> QED
        BY ONLY <4>1, <2>6, <3>0, <3>2
    <3>5. h'[d].pc = "copied" =>
            pairs'[h'[d].slot].key = h'[d].key /\ pairs'[h'[d].slot].val[1] = <<h'[d].key, h'[d].val>>
      BY <2>2, <2>3, <2>4, <1>11, <1>14 DEF KvWriter
    <3> QED
      BY ONLY <2>5, <3>3, <3>4, <3>5 DEF KvWriter
  <2>7. CASE ~h[d].new
    <3>1. j <= store_count'
      BY <2>2, <2>3, <2>7, KvTypes DEF KvWriter
    <3> QED
      BY <2>2, <2>3, <2>4, <2>5, <2>7, <3>1, <1>11, <1>14 DEF KvWriter
  <2> QED
    BY <2>6, <2>7
<1>15. ASSUME NEW d \in Clients, d # c
       PROVE  KvThread(d)'
  <2>1. KvThread(d)
    BY DEF KvGood
  <2>2. KvWrites(d)' => KvWriter(d)'
    BY <1>11, <1>14, <1>15 DEF KvWrites
  <2>3. ASSUME KvReads(d)
        PROVE  KvReader(d)'
    <3>1. KvReader(d)
      BY <2>1, <2>3 DEF KvThread
    <3>2. PICK i \in 1 .. store_count : i = h[d].slot
      BY <3>1 DEF KvReader
    <3>3. pairs'[i].key = h[d].key /\ pairs[i].key = h[d].key /\ h[d].key \in KvKeys
      BY <3>1, <3>2, <1>8 DEF KvReader
    <3>4. i \in 1 .. store_count'
      BY KvTypes
    <3>5. ASSUME ~h'[d].overlapped
          PROVE  pairs'[i] = pairs[i] /\ written'[h[d].key] = written[h[d].key]
      <4>1. i # s
        BY <3>2, <3>5, <2>3, <1>11, <1>15 DEF KvReads
      <4>2. pairs'[i] = pairs[i] /\ h[d].key # h[c].key
        BY <1>5, <1>6, <1>7, <3>3, <4>1
      <4> QED
        BY <3>3, <4>2
    <3> QED
      BY <3>1, <3>2, <3>3, <3>4, <3>5, <1>11, <1>15 DEF KvReader
  <2>4. KvReads(d)' <=> KvReads(d)
    BY <1>11, <1>15 DEF KvReads
  <2> QED
    BY <2>1, <2>2, <2>3, <2>4, <1>11, <1>13, <1>15 DEF KvThread
<1>16. KvApart'
  <2>1. \A d \in Clients : h'[d].slot = h[d].slot /\ (KvWrites(d)' => KvWrites(d))
    BY <1>11 DEF KvWrites
  <2> QED
    BY <2>1 DEF KvGood, KvApart
<1> QED
  BY ONLY <1>2, <1>3, <1>4, <1>5, <1>6, <1>7, <1>8, <1>9, <1>11, <1>13, <1>15, <1>16 DEF KvLeaves, KvShifts

\* Where a pair goes.
LEMMA KvTargets ==
  ASSUME KvInv, NEW c \in Clients, KvWrites(c)
  PROVE  /\ h[c].slot \in 1 .. MAX_ITEMS[kind] /\ h[c].key \in KvKeys /\ h[c].val \in KvValues
         /\ \A n \in Servers!Targets(c) : n \in Nat /\ n # 0
         /\ race = "none" => Servers!Targets(c) = {h[c].slot} /\ KvWriter(c)
<1>1. h[c] \in KvRecord /\ KvTyped(c)
  BY KvTypes DEF KvInv, KvBase
<1>2. h[c].slot \in 1 .. MAX_ITEMS[kind] /\ h[c].key \in KvKeys /\ h[c].val \in KvValues
  BY <1>1, KvTypes DEF KvTyped, KvWrites, KvRecord
<1>3. \A n \in Servers!Targets(c) : n \in {h[c].slot, store_count + 1}
  BY DEF Servers!Targets
<1>4. \A n \in Servers!Targets(c) : n \in Nat /\ n # 0
  BY <1>2, <1>3, KvTypes
<1>5. ASSUME race = "none"
      PROVE  Servers!Targets(c) = {h[c].slot} /\ KvWriter(c)
  <2>1. KvWriter(c)
    BY <1>5 DEF KvInv, KvGood, KvThread
  <2>2. h[c].new => h[c].slot = store_count + 1
    BY <2>1 DEF KvWriter
  <2>3. Servers!Targets(c) = {h[c].slot}
    BY <2>2 DEF Servers!Targets
  <2> QED
    BY <2>1, <2>3
<1> QED
  BY <1>2, <1>4, <1>5

\* An access behind the end comes after a clash only.
LEMMA KvOverrun ==
  ASSUME KvInv, Servers!Overrun, race # "none"
  PROVE  KvInv'
<1>1. /\ race' = "wild" /\ UNCHANGED <<kind, pairs, store_count, lock, h, acked, written>>
  BY DEF Servers!Overrun
<1>2. Servers!TypeOK'
  BY <1>1 DEF KvInv, KvBase, Servers!TypeOK
<1>3. KvBase'
  BY <1>1, <1>2 DEF KvInv, KvBase, KvTyped
<1> QED
  BY <1>1, <1>3 DEF KvInv

\* The first half of a value is copied, and the key of a new pair, with slots s
\* and t in the array.
LEMMA KvFirstHalf ==
  ASSUME KvInv, NEW c \in Clients, h[c].pc = "copy", NEW s \in Servers!Targets(c),
         NEW t \in Servers!Targets(c), t <= MAX_ITEMS[kind],
         pairs' = Servers!HalfCopied(c, s, t),
         h' = [Servers!Overlap(t) EXCEPT ![c].pc = "copied", ![c].slot = t],
         UNCHANGED <<kind, store_count, lock, acked, written, race>>
  PROVE  KvInv'
<1>1. KvWrites(c) /\ h[c] \in KvRecord
  BY KvTypes DEF KvWrites
<1>2. /\ t \in 1 .. MAX_ITEMS[kind] /\ h[c].key \in KvKeys /\ h[c].val \in KvValues
      /\ t \in Nat /\ t # 0
  <2>1. t \in Nat /\ t # 0 /\ h[c].key \in KvKeys /\ h[c].val \in KvValues
    BY <1>1, KvTargets
  <2> QED
    BY <2>1, KvTypes
<1>3. PICK x : x = <<h[c].key, h[c].val>>
  OBVIOUS
<1>4. x \in Servers!Cell
  BY <1>2, <1>3 DEF Servers!Cell
<1>5. pairs' = [i \in 1 .. MAX_ITEMS[kind] |->
                  [key |-> IF h[c].new /\ i = s THEN h[c].key ELSE pairs[i].key,
                   val |-> IF i = t THEN <<x, pairs[i].val[2]>> ELSE pairs[i].val]]
  <2>1. DOMAIN pairs = 1 .. MAX_ITEMS[kind]
    BY KvTypes
  <2> QED
    BY <2>1, <1>3 DEF Servers!HalfCopied, Servers!Given
<1>6. pairs' \in [1 .. MAX_ITEMS[kind] -> KvItem]
  <2>1. ASSUME NEW i \in 1 .. MAX_ITEMS[kind]
        PROVE  /\ pairs[i].key \in KvKeys \cup {0} /\ pairs[i].val \in Servers!Cell \X Servers!Cell
               /\ <<x, pairs[i].val[2]>> \in Servers!Cell \X Servers!Cell
    <3>1. pairs[i].key \in KvKeys \cup {0} /\ pairs[i].val \in Servers!Cell \X Servers!Cell
      BY KvTypes DEF KvItem
    <3> QED
      BY <3>1, <1>4
  <2> QED
    BY <2>1, <1>2, <1>5 DEF KvItem
<1>7. h' \in [Clients -> KvRecord] /\ KvShifts(c, t, "copied") /\ \A d \in Clients : KvTyped(d)'
  <2>1. PICK f : f = Servers!Overlap(t)
    OBVIOUS
  <2>2. f \in [Clients -> KvRecord] /\ f[c] = h[c]
    BY <2>1, <1>1, KvUnmarked
  <2>3. PICK r : r = [h[c] EXCEPT !.pc = "copied", !.slot = t]
    OBVIOUS
  <2>4. h' = [f EXCEPT ![c].pc = "copied", ![c].slot = t]
    BY <2>1
  <2>5. h' = [f EXCEPT ![c] = r]
    BY ONLY <2>2, <2>3, <2>4, c \in Clients
  <2>6. r = KvShifted(c, t, "copied")
    <3>1. PICK a \in KvRecord : a = h[c]
      BY <1>1
    <3>2. r = [a EXCEPT !.pc = "copied", !.slot = t]
      BY <2>3, <3>1
    <3>3. r = [pc |-> "copied", key |-> a.key, val |-> a.val, slot |-> t, new |-> a.new, out |-> a.out,
               overlapped |-> a.overlapped, gone |-> a.gone]
      BY ONLY <3>2, a \in KvRecord DEF KvRecord
    <3> QED
      BY ONLY <3>1, <3>3 DEF KvShifted
  <2>7. h' = [Servers!Overlap(t) EXCEPT ![c] = r]
    BY ONLY <2>1, <2>5
  <2>8. t \in 1 .. MAX_ITEMS[kind]
    BY <1>2
  <2> QED
    BY ONLY KvInv, c \in Clients, <1>1, <2>6, <2>7, <2>8, KvOverlap
<1>8. KvBase'
  <2>1. /\ kind' = kind /\ store_count' \in Nat /\ store_count' <= MAX_ITEMS[kind]
        /\ lock' \in Clients \cup {0} /\ acked' \subseteq KvKeys /\ written' \in [KvKeys -> Servers!Cell]
        /\ race' \in {"none", "clash", "wild"}
    BY KvTypes
  <2> QED
    BY ONLY KvInv, <1>6, <1>7, <2>1, KvTypesHold
<1>9. kind' # "dynamic" => race' = "none"
  BY DEF KvInv
<1>10. ASSUME race' = "none"
       PROVE  KvGood'
  <2>1. race = "none" /\ KvGood
    BY <1>10 DEF KvInv
  <2>2. s = h[c].slot /\ t = h[c].slot /\ KvWriter(c)
    BY <2>1, <1>1, KvTargets
  <2>3. PICK q : q = [key |-> h[c].key, val |-> <<x, pairs[t].val[2]>>]
    OBVIOUS
  <2>4. q \in KvItem /\ q.key = h[c].key /\ q.val = <<x, pairs[t].val[2]>>
    <3>1. pairs[t].val[2] \in Servers!Cell
      BY <1>2, KvTypes DEF KvItem
    <3> QED
      BY <2>3, <3>1, <1>2, <1>4 DEF KvItem
  <2>5. pairs' = [pairs EXCEPT ![t] = q]
    <3>1. ASSUME NEW i \in 1 .. MAX_ITEMS[kind], i # t
          PROVE  pairs'[i] = pairs[i]
      <4>1. pairs[i] = [key |-> pairs[i].key, val |-> pairs[i].val]
        BY KvTypes DEF KvItem
      <4>2. pairs'[i] = [key |-> pairs[i].key, val |-> pairs[i].val]
        BY <3>1, <1>5, <2>2
      <4> QED
        BY <4>1, <4>2
    <3>2. pairs'[t] = q
      <4>1. ~h[c].new => pairs[t].key = h[c].key
        BY <2>2 DEF KvWriter
      <4>2. pairs'[t] = [key |-> IF h[c].new THEN h[c].key ELSE pairs[t].key,
                         val |-> <<x, pairs[t].val[2]>>]
        BY <1>2, <1>5, <2>2
      <4> QED
        BY <2>3, <4>1, <4>2
    <3> QED
      BY <3>1, <3>2, <1>2, <1>6, KvTypes
  <2>6. KvCopies(c, t, "copied", q)
    <3>1. kind' = kind /\ store_count' = store_count /\ store_count' \in Nat
          /\ store_count' >= store_count /\ written' = written /\ lock' = lock
      BY KvTypes
    <3> QED
      BY <3>1, <2>4, <2>5, <1>7 DEF KvCopies
  <2>7. /\ pairs'[t] = q
        /\ \A i \in 1 .. store_count : i # t => pairs'[i] = pairs[i] /\ pairs[i].key # h[c].key
        /\ \A i \in 1 .. store_count : pairs'[i].key = pairs[i].key
        /\ h'[c].pc = "copied" /\ h'[c].key = h[c].key /\ h'[c].val = h[c].val /\ h'[c].slot = t
        /\ h'[c].new = h[c].new
        /\ \A d \in Clients : d # c => h'[d].pc = h[d].pc /\ h'[d].slot = h[d].slot
        /\ \A k : KvKept(k) => KvKept(k)'
        /\ \A d \in Clients : d # c => KvThread(d)'
        /\ KvApart'
    <3>1. KvLeaves(c, t, "copied", q)
      BY ONLY KvInv, c \in Clients, <2>1, <2>2, <2>6, <1>1, KvCopy
    <3> QED
      BY ONLY <3>1 DEF KvLeaves
  <2>8. ASSUME NEW i \in 1 .. store_count
        PROVE  /\ pairs'[i].key \in KvKeys
               /\ \A n \in 1 .. 2 : pairs'[i].val[n] \in {pairs'[i].key} \X KvValues
    <3>1. pairs'[i].key = pairs[i].key /\ pairs[i].key \in KvKeys
      BY <2>1, <2>7 DEF KvGood, KvPairs
    <3>2. pairs[i].val[1] \in {pairs[i].key} \X KvValues
          /\ pairs[i].val[2] \in {pairs[i].key} \X KvValues
      BY <2>1 DEF KvGood, KvPairs
    <3>3. CASE i = t
      <4>1. pairs'[i].val = <<x, pairs[t].val[2]>> /\ pairs[i].key = h[c].key
        BY <3>1, <3>3, <2>4, <2>7
      <4>2. x \in {pairs[i].key} \X KvValues
        BY <4>1, <1>2, <1>3
      <4> QED
        BY <3>1, <3>2, <3>3, <4>1, <4>2
    <3>4. CASE i # t
      BY <3>1, <3>2, <3>4, <2>7
    <3> QED
      BY <3>3, <3>4
  <2>9. ASSUME NEW i \in 1 .. store_count,
               \A d \in Clients : ~(h'[d].pc = "copied" /\ h'[d].slot = i)
        PROVE  pairs'[i].val = <<written[pairs'[i].key], written[pairs'[i].key]>>
    <3>1. i # t
      BY <2>7, <2>9
    <3>2. \A d \in Clients : ~(h[d].pc = "copied" /\ h[d].slot = i)
      BY <2>7, <2>9
    <3>3. pairs'[i] = pairs[i]
      BY <3>1, <2>7
    <3> QED
      BY <3>2, <3>3, <2>1 DEF KvGood, KvPairs
  <2>10. KvPairs'
    <3>1. store_count' = store_count /\ written' = written
      OBVIOUS
    <3>2. \A i, j \in 1 .. store_count : pairs'[i].key = pairs'[j].key => i = j
      BY <2>1, <2>7 DEF KvGood, KvPairs
    <3> QED
      BY <3>1, <3>2, <2>8, <2>9 DEF KvPairs
  <2>11. KvThread(c)'
    <3>1. pairs'[t].key = h[c].key /\ pairs'[t].val[1] = x
      BY <2>4, <2>7
    <3>2. h[c].new => t = store_count + 1 /\ \A i \in 1 .. store_count : pairs'[i].key # h[c].key
      BY <2>2, <2>7 DEF KvWriter
    <3>3. ~h[c].new => t <= store_count
      BY <2>2 DEF KvWriter
    <3>4. kind' # "dynamic" => lock' = c
      BY <2>2 DEF KvWriter
    <3>5. store_count' = store_count
      OBVIOUS
    <3>6. KvWriter(c)'
      BY ONLY <3>1, <3>2, <3>3, <3>4, <3>5, <2>7, <1>3 DEF KvWriter
    <3> QED
      BY <3>6, <2>7 DEF KvThread, KvReads
  <2>12. \A k \in acked' : KvKept(k)'
    BY <2>1, <2>7 DEF KvGood
  <2> QED
    BY <2>7, <2>10, <2>11, <2>12 DEF KvGood
<1> QED
  BY <1>8, <1>9, <1>10 DEF KvInv

LEMMA KvCopyFirst ==
  ASSUME KvInv, NEW c \in Clients, Servers!CopyFirst(c)
  PROVE  KvInv'
<1>1. h[c].pc = "copy" /\ KvWrites(c)
  BY DEF Servers!CopyFirst, KvWrites
<1>2. PICK s \in Servers!Targets(c), t \in Servers!Targets(c) :
        IF s > MAX_ITEMS[kind] \/ t > MAX_ITEMS[kind] THEN Servers!Overrun
        ELSE /\ pairs' = Servers!HalfCopied(c, s, t)
             /\ h' = [Servers!Overlap(t) EXCEPT ![c].pc = "copied", ![c].slot = t]
             /\ UNCHANGED <<kind, store_count, lock, acked, written, race>>
  BY DEF Servers!CopyFirst
<1>3. CASE s > MAX_ITEMS[kind] \/ t > MAX_ITEMS[kind]
  <2>1. race # "none"
    <3>1. race = "none" => s = h[c].slot /\ t = h[c].slot
      BY <1>1, KvTargets
    <3>2. h[c].slot \in 1 .. MAX_ITEMS[kind]
      BY <1>1, KvTargets
    <3> QED
      BY <3>1, <3>2, <1>3, KvTypes
  <2> QED
    BY <1>2, <1>3, <2>1, KvOverrun
<1>4. CASE ~(s > MAX_ITEMS[kind] \/ t > MAX_ITEMS[kind])
  <2>1. t <= MAX_ITEMS[kind]
    <3>1. t \in Nat
      BY <1>1, KvTargets
    <3> QED
      BY <3>1, <1>4, KvTypes
  <2>2. /\ pairs' = Servers!HalfCopied(c, s, t)
        /\ h' = [Servers!Overlap(t) EXCEPT ![c].pc = "copied", ![c].slot = t]
        /\ UNCHANGED <<kind, store_count, lock, acked, written, race>>
    BY <1>2, <1>4
  <2> QED
    BY ONLY KvInv, c \in Clients, s \in Servers!Targets(c), t \in Servers!Targets(c), <1>1, <2>1, <2>2, KvFirstHalf
<1> QED
  BY <1>3, <1>4

\* A cell of a value is copied in.
LEMMA KvHalves ==
  ASSUME NEW S, NEW v \in S \X S, NEW x \in S
  PROVE  /\ [v EXCEPT ![1] = x] = <<x, v[2]>> /\ [v EXCEPT ![2] = x] = <<v[1], x>>
         /\ v[1] \in S /\ v[2] \in S
OBVIOUS

\* The second half is copied, the pair counted and the lock given back.
LEMMA KvSecondHalf ==
  ASSUME KvInv, NEW c \in Clients, h[c].pc = "copied", NEW s, s = h[c].slot, NEW x, x = <<h[c].key, h[c].val>>,
         NEW n, n \in IF h[c].new THEN Servers!Targets(c) ELSE {store_count}, n <= MAX_ITEMS[kind],
         pairs' = [pairs EXCEPT ![s].val[2] = x], store_count' = n,
         lock' = IF lock = c THEN 0 ELSE lock,
         h' = [Servers!Overlap(s) EXCEPT ![c].pc = "ok"],
         written' = [written EXCEPT ![h[c].key] = x], UNCHANGED <<kind, acked, race>>
  PROVE  KvInv'
<1>1. KvWrites(c) /\ h[c] \in KvRecord
  BY KvTypes DEF KvWrites
<1>2. s \in 1 .. MAX_ITEMS[kind] /\ h[c].key \in KvKeys /\ h[c].val \in KvValues /\ s \in Nat /\ s # 0
  <2>1. s \in 1 .. MAX_ITEMS[kind] /\ h[c].key \in KvKeys /\ h[c].val \in KvValues
    BY <1>1, KvTargets
  <2> QED
    BY <2>1, KvTypes
<1>3. x \in Servers!Cell /\ written' \in [KvKeys -> Servers!Cell] /\ written'[h[c].key] = x
  <2>1. x \in Servers!Cell
    BY <1>2 DEF Servers!Cell
  <2> QED
    BY <2>1, <1>2, KvTypes
<1>4. n \in Nat
  <2>1. n \in Servers!Targets(c) \/ n = store_count
    OBVIOUS
  <2> QED
    BY <2>1, <1>1, KvTargets, KvTypes
<1>5. PICK k, v : k = pairs[s].key /\ v = pairs[s].val
  OBVIOUS
<1>6. v \in Servers!Cell \X Servers!Cell /\ k \in KvKeys \cup {0} /\ pairs[s] = [key |-> k, val |-> v]
  BY <1>2, <1>5, KvTypes DEF KvItem
<1>7. PICK q : q = [pairs[s] EXCEPT !.val[2] = x]
  OBVIOUS
<1>8. q = [key |-> k, val |-> <<v[1], x>>]
  <2>1. PICK o : o = pairs[s]
    OBVIOUS
  <2>2. q = [o EXCEPT !.val[2] = x] /\ o = [key |-> k, val |-> v]
    BY <2>1, <1>6, <1>7
  <2>3. q = [key |-> k, val |-> [v EXCEPT ![2] = x]]
    BY ONLY <2>2
  <2>4. [v EXCEPT ![2] = x] = <<v[1], x>>
    BY <1>3, <1>6, KvHalves
  <2> QED
    BY <2>3, <2>4
<1>9. pairs' = [pairs EXCEPT ![s] = q]
  BY <1>2, <1>7, KvTypes
<1>10. q \in KvItem /\ q.key = k /\ q.val = <<v[1], x>>
  <2>1. v[1] \in Servers!Cell
    BY <1>3, <1>6, KvHalves
  <2> QED
    BY <2>1, <1>3, <1>6, <1>8 DEF KvItem
<1>11. pairs' \in [1 .. MAX_ITEMS[kind] -> KvItem]
  BY <1>2, <1>9, <1>10, KvTypes
<1>12. h' \in [Clients -> KvRecord] /\ KvShifts(c, s, "ok") /\ \A d \in Clients : KvTyped(d)'
  <2>1. PICK f : f = Servers!Overlap(s)
    OBVIOUS
  <2>2. f \in [Clients -> KvRecord] /\ f[c] = h[c]
    BY <2>1, <1>1, KvUnmarked
  <2>3. PICK r : r = [h[c] EXCEPT !.pc = "ok"]
    OBVIOUS
  <2>4. h' = [f EXCEPT ![c].pc = "ok"]
    BY <2>1
  <2>5. h' = [f EXCEPT ![c] = r]
    BY ONLY <2>2, <2>3, <2>4, c \in Clients
  <2>6. r = KvShifted(c, s, "ok")
    <3>1. PICK a \in KvRecord : a = h[c]
      BY <1>1
    <3>2. r = [a EXCEPT !.pc = "ok"]
      BY <2>3, <3>1
    <3>3. r = [pc |-> "ok", key |-> a.key, val |-> a.val, slot |-> a.slot, new |-> a.new, out |-> a.out,
               overlapped |-> a.overlapped, gone |-> a.gone]
      BY ONLY <3>2, a \in KvRecord DEF KvRecord
    <3>4. a.slot = s
      BY <3>1
    <3> QED
      BY ONLY <3>1, <3>3, <3>4 DEF KvShifted
  <2>7. h' = [Servers!Overlap(s) EXCEPT ![c] = r]
    BY ONLY <2>1, <2>5
  <2>8. s \in 1 .. MAX_ITEMS[kind]
    BY <1>2
  <2> QED
    BY ONLY KvInv, c \in Clients, <1>1, <2>6, <2>7, <2>8, KvOverlap
<1>13. KvBase'
  <2>1. /\ kind' = kind /\ store_count' \in Nat /\ store_count' <= MAX_ITEMS[kind]
        /\ lock' \in Clients \cup {0} /\ acked' \subseteq KvKeys
        /\ race' \in {"none", "clash", "wild"}
    BY <1>4, KvTypes
  <2> QED
    BY ONLY KvInv, <1>3, <1>11, <1>12, <2>1, KvTypesHold
<1>14. kind' # "dynamic" => race' = "none"
  BY DEF KvInv
<1>15. ASSUME race' = "none"
       PROVE  KvGood'
  <2>1. race = "none" /\ KvGood
    BY <1>15 DEF KvInv
  <2>2. Servers!Targets(c) = {s} /\ KvWriter(c)
    BY <2>1, <1>1, KvTargets
  <2>3. k = h[c].key /\ v[1] = x
    BY <2>2, <1>5 DEF KvWriter
  <2>4. q.key = h[c].key /\ q.val = <<x, x>>
    BY <2>3, <1>10
  <2>5. store_count' \in {store_count, s} /\ store_count' >= store_count /\ store_count' >= s
    <3>1. CASE h[c].new
      <4>1. n = s
        BY <3>1, <2>2
      <4>2. s = store_count + 1
        BY <3>1, <2>2 DEF KvWriter
      <4> QED
        BY <4>1, <4>2, <1>2, KvTypes
    <3>2. CASE ~h[c].new
      <4>1. n = store_count
        BY <3>2
      <4>2. s <= store_count
        BY <3>2, <2>2 DEF KvWriter
      <4> QED
        BY <4>1, <4>2, <1>2, KvTypes
    <3> QED
      BY <3>1, <3>2
  <2>6. KvLeaves(c, s, "ok", q)
    <3>1. \A j \in KvKeys : j # h[c].key => written'[j] = written[j]
      BY KvTypes
    <3>2. kind' = kind /\ store_count' \in Nat /\ (lock' = lock \/ kind = "dynamic" \/ lock = c)
      BY <1>4
    <3>3. KvCopies(c, s, "ok", q)
      BY ONLY <3>1, <3>2, <2>4, <2>5, <1>9, <1>10, <1>12 DEF KvCopies
    <3> QED
      BY ONLY KvInv, c \in Clients, s = h[c].slot, <2>1, <3>3, <1>1, KvCopy
  <2>7. /\ pairs'[s] = q
        /\ \A i \in 1 .. store_count : i # s => pairs'[i] = pairs[i] /\ pairs[i].key # h[c].key
        /\ \A i \in 1 .. store_count' : i = s \/ i \in 1 .. store_count
        /\ h'[c].pc = "ok" /\ h'[c].key = h[c].key
        /\ \A d \in Clients : d # c => h'[d].pc = h[d].pc /\ h'[d].slot = h[d].slot
        /\ \A j : KvKept(j) => KvKept(j)'
        /\ \A d \in Clients : d # c => KvThread(d)'
        /\ KvApart'
    BY ONLY <2>6 DEF KvLeaves
  <2>8. ASSUME NEW i \in 1 .. store_count'
        PROVE  /\ pairs'[i].key \in KvKeys
               /\ \A m \in 1 .. 2 : pairs'[i].val[m] \in {pairs'[i].key} \X KvValues
               /\ (\A d \in Clients : ~(h'[d].pc = "copied" /\ h'[d].slot = i)) =>
                     pairs'[i].val = <<written'[pairs'[i].key], written'[pairs'[i].key]>>
    <3>1. CASE i = s
      <4>1. pairs'[i].key = h[c].key /\ pairs'[i].val = <<x, x>>
        BY <3>1, <2>4, <2>7
      <4>2. x \in {h[c].key} \X KvValues
        BY <1>2
      <4> QED
        BY <4>1, <4>2, <1>2, <1>3
    <3>2. CASE i # s
      <4>1. i \in 1 .. store_count /\ pairs'[i] = pairs[i] /\ pairs[i].key # h[c].key
        BY <3>2, <2>7
      <4>2. /\ pairs[i].key \in KvKeys
            /\ \A m \in 1 .. 2 : pairs[i].val[m] \in {pairs[i].key} \X KvValues
        BY <4>1, <2>1 DEF KvGood, KvPairs
      <4>3. written'[pairs[i].key] = written[pairs[i].key]
        BY <4>1, <4>2, KvTypes
      <4>4. ASSUME \A d \in Clients : ~(h'[d].pc = "copied" /\ h'[d].slot = i)
            PROVE  pairs[i].val = <<written[pairs[i].key], written[pairs[i].key]>>
        <5>1. \A d \in Clients : ~(h[d].pc = "copied" /\ h[d].slot = i)
          BY <4>4, <3>2, <2>7
        <5> QED
          BY <5>1, <4>1, <2>1 DEF KvGood, KvPairs
      <4> QED
        BY ONLY <4>1, <4>2, <4>3, <4>4
    <3> QED
      BY <3>1, <3>2
  <2>9. ASSUME NEW i \in 1 .. store_count', NEW j \in 1 .. store_count',
               pairs'[i].key = pairs'[j].key
        PROVE  i = j
    <3>1. CASE i = s /\ j # s
      <4>1. pairs'[i].key = h[c].key
        BY <3>1, <2>4, <2>7
      <4>2. pairs'[j] = pairs[j] /\ pairs[j].key # h[c].key
        BY <3>1, <2>7
      <4> QED
        BY <4>1, <4>2, <2>9
    <3>2. CASE i # s /\ j = s
      <4>1. pairs'[j].key = h[c].key
        BY <3>2, <2>4, <2>7
      <4>2. pairs'[i] = pairs[i] /\ pairs[i].key # h[c].key
        BY <3>2, <2>7
      <4> QED
        BY <4>1, <4>2, <2>9
    <3>3. CASE i # s /\ j # s
      <4>1. /\ i \in 1 .. store_count /\ j \in 1 .. store_count
            /\ pairs'[i] = pairs[i] /\ pairs'[j] = pairs[j]
        BY <3>3, <2>7
      <4> QED
        BY <4>1, <2>1, <2>9 DEF KvGood, KvPairs
    <3> QED
      BY <3>1, <3>2, <3>3
  <2>10. KvPairs'
    BY <2>8, <2>9 DEF KvPairs
  <2>11. KvThread(c)'
    <3>1. s \in 1 .. store_count'
      <4>1. store_count' \in Nat
        BY <1>4
      <4> QED
        BY ONLY <4>1, <1>2, <2>5
    <3>2. pairs'[s].key = h'[c].key
      BY ONLY <2>4, <2>7
    <3>3. KvKept(h[c].key)'
      BY ONLY <3>1, <3>2 DEF KvKept
    <3> QED
      BY ONLY <3>3, <2>7 DEF KvThread, KvReads, KvWrites
  <2>12. \A j \in acked' : KvKept(j)'
    BY <2>1, <2>7 DEF KvGood
  <2> QED
    BY <2>7, <2>10, <2>11, <2>12 DEF KvGood
<1> QED
  BY <1>13, <1>14, <1>15 DEF KvInv

LEMMA KvCopySecond ==
  ASSUME KvInv, NEW c \in Clients, Servers!CopySecond(c)
  PROVE  KvInv'
<1>1. h[c].pc = "copied" /\ KvWrites(c)
  BY DEF Servers!CopySecond, KvWrites
<1>2. PICK s, x : s = h[c].slot /\ x = <<h[c].key, h[c].val>>
  OBVIOUS
<1>3. PICK n \in IF h[c].new THEN Servers!Targets(c) ELSE {store_count} :
        IF n > MAX_ITEMS[kind] THEN Servers!Overrun
        ELSE /\ pairs' = [pairs EXCEPT ![s].val[2] = x]
             /\ store_count' = n
             /\ lock' = IF lock = c THEN 0 ELSE lock
             /\ h' = [Servers!Overlap(s) EXCEPT ![c].pc = "ok"]
             /\ written' = [written EXCEPT ![h[c].key] = x]
             /\ UNCHANGED <<kind, acked, race>>
  BY <1>2 DEF Servers!CopySecond, Servers!Given, Servers!Nobody
<1>4. n \in Nat /\ (race = "none" => n <= MAX_ITEMS[kind])
  <2>1. n \in Servers!Targets(c) \/ n = store_count
    BY <1>3
  <2>2. \A m \in Servers!Targets(c) : m \in Nat
    BY <1>1, KvTargets
  <2>3. race = "none" => Servers!Targets(c) = {h[c].slot}
    BY <1>1, KvTargets
  <2>4. h[c].slot \in 1 .. MAX_ITEMS[kind]
    BY <1>1, KvTargets
  <2> QED
    BY <2>1, <2>2, <2>3, <2>4, KvTypes
<1>5. CASE n > MAX_ITEMS[kind]
  <2>1. race # "none"
    BY <1>4, <1>5, KvTypes
  <2> QED
    BY <1>3, <1>5, <2>1, KvOverrun
<1>6. CASE ~(n > MAX_ITEMS[kind])
  <2>1. n <= MAX_ITEMS[kind]
    BY <1>4, <1>6, KvTypes
  <2>2. /\ pairs' = [pairs EXCEPT ![s].val[2] = x]
        /\ store_count' = n
        /\ lock' = IF lock = c THEN 0 ELSE lock
        /\ h' = [Servers!Overlap(s) EXCEPT ![c].pc = "ok"]
        /\ written' = [written EXCEPT ![h[c].key] = x]
        /\ UNCHANGED <<kind, acked, race>>
    BY <1>3, <1>6
  <2>3. n \in IF h[c].new THEN Servers!Targets(c) ELSE {store_count}
    OBVIOUS
  <2> QED
    BY ONLY KvInv, c \in Clients, <1>1, <1>2, <2>1, <2>2, <2>3, KvSecondHalf
<1> QED
  BY <1>5, <1>6

\* A step of a thread that neither wrote nor will.
LEMMA KvStoreLeft ==
  ASSUME KvInv, NEW c \in Clients, NEW r \in KvRecord,
         UNCHANGED <<kind, pairs, store_count, lock, written, race>>,
         h' = [h EXCEPT ![c] = r], KvTyped(c)', acked' \subseteq KvKeys,
         race = "none" => \A k \in acked' : KvKept(k),
         h[c].pc # "copied", ~(r.pc \in {"copy", "copied"}),
         race = "none" => KvThread(c)'
  PROVE  KvInv'
<1>1. lock' \in Clients \cup {0} /\ race' \in {race, "clash"} /\ race' = race
  BY KvTypes
<1>2. race = "none" => KvMoves(c, r)
  BY DEF KvMoves
<1> QED
  BY <1>1, <1>2, KvOwnStep

\* get_value looks for the slot.
LEMMA KvGetFind ==
  ASSUME KvInv, NEW c \in Clients, NEW locks, Servers!GetFind(c, locks)
  PROVE  KvInv'
<1>1. KvTyped(c) /\ h[c].pc = "get" /\ h[c] \in KvRecord
  BY KvTypes DEF KvInv, KvBase, Servers!GetFind
<1>2. PICK s : s = Servers!SlotOf(h[c].key)
  OBVIOUS
<1>3. PICK b \in BOOLEAN : b = \E d \in Clients : h[d].pc = "copied" /\ h[d].slot = s
  OBVIOUS
<1>4. /\ h' = [h EXCEPT ![c].slot = s, ![c].pc = IF s = 0 THEN "value" ELSE "send",
                        ![c].overlapped = b]
      /\ UNCHANGED <<kind, pairs, store_count, lock, acked, written, race>>
  BY <1>2, <1>3 DEF Servers!GetFind, Servers!NULL
<1>5. s \in 0 .. MAX_ITEMS[kind] /\ (s # 0 => s \in 1 .. store_count /\ pairs[s].key = h[c].key)
  BY <1>2, KvSlotOf, KvTypes
<1>6. PICK l : l = IF s = 0 THEN "value" ELSE "send"
  OBVIOUS
<1>7. PICK r : r = [h[c] EXCEPT !.slot = s, !.pc = l, !.overlapped = b]
  OBVIOUS
<1>8. /\ r = [pc |-> l, key |-> h[c].key, val |-> h[c].val, slot |-> s, new |-> h[c].new, out |-> h[c].out,
              overlapped |-> b, gone |-> h[c].gone]
      /\ r \in KvRecord
  <2>1. r = [pc |-> l, key |-> h[c].key, val |-> h[c].val, slot |-> s, new |-> h[c].new, out |-> h[c].out,
             overlapped |-> b, gone |-> h[c].gone]
    <3>1. PICK a \in KvRecord : a = h[c]
      BY <1>1
    <3>2. r = [a EXCEPT !.slot = s, !.pc = l, !.overlapped = b]
      BY ONLY <1>7, <3>1
    <3>3. r = [pc |-> l, key |-> a.key, val |-> a.val, slot |-> s, new |-> a.new, out |-> a.out,
               overlapped |-> b, gone |-> a.gone]
      BY ONLY a \in KvRecord, <3>2 DEF KvRecord
    <3> QED
      BY ONLY <3>1, <3>3
  <2> QED
    BY <2>1, <1>1, <1>5, <1>6 DEF KvRecord
<1>9. h' = [h EXCEPT ![c] = r]
  BY <1>4, <1>6, <1>7, KvTypes
<1>10. /\ h'[c].pc = l /\ h'[c].slot = s /\ h'[c].key = h[c].key /\ h'[c].overlapped = b
  BY <1>8, <1>9, KvTypes
<1>11. KvTyped(c)'
  BY <1>1, <1>6, <1>10 DEF KvTyped
<1>12. ASSUME race = "none"
       PROVE  KvThread(c)'
  <2>0. KvGood
    BY <1>12 DEF KvInv
  <2>1. CASE s = 0
    BY <2>1, <1>4, <1>6, <1>10 DEF KvThread, KvWrites, KvReads
  <2>2. CASE s # 0
    <3>1. h'[c].pc = "send" /\ h[c].key \in KvKeys
      BY <2>2, <1>1, <1>6, <1>10 DEF KvTyped
    <3>2. ASSUME ~b
          PROVE  pairs[s].val = <<written[h[c].key], written[h[c].key]>>
      <4>1. \A d \in Clients : ~(h[d].pc = "copied" /\ h[d].slot = s)
        BY <3>2, <1>3
      <4> QED
        BY <4>1, <2>0, <2>2, <1>5 DEF KvGood, KvPairs
    <3>3. KvReader(c)'
      <4>1. ~h'[c].overlapped =>
              pairs'[h'[c].slot].val = <<written'[h'[c].key], written'[h'[c].key]>>
        BY <3>2, <1>4, <1>10
      <4> QED
        BY <2>2, <3>1, <4>1, <1>4, <1>5, <1>10 DEF KvReader
    <3> QED
      BY <3>1, <3>3 DEF KvThread, KvWrites
  <2> QED
    BY <2>1, <2>2
<1>13. UNCHANGED <<kind, pairs, store_count, lock, written, race>>
  BY <1>4
<1>14. acked' \subseteq KvKeys /\ (race = "none" => \A k \in acked' : KvKept(k))
  BY <1>4, KvTypes DEF KvInv, KvGood
<1>15. h[c].pc # "copied" /\ ~(r.pc \in {"copy", "copied"})
  BY <1>1, <1>6, <1>8
<1> QED
  BY ONLY KvInv, c \in Clients, <1>8, <1>9, <1>11, <1>12, <1>13, <1>14, <1>15, KvStoreLeft

\* dprintf sends a half.
LEMMA KvSendHalf ==
  ASSUME KvInv, NEW c \in Clients, NEW i \in 1 .. 2, NEW from, NEW to,
         <<i, from, to>> \in {<<1, "send", "sent">>, <<2, "sent", "value">>},
         Servers!SendHalf(c, i, from, to)
  PROVE  KvInv'
<1>1. KvTyped(c) /\ h[c].pc = from /\ h[c] \in KvRecord
  BY KvTypes DEF KvInv, KvBase, Servers!SendHalf
<1>2. \/ i = 1 /\ from = "send" /\ to = "sent"
      \/ i = 2 /\ from = "sent" /\ to = "value"
  OBVIOUS
<1>3. PICK s : s = h[c].slot
  OBVIOUS
<1>4. s \in 1 .. MAX_ITEMS[kind] /\ s # 0
  <2>1. s # 0 /\ s \in 0 .. MAX_ITEMS[kind]
    BY <1>1, <1>2, <1>3 DEF KvTyped, KvRecord
  <2> QED
    BY <2>1, KvTypes
<1>6. PICK x : x = pairs[s].val[i]
  OBVIOUS
<1>7. /\ h' = [h EXCEPT ![c].out[i] = x, ![c].pc = to]
      /\ UNCHANGED <<kind, pairs, store_count, lock, acked, written, race>>
  BY <1>3, <1>6 DEF Servers!SendHalf
<1>9. x \in Servers!Cell
  <2>1. pairs[s].val \in Servers!Cell \X Servers!Cell
    BY <1>4, KvTypes DEF KvItem
  <2> QED
    BY <2>1, <1>2, <1>6
<1>10. PICK o : o = h[c].out
  OBVIOUS
<1>11. o \in Servers!Cell \X Servers!Cell
  BY <1>1, <1>10 DEF KvRecord
<1>12. PICK n : n = [o EXCEPT ![i] = x]
  OBVIOUS
<1>13. /\ n \in Servers!Cell \X Servers!Cell
       /\ i = 1 => n = <<x, o[2]>>
       /\ i = 2 => n = <<o[1], x>>
  BY <1>2, <1>9, <1>11, <1>12, KvHalves
<1>14. PICK r : r = [h[c] EXCEPT !.out[i] = x, !.pc = to]
  OBVIOUS
<1>15. /\ r = [pc |-> to, key |-> h[c].key, val |-> h[c].val, slot |-> s, new |-> h[c].new, out |-> n,
               overlapped |-> h[c].overlapped, gone |-> h[c].gone]
       /\ r \in KvRecord
  <2>1. r = [pc |-> to, key |-> h[c].key, val |-> h[c].val, slot |-> s, new |-> h[c].new, out |-> n,
             overlapped |-> h[c].overlapped, gone |-> h[c].gone]
    <3>1. PICK a \in KvRecord : a = h[c]
      BY <1>1
    <3>2. n = [a.out EXCEPT ![i] = x] /\ r = [a EXCEPT !.out[i] = x, !.pc = to]
      BY <3>1, <1>10, <1>12, <1>14
    <3>3. r = [pc |-> to, key |-> a.key, val |-> a.val, slot |-> a.slot, new |-> a.new, out |-> n,
               overlapped |-> a.overlapped, gone |-> a.gone]
      BY ONLY <3>2, a \in KvRecord DEF KvRecord
    <3> QED
      BY <3>1, <3>3, <1>3
  <2> QED
    BY <2>1, <1>1, <1>2, <1>3, <1>13 DEF KvRecord
<1>16. h' = [h EXCEPT ![c] = r]
  BY <1>7, <1>14, KvTypes
<1>17. /\ h'[c].pc = to /\ h'[c].slot = s /\ h'[c].key = h[c].key /\ h'[c].out = n
       /\ h'[c].overlapped = h[c].overlapped
  BY <1>15, <1>16, KvTypes
<1>18. ASSUME race = "none"
       PROVE  KvThread(c)'
  <2>1. KvGood
    BY <1>18 DEF KvInv
  <2>2. KvReads(c) /\ KvReader(c)
    BY <1>1, <1>2, <2>1 DEF KvGood, KvThread, KvReads
  <2>3. x \in {h[c].key} \X KvValues /\ h[c].key \in KvKeys /\ pairs[s].key = h[c].key
        /\ s \in 1 .. store_count
    BY <2>1, <2>2, <1>3, <1>6 DEF KvGood, KvPairs, KvReader
  <2>4. ASSUME ~h[c].overlapped
        PROVE  x = written[h[c].key] /\ pairs[s].val = <<written[h[c].key], written[h[c].key]>>
    BY <1>2, <1>3, <1>6, <2>2, <2>4 DEF KvReader
  <2>5. KvReader(c)'
    <3>1. CASE i = 1
      <4>1. to = "sent" /\ n[1] = x
        BY <3>1, <1>2, <1>13
      <4>2. ~h'[c].overlapped =>
              /\ pairs'[h'[c].slot].val = <<written'[h'[c].key], written'[h'[c].key]>>
              /\ h'[c].out[1] = written'[h'[c].key]
        BY <4>1, <1>7, <1>17, <2>4
      <4> QED
        BY <4>1, <4>2, <1>7, <1>17, <2>3 DEF KvReader
    <3>2. CASE i = 2
      <4>1. to = "value" /\ n[1] = o[1] /\ n[2] = x
        BY <3>2, <1>2, <1>13
      <4>2. /\ o[1] \in {h[c].key} \X KvValues
            /\ ~h[c].overlapped => o[1] = written[h[c].key]
        BY <3>2, <1>1, <1>2, <1>10, <2>2 DEF KvReader
      <4>3. ~h'[c].overlapped =>
              /\ pairs'[h'[c].slot].val = <<written'[h'[c].key], written'[h'[c].key]>>
              /\ h'[c].out[1] = written'[h'[c].key] /\ h'[c].out[2] = written'[h'[c].key]
        BY <4>1, <4>2, <1>7, <1>17, <2>4
      <4> QED
        BY <4>1, <4>2, <4>3, <1>7, <1>17, <2>3 DEF KvReader
    <3> QED
      BY <3>1, <3>2
  <2> QED
    BY <1>2, <1>17, <2>5 DEF KvThread, KvWrites
<1>19. KvTyped(c)'
  BY <1>2, <1>4, <1>17 DEF KvTyped
<1>20. UNCHANGED <<kind, pairs, store_count, lock, written, race>>
  BY <1>7
<1>21. acked' \subseteq KvKeys /\ (race = "none" => \A k \in acked' : KvKept(k))
  BY <1>7, KvTypes DEF KvInv, KvGood
<1>22. h[c].pc # "copied" /\ ~(r.pc \in {"copy", "copied"})
  BY <1>1, <1>2, <1>15
<1> QED
  BY ONLY KvInv, c \in Clients, <1>15, <1>16, <1>18, <1>19, <1>20, <1>21, <1>22, KvStoreLeft

\* A step after which the thread has nothing to do with the store.
LEMMA KvQuiet ==
  ASSUME KvInv, NEW c \in Clients, NEW r \in KvRecord,
         UNCHANGED <<kind, pairs, store_count, lock, written, race>>,
         h' = [h EXCEPT ![c] = r], h[c].pc # "copied",
         r.pc \in {"closed", "hello", "read", "error", "bye"}, acked' \subseteq KvKeys,
         race = "none" => \A k \in acked' : KvKept(k)
  PROVE  KvInv'
<1>1. h'[c] = r
  BY KvTypes
<1>2. KvThread(c)' /\ KvTyped(c)'
  BY <1>1 DEF KvThread, KvTyped, KvWrites, KvReads
<1>3. ~(r.pc \in {"copy", "copied"})
  OBVIOUS
<1> QED
  BY <1>2, <1>3, KvStoreLeft

\* Everything is as it was when the server started.
LEMMA KvStarts ==
  /\ Servers!Init => KvInv
  /\ KvInv /\ Servers!Started /\ UNCHANGED kind => KvInv'
<1> USE CoreAssumption DEF CoreAssumption, Servers!ConstantsOK
<1>1. Servers!Blank \in Servers!Cell
  BY DEF Servers!Cell
<1>2. Servers!Idle = [pc |-> "closed", key |-> 0, val |-> 0, slot |-> 0, new |-> FALSE,
                      out |-> <<Servers!Blank, Servers!Blank>>, overlapped |-> FALSE, gone |-> FALSE]
  BY DEF Servers!Idle, Servers!NULL
<1>3. ASSUME Servers!Init
      PROVE  KvInv
  <2>1. /\ kind \in {"shared", "static", "dynamic"} /\ MAX_ITEMS[kind] \in Nat
        /\ pairs = [i \in 1 .. MAX_ITEMS[kind] |-> [key |-> 0, val |-> <<Servers!Blank, Servers!Blank>>]]
        /\ store_count = 0 /\ lock = 0 /\ h = [c \in Clients |-> Servers!Idle]
        /\ acked = {} /\ written = [k \in KvKeys |-> Servers!Blank] /\ race = "none"
    BY <1>3 DEF Servers!Init, Servers!Nobody
  <2>2. \A c \in Clients : h[c].pc = "closed"
    BY <1>2, <2>1
  <2>3. (\A c \in Clients : KvThread(c) /\ KvTyped(c)) /\ KvApart
    BY <2>2 DEF KvThread, KvTyped, KvWrites, KvReads, KvApart
  <2>4. KvPairs
    BY <2>1 DEF KvPairs
  <2>5. Servers!TypeOK
    <3>1. Servers!Idle \in KvRecord
      BY <1>1, <1>2, <2>1 DEF KvRecord
    <3> QED
      BY <1>1, <2>1, <3>1 DEF Servers!TypeOK, KvRecord, Servers!Nobody
  <2> QED
    BY <1>1, <2>1, <2>3, <2>4, <2>5 DEF KvInv, KvBase, KvGood
<1>4. ASSUME KvInv, Servers!Started, UNCHANGED kind
      PROVE  KvInv'
  <2>1. /\ kind' \in {"shared", "static", "dynamic"} /\ MAX_ITEMS[kind'] \in Nat
        /\ pairs' = [i \in 1 .. MAX_ITEMS[kind'] |-> [key |-> 0, val |-> <<Servers!Blank, Servers!Blank>>]]
        /\ store_count' = 0 /\ lock' = 0 /\ h' = [c \in Clients |-> Servers!Idle]
        /\ acked' = {} /\ written' = [k \in KvKeys |-> Servers!Blank] /\ race' = "none"
    BY <1>4, KvTypes DEF Servers!Started, Servers!Nobody
  <2>2. \A c \in Clients : h'[c].pc = "closed"
    BY <1>2, <2>1
  <2>3. (\A c \in Clients : KvThread(c)' /\ KvTyped(c)') /\ KvApart'
    BY <2>2 DEF KvThread, KvTyped, KvWrites, KvReads, KvApart
  <2>4. KvPairs'
    BY <2>1 DEF KvPairs
  <2>5. Servers!TypeOK'
    <3>1. Servers!Idle \in KvRecord'
      BY <1>1, <1>2, <2>1 DEF KvRecord
    <3> QED
      BY <1>1, <2>1, <3>1 DEF Servers!TypeOK, KvRecord, Servers!Nobody
  <2> QED
    BY <1>1, <2>1, <2>3, <2>4, <2>5 DEF KvInv, KvBase, KvGood
<1> QED
  BY <1>3, <1>4

\* An answer is written, or the server ends with the client gone.
LEMMA KvAnswer ==
  ASSUME KvInv, NEW c \in Clients, Servers!Answer(c)
  PROVE  KvInv'
<1>1. CASE h[c].gone
  <2>1. Servers!Started /\ UNCHANGED kind
    BY <1>1 DEF Servers!Answer
  <2> QED
    BY <2>1, KvStarts
<1>2. CASE ~h[c].gone
  <2>1. /\ h[c].pc \in {"hello", "ok", "value", "error"}
        /\ h' = [h EXCEPT ![c] = [Servers!Idle EXCEPT !.pc = "read"]]
        /\ acked' = IF h[c].pc = "ok" THEN acked \cup {h[c].key} ELSE acked
        /\ UNCHANGED <<kind, pairs, store_count, lock, written, race>>
    BY <1>2 DEF Servers!Answer
  <2>2. PICK r : r = [Servers!Idle EXCEPT !.pc = "read"]
    OBVIOUS
  <2>3. r.pc = "read" /\ r \in KvRecord
    <3>1. r = [pc |-> "read", key |-> 0, val |-> 0, slot |-> 0, new |-> FALSE,
               out |-> <<Servers!Blank, Servers!Blank>>, overlapped |-> FALSE, gone |-> FALSE]
      BY <2>2 DEF Servers!Idle, Servers!NULL
    <3> QED
      BY <3>1, KvTypes DEF KvRecord, Servers!Cell
  <2>4. h' = [h EXCEPT ![c] = r] /\ h[c].pc # "copied"
    BY <2>1, <2>2
  <2>7. acked' \subseteq KvKeys /\ (race = "none" => \A k \in acked' : KvKept(k))
    <3>1. KvTyped(c) /\ (race = "none" => KvThread(c) /\ \A k \in acked : KvKept(k))
      BY DEF KvInv, KvBase, KvGood
    <3> QED
      BY <2>1, <3>1, KvTypes DEF KvTyped, KvThread
  <2>8. UNCHANGED <<kind, pairs, store_count, lock, written, race>>
    BY <2>1
  <2>9. r.pc \in {"closed", "hello", "read", "error", "bye"}
    BY <2>3
  <2> QED
    BY <2>3, <2>4, <2>7, <2>8, <2>9, KvQuiet
<1> QED
  BY <1>1, <1>2

\* A connection is closed.
LEMMA KvClose ==
  ASSUME KvInv, NEW c \in Clients, Servers!Close(c)
  PROVE  KvInv'
<1>1. /\ h[c].pc \in {"read", "bye"} /\ h' = [h EXCEPT ![c] = Servers!Idle]
      /\ UNCHANGED <<kind, pairs, store_count, lock, acked, written, race>>
  BY DEF Servers!Close
<1>2. Servers!Idle.pc = "closed" /\ Servers!Idle \in KvRecord
  BY KvTypes DEF Servers!Idle, KvRecord, Servers!Cell, Servers!NULL
<1>3. acked' \subseteq KvKeys /\ (race = "none" => \A k \in acked' : KvKept(k))
  BY <1>1, KvTypes DEF KvInv, KvGood
<1>4. UNCHANGED <<kind, pairs, store_count, lock, written, race>> /\ h[c].pc # "copied"
  BY <1>1
<1> QED
  BY <1>1, <1>2, <1>3, <1>4, KvQuiet

\* A thread is made for a connection.
LEMMA KvAccept ==
  ASSUME KvInv, NEW c \in Clients, Servers!Accept(c)
  PROVE  KvInv'
<1>1. /\ h[c].pc = "closed" /\ h' = [h EXCEPT ![c].pc = "hello"]
      /\ UNCHANGED <<kind, pairs, store_count, lock, acked, written, race>>
  BY DEF Servers!Accept, Servers!Goto
<1>2. PICK r : r = [h[c] EXCEPT !.pc = "hello"]
  OBVIOUS
<1>3. r \in KvRecord /\ r.pc = "hello" /\ h' = [h EXCEPT ![c] = r]
  <2>1. h[c] \in KvRecord
    BY KvTypes
  <2>2. r \in KvRecord /\ r.pc = "hello"
    BY ONLY <2>1, <1>2 DEF KvRecord
  <2> QED
    BY <2>2, <1>1, <1>2, KvTypes
<1>4. acked' \subseteq KvKeys /\ (race = "none" => \A k \in acked' : KvKept(k))
  BY <1>1, KvTypes DEF KvInv, KvGood
<1>5. UNCHANGED <<kind, pairs, store_count, lock, written, race>> /\ h[c].pc # "copied"
  BY <1>1
<1> QED
  BY <1>3, <1>4, <1>5, KvQuiet

\* A request arrives.
LEMMA KvRequest ==
  ASSUME KvInv, NEW c \in Clients, Servers!Request(c)
  PROVE  KvInv'
<1>1. h[c].pc = "read" /\ h[c] \in KvRecord
  BY KvTypes DEF Servers!Request
<1>2. UNCHANGED <<kind, pairs, store_count, lock, acked, written, race>>
  BY DEF Servers!Request
<1>3. acked' \subseteq KvKeys /\ (race = "none" => \A k \in acked' : KvKept(k))
  BY <1>2, KvTypes DEF KvInv, KvGood
<1>4. UNCHANGED <<kind, pairs, store_count, lock, written, race>> /\ h[c].pc # "copied"
  BY <1>1, <1>2
<1>5. ASSUME NEW k \in KvKeys, NEW v \in KvValues,
             h' = [h EXCEPT ![c].pc = "set", ![c].key = k, ![c].val = v]
      PROVE  KvInv'
  <2>1. PICK r : r = [h[c] EXCEPT !.pc = "set", !.key = k, !.val = v]
    OBVIOUS
  <2>2. r \in KvRecord /\ r.pc = "set" /\ r.key = k /\ r.val = v
    BY <1>1, <2>1 DEF KvRecord
  <2>3. h' = [h EXCEPT ![c] = r] /\ h'[c] = r
    BY <1>5, <2>1, KvTypes
  <2>4. KvThread(c)' /\ KvTyped(c)'
    BY <2>2, <2>3 DEF KvThread, KvTyped, KvWrites, KvReads
  <2>5. ~(r.pc \in {"copy", "copied"})
    BY <2>2
  <2> QED
    BY <1>3, <1>4, <2>2, <2>3, <2>4, <2>5, KvStoreLeft
<1>6. ASSUME NEW k \in KvKeys, h' = [h EXCEPT ![c].pc = "get", ![c].key = k]
      PROVE  KvInv'
  <2>1. PICK r : r = [h[c] EXCEPT !.pc = "get", !.key = k]
    OBVIOUS
  <2>2. r \in KvRecord /\ r.pc = "get" /\ r.key = k
    BY <1>1, <2>1 DEF KvRecord
  <2>3. h' = [h EXCEPT ![c] = r] /\ h'[c] = r
    BY <1>6, <2>1, KvTypes
  <2>4. KvThread(c)' /\ KvTyped(c)'
    BY <2>2, <2>3 DEF KvThread, KvTyped, KvWrites, KvReads
  <2>5. ~(r.pc \in {"copy", "copied"})
    BY <2>2
  <2> QED
    BY <1>3, <1>4, <2>2, <2>3, <2>4, <2>5, KvStoreLeft
<1>7. ASSUME NEW l \in {"error", "bye"}, h' = [h EXCEPT ![c].pc = l]
      PROVE  KvInv'
  <2>1. PICK r : r = [h[c] EXCEPT !.pc = l]
    OBVIOUS
  <2>2. r \in KvRecord /\ r.pc = l /\ r.pc \in {"closed", "hello", "read", "error", "bye"}
    BY <1>1, <2>1 DEF KvRecord
  <2>3. h' = [h EXCEPT ![c] = r]
    BY <1>7, <2>1, KvTypes
  <2> QED
    BY <1>3, <1>4, <2>2, <2>3, KvQuiet
<1> QED
  BY <1>5, <1>6, <1>7 DEF Servers!Request, Servers!Goto

\* A client goes away.
LEMMA KvLeave ==
  ASSUME KvInv, NEW c \in Clients, Servers!Leave(c)
  PROVE  KvInv'
<1>1. /\ h' = [h EXCEPT ![c].gone = TRUE] /\ h[c] \in KvRecord
      /\ UNCHANGED <<kind, pairs, store_count, lock, acked, written, race>>
  BY KvTypes DEF Servers!Leave
<1>2. PICK r : r = [h[c] EXCEPT !.gone = TRUE]
  OBVIOUS
<1>3. r = [pc |-> h[c].pc, key |-> h[c].key, val |-> h[c].val, slot |-> h[c].slot, new |-> h[c].new,
           out |-> h[c].out, overlapped |-> h[c].overlapped, gone |-> TRUE]
  <2>1. PICK a \in KvRecord : a = h[c]
    BY <1>1
  <2>2. r = [a EXCEPT !.gone = TRUE]
    BY ONLY <1>2, <2>1
  <2>3. r = [pc |-> a.pc, key |-> a.key, val |-> a.val, slot |-> a.slot, new |-> a.new,
             out |-> a.out, overlapped |-> a.overlapped, gone |-> TRUE]
    BY ONLY a \in KvRecord, <2>2 DEF KvRecord
  <2> QED
    BY ONLY <2>1, <2>3
<1>4. r \in KvRecord
  BY <1>1, <1>3 DEF KvRecord
<1>5. h' = [h EXCEPT ![c] = r] /\ h'[c] = r
  BY <1>1, <1>2, KvTypes
<1>6. PICK b \in BOOLEAN, o \in BOOLEAN : b = h[c].new /\ o = h[c].overlapped
  BY <1>1 DEF KvRecord
<1>7. /\ h'[c].pc = h[c].pc /\ h'[c].key = h[c].key /\ h'[c].val = h[c].val
      /\ h'[c].slot = h[c].slot /\ h'[c].out = h[c].out /\ h'[c].new = b /\ h'[c].overlapped = o
  BY <1>3, <1>5, <1>6
<1>8. KvTyped(c)'
  BY <1>7 DEF KvTyped, KvInv, KvBase
<1>9. ASSUME race = "none"
      PROVE  KvThread(c)' /\ KvMoves(c, r)
  <2>0. KvGood /\ KvThread(c)
    BY <1>9 DEF KvInv, KvGood
  <2>1. (KvWriter(c) => KvWriter(c)') /\ (KvWrites(c)' <=> KvWrites(c))
    BY <1>1, <1>6, <1>7 DEF KvWriter, KvWrites
  <2>2. (KvReader(c) => KvReader(c)') /\ (KvReads(c)' <=> KvReads(c))
    BY <1>1, <1>6, <1>7 DEF KvReader, KvReads
  <2>3. KvKept(h[c].key) => KvKept(h[c].key)'
    BY <1>1, <1>7 DEF KvKept
  <2>4. KvThread(c)'
    BY <2>0, <2>1, <2>2, <2>3, <1>7 DEF KvThread
  <2>5. r.pc = h[c].pc /\ r.slot = h[c].slot
    BY <1>5, <1>7
  <2>6. r.pc \in {"copy", "copied"} => \A d \in Clients : d # c => ~Servers!Writing(d, r.slot)
    BY <2>0, <2>5 DEF KvGood, KvApart, KvWrites, Servers!Writing
  <2>7. \A k \in acked' : KvKept(k)
    BY <2>0, <1>1 DEF KvGood
  <2> QED
    BY <2>4, <2>5, <2>6, <2>7, <1>1 DEF KvMoves
<1>10. lock' \in Clients \cup {0} /\ acked' \subseteq KvKeys /\ race' \in {race, "clash"} /\ race' = race
  BY <1>1, KvTypes
<1>11. UNCHANGED <<kind, pairs, store_count, written>>
  BY <1>1
<1> QED
  BY ONLY KvInv, c \in Clients, <1>4, <1>5, <1>8, <1>9, <1>10, <1>11, KvOwnStep

\* A step of a thread.
LEMMA KvHandler ==
  ASSUME KvInv, NEW c \in Clients, NEW locks, kind # "dynamic" => "set" \in locks,
         Servers!Handler(c, locks)
  PROVE  KvInv'
<1>1. ASSUME Servers!SendHalf(c, 1, "send", "sent")
      PROVE  KvInv'
  BY <1>1, KvSendHalf
<1>2. ASSUME Servers!SendHalf(c, 2, "sent", "value")
      PROVE  KvInv'
  BY <1>2, KvSendHalf
<1> QED
  BY <1>1, <1>2, KvSetFind, KvCopyFirst, KvCopySecond, KvGetFind, KvAnswer, KvClose DEF Servers!Handler

LEMMA KvStep ==
  ASSUME KvInv, Servers!Next \/ UNCHANGED served
  PROVE  KvInv'
<1>1. ASSUME NEW c \in Clients, Servers!shared_client_handler(c)
      PROVE  KvInv'
  <2>1. Servers!Handler(c, Servers!SharedLocks) /\ "set" \in Servers!SharedLocks
    BY <1>1 DEF Servers!shared_client_handler, Servers!SharedLocks
  <2> QED
    BY <2>1, KvHandler
<1>2. ASSUME NEW c \in Clients, Servers!static_client_handler(c)
      PROVE  KvInv'
  <2>1. Servers!Handler(c, Servers!StaticLocks) /\ "set" \in Servers!StaticLocks
    BY <1>2 DEF Servers!static_client_handler, Servers!StaticLocks
  <2> QED
    BY <2>1, KvHandler
<1>3. ASSUME NEW c \in Clients, Servers!dynamic_client_handler(c)
      PROVE  KvInv'
  <2>1. Servers!Handler(c, Servers!DynamicLocks) /\ kind = "dynamic"
    BY <1>3 DEF Servers!dynamic_client_handler
  <2> QED
    BY <2>1, KvHandler
<1>4. ASSUME NEW c \in Clients,
             Servers!shared_main(c) \/ Servers!static_main(c) \/ Servers!dynamic_main(c)
      PROVE  KvInv'
  <2>1. Servers!Accept(c)
    BY <1>4 DEF Servers!shared_main, Servers!static_main, Servers!dynamic_main
  <2> QED
    BY <2>1, KvAccept
<1>5. ASSUME Servers!on_signal
      PROVE  KvInv'
  BY <1>5, KvStarts DEF Servers!on_signal
<1>6. ASSUME UNCHANGED served
      PROVE  KvInv'
  <2>1. UNCHANGED <<kind, pairs, store_count, lock, h, acked, written, race>>
    BY <1>6 DEF served
  <2>2. KvBase'
    BY <2>1 DEF KvInv, KvBase, KvTyped, Servers!TypeOK
  <2>3. KvGood => KvGood'
    BY <2>1 DEF KvGood, KvPairs, KvKept, KvThread, KvWrites, KvWriter, KvReads, KvReader, KvApart
  <2> QED
    BY <2>1, <2>2, <2>3 DEF KvInv
<1> QED
  BY <1>1, <1>2, <1>3, <1>4, <1>5, <1>6, KvRequest, KvLeave DEF Servers!Next

\* The invariant is enough.
LEMMA KvImplies == KvInv => Servers!Sound
<1> SUFFICES ASSUME KvInv
             PROVE  Servers!Sound
  OBVIOUS
<1>1. Servers!NoClash
  BY DEF KvInv, Servers!NoClash
<1>2. ASSUME race = "none"
      PROVE  /\ \A i, j \in 1 .. store_count : pairs[i].key = pairs[j].key => i = j
             /\ \A k \in acked : Servers!SlotOf(k) # 0 \/ store_count = MAX_ITEMS[kind]
  <2>1. KvGood
    BY <1>2 DEF KvInv
  <2>2. \A i, j \in 1 .. store_count : pairs[i].key = pairs[j].key => i = j
    BY <2>1 DEF KvGood, KvPairs
  <2>3. \A k \in acked : Servers!SlotOf(k) # 0 \/ store_count = MAX_ITEMS[kind]
    BY <2>1, KvKeptFound DEF KvGood
  <2> QED
    BY <2>2, <2>3
<1>3. ASSUME race = "none", NEW c \in Clients, h[c].pc = "value", h[c].slot # 0
      PROVE  /\ \A i \in 1 .. 2 : h[c].out[i] \in {h[c].key} \X KvValues
             /\ ~h[c].overlapped => h[c].out = <<written[h[c].key], written[h[c].key]>>
  <2>1. KvReader(c)
    BY <1>3 DEF KvInv, KvGood, KvThread, KvReads
  <2>2. h[c].out \in Servers!Cell \X Servers!Cell
    BY KvTypes DEF KvRecord
  <2>3. h[c].out = <<h[c].out[1], h[c].out[2]>>
    BY <2>2
  <2> QED
    BY <1>3, <2>1, <2>3 DEF KvReader
<1>4. Servers!PairsKept
  BY <1>2 DEF Servers!PairsKept, Servers!NULL
<1>5. Servers!ValuesRight
  BY <1>3 DEF Servers!ValuesRight, Servers!NULL
<1> QED
  BY <1>1, <1>4, <1>5 DEF Servers!Sound
-----------------------------------------------------------------------------
(* Rollback.  What get_node finds, as a function of the list.              *)

RbClosed(list, st, key, S) ==
  st \in S /\ \A n \in S \ {0} : list[n].key # key => list[n].next \in S
RbPassed(list, st, key) ==
  {n \in 0 .. Len(list) : \A S \in SUBSET (0 .. Len(list)) : RbClosed(list, st, key, S) => n \in S}
RbSearch(list, st, key) == {n \in RbPassed(list, st, key) \ {0} : list[n].key = key}

\* One list is searched as another; a node is all that is found.
RbAlso(list2, list, st)       == \A key : RbSearch(list2, st, key) = RbSearch(list, st, key)
RbFoundOnly(list, st, key, n) == RbSearch(list, st, key) = {n}

\* From node to node of the list the numbers decrease.
RbDown(list, st) ==
  /\ Len(list) \in Nat /\ st \in 0 .. Len(list)
  /\ \A n \in 1 .. Len(list) : list[n].next \in Nat /\ list[n].next < n

\* The versions a node had when the console's transaction began are its last,
\* and those before them have been added.
RbBase(base, n)        == IF n \in DOMAIN base THEN base[n].versions ELSE <<>>
RbEnds(s, b)           == Len(b) <= Len(s) /\ \A k \in 1 .. Len(b) : s[Len(s) - Len(b) + k] = b[k]
RbExtra(list, base, n) == Len(list[n].versions) - Len(RbBase(base, n))
RbAdded(list, base)    ==
  UNION {{<<n, k>> : k \in 1 .. RbExtra(list, base, n)} : n \in 1 .. Len(list)}
RbKept(list, base)     ==
  /\ Len(base) <= Len(list)
  /\ \A n \in 1 .. Len(list) : RbEnds(list[n].versions, RbBase(base, n))

\* The transaction has an operation for each of them, until it has no room, and
\* finds each where it was written.
RbHits(list, st, ops, n) == {k \in 1 .. Len(ops) : n \in RbSearch(list, st, ops[k].key)}
RbFound(list, st, ops)   == \A k \in 1 .. Len(ops) : RbSearch(list, st, ops[k].key) # {}
RbExact(list, st, ops, base) ==
  \A n \in 1 .. Len(list) : Cardinality(RbHits(list, st, ops, n)) = RbExtra(list, base, n)
RbCounted(list, st, ops, base) ==
  LET a == Cardinality(RbAdded(list, base))
  IN  /\ IsFiniteSet(RbAdded(list, base))
      /\ a <= MAX_OPS => Len(ops) = a /\ RbExact(list, st, ops, base)
      /\ a > MAX_OPS => Len(ops) = MAX_OPS

RbGood(list, st, ops, base) ==
  RbKept(list, base) /\ RbFound(list, st, ops) /\ RbCounted(list, st, ops, base)

\* What get_node knows on its way.
RbAt(list, st, place, key, n) ==
  /\ place \in {"link", "publish"} => RbSearch(list, st, key) = {}
  /\ place = "publish" => list[n].key = key /\ list[n].next = st
  /\ place = "body" => n \in RbSearch(list, st, key)

RbOpen == pc[Console] \in {"call", "link", "publish", "body"}
RbInv ==
  /\ atBegin \in Seq(Mvcc!Node)
  /\ pc[Console] # "joining" => \A t \in Threads : pc[t] = "exited"
  /\ pc[Console] = "count" => tx[Console].ops = <<>>
  /\ RbOpen => /\ RbGood(vnodes, store, tx[Console].ops, atBegin)
               /\ RbAt(vnodes, store, pc[Console], Head(todo[Console]).key, vnode[Console])

LEMMA RbSame ==
  ASSUME NEW key
  PROVE  Mvcc!Search(key) = RbSearch(vnodes, store, key)
BY DEF Mvcc!Search, Mvcc!Passed, RbSearch, RbPassed, RbClosed

\* What cur comes to is closed, and the least that is.
LEMMA RbPassedClosed ==
  ASSUME NEW list, NEW st, NEW key, RbDown(list, st)
  PROVE  RbClosed(list, st, key, RbPassed(list, st, key))
<1>1. PICK l : l = Len(list) /\ l \in Nat /\ st \in 0 .. l
  BY DEF RbDown
<1>2. PICK P : P = RbPassed(list, st, key)
  OBVIOUS
<1>3. \A n : n \in P <=> n \in 0 .. l /\ \A S \in SUBSET (0 .. l) : RbClosed(list, st, key, S) => n \in S
  BY <1>1, <1>2 DEF RbPassed
<1>4. st \in P
  BY <1>1, <1>3 DEF RbClosed
<1>5. ASSUME NEW n \in P \ {0}, list[n].key # key
      PROVE  list[n].next \in P
  <2>1. n \in 1 .. l
    BY <1>1, <1>3
  <2>2. PICK m : m = list[n].next
    OBVIOUS
  <2>3. m \in Nat /\ m < n
    BY <1>1, <2>1, <2>2 DEF RbDown
  <2>4. m \in 0 .. l
    BY <1>1, <2>1, <2>3
  <2>5. ASSUME NEW S \in SUBSET (0 .. l), RbClosed(list, st, key, S)
        PROVE  m \in S
    <3>1. n \in S \ {0}
      BY <1>3, <2>5
    <3> QED
      BY <1>5, <2>2, <2>5, <3>1 DEF RbClosed
  <2> QED
    BY <1>3, <2>2, <2>4, <2>5
<1> QED
  BY <1>2, <1>4, <1>5 DEF RbClosed

LEMMA RbPassedLeast ==
  ASSUME NEW list, NEW st, NEW key, NEW S, S \subseteq RbPassed(list, st, key),
         RbClosed(list, st, key, S)
  PROVE  S = RbPassed(list, st, key)
BY DEF RbPassed

\* The search ends at one node, if it does not end with NULL: nothing that cur
\* comes to lies between a node and the next.
LEMMA RbOne ==
  ASSUME NEW list, NEW st, NEW key, RbDown(list, st),
         NEW m \in RbSearch(list, st, key), NEW n \in RbSearch(list, st, key)
  PROVE  m = n
<1>1. PICK l : l = Len(list) /\ l \in Nat /\ st \in 0 .. l
  BY DEF RbDown
<1>2. PICK P : P = RbPassed(list, st, key)
  OBVIOUS
<1>3. P \subseteq 0 .. l /\ RbClosed(list, st, key, P)
  BY <1>1, <1>2, RbPassedClosed DEF RbPassed
<1>4. \A S : S \subseteq P /\ RbClosed(list, st, key, S) => S = P
  BY <1>2, RbPassedLeast
<1>5. \A x \in P \ {0} : list[x].next \in Nat /\ list[x].next < x
  <2>1. \A x \in P \ {0} : x \in 1 .. l
    BY <1>1, <1>3
  <2> QED
    BY <1>1, <2>1 DEF RbDown
<1>6. \A x \in P \ {0} : list[x].key # key => list[x].next \in P
  BY <1>3 DEF RbClosed
<1>7. st \in P
  BY <1>3 DEF RbClosed
<1>8. \A y \in P : y <= st
  <2>1. PICK S : S = {y \in P : y <= st}
    OBVIOUS
  <2>2. st \in S
    BY <1>1, <1>7, <2>1
  <2>3. ASSUME NEW x \in S \ {0}, list[x].key # key
        PROVE  list[x].next \in S
    <3>1. x \in P \ {0} /\ x <= st /\ x \in Nat /\ st \in Nat
      BY <1>1, <1>3, <2>1
    <3>2. list[x].next \in P /\ list[x].next \in Nat /\ list[x].next < x
      BY <1>5, <1>6, <2>3, <3>1
    <3>3. list[x].next <= st
      BY <3>1, <3>2
    <3> QED
      BY <2>1, <3>2, <3>3
  <2>4. RbClosed(list, st, key, S)
    BY <2>2, <2>3 DEF RbClosed
  <2> QED
    BY <1>4, <2>1, <2>4
<1> DEFINE B == {z \in P : \A y \in P \ {0} : y > z => list[y].key # key /\ list[y].next >= z}
<1>9. RbClosed(list, st, key, B)
  <2>1. st \in B
    <3>1. \A y \in P \ {0} : ~(y > st)
      BY <1>1, <1>3, <1>8
    <3> QED
      BY <1>7, <3>1
  <2>2. ASSUME NEW z \in B \ {0}, list[z].key # key
        PROVE  list[z].next \in B
    <3>1. z \in P \ {0} /\ z \in Nat
      BY <1>3
    <3>2. \A y \in P \ {0} : y > z => list[y].key # key /\ list[y].next >= z
      OBVIOUS
    <3> HIDE DEF B
    <3>3. PICK q : q = list[z].next
      OBVIOUS
    <3>4. q \in P /\ q \in Nat /\ q < z
      BY <1>5, <1>6, <2>2, <3>1, <3>3
    <3>5. PICK S : S = {y \in P : y <= q \/ y >= z}
      OBVIOUS
    <3>6. z <= st /\ st \in Nat
      BY <1>1, <1>8, <3>1
    <3>7. ASSUME NEW x \in S \ {0}, list[x].key # key
          PROVE  list[x].next \in S
      <4>1. x \in P \ {0} /\ x \in Nat /\ (x <= q \/ x >= z)
        BY <1>3, <3>5
      <4>2. PICK w : w = list[x].next
        OBVIOUS
      <4>3. w \in P /\ w \in Nat /\ w < x
        BY <1>5, <1>6, <3>7, <4>1, <4>2
      <4>4. x > z => w >= z
        BY <3>2, <4>1, <4>2
      <4>5. x = z => w = q
        BY <3>3, <4>2
      <4>6. w <= q \/ w >= z
        BY <3>1, <3>4, <4>1, <4>3, <4>4, <4>5
      <4> QED
        BY <3>5, <4>2, <4>3, <4>6
    <3>8. RbClosed(list, st, key, S)
      BY <1>7, <3>5, <3>6, <3>7 DEF RbClosed
    <3>9. S = P
      BY <1>4, <3>5, <3>8
    <3>10. ASSUME NEW y \in P \ {0}, y > q
           PROVE  list[y].key # key /\ list[y].next >= q
      <4>1. y \in Nat /\ y >= z
        BY <1>3, <3>4, <3>5, <3>9, <3>10
      <4>2. CASE y = z
        BY <2>2, <3>3, <3>4, <4>2
      <4>3. CASE y > z
        <5>1. list[y].key # key /\ list[y].next >= z /\ list[y].next \in Nat
          BY <1>5, <3>2, <4>3
        <5> QED
          BY <3>1, <3>4, <5>1
      <4> QED
        BY <3>1, <4>1, <4>2, <4>3
    <3> QED
      BY <3>3, <3>4, <3>10 DEF B
  <2> HIDE DEF B
  <2> QED
    BY <2>1, <2>2 DEF RbClosed
<1>10. B = P
  <2>1. B \subseteq P
    OBVIOUS
  <2> HIDE DEF B
  <2> QED
    BY <1>4, <1>9, <2>1
<1>11. m \in P \ {0} /\ n \in P \ {0} /\ list[m].key = key /\ list[n].key = key
  BY <1>2 DEF RbSearch
<1>12. ~(m > n) /\ ~(n > m)
  <2>1. \A z, y \in P : y # 0 /\ y > z => list[y].key # key
    BY <1>10
  <2> QED
    BY <1>11, <2>1
<1>13. m \in Nat /\ n \in Nat
  BY <1>3, <1>11
<1> QED
  BY <1>12, <1>13

\* A longer list with the same keys and links is searched alike.
LEMMA RbLonger ==
  ASSUME NEW list, NEW list2, NEW st, NEW key, RbDown(list, st), RbDown(list2, st),
         Len(list) <= Len(list2),
         \A n \in 1 .. Len(list) : list2[n].key = list[n].key /\ list2[n].next = list[n].next
  PROVE  RbSearch(list2, st, key) = RbSearch(list, st, key)
<1>1. PICK l : l = Len(list) /\ l \in Nat /\ st \in 0 .. l
  BY DEF RbDown
<1>2. PICK l2 : l2 = Len(list2) /\ l2 \in Nat /\ l <= l2
  BY <1>1 DEF RbDown
<1>3. PICK P : P = RbPassed(list, st, key)
  OBVIOUS
<1>4. PICK P2 : P2 = RbPassed(list2, st, key)
  OBVIOUS
<1>5. P \subseteq 0 .. l /\ RbClosed(list, st, key, P)
  BY <1>1, <1>3, RbPassedClosed DEF RbPassed
<1>6. P2 \subseteq 0 .. l2 /\ RbClosed(list2, st, key, P2)
  BY <1>2, <1>4, RbPassedClosed DEF RbPassed
<1>7. \A n \in 0 .. l : n \in 0 .. l2 /\ (n # 0 => n \in 1 .. l)
  BY <1>1, <1>2
<1>8. \A n \in 1 .. l : list2[n].key = list[n].key /\ list2[n].next = list[n].next
  BY <1>1
<1>9. P2 \subseteq P
  <2>1. RbClosed(list2, st, key, P)
    BY <1>5, <1>7, <1>8 DEF RbClosed
  <2>2. P \in SUBSET (0 .. l2)
    BY <1>5, <1>7
  <2> QED
    BY <1>2, <1>4, <2>1, <2>2 DEF RbPassed
<1>10. P \subseteq P2
  <2>1. RbClosed(list, st, key, P2)
    BY <1>5, <1>6, <1>7, <1>8, <1>9 DEF RbClosed
  <2>2. P2 \in SUBSET (0 .. l)
    BY <1>5, <1>9
  <2> QED
    BY <1>1, <1>3, <2>1, <2>2 DEF RbPassed
<1>11. P = P2
  BY <1>9, <1>10
<1>12. \A n \in P \ {0} : list2[n].key = list[n].key
  BY <1>5, <1>7, <1>8
<1> QED
  BY <1>3, <1>4, <1>11, <1>12 DEF RbSearch

\* store = node: the new node is found for its key, and what was found for
\* another still is.
LEMMA RbPublished ==
  ASSUME NEW list, NEW st, NEW new \in 1 .. Len(list), RbDown(list, st), list[new].next = st,
         NEW key
  PROVE  /\ list[new].key = key => RbFoundOnly(list, new, key, new)
         /\ list[new].key # key => RbSearch(list, new, key) = RbSearch(list, st, key)
<1>1. PICK l : l = Len(list) /\ l \in Nat /\ st \in 0 .. l
  BY DEF RbDown
<1>2. new \in 0 .. l /\ new # 0 /\ RbDown(list, new)
  BY <1>1 DEF RbDown
<1>3. PICK P : P = RbPassed(list, st, key)
  OBVIOUS
<1>4. PICK P2 : P2 = RbPassed(list, new, key)
  OBVIOUS
<1>5. P \subseteq 0 .. l /\ RbClosed(list, st, key, P)
  BY <1>1, <1>3, RbPassedClosed DEF RbPassed
<1>6. P2 \subseteq 0 .. l /\ RbClosed(list, new, key, P2)
  BY <1>1, <1>2, <1>4, RbPassedClosed DEF RbPassed
<1>7. ASSUME list[new].key = key PROVE RbSearch(list, new, key) = {new}
  <2>1. RbClosed(list, new, key, {new})
    BY <1>7 DEF RbClosed
  <2>2. {new} \in SUBSET (0 .. l) /\ new \in P2
    BY <1>2, <1>6 DEF RbClosed
  <2>3. P2 = {new}
    BY <1>1, <1>4, <2>1, <2>2 DEF RbPassed
  <2> QED
    BY <1>2, <1>4, <1>7, <2>3 DEF RbSearch
<1>8. ASSUME list[new].key # key PROVE RbSearch(list, new, key) = RbSearch(list, st, key)
  <2>1. PICK Q : Q = P \cup {new}
    OBVIOUS
  <2>2. RbClosed(list, new, key, Q) /\ Q \in SUBSET (0 .. l)
    BY <1>2, <1>5, <2>1 DEF RbClosed
  <2>3. P2 \subseteq Q
    BY <1>1, <1>4, <2>2 DEF RbPassed
  <2>4. RbClosed(list, st, key, P2)
    BY <1>2, <1>6, <1>8 DEF RbClosed
  <2>5. P \subseteq P2 /\ new \in P2
    BY <1>1, <1>3, <1>6, <2>4 DEF RbPassed, RbClosed
  <2>6. P2 = P \cup {new}
    BY <2>1, <2>3, <2>5
  <2> QED
    BY <1>3, <1>4, <1>8, <2>6 DEF RbSearch
<1> QED
  BY <1>7, <1>8 DEF RbFoundOnly

LEMMA RbMember ==
  ASSUME NEW list, NEW base
  PROVE  \A x : x \in RbAdded(list, base) <=>
           \E n \in 1 .. Len(list) : \E k \in 1 .. RbExtra(list, base, n) : x = <<n, k>>
<1> DEFINE Of(n) == {<<n, k>> : k \in 1 .. RbExtra(list, base, n)}
<1>1. \A x, n : x \in Of(n) <=> \E k \in 1 .. RbExtra(list, base, n) : x = <<n, k>>
  OBVIOUS
<1>2. RbAdded(list, base) = UNION {Of(n) : n \in 1 .. Len(list)}
  BY DEF RbAdded
<1>3. \A x : x \in UNION {Of(n) : n \in 1 .. Len(list)} <=> \E n \in 1 .. Len(list) : x \in Of(n)
  <2> HIDE DEF Of
  <2> QED
    BY Zenon
<1> HIDE DEF Of
<1> QED
  BY <1>1, <1>2, <1>3

\* A transaction begins: nothing is added yet.
LEMMA RbBegins ==
  ASSUME NEW list \in Seq(Mvcc!Node), NEW st
  PROVE  RbGood(list, st, <<>>, list)
<1>1. PICK l : l = Len(list) /\ l \in Nat /\ DOMAIN list = 1 .. l
  BY LenProperties
<1>2. \A n \in 1 .. l : list[n] \in Mvcc!Node
  BY <1>1, ElementOfSeq
<1>3. \A n \in 1 .. l : list[n].versions \in Seq(Mvcc!Version)
  BY <1>2 DEF Mvcc!Node
<1>4. ASSUME NEW n \in 1 .. l
      PROVE  RbExtra(list, list, n) = 0 /\ RbEnds(list[n].versions, RbBase(list, n))
  <2>1. PICK s : s = list[n].versions
    OBVIOUS
  <2>2. PICK c : c = Len(s) /\ c \in Nat
    BY <1>3, <2>1, LenProperties
  <2>3. RbBase(list, n) = s
    BY <1>1, <2>1 DEF RbBase
  <2>4. \A k \in 1 .. c : c - c + k = k
    BY <2>2
  <2>5. c - c = 0 /\ c <= c
    BY <2>2
  <2> QED
    BY <2>1, <2>2, <2>3, <2>4, <2>5 DEF RbExtra, RbEnds
<1>5. RbAdded(list, list) = {}
  <2>1. \A n \in 1 .. l : 1 .. RbExtra(list, list, n) = {}
    BY <1>4
  <2> QED
    BY <1>1, <2>1 DEF RbAdded
<1>6. IsFiniteSet({}) /\ Cardinality({}) = 0
  BY FS_EmptySet
<1>7. RbExact(list, st, <<>>, list)
  <2>1. \A n \in 1 .. l : RbHits(list, st, <<>>, n) = {}
    BY DEF RbHits
  <2> QED
    BY <1>1, <1>4, <1>6, <2>1 DEF RbExact
<1>8. Len(<<>>) = 0
  OBVIOUS
<1>9. RbCounted(list, st, <<>>, list)
  BY <1>5, <1>6, <1>7, <1>8, MvConstants DEF RbCounted
<1>10. RbFound(list, st, <<>>)
  BY <1>8 DEF RbFound
<1>11. RbKept(list, list)
  BY <1>1, <1>4 DEF RbKept
<1> QED
  BY <1>9, <1>10, <1>11 DEF RbGood

\* The list counts only by what is found in it and by the versions of its nodes.
LEMMA RbAlike ==
  ASSUME NEW list, NEW list2, NEW st, NEW st2, NEW ops, NEW base,
         RbGood(list, st, ops, base), Len(list2) = Len(list),
         \A n \in 1 .. Len(list) : list2[n].versions = list[n].versions,
         \A k \in 1 .. Len(ops) : RbSearch(list2, st2, ops[k].key) = RbSearch(list, st, ops[k].key)
  PROVE  RbGood(list2, st2, ops, base)
<1>1. \A n \in 1 .. Len(list) : RbExtra(list2, base, n) = RbExtra(list, base, n)
  BY DEF RbExtra
<1>2. RbAdded(list2, base) = RbAdded(list, base)
  BY <1>1 DEF RbAdded
<1>3. \A n : RbHits(list2, st2, ops, n) = RbHits(list, st, ops, n)
  BY DEF RbHits
<1>4. RbKept(list2, base) /\ RbFound(list2, st2, ops)
  BY DEF RbGood, RbKept, RbFound
<1>5. RbExact(list, st, ops, base) => RbExact(list2, st2, ops, base)
  BY <1>1, <1>3 DEF RbExact
<1>6. RbCounted(list2, st2, ops, base)
  BY <1>2, <1>5 DEF RbGood, RbCounted
<1> QED
  BY <1>4, <1>6 DEF RbGood

\* A node is linked before the list: nothing is written to it yet.
LEMMA RbLinked ==
  ASSUME NEW list \in Seq(Mvcc!Node), NEW st, NEW ops, NEW base \in Seq(Mvcc!Node),
         NEW b \in Mvcc!Node, b.versions = <<>>, RbGood(list, st, ops, base), RbDown(list, st),
         NEW list2, list2 = Append(list, b), RbDown(list2, st)
  PROVE  RbGood(list2, st, ops, base) /\ RbAlso(list2, list, st)
<1>1. PICK l : l = Len(list) /\ l \in Nat
  BY LenProperties
<1>2. /\ Len(list2) = l + 1 /\ list2[l + 1] = b
      /\ \A n \in 1 .. l : list2[n] = list[n]
  <2>1. /\ Len(Append(list, b)) = Len(list) + 1
        /\ \A n \in 1 .. Len(list) : Append(list, b)[n] = list[n]
        /\ Append(list, b)[Len(list) + 1] = b
    BY AppendProperties
  <2> QED
    BY <1>1, <2>1
<1>3. \A key : RbSearch(list2, st, key) = RbSearch(list, st, key)
  <2>1. ASSUME NEW key PROVE RbSearch(list2, st, key) = RbSearch(list, st, key)
    <3>1. Len(list) <= Len(list2)
      BY <1>1, <1>2
    <3>2. \A n \in 1 .. Len(list) : list2[n].key = list[n].key /\ list2[n].next = list[n].next
      BY <1>1, <1>2
    <3>3. RbDown(list, st) /\ RbDown(list2, st)
      OBVIOUS
    <3> QED
      BY ONLY <3>1, <3>2, <3>3, RbLonger
  <2> QED
    BY <2>1
<1>4. \A n \in 1 .. l + 1 : n \in 1 .. l \/ (n = l + 1 /\ n \notin 1 .. l)
  BY <1>1
<1>5. RbBase(base, l + 1) = <<>> /\ Len(base) \in Nat /\ Len(base) <= l
  <2>1. Len(base) <= l /\ Len(base) \in Nat /\ DOMAIN base = 1 .. Len(base)
    BY <1>1, LenProperties DEF RbGood, RbKept
  <2>2. l + 1 \notin 1 .. Len(base)
    BY <1>1, <2>1
  <2> QED
    BY <2>1, <2>2 DEF RbBase
<1>6. \A n \in 1 .. l : RbExtra(list2, base, n) = RbExtra(list, base, n)
  BY <1>2 DEF RbExtra
<1>7. RbExtra(list2, base, l + 1) = 0 /\ RbEnds(list2[l + 1].versions, RbBase(base, l + 1))
  <2>1. list2[l + 1].versions = <<>> /\ RbBase(base, l + 1) = <<>> /\ Len(<<>>) = 0
    BY <1>2, <1>5
  <2> QED
    BY <2>1 DEF RbExtra, RbEnds
<1>8. RbKept(list2, base)
  <2>1. \A n \in 1 .. l : RbEnds(list2[n].versions, RbBase(base, n))
    BY <1>1, <1>2 DEF RbGood, RbKept
  <2>2. \A n \in 1 .. l + 1 : RbEnds(list2[n].versions, RbBase(base, n))
    BY <1>4, <1>7, <2>1
  <2>3. Len(base) <= l + 1
    BY <1>1, <1>5
  <2> QED
    BY <1>2, <2>2, <2>3 DEF RbKept
<1>9. RbAdded(list2, base) = RbAdded(list, base)
  <2>1. 1 .. RbExtra(list2, base, l + 1) = {}
    BY <1>7
  <2>2. \A n \in 1 .. l : n \in 1 .. l + 1
    BY <1>1
  <2>3. \A x : x \in RbAdded(list2, base) <=>
               \E n \in 1 .. l + 1 : \E k \in 1 .. RbExtra(list2, base, n) : x = <<n, k>>
    BY ONLY <1>2, RbMember
  <2>4. \A x : x \in RbAdded(list, base) <=>
               \E n \in 1 .. l : \E k \in 1 .. RbExtra(list, base, n) : x = <<n, k>>
    BY ONLY <1>1, RbMember
  <2>5. \A x : x \in RbAdded(list2, base) <=> x \in RbAdded(list, base)
    <3>1. ASSUME NEW x \in RbAdded(list2, base) PROVE x \in RbAdded(list, base)
      <4>1. PICK n \in 1 .. l + 1 : \E k \in 1 .. RbExtra(list2, base, n) : x = <<n, k>>
        BY <2>3
      <4>2. n \in 1 .. l
        BY <1>4, <2>1, <4>1
      <4> QED
        BY <1>6, <2>4, <4>1, <4>2
    <3>2. ASSUME NEW x \in RbAdded(list, base) PROVE x \in RbAdded(list2, base)
      <4>1. PICK n \in 1 .. l : \E k \in 1 .. RbExtra(list, base, n) : x = <<n, k>>
        BY <2>4
      <4> QED
        BY <1>6, <2>2, <2>3, <4>1
    <3> QED
      BY <3>1, <3>2
  <2> QED
    BY <2>5
<1>10. RbExact(list, st, ops, base) => RbExact(list2, st, ops, base)
  <2>1. ASSUME RbExact(list, st, ops, base), NEW n \in 1 .. l + 1
        PROVE  Cardinality(RbHits(list2, st, ops, n)) = RbExtra(list2, base, n)
    <3>1. RbHits(list2, st, ops, n) = RbHits(list, st, ops, n)
      BY <1>3 DEF RbHits
    <3>2. CASE n \in 1 .. l
      BY <1>1, <1>6, <2>1, <3>1, <3>2 DEF RbExact
    <3>3. CASE n = l + 1
      <4>1. n \notin 0 .. l
        BY <1>1, <3>3
      <4>2. \A key : n \notin RbSearch(list, st, key)
        BY <1>1, <4>1 DEF RbSearch, RbPassed
      <4>3. RbHits(list, st, ops, n) = {}
        BY <4>2 DEF RbHits
      <4> QED
        BY <1>7, <3>1, <3>3, <4>3, FS_EmptySet
    <3> QED
      BY <1>4, <3>2, <3>3
  <2> QED
    BY <1>2, <2>1 DEF RbExact
<1>11. RbCounted(list2, st, ops, base)
  BY <1>9, <1>10 DEF RbGood, RbCounted
<1>12. RbFound(list2, st, ops)
  BY <1>3 DEF RbGood, RbFound
<1> QED
  BY <1>3, <1>8, <1>11, <1>12 DEF RbGood, RbAlso

\* A version more before those a node had.
LEMMA RbLongerEnds ==
  ASSUME NEW s \in Seq(Mvcc!Version), NEW b \in Seq(Mvcc!Version), RbEnds(s, b), NEW v,
         v \in Mvcc!Version, NEW r, r = <<v>> \o s
  PROVE  RbEnds(r, b) /\ Len(r) = Len(s) + 1
<1>1. PICK c : c = Len(s) /\ c \in Nat
  BY LenProperties
<1>2. PICK d : d = Len(b) /\ d \in Nat
  BY LenProperties
<1>3. d <= c /\ \A k \in 1 .. d : s[c - d + k] = b[k]
  BY <1>1, <1>2 DEF RbEnds
<1>4. PICK q : q = <<v>>
  OBVIOUS
<1>5. q \in Seq(Mvcc!Version) /\ Len(q) = 1
  BY <1>4
<1>6. /\ Len(r) = 1 + c
      /\ \A k \in 1 .. 1 + c : r[k] = IF k <= 1 THEN q[k] ELSE s[k - 1]
  <2>1. /\ Len(q \o s) = Len(q) + Len(s)
        /\ \A k \in 1 .. Len(q) + Len(s) :
             (q \o s)[k] = IF k <= Len(q) THEN q[k] ELSE s[k - Len(q)]
    BY <1>5, ConcatProperties
  <2> QED
    BY <1>1, <1>4, <1>5, <2>1
<1>7. ASSUME NEW k \in 1 .. d PROVE r[1 + c - d + k] = b[k]
  <2>1. PICK j : j = 1 + c - d + k
    OBVIOUS
  <2>2. j \in 1 .. 1 + c /\ ~(j <= 1) /\ j - 1 = c - d + k
    BY <1>1, <1>2, <1>3, <2>1
  <2>3. r[j] = s[c - d + k]
    BY <1>6, <2>2
  <2> QED
    BY <1>3, <2>1, <2>3
<1>8. d <= 1 + c /\ 1 + c = c + 1
  BY <1>1, <1>2, <1>3
<1> QED
  BY <1>1, <1>2, <1>6, <1>7, <1>8 DEF RbEnds

\* What a version that was added is.
RbIsAdded(list, base, z) ==
  \E m \in 1 .. Len(list) : \E k \in 1 .. RbExtra(list, base, m) : z = <<m, k>>

LEMMA RbAddedIs ==
  ASSUME NEW list, NEW base
  PROVE  \A z : z \in RbAdded(list, base) <=> RbIsAdded(list, base, z)
BY DEF RbAdded, RbIsAdded

\* A write to the node get_node returned, with or without room for the operation.
LEMMA RbWritten ==
  ASSUME NEW list \in Seq(Mvcc!Node), NEW st, NEW ops \in Seq(Mvcc!Logged),
         NEW base \in Seq(Mvcc!Node), RbGood(list, st, ops, base), RbDown(list, st),
         NEW e \in Mvcc!Logged, NEW n \in RbSearch(list, st, e.key), NEW v \in Mvcc!Version,
         NEW list2, Len(list2) = Len(list), list2[n].versions = <<v>> \o list[n].versions,
         \A m \in 1 .. Len(list) : list2[m].key = list[m].key /\ list2[m].next = list[m].next,
         \A m \in 1 .. Len(list) : m # n => list2[m].versions = list[m].versions,
         NEW ops2, ops2 = IF Len(ops) < MAX_OPS THEN Append(ops, e) ELSE ops
  PROVE  RbGood(list2, st, ops2, base)
<1>1. PICK l : l = Len(list) /\ l \in Nat /\ l = Len(list2)
  BY LenProperties
<1>2. n \in 1 .. l
  BY <1>1 DEF RbSearch, RbPassed
<1>3. \A m \in 1 .. l : list[m].versions \in Seq(Mvcc!Version)
  <2>1. \A m \in 1 .. l : list[m] \in Mvcc!Node
    BY <1>1, ElementOfSeq
  <2> QED
    BY <2>1 DEF Mvcc!Node
<1>4. \A m : RbBase(base, m) \in Seq(Mvcc!Version) /\ Len(RbBase(base, m)) \in Nat
  <2>1. DOMAIN base = 1 .. Len(base)
    BY LenProperties
  <2>2. \A m \in DOMAIN base : base[m] \in Mvcc!Node
    BY <2>1, ElementOfSeq
  <2>3. \A m \in DOMAIN base : base[m].versions \in Seq(Mvcc!Version)
    BY <2>2 DEF Mvcc!Node
  <2>4. <<>> \in Seq(Mvcc!Version)
    BY EmptySeq
  <2>5. \A m : RbBase(base, m) \in Seq(Mvcc!Version)
    BY <2>3, <2>4 DEF RbBase
  <2> QED
    BY <2>5, LenProperties
<1>5. RbDown(list2, st)
  BY <1>1 DEF RbDown
<1>6. ASSUME NEW key PROVE RbSearch(list2, st, key) = RbSearch(list, st, key)
  <2>1. Len(list) <= Len(list2)
    BY <1>1
  <2>2. RbDown(list, st) /\ \A m \in 1 .. Len(list) : list2[m].key = list[m].key /\ list2[m].next = list[m].next
    OBVIOUS
  <2> QED
    BY ONLY <1>5, <2>1, <2>2, RbLonger
<1>7. PICK s : s = list[n].versions
  OBVIOUS
<1>8. PICK b : b = RbBase(base, n)
  OBVIOUS
<1>9. s \in Seq(Mvcc!Version) /\ b \in Seq(Mvcc!Version) /\ RbEnds(s, b)
  BY <1>1, <1>2, <1>3, <1>4, <1>7, <1>8 DEF RbGood, RbKept
<1>10. PICK r : r = list2[n].versions
  OBVIOUS
<1>11. RbEnds(r, b) /\ Len(r) = Len(s) + 1
  <2>1. r = <<v>> \o s /\ v \in Mvcc!Version
    BY <1>7, <1>10
  <2> QED
    BY ONLY <1>9, <2>1, RbLongerEnds
<1>12. PICK x : x = RbExtra(list, base, n)
  OBVIOUS
<1>13. x \in Nat /\ RbExtra(list2, base, n) = x + 1
  <2>1. PICK c : c = Len(s) /\ c \in Nat
    BY <1>9, LenProperties
  <2>2. PICK d : d = Len(b) /\ d \in Nat
    BY <1>9, LenProperties
  <2>3. d <= c
    BY <1>9, <2>1, <2>2 DEF RbEnds
  <2>4. x = c - d
    BY <1>7, <1>8, <1>12, <2>1, <2>2 DEF RbExtra
  <2>5. RbExtra(list2, base, n) = c + 1 - d
    BY <1>8, <1>10, <1>11, <2>1, <2>2 DEF RbExtra
  <2> QED
    BY <2>1, <2>2, <2>3, <2>4, <2>5
<1>14. \A m \in 1 .. l : m # n => RbExtra(list2, base, m) = RbExtra(list, base, m)
  BY <1>1 DEF RbExtra
<1>15. RbKept(list2, base)
  <2>1. ASSUME NEW m \in 1 .. l PROVE RbEnds(list2[m].versions, RbBase(base, m))
    <3>1. CASE m = n
      BY <1>8, <1>10, <1>11, <3>1
    <3>2. CASE m # n
      BY <1>1, <3>2 DEF RbGood, RbKept
    <3> QED
      BY <3>1, <3>2
  <2> QED
    BY <1>1, <2>1 DEF RbGood, RbKept
<1>16. PICK A : A = RbAdded(list, base)
  OBVIOUS
<1>17. PICK a : a = Cardinality(A)
  OBVIOUS
<1>18. /\ IsFiniteSet(A) /\ a \in Nat
       /\ a <= MAX_OPS => Len(ops) = a /\ RbExact(list, st, ops, base)
       /\ a > MAX_OPS => Len(ops) = MAX_OPS
  <2>1. IsFiniteSet(A)
    BY <1>16 DEF RbGood, RbCounted
  <2>2. a \in Nat
    BY <1>17, <2>1, FS_CardinalityType
  <2> QED
    BY <1>16, <1>17, <2>1, <2>2 DEF RbGood, RbCounted
<1>19. RbAdded(list2, base) = A \cup {<<n, x + 1>>} /\ <<n, x + 1>> \notin A
  <2>1. \A z : z \in A <=> \E m \in 1 .. l : \E k \in 1 .. RbExtra(list, base, m) : z = <<m, k>>
    <3>1. \A z : z \in A <=> RbIsAdded(list, base, z)
      BY ONLY <1>16, RbAddedIs
    <3> QED
      BY ONLY <1>1, <3>1 DEF RbIsAdded
  <2>2. \A z : z \in RbAdded(list2, base) <=>
               \E m \in 1 .. l : \E k \in 1 .. RbExtra(list2, base, m) : z = <<m, k>>
    <3>1. \A z : z \in RbAdded(list2, base) <=> RbIsAdded(list2, base, z)
      BY ONLY RbAddedIs
    <3> QED
      BY ONLY <1>1, <3>1 DEF RbIsAdded
  <2>3. \A k : k \in 1 .. x + 1 <=> k \in 1 .. x \/ k = x + 1
    BY <1>13
  <2>4. x + 1 \notin 1 .. x
    BY <1>13
  <2>5. <<n, x + 1>> \notin A
    <3>1. ASSUME NEW m \in 1 .. l, NEW k \in 1 .. RbExtra(list, base, m), <<n, x + 1>> = <<m, k>>
          PROVE  FALSE
      <4>1. m = n /\ k = x + 1
        BY <3>1
      <4> QED
        BY <1>12, <2>4, <4>1
    <3> QED
      BY <2>1, <3>1
  <2>6. ASSUME NEW z \in RbAdded(list2, base) PROVE z \in A \/ z = <<n, x + 1>>
    <3>1. PICK m \in 1 .. l : \E k \in 1 .. RbExtra(list2, base, m) : z = <<m, k>>
      BY <2>2
    <3>2. CASE m = n
      BY <1>2, <1>12, <1>13, <2>1, <2>3, <3>1, <3>2
    <3>3. CASE m # n
      BY <1>14, <2>1, <3>1, <3>3
    <3> QED
      BY <3>2, <3>3
  <2>7. ASSUME NEW z \in A PROVE z \in RbAdded(list2, base)
    <3>1. PICK m \in 1 .. l : \E k \in 1 .. RbExtra(list, base, m) : z = <<m, k>>
      BY <2>1
    <3>2. CASE m = n
      BY <1>2, <1>12, <1>13, <2>2, <2>3, <3>1, <3>2
    <3>3. CASE m # n
      BY <1>14, <2>2, <3>1, <3>3
    <3> QED
      BY <3>2, <3>3
  <2>8. <<n, x + 1>> \in RbAdded(list2, base)
    BY <1>2, <1>13, <2>2, <2>3
  <2> QED
    BY <2>5, <2>6, <2>7, <2>8
<1>20. IsFiniteSet(RbAdded(list2, base)) /\ Cardinality(RbAdded(list2, base)) = a + 1
  <2>1. PICK y : y = <<n, x + 1>>
    OBVIOUS
  <2>2. RbAdded(list2, base) = A \cup {y} /\ y \notin A
    BY <1>19, <2>1
  <2>3. /\ IsFiniteSet(A \cup {y})
        /\ Cardinality(A \cup {y}) = IF y \in A THEN Cardinality(A) ELSE Cardinality(A) + 1
    BY <1>18, FS_AddElement
  <2> QED
    BY <1>17, <2>2, <2>3
<1>21. PICK c : c = Len(ops) /\ c \in Nat
  BY LenProperties
<1>22. CASE a < MAX_OPS
  <2>1. c = a /\ RbExact(list, st, ops, base)
    BY <1>18, <1>21, <1>22, MvConstants
  <2>2. ops2 = Append(ops, e)
    BY <1>21, <1>22, <2>1
  <2>3. Len(ops2) = c + 1 /\ ops2[c + 1] = e /\ \A k \in 1 .. c : ops2[k] = ops[k]
    <3>1. /\ Len(Append(ops, e)) = Len(ops) + 1
          /\ \A k \in 1 .. Len(ops) : Append(ops, e)[k] = ops[k]
          /\ Append(ops, e)[Len(ops) + 1] = e
      BY AppendProperties
    <3> QED
      BY <1>21, <2>2, <3>1
  <2>4. \A k : k \in 1 .. c + 1 <=> k \in 1 .. c \/ k = c + 1
    BY <1>21
  <2>5. c + 1 \notin 1 .. c
    BY <1>21
  <2>6. RbFound(list2, st, ops2)
    <3>1. ASSUME NEW k \in 1 .. c + 1 PROVE RbSearch(list2, st, ops2[k].key) # {}
      <4>1. CASE k = c + 1
        BY <1>6, <2>3, <4>1
      <4>2. CASE k \in 1 .. c
        BY <1>6, <1>21, <2>3, <4>2 DEF RbGood, RbFound
      <4> QED
        BY <2>4, <4>1, <4>2
    <3> QED
      BY <2>3, <3>1 DEF RbFound
  <2>7. ASSUME NEW m \in 1 .. l
        PROVE  Cardinality(RbHits(list2, st, ops2, m)) = RbExtra(list2, base, m)
    <3>1. PICK H : H = RbHits(list, st, ops, m)
      OBVIOUS
    <3>2. Cardinality(H) = RbExtra(list, base, m) /\ H \subseteq 1 .. c
      BY <1>1, <1>21, <2>1, <3>1 DEF RbExact, RbHits
    <3>3. IsFiniteSet(H)
      <4>1. IsFiniteSet(1 .. c)
        <5>1. c \in Int /\ 1 \in Int
          BY <1>21
        <5> QED
          BY ONLY <5>1, FS_Interval
      <4>2. H \subseteq 1 .. c
        BY <3>2
      <4> QED
        BY ONLY <4>1, <4>2, FS_Subset
    <3>4. \A k \in 1 .. c : k \in H <=> m \in RbSearch(list, st, ops[k].key)
      BY <1>21, <3>1 DEF RbHits
    <3>5. \A k : k \in RbHits(list2, st, ops2, m) <=>
                 k \in 1 .. c + 1 /\ m \in RbSearch(list, st, ops2[k].key)
      BY <1>6, <2>3 DEF RbHits
    <3>6. \A k \in 1 .. c : k \in RbHits(list2, st, ops2, m) <=> k \in H
      BY <2>3, <2>4, <3>4, <3>5
    <3>7. CASE m = n
      <4>1. c + 1 \in RbHits(list2, st, ops2, m)
        BY <2>3, <2>4, <3>5, <3>7
      <4>2. RbHits(list2, st, ops2, m) = H \cup {c + 1} /\ c + 1 \notin H
        BY <2>4, <2>5, <3>2, <3>5, <3>6, <4>1
      <4>3. Cardinality(H \cup {c + 1}) = Cardinality(H) + 1
        BY <3>3, <4>2, FS_AddElement
      <4> QED
        BY <1>12, <1>13, <3>2, <3>7, <4>2, <4>3
    <3>8. CASE m # n
      <4>1. m \notin RbSearch(list, st, e.key)
        BY <3>8, RbOne
      <4>2. RbHits(list2, st, ops2, m) = H
        BY <2>3, <2>4, <3>2, <3>5, <3>6, <4>1
      <4> QED
        BY <1>14, <3>2, <3>8, <4>2
    <3> QED
      BY <3>7, <3>8
  <2>8. RbExact(list2, st, ops2, base)
    BY <1>1, <2>7 DEF RbExact
  <2>9. a + 1 <= MAX_OPS /\ ~(a + 1 > MAX_OPS)
    BY <1>18, <1>22, MvConstants
  <2>10. RbCounted(list2, st, ops2, base)
    BY <1>20, <2>1, <2>3, <2>8, <2>9 DEF RbCounted
  <2> QED
    BY <1>15, <2>6, <2>10 DEF RbGood
<1>23. CASE ~(a < MAX_OPS)
  <2>1. c = MAX_OPS
    BY <1>18, <1>21, <1>23, MvConstants
  <2>2. ops2 = ops
    BY <1>21, <2>1, MvConstants
  <2>3. a + 1 > MAX_OPS /\ ~(a + 1 <= MAX_OPS)
    BY <1>18, <1>23, MvConstants
  <2>4. RbCounted(list2, st, ops2, base)
    BY <1>20, <1>21, <2>1, <2>2, <2>3 DEF RbCounted
  <2>5. RbFound(list2, st, ops2)
    BY <1>6, <2>2 DEF RbGood, RbFound
  <2> QED
    BY <1>15, <2>4, <2>5 DEF RbGood
<1> QED
  BY <1>22, <1>23

LEMMA RbListDown == MvInv => RbDown(vnodes, store)
<1> SUFFICES ASSUME MvInv PROVE RbDown(vnodes, store)
  OBVIOUS
<1>1. vnodes \in Seq(Mvcc!Node) /\ store \in 0 .. Len(vnodes) /\ MvDown
  BY DEF MvInv, MvTypes
<1>2. Len(vnodes) \in Nat /\ \A n \in 1 .. Len(vnodes) : vnodes[n] \in Mvcc!Node
  BY <1>1, LenProperties, ElementOfSeq
<1>3. \A n \in 1 .. Len(vnodes) : vnodes[n].next \in 0 .. MaxNodes
  BY <1>2 DEF Mvcc!Node
<1>4. \A n \in 1 .. Len(vnodes) : vnodes[n].next \in Nat
  BY <1>3, MvConstants
<1> QED
  BY <1>1, <1>2, <1>4 DEF RbDown, MvDown

LEMMA RbStarts == Mvcc!Init => RbInv
<1> SUFFICES ASSUME Mvcc!Init PROVE RbInv
  OBVIOUS
<1>1. atBegin = <<>> /\ pc[Console] = "joining"
  BY MvConstants DEF Mvcc!Init
<1>2. atBegin \in Seq(Mvcc!Node)
  BY <1>1, EmptySeq
<1> QED
  BY <1>1, <1>2 DEF RbInv, RbOpen

\* The console is not in a transaction.
LEMMA RbNoTx ==
  ASSUME RbInv, atBegin' = atBegin, pc'[Console] \in {"joining", "begin", "exited"},
         pc'[Console] = "joining" \/ \A t \in Threads : pc'[t] = "exited"
  PROVE  RbInv'
BY DEF RbInv, RbOpen

\* While a thread runs, the console waits for it.
LEMMA RbThread ==
  ASSUME MvInv, RbInv, NEW t \in Threads, Mvcc!Step(t)
  PROVE  RbInv'
<1>1. t # Console /\ t \in Mvcc!Actors /\ Console \in Mvcc!Actors
  BY MvConstants
<1>2. pc[t] # "exited" /\ atBegin' = atBegin /\ \E l : pc' = [pc EXCEPT ![t] = l]
  BY <1>1 DEF Mvcc!Step, Mvcc!BeginLoad, Mvcc!BeginStore, Mvcc!Find, Mvcc!Link, Mvcc!Publish,
              Mvcc!Write, Mvcc!Get, Mvcc!Commit, Mvcc!Goto, Mvcc!console
<1>3. pc[Console] = "joining"
  BY <1>2 DEF RbInv
<1>4. pc'[Console] = pc[Console]
  BY <1>1, <1>2 DEF MvInv, MvTypes
<1> QED
  BY <1>2, <1>3, <1>4, RbNoTx

\* The console goes on in its transaction.
LEMMA RbGoesOn ==
  ASSUME MvInv, RbInv, atBegin' = atBegin, pc[Console] # "joining",
         \A t \in Threads : pc'[t] = pc[t],
         pc'[Console] \in {"call", "link", "publish", "body"},
         RbGood(vnodes, store, tx[Console].ops, atBegin)',
         RbAt(vnodes, store, pc[Console], Head(todo[Console]).key, vnode[Console])'
  PROVE  RbInv'
BY DEF RbInv, RbOpen

\* The console moves.
LEMMA RbMoves ==
  ASSUME MvInv, NEW l, Mvcc!Goto(Console, l)
  PROVE  pc'[Console] = l /\ \A t \in Threads : pc'[t] = pc[t]
<1>1. Console \in Mvcc!Actors /\ \A t \in Threads : t \in Mvcc!Actors /\ t # Console
  BY MvConstants
<1> QED
  BY <1>1 DEF MvInv, MvTypes, Mvcc!Goto

LEMMA RbBegin ==
  ASSUME MvInv, RbInv, Mvcc!BeginLoad(Console) \/ Mvcc!BeginStore(Console)
  PROVE  RbInv'
<1>1. CASE Mvcc!BeginLoad(Console)
  <2>1. /\ pc[Console] = "begin" /\ pc'[Console] = "count" /\ \A t \in Threads : pc'[t] = pc[t]
        /\ atBegin' = atBegin
    BY <1>1, RbMoves DEF Mvcc!BeginLoad, Mvcc!console
  <2>2. tx'[Console].ops = <<>>
    <3>1. tx \in [Mvcc!Actors -> MvTx] /\ Console \in Mvcc!Actors
      BY MvConstants DEF MvInv, MvTypes
    <3>2. tx'[Console] = [Mvcc!NoTx EXCEPT !.tid = tid_counter]
      BY <1>1, <3>1 DEF Mvcc!BeginLoad
    <3> QED
      BY <3>2 DEF Mvcc!NoTx
  <2> QED
    BY <2>1, <2>2 DEF RbInv, RbOpen
<1>2. CASE Mvcc!BeginStore(Console)
  <2>1. /\ pc[Console] = "count" /\ pc'[Console] = "call" /\ \A t \in Threads : pc'[t] = pc[t]
        /\ atBegin' = vnodes /\ vnodes' = vnodes /\ store' = store
        /\ tx' = [tx EXCEPT ![Console].start_time = clock]
    BY <1>2, RbMoves DEF Mvcc!BeginStore, Mvcc!list
  <2>2. vnodes \in Seq(Mvcc!Node)
    BY DEF MvInv, MvTypes
  <2>3. tx'[Console].ops = <<>>
    <3>1. tx \in [Mvcc!Actors -> MvTx] /\ Console \in Mvcc!Actors /\ tx[Console].ops = <<>>
      BY <2>1, MvConstants DEF MvInv, MvTypes, RbInv
    <3>2. tx[Console] \in MvTx /\ tx'[Console] = [tx[Console] EXCEPT !.start_time = clock]
      BY <2>1, <3>1
    <3> QED
      BY <3>1, <3>2 DEF MvTx
  <2>4. RbGood(vnodes, store, <<>>, vnodes)
    BY <2>2, RbBegins
  <2>5. RbGood(vnodes, store, tx[Console].ops, atBegin)'
    BY <2>1, <2>3, <2>4
  <2>6. RbAt(vnodes, store, pc[Console], Head(todo[Console]).key, vnode[Console])'
    BY <2>1 DEF RbAt
  <2> QED
    BY <2>1, <2>2, <2>5, <2>6 DEF RbInv, RbOpen
<1> QED
  BY <1>1, <1>2

LEMMA RbFind ==
  ASSUME MvInv, RbInv, Mvcc!Find(Console)
  PROVE  RbInv'
<1>1. /\ pc[Console] = "call" /\ atBegin' = atBegin /\ vnodes' = vnodes /\ store' = store
      /\ tx' = tx /\ todo' = todo
  BY DEF Mvcc!Find, Mvcc!list, Mvcc!console
<1>2. RbGood(vnodes, store, tx[Console].ops, atBegin)'
  BY <1>1 DEF RbInv, RbOpen
<1>3. PICK key : key = Head(todo[Console]).key
  OBVIOUS
<1>4. CASE RbSearch(vnodes, store, key) = {}
  <2>1. Mvcc!Goto(Console, "link")
    BY <1>3, <1>4, RbSame DEF Mvcc!Find
  <2>2. pc'[Console] = "link" /\ \A t \in Threads : pc'[t] = pc[t]
    BY <2>1, RbMoves
  <2>3. RbAt(vnodes, store, pc[Console], Head(todo[Console]).key, vnode[Console])'
    BY <1>1, <1>3, <1>4, <2>2 DEF RbAt
  <2> QED
    BY <1>1, <1>2, <2>2, <2>3, RbGoesOn
<1>5. CASE RbSearch(vnodes, store, key) # {}
  <2>1. /\ Mvcc!Goto(Console, "body")
        /\ \E n \in RbSearch(vnodes, store, key) : vnode' = [vnode EXCEPT ![Console] = n]
    BY <1>3, <1>5, RbSame DEF Mvcc!Find
  <2>2. pc'[Console] = "body" /\ \A t \in Threads : pc'[t] = pc[t]
    BY <2>1, RbMoves
  <2>3. vnode'[Console] \in RbSearch(vnodes, store, key)
    BY <2>1, MvConstants DEF MvInv, MvTypes
  <2>4. RbAt(vnodes, store, pc[Console], Head(todo[Console]).key, vnode[Console])'
    BY <1>1, <1>3, <2>2, <2>3 DEF RbAt
  <2> QED
    BY <1>1, <1>2, <2>2, <2>4, RbGoesOn
<1> QED
  BY <1>4, <1>5

LEMMA RbLink ==
  ASSUME MvInv, MvInv', RbInv, Mvcc!Link(Console)
  PROVE  RbInv'
<1>1. /\ pc[Console] = "link" /\ atBegin' = atBegin /\ store' = store
      /\ tx' = tx /\ todo' = todo /\ pc'[Console] = "publish" /\ \A t \in Threads : pc'[t] = pc[t]
  BY RbMoves DEF Mvcc!Link, Mvcc!console
<1>2. PICK key : key = Head(todo[Console]).key
  OBVIOUS
<1>3. PICK b : b = [key |-> key, versions |-> <<>>, next |-> store]
  OBVIOUS
<1>4. vnodes' = Append(vnodes, b) /\ b.versions = <<>> /\ b.key = key /\ b.next = store
  BY <1>2, <1>3 DEF Mvcc!Link
<1>5. b \in Mvcc!Node
  <2>1. todo[Console] \in Seq(Mvcc!Ops) /\ todo[Console] # <<>>
    BY <1>1, MvConstants DEF MvInv, MvTypes, MvPlaces
  <2>2. Head(todo[Console]) \in Mvcc!Ops
    BY <2>1
  <2>3. key \in MvKeys
    BY <1>2, <2>2 DEF Mvcc!Ops
  <2>4. store \in 0 .. MaxNodes /\ <<>> \in Seq(Mvcc!Version)
    BY MvConstants, LenProperties DEF MvInv, MvTypes
  <2> QED
    BY <1>3, <2>3, <2>4 DEF Mvcc!Node
<1>6. PICK list2 : list2 = vnodes'
  OBVIOUS
<1>7. RbDown(vnodes, store) /\ RbDown(list2, store)
  <2>1. RbDown(vnodes, store)'
    BY RbListDown, PTL
  <2> QED
    BY <1>1, <1>6, <2>1, RbListDown
<1>8. PICK ops : ops = tx[Console].ops
  OBVIOUS
<1>9. vnodes \in Seq(Mvcc!Node) /\ atBegin \in Seq(Mvcc!Node) /\ RbGood(vnodes, store, ops, atBegin)
      /\ list2 = Append(vnodes, b)
  BY <1>1, <1>4, <1>6, <1>8 DEF MvInv, MvTypes, RbInv, RbOpen
<1>10. /\ RbGood(list2, store, ops, atBegin)
       /\ \A k : RbSearch(list2, store, k) = RbSearch(vnodes, store, k)
  <2>1. PICK list, st, base : list = vnodes /\ st = store /\ base = atBegin
    OBVIOUS
  <2>2. /\ list \in Seq(Mvcc!Node) /\ base \in Seq(Mvcc!Node) /\ RbGood(list, st, ops, base)
        /\ list2 = Append(list, b) /\ RbDown(list, st) /\ RbDown(list2, st)
        /\ b \in Mvcc!Node /\ b.versions = <<>>
    BY <1>4, <1>5, <1>7, <1>9, <2>1
  <2>3. /\ RbGood(list2, st, ops, base)
        /\ RbAlso(list2, list, st)
    BY ONLY <2>2, RbLinked
  <2> QED
    BY <2>1, <2>3 DEF RbAlso
<1>11. RbGood(vnodes, store, tx[Console].ops, atBegin)'
  BY <1>1, <1>6, <1>8, <1>10
<1>12. RbSearch(vnodes, store, key) = {}
  BY <1>1, <1>2 DEF RbInv, RbOpen, RbAt
<1>13. vnode'[Console] = Len(list2) /\ list2[Len(list2)] = b
  <2>1. vnode' = [vnode EXCEPT ![Console] = Len(list2)]
    BY <1>6 DEF Mvcc!Link
  <2>2. Len(Append(vnodes, b)) = Len(vnodes) + 1 /\ Append(vnodes, b)[Len(vnodes) + 1] = b
    BY <1>5, <1>9, AppendProperties
  <2> QED
    BY <1>9, <2>1, <2>2, MvConstants DEF MvInv, MvTypes
<1>14. RbAt(vnodes, store, pc[Console], Head(todo[Console]).key, vnode[Console])'
  BY <1>1, <1>2, <1>4, <1>6, <1>10, <1>12, <1>13 DEF RbAt
<1> QED
  BY <1>1, <1>11, <1>14, RbGoesOn

LEMMA RbPublish ==
  ASSUME MvInv, RbInv, Mvcc!Publish(Console)
  PROVE  RbInv'
<1>1. /\ pc[Console] = "publish" /\ atBegin' = atBegin /\ store' = vnode[Console]
      /\ tx' = tx /\ todo' = todo /\ vnodes' = vnodes /\ vnode' = vnode
      /\ pc'[Console] = "body" /\ \A t \in Threads : pc'[t] = pc[t]
  BY RbMoves DEF Mvcc!Publish, Mvcc!console
<1>2. PICK key : key = Head(todo[Console]).key
  OBVIOUS
<1>3. PICK new : new = vnode[Console]
  OBVIOUS
<1>4. PICK ops : ops = tx[Console].ops
  OBVIOUS
<1>5. /\ RbSearch(vnodes, store, key) = {} /\ vnodes[new].key = key /\ vnodes[new].next = store
      /\ RbGood(vnodes, store, ops, atBegin)
  BY <1>1, <1>2, <1>3, <1>4 DEF RbInv, RbOpen, RbAt
<1>6. new \in 1 .. Len(vnodes) /\ RbDown(vnodes, store)
  <2>1. new \in 0 .. Len(vnodes) /\ new # 0 /\ Len(vnodes) \in Nat
    BY <1>1, <1>3, MvConstants, LenProperties DEF MvInv, MvTypes, MvPlaces
  <2> QED
    BY <2>1, RbListDown
<1>7. RbSearch(vnodes, new, key) = {new}
  <2>1. vnodes[new].next = store /\ vnodes[new].key = key
    BY <1>5
  <2>2. RbFoundOnly(vnodes, new, key, new)
    BY ONLY <1>6, <2>1, RbPublished
  <2> QED
    BY <2>2 DEF RbFoundOnly
<1>8. \A k \in 1 .. Len(ops) : RbSearch(vnodes, new, ops[k].key) = RbSearch(vnodes, store, ops[k].key)
  <2>1. \A k \in 1 .. Len(ops) : ops[k].key # key
    BY <1>5 DEF RbGood, RbFound
  <2> QED
    BY <1>5, <1>6, <2>1, RbPublished
<1>9. RbGood(vnodes, new, ops, atBegin)
  BY <1>5, <1>8, RbAlike
<1>10. RbGood(vnodes, store, tx[Console].ops, atBegin)'
  BY <1>1, <1>3, <1>4, <1>9
<1>11. RbAt(vnodes, store, pc[Console], Head(todo[Console]).key, vnode[Console])'
  BY <1>1, <1>2, <1>3, <1>7 DEF RbAt
<1> QED
  BY <1>1, <1>10, <1>11, RbGoesOn

\* What Write does, to the node it has and to the transaction.
RbOneMore(list2, list, n, v) ==
  /\ Len(list2) = Len(list) /\ list2[n].versions = <<v>> \o list[n].versions
  /\ \A m \in 1 .. Len(list) : list2[m].key = list[m].key /\ list2[m].next = list[m].next
  /\ \A m \in 1 .. Len(list) : m # n => list2[m].versions = list[m].versions
RbRecorded(ops2, ops, e) == ops2 = IF Len(ops) < MAX_OPS THEN Append(ops, e) ELSE ops

LEMMA RbWrote ==
  ASSUME NEW list \in Seq(Mvcc!Node), NEW st, NEW ops \in Seq(Mvcc!Logged),
         NEW base \in Seq(Mvcc!Node), RbGood(list, st, ops, base), RbDown(list, st),
         NEW e \in Mvcc!Logged, NEW n \in RbSearch(list, st, e.key), NEW v \in Mvcc!Version,
         NEW list2, RbOneMore(list2, list, n, v), NEW ops2, RbRecorded(ops2, ops, e)
  PROVE  RbGood(list2, st, ops2, base)
BY RbWritten DEF RbOneMore, RbRecorded

LEMMA RbWrite ==
  ASSUME MvInv, RbInv, Mvcc!Write(Console)
  PROVE  RbInv'
<1>1. PICK c : c = Head(todo[Console])
  OBVIOUS
<1>2. PICK x : x = tx[Console]
  OBVIOUS
<1>3. PICK v : v = [value |-> IF c.op = "SET" THEN "text" ELSE "empty",
                    timestamp |-> clock, tid |-> x.tid]
  OBVIOUS
<1>4. PICK n : n = vnode[Console]
  OBVIOUS
<1>5. /\ pc[Console] = "body" /\ c.op \in {"SET", "DEL"} /\ atBegin' = atBegin /\ store' = store
      /\ vnodes' = [vnodes EXCEPT ![n].versions = <<v>> \o @]
      /\ tx' = [tx EXCEPT ![Console] = Mvcc!WithOp(x, c, clock)]
      /\ pc'[Console] = "call" /\ \A t \in Threads : pc'[t] = pc[t]
  BY <1>1, <1>2, <1>3, <1>4, RbMoves DEF Mvcc!Write, Mvcc!console
<1>6. /\ vnodes \in Seq(Mvcc!Node) /\ x \in MvTx /\ clock \in 0 .. MaxClock
      /\ tx \in [Mvcc!Actors -> MvTx] /\ Console \in Mvcc!Actors
  BY <1>2, MvConstants DEF MvInv, MvTypes
<1>7. c \in Mvcc!Ops
  <2>1. todo[Console] \in Seq(Mvcc!Ops) /\ todo[Console] # <<>>
    BY <1>5, <1>6 DEF MvInv, MvTypes, MvPlaces
  <2> QED
    BY <1>1, <2>1
<1>8. x.tid \in Nat /\ x.ops \in Seq(Mvcc!Logged) /\ c.key \in MvKeys
  BY <1>6, <1>7 DEF MvTx, Mvcc!Ops
<1>9. v \in Mvcc!Version
  BY <1>3, <1>6, <1>8 DEF Mvcc!Version
<1>10. PICK e : e = [tid |-> x.tid, op |-> c.op, key |-> c.key, ts |-> clock]
  OBVIOUS
<1>11. e \in Mvcc!Logged /\ e.key = c.key
  BY <1>5, <1>6, <1>8, <1>10 DEF Mvcc!Logged
<1>12. PICK ops2 : ops2 = tx'[Console].ops
  OBVIOUS
<1>13. PICK ops : ops = x.ops
  OBVIOUS
<1>14. RbRecorded(ops2, ops, e)
  <2>1. tx'[Console] = Mvcc!WithOp(x, c, clock)
    BY <1>5, <1>6
  <2>2. CASE Len(ops) < MAX_OPS
    <3>1. Mvcc!WithOp(x, c, clock) = [x EXCEPT !.ops = Append(ops, e)]
      BY <1>10, <1>13, <2>2 DEF Mvcc!WithOp
    <3>2. PICK q : q = Append(ops, e)
      OBVIOUS
    <3>3. ops2 = q
      BY <1>6, <1>12, <2>1, <3>1, <3>2 DEF MvTx
    <3> QED
      BY <2>2, <3>2, <3>3 DEF RbRecorded
  <2>3. CASE ~(Len(ops) < MAX_OPS)
    BY <1>12, <1>13, <2>1, <2>3 DEF Mvcc!WithOp, RbRecorded
  <2> QED
    BY <2>2, <2>3
<1>15. RbGood(vnodes, store, ops, atBegin) /\ n \in RbSearch(vnodes, store, e.key)
  BY <1>1, <1>2, <1>4, <1>5, <1>11, <1>13 DEF RbInv, RbOpen, RbAt
<1>16. n \in 1 .. Len(vnodes) /\ DOMAIN vnodes = 1 .. Len(vnodes) /\ vnodes[n] \in Mvcc!Node
  <2>1. n \in 1 .. Len(vnodes)
    BY <1>6, <1>15, LenProperties DEF RbSearch, RbPassed
  <2> QED
    BY <1>6, <2>1, LenProperties, ElementOfSeq
<1>17. PICK r : r = <<v>> \o vnodes[n].versions
  OBVIOUS
<1>18. PICK b : b = [vnodes[n] EXCEPT !.versions = r]
  OBVIOUS
<1>19. PICK list2 : list2 = vnodes'
  OBVIOUS
<1>20. list2 = [vnodes EXCEPT ![n] = b]
  BY <1>5, <1>17, <1>18, <1>19
<1>21. b.versions = r /\ b.key = vnodes[n].key /\ b.next = vnodes[n].next /\ b \in Mvcc!Node
  <2>1. vnodes[n].versions \in Seq(Mvcc!Version)
    BY <1>16 DEF Mvcc!Node
  <2>2. <<v>> \in Seq(Mvcc!Version)
    BY <1>9
  <2>3. r \in Seq(Mvcc!Version)
    BY <1>17, <2>1, <2>2, ConcatProperties
  <2> QED
    BY <1>16, <1>18, <2>3 DEF Mvcc!Node
<1>22. RbOneMore(list2, vnodes, n, v)
  <2>1. /\ Len([vnodes EXCEPT ![n] = b]) = Len(vnodes)
        /\ \A i \in 1 .. Len(vnodes) : [vnodes EXCEPT ![n] = b][i] = IF i = n THEN b ELSE vnodes[i]
    BY <1>6, <1>16, <1>21, ExceptSeq
  <2>2. Len(list2) = Len(vnodes) /\ \A i \in 1 .. Len(vnodes) : list2[i] = IF i = n THEN b ELSE vnodes[i]
    BY <1>20, <2>1
  <2>3. list2[n].versions = <<v>> \o vnodes[n].versions
    BY <1>16, <1>17, <1>21, <2>2
  <2>4. \A m \in 1 .. Len(vnodes) : list2[m].key = vnodes[m].key /\ list2[m].next = vnodes[m].next
    BY <1>21, <2>2
  <2>5. \A m \in 1 .. Len(vnodes) : m # n => list2[m].versions = vnodes[m].versions
    BY <2>2
  <2> QED
    BY ONLY <2>2, <2>3, <2>4, <2>5 DEF RbOneMore
<1>23. RbGood(list2, store, ops2, atBegin)
  <2>1. PICK base : base = atBegin
    OBVIOUS
  <2>2. base \in Seq(Mvcc!Node) /\ RbGood(vnodes, store, ops, base) /\ RbDown(vnodes, store)
        /\ ops \in Seq(Mvcc!Logged) /\ vnodes \in Seq(Mvcc!Node) /\ n \in RbSearch(vnodes, store, e.key)
        /\ e \in Mvcc!Logged
    BY <1>6, <1>8, <1>11, <1>13, <1>15, <2>1, RbListDown DEF RbInv
  <2>3. RbGood(list2, store, ops2, base)
    BY ONLY <1>9, <1>14, <1>22, <2>2, RbWrote
  <2> QED
    BY <2>1, <2>3
<1>24. RbGood(vnodes, store, tx[Console].ops, atBegin)'
  BY <1>5, <1>12, <1>19, <1>23
<1>25. RbAt(vnodes, store, pc[Console], Head(todo[Console]).key, vnode[Console])'
  BY <1>5 DEF RbAt
<1> QED
  BY <1>5, <1>24, <1>25, RbGoesOn

LEMMA RbStep == MvInv /\ RbInv /\ (Mvcc!Next \/ UNCHANGED versioned) => RbInv'
<1> SUFFICES ASSUME MvInv, RbInv, Mvcc!Next \/ UNCHANGED versioned PROVE RbInv'
  OBVIOUS
<1>1. CASE UNCHANGED versioned
  BY <1>1 DEF versioned, RbInv, RbOpen
<1>2. CASE Mvcc!Tick
  BY <1>2 DEF Mvcc!Tick, Mvcc!list, Mvcc!console, RbInv, RbOpen
<1>3. CASE Mvcc!Joined
  <2>1. pc'[Console] = "begin" /\ \A t \in Threads : pc'[t] = pc[t]
    BY <1>3, RbMoves DEF Mvcc!Joined
  <2>2. atBegin' = atBegin /\ \A t \in Threads : pc[t] = "exited"
    BY <1>3 DEF Mvcc!Joined, Mvcc!console
  <2> QED
    BY <2>1, <2>2, RbNoTx
<1>4. ASSUME NEW c \in Mvcc!Ops, Mvcc!Command(c) PROVE RbInv'
  <2>1. /\ pc[Console] = "call" /\ pc' = pc /\ vnodes' = vnodes /\ store' = store /\ tx' = tx
        /\ atBegin' = atBegin
    BY <1>4 DEF Mvcc!Command, Mvcc!Typed, Mvcc!list
  <2>2. RbGood(vnodes, store, tx[Console].ops, atBegin)'
    BY <2>1 DEF RbInv, RbOpen
  <2>3. RbAt(vnodes, store, pc[Console], Head(todo[Console]).key, vnode[Console])'
    BY <2>1 DEF RbAt
  <2> QED
    BY <2>1, <2>2, <2>3, RbGoesOn
<1>5. CASE Mvcc!Rollback \/ Mvcc!Exit \/ Mvcc!Commit(Console)
  <2>1. /\ pc[Console] = "call" /\ atBegin' = atBegin
        /\ Mvcc!Goto(Console, "begin") \/ Mvcc!Goto(Console, "exited")
    BY <1>5 DEF Mvcc!Rollback, Mvcc!Exit, Mvcc!Commit, Mvcc!Typed, Mvcc!console
  <2>2. pc'[Console] \in {"begin", "exited"} /\ \A t \in Threads : pc'[t] = pc[t]
    BY <2>1, RbMoves
  <2>3. \A t \in Threads : pc'[t] = "exited"
    BY <2>1, <2>2 DEF RbInv
  <2> QED
    BY <2>1, <2>2, <2>3, RbNoTx
<1>6. CASE Mvcc!Get(Console)
  <2>1. /\ pc[Console] = "body" /\ vnodes' = vnodes /\ store' = store /\ tx' = tx
        /\ atBegin' = atBegin /\ Mvcc!Goto(Console, "call")
    BY <1>6 DEF Mvcc!Get, Mvcc!list, Mvcc!console
  <2>2. pc'[Console] = "call" /\ \A t \in Threads : pc'[t] = pc[t]
    BY <2>1, RbMoves
  <2>3. RbGood(vnodes, store, tx[Console].ops, atBegin)'
    BY <2>1 DEF RbInv, RbOpen
  <2>4. RbAt(vnodes, store, pc[Console], Head(todo[Console]).key, vnode[Console])'
    BY <2>2 DEF RbAt
  <2> QED
    BY <2>1, <2>2, <2>3, <2>4, RbGoesOn
<1>7. CASE Mvcc!Link(Console)
  <2>1. MvInv'
    BY <1>7, MvLink, MvConstants
  <2> QED
    BY <1>7, <2>1, RbLink
<1>8. CASE Mvcc!Step(Console)
  BY <1>5, <1>6, <1>7, <1>8, RbBegin, RbFind, RbPublish, RbWrite DEF Mvcc!Step
<1>9. ASSUME NEW t \in Mvcc!Actors, Mvcc!Step(t) PROVE RbInv'
  BY <1>8, <1>9, RbThread, MvConstants
<1> QED
  BY <1>1, <1>2, <1>3, <1>4, <1>5, <1>9 DEF Mvcc!Next

\* What is left of a node's versions when those that were added are dropped.
LEMMA RbDropped ==
  ASSUME NEW s \in Seq(Mvcc!Version), NEW b \in Seq(Mvcc!Version), RbEnds(s, b), NEW x,
         x = Len(s) - Len(b)
  PROVE  Mvcc!DropFirst(s, x) = b
<1>1. PICK c : c = Len(s) /\ c \in Nat
  BY LenProperties
<1>2. PICK d : d = Len(b) /\ d \in Nat
  BY LenProperties
<1>3. d <= c /\ x = c - d /\ \A k \in 1 .. d : s[c - d + k] = b[k]
  BY <1>1, <1>2 DEF RbEnds
<1>4. x \in Nat /\ x <= c /\ (IF x < c THEN x ELSE c) = x
  BY <1>1, <1>2, <1>3
<1>5. Mvcc!DropFirst(s, x) = SubSeq(s, 1 + x, c)
  BY <1>1, <1>4 DEF Mvcc!DropFirst
<1>6. PICK q : q = SubSeq(s, 1 + x, c)
  OBVIOUS
<1>7. /\ q \in Seq(Mvcc!Version) /\ Len(q) = d
      /\ \A k \in 1 .. d : q[k] = s[x + k]
  <2>1. PICK i : i = 1 + x /\ i \in 1 .. c + 1
    BY <1>1, <1>4
  <2>2. /\ q = SubSeq(s, i, c) /\ c \in i - 1 .. c
    BY <1>1, <1>4, <1>6, <2>1
  <2>3. q = [k \in 1 .. (c - i + 1) |-> s[i + k - 1]]
    BY <1>1, <2>1, <2>2
  <2>4. c - i + 1 = d /\ \A k \in 1 .. d : i + k - 1 = x + k /\ x + k \in 1 .. c
    BY <1>1, <1>2, <1>3, <2>1
  <2>5. \A k \in 1 .. d : q[k] = s[x + k] /\ s[x + k] \in Mvcc!Version
    BY <1>1, <2>3, <2>4, ElementOfSeq
  <2>6. q = [k \in 1 .. d |-> s[i + k - 1]]
    BY <2>3, <2>4
  <2>7. \A k \in 1 .. d : s[i + k - 1] \in Mvcc!Version
    BY <2>4, <2>5
  <2>8. q \in Seq(Mvcc!Version)
    BY <1>2, <2>6, <2>7
  <2>9. Len(q) = d
    BY <1>2, <2>6
  <2> QED
    BY <2>5, <2>8, <2>9
<1>8. \A k \in 1 .. d : q[k] = b[k]
  BY <1>3, <1>7
<1>9. q = b
  BY <1>2, <1>7, <1>8, SeqEqual
<1> QED
  BY <1>5, <1>6, <1>9

LEMMA RbImplies == MvInv /\ RbInv => Mvcc!RollbackUndoes
<1> SUFFICES ASSUME MvInv, RbInv, Mvcc!Rollback, Mvcc!Cardinality(Mvcc!Added) <= MAX_OPS,
                    NEW n \in DOMAIN vnodes'
             PROVE  vnodes'[n].versions = IF n \in DOMAIN atBegin THEN atBegin[n].versions ELSE <<>>
  BY DEF Mvcc!RollbackUndoes
<1>1. /\ pc[Console] = "call"
      /\ vnodes' = [i \in DOMAIN vnodes |->
                      [vnodes[i] EXCEPT !.versions = Mvcc!DropFirst(@, Mvcc!Undone(i))]]
  BY DEF Mvcc!Rollback
<1>2. PICK l : l = Len(vnodes) /\ l \in Nat /\ DOMAIN vnodes = 1 .. l /\ n \in 1 .. l
  BY <1>1, LenProperties DEF MvInv, MvTypes
<1>3. PICK ops : ops = tx[Console].ops
  OBVIOUS
<1>4. RbGood(vnodes, store, ops, atBegin) /\ atBegin \in Seq(Mvcc!Node)
  BY <1>1, <1>3 DEF RbInv, RbOpen
<1>5. \A m : RbExtra(vnodes, atBegin, m) = Mvcc!Extra(m)
  <2>1. \A m : Len(RbBase(atBegin, m)) = IF m \in DOMAIN atBegin THEN Len(atBegin[m].versions) ELSE 0
    BY DEF RbBase
  <2> QED
    BY <2>1 DEF RbExtra, Mvcc!Extra
<1>6. Mvcc!Added = RbAdded(vnodes, atBegin)
  BY <1>2, <1>5 DEF Mvcc!Added, RbAdded
<1>7. RbExact(vnodes, store, ops, atBegin)
  BY <1>4, <1>6, MvConstants DEF RbGood, RbCounted
<1>8. Mvcc!Undone(n) = RbExtra(vnodes, atBegin, n)
  <2>1. tx[Console] \in MvTx
    BY MvConstants DEF MvInv, MvTypes
  <2>2. DOMAIN ops = 1 .. Len(ops)
    BY <1>3, <2>1, LenProperties DEF MvTx
  <2>3. {k \in DOMAIN tx[Console].ops : n \in Mvcc!Search(tx[Console].ops[k].key)}
          = RbHits(vnodes, store, ops, n)
    BY <1>3, <2>2, RbSame DEF RbHits
  <2>4. Mvcc!Undone(n) = Cardinality(RbHits(vnodes, store, ops, n))
    BY <2>3, MvConstants DEF Mvcc!Undone
  <2> QED
    BY <1>2, <1>7, <2>4 DEF RbExact
<1>9. PICK s : s = vnodes[n].versions
  OBVIOUS
<1>10. PICK b : b = RbBase(atBegin, n)
  OBVIOUS
<1>11. vnodes[n] \in Mvcc!Node /\ s \in Seq(Mvcc!Version)
  <2>1. vnodes[n] \in Mvcc!Node
    BY <1>2, ElementOfSeq DEF MvInv, MvTypes
  <2> QED
    BY <1>9, <2>1 DEF Mvcc!Node
<1>12. b \in Seq(Mvcc!Version)
  <2>1. CASE n \in DOMAIN atBegin
    <3>1. atBegin[n] \in Mvcc!Node
      BY <1>4, <2>1, LenProperties, ElementOfSeq
    <3> QED
      BY <1>10, <2>1, <3>1 DEF Mvcc!Node, RbBase
  <2>2. CASE n \notin DOMAIN atBegin
    BY <1>10, <2>2, EmptySeq DEF RbBase
  <2> QED
    BY <2>1, <2>2
<1>13. RbEnds(s, b) /\ Mvcc!Undone(n) = Len(s) - Len(b)
  BY <1>2, <1>4, <1>8, <1>9, <1>10 DEF RbGood, RbKept, RbExtra
<1>14. PICK u : u = Mvcc!Undone(n)
  OBVIOUS
<1>15. Mvcc!DropFirst(s, u) = b
  BY <1>11, <1>12, <1>13, <1>14, RbDropped
<1>16. PICK q : q = Mvcc!DropFirst(s, u)
  OBVIOUS
<1>17. vnodes'[n] = [vnodes[n] EXCEPT !.versions = q]
  BY <1>1, <1>2, <1>9, <1>14, <1>16
<1>18. vnodes'[n].versions = q
  BY <1>11, <1>17 DEF Mvcc!Node
<1> QED
  BY <1>10, <1>15, <1>16, <1>18 DEF RbBase

-----------------------------------------------------------------------------
(* Page replacement.  A list is described by how often it has each page,   *)
(* so that what ARC does is adding and subtracting.                        *)

PrTimes(s, x) == Cardinality({i \in DOMAIN s : s[i] = x})

\* A list has a page a finite number of times.
LEMMA PrFinite ==
  ASSUME NEW S, NEW s \in Seq(S), NEW x
  PROVE  IsFiniteSet({i \in DOMAIN s : s[i] = x}) /\ PrTimes(s, x) \in Nat
<1> DEFINE A == {i \in DOMAIN s : s[i] = x}
<1>1. A \in SUBSET (1 .. Len(s)) /\ Len(s) \in Nat
  OBVIOUS
<1>2. IsFiniteSet(1 .. Len(s))
  BY <1>1, FS_Interval
<1>3. IsFiniteSet(A)
  BY <1>1, <1>2, FS_Subset
<1> QED
  BY <1>3, FS_CardinalityType DEF PrTimes

\* A page is in a list if it is there at least once.
LEMMA PrContains ==
  ASSUME NEW S, NEW s \in Seq(S), NEW x
  PROVE  (PrTimes(s, x) = 0) <=> (\A i \in DOMAIN s : s[i] # x)
<1> DEFINE A == {i \in DOMAIN s : s[i] = x}
<1>1. IsFiniteSet(A)
  BY PrFinite
<1>2. (Cardinality(A) = 0) <=> (A = {})
  BY <1>1, FS_EmptySet
<1> QED
  BY <1>2 DEF PrTimes

\* At most once means at one place.
LEMMA PrOnce ==
  ASSUME NEW S, NEW s \in Seq(S), NEW x, NEW i \in DOMAIN s, NEW j \in DOMAIN s,
         s[i] = x, s[j] = x, PrTimes(s, x) <= 1
  PROVE  i = j
<1> DEFINE A == {k \in DOMAIN s : s[k] = x}
<1>1. IsFiniteSet(A) /\ Cardinality(A) \in Nat /\ Cardinality(A) <= 1
  BY PrFinite DEF PrTimes
<1>2. Cardinality(A) # 0
  BY <1>1, FS_EmptySet
<1>3. Cardinality(A) = 1
  BY <1>1, <1>2
<1>4. PICK y : A = {y}
  BY <1>1, <1>3, FS_Singleton
<1>5. i \in A /\ j \in A
  OBVIOUS
<1> QED
  BY <1>4, <1>5

\* Moving a set of positions keeps their number.
LEMMA PrShifted ==
  ASSUME NEW T, IsFiniteSet(T), T \subseteq Nat, NEW n \in Nat
  PROVE  IsFiniteSet({n + j : j \in T}) /\ Cardinality({n + j : j \in T}) = Cardinality(T)
<1> DEFINE U == {n + j : j \in T}
           f == [j \in T |-> n + j]
<1>1. f \in Bijection(T, U)
  <2>1. f \in [T -> U]
    OBVIOUS
  <2>2. \A a, b \in T : f[a] = f[b] => a = b
    OBVIOUS
  <2>3. \A u \in U : \E a \in T : f[a] = u
    OBVIOUS
  <2> QED
    BY <2>1, <2>2, <2>3 DEF Bijection, Injection, Surjection, IsInjective
<1>2. ExistsBijection(T, U)
  BY <1>1 DEF ExistsBijection
<1> QED
  BY <1>2, FS_Bijection

\* Joined lists have a page as often as both together.
LEMMA PrConcat ==
  ASSUME NEW S, NEW s \in Seq(S), NEW t \in Seq(S), NEW x
  PROVE  PrTimes(s \o t, x) = PrTimes(s, x) + PrTimes(t, x)
<1> PICK r : r = s \o t
  OBVIOUS
<1> DEFINE A == {i \in DOMAIN s : s[i] = x}
           B == {i \in DOMAIN t : t[i] = x}
           C == {i \in DOMAIN r : r[i] = x}
           D == {Len(s) + j : j \in B}
<1>1. /\ r \in Seq(S) /\ Len(r) = Len(s) + Len(t)
      /\ \A i \in 1 .. Len(s) + Len(t) : r[i] = IF i <= Len(s) THEN s[i] ELSE t[i - Len(s)]
  BY ConcatProperties
<1>2. /\ Len(s) \in Nat /\ DOMAIN s = 1 .. Len(s)
      /\ Len(t) \in Nat /\ DOMAIN t = 1 .. Len(t)
      /\ DOMAIN r = 1 .. Len(s) + Len(t)
  BY <1>1, LenProperties
<1>3. C = A \cup D
  <2>1. ASSUME NEW i \in C PROVE i \in A \cup D
    <3>1. CASE i <= Len(s)
      BY <1>1, <1>2, <3>1
    <3>2. CASE i > Len(s)
      <4>1. PICK j \in Int : j = i - Len(s)
        BY <1>2
      <4>2. j \in 1 .. Len(t) /\ t[j] = x /\ i = Len(s) + j
        BY <1>1, <1>2, <3>2, <4>1
      <4> QED
        BY <1>2, <4>2
    <3> QED
      BY <1>2, <3>1, <3>2
  <2>2. ASSUME NEW i \in A PROVE i \in C
    BY <1>1, <1>2
  <2>3. ASSUME NEW j \in B PROVE Len(s) + j \in C
    <3>1. PICK i \in Int : i = Len(s) + j
      BY <1>2
    <3>2. i \in 1 .. Len(s) + Len(t) /\ ~(i <= Len(s)) /\ i - Len(s) = j
      BY <1>2, <3>1
    <3>3. r[i] = t[j]
      BY <1>1, <3>2
    <3> QED
      BY <1>2, <3>1, <3>2, <3>3
  <2> QED
    BY <2>1, <2>2, <2>3
<1>4. A \cap D = {}
  BY <1>2
<1>5. IsFiniteSet(A) /\ IsFiniteSet(B) /\ B \subseteq Nat
  <2>1. IsFiniteSet(A)
    BY PrFinite
  <2>2. IsFiniteSet(B)
    BY PrFinite
  <2>3. B \subseteq Nat
    BY <1>2
  <2> QED
    BY <2>1, <2>2, <2>3
<1>6. IsFiniteSet(D) /\ Cardinality(D) = Cardinality(B)
  <2> HIDE DEF B
  <2> QED
    BY <1>2, <1>5, PrShifted
<1>7. Cardinality(A) \in Nat /\ Cardinality(D) \in Nat /\ Cardinality(A \cap D) = 0
  BY <1>4, <1>5, <1>6, FS_CardinalityType, FS_EmptySet
<1>8. Cardinality(A \cup D) = Cardinality(A) + Cardinality(D) - Cardinality(A \cap D)
  BY <1>5, <1>6, FS_Union
<1>9. Cardinality(C) = Cardinality(A) + Cardinality(B)
  <2> HIDE DEF A, B, C, D
  <2> QED
    BY <1>3, <1>6, <1>7, <1>8
<1> QED
  BY <1>9 DEF PrTimes

\* A list of one page.
LEMMA PrSingle ==
  ASSUME NEW v, NEW x
  PROVE  PrTimes(<<v>>, x) = IF v = x THEN 1 ELSE 0
<1> DEFINE A == {i \in DOMAIN <<v>> : <<v>>[i] = x}
<1>1. A = IF v = x THEN {1} ELSE {}
  OBVIOUS
<1>2. Cardinality(A) = IF v = x THEN 1 ELSE 0
  BY <1>1, FS_Singleton, FS_EmptySet
<1> QED
  BY <1>2 DEF PrTimes

\* The empty list.
LEMMA PrNone ==
  ASSUME NEW x
  PROVE  PrTimes(<<>>, x) = 0
<1>1. {i \in DOMAIN <<>> : <<>>[i] = x} = {}
  OBVIOUS
<1> QED
  BY <1>1, FS_EmptySet DEF PrTimes

\* addToFront.
LEMMA PrFront ==
  ASSUME NEW S, NEW s \in Seq(S), NEW v \in S
  PROVE  /\ <<v>> \o s \in Seq(S) /\ Len(<<v>> \o s) = Len(s) + 1
         /\ (<<v>> \o s)[1] = v
         /\ \A k \in 1 .. Len(s) : (<<v>> \o s)[k + 1] = s[k]
         /\ \A x : PrTimes(<<v>> \o s, x) = PrTimes(s, x) + (IF v = x THEN 1 ELSE 0)
<1>1. <<v>> \in Seq(S) /\ Len(<<v>>) = 1 /\ <<v>>[1] = v
  OBVIOUS
<1>2. PICK u : u = <<v>>
  OBVIOUS
<1>3. PICK r : r = u \o s
  OBVIOUS
<1>4. /\ r \in Seq(S) /\ Len(r) = Len(u) + Len(s)
      /\ \A i \in 1 .. Len(u) + Len(s) : r[i] = IF i <= Len(u) THEN u[i] ELSE s[i - Len(u)]
  BY <1>1, <1>2, <1>3, ConcatProperties
<1>5. Len(s) \in Nat
  OBVIOUS
<1>6. r[1] = v
  BY <1>1, <1>2, <1>4, <1>5
<1>7. ASSUME NEW k \in 1 .. Len(s) PROVE r[k + 1] = s[k]
  <2>1. PICK i \in Int : i = k + 1
    OBVIOUS
  <2>2. i \in 1 .. 1 + Len(s) /\ ~(i <= 1) /\ i - 1 = k
    BY <1>5, <2>1
  <2> QED
    BY <1>1, <1>2, <1>4, <2>1, <2>2
<1>8. ASSUME NEW x PROVE PrTimes(r, x) = PrTimes(s, x) + (IF v = x THEN 1 ELSE 0)
  <2>1. PrTimes(r, x) = PrTimes(u, x) + PrTimes(s, x)
    BY <1>1, <1>2, <1>3, PrConcat
  <2>2. PrTimes(u, x) = IF v = x THEN 1 ELSE 0
    BY <1>2, PrSingle
  <2>3. PrTimes(s, x) \in Nat
    BY PrFinite
  <2> QED
    BY <2>1, <2>2, <2>3
<1> QED
  BY <1>1, <1>2, <1>3, <1>4, <1>5, <1>6, <1>7, <1>8

\* removeNode: the node is the first with the page, the others close up.
PrLess(S, s, x, r) ==
  /\ r \in Seq(S) /\ Len(r) = Len(s) - 1
  /\ \A y : PrTimes(r, y) = PrTimes(s, y) - (IF x = y THEN 1 ELSE 0)
  /\ \E i \in 1 .. Len(s) :
       /\ s[i] = x
       /\ \A k \in 1 .. i - 1 : r[k] = s[k] /\ s[k] # x
       /\ \A k \in i .. Len(s) - 1 : r[k] = s[k + 1]
LEMMA PrRemove ==
  ASSUME NEW S, NEW s \in Seq(S), NEW x, \E k \in DOMAIN s : s[k] = x,
         NEW r, r = Policies!removeNode(s, x)
  PROVE  PrLess(S, s, x, r)
<1> DEFINE K == {k \in DOMAIN s : s[k] = x}
<1>1. Len(s) \in Nat /\ DOMAIN s = 1 .. Len(s)
  OBVIOUS
<1>2. K \subseteq Nat /\ K # {}
  BY <1>1
<1>3. \E k \in K : \A l \in K : k <= l
  BY <1>2, MvLeast
<1>4. PICK i : i = Policies!Min(K)
  OBVIOUS
<1>5. i \in K /\ \A l \in K : i <= l
  BY <1>3, <1>4 DEF Policies!Min
<1>6. i \in 1 .. Len(s) /\ s[i] = x /\ \A k \in 1 .. i - 1 : s[k] # x
  <2>1. ASSUME NEW k \in 1 .. i - 1, s[k] = x PROVE FALSE
    BY <1>1, <1>5, <2>1
  <2> QED
    BY <1>1, <1>5, <2>1
<1>7. PICK u : u = SubSeq(s, 1, i - 1)
  OBVIOUS
<1>8. PICK w : w = SubSeq(s, i + 1, Len(s))
  OBVIOUS
<1>9. r = u \o w
  <2>1. Policies!contains(s, x)
    BY DEF Policies!contains, Policies!Range
  <2> QED
    BY <1>4, <1>7, <1>8, <2>1 DEF Policies!removeNode, Policies!RemoveAt
<1>11. u \in Seq(S) /\ Len(u) = i - 1 /\ \A k \in 1 .. i - 1 : u[k] = s[k]
  <2>1. PICK m \in Int : m = i - 1
    BY <1>1, <1>6
  <2>2. \A k \in 1 .. m : s[k] \in S
    BY <1>1, <1>6, <2>1
  <2>3. /\ SubSeq(s, 1, m) \in Seq(S)
        /\ Len(SubSeq(s, 1, m)) = (IF 1 <= m THEN m - 1 + 1 ELSE 0)
        /\ \A k \in 1 .. m - 1 + 1 : SubSeq(s, 1, m)[k] = s[1 + k - 1]
    BY <2>2, SubSeqProperties
  <2>4. u = SubSeq(s, 1, m) /\ m >= 0
    BY <1>1, <1>6, <1>7, <2>1
  <2>5. \A k \in 1 .. m : 1 + k - 1 = k
    OBVIOUS
  <2> QED
    BY <2>1, <2>3, <2>4, <2>5
<1>12. w \in Seq(S) /\ Len(w) = Len(s) - i /\ \A k \in 1 .. Len(s) - i : w[k] = s[i + k]
  <2>1. PICK m \in Int : m = i + 1
    BY <1>1, <1>6
  <2>2. PICK n : n = Len(s) /\ n \in Int
    <3>1. Len(s) \in Int
      BY <1>1
    <3> QED
      BY <3>1
  <2>3. \A k \in m .. n : s[k] \in S
    BY <1>1, <1>6, <2>1, <2>2
  <2>4. /\ SubSeq(s, m, n) \in Seq(S)
        /\ Len(SubSeq(s, m, n)) = (IF m <= n THEN n - m + 1 ELSE 0)
        /\ \A k \in 1 .. n - m + 1 : SubSeq(s, m, n)[k] = s[m + k - 1]
    BY <2>2, <2>3, SubSeqProperties
  <2>5. w = SubSeq(s, m, n)
    BY <1>8, <2>1, <2>2
  <2>6. n - m + 1 = Len(s) - i /\ Len(w) = Len(s) - i
    <3>0. i \in Int /\ n \in Int /\ i <= n /\ m = i + 1
      BY <1>1, <1>6, <2>1, <2>2
    <3>1. n - m + 1 = n - i /\ (IF m <= n THEN n - m + 1 ELSE 0) = n - i
      BY ONLY <3>0
    <3> QED
      BY <2>2, <2>4, <2>5, <3>1
  <2>7. \A k \in 1 .. Len(s) - i : m + k - 1 = i + k
    BY <1>6, <2>1
  <2> QED
    BY <2>4, <2>5, <2>6, <2>7
<1>13. /\ r \in Seq(S) /\ Len(r) = Len(u) + Len(w)
       /\ \A k \in 1 .. Len(u) + Len(w) : r[k] = IF k <= Len(u) THEN u[k] ELSE w[k - Len(u)]
  <2>1. u \in Seq(S) /\ w \in Seq(S)
    BY <1>11, <1>12
  <2> QED
    BY ONLY <1>9, <2>1, ConcatProperties
<1>14. Len(u) + Len(w) = Len(s) - 1
  BY <1>1, <1>6, <1>11, <1>12
<1>15. ASSUME NEW k \in 1 .. i - 1 PROVE r[k] = s[k] /\ s[k] # x
  <2>1. k \in 1 .. Len(u) + Len(w) /\ k <= Len(u)
    BY <1>1, <1>6, <1>11, <1>14
  <2> QED
    BY <1>6, <1>11, <1>13, <2>1
<1>16. ASSUME NEW k \in i .. Len(s) - 1 PROVE r[k] = s[k + 1]
  <2>1. k \in 1 .. Len(u) + Len(w) /\ ~(k <= Len(u))
    BY <1>1, <1>6, <1>11, <1>14
  <2>2. PICK j \in Int : j = k - Len(u)
    BY <1>6, <1>11
  <2>3. j \in 1 .. Len(s) - i /\ i + j = k + 1
    BY <1>1, <1>6, <1>11, <2>2
  <2>4. r[k] = w[j] /\ w[j] = s[i + j]
    BY <1>12, <1>13, <2>1, <2>2, <2>3
  <2> QED
    BY <2>3, <2>4
<1>17. ASSUME NEW y PROVE PrTimes(r, y) = PrTimes(s, y) - (IF x = y THEN 1 ELSE 0)
  <2>1. x \in S
    BY <1>1, <1>6
  <2>2. PICK v : v = <<x>> \o w
    OBVIOUS
  <2>3. /\ v \in Seq(S) /\ Len(v) = Len(w) + 1 /\ v[1] = x
        /\ \A k \in 1 .. Len(w) : v[k + 1] = w[k]
        /\ PrTimes(v, y) = PrTimes(w, y) + (IF x = y THEN 1 ELSE 0)
    BY <1>12, <2>1, <2>2, PrFront
  <2>4. PICK t : t = u \o v
    OBVIOUS
  <2>5. /\ t \in Seq(S) /\ Len(t) = Len(u) + Len(v)
        /\ \A k \in 1 .. Len(u) + Len(v) : t[k] = IF k <= Len(u) THEN u[k] ELSE v[k - Len(u)]
    BY <1>11, <2>3, <2>4, ConcatProperties
  <2>6. Len(t) = Len(s)
    BY <1>1, <1>6, <1>11, <1>12, <2>3, <2>5
  <2>7. ASSUME NEW k \in 1 .. Len(t) PROVE t[k] = s[k]
    <3>1. k \in 1 .. Len(u) + Len(v)
      BY <2>5
    <3>2. CASE k < i
      <4>1. k <= Len(u) /\ k \in 1 .. i - 1
        BY <1>1, <1>6, <1>11, <3>2
      <4> QED
        BY <1>11, <2>5, <3>1, <4>1
    <3>3. CASE k = i
      <4>1. ~(k <= Len(u)) /\ k - Len(u) = 1
        BY <1>1, <1>6, <1>11, <3>3
      <4> QED
        BY <1>6, <2>3, <2>5, <3>1, <3>3, <4>1
    <3>4. CASE k > i
      <4>1. PICK j \in Int : j = k - i
        BY <1>6
      <4>2. j \in 1 .. Len(w) /\ j \in 1 .. Len(s) - i /\ i + j = k
        <5>1. i \in Int /\ k \in Int /\ k <= Len(s) /\ Len(w) = Len(s) - i
          BY <1>6, <1>12, <2>6
        <5> QED
          BY <1>1, <3>4, <4>1, <5>1
      <4>3. ~(k <= Len(u)) /\ k - Len(u) = j + 1
        BY <1>1, <1>6, <1>11, <3>4, <4>1
      <4>4. t[k] = v[j + 1]
        BY <2>5, <3>1, <4>3
      <4>5. v[j + 1] = w[j] /\ w[j] = s[i + j]
        BY <1>12, <2>3, <4>2
      <4> QED
        BY <4>2, <4>4, <4>5
    <3> QED
      BY <1>6, <3>2, <3>3, <3>4
  <2>8. t = s
    BY <2>5, <2>6, <2>7, SeqEqual
  <2>9. PrTimes(t, y) = PrTimes(u, y) + PrTimes(v, y)
    BY <1>11, <2>3, <2>4, PrConcat
  <2>10. PrTimes(r, y) = PrTimes(u, y) + PrTimes(w, y)
    BY <1>9, <1>11, <1>12, PrConcat
  <2>11. PrTimes(u, y) \in Nat
    BY <1>11, PrFinite
  <2>12. PrTimes(w, y) \in Nat
    BY <1>12, PrFinite
  <2> QED
    BY <2>3, <2>8, <2>9, <2>10, <2>11, <2>12
<1>18. Len(r) = Len(s) - 1
  BY <1>13, <1>14
<1> QED
  BY ONLY <1>6, <1>13, <1>15, <1>16, <1>17, <1>18 DEF PrLess

\* removeLRU: the last node goes.
LEMMA PrYounger ==
  ASSUME NEW S, NEW s \in Seq(S), s # <<>>
  PROVE  /\ Policies!Younger(s) \in Seq(S) /\ Len(Policies!Younger(s)) = Len(s) - 1
         /\ Policies!Oldest(s) \in S
         /\ \A y : PrTimes(Policies!Younger(s), y)
                     = PrTimes(s, y) - (IF Policies!Oldest(s) = y THEN 1 ELSE 0)
<1>1. Len(s) \in Nat \ {0} /\ DOMAIN s = 1 .. Len(s)
  OBVIOUS
<1>2. PICK m : m = Len(s) - 1 /\ m \in Int
  <2>1. Len(s) - 1 \in Int
    BY <1>1
  <2> QED
    BY <2>1
<1>3. PICK u : u = SubSeq(s, 1, m)
  OBVIOUS
<1>4. Policies!Younger(s) = u
  BY <1>2, <1>3 DEF Policies!Younger, Policies!Front
<1>5. PICK x : x = s[Len(s)]
  OBVIOUS
<1>6. Policies!Oldest(s) = x
  BY <1>5 DEF Policies!Oldest
<1>7. x \in S
  BY <1>1, <1>5
<1>8. u \in Seq(S) /\ Len(u) = m /\ \A k \in 1 .. m : u[k] = s[k]
  <2>1. \A k \in 1 .. m : s[k] \in S
    BY <1>1, <1>2
  <2>2. /\ SubSeq(s, 1, m) \in Seq(S)
        /\ Len(SubSeq(s, 1, m)) = (IF 1 <= m THEN m - 1 + 1 ELSE 0)
        /\ \A k \in 1 .. m - 1 + 1 : SubSeq(s, 1, m)[k] = s[1 + k - 1]
    BY <1>2, <2>1, SubSeqProperties
  <2>3. m >= 0
    BY <1>1, <1>2
  <2>4. \A k \in 1 .. m : 1 + k - 1 = k
    OBVIOUS
  <2> QED
    BY <1>3, <2>2, <2>3, <2>4
<1>9. ASSUME NEW y PROVE PrTimes(u, y) = PrTimes(s, y) - (IF x = y THEN 1 ELSE 0)
  <2>1. PICK v : v = <<x>>
    OBVIOUS
  <2>2. v \in Seq(S) /\ Len(v) = 1 /\ v[1] = x
    BY <1>7, <2>1
  <2>3. PICK t : t = u \o v
    OBVIOUS
  <2>4. /\ t \in Seq(S) /\ Len(t) = Len(u) + Len(v)
        /\ \A k \in 1 .. Len(u) + Len(v) : t[k] = IF k <= Len(u) THEN u[k] ELSE v[k - Len(u)]
    BY <1>8, <2>2, <2>3, ConcatProperties
  <2>5. Len(t) = Len(s)
    BY <1>1, <1>2, <1>8, <2>2, <2>4
  <2>6. ASSUME NEW k \in 1 .. Len(t) PROVE t[k] = s[k]
    <3>1. CASE k <= m
      BY <1>2, <1>8, <2>4, <3>1
    <3>2. CASE k > m
      <4>1. k \in 1 .. m + 1 /\ Len(u) = m /\ Len(v) = 1 /\ Len(s) = m + 1
        BY <1>1, <1>2, <1>8, <2>2, <2>5
      <4>2. k = m + 1
        BY <1>2, <3>2, <4>1
      <4>3. k = Len(s) /\ k - Len(u) = 1 /\ ~(k <= Len(u)) /\ k \in 1 .. Len(u) + Len(v)
        BY <1>2, <4>1, <4>2
      <4> QED
        BY <1>5, <2>2, <2>4, <4>3
    <3> QED
      BY <1>2, <3>1, <3>2
  <2>7. t = s
    BY <2>4, <2>5, <2>6, SeqEqual
  <2>8. PrTimes(t, y) = PrTimes(u, y) + PrTimes(v, y)
    BY <1>8, <2>2, <2>3, PrConcat
  <2>9. PrTimes(v, y) = IF x = y THEN 1 ELSE 0
    BY <2>1, PrSingle
  <2>10. PrTimes(u, y) \in Nat
    BY <1>8, PrFinite
  <2> QED
    BY <2>7, <2>8, <2>9, <2>10
<1> QED
  BY <1>2, <1>4, <1>6, <1>7, <1>8, <1>9

PrValues == PcPages \cup {-1}
PrFrames == 0 .. MAX_FRAMES - 1

\* What is requested moves to the front of recent: i is where it was, or behind
\* the end.
PrAhead(r, r2, page, i) ==
  /\ Len(r2) = IF i <= Len(r) THEN Len(r) ELSE Len(r) + 1
  /\ i <= Len(r) => r[i] = page
  /\ r2[1] = page
  /\ \A k \in 1 .. i - 1 : r2[k + 1] = r[k] /\ r[k] # page
  /\ \A k \in i + 1 .. Len(r) : r2[k] = r[k]

PrMoved(r, r2, page) ==
  /\ r2 \in Seq(PcPages)
  /\ \E i \in 1 .. Len(r) + 1 : PrAhead(r, r2, page, i)
  /\ \A x : x # page => PrTimes(r2, x) = PrTimes(r, x)
  /\ PrTimes(r, page) <= 1 => PrTimes(r2, page) = 1

\* The constants, and the instance's operators that are written out again here.
LEMMA PrConstants ==
  /\ MAX_FRAMES \in Nat \ {0} /\ MAX_PAGES \in Nat /\ PcPages \subseteq Nat \ {0}
  /\ Policies!Frames = PrFrames /\ Policies!None = -1 /\ -1 \notin PcPages
  /\ \A s, x : Policies!Times(s, x) = PrTimes(s, x)
<1>1. MAX_FRAMES \in Nat \ {0} /\ MAX_PAGES \in Nat /\ PcPages \subseteq Nat \ {0}
  BY CoreAssumption DEF Policies!ConstantsOK
<1>2. Policies!Frames = PrFrames /\ Policies!None = -1
  BY DEF Policies!Frames, PrFrames, Policies!None
<1>3. -1 \notin PcPages
  BY <1>1
<1>4. ASSUME NEW S PROVE Policies!Cardinality(S) = Cardinality(S)
  BY DEF Policies!Cardinality, Cardinality, Policies!IsFiniteSet, IsFiniteSet
<1>5. \A s, x : Policies!Times(s, x) = PrTimes(s, x)
  BY <1>4 DEF Policies!Times, PrTimes
<1> QED
  BY <1>1, <1>2, <1>3, <1>5

\* The history with the requested page moved to its front.
LEMMA PrMoves ==
  ASSUME NEW r \in Seq(PcPages), NEW page \in PcPages
  PROVE  PrMoved(r, <<page>> \o Policies!removeNode(r, page), page)
<1>0. PICK q : q = Policies!removeNode(r, page)
  OBVIOUS
<1>1. PICK r2 : r2 = <<page>> \o q
  OBVIOUS
<1>2. Len(r) \in Nat /\ DOMAIN r = 1 .. Len(r)
  OBVIOUS
<1>3. CASE \E k \in DOMAIN r : r[k] = page
  <2>1. /\ q \in Seq(PcPages) /\ Len(q) = Len(r) - 1
        /\ \A y : PrTimes(q, y) = PrTimes(r, y) - (IF page = y THEN 1 ELSE 0)
        /\ \E i \in 1 .. Len(r) :
             /\ r[i] = page
             /\ \A k \in 1 .. i - 1 : q[k] = r[k] /\ r[k] # page
             /\ \A k \in i .. Len(r) - 1 : q[k] = r[k + 1]
    <3>1. PrLess(PcPages, r, page, q)
      BY ONLY r \in Seq(PcPages), <1>0, <1>3, PrRemove
    <3> QED
      BY ONLY <3>1 DEF PrLess
  <2>2. /\ r2 \in Seq(PcPages) /\ Len(r2) = Len(q) + 1 /\ r2[1] = page
        /\ \A k \in 1 .. Len(q) : r2[k + 1] = q[k]
        /\ \A x : PrTimes(r2, x) = PrTimes(q, x) + (IF page = x THEN 1 ELSE 0)
    BY <1>1, <2>1, PrFront
  <2>3. PICK i \in 1 .. Len(r) : /\ r[i] = page
                                 /\ \A k \in 1 .. i - 1 : q[k] = r[k] /\ r[k] # page
                                 /\ \A k \in i .. Len(r) - 1 : q[k] = r[k + 1]
    BY <2>1
  <2>4. Len(r2) = Len(r)
    BY <1>2, <2>1, <2>2
  <2>5. ASSUME NEW k \in 1 .. i - 1 PROVE r2[k + 1] = r[k] /\ r[k] # page
    <3>1. k \in 1 .. Len(q)
      BY <1>2, <2>1
    <3> QED
      BY <2>2, <2>3, <3>1
  <2>6. ASSUME NEW k \in i + 1 .. Len(r) PROVE r2[k] = r[k]
    <3>1. PICK j \in Int : j = k - 1
      OBVIOUS
    <3>2. j \in 1 .. Len(q) /\ j \in i .. Len(r) - 1 /\ j + 1 = k
      BY <1>2, <2>1, <3>1
    <3> QED
      BY <2>2, <2>3, <3>2
  <2>7. PrAhead(r, r2, page, i)
    <3>1. i <= Len(r)
      BY <1>2
    <3>2. Len(r2) = IF i <= Len(r) THEN Len(r) ELSE Len(r) + 1
      BY <2>4, <3>1
    <3> QED
      BY <2>2, <2>3, <2>5, <2>6, <3>2 DEF PrAhead
  <2>8. ASSUME NEW x PROVE PrTimes(r2, x) = PrTimes(r, x)
    <3>1. PrTimes(r, x) \in Nat
      BY PrFinite
    <3>2. PrTimes(q, x) = PrTimes(r, x) - (IF page = x THEN 1 ELSE 0)
      BY <2>1
    <3>3. PrTimes(r2, x) = PrTimes(q, x) + (IF page = x THEN 1 ELSE 0)
      BY <2>2
    <3> QED
      BY <3>1, <3>2, <3>3
  <2>9. PrTimes(r, page) \in Nat /\ PrTimes(r, page) # 0
    BY <1>3, PrContains, PrFinite
  <2>10. PrTimes(r, page) <= 1 => PrTimes(r2, page) = 1
    BY <2>8, <2>9
  <2>11. i \in 1 .. Len(r) + 1
    BY <1>2
  <2> QED
    BY <1>0, <1>1, <2>2, <2>7, <2>8, <2>10, <2>11 DEF PrMoved
<1>4. CASE ~\E k \in DOMAIN r : r[k] = page
  <2>1. q = r
    BY <1>0, <1>4 DEF Policies!removeNode, Policies!contains, Policies!Range
  <2>2. /\ r2 \in Seq(PcPages) /\ Len(r2) = Len(r) + 1 /\ r2[1] = page
        /\ \A k \in 1 .. Len(r) : r2[k + 1] = r[k]
        /\ \A x : PrTimes(r2, x) = PrTimes(r, x) + (IF page = x THEN 1 ELSE 0)
    BY <1>1, <2>1, PrFront
  <2>3. PICK i \in Int : i = Len(r) + 1
    <3>1. Len(r) + 1 \in Int
      BY <1>2
    <3> QED
      BY <3>1
  <2>4. ~(i <= Len(r)) /\ i \in 1 .. Len(r) + 1 /\ i - 1 = Len(r)
    BY <1>2, <2>3
  <2>5. i + 1 .. Len(r) = {}
    BY <1>2, <2>3
  <2>6. PrAhead(r, r2, page, i)
    BY <1>2, <1>4, <2>2, <2>4, <2>5 DEF PrAhead
  <2>7. ASSUME NEW x, x # page PROVE PrTimes(r2, x) = PrTimes(r, x)
    <3>1. PrTimes(r, x) \in Nat
      BY PrFinite
    <3>2. PrTimes(r2, x) = PrTimes(r, x) + (IF page = x THEN 1 ELSE 0)
      BY <2>2
    <3> QED
      BY <2>7, <3>1, <3>2
  <2>8. PrTimes(r, page) = 0
    BY <1>4, PrContains
  <2>9. PrTimes(r2, page) = PrTimes(r, page) + 1
    BY <2>2
  <2>10. PrTimes(r2, page) = 1
    BY <2>8, <2>9
  <2> QED
    BY <1>0, <1>1, <2>1, <2>2, <2>4, <2>6, <2>7, <2>10 DEF PrMoved
<1> QED
  BY <1>3, <1>4

PrTypes ==
  /\ choice \in 1 .. 3 /\ counter \in 0 .. MAX_PAGES
  /\ buffer \in [PrFrames -> PrValues] /\ time \in [PrFrames -> -1 .. counter]
  /\ refBit \in [PrFrames -> {0, 1}] /\ pointer \in PrFrames
  /\ T1 \in Seq(PcPages) /\ T2 \in Seq(PcPages) /\ B1 \in Seq(PcPages)
  /\ B2 \in Seq(PrValues) /\ p \in 0 .. MAX_FRAMES
  /\ recent \in Seq(PcPages)

PrRecent  == \A x \in PcPages : PrTimes(recent, x) <= 1
PrOneCopy == \A f, g \in PrFrames : buffer[f] = buffer[g] /\ buffer[f] # -1 => f = g

\* LRU: the frames are filled in their order, they have the pages used last,
\* and the times are in the order of the requests.
PrFilled == \A f \in PrFrames : buffer[f] = -1 <=> f >= Len(recent)
PrHeld ==
  \A f \in PrFrames : buffer[f] # -1 =>
    \E i \in 1 .. Len(recent) : i <= MAX_FRAMES /\ recent[i] = buffer[f]
PrKept ==
  \A i \in 1 .. Len(recent) : i <= MAX_FRAMES => \E f \in PrFrames : buffer[f] = recent[i]
PrOrder ==
  \A f, g \in PrFrames : \A i, j \in 1 .. Len(recent) :
    i < j /\ buffer[f] = recent[i] /\ buffer[g] = recent[j] => time[f] > time[g]

PrLru == choice = 1 => PrFilled /\ PrHeld /\ PrKept /\ PrOrder

\* Clock: as long as there is room the hand is at the first empty frame.
PrClock ==
  choice = 2 =>
    /\ Len(recent) < MAX_FRAMES =>
         /\ pointer = Len(recent)
         /\ \A f \in PrFrames : f >= pointer => buffer[f] = -1 /\ refBit[f] = 0
    /\ Len(recent) <= MAX_FRAMES =>
         \A x \in PcPages : (\E f \in PrFrames : buffer[f] = x) <=> PrTimes(recent, x) # 0
    /\ recent # <<>> => \E f \in PrFrames : buffer[f] = recent[1]

\* ARC: a page is once in the lists if it was requested; no list of ghosts is
\* needed before there were MAX_FRAMES pages.
PrAll(x) == PrTimes(T1, x) + PrTimes(T2, x) + PrTimes(B1, x) + PrTimes(B2, x)

PrArc ==
  /\ \A x \in PcPages : PrAll(x) <= 1 /\ (choice = 3 => PrAll(x) = PrTimes(recent, x))
  /\ Len(T1) + Len(T2) <= MAX_FRAMES + PrTimes(B2, -1)
  /\ choice = 3 =>
       /\ Len(recent) <= MAX_FRAMES =>
            B1 = <<>> /\ B2 = <<>> /\ Len(T1) + Len(T2) = Len(recent)
       /\ recent # <<>> => PrTimes(T1, recent[1]) + PrTimes(T2, recent[1]) # 0

PrInv == PrTypes /\ PrRecent /\ PrOneCopy /\ PrLru /\ PrClock /\ PrArc

\* The invariant holds at the start.
LEMMA PrStarts == Policies!Init => PrInv
<1> SUFFICES ASSUME Policies!Init PROVE PrInv
  OBVIOUS
<1> USE DEF Policies!Init
<1>1. PrTypes
  <2>1. 0 \in 0 .. MAX_PAGES /\ 0 \in PrFrames /\ 0 \in 0 .. MAX_FRAMES
    BY PrConstants DEF PrFrames
  <2>2. buffer = [f \in PrFrames |-> -1] /\ time = [f \in PrFrames |-> -1]
        /\ refBit = [f \in PrFrames |-> 0]
    BY PrConstants
  <2> QED
    BY <2>1, <2>2 DEF PrTypes, PrValues
<1>2. \A x : PrTimes(T1, x) = 0 /\ PrTimes(T2, x) = 0 /\ PrTimes(B1, x) = 0
             /\ PrTimes(B2, x) = 0 /\ PrTimes(recent, x) = 0
  BY PrNone
<1>3. PrRecent
  BY <1>2 DEF PrRecent
<1>4. \A f \in PrFrames : buffer[f] = -1 /\ f >= 0 /\ f \in Int /\ refBit[f] = 0
  BY PrConstants DEF PrFrames
<1>5. PrOneCopy
  BY <1>4 DEF PrOneCopy
<1>6. Len(recent) = 0 /\ 1 .. Len(recent) = {} /\ Len(T1) = 0 /\ Len(T2) = 0
  OBVIOUS
<1>7. PrLru
  BY <1>4, <1>6 DEF PrLru, PrFilled, PrHeld, PrKept, PrOrder
<1>8. PrClock
  <2>1. \A x \in PcPages : ~\E f \in PrFrames : buffer[f] = x
    BY <1>4, PrConstants
  <2> QED
    BY <1>2, <1>4, <1>6, <2>1 DEF PrClock
<1>9. PrArc
  <2>1. \A x : PrAll(x) = 0
    BY <1>2 DEF PrAll
  <2> QED
    BY <1>2, <1>6, <2>1, PrConstants DEF PrArc
<1> QED
  BY <1>1, <1>3, <1>5, <1>7, <1>8, <1>9 DEF PrInv

\* What a request does to the history.
LEMMA PrRequest ==
  ASSUME PrInv, NEW page \in PcPages, Policies!Request(page)
  PROVE  /\ choice' = choice /\ counter' = counter + 1 /\ counter' \in 0 .. MAX_PAGES
         /\ PrMoved(recent, recent', page)
         /\ recent' \in Seq(PcPages) /\ recent' # <<>> /\ recent'[1] = page
         /\ PrRecent'
         /\ \A x : PrTimes(recent, x) \in Nat
         /\ \A x \in PcPages : PrTimes(recent', x) = IF x = page THEN 1 ELSE PrTimes(recent, x)
         /\ Len(recent) \in Nat
         /\ Len(recent') = IF PrTimes(recent, page) # 0 THEN Len(recent) ELSE Len(recent) + 1
<1>1. recent \in Seq(PcPages) /\ counter \in 0 .. MAX_PAGES
  BY DEF PrInv, PrTypes
<1>2. choice' = choice /\ counter' = counter + 1 /\ counter' \in 0 .. MAX_PAGES
  BY <1>1, PrConstants DEF Policies!Request
<1>3. PICK r : r = recent'
  OBVIOUS
<1>4. r = <<page>> \o Policies!removeNode(recent, page)
  BY <1>3 DEF Policies!Request
<1>5. PrMoved(recent, r, page)
  BY <1>1, <1>4, PrMoves
<1>6. PICK i \in 1 .. Len(recent) + 1 : PrAhead(recent, r, page, i)
  BY <1>5 DEF PrMoved
<1>7. Len(recent) \in Nat /\ DOMAIN recent = 1 .. Len(recent) /\ i \in Nat /\ i >= 1
  BY <1>1
<1>8. r \in Seq(PcPages) /\ r[1] = page
  BY <1>5, <1>6 DEF PrMoved, PrAhead
<1>9. ASSUME NEW x PROVE PrTimes(recent, x) \in Nat
  BY <1>1, PrFinite
<1>10. PrTimes(recent, page) <= 1
  BY DEF PrInv, PrRecent
<1>11. \A x \in PcPages : PrTimes(r, x) = IF x = page THEN 1 ELSE PrTimes(recent, x)
  BY <1>5, <1>10 DEF PrMoved
<1>12. \A x \in PcPages : PrTimes(r, x) <= 1
  <2>1. \A x \in PcPages : PrTimes(recent, x) <= 1
    BY DEF PrInv, PrRecent
  <2>2. ASSUME NEW x \in PcPages PROVE PrTimes(r, x) <= 1
    <3>1. PrTimes(r, x) = IF x = page THEN 1 ELSE PrTimes(recent, x)
      BY <1>11
    <3>2. PrTimes(recent, x) <= 1
      BY <2>1
    <3> QED
      BY <3>1, <3>2
  <2> QED
    BY <2>2
<1>13. CASE i <= Len(recent)
  <2>1. recent[i] = page /\ Len(r) = Len(recent) /\ i \in DOMAIN recent
    BY <1>6, <1>7, <1>13 DEF PrAhead
  <2>2. PrTimes(recent, page) # 0
    BY <1>1, <2>1, PrContains
  <2>3. r # <<>>
    BY <1>7, <1>13, <2>1
  <2> QED
    BY <1>2, <1>3, <1>5, <1>7, <1>8, <1>9, <1>11, <1>12, <2>1, <2>2, <2>3 DEF PrRecent
<1>14. CASE i > Len(recent)
  <2>1. i = Len(recent) + 1 /\ Len(r) = Len(recent) + 1
    BY <1>6, <1>7, <1>14 DEF PrAhead
  <2>2. ASSUME NEW k \in DOMAIN recent PROVE recent[k] # page
    <3>1. k \in 1 .. i - 1
      BY <1>7, <2>1
    <3> QED
      BY <1>6, <3>1 DEF PrAhead
  <2>3. PrTimes(recent, page) = 0
    BY <1>1, <2>2, PrContains
  <2>4. r # <<>>
    BY <1>7, <2>1
  <2> QED
    BY <1>2, <1>3, <1>5, <1>7, <1>8, <1>9, <1>11, <1>12, <2>1, <2>3, <2>4 DEF PrRecent
<1> QED
  BY <1>7, <1>13, <1>14

\* replaceARC moves a page from T1 or T2 to its ghosts, or None to those of T2.
LEMMA PrReplace ==
  ASSUME PrInv, NEW q \in Int
  PROVE  \E a, b, c \in Seq(PcPages) : \E d \in Seq(PrValues) :
           /\ Policies!replaceARC(q) = [T1 |-> a, T2 |-> b, B1 |-> c, B2 |-> d]
           /\ \A x \in PcPages :
                /\ PrTimes(a, x) + PrTimes(b, x) + PrTimes(c, x) + PrTimes(d, x) = PrAll(x)
                /\ PrTimes(c, x) >= PrTimes(B1, x) /\ PrTimes(d, x) >= PrTimes(B2, x)
           /\ Len(a) + Len(b) + 1 + PrTimes(B2, -1) <= Len(T1) + Len(T2) + PrTimes(d, -1)
<1>1. T1 \in Seq(PcPages) /\ T2 \in Seq(PcPages) /\ B1 \in Seq(PcPages) /\ B2 \in Seq(PrValues)
  BY DEF PrInv, PrTypes
<1>2. ASSUME NEW x
      PROVE  /\ PrTimes(T1, x) \in Nat /\ PrTimes(T2, x) \in Nat
             /\ PrTimes(B1, x) \in Nat /\ PrTimes(B2, x) \in Nat
  <2>1. PrTimes(T1, x) \in Nat /\ PrTimes(T2, x) \in Nat /\ PrTimes(B1, x) \in Nat
    BY <1>1, PrFinite
  <2>2. PrTimes(B2, x) \in Nat
    BY <1>1, PrFinite
  <2> QED
    BY <2>1, <2>2
<1>3. Len(T1) \in Nat /\ Len(T2) \in Nat
  BY <1>1
<1>4. CASE Len(T1) >= 1 /\ (Len(T1) > q \/ (Policies!contains(B2, 0) /\ Len(T1) = q))
  <2>1. T1 # <<>>
    BY <1>1, <1>4
  <2>2. PICK a : a = Policies!Younger(T1)
    OBVIOUS
  <2>3. PICK v : v = Policies!Oldest(T1)
    OBVIOUS
  <2>4. /\ a \in Seq(PcPages) /\ Len(a) = Len(T1) - 1 /\ v \in PcPages
        /\ \A y : PrTimes(a, y) = PrTimes(T1, y) - (IF v = y THEN 1 ELSE 0)
    BY <1>1, <2>1, <2>2, <2>3, PrYounger
  <2>5. PICK c : c = <<v>> \o B1
    OBVIOUS
  <2>6. /\ c \in Seq(PcPages)
        /\ \A y : PrTimes(c, y) = PrTimes(B1, y) + (IF v = y THEN 1 ELSE 0)
    BY <1>1, <2>4, <2>5, PrFront
  <2>7. Policies!replaceARC(q) = [T1 |-> a, T2 |-> T2, B1 |-> c, B2 |-> B2]
    BY <1>4, <2>2, <2>3, <2>5 DEF Policies!replaceARC
  <2>8. ASSUME NEW x \in PcPages
        PROVE  /\ PrTimes(a, x) + PrTimes(T2, x) + PrTimes(c, x) + PrTimes(B2, x) = PrAll(x)
               /\ PrTimes(c, x) >= PrTimes(B1, x) /\ PrTimes(B2, x) >= PrTimes(B2, x)
    <3>1. /\ PrTimes(a, x) = PrTimes(T1, x) - (IF v = x THEN 1 ELSE 0)
          /\ PrTimes(c, x) = PrTimes(B1, x) + (IF v = x THEN 1 ELSE 0)
      BY <2>4, <2>6
    <3> QED
      BY <1>2, <3>1 DEF PrAll
  <2>9. Len(a) + Len(T2) + 1 + PrTimes(B2, -1) <= Len(T1) + Len(T2) + PrTimes(B2, -1)
    BY <1>2, <1>3, <2>4
  <2> QED
    BY <1>1, <2>4, <2>6, <2>7, <2>8, <2>9
<1>5. CASE ~(Len(T1) >= 1 /\ (Len(T1) > q \/ (Policies!contains(B2, 0) /\ Len(T1) = q)))
  <2>1. PICK b : b = Policies!Younger(T2)
    OBVIOUS
  <2>2. PICK v : v = Policies!Oldest(T2)
    OBVIOUS
  <2>3. PICK d : d = <<v>> \o B2
    OBVIOUS
  <2>4. Policies!replaceARC(q) = [T1 |-> T1, T2 |-> b, B1 |-> B1, B2 |-> d]
    BY <1>5, <2>1, <2>2, <2>3 DEF Policies!replaceARC
  <2>5. CASE T2 = <<>>
    <3>1. b = <<>> /\ v = -1
      BY <2>1, <2>2, <2>5 DEF Policies!Younger, Policies!Oldest, Policies!None
    <3>2. v \in PrValues
      BY <3>1 DEF PrValues
    <3>3. /\ d \in Seq(PrValues)
          /\ \A y : PrTimes(d, y) = PrTimes(B2, y) + (IF v = y THEN 1 ELSE 0)
      BY <1>1, <2>3, <3>2, PrFront
    <3>4. b \in Seq(PcPages) /\ Len(b) = 0 /\ Len(T2) = 0
      BY <2>5, <3>1
    <3>5. ASSUME NEW x \in PcPages
          PROVE  /\ PrTimes(T1, x) + PrTimes(b, x) + PrTimes(B1, x) + PrTimes(d, x) = PrAll(x)
                 /\ PrTimes(B1, x) >= PrTimes(B1, x) /\ PrTimes(d, x) >= PrTimes(B2, x)
      <4>1. PrTimes(d, x) = PrTimes(B2, x) + (IF v = x THEN 1 ELSE 0) /\ b = T2
        BY <2>5, <3>1, <3>3
      <4>2. v # x
        BY <3>1, PrConstants
      <4> QED
        BY <1>2, <4>1, <4>2 DEF PrAll
    <3>6. PrTimes(d, -1) = PrTimes(B2, -1) + 1
      BY <3>1, <3>3
    <3>7. Len(T1) + Len(b) + 1 + PrTimes(B2, -1) <= Len(T1) + Len(T2) + PrTimes(d, -1)
      BY <1>2, <1>3, <3>4, <3>6
    <3> QED
      BY <1>1, <2>4, <3>3, <3>4, <3>5, <3>7
  <2>6. CASE T2 # <<>>
    <3>1. /\ b \in Seq(PcPages) /\ Len(b) = Len(T2) - 1 /\ v \in PcPages
          /\ \A y : PrTimes(b, y) = PrTimes(T2, y) - (IF v = y THEN 1 ELSE 0)
      BY <1>1, <2>1, <2>2, <2>6, PrYounger
    <3>2. v \in PrValues
      BY <3>1 DEF PrValues
    <3>3. /\ d \in Seq(PrValues)
          /\ \A y : PrTimes(d, y) = PrTimes(B2, y) + (IF v = y THEN 1 ELSE 0)
      BY <1>1, <2>3, <3>2, PrFront
    <3>4. ASSUME NEW x \in PcPages
          PROVE  /\ PrTimes(T1, x) + PrTimes(b, x) + PrTimes(B1, x) + PrTimes(d, x) = PrAll(x)
                 /\ PrTimes(B1, x) >= PrTimes(B1, x) /\ PrTimes(d, x) >= PrTimes(B2, x)
      <4>1. /\ PrTimes(d, x) = PrTimes(B2, x) + (IF v = x THEN 1 ELSE 0)
            /\ PrTimes(b, x) = PrTimes(T2, x) - (IF v = x THEN 1 ELSE 0)
        BY <3>1, <3>3
      <4> QED
        BY <1>2, <4>1 DEF PrAll
    <3>5. PrTimes(d, -1) = PrTimes(B2, -1)
      <4>1. v # -1 /\ PrTimes(d, -1) = PrTimes(B2, -1) + (IF v = -1 THEN 1 ELSE 0)
        BY <3>1, <3>3, PrConstants
      <4> QED
        BY <1>2, <4>1
    <3>6. Len(T1) + Len(b) + 1 + PrTimes(B2, -1) <= Len(T1) + Len(T2) + PrTimes(d, -1)
      BY <1>2, <1>3, <3>1, <3>5
    <3> QED
      BY <1>1, <2>4, <3>1, <3>3, <3>4, <3>6
  <2> QED
    BY <2>5, <2>6
<1> QED
  BY <1>4, <1>5

\* What ARC has to show after a request, from the sums of its lists.
LEMMA PrArcKept ==
  ASSUME PrInv, choice = 3, NEW page \in PcPages, Policies!Request(page),
         UNCHANGED <<buffer, time, refBit, pointer>>,
         T1' \in Seq(PcPages), T2' \in Seq(PcPages), B1' \in Seq(PcPages),
         B2' \in Seq(PrValues), p' \in 0 .. MAX_FRAMES,
         \A x \in PcPages : PrAll(x)' = IF x = page THEN 1 ELSE PrAll(x),
         Len(T1') + Len(T2') <= MAX_FRAMES + PrTimes(B2', -1),
         Len(recent') <= MAX_FRAMES =>
           B1' = <<>> /\ B2' = <<>> /\ Len(T1') + Len(T2') = Len(recent'),
         PrTimes(T1', page) + PrTimes(T2', page) # 0
  PROVE  PrInv'
<1>1. /\ choice' = 3 /\ counter' = counter + 1 /\ counter' \in 0 .. MAX_PAGES
      /\ recent' \in Seq(PcPages) /\ recent' # <<>> /\ recent'[1] = page
      /\ PrRecent'
      /\ \A x \in PcPages : PrTimes(recent', x) = IF x = page THEN 1 ELSE PrTimes(recent, x)
  BY PrRequest
<1>2. PrTypes'
  <2>1. time \in [PrFrames -> -1 .. counter'] /\ 3 \in 1 .. 3
    <3>1. -1 .. counter \subseteq -1 .. counter'
      BY <1>1 DEF PrInv, PrTypes
    <3> QED
      BY <3>1 DEF PrInv, PrTypes
  <2> QED
    BY <1>1, <2>1 DEF PrInv, PrTypes
<1>3. PrOneCopy' /\ PrLru' /\ PrClock'
  BY <1>1 DEF PrInv, PrOneCopy, PrLru, PrClock
<1>4. \A x \in PcPages : PrAll(x) <= 1 /\ PrAll(x) = PrTimes(recent, x)
  BY DEF PrInv, PrArc
<1>5. ASSUME NEW x \in PcPages
      PROVE  PrAll(x)' <= 1 /\ (choice' = 3 => PrAll(x)' = PrTimes(recent', x))
  BY <1>1, <1>4
<1>6. PrArc'
  BY <1>1, <1>5 DEF PrArc
<1> QED
  BY <1>1, <1>2, <1>3, <1>6 DEF PrInv

\* ARC's lists are lists of pages, or of None, and finite.
LEMMA PrLists ==
  ASSUME PrInv
  PROVE  /\ T1 \in Seq(PcPages) /\ T2 \in Seq(PcPages) /\ B1 \in Seq(PcPages)
         /\ B2 \in Seq(PrValues) /\ p \in 0 .. MAX_FRAMES
         /\ Len(T1) \in Nat /\ Len(T2) \in Nat
         /\ \A x : /\ PrTimes(T1, x) \in Nat /\ PrTimes(T2, x) \in Nat
                   /\ PrTimes(B1, x) \in Nat /\ PrTimes(B2, x) \in Nat
         /\ \A x : /\ Policies!contains(T1, x) <=> PrTimes(T1, x) # 0
                   /\ Policies!contains(T2, x) <=> PrTimes(T2, x) # 0
                   /\ Policies!contains(B1, x) <=> PrTimes(B1, x) # 0
                   /\ Policies!contains(B2, x) <=> PrTimes(B2, x) # 0
         /\ \A x \in PcPages : PrAll(x) <= 1
         /\ Len(T1) + Len(T2) <= MAX_FRAMES + PrTimes(B2, -1)
<1>1. /\ T1 \in Seq(PcPages) /\ T2 \in Seq(PcPages) /\ B1 \in Seq(PcPages)
      /\ B2 \in Seq(PrValues) /\ p \in 0 .. MAX_FRAMES
  BY DEF PrInv, PrTypes
<1>2. ASSUME NEW S, NEW s \in Seq(S), NEW x
      PROVE  PrTimes(s, x) \in Nat /\ (Policies!contains(s, x) <=> PrTimes(s, x) # 0)
  <2>1. PrTimes(s, x) \in Nat
    BY PrFinite
  <2>2. (PrTimes(s, x) = 0) <=> (\A i \in DOMAIN s : s[i] # x)
    BY PrContains
  <2>3. Policies!contains(s, x) <=> (\E i \in DOMAIN s : s[i] = x)
    BY DEF Policies!contains, Policies!Range
  <2> QED
    BY <2>1, <2>2, <2>3
<1>3. ASSUME NEW x
      PROVE  /\ PrTimes(T1, x) \in Nat /\ (Policies!contains(T1, x) <=> PrTimes(T1, x) # 0)
             /\ PrTimes(T2, x) \in Nat /\ (Policies!contains(T2, x) <=> PrTimes(T2, x) # 0)
             /\ PrTimes(B1, x) \in Nat /\ (Policies!contains(B1, x) <=> PrTimes(B1, x) # 0)
             /\ PrTimes(B2, x) \in Nat /\ (Policies!contains(B2, x) <=> PrTimes(B2, x) # 0)
  <2>1. PrTimes(B2, x) \in Nat /\ (Policies!contains(B2, x) <=> PrTimes(B2, x) # 0)
    BY <1>1, <1>2
  <2> QED
    BY <1>1, <1>2, <2>1
<1>4. Len(T1) \in Nat /\ Len(T2) \in Nat
  BY <1>1
<1>5. (\A x \in PcPages : PrAll(x) <= 1) /\ Len(T1) + Len(T2) <= MAX_FRAMES + PrTimes(B2, -1)
  BY DEF PrInv, PrArc
<1> QED
  BY <1>1, <1>3, <1>4, <1>5

\* A list that has a page is not empty.
LEMMA PrListHas ==
  ASSUME NEW S, NEW s \in Seq(S), NEW x, PrTimes(s, x) # 0
  PROVE  \E k \in DOMAIN s : s[k] = x
<1>1. (PrTimes(s, x) = 0) <=> (\A i \in DOMAIN s : s[i] # x)
  BY PrContains
<1> QED
  BY <1>1

\* When a page that was requested before is requested, there is no new one.
LEMMA PrSeen ==
  ASSUME PrInv, choice = 3, NEW page \in PcPages, Policies!Request(page), PrAll(page) # 0
  PROVE  PrAll(page) = 1 /\ Len(recent') = Len(recent)
<1>1. PrAll(page) <= 1 /\ PrAll(page) = PrTimes(recent, page) /\ PrTimes(recent, page) \in Nat
  BY PrRequest DEF PrInv, PrArc
<1>2. Len(recent') = IF PrTimes(recent, page) # 0 THEN Len(recent) ELSE Len(recent) + 1
  BY PrRequest
<1> QED
  BY <1>1, <1>2

\* ARC finds the page in memory.
LEMMA PrArcHit ==
  ASSUME PrInv, choice = 3, NEW page \in PcPages, Policies!Request(page),
         UNCHANGED <<buffer, time, refBit, pointer>>, Policies!ArcHit(page)
  PROVE  PrInv'
<1>11. /\ T1 \in Seq(PcPages) /\ T2 \in Seq(PcPages) /\ B1 \in Seq(PcPages)
       /\ B2 \in Seq(PrValues) /\ p \in 0 .. MAX_FRAMES
       /\ Len(T1) \in Nat /\ Len(T2) \in Nat
  BY PrLists
<1>12. ASSUME NEW x
       PROVE  /\ PrTimes(T1, x) \in Nat /\ PrTimes(T2, x) \in Nat
              /\ PrTimes(B1, x) \in Nat /\ PrTimes(B2, x) \in Nat
  BY PrLists
<1>13. /\ Policies!contains(T1, page) <=> PrTimes(T1, page) # 0
       /\ Policies!contains(T2, page) <=> PrTimes(T2, page) # 0
  BY PrLists
<1>14. Len(T1) + Len(T2) <= MAX_FRAMES + PrTimes(B2, -1)
  BY PrLists
<1>1. PICK a : a = T1'
  OBVIOUS
<1>2. PICK b : b = T2'
  OBVIOUS
<1>3. B1' = B1 /\ B2' = B2 /\ p' = p
  BY DEF Policies!ArcHit
<1>4. a \in Seq(PcPages) /\ b \in Seq(PcPages) /\ Len(a) + Len(b) = Len(T1) + Len(T2)
      /\ PrAll(page) # 0
      /\ \A x : /\ PrTimes(a, x) \in Nat /\ PrTimes(b, x) \in Nat
                /\ PrTimes(a, x) + PrTimes(b, x) = PrTimes(T1, x) + PrTimes(T2, x)
      /\ PrTimes(b, page) # 0
  <2>1. CASE PrTimes(T1, page) # 0
    <3>1. a = Policies!removeNode(T1, page) /\ b = <<page>> \o T2
      BY <1>1, <1>2, <1>13, <2>1 DEF Policies!ArcHit
    <3>2. \E k \in DOMAIN T1 : T1[k] = page
      BY <1>11, <2>1, PrListHas
    <3>3. /\ a \in Seq(PcPages) /\ Len(a) = Len(T1) - 1
          /\ \A y : PrTimes(a, y) = PrTimes(T1, y) - (IF page = y THEN 1 ELSE 0)
      <4>1. T1 \in Seq(PcPages) /\ a = Policies!removeNode(T1, page)
        BY <1>11, <3>1
      <4>2. PrLess(PcPages, T1, page, a)
        BY ONLY <4>1, <3>2, PrRemove
      <4> QED
        BY ONLY <4>2 DEF PrLess
    <3>4. /\ b \in Seq(PcPages) /\ Len(b) = Len(T2) + 1
          /\ \A y : PrTimes(b, y) = PrTimes(T2, y) + (IF page = y THEN 1 ELSE 0)
      BY <1>11, <3>1, PrFront
    <3>5. PrAll(page) # 0
      BY <1>12, <2>1 DEF PrAll
    <3>6. ASSUME NEW x
          PROVE  /\ PrTimes(a, x) \in Nat /\ PrTimes(b, x) \in Nat
                 /\ PrTimes(a, x) + PrTimes(b, x) = PrTimes(T1, x) + PrTimes(T2, x)
      <4>1. /\ PrTimes(a, x) = PrTimes(T1, x) - (IF page = x THEN 1 ELSE 0)
            /\ PrTimes(b, x) = PrTimes(T2, x) + (IF page = x THEN 1 ELSE 0)
        BY <3>3, <3>4
      <4>2. PrTimes(a, x) \in Nat
        BY <3>3, PrFinite
      <4> QED
        BY <1>12, <4>1, <4>2
    <3>7. PrTimes(b, page) # 0
      BY <1>12, <3>4
    <3> QED
      BY <1>11, <3>3, <3>4, <3>5, <3>6, <3>7
  <2>2. CASE PrTimes(T1, page) = 0
    <3>1. PrTimes(T2, page) # 0
      BY <1>13, <2>2 DEF Policies!ArcHit
    <3>2. PICK c : c = Policies!removeNode(T2, page)
      OBVIOUS
    <3>3. a = T1 /\ b = <<page>> \o c
      BY <1>1, <1>2, <1>13, <2>2, <3>2 DEF Policies!ArcHit, Policies!removeNode
    <3>4. \E k \in DOMAIN T2 : T2[k] = page
      BY <1>11, <3>1, PrListHas
    <3>5. /\ c \in Seq(PcPages) /\ Len(c) = Len(T2) - 1
          /\ \A y : PrTimes(c, y) = PrTimes(T2, y) - (IF page = y THEN 1 ELSE 0)
      <4>1. T2 \in Seq(PcPages) /\ c = Policies!removeNode(T2, page)
        BY <1>11, <3>2
      <4>2. PrLess(PcPages, T2, page, c)
        BY ONLY <4>1, <3>4, PrRemove
      <4> QED
        BY ONLY <4>2 DEF PrLess
    <3>6. /\ b \in Seq(PcPages) /\ Len(b) = Len(c) + 1
          /\ \A y : PrTimes(b, y) = PrTimes(c, y) + (IF page = y THEN 1 ELSE 0)
      BY <3>3, <3>5, PrFront
    <3>7. PrAll(page) # 0
      BY <1>12, <3>1 DEF PrAll
    <3>8. ASSUME NEW x PROVE PrTimes(b, x) = PrTimes(T2, x)
      <4>1. /\ PrTimes(c, x) = PrTimes(T2, x) - (IF page = x THEN 1 ELSE 0)
            /\ PrTimes(b, x) = PrTimes(c, x) + (IF page = x THEN 1 ELSE 0)
        BY <3>5, <3>6
      <4> QED
        BY <1>12, <4>1
    <3>9. Len(b) = Len(T2)
      BY <1>11, <3>5, <3>6
    <3> QED
      BY <1>11, <1>12, <3>1, <3>3, <3>6, <3>7, <3>8, <3>9
  <2> QED
    BY <1>12, <2>1, <2>2
<1>5. PrAll(page) = 1 /\ Len(recent') = Len(recent)
  BY <1>4, PrSeen
<1>6. ASSUME NEW x \in PcPages PROVE PrAll(x)' = IF x = page THEN 1 ELSE PrAll(x)
  <2>1. PrAll(x)' = PrTimes(a, x) + PrTimes(b, x) + PrTimes(B1, x) + PrTimes(B2, x)
    BY <1>1, <1>2, <1>3 DEF PrAll
  <2>2. PrTimes(a, x) + PrTimes(b, x) = PrTimes(T1, x) + PrTimes(T2, x)
        /\ PrTimes(a, x) \in Nat /\ PrTimes(b, x) \in Nat
    BY <1>4
  <2>3. PrAll(x)' = PrAll(x)
    BY <1>12, <2>1, <2>2 DEF PrAll
  <2> QED
    BY <1>5, <2>3
<1>7. Len(recent') <= MAX_FRAMES =>
        B1' = <<>> /\ B2' = <<>> /\ Len(a) + Len(b) = Len(recent')
  BY <1>3, <1>4, <1>5 DEF PrInv, PrArc
<1>8. PrTimes(a, page) + PrTimes(b, page) # 0
  <2>1. PrTimes(a, page) \in Nat /\ PrTimes(b, page) \in Nat /\ PrTimes(b, page) # 0
    BY <1>4
  <2> QED
    BY <2>1
<1>9. Len(a) + Len(b) <= MAX_FRAMES + PrTimes(B2', -1)
  BY <1>3, <1>4, <1>14
<1> QED
  BY <1>11, <1>1, <1>2, <1>3, <1>4, <1>6, <1>7, <1>8, <1>9, PrArcKept

\* The lists after a replacement have what they had before.
PrSame(a, b, c, d) ==
  \A x \in PcPages :
    PrTimes(a, x) + PrTimes(b, x) + PrTimes(c, x) + PrTimes(d, x) = PrAll(x)
PrRoom(a, b, d) ==
  Len(a) + Len(b) + 1 + PrTimes(B2, -1) <= Len(T1) + Len(T2) + PrTimes(d, -1)
PrTaken(c2, d2, c, d, page) ==
  \A x \in PcPages : PrTimes(c2, x) + PrTimes(d2, x)
                        = PrTimes(c, x) + PrTimes(d, x) - (IF x = page THEN 1 ELSE 0)

\* A page comes back from a list of ghosts: after the replacement it is taken
\* from that list and put at the front of T2.
LEMMA PrGhost ==
  ASSUME PrInv, choice = 3, NEW page \in PcPages, Policies!Request(page),
         UNCHANGED <<buffer, time, refBit, pointer>>, p' \in 0 .. MAX_FRAMES,
         NEW a \in Seq(PcPages), NEW b \in Seq(PcPages),
         NEW c \in Seq(PcPages), NEW d \in Seq(PrValues),
         PrSame(a, b, c, d), PrRoom(a, b, d),
         NEW c2 \in Seq(PcPages), NEW d2 \in Seq(PrValues), PrTaken(c2, d2, c, d, page),
         PrTimes(d2, -1) = PrTimes(d, -1),
         B1 # <<>> \/ B2 # <<>>, PrAll(page) # 0,
         T1' = a, T2' = <<page>> \o b, B1' = c2, B2' = d2
  PROVE  PrInv'
<1>1. PICK e : e = <<page>> \o b
  OBVIOUS
<1>2. /\ e \in Seq(PcPages) /\ Len(e) = Len(b) + 1
      /\ \A x : PrTimes(e, x) = PrTimes(b, x) + (IF page = x THEN 1 ELSE 0)
  BY <1>1, PrFront
<1>3. ASSUME NEW x
      PROVE  /\ PrTimes(a, x) \in Nat /\ PrTimes(b, x) \in Nat
             /\ PrTimes(c, x) \in Nat /\ PrTimes(d, x) \in Nat
             /\ PrTimes(c2, x) \in Nat /\ PrTimes(d2, x) \in Nat
  <2>1. PrTimes(a, x) \in Nat /\ PrTimes(b, x) \in Nat
    BY PrFinite
  <2>2. PrTimes(c, x) \in Nat /\ PrTimes(c2, x) \in Nat
    BY PrFinite
  <2>3. PrTimes(d, x) \in Nat /\ PrTimes(d2, x) \in Nat
    BY PrFinite
  <2> QED
    BY <2>1, <2>2, <2>3
<1>4. PrAll(page) = 1 /\ Len(recent') = Len(recent)
  BY PrSeen
<1>5. ASSUME NEW x \in PcPages PROVE PrAll(x)' = IF x = page THEN 1 ELSE PrAll(x)
  <2>1. PrAll(x)' = PrTimes(a, x) + PrTimes(e, x) + PrTimes(c2, x) + PrTimes(d2, x)
    BY <1>1 DEF PrAll
  <2>2. PrTimes(e, x) = PrTimes(b, x) + (IF page = x THEN 1 ELSE 0)
    BY <1>2
  <2>3. PrTimes(c2, x) + PrTimes(d2, x)
          = PrTimes(c, x) + PrTimes(d, x) - (IF x = page THEN 1 ELSE 0)
    BY DEF PrTaken
  <2>4. PrTimes(a, x) + PrTimes(b, x) + PrTimes(c, x) + PrTimes(d, x) = PrAll(x)
    BY DEF PrSame
  <2>5. /\ PrTimes(a, x) \in Nat /\ PrTimes(b, x) \in Nat
        /\ PrTimes(c, x) \in Nat /\ PrTimes(d, x) \in Nat
        /\ PrTimes(c2, x) \in Nat /\ PrTimes(d2, x) \in Nat
    BY <1>3
  <2>6. PrAll(x)' = PrAll(x)
    <3>1. CASE x = page
      <4>1. PrTimes(e, x) = PrTimes(b, x) + 1
        BY <2>2, <3>1
      <4>2. PrTimes(c2, x) + PrTimes(d2, x) = PrTimes(c, x) + PrTimes(d, x) - 1
        BY <2>3, <3>1
      <4>3. PrTimes(a, x) + PrTimes(e, x) + PrTimes(c2, x) + PrTimes(d2, x)
              = PrTimes(a, x) + PrTimes(b, x) + PrTimes(c, x) + PrTimes(d, x)
        <5>1. PICK ta \in Nat, tb \in Nat, tc \in Nat, td \in Nat, uc \in Nat, ud \in Nat :
                /\ ta = PrTimes(a, x) /\ tb = PrTimes(b, x) /\ tc = PrTimes(c, x)
                /\ td = PrTimes(d, x) /\ uc = PrTimes(c2, x) /\ ud = PrTimes(d2, x)
          BY ONLY <2>5
        <5>2. PICK te : te = PrTimes(e, x)
          OBVIOUS
        <5>3. te = tb + 1
          BY ONLY <4>1, <5>1, <5>2
        <5>4. uc + ud = tc + td - 1
          BY ONLY <4>2, <5>1
        <5>5. ta + te + uc + ud = ta + tb + tc + td
          BY <5>3, <5>4
        <5> QED
          BY ONLY <5>1, <5>2, <5>5
      <4> QED
        BY ONLY <2>1, <2>4, <4>3
    <3>2. CASE x # page
      <4>1. PrTimes(e, x) = PrTimes(b, x) + 0
        BY <2>2, <3>2
      <4>2. PrTimes(c2, x) + PrTimes(d2, x) = PrTimes(c, x) + PrTimes(d, x) - 0
        BY <2>3, <3>2
      <4>3. PrTimes(a, x) + PrTimes(e, x) + PrTimes(c2, x) + PrTimes(d2, x)
              = PrTimes(a, x) + PrTimes(b, x) + PrTimes(c, x) + PrTimes(d, x)
        <5>1. PICK ta \in Nat, tb \in Nat, tc \in Nat, td \in Nat, uc \in Nat, ud \in Nat :
                /\ ta = PrTimes(a, x) /\ tb = PrTimes(b, x) /\ tc = PrTimes(c, x)
                /\ td = PrTimes(d, x) /\ uc = PrTimes(c2, x) /\ ud = PrTimes(d2, x)
          BY ONLY <2>5
        <5>2. PICK te : te = PrTimes(e, x)
          OBVIOUS
        <5>3. te = tb + 0
          BY ONLY <4>1, <5>1, <5>2
        <5>4. uc + ud = tc + td - 0
          BY ONLY <4>2, <5>1
        <5>5. ta + te + uc + ud = ta + tb + tc + td
          BY <5>3, <5>4
        <5> QED
          BY ONLY <5>1, <5>2, <5>5
      <4> QED
        BY ONLY <2>1, <2>4, <4>3
    <3> QED
      BY <3>1, <3>2
  <2> QED
    BY <1>4, <2>6
<1>6. Len(a) + Len(e) <= MAX_FRAMES + PrTimes(d2, -1)
  <2>1. Len(T1) + Len(T2) <= MAX_FRAMES + PrTimes(B2, -1)
    BY PrLists
  <2>2. PrTimes(B2, -1) \in Nat /\ Len(T1) \in Nat /\ Len(T2) \in Nat
    BY PrLists
  <2>3. MAX_FRAMES \in Nat
    BY PrConstants
  <2>4. Len(a) \in Nat /\ Len(b) \in Nat
    OBVIOUS
  <2>5. PrTimes(d, -1) \in Nat
    BY <1>3
  <2>6. /\ Len(a) + Len(b) + 1 + PrTimes(B2, -1) <= Len(T1) + Len(T2) + PrTimes(d, -1)
        /\ PrTimes(d2, -1) = PrTimes(d, -1) /\ Len(e) = Len(b) + 1
    BY <1>2 DEF PrRoom
  <2>7. PICK la, lb, l1, l2, td, tb : /\ la = Len(a) /\ lb = Len(b) /\ l1 = Len(T1)
                                      /\ l2 = Len(T2) /\ td = PrTimes(d, -1)
                                      /\ tb = PrTimes(B2, -1)
    OBVIOUS
  <2>8. la + (lb + 1) <= MAX_FRAMES + td
    <3>1. la \in Nat /\ lb \in Nat /\ l1 \in Nat /\ l2 \in Nat /\ td \in Nat /\ tb \in Nat
      BY <2>2, <2>4, <2>5, <2>7
    <3>2. la + lb + 1 + tb <= l1 + l2 + td /\ l1 + l2 <= MAX_FRAMES + tb
      BY <2>1, <2>6, <2>7
    <3> QED
      BY ONLY <2>3, <3>1, <3>2
  <2> QED
    BY <2>6, <2>7, <2>8
<1>7. ~(Len(recent') <= MAX_FRAMES)
  BY <1>4 DEF PrInv, PrArc
<1>8. PrTimes(a, page) + PrTimes(e, page) # 0
  <2>1. PrTimes(e, page) = PrTimes(b, page) + 1
    BY <1>2
  <2>2. PrTimes(a, page) \in Nat /\ PrTimes(b, page) \in Nat
    BY <1>3
  <2> QED
    BY ONLY <2>1, <2>2
<1> QED
  BY <1>1, <1>2, <1>5, <1>6, <1>7, <1>8, PrArcKept

\* ARC finds the page among the ghosts of T1.
LEMMA PrArcB1 ==
  ASSUME PrInv, choice = 3, NEW page \in PcPages, Policies!Request(page),
         UNCHANGED <<buffer, time, refBit, pointer>>, Policies!ArcB1(page)
  PROVE  PrInv'
<1>1. PICK q : q = IF p + (IF B2 # <<>> THEN 1 ELSE 0) < MAX_FRAMES THEN p + 1 ELSE MAX_FRAMES
  OBVIOUS
<1>2. q \in 0 .. MAX_FRAMES /\ q \in Int
  <2>1. p \in 0 .. MAX_FRAMES /\ MAX_FRAMES \in Nat
    BY PrLists, PrConstants
  <2>2. (IF B2 # <<>> THEN 1 ELSE 0) \in {0, 1}
    OBVIOUS
  <2>3. CASE p < MAX_FRAMES
    <3>1. p + 1 \in 0 .. MAX_FRAMES /\ MAX_FRAMES \in 0 .. MAX_FRAMES
      BY <2>1, <2>3
    <3> QED
      BY <1>1, <2>1, <3>1
  <2>4. CASE p = MAX_FRAMES
    <3>1. ~(p + (IF B2 # <<>> THEN 1 ELSE 0) < MAX_FRAMES)
      BY <2>1, <2>2, <2>4
    <3> QED
      BY <1>1, <2>1, <3>1
  <2> QED
    BY <2>1, <2>3, <2>4
<1>3. PICK a, b, c \in Seq(PcPages) : \E d \in Seq(PrValues) :
        /\ Policies!replaceARC(q) = [T1 |-> a, T2 |-> b, B1 |-> c, B2 |-> d]
        /\ \A x \in PcPages :
             /\ PrTimes(a, x) + PrTimes(b, x) + PrTimes(c, x) + PrTimes(d, x) = PrAll(x)
             /\ PrTimes(c, x) >= PrTimes(B1, x) /\ PrTimes(d, x) >= PrTimes(B2, x)
        /\ Len(a) + Len(b) + 1 + PrTimes(B2, -1) <= Len(T1) + Len(T2) + PrTimes(d, -1)
  BY <1>2, PrReplace
<1>4. PICK d \in Seq(PrValues) :
        /\ Policies!replaceARC(q) = [T1 |-> a, T2 |-> b, B1 |-> c, B2 |-> d]
        /\ \A x \in PcPages :
             /\ PrTimes(a, x) + PrTimes(b, x) + PrTimes(c, x) + PrTimes(d, x) = PrAll(x)
             /\ PrTimes(c, x) >= PrTimes(B1, x) /\ PrTimes(d, x) >= PrTimes(B2, x)
        /\ Len(a) + Len(b) + 1 + PrTimes(B2, -1) <= Len(T1) + Len(T2) + PrTimes(d, -1)
  BY <1>3
<1>5. PICK c2 : c2 = Policies!removeNode(c, page)
  OBVIOUS
<1>6. p' = q /\ T1' = a /\ T2' = <<page>> \o b /\ B1' = c2 /\ B2' = d
  BY <1>1, <1>4, <1>5 DEF Policies!ArcB1
<1>7. PrTimes(B1, page) # 0 /\ PrTimes(B1, page) \in Nat /\ PrTimes(c, page) \in Nat
  <2>1. PrTimes(c, page) \in Nat
    BY PrFinite
  <2> QED
    BY <2>1, PrLists DEF Policies!ArcB1
<1>8. PrTimes(c, page) # 0
  <2>1. PrTimes(c, page) >= PrTimes(B1, page)
    BY <1>4
  <2> QED
    BY <1>7, <2>1
<1>9. /\ c2 \in Seq(PcPages)
      /\ \A y : PrTimes(c2, y) = PrTimes(c, y) - (IF page = y THEN 1 ELSE 0)
  <2>1. \E k \in DOMAIN c : c[k] = page
    BY <1>8, PrListHas
  <2> QED
    <3>1. PrLess(PcPages, c, page, c2)
      <4>1. c \in Seq(PcPages) /\ c2 = Policies!removeNode(c, page)
        BY <1>5
      <4> QED
        BY ONLY <4>1, <2>1, PrRemove
    <3> QED
      BY ONLY <3>1 DEF PrLess
<1>10. PrTaken(c2, d, c, d, page)
  <2> SUFFICES ASSUME NEW x \in PcPages
               PROVE  PrTimes(c2, x) + PrTimes(d, x)
                        = PrTimes(c, x) + PrTimes(d, x) - (IF x = page THEN 1 ELSE 0)
    BY DEF PrTaken
  <2>1. PrTimes(c2, x) = PrTimes(c, x) - (IF page = x THEN 1 ELSE 0)
    BY <1>9
  <2>2. PrTimes(c, x) \in Nat
    BY PrFinite
  <2>3. PrTimes(d, x) \in Nat
    BY PrFinite
  <2> QED
    BY <2>1, <2>2, <2>3
<1>11. B1 # <<>> /\ PrAll(page) # 0
  <2>1. B1 # <<>>
    BY <1>7, PrNone
  <2>2. PrAll(page) # 0
    <3>1. /\ PrTimes(T1, page) \in Nat /\ PrTimes(T2, page) \in Nat
          /\ PrTimes(B1, page) \in Nat /\ PrTimes(B2, page) \in Nat
      BY PrLists
    <3> QED
      BY ONLY <1>7, <3>1 DEF PrAll
  <2> QED
    BY <2>1, <2>2
<1>12. PrSame(a, b, c, d) /\ PrRoom(a, b, d)
  BY <1>4 DEF PrSame, PrRoom
<1>13. /\ p' \in 0 .. MAX_FRAMES
       /\ a \in Seq(PcPages) /\ b \in Seq(PcPages) /\ c \in Seq(PcPages)
       /\ d \in Seq(PrValues)
  BY <1>2, <1>6
<1> QED
  BY ONLY PrInv, choice = 3, page \in PcPages, Policies!Request(page),
     UNCHANGED <<buffer, time, refBit, pointer>>,
     <1>6, <1>9, <1>10, <1>11, <1>12, <1>13, PrGhost

\* ARC finds the page among the ghosts of T2.
LEMMA PrArcB2 ==
  ASSUME PrInv, choice = 3, NEW page \in PcPages, Policies!Request(page),
         UNCHANGED <<buffer, time, refBit, pointer>>, Policies!ArcB2(page)
  PROVE  PrInv'
<1>1. PICK q : q = IF p - (IF B1 # <<>> THEN 1 ELSE 0) > 0 THEN p - 1 ELSE 0
  OBVIOUS
<1>2. q \in 0 .. MAX_FRAMES /\ q \in Int
  <2>1. p \in 0 .. MAX_FRAMES /\ MAX_FRAMES \in Nat
    BY PrLists, PrConstants
  <2>2. (IF B1 # <<>> THEN 1 ELSE 0) \in {0, 1}
    OBVIOUS
  <2>3. CASE p > 0
    <3>1. p - 1 \in 0 .. MAX_FRAMES /\ 0 \in 0 .. MAX_FRAMES
      BY <2>1, <2>3
    <3> QED
      BY <1>1, <2>1, <3>1
  <2>4. CASE p = 0
    <3>1. ~(p - (IF B1 # <<>> THEN 1 ELSE 0) > 0)
      BY <2>1, <2>2, <2>4
    <3> QED
      BY <1>1, <2>1, <3>1
  <2> QED
    BY <2>1, <2>3, <2>4
<1>3. PICK a, b, c \in Seq(PcPages) : \E d \in Seq(PrValues) :
        /\ Policies!replaceARC(q) = [T1 |-> a, T2 |-> b, B1 |-> c, B2 |-> d]
        /\ \A x \in PcPages :
             /\ PrTimes(a, x) + PrTimes(b, x) + PrTimes(c, x) + PrTimes(d, x) = PrAll(x)
             /\ PrTimes(c, x) >= PrTimes(B1, x) /\ PrTimes(d, x) >= PrTimes(B2, x)
        /\ Len(a) + Len(b) + 1 + PrTimes(B2, -1) <= Len(T1) + Len(T2) + PrTimes(d, -1)
  BY <1>2, PrReplace
<1>4. PICK d \in Seq(PrValues) :
        /\ Policies!replaceARC(q) = [T1 |-> a, T2 |-> b, B1 |-> c, B2 |-> d]
        /\ \A x \in PcPages :
             /\ PrTimes(a, x) + PrTimes(b, x) + PrTimes(c, x) + PrTimes(d, x) = PrAll(x)
             /\ PrTimes(c, x) >= PrTimes(B1, x) /\ PrTimes(d, x) >= PrTimes(B2, x)
        /\ Len(a) + Len(b) + 1 + PrTimes(B2, -1) <= Len(T1) + Len(T2) + PrTimes(d, -1)
  BY <1>3
<1>5. PICK d2 : d2 = Policies!removeNode(d, page)
  OBVIOUS
<1>6. p' = q /\ T1' = a /\ T2' = <<page>> \o b /\ B1' = c /\ B2' = d2
  BY <1>1, <1>4, <1>5 DEF Policies!ArcB2
<1>7. PrTimes(B2, page) # 0 /\ PrTimes(B2, page) \in Nat /\ PrTimes(d, page) \in Nat
  <2>1. PrTimes(d, page) \in Nat
    BY PrFinite
  <2> QED
    BY <2>1, PrLists DEF Policies!ArcB2
<1>8. PrTimes(d, page) # 0
  <2>1. PrTimes(d, page) >= PrTimes(B2, page)
    BY <1>4
  <2> QED
    BY <1>7, <2>1
<1>9. /\ d2 \in Seq(PrValues)
      /\ \A y : PrTimes(d2, y) = PrTimes(d, y) - (IF page = y THEN 1 ELSE 0)
  <2>1. \E k \in DOMAIN d : d[k] = page
    BY <1>8, PrListHas
  <2> QED
    <3>1. PrLess(PrValues, d, page, d2)
      <4>1. d \in Seq(PrValues) /\ d2 = Policies!removeNode(d, page)
        BY <1>5
      <4> QED
        BY ONLY <4>1, <2>1, PrRemove
    <3> QED
      BY ONLY <3>1 DEF PrLess
<1>10. PrTaken(c, d2, c, d, page)
  <2> SUFFICES ASSUME NEW x \in PcPages
               PROVE  PrTimes(c, x) + PrTimes(d2, x)
                        = PrTimes(c, x) + PrTimes(d, x) - (IF x = page THEN 1 ELSE 0)
    BY DEF PrTaken
  <2>1. PrTimes(d2, x) = PrTimes(d, x) - (IF page = x THEN 1 ELSE 0)
    BY <1>9
  <2>2. PrTimes(c, x) \in Nat
    BY PrFinite
  <2>3. PrTimes(d, x) \in Nat
    BY PrFinite
  <2> QED
    BY <2>1, <2>2, <2>3
<1>11. B2 # <<>> /\ PrAll(page) # 0
  <2>1. B2 # <<>>
    BY <1>7, PrNone
  <2>2. PrAll(page) # 0
    <3>1. /\ PrTimes(T1, page) \in Nat /\ PrTimes(T2, page) \in Nat
          /\ PrTimes(B1, page) \in Nat /\ PrTimes(B2, page) \in Nat
      BY PrLists
    <3> QED
      BY ONLY <1>7, <3>1 DEF PrAll
  <2> QED
    BY <2>1, <2>2
<1>12. PrSame(a, b, c, d) /\ PrRoom(a, b, d)
  BY <1>4 DEF PrSame, PrRoom
<1>13. PrTimes(d2, -1) = PrTimes(d, -1)
  <2>1. PrTimes(d2, -1) = PrTimes(d, -1) - (IF page = -1 THEN 1 ELSE 0) /\ page # -1
    BY <1>9, PrConstants
  <2>2. PrTimes(d, -1) \in Nat
    BY PrFinite
  <2> QED
    BY <2>1, <2>2
<1>14. /\ p' \in 0 .. MAX_FRAMES
       /\ a \in Seq(PcPages) /\ b \in Seq(PcPages) /\ c \in Seq(PcPages)
       /\ d \in Seq(PrValues)
  BY <1>2, <1>6
<1> QED
  BY ONLY PrInv, choice = 3, page \in PcPages, Policies!Request(page),
     UNCHANGED <<buffer, time, refBit, pointer>>,
     <1>6, <1>9, <1>10, <1>11, <1>12, <1>13, <1>14, PrGhost

\* ARC meets a new page.
LEMMA PrArcNew ==
  ASSUME PrInv, choice = 3, NEW page \in PcPages, Policies!Request(page),
         UNCHANGED <<buffer, time, refBit, pointer>>, Policies!ArcNew(page),
         ~Policies!contains(T1, page), ~Policies!contains(T2, page)
  PROVE  PrInv'
<1>1. /\ PrTimes(T1, page) = 0 /\ PrTimes(T2, page) = 0
      /\ PrTimes(B1, page) = 0 /\ PrTimes(B2, page) = 0
  BY PrLists DEF Policies!ArcNew
<1>2. PrAll(page) = 0
  BY <1>1 DEF PrAll
<1>3. Len(recent') = Len(recent) + 1 /\ Len(recent) \in Nat
  <2>1. PrTimes(recent, page) = 0
    BY <1>2 DEF PrInv, PrArc
  <2> QED
    BY <2>1, PrRequest
<1>4. p' = p /\ p \in 0 .. MAX_FRAMES /\ p \in Int /\ MAX_FRAMES \in Nat
      /\ Len(T1) \in Nat /\ Len(T2) \in Nat
  BY PrLists, PrConstants DEF Policies!ArcNew
<1>5. ASSUME NEW a \in Seq(PcPages), NEW b \in Seq(PcPages),
             NEW c \in Seq(PcPages), NEW d \in Seq(PrValues),
             \A x \in PcPages :
               PrTimes(a, x) + PrTimes(b, x) + PrTimes(c, x) + PrTimes(d, x) = PrAll(x),
             Len(a) + 1 + Len(b) <= MAX_FRAMES + PrTimes(d, -1),
             Len(recent') <= MAX_FRAMES =>
               c = <<>> /\ d = <<>> /\ Len(a) + 1 + Len(b) = Len(recent'),
             T1' = <<page>> \o a, T2' = b, B1' = c, B2' = d
      PROVE  PrInv'
  <2>1. PICK e : e = <<page>> \o a
    OBVIOUS
  <2>2. /\ e \in Seq(PcPages) /\ Len(e) = Len(a) + 1
        /\ \A x : PrTimes(e, x) = PrTimes(a, x) + (IF page = x THEN 1 ELSE 0)
    BY <2>1, PrFront
  <2>3. ASSUME NEW x
        PROVE  /\ PrTimes(a, x) \in Nat /\ PrTimes(b, x) \in Nat
               /\ PrTimes(c, x) \in Nat /\ PrTimes(d, x) \in Nat
    <3>1. PrTimes(a, x) \in Nat /\ PrTimes(b, x) \in Nat
      BY PrFinite
    <3>2. PrTimes(c, x) \in Nat
      BY PrFinite
    <3>3. PrTimes(d, x) \in Nat
      BY PrFinite
    <3> QED
      BY <3>1, <3>2, <3>3
  <2>4. ASSUME NEW x \in PcPages PROVE PrAll(x)' = IF x = page THEN 1 ELSE PrAll(x)
    <3>1. PrAll(x)' = PrTimes(e, x) + PrTimes(b, x) + PrTimes(c, x) + PrTimes(d, x)
      BY <1>5, <2>1 DEF PrAll
    <3>2. PrTimes(e, x) = PrTimes(a, x) + (IF page = x THEN 1 ELSE 0)
      BY <2>2
    <3>3. PrTimes(a, x) + PrTimes(b, x) + PrTimes(c, x) + PrTimes(d, x) = PrAll(x)
      BY <1>5
    <3>4. PrAll(x)' = PrAll(x) + (IF page = x THEN 1 ELSE 0) /\ PrAll(x) \in Nat
      BY <2>3, <3>1, <3>2, <3>3
    <3> QED
      BY <1>2, <3>4
  <2>5. PrTimes(e, page) + PrTimes(b, page) # 0
    <3>1. PrTimes(e, page) = PrTimes(a, page) + 1
      BY <2>2
    <3> QED
      BY <2>3, <3>1
  <2> QED
    BY <1>4, <1>5, <2>1, <2>2, <2>4, <2>5, PrArcKept
<1>6. CASE Len(T1) + Len(T2) >= MAX_FRAMES
  <2>3. PICK a, b, c \in Seq(PcPages) : \E d \in Seq(PrValues) :
          /\ Policies!replaceARC(p) = [T1 |-> a, T2 |-> b, B1 |-> c, B2 |-> d]
          /\ \A x \in PcPages :
               /\ PrTimes(a, x) + PrTimes(b, x) + PrTimes(c, x) + PrTimes(d, x) = PrAll(x)
               /\ PrTimes(c, x) >= PrTimes(B1, x) /\ PrTimes(d, x) >= PrTimes(B2, x)
          /\ Len(a) + Len(b) + 1 + PrTimes(B2, -1) <= Len(T1) + Len(T2) + PrTimes(d, -1)
    BY <1>4, PrReplace
  <2>4. PICK d \in Seq(PrValues) :
          /\ Policies!replaceARC(p) = [T1 |-> a, T2 |-> b, B1 |-> c, B2 |-> d]
          /\ \A x \in PcPages :
               /\ PrTimes(a, x) + PrTimes(b, x) + PrTimes(c, x) + PrTimes(d, x) = PrAll(x)
               /\ PrTimes(c, x) >= PrTimes(B1, x) /\ PrTimes(d, x) >= PrTimes(B2, x)
          /\ Len(a) + Len(b) + 1 + PrTimes(B2, -1) <= Len(T1) + Len(T2) + PrTimes(d, -1)
    BY <2>3
  <2>5. T1' = <<page>> \o a /\ T2' = b /\ B1' = c /\ B2' = d
    BY <1>6, <2>4 DEF Policies!ArcNew
  <2>6. Len(a) + 1 + Len(b) <= MAX_FRAMES + PrTimes(d, -1)
    <3>1. Len(T1) + Len(T2) <= MAX_FRAMES + PrTimes(B2, -1) /\ PrTimes(B2, -1) \in Nat
      BY PrLists
    <3>2. Len(a) \in Nat /\ Len(b) \in Nat
      OBVIOUS
    <3>3. PrTimes(d, -1) \in Nat
      BY PrFinite
    <3> QED
      BY <1>4, <2>4, <3>1, <3>2, <3>3
  <2>7. ~(Len(recent') <= MAX_FRAMES)
    <3>1. Len(recent) <= MAX_FRAMES => Len(T1) + Len(T2) = Len(recent)
      BY DEF PrInv, PrArc
    <3> QED
      BY <1>3, <1>4, <1>6, <3>1
  <2>8. \A x \in PcPages :
          PrTimes(a, x) + PrTimes(b, x) + PrTimes(c, x) + PrTimes(d, x) = PrAll(x)
    BY <2>4
  <2> QED
    BY <1>5, <2>5, <2>6, <2>7, <2>8
<1>7. CASE ~(Len(T1) + Len(T2) >= MAX_FRAMES)
  <2>1. T1' = <<page>> \o T1 /\ T2' = T2 /\ B1' = B1 /\ B2' = B2
    BY <1>7 DEF Policies!ArcNew
  <2>2. T1 \in Seq(PcPages) /\ T2 \in Seq(PcPages) /\ B1 \in Seq(PcPages)
        /\ B2 \in Seq(PrValues) /\ PrTimes(B2, -1) \in Nat
    BY PrLists
  <2>3. Len(T1) + 1 + Len(T2) <= MAX_FRAMES + PrTimes(B2, -1)
    BY <1>4, <1>7, <2>2
  <2>4. Len(recent') <= MAX_FRAMES =>
          B1 = <<>> /\ B2 = <<>> /\ Len(T1) + 1 + Len(T2) = Len(recent')
    <3>1. Len(recent) <= MAX_FRAMES =>
            B1 = <<>> /\ B2 = <<>> /\ Len(T1) + Len(T2) = Len(recent)
      BY DEF PrInv, PrArc
    <3> QED
      BY <1>3, <1>4, <3>1
  <2>5. \A x \in PcPages :
          PrTimes(T1, x) + PrTimes(T2, x) + PrTimes(B1, x) + PrTimes(B2, x) = PrAll(x)
    BY DEF PrAll
  <2> QED
    BY <1>5, <2>1, <2>2, <2>3, <2>4, <2>5
<1> QED
  BY <1>6, <1>7

\* Where a page of the new history was in the old one.
LEMMA PrBack ==
  ASSUME NEW r \in Seq(PcPages), NEW r2 \in Seq(PcPages), NEW page, NEW i \in 1 .. Len(r) + 1,
         PrAhead(r, r2, page, i),
         \A j, k \in 1 .. Len(r) : r[j] = r[k] => j = k,
         NEW m \in 2 .. Len(r2)
  PROVE  \E k \in 1 .. Len(r) : /\ r2[m] = r[k] /\ r[k] # page
                                /\ k = IF m <= i THEN m - 1 ELSE m
<1>1. Len(r) \in Nat /\ Len(r2) \in Nat /\ m \in Int /\ i \in Int
  OBVIOUS
<1>2. Len(r2) = IF i <= Len(r) THEN Len(r) ELSE Len(r) + 1
  BY DEF PrAhead
<1>3. CASE m <= i
  <2>1. PICK k \in Int : k = m - 1
    BY <1>1
  <2>2. k \in 1 .. i - 1 /\ k \in 1 .. Len(r) /\ m = k + 1
    BY <1>1, <1>2, <1>3, <2>1
  <2>3. r2[k + 1] = r[k] /\ r[k] # page
    BY <2>2 DEF PrAhead
  <2> QED
    BY <1>3, <2>1, <2>2, <2>3
<1>4. CASE m > i
  <2>1. i <= Len(r)
    BY <1>1, <1>2, <1>4
  <2>2. m \in i + 1 .. Len(r) /\ m \in 1 .. Len(r) /\ i \in 1 .. Len(r) /\ m # i /\ ~(m <= i)
    BY <1>1, <1>2, <1>4, <2>1
  <2>3. r2[m] = r[m] /\ r[i] = page
    BY <2>1, <2>2 DEF PrAhead
  <2>4. r[m] # page
    BY <2>2, <2>3
  <2> QED
    BY <2>2, <2>3, <2>4
<1> QED
  BY <1>1, <1>3, <1>4

\* A page is at one place of the history.
LEMMA PrDistinct ==
  ASSUME PrInv
  PROVE  \A j, k \in 1 .. Len(recent) : recent[j] = recent[k] => j = k
<1> SUFFICES ASSUME NEW j \in 1 .. Len(recent), NEW k \in 1 .. Len(recent), recent[j] = recent[k]
             PROVE  j = k
  OBVIOUS
<1>1. recent \in Seq(PcPages)
  BY DEF PrInv, PrTypes
<1>2. PICK x : x = recent[j]
  OBVIOUS
<1>3. x \in PcPages /\ j \in DOMAIN recent /\ k \in DOMAIN recent
  BY <1>1, <1>2
<1>4. PrTimes(recent, x) <= 1
  BY <1>3 DEF PrInv, PrRecent
<1> QED
  BY <1>1, <1>2, <1>3, <1>4, PrOnce

\* A set of frames has a first one.
LEMMA PrLeast ==
  ASSUME NEW T, T \subseteq PrFrames, T # {}
  PROVE  Policies!Min(T) \in T
<1>1. T \subseteq Nat
  BY PrConstants DEF PrFrames
<1>2. \E x \in T : \A y \in T : x <= y
  BY <1>1, MvLeast
<1> QED
  BY <1>2 DEF Policies!Min

\* LRU uses frame fr for the page, whether it was there already or not.
LEMMA PrUsed ==
  ASSUME PrInv, choice = 1, NEW page \in PcPages, Policies!Request(page),
         UNCHANGED <<refBit, pointer, T1, T2, B1, B2, p>>,
         NEW fr \in PrFrames, \A f \in PrFrames : f # fr => buffer[f] # page,
         buffer' = [buffer EXCEPT ![fr] = page], time' = [time EXCEPT ![fr] = counter + 1],
         PrFilled', PrHeld', PrKept'
  PROVE  PrInv'
<1>1. /\ choice' = 1 /\ counter' = counter + 1 /\ counter' \in 0 .. MAX_PAGES
      /\ PrMoved(recent, recent', page)
      /\ recent' \in Seq(PcPages) /\ PrRecent'
  BY PrRequest
<1>2. /\ buffer \in [PrFrames -> PrValues] /\ time \in [PrFrames -> -1 .. counter]
      /\ counter \in 0 .. MAX_PAGES /\ page \in PrValues /\ page # -1
      /\ recent \in Seq(PcPages)
  BY PrConstants DEF PrInv, PrTypes, PrValues
<1>3. /\ buffer' \in [PrFrames -> PrValues] /\ time' \in [PrFrames -> -1 .. counter']
      /\ \A f \in PrFrames : buffer'[f] = IF f = fr THEN page ELSE buffer[f]
      /\ \A f \in PrFrames : time'[f] = IF f = fr THEN counter + 1 ELSE time[f]
  <2>1. -1 .. counter \subseteq -1 .. counter' /\ counter + 1 \in -1 .. counter'
    BY <1>1, <1>2
  <2>2. \A f \in PrFrames : time'[f] = IF f = fr THEN counter + 1 ELSE time[f]
    BY <1>2
  <2>3. time' \in [PrFrames -> -1 .. counter']
    BY <1>2, <2>1
  <2> QED
    BY <1>2, <2>2, <2>3
<1>4. PrTypes'
  BY <1>1, <1>3 DEF PrInv, PrTypes
<1>5. PrOneCopy'
  BY <1>3 DEF PrInv, PrOneCopy
<1>6. PICK i \in 1 .. Len(recent) + 1 : PrAhead(recent, recent', page, i)
  BY <1>1 DEF PrMoved
<1>7. ASSUME NEW m \in 2 .. Len(recent')
      PROVE  \E k \in 1 .. Len(recent) : /\ recent'[m] = recent[k] /\ recent[k] # page
                                         /\ k = IF m <= i THEN m - 1 ELSE m
  <2>1. PICK r2 : r2 = recent'
    OBVIOUS
  <2>2. \A j, k \in 1 .. Len(recent) : recent[j] = recent[k] => j = k
    BY PrDistinct
  <2>3. r2 \in Seq(PcPages) /\ PrAhead(recent, r2, page, i) /\ m \in 2 .. Len(r2)
    BY <1>1, <1>6, <2>1
  <2> QED
    BY ONLY <1>2, <2>1, <2>2, <2>3, i \in 1 .. Len(recent) + 1, PrBack
<1>8. PrOrder'
  <2> SUFFICES ASSUME NEW f \in PrFrames, NEW g \in PrFrames,
                      NEW m \in 1 .. Len(recent'), NEW n \in 1 .. Len(recent'),
                      m < n, buffer'[f] = recent'[m], buffer'[g] = recent'[n]
               PROVE  time'[f] > time'[g]
    BY DEF PrOrder
  <2>1. n \in 2 .. Len(recent') /\ m \in Int /\ n \in Int
    BY <1>1
  <2>2. PICK l \in 1 .. Len(recent) : /\ recent'[n] = recent[l] /\ recent[l] # page
                                      /\ l = IF n <= i THEN n - 1 ELSE n
    BY <1>7, <2>1
  <2>3. g # fr /\ buffer[g] = recent[l] /\ time'[g] = time[g]
    BY <1>3, <2>2
  <2>4. CASE m = 1
    <3>1. buffer'[f] = page
      BY <1>6, <2>4 DEF PrAhead
    <3>2. f = fr
      BY <1>3, <3>1
    <3>3. time'[f] = counter + 1 /\ time[g] \in -1 .. counter
      BY <1>2, <1>3, <3>2
    <3> QED
      BY <1>2, <2>3, <3>3
  <2>5. CASE m # 1
    <3>1. m \in 2 .. Len(recent')
      BY <1>1, <2>5
    <3>2. PICK k \in 1 .. Len(recent) : /\ recent'[m] = recent[k] /\ recent[k] # page
                                        /\ k = IF m <= i THEN m - 1 ELSE m
      BY <1>7, <3>1
    <3>3. f # fr /\ buffer[f] = recent[k] /\ time'[f] = time[f]
      BY <1>3, <3>2
    <3>4. k < l
      <4>1. i \in Int /\ k \in Int /\ l \in Int
        OBVIOUS
      <4> QED
        BY <2>1, <2>2, <3>2, <4>1
    <3>5. time[f] > time[g]
      BY <2>3, <3>3, <3>4 DEF PrInv, PrLru, PrOrder
    <3> QED
      BY <2>3, <3>3, <3>5
  <2> QED
    BY <2>4, <2>5
<1>9. PrLru' /\ PrClock'
  BY <1>1, <1>8 DEF PrLru, PrClock
<1>10. PrArc'
  <2>1. \A x : PrAll(x)' = PrAll(x)
    BY DEF PrAll
  <2> QED
    BY <1>1, <2>1 DEF PrInv, PrArc
<1> QED
  BY <1>1, <1>4, <1>5, <1>9, <1>10 DEF PrInv

\* LRU finds the page in a frame.
LEMMA PrLruHit ==
  ASSUME PrInv, choice = 1, NEW page \in PcPages, Policies!Request(page),
         UNCHANGED <<refBit, pointer, T1, T2, B1, B2, p>>,
         Policies!Holding(page) # {}, Policies!LruHit(page)
  PROVE  PrInv'
<1>1. PICK fr : fr = Policies!Min(Policies!Holding(page))
  OBVIOUS
<1>2. Policies!Holding(page) = {f \in PrFrames : buffer[f] = page}
  BY PrConstants DEF Policies!Holding
<1>3. fr \in PrFrames /\ buffer[fr] = page
  <2>1. fr \in Policies!Holding(page)
    BY <1>1, <1>2, PrLeast
  <2> QED
    BY <1>2, <2>1
<1>4. page # -1 /\ buffer \in [PrFrames -> PrValues] /\ recent \in Seq(PcPages)
      /\ MAX_FRAMES \in Nat \ {0}
  BY PrConstants DEF PrInv, PrTypes
<1>5. \A f \in PrFrames : f # fr => buffer[f] # page
  BY <1>3, <1>4 DEF PrInv, PrOneCopy
<1>6. buffer' = buffer /\ buffer' = [buffer EXCEPT ![fr] = page]
      /\ time' = [time EXCEPT ![fr] = counter + 1]
  BY <1>1, <1>3, <1>4 DEF Policies!LruHit
<1>7. PrFilled /\ PrHeld /\ PrKept
  BY DEF PrInv, PrLru
<1>8. /\ PrMoved(recent, recent', page) /\ recent' \in Seq(PcPages)
  BY PrRequest
<1>9. PICK i \in 1 .. Len(recent) + 1 : PrAhead(recent, recent', page, i)
  BY <1>8 DEF PrMoved
<1>10. Len(recent) \in Nat /\ i \in Int
  BY <1>4
<1>11. i <= MAX_FRAMES /\ i <= Len(recent) /\ Len(recent') = Len(recent)
  <2>1. PICK k \in 1 .. Len(recent) : k <= MAX_FRAMES /\ recent[k] = page
    BY <1>3, <1>4, <1>7 DEF PrHeld
  <2>2. ~(k \in 1 .. i - 1)
    BY <1>9, <2>1 DEF PrAhead
  <2>3. i <= k
    BY <1>10, <2>2
  <2>4. i <= MAX_FRAMES /\ i <= Len(recent)
    BY <1>4, <1>10, <2>1, <2>3
  <2> QED
    BY <1>9, <2>4 DEF PrAhead
<1>12. PrFilled'
  BY <1>6, <1>7, <1>11 DEF PrFilled
<1>13. PrHeld'
  <2> SUFFICES ASSUME NEW f \in PrFrames, buffer[f] # -1
               PROVE  \E m \in 1 .. Len(recent') : m <= MAX_FRAMES /\ recent'[m] = buffer[f]
    BY <1>6 DEF PrHeld
  <2>1. CASE buffer[f] = page
    <3>1. 1 \in 1 .. Len(recent') /\ 1 <= MAX_FRAMES /\ recent'[1] = page
      BY <1>4, <1>9, <1>10, <1>11 DEF PrAhead
    <3> QED
      BY <2>1, <3>1
  <2>2. CASE buffer[f] # page
    <3>1. PICK k \in 1 .. Len(recent) : k <= MAX_FRAMES /\ recent[k] = buffer[f]
      BY <1>7 DEF PrHeld
    <3>2. k # i
      BY <1>9, <1>11, <2>2, <3>1 DEF PrAhead
    <3>3. CASE k < i
      <4>1. k \in 1 .. i - 1 /\ k + 1 \in 1 .. Len(recent') /\ k + 1 <= MAX_FRAMES
        BY <1>4, <1>10, <1>11, <3>3
      <4>2. recent'[k + 1] = recent[k]
        BY <1>9, <4>1 DEF PrAhead
      <4> QED
        BY <3>1, <4>1, <4>2
    <3>4. CASE k > i
      <4>1. k \in i + 1 .. Len(recent) /\ k \in 1 .. Len(recent')
        BY <1>10, <1>11, <3>4
      <4>2. recent'[k] = recent[k]
        BY <1>9, <4>1 DEF PrAhead
      <4> QED
        BY <3>1, <4>1, <4>2
    <3> QED
      BY <1>10, <3>2, <3>3, <3>4
  <2> QED
    BY <2>1, <2>2
<1>14. PrKept'
  <2> SUFFICES ASSUME NEW m \in 1 .. Len(recent'), m <= MAX_FRAMES
               PROVE  \E f \in PrFrames : buffer[f] = recent'[m]
    BY <1>6 DEF PrKept
  <2>1. CASE m = 1
    BY <1>3, <1>9, <2>1 DEF PrAhead
  <2>2. CASE m # 1 /\ m <= i
    <3>1. PICK k \in Int : k = m - 1
      OBVIOUS
    <3>2. k \in 1 .. i - 1 /\ k \in 1 .. Len(recent) /\ k <= MAX_FRAMES /\ m = k + 1
      BY <1>4, <1>10, <1>11, <2>2, <3>1
    <3>3. recent'[m] = recent[k]
      BY <1>9, <3>2 DEF PrAhead
    <3> QED
      BY <1>7, <3>2, <3>3 DEF PrKept
  <2>3. CASE m > i
    <3>1. m \in i + 1 .. Len(recent) /\ m \in 1 .. Len(recent)
      BY <1>10, <1>11, <2>3
    <3>2. recent'[m] = recent[m]
      BY <1>9, <3>1 DEF PrAhead
    <3> QED
      BY <1>7, <3>1, <3>2 DEF PrKept
  <2> QED
    BY <1>10, <2>1, <2>2, <2>3
<1> QED
  BY <1>3, <1>5, <1>6, <1>12, <1>13, <1>14, PrUsed

\* LRU takes the first empty frame, or else that of the page used longest ago.
LEMMA PrLruMiss ==
  ASSUME PrInv, choice = 1, NEW page \in PcPages, Policies!Request(page),
         UNCHANGED <<refBit, pointer, T1, T2, B1, B2, p>>,
         Policies!Holding(page) = {}, Policies!LruMiss(page)
  PROVE  PrInv'
<1>1. PICK fr : fr = Policies!LruFrame
  OBVIOUS
<1>2. \A x : Policies!Holding(x) = {f \in PrFrames : buffer[f] = x}
  BY PrConstants DEF Policies!Holding
<1>3. \A f \in PrFrames : buffer[f] # page
  BY <1>2
<1>4. page # -1 /\ buffer \in [PrFrames -> PrValues] /\ recent \in Seq(PcPages)
      /\ MAX_FRAMES \in Nat \ {0} /\ time \in [PrFrames -> -1 .. counter] /\ counter \in Nat
  BY PrConstants DEF PrInv, PrTypes
<1>5. buffer' = [buffer EXCEPT ![fr] = page] /\ time' = [time EXCEPT ![fr] = counter + 1]
  BY <1>1 DEF Policies!LruMiss
<1>6. PrFilled /\ PrHeld /\ PrKept /\ PrOrder
  BY DEF PrInv, PrLru
<1>7. /\ PrMoved(recent, recent', page) /\ recent' \in Seq(PcPages)
  BY PrRequest
<1>8. PICK i \in 1 .. Len(recent) + 1 : PrAhead(recent, recent', page, i)
  BY <1>7 DEF PrMoved
<1>9. Len(recent) \in Nat /\ i \in Int
  BY <1>4
<1>10. ~(i <= Len(recent) /\ i <= MAX_FRAMES)
  <2> SUFFICES ASSUME i <= Len(recent), i <= MAX_FRAMES PROVE FALSE
    OBVIOUS
  <2>1. i \in 1 .. Len(recent) /\ recent[i] = page
    BY <1>8, <1>9 DEF PrAhead
  <2>2. \E f \in PrFrames : buffer[f] = recent[i]
    BY <1>6, <2>1 DEF PrKept
  <2> QED
    BY <1>3, <2>1, <2>2
<1>11. recent'[1] = page /\ Len(recent') = IF i <= Len(recent) THEN Len(recent) ELSE Len(recent) + 1
  BY <1>8 DEF PrAhead
<1>12. CASE Len(recent) < MAX_FRAMES
  <2>1. i = Len(recent) + 1 /\ Len(recent') = Len(recent) + 1
    BY <1>4, <1>9, <1>10, <1>11, <1>12
  <2>2. Len(recent) \in PrFrames
    BY <1>4, <1>9, <1>12 DEF PrFrames
  <2>3. fr = Len(recent)
    <3>1. PICK T : T = Policies!Holding(-1)
      OBVIOUS
    <3>2. T = {f \in PrFrames : f >= Len(recent)}
      BY <1>2, <1>6, <3>1 DEF PrFilled
    <3>3. Len(recent) \in T /\ \A f \in T : Len(recent) <= f
      BY <1>9, <2>2, <3>2 DEF PrFrames
    <3>4. \A y \in T : (\A f \in T : y <= f) => y = Len(recent)
      <4> SUFFICES ASSUME NEW y \in T, y <= Len(recent) PROVE y = Len(recent)
        BY <3>3
      <4>1. y \in Int /\ Len(recent) <= y
        BY <3>2, <3>3 DEF PrFrames
      <4> QED
        BY <1>9, <4>1
    <3>5. Policies!Min(T) = Len(recent)
      BY <3>3, <3>4 DEF Policies!Min
    <3>6. Policies!LruFrame = Policies!Min(T)
      BY <3>1, <3>3 DEF Policies!LruFrame, Policies!None
    <3> QED
      BY <1>1, <3>5, <3>6
  <2>4. \A f \in PrFrames : buffer'[f] = IF f = fr THEN page ELSE buffer[f]
    BY <1>4, <1>5, <2>2, <2>3
  <2>5. PrFilled'
    <3> SUFFICES ASSUME NEW f \in PrFrames
                 PROVE  buffer'[f] = -1 <=> f >= Len(recent')
      BY DEF PrFilled
    <3>1. f \in Int /\ (buffer[f] = -1 <=> f >= Len(recent))
      BY <1>6 DEF PrFilled, PrFrames
    <3>2. CASE f = fr
      <4>1. buffer'[f] # -1 /\ ~(f >= Len(recent'))
        BY <1>4, <1>9, <2>1, <2>3, <2>4, <3>2
      <4> QED
        BY <4>1
    <3>3. CASE f # fr
      <4>1. buffer'[f] = buffer[f]
        BY <2>4, <3>3
      <4>2. f >= Len(recent') <=> f >= Len(recent)
        BY <1>9, <2>1, <2>3, <3>1, <3>3
      <4> QED
        BY <3>1, <4>1, <4>2
    <3> QED
      BY <3>2, <3>3
  <2>6. \A k \in 1 .. Len(recent) : recent'[k + 1] = recent[k]
    <3>1. i - 1 = Len(recent)
      BY <1>9, <2>1
    <3> QED
      BY <1>8, <3>1 DEF PrAhead
  <2>7. PrHeld'
    <3> SUFFICES ASSUME NEW f \in PrFrames, buffer'[f] # -1
                 PROVE  \E m \in 1 .. Len(recent') : m <= MAX_FRAMES /\ recent'[m] = buffer'[f]
      BY DEF PrHeld
    <3>1. CASE f = fr
      <4>1. 1 \in 1 .. Len(recent') /\ 1 <= MAX_FRAMES
        BY <1>4, <1>9, <2>1
      <4> QED
        BY <1>11, <2>4, <3>1, <4>1
    <3>2. CASE f # fr
      <4>1. PICK k \in 1 .. Len(recent) : k <= MAX_FRAMES /\ recent[k] = buffer[f]
        BY <1>6, <2>4, <3>2 DEF PrHeld
      <4>2. k + 1 \in 1 .. Len(recent') /\ k + 1 <= MAX_FRAMES
        BY <1>4, <1>9, <1>12, <2>1
      <4>3. recent'[k + 1] = buffer'[f]
        BY <2>4, <2>6, <3>2, <4>1
      <4> QED
        BY <4>2, <4>3
    <3> QED
      BY <3>1, <3>2
  <2>8. PrKept'
    <3> SUFFICES ASSUME NEW m \in 1 .. Len(recent'), m <= MAX_FRAMES
                 PROVE  \E f \in PrFrames : buffer'[f] = recent'[m]
      BY DEF PrKept
    <3>1. CASE m = 1
      BY <1>11, <2>2, <2>3, <2>4, <3>1
    <3>2. CASE m # 1
      <4>1. PICK k \in Int : k = m - 1
        OBVIOUS
      <4>2. k \in 1 .. Len(recent) /\ k <= MAX_FRAMES /\ m = k + 1
        BY <1>4, <1>9, <2>1, <3>2, <4>1
      <4>3. PICK f \in PrFrames : buffer[f] = recent[k]
        BY <1>6, <4>2 DEF PrKept
      <4>4. recent[k] \in PcPages
        BY <1>4, <4>2
      <4>5. buffer[f] # -1
        BY <4>3, <4>4, PrConstants
      <4>6. f # fr
        <5>1. buffer[fr] = -1
          BY <1>6, <1>9, <2>2, <2>3 DEF PrFilled
        <5> QED
          BY <4>5, <5>1
      <4> QED
        BY <2>4, <2>6, <4>2, <4>3, <4>6
    <3> QED
      BY <3>1, <3>2
  <2> QED
    BY <1>3, <1>5, <2>2, <2>3, <2>5, <2>7, <2>8, PrUsed
<1>13. CASE Len(recent) >= MAX_FRAMES
  <2>1. i > MAX_FRAMES /\ Len(recent') \in Nat /\ Len(recent') >= MAX_FRAMES
    BY <1>4, <1>9, <1>10, <1>11, <1>13
  <2>2. \A f \in PrFrames : buffer[f] # -1 /\ f < MAX_FRAMES /\ f \in Int
    BY <1>4, <1>6, <1>9, <1>13 DEF PrFilled, PrFrames
  <2>3. MAX_FRAMES \in 1 .. Len(recent)
    BY <1>4, <1>9, <1>13
  <2>4. PICK w \in PrFrames : buffer[w] = recent[MAX_FRAMES]
    BY <1>4, <1>6, <2>3 DEF PrKept
  <2>5. \A f \in PrFrames : time[f] \in Int
    BY <1>4
  <2>6. ASSUME NEW f \in PrFrames, f # w PROVE time[f] > time[w]
    <3>1. PICK k \in 1 .. Len(recent) : k <= MAX_FRAMES /\ recent[k] = buffer[f]
      BY <1>6, <2>2 DEF PrHeld
    <3>2. k # MAX_FRAMES
      BY <2>2, <2>4, <2>6, <3>1 DEF PrInv, PrOneCopy
    <3>3. k < MAX_FRAMES
      BY <1>4, <3>1, <3>2
    <3> QED
      BY <1>6, <2>3, <2>4, <3>1, <3>3 DEF PrOrder
  <2>7. fr = w
    <3>1. PICK T : T = {f \in PrFrames : \A g \in PrFrames : time[f] <= time[g]}
      OBVIOUS
    <3>2. T \subseteq {w}
      <4> SUFFICES ASSUME NEW f \in T, f # w PROVE FALSE
        OBVIOUS
      <4>1. f \in PrFrames /\ time[f] <= time[w] /\ time[f] > time[w]
        BY <2>6, <3>1
      <4> QED
        BY <2>5, <4>1
    <3>3. w \in T
      <4>1. ASSUME NEW g \in PrFrames PROVE time[w] <= time[g]
        BY <2>5, <2>6
      <4> QED
        BY <3>1, <4>1
    <3>4. Policies!Min(T) \in T
      <4>1. T \subseteq PrFrames /\ T # {}
        BY <3>1, <3>3
      <4> QED
        BY <4>1, PrLeast
    <3>5. Policies!Holding(-1) = {}
      BY <1>2, <2>2
    <3>6. Policies!LruFrame = Policies!Min(T)
      BY <3>1, <3>5, PrConstants DEF Policies!LruFrame
    <3> QED
      BY <1>1, <3>2, <3>4, <3>6
  <2>8. \A f \in PrFrames : buffer'[f] = IF f = fr THEN page ELSE buffer[f]
    BY <1>4, <1>5, <2>7
  <2>9. PrFilled'
    <3> SUFFICES ASSUME NEW f \in PrFrames
                 PROVE  buffer'[f] = -1 <=> f >= Len(recent')
      BY DEF PrFilled
    <3>1. buffer'[f] # -1
      BY <1>4, <2>2, <2>8
    <3>2. ~(f >= Len(recent'))
      BY <1>4, <2>1, <2>2
    <3> QED
      BY <3>1, <3>2
  <2>10. \A k \in 1 .. MAX_FRAMES : recent'[k + 1] = recent[k]
    <3>1. \A k \in 1 .. MAX_FRAMES : k \in 1 .. i - 1
      BY <1>4, <1>9, <2>1
    <3> QED
      BY <1>8, <3>1 DEF PrAhead
  <2>11. PrHeld'
    <3> SUFFICES ASSUME NEW f \in PrFrames, buffer'[f] # -1
                 PROVE  \E m \in 1 .. Len(recent') : m <= MAX_FRAMES /\ recent'[m] = buffer'[f]
      BY DEF PrHeld
    <3>1. CASE f = fr
      <4>1. 1 \in 1 .. Len(recent') /\ 1 <= MAX_FRAMES
        BY <1>4, <2>1
      <4> QED
        BY <1>11, <2>8, <3>1, <4>1
    <3>2. CASE f # fr
      <4>1. PICK k \in 1 .. Len(recent) : k <= MAX_FRAMES /\ recent[k] = buffer[f]
        BY <1>6, <2>2 DEF PrHeld
      <4>2. k # MAX_FRAMES
        BY <2>2, <2>4, <2>7, <3>2, <4>1 DEF PrInv, PrOneCopy
      <4>3. k + 1 \in 1 .. Len(recent') /\ k + 1 <= MAX_FRAMES /\ k \in 1 .. MAX_FRAMES
        BY <1>4, <2>1, <4>1, <4>2
      <4>4. recent'[k + 1] = buffer'[f]
        BY <2>8, <2>10, <3>2, <4>1, <4>3
      <4> QED
        BY <4>3, <4>4
    <3> QED
      BY <3>1, <3>2
  <2>12. PrKept'
    <3> SUFFICES ASSUME NEW m \in 1 .. Len(recent'), m <= MAX_FRAMES
                 PROVE  \E f \in PrFrames : buffer'[f] = recent'[m]
      BY DEF PrKept
    <3>1. CASE m = 1
      BY <1>11, <2>7, <2>8, <3>1
    <3>2. CASE m # 1
      <4>1. PICK k \in Int : k = m - 1
        OBVIOUS
      <4>2. k \in 1 .. Len(recent) /\ k \in 1 .. MAX_FRAMES /\ k < MAX_FRAMES /\ m = k + 1
        BY <1>4, <1>9, <1>13, <3>2, <4>1
      <4>3. PICK f \in PrFrames : buffer[f] = recent[k]
        BY <1>4, <1>6, <4>2 DEF PrKept
      <4>4. recent[k] # recent[MAX_FRAMES]
        BY <1>4, <2>3, <4>2, PrDistinct
      <4>5. f # fr
        BY <2>4, <2>7, <4>3, <4>4
      <4> QED
        BY <2>8, <2>10, <4>2, <4>3, <4>5
    <3> QED
      BY <3>1, <3>2
  <2> QED
    BY <1>3, <1>5, <2>7, <2>9, <2>11, <2>12, PrUsed
<1> QED
  BY <1>4, <1>9, <1>12, <1>13

\* Clock's hand points to a frame,
LEMMA PrAtFrame ==
  ASSUME NEW k \in Nat, pointer \in PrFrames
  PROVE  Policies!At(k) \in PrFrames
<1>1. PICK n : n = pointer + k
  OBVIOUS
<1>2. n \in Nat /\ MAX_FRAMES \in Nat \ {0}
  BY <1>1, PrConstants DEF PrFrames
<1>3. n % MAX_FRAMES \in 0 .. MAX_FRAMES - 1
  BY <1>2
<1> QED
  BY <1>1, <1>3 DEF Policies!At, PrFrames

\* and to the next one after a step.
LEMMA PrAtNext ==
  ASSUME pointer \in PrFrames
  PROVE  /\ Policies!At(0) = pointer
         /\ pointer + 1 < MAX_FRAMES => Policies!At(1) = pointer + 1
<1>1. MAX_FRAMES \in Nat \ {0} /\ pointer \in 0 .. MAX_FRAMES - 1
  BY PrConstants DEF PrFrames
<1>2. PICK n : n = pointer + 0
  OBVIOUS
<1>3. n = pointer /\ n % MAX_FRAMES = n
  BY <1>1, <1>2
<1>4. PICK m : m = pointer + 1
  OBVIOUS
<1>5. m \in Nat /\ (m < MAX_FRAMES => m % MAX_FRAMES = m)
  BY <1>1, <1>4
<1> QED
  BY <1>2, <1>3, <1>4, <1>5 DEF Policies!At

\* Clock finds the page in a frame.
LEMMA PrClockHit ==
  ASSUME PrInv, choice = 2, NEW page \in PcPages, Policies!Request(page),
         UNCHANGED <<time, T1, T2, B1, B2, p>>,
         Policies!Holding(page) # {}, Policies!ClockHit(page)
  PROVE  PrInv'
<1>1. PICK fr : fr = Policies!Min(Policies!Holding(page))
  OBVIOUS
<1>2. Policies!Holding(page) = {f \in PrFrames : buffer[f] = page}
  BY PrConstants DEF Policies!Holding
<1>3. fr \in PrFrames /\ buffer[fr] = page
  <2>1. fr \in Policies!Holding(page)
    BY <1>1, <1>2, PrLeast
  <2> QED
    BY <1>2, <2>1
<1>4. page # -1 /\ recent \in Seq(PcPages) /\ refBit \in [PrFrames -> {0, 1}]
      /\ MAX_FRAMES \in Nat \ {0} /\ counter \in 0 .. MAX_PAGES
      /\ time \in [PrFrames -> -1 .. counter]
  BY PrConstants DEF PrInv, PrTypes
<1>5. refBit' = [refBit EXCEPT ![fr] = 1] /\ buffer' = buffer /\ pointer' = pointer
  BY <1>1 DEF Policies!ClockHit
<1>6. /\ choice' = 2 /\ counter' = counter + 1 /\ counter' \in 0 .. MAX_PAGES
      /\ recent' \in Seq(PcPages) /\ recent' # <<>> /\ recent'[1] = page /\ PrRecent'
      /\ \A x \in PcPages : PrTimes(recent', x) = IF x = page THEN 1 ELSE PrTimes(recent, x)
      /\ Len(recent) \in Nat
      /\ Len(recent') = IF PrTimes(recent, page) # 0 THEN Len(recent) ELSE Len(recent) + 1
  BY PrRequest
<1>7. PrTypes'
  <2>1. -1 .. counter \subseteq -1 .. counter'
    BY <1>4, <1>6
  <2>2. time' \in [PrFrames -> -1 .. counter']
    BY <1>4, <2>1
  <2>3. refBit' \in [PrFrames -> {0, 1}]
    BY <1>4, <1>5
  <2> QED
    BY <1>5, <1>6, <2>2, <2>3 DEF PrInv, PrTypes
<1>8. Len(recent) <= MAX_FRAMES =>
        PrTimes(recent, page) # 0 /\ Len(recent') = Len(recent)
  BY <1>3, <1>6 DEF PrInv, PrClock
<1>9. Len(recent') <= MAX_FRAMES => Len(recent) <= MAX_FRAMES /\ Len(recent') = Len(recent)
  BY <1>4, <1>6, <1>8
<1>10. PrClock'
  <2>1. ASSUME Len(recent') < MAX_FRAMES
        PROVE  /\ pointer' = Len(recent')
               /\ \A f \in PrFrames : f >= pointer' => buffer'[f] = -1 /\ refBit'[f] = 0
    <3>1. Len(recent') = Len(recent) /\ Len(recent) < MAX_FRAMES
      BY <1>4, <1>6, <1>9, <2>1
    <3>2. /\ pointer = Len(recent)
          /\ \A f \in PrFrames : f >= pointer => buffer[f] = -1 /\ refBit[f] = 0
      BY <3>1 DEF PrInv, PrClock
    <3>3. ASSUME NEW f \in PrFrames, f >= pointer PROVE buffer[f] = -1 /\ refBit'[f] = 0
      <4>1. buffer[f] = -1 /\ refBit[f] = 0
        BY <3>2, <3>3
      <4>2. f # fr
        BY <1>3, <1>4, <4>1
      <4> QED
        BY <1>4, <1>5, <4>1, <4>2
    <3> QED
      BY <1>5, <3>1, <3>2, <3>3
  <2>2. ASSUME Len(recent') <= MAX_FRAMES, NEW x \in PcPages
        PROVE  (\E f \in PrFrames : buffer'[f] = x) <=> PrTimes(recent', x) # 0
    <3>1. (\E f \in PrFrames : buffer[f] = x) <=> PrTimes(recent, x) # 0
      BY <1>9, <2>2 DEF PrInv, PrClock
    <3>2. CASE x = page
      BY <1>3, <1>5, <1>6, <3>2
    <3>3. CASE x # page
      BY <1>5, <1>6, <3>1, <3>3
    <3> QED
      BY <3>2, <3>3
  <2>3. \E f \in PrFrames : buffer'[f] = recent'[1]
    BY <1>3, <1>5, <1>6
  <2> QED
    BY <2>1, <2>2, <2>3 DEF PrClock
<1>11. PrOneCopy' /\ PrLru'
  BY <1>5, <1>6 DEF PrInv, PrOneCopy, PrLru
<1>12. PrArc'
  <2>1. \A x : PrAll(x)' = PrAll(x)
    BY DEF PrAll
  <2> QED
    BY <1>6, <2>1 DEF PrInv, PrArc
<1> QED
  BY <1>6, <1>7, <1>10, <1>11, <1>12 DEF PrInv

\* Clock puts the page where the hand stops.
LEMMA PrClockMiss ==
  ASSUME PrInv, choice = 2, NEW page \in PcPages, Policies!Request(page),
         UNCHANGED <<time, T1, T2, B1, B2, p>>,
         Policies!Holding(page) = {}, Policies!ClockMiss(page)
  PROVE  PrInv'
<1>1. page # -1 /\ page \in PrValues /\ buffer \in [PrFrames -> PrValues]
      /\ recent \in Seq(PcPages) /\ refBit \in [PrFrames -> {0, 1}] /\ pointer \in PrFrames
      /\ MAX_FRAMES \in Nat \ {0} /\ counter \in 0 .. MAX_PAGES
      /\ time \in [PrFrames -> -1 .. counter]
  BY PrConstants DEF PrInv, PrTypes, PrValues
<1>2. \A f \in PrFrames : buffer[f] # page
  BY PrConstants DEF Policies!Holding
<1>3. PICK n : n = Policies!Passed
  OBVIOUS
<1>4. PICK C : C = {k \in 0 .. MAX_FRAMES - 1 : refBit[Policies!At(k)] = 0}
  OBVIOUS
<1>5. n = IF C = {} THEN MAX_FRAMES ELSE Policies!Min(C)
  BY <1>3, <1>4 DEF Policies!Passed
<1>6. n \in Nat
  <2>1. C # {} => Policies!Min(C) \in C
    BY <1>4, PrLeast DEF PrFrames
  <2> QED
    BY <1>1, <1>4, <1>5, <2>1
<1>7. PICK fr : fr = Policies!At(n)
  OBVIOUS
<1>8. fr \in PrFrames /\ Policies!At(n + 1) \in PrFrames
  <2>1. n + 1 \in Nat
    BY <1>6
  <2> QED
    BY <1>1, <1>6, <1>7, <2>1, PrAtFrame
<1>9. /\ buffer' = [buffer EXCEPT ![fr] = page] /\ pointer' = Policies!At(n + 1)
      /\ refBit' = [f \in PrFrames |-> IF f = fr THEN 1
                                       ELSE IF \E k \in 0 .. n - 1 : f = Policies!At(k) THEN 0
                                       ELSE refBit[f]]
  BY <1>3, <1>7, PrConstants DEF Policies!ClockMiss
<1>10. /\ choice' = 2 /\ counter' = counter + 1 /\ counter' \in 0 .. MAX_PAGES
       /\ recent' \in Seq(PcPages) /\ recent' # <<>> /\ recent'[1] = page /\ PrRecent'
       /\ \A x \in PcPages : PrTimes(recent', x) = IF x = page THEN 1 ELSE PrTimes(recent, x)
       /\ Len(recent) \in Nat
       /\ Len(recent') = IF PrTimes(recent, page) # 0 THEN Len(recent) ELSE Len(recent) + 1
  BY PrRequest
<1>11. \A f \in PrFrames : buffer'[f] = IF f = fr THEN page ELSE buffer[f]
  BY <1>1, <1>9
<1>12. PrTypes'
  <2>1. -1 .. counter \subseteq -1 .. counter'
    BY <1>1, <1>10
  <2>2. time' \in [PrFrames -> -1 .. counter']
    BY <1>1, <2>1
  <2>3. refBit' \in [PrFrames -> {0, 1}]
    BY <1>1, <1>9
  <2>4. buffer' \in [PrFrames -> PrValues] /\ pointer' \in PrFrames
    BY <1>1, <1>8, <1>9
  <2> QED
    BY <1>10, <2>2, <2>3, <2>4 DEF PrInv, PrTypes
<1>13. PrOneCopy' /\ PrLru'
  BY <1>2, <1>10, <1>11 DEF PrInv, PrOneCopy, PrLru
<1>14. Len(recent) <= MAX_FRAMES => Len(recent') = Len(recent) + 1
  BY <1>2, <1>10 DEF PrInv, PrClock
<1>15. Len(recent') <= MAX_FRAMES => Len(recent) < MAX_FRAMES /\ Len(recent') = Len(recent) + 1
  BY <1>1, <1>10, <1>14
\* While there is room the hand stops where it is.
<1>16. ASSUME Len(recent) < MAX_FRAMES
       PROVE  n = 0 /\ fr = pointer /\ pointer = Len(recent)
  <2>1. /\ pointer = Len(recent)
        /\ \A f \in PrFrames : f >= pointer => buffer[f] = -1 /\ refBit[f] = 0
    BY <1>16 DEF PrInv, PrClock
  <2>2. Policies!At(0) = pointer /\ pointer \in Int
    BY <1>1, PrAtNext DEF PrFrames
  <2>3. refBit[pointer] = 0
    BY <1>1, <2>1, <2>2
  <2>4. 0 \in C /\ C \subseteq Nat
    BY <1>1, <1>4, <2>2, <2>3
  <2>5. \A y \in C : (\A z \in C : y <= z) => y = 0
    BY <2>4
  <2>6. Policies!Min(C) = 0
    <3>1. \A y \in C : 0 <= y
      BY <2>4
    <3>2. PICK m : m = Policies!Min(C)
      OBVIOUS
    <3>3. m \in C /\ \A z \in C : m <= z
      BY <2>4, <3>1, <3>2 DEF Policies!Min
    <3> QED
      BY <2>5, <3>2, <3>3
  <2> QED
    BY <1>5, <1>7, <2>1, <2>2, <2>4, <2>6
<1>17. PrClock'
  <2>1. ASSUME Len(recent') < MAX_FRAMES
        PROVE  /\ pointer' = Len(recent')
               /\ \A f \in PrFrames : f >= pointer' => buffer'[f] = -1 /\ refBit'[f] = 0
    <3>1. Len(recent) < MAX_FRAMES /\ Len(recent') = Len(recent) + 1
      BY <1>1, <1>10, <1>15, <2>1
    <3>2. n = 0 /\ fr = pointer /\ pointer = Len(recent)
      BY <1>16, <3>1
    <3>3. pointer' = Policies!At(1)
      BY <1>9, <3>2
    <3>4. pointer' = pointer + 1
      BY <1>1, <2>1, <3>1, <3>2, <3>3, PrAtNext
    <3>5. ASSUME NEW f \in PrFrames, f >= pointer' PROVE buffer'[f] = -1 /\ refBit'[f] = 0
      <4>1. f # fr /\ f >= pointer
        BY <1>1, <3>2, <3>4, <3>5 DEF PrFrames
      <4>2. buffer[f] = -1 /\ refBit[f] = 0
        BY <3>1, <4>1 DEF PrInv, PrClock
      <4>3. 0 .. n - 1 = {}
        BY <3>2
      <4> QED
        BY <1>9, <1>11, <4>1, <4>2, <4>3
    <3> QED
      BY <3>1, <3>2, <3>4, <3>5
  <2>2. ASSUME Len(recent') <= MAX_FRAMES, NEW x \in PcPages
        PROVE  (\E f \in PrFrames : buffer'[f] = x) <=> PrTimes(recent', x) # 0
    <3>1. Len(recent) < MAX_FRAMES
      BY <1>15, <2>2
    <3>2. fr = pointer /\ buffer[fr] = -1
      <4>1. fr = pointer /\ pointer >= pointer
        BY <1>1, <1>16, <3>1 DEF PrFrames
      <4> QED
        BY <1>1, <3>1, <4>1 DEF PrInv, PrClock
    <3>3. (\E f \in PrFrames : buffer[f] = x) <=> PrTimes(recent, x) # 0
      <4>1. Len(recent) <= MAX_FRAMES
        BY <1>1, <1>10, <3>1
      <4> QED
        BY <4>1 DEF PrInv, PrClock
    <3>4. CASE x = page
      BY <1>8, <1>10, <1>11, <3>4
    <3>5. CASE x # page
      <4>1. x # -1
        BY PrConstants
      <4>2. (\E f \in PrFrames : buffer'[f] = x) <=> (\E f \in PrFrames : buffer[f] = x)
        BY <1>11, <3>2, <3>5, <4>1
      <4> QED
        BY <1>10, <3>3, <3>5, <4>2
    <3> QED
      BY <3>4, <3>5
  <2>3. \E f \in PrFrames : buffer'[f] = recent'[1]
    BY <1>8, <1>10, <1>11
  <2> QED
    BY <2>1, <2>2, <2>3 DEF PrClock
<1>18. PrArc'
  <2>1. \A x : PrAll(x)' = PrAll(x)
    BY DEF PrAll
  <2> QED
    BY <1>10, <2>1 DEF PrInv, PrArc
<1> QED
  BY <1>10, <1>12, <1>13, <1>17, <1>18 DEF PrInv

\* Every step keeps the invariant.
LEMMA PrStep == PrInv /\ (Policies!Next \/ UNCHANGED replaced) => PrInv'
<1> SUFFICES ASSUME PrInv, Policies!Next \/ UNCHANGED replaced PROVE PrInv'
  OBVIOUS
<1>1. CASE UNCHANGED replaced
  BY <1>1 DEF replaced, PrInv, PrTypes, PrRecent, PrOneCopy, PrLru, PrFilled, PrHeld, PrKept,
     PrOrder, PrClock, PrArc, PrAll
<1>2. ASSUME NEW page \in PcPages, Policies!simulateLRU(page) PROVE PrInv'
  BY <1>2, PrLruHit, PrLruMiss DEF Policies!simulateLRU
<1>3. ASSUME NEW page \in PcPages, Policies!simulateClock(page) PROVE PrInv'
  BY <1>3, PrClockHit, PrClockMiss DEF Policies!simulateClock
<1>4. ASSUME NEW page \in PcPages, Policies!simulateARC(page) PROVE PrInv'
  BY <1>4, PrArcHit, PrArcB1, PrArcB2, PrArcNew DEF Policies!simulateARC
<1> QED
  BY <1>1, <1>2, <1>3, <1>4 DEF Policies!Next

\* The invariant is enough.
LEMMA PrImplies ==
  PrInv => Policies!LruKeepsRecent /\ Policies!NoEarlyEviction /\ Policies!ArcListsSound
<1> SUFFICES ASSUME PrInv
             PROVE  Policies!LruKeepsRecent /\ Policies!NoEarlyEviction /\ Policies!ArcListsSound
  OBVIOUS
<1>1. /\ recent \in Seq(PcPages) /\ Len(recent) \in Nat /\ DOMAIN recent = 1 .. Len(recent)
      /\ buffer \in [PrFrames -> PrValues] /\ choice \in 1 .. 3 /\ MAX_FRAMES \in Nat \ {0}
  BY PrConstants DEF PrInv, PrTypes
<1>2. choice # 3 => Policies!Resident = {buffer[f] : f \in PrFrames} \ {-1}
  BY <1>1 DEF Policies!Resident, Policies!Range, Policies!None
<1>3. ASSUME NEW x PROVE (x \in Policies!Range(recent)) <=> PrTimes(recent, x) # 0
  <2>1. (PrTimes(recent, x) = 0) <=> (\A i \in DOMAIN recent : recent[i] # x)
    BY <1>1, PrContains
  <2> QED
    BY <2>1 DEF Policies!Range
<1>4. \A i \in 1 .. Len(recent) : recent[i] \in PcPages /\ recent[i] # -1
  BY <1>1, PrConstants
<1>5. Policies!LruKeepsRecent
  <2> SUFFICES ASSUME choice = 1
               PROVE  Policies!Resident
                        = {recent[i] : i \in {i \in DOMAIN recent : i <= MAX_FRAMES}}
    BY DEF Policies!LruKeepsRecent
  <2>1. PrHeld /\ PrKept
    BY DEF PrInv, PrLru
  <2>2. PICK R : R = {recent[i] : i \in {i \in DOMAIN recent : i <= MAX_FRAMES}}
    OBVIOUS
  <2>3. \A x : x \in R <=> \E i \in 1 .. Len(recent) : i <= MAX_FRAMES /\ x = recent[i]
    BY <1>1, <2>2
  <2>4. \A x : x \in Policies!Resident <=> x # -1 /\ \E f \in PrFrames : x = buffer[f]
    BY <1>2
  <2>5. \A x : x \in Policies!Resident => x \in R
    BY <2>1, <2>3, <2>4 DEF PrHeld
  <2>6. \A x : x \in R => x \in Policies!Resident
    BY <1>4, <2>1, <2>3, <2>4 DEF PrKept
  <2>7. Policies!Resident = R
    BY ONLY <2>5, <2>6
  <2> QED
    BY <2>2, <2>7
<1>6. ASSUME Len(recent) <= MAX_FRAMES PROVE Policies!Resident = Policies!Range(recent)
  <2>1. CASE choice = 1
    <3>1. PrHeld /\ PrKept /\ \A i \in 1 .. Len(recent) : i <= MAX_FRAMES
      BY <1>1, <1>6, <2>1 DEF PrInv, PrLru
    <3>2. \A x : x \in Policies!Range(recent) <=> \E i \in 1 .. Len(recent) : x = recent[i]
      BY <1>1 DEF Policies!Range
    <3>3. \A x : x \in Policies!Resident <=> x # -1 /\ \E f \in PrFrames : x = buffer[f]
      BY <1>2, <2>1
    <3>4. \A x : x \in Policies!Resident => x \in Policies!Range(recent)
      BY <3>1, <3>2, <3>3 DEF PrHeld
    <3>5. \A x : x \in Policies!Range(recent) => x \in Policies!Resident
      BY <1>4, <3>1, <3>2, <3>3 DEF PrKept
    <3> QED
      BY ONLY <3>4, <3>5
  <2>2. CASE choice = 2
    <3>1. \A x \in PcPages : (\E f \in PrFrames : buffer[f] = x) <=> PrTimes(recent, x) # 0
      BY <1>6, <2>2 DEF PrInv, PrClock
    <3>2. \A f \in PrFrames : buffer[f] # -1 => buffer[f] \in PcPages
      BY <1>1 DEF PrValues
    <3>3. \A x \in Policies!Range(recent) : x \in PcPages /\ x # -1
      BY <1>1, <1>4 DEF Policies!Range
    <3> QED
      BY <1>2, <1>3, <2>2, <3>1, <3>2, <3>3
  <2>3. CASE choice = 3
    <3>1. B1 = <<>> /\ B2 = <<>>
      BY <1>6, <2>3 DEF PrInv, PrArc
    <3>2. Policies!Resident = Policies!Range(T1) \cup Policies!Range(T2)
      BY <2>3 DEF Policies!Resident
    <3>3. ASSUME NEW x \in PcPages
          PROVE  (x \in Policies!Resident) <=> (x \in Policies!Range(recent))
      <4>1. PrTimes(B1, x) = 0 /\ PrTimes(B2, x) = 0
        BY <3>1, PrNone
      <4>2. PrTimes(T1, x) \in Nat /\ PrTimes(T2, x) \in Nat
        BY PrLists
      <4>3. PrAll(x) = PrTimes(recent, x)
        BY <2>3 DEF PrInv, PrArc
      <4>4. PrTimes(recent, x) = 0 <=> PrTimes(T1, x) = 0 /\ PrTimes(T2, x) = 0
        BY <4>1, <4>2, <4>3 DEF PrAll
      <4>5. /\ (x \in Policies!Range(T1)) <=> PrTimes(T1, x) # 0
            /\ (x \in Policies!Range(T2)) <=> PrTimes(T2, x) # 0
        BY PrLists DEF Policies!contains
      <4> QED
        BY <1>3, <3>2, <4>4, <4>5
    <3>4. Policies!Resident \subseteq PcPages /\ Policies!Range(recent) \subseteq PcPages
      <4>1. T1 \in Seq(PcPages) /\ T2 \in Seq(PcPages)
        BY PrLists
      <4> QED
        BY <1>1, <3>2, <4>1 DEF Policies!Range
    <3> QED
      BY <3>3, <3>4
  <2> QED
    BY <1>1, <2>1, <2>2, <2>3
<1>7. ASSUME recent # <<>> PROVE recent[1] \in Policies!Resident
  <2>0. 1 \in 1 .. Len(recent) /\ 1 <= MAX_FRAMES
    BY <1>1, <1>7
  <2>1. CASE choice = 1
    <3>1. \E f \in PrFrames : buffer[f] = recent[1]
      BY <2>0, <2>1 DEF PrInv, PrLru, PrKept
    <3> QED
      BY <1>2, <1>4, <2>0, <2>1, <3>1
  <2>2. CASE choice = 2
    <3>1. \E f \in PrFrames : buffer[f] = recent[1]
      BY <1>7, <2>2 DEF PrInv, PrClock
    <3> QED
      BY <1>2, <1>4, <2>0, <2>2, <3>1
  <2>3. CASE choice = 3
    <3>1. PICK x : x = recent[1]
      OBVIOUS
    <3>2. PrTimes(T1, x) + PrTimes(T2, x) # 0
      BY <1>7, <2>3, <3>1 DEF PrInv, PrArc
    <3>3. /\ PrTimes(T1, x) \in Nat /\ PrTimes(T2, x) \in Nat
          /\ (x \in Policies!Range(T1)) <=> PrTimes(T1, x) # 0
          /\ (x \in Policies!Range(T2)) <=> PrTimes(T2, x) # 0
      BY PrLists DEF Policies!contains
    <3>4. x \in Policies!Range(T1) \cup Policies!Range(T2)
      BY <3>2, <3>3
    <3> QED
      BY <2>3, <3>1, <3>4 DEF Policies!Resident
  <2> QED
    BY <1>1, <2>1, <2>2, <2>3
<1>8. ASSUME NEW page \in PcPages PROVE Policies!Cardinality(Policies!Holding(page)) <= 1
  <2>1. PICK H : H = Policies!Holding(page)
    OBVIOUS
  <2>2. H = {f \in PrFrames : buffer[f] = page} /\ page # -1
    BY <2>1, PrConstants DEF Policies!Holding
  <2>3. \A f, g \in H : f = g
    BY <2>2 DEF PrInv, PrOneCopy
  <2>4. ASSUME H = {} PROVE Cardinality(H) <= 1
    <3>1. Cardinality(H) = 0
      BY <2>4, FS_EmptySet
    <3> QED
      BY <3>1
  <2>5. ASSUME H # {} PROVE Cardinality(H) <= 1
    <3>1. PICK f : f \in H
      BY <2>5
    <3>2. H = {f}
      BY <2>3, <3>1
    <3>3. Cardinality(H) = 1
      BY <3>2, FS_Singleton
    <3> QED
      BY <3>3
  <2>6. Policies!Cardinality(H) = Cardinality(H)
    BY DEF Policies!Cardinality, Cardinality, Policies!IsFiniteSet, IsFiniteSet
  <2>7. Cardinality(H) <= 1
    BY <2>4, <2>5
  <2> QED
    BY <2>1, <2>6, <2>7
<1>9. Policies!NoEarlyEviction
  BY <1>6, <1>7, <1>8 DEF Policies!NoEarlyEviction
<1>10. ASSUME NEW x \in PcPages PROVE PrTimes(T1 \o T2 \o B1 \o B2, x) = PrAll(x)
  <2>1. /\ T1 \in Seq(PrValues) /\ T2 \in Seq(PrValues) /\ B1 \in Seq(PrValues)
        /\ B2 \in Seq(PrValues)
    BY DEF PrInv, PrTypes, PrValues
  <2>2. PICK s : s = T1 \o T2
    OBVIOUS
  <2>3. s \in Seq(PrValues) /\ PrTimes(s, x) = PrTimes(T1, x) + PrTimes(T2, x)
    BY <2>1, <2>2, PrConcat, ConcatProperties
  <2>4. PICK t : t = s \o B1
    OBVIOUS
  <2>5. t \in Seq(PrValues) /\ PrTimes(t, x) = PrTimes(s, x) + PrTimes(B1, x)
    BY <2>1, <2>3, <2>4, PrConcat, ConcatProperties
  <2>6. PrTimes(t \o B2, x) = PrTimes(t, x) + PrTimes(B2, x)
    BY <2>1, <2>5, PrConcat
  <2> QED
    BY <2>2, <2>3, <2>4, <2>5, <2>6 DEF PrAll
<1>11. ASSUME NEW x \in PcPages
       PROVE  /\ Policies!Times(T1 \o T2 \o B1 \o B2, x) <= 1
              /\ choice = 3 => (Policies!Times(T1 \o T2 \o B1 \o B2, x) = 1
                                  <=> Policies!contains(recent, x))
  <2>1. Policies!Times(T1 \o T2 \o B1 \o B2, x) = PrAll(x)
    BY <1>10, PrConstants
  <2>2. PrAll(x) <= 1 /\ (choice = 3 => PrAll(x) = PrTimes(recent, x))
    BY DEF PrInv, PrArc
  <2>3. Policies!contains(recent, x) <=> PrTimes(recent, x) # 0
    BY <1>3 DEF Policies!contains
  <2>4. PrTimes(recent, x) \in Nat
    BY <1>1, PrFinite
  <2> QED
    BY <2>1, <2>2, <2>3, <2>4
<1>12. Len(T1) + Len(T2) <= MAX_FRAMES + Policies!Times(B2, Policies!None)
  BY PrConstants DEF PrInv, PrArc
<1>13. Policies!ArcListsSound
  BY <1>11, <1>12 DEF Policies!ArcListsSound
<1> QED
  BY <1>5, <1>9, <1>13

-----------------------------------------------------------------------------
(* Chains of <<key, value>> pairs, in which a key is found where it is     *)
(* first: those of the hash tables.                                        *)

TbHas(c, k) == \E i \in DOMAIN c : c[i][1] = k

\* The place that a search of c for k ends at.
TbAt(c, k, i) ==
  i \in DOMAIN c /\ c[i][1] = k /\ \A j \in DOMAIN c : c[j][1] = k => i <= j

TbVal(c, k) == c[CHOOSE i \in DOMAIN c : TbAt(c, k, i)][2]

\* d answers as c does, but that k has the value v; that k is not there.
TbPut(c, d, k, v) ==
  /\ \A j : TbHas(d, j) <=> j = k \/ TbHas(c, j)
  /\ TbVal(d, k) = v
  /\ \A j : j # k /\ TbHas(c, j) => TbVal(d, j) = TbVal(c, j)
TbGone(c, d, k) ==
  /\ \A j : TbHas(d, j) <=> j # k /\ TbHas(c, j)
  /\ \A j : j # k /\ TbHas(c, j) => TbVal(d, j) = TbVal(c, j)

\* A key in the chain is found.
LEMMA TbFound ==
  ASSUME NEW S, NEW c \in Seq(S), NEW k, TbHas(c, k)
  PROVE  \E i \in DOMAIN c : TbAt(c, k, i)
<1> DEFINE T == {i \in DOMAIN c : c[i][1] = k}
<1>1. T \subseteq Nat /\ T # {}
  BY DEF TbHas
<1>2. PICK x \in T : \A y \in T : x <= y
  BY <1>1, MvLeast
<1> QED
  BY <1>2 DEF TbAt

\* There is one place where the search ends.
LEMMA TbIs ==
  ASSUME NEW S, NEW c \in Seq(S), NEW k, NEW i, TbAt(c, k, i)
  PROVE  TbHas(c, k) /\ TbVal(c, k) = c[i][2]
<1>1. TbHas(c, k)
  BY DEF TbAt, TbHas
<1>2. PICK j : j = CHOOSE x \in DOMAIN c : TbAt(c, k, x)
  OBVIOUS
<1>3. TbAt(c, k, j)
  BY <1>2 DEF TbAt
<1>4. i \in Nat /\ j \in Nat /\ i <= j /\ j <= i
  BY <1>3 DEF TbAt
<1>5. i = j
  BY <1>4
<1> QED
  BY <1>1, <1>2, <1>5 DEF TbVal

\* A pair put in front.
LEMMA TbPrepend ==
  ASSUME NEW K, NEW V, NEW c \in Seq(K \X V), NEW k \in K, NEW v \in V, ~TbHas(c, k)
  PROVE  TbPut(c, <<<<k, v>>>> \o c, k, v)
<1>1. PICK d : d = <<<<k, v>>>> \o c
  OBVIOUS
<1>2. /\ d \in Seq(K \X V) /\ Len(d) = Len(c) + 1 /\ d[1] = <<k, v>>
      /\ \A i \in 1 .. Len(c) : d[i + 1] = c[i]
  BY <1>1
<1>a. ASSUME NEW x \in DOMAIN d, d[x][1] # k
      PROVE  x - 1 \in DOMAIN c /\ d[x] = c[x - 1]
  <2>1. x \in 1 .. Len(c) + 1 /\ x # 1
    BY <1>2, <1>a
  <2>2. PICK y : y = x - 1
    OBVIOUS
  <2>3. y \in 1 .. Len(c) /\ x = y + 1
    BY <2>1, <2>2
  <2> QED
    BY <1>2, <2>2, <2>3
<1>3. TbHas(d, k) /\ TbVal(d, k) = v
  <2>1. TbAt(d, k, 1)
    BY <1>2 DEF TbAt
  <2> QED
    BY <1>2, <2>1, TbIs
<1>4. ASSUME NEW j, j # k, TbHas(c, j)
      PROVE  TbHas(d, j) /\ TbVal(d, j) = TbVal(c, j)
  <2>1. PICK i \in DOMAIN c : TbAt(c, j, i)
    BY <1>4, TbFound
  <2>2. TbVal(c, j) = c[i][2] /\ i \in 1 .. Len(c) /\ c[i][1] = j
    BY <2>1, TbIs DEF TbAt
  <2>3. TbAt(d, j, i + 1)
    <3>1. i + 1 \in DOMAIN d /\ d[i + 1][1] = j
      BY <1>2, <2>2
    <3>2. ASSUME NEW x \in DOMAIN d, d[x][1] = j PROVE i + 1 <= x
      <4>1. x - 1 \in DOMAIN c /\ c[x - 1][1] = j
        BY <1>4, <1>a, <3>2
      <4>2. i <= x - 1 /\ x \in 1 .. Len(d)
        BY <1>2, <2>1, <4>1 DEF TbAt
      <4> QED
        BY <1>2, <2>2, <4>2
    <3> QED
      BY <3>1, <3>2 DEF TbAt
  <2>4. TbHas(d, j) /\ TbVal(d, j) = d[i + 1][2]
    BY <1>2, <2>3, TbIs
  <2> QED
    BY <1>2, <2>2, <2>4
<1>5. ASSUME NEW j, TbHas(d, j), j # k
      PROVE  TbHas(c, j)
  <2>1. PICK x \in DOMAIN d : d[x][1] = j
    BY <1>5 DEF TbHas
  <2>2. x - 1 \in DOMAIN c /\ c[x - 1][1] = j
    BY <1>a, <1>5, <2>1
  <2> QED
    BY <2>2 DEF TbHas
<1>6. TbPut(c, d, k, v)
  BY <1>3, <1>4, <1>5 DEF TbPut
<1> QED
  BY <1>1, <1>6

\* The value of a pair replaced, where the search ends.
LEMMA TbReplace ==
  ASSUME NEW K, NEW V, NEW c \in Seq(K \X V), NEW k \in K, NEW v \in V, NEW i, TbAt(c, k, i)
  PROVE  TbPut(c, [c EXCEPT ![i] = <<k, v>>], k, v)
<1>1. PICK d : d = [c EXCEPT ![i] = <<k, v>>]
  OBVIOUS
<1>2. i \in 1 .. Len(c) /\ c[i][1] = k
  BY DEF TbAt
<1>3. /\ d \in Seq(K \X V) /\ DOMAIN d = DOMAIN c /\ d[i] = <<k, v>>
      /\ \A j \in DOMAIN c : j # i => d[j] = c[j]
  BY <1>1, <1>2
<1>4. ASSUME NEW j \in DOMAIN c
      PROVE  d[j][1] = c[j][1]
  <2>1. CASE j = i
    <3>1. d[i][1] = k
      BY ONLY <1>3
    <3> QED
      BY ONLY <2>1, <3>1, <1>2
  <2>2. CASE j # i
    BY ONLY <2>2, <1>3, j \in DOMAIN c
  <2> QED
    BY <2>1, <2>2
<1>5. \A j, x : TbAt(c, j, x) => TbAt(d, j, x)
  BY <1>3, <1>4 DEF TbAt
<1>6. \A j : TbHas(d, j) <=> TbHas(c, j)
  BY <1>3, <1>4 DEF TbHas
<1>7. TbHas(c, k) /\ TbVal(d, k) = v
  <2>1. TbAt(d, k, i)
    BY <1>5
  <2> QED
    BY <1>3, <2>1, <1>6, TbIs
<1>8. ASSUME NEW j, j # k, TbHas(c, j)
      PROVE  TbVal(d, j) = TbVal(c, j)
  <2>1. PICK x \in DOMAIN c : TbAt(c, j, x)
    BY <1>8, TbFound
  <2>2. TbAt(d, j, x) /\ x # i
    BY <1>2, <1>5, <1>8, <2>1 DEF TbAt
  <2>3. TbVal(c, j) = c[x][2]
    BY <2>1, TbIs
  <2>4. TbVal(d, j) = d[x][2]
    BY <1>3, <2>2, TbIs
  <2> QED
    BY <1>3, <2>1, <2>2, <2>3, <2>4
<1>9. TbPut(c, d, k, v)
  BY <1>6, <1>7, <1>8 DEF TbPut
<1> QED
  BY <1>1, <1>9

\* A pair put at the end.
LEMMA TbAppend ==
  ASSUME NEW K, NEW V, NEW c \in Seq(K \X V), NEW k \in K, NEW v \in V, ~TbHas(c, k)
  PROVE  TbPut(c, Append(c, <<k, v>>), k, v)
<1>1. PICK d : d = Append(c, <<k, v>>)
  OBVIOUS
<1>2. /\ d \in Seq(K \X V) /\ DOMAIN d = 1 .. Len(c) + 1 /\ d[Len(c) + 1] = <<k, v>>
      /\ \A i \in DOMAIN c : i \in DOMAIN d /\ d[i] = c[i]
  BY <1>1
<1>3. \A i \in DOMAIN d : i \in DOMAIN c \/ i = Len(c) + 1
  BY <1>2
<1>4. ASSUME NEW j, j # k
      PROVE  (TbHas(d, j) <=> TbHas(c, j)) /\ \A x : TbAt(c, j, x) => TbAt(d, j, x)
  <2>1. \A i \in DOMAIN d : d[i][1] = j => i \in DOMAIN c /\ c[i][1] = j
    BY <1>2, <1>3, <1>4
  <2> QED
    BY <1>2, <2>1 DEF TbHas, TbAt
<1>5. TbHas(d, k) /\ TbVal(d, k) = v
  <2>1. TbAt(d, k, Len(c) + 1)
    <3>1. \A i \in DOMAIN d : d[i][1] = k => i = Len(c) + 1
      BY <1>2, <1>3 DEF TbHas
    <3> QED
      BY <1>2, <3>1 DEF TbAt
  <2> QED
    BY <1>2, <2>1, TbIs
<1>6. ASSUME NEW j, j # k, TbHas(c, j)
      PROVE  TbVal(d, j) = TbVal(c, j)
  <2>1. PICK x \in DOMAIN c : TbAt(c, j, x)
    BY <1>6, TbFound
  <2>2. TbVal(c, j) = c[x][2]
    BY <2>1, TbIs
  <2>3. TbAt(d, j, x)
    BY <1>4, <1>6, <2>1
  <2>4. TbVal(d, j) = d[x][2]
    BY <1>2, <2>3, TbIs
  <2> QED
    BY <1>2, <2>2, <2>4
<1>7. TbPut(c, d, k, v)
  BY <1>4, <1>5, <1>6 DEF TbPut
<1> QED
  BY <1>1, <1>7

\* Each key once.
TbOnce(c) == \A i, j \in DOMAIN c : c[i][1] = c[j][1] => i = j

\* RemoveAt takes out one element.
LEMMA TbRemoveAt ==
  ASSUME NEW D, NEW s \in Seq(D), NEW k \in 1 .. Len(s)
  PROVE  LET d == Hash!RemoveAt(s, k)
         IN  /\ d \in Seq(D) /\ Len(d) = Len(s) - 1
             /\ \A j \in 1 .. Len(s) - 1 : d[j] = IF j < k THEN s[j] ELSE s[j + 1]
<1>1. Len(s) \in Nat /\ \A j \in 1 .. Len(s) : s[j] \in D
  BY LenProperties, ElementOfSeq
<1>2. PICK n \in Nat : n = Len(s)
  BY <1>1
<1>3. PICK u : u = SubSeq(s, 1, k - 1)
  OBVIOUS
<1>4. PICK v : v = SubSeq(s, k + 1, n)
  OBVIOUS
<1>5. u \in Seq(D) /\ Len(u) = k - 1 /\ \A j \in 1 .. k - 1 : u[j] = s[j]
  <2>1. 1 \in Int /\ k - 1 \in Int /\ \A j \in 1 .. k - 1 : s[j] \in D
    BY <1>1
  <2>2. /\ SubSeq(s, 1, k - 1) \in Seq(D)
        /\ Len(SubSeq(s, 1, k - 1)) = IF 1 <= k - 1 THEN k - 1 - 1 + 1 ELSE 0
        /\ \A j \in 1 .. k - 1 - 1 + 1 : SubSeq(s, 1, k - 1)[j] = s[1 + j - 1]
    BY ONLY <2>1, SubSeqProperties
  <2>3. ASSUME NEW j \in 1 .. k - 1 PROVE u[j] = s[j]
    <3>1. j \in 1 .. k - 1 - 1 + 1 /\ 1 + j - 1 = j
      OBVIOUS
    <3> QED
      BY <1>3, <2>2, <3>1
  <2> QED
    BY <1>3, <2>2, <2>3
<1>6. v \in Seq(D) /\ Len(v) = n - k /\ \A j \in 1 .. n - k : v[j] = s[k + j]
  <2>1. k + 1 \in Int /\ n \in Int /\ \A j \in k + 1 .. n : s[j] \in D
    BY <1>1, <1>2
  <2>2. /\ SubSeq(s, k + 1, n) \in Seq(D)
        /\ Len(SubSeq(s, k + 1, n)) = IF k + 1 <= n THEN n - (k + 1) + 1 ELSE 0
        /\ \A j \in 1 .. n - (k + 1) + 1 : SubSeq(s, k + 1, n)[j] = s[(k + 1) + j - 1]
    BY ONLY <2>1, SubSeqProperties
  <2>3. ASSUME NEW j \in 1 .. n - k PROVE v[j] = s[k + j]
    <3>1. j \in 1 .. n - (k + 1) + 1 /\ (k + 1) + j - 1 = k + j
      OBVIOUS
    <3> QED
      BY <1>4, <2>2, <3>1
  <2> QED
    BY <1>2, <1>4, <2>2, <2>3
<1>7. PICK w : w = u \o v
  OBVIOUS
<1>8. /\ w \in Seq(D) /\ Len(w) = (k - 1) + (n - k)
      /\ \A j \in 1 .. (k - 1) + (n - k) : w[j] = IF j <= k - 1 THEN u[j] ELSE v[j - (k - 1)]
  <2>1. /\ u \o v \in Seq(D) /\ Len(u \o v) = Len(u) + Len(v)
        /\ \A j \in 1 .. Len(u) + Len(v) :
             (u \o v)[j] = IF j <= Len(u) THEN u[j] ELSE v[j - Len(u)]
    BY ONLY <1>5, <1>6, ConcatProperties
  <2> QED
    BY <1>5, <1>6, <1>7, <2>1
<1>9. ASSUME NEW j \in 1 .. n - 1 PROVE w[j] = IF j < k THEN s[j] ELSE s[j + 1]
  <2>1. j \in 1 .. (k - 1) + (n - k)
    BY <1>2
  <2>2. CASE j < k
    <3>1. j <= k - 1 /\ j \in 1 .. k - 1
      BY <2>2
    <3> QED
      BY <1>5, <1>8, <2>1, <2>2, <3>1
  <2>3. CASE ~(j < k)
    <3>1. ~(j <= k - 1) /\ j - (k - 1) \in 1 .. n - k /\ k + (j - (k - 1)) = j + 1
      BY <1>2, <2>1, <2>3
    <3> QED
      BY <1>6, <1>8, <2>1, <2>3, <3>1
  <2> QED
    BY <2>2, <2>3
<1>10. Len(w) = n - 1
  BY <1>2, <1>8
<1> QED
  BY <1>2, <1>3, <1>4, <1>7, <1>8, <1>9, <1>10 DEF Hash!RemoveAt

\* The one pair of a key taken out.
LEMMA TbRemove ==
  ASSUME NEW K, NEW V, NEW c \in Seq(K \X V), TbOnce(c), NEW k, NEW i, TbAt(c, k, i)
  PROVE  LET d == Hash!RemoveAt(c, i)
         IN  d \in Seq(K \X V) /\ TbOnce(d) /\ TbGone(c, d, k)
<1>1. PICK d : d = Hash!RemoveAt(c, i)
  OBVIOUS
<1>2. i \in 1 .. Len(c) /\ c[i][1] = k
  BY DEF TbAt
<1>6. /\ d \in Seq(K \X V) /\ Len(d) = Len(c) - 1
      /\ \A x \in 1 .. Len(c) - 1 : d[x] = IF x < i THEN c[x] ELSE c[x + 1]
  <2>1. c \in Seq(K \X V)
    OBVIOUS
  <2> QED
    BY ONLY <1>1, <1>2, <2>1, TbRemoveAt
<1>a. DOMAIN d = 1 .. Len(c) - 1 /\ DOMAIN c = 1 .. Len(c) /\ Len(c) \in Nat
  BY <1>6
<1> DEFINE to(x) == IF x < i THEN x ELSE x + 1
<1>7. ASSUME NEW x \in DOMAIN d
      PROVE  to(x) \in DOMAIN c /\ to(x) # i /\ d[x] = c[to(x)]
  <2>1. x \in 1 .. Len(c) - 1
    BY <1>a
  <2>2. to(x) \in 1 .. Len(c) /\ to(x) # i
    BY <1>2, <1>a, <2>1
  <2>3. d[x] = c[to(x)]
    BY <1>6, <2>1
  <2> QED
    BY <1>a, <2>2, <2>3
<1>8. ASSUME NEW x \in DOMAIN c, x # i
      PROVE  \E y \in DOMAIN d : x = to(y) /\ d[y] = c[x]
  <2>1. PICK y : y = IF x < i THEN x ELSE x - 1
    OBVIOUS
  <2>2. y \in 1 .. Len(c) - 1 /\ x = to(y)
    BY <1>2, <1>8, <1>a, <2>1
  <2> QED
    BY <1>a, <1>7, <2>2
<1>9. \A x, y \in DOMAIN d : to(x) = to(y) => x = y
  BY <1>2, <1>a
<1> HIDE DEF to
<1>10. TbOnce(d)
  BY <1>7, <1>9 DEF TbOnce
<1>11. \A x \in DOMAIN c : c[x][1] = k <=> x = i
  BY <1>2 DEF TbOnce
<1>12. ASSUME NEW j
       PROVE  TbHas(d, j) <=> j # k /\ TbHas(c, j)
  BY <1>7, <1>8, <1>11 DEF TbHas
<1>13. ASSUME NEW s \in Seq(K \X V), TbOnce(s), NEW x \in DOMAIN s
       PROVE  TbAt(s, s[x][1], x)
  BY <1>13 DEF TbOnce, TbAt
<1>14. ASSUME NEW j, j # k, TbHas(c, j)
       PROVE  TbVal(d, j) = TbVal(c, j)
  <2>1. PICK x \in DOMAIN c : c[x][1] = j
    BY <1>14 DEF TbHas
  <2>2. PICK y \in DOMAIN d : d[y] = c[x]
    BY <1>8, <1>11, <1>14, <2>1
  <2>3. TbAt(c, j, x) /\ TbAt(d, j, y)
    BY <1>6, <1>10, <1>13, <2>1, <2>2
  <2>4. TbVal(c, j) = c[x][2]
    BY <2>3, TbIs
  <2>5. TbVal(d, j) = d[y][2]
    BY <1>6, <2>3, TbIs
  <2> QED
    BY <2>2, <2>4, <2>5
<1>15. TbGone(c, d, k)
  BY <1>12, <1>14 DEF TbGone
<1> QED
  BY <1>1, <1>6, <1>10, <1>15
-----------------------------------------------------------------------------
(* The thread-safe hash map.                                               *)

CmChain == Seq(MapKeys \X MapValues)

CmTypes(B, C) ==
  /\ B \in [0 .. NUM_BUCKETS - 1 -> [head : CmChain, lock : MapThreads \cup {0}]]
  /\ C \in [MapThreads -> [op : {"none", "insert", "lookup", "inside"}, key : MapKeys \cup {0},
                           value : MapValues \cup {0}, head : CmChain]]

\* A call has a key, an insertion a value too, and a thread inside a bucket has
\* the lock of it and has seen its chain as it is.
CmHolds(B, c, t) ==
  /\ c.op # "none" => c.key \in MapKeys
  /\ c.op \in {"insert", "inside"} => c.value \in MapValues
  /\ c.op = "inside" => /\ B[MapBucket[c.key]].lock = t
                        /\ B[MapBucket[c.key]].head = c.head

CmInv == CmTypes(buckets, call) /\ \A t \in MapThreads : CmHolds(buckets, call[t], t)

\* The map that the chains stand for.
CmMap(B) ==
  [k \in {j \in MapKeys : TbHas(B[MapBucket[j]].head, j)} |-> TbVal(B[MapBucket[k]].head, k)]

LEMMA CmConstants ==
  /\ NUM_BUCKETS \in Nat \ {0} /\ MapBucket \in [MapKeys -> 0 .. NUM_BUCKETS - 1]
  /\ 0 \notin MapThreads
BY CoreAssumption DEF Conc!ConstantsOK, Conc!Nobody

\* What Curr finds.
LEMMA CmCurr ==
  ASSUME NEW c \in CmChain, NEW k
  PROVE  /\ Conc!Curr(c, k) = 0 <=> ~TbHas(c, k)
         /\ TbHas(c, k) => TbAt(c, k, Conc!Curr(c, k)) /\ c[Conc!Curr(c, k)][2] = TbVal(c, k)
<1> DEFINE T == {i \in DOMAIN c : c[i][1] = k}
<1>1. T \subseteq Nat /\ 0 \notin T
  BY DEF CmChain
<1>2. T = {} <=> ~TbHas(c, k)
  BY DEF TbHas
<1>3. CASE T = {}
  <2>1. Conc!Curr(c, k) = 0
    BY <1>3 DEF Conc!Curr
  <2> QED
    BY <1>2, <1>3, <2>1
<1>4. CASE T # {}
  <2>1. PICK x : x = Conc!Min(T)
    OBVIOUS
  <2>2. \E y \in T : \A z \in T : y <= z
    BY <1>1, <1>4, MvLeast
  <2>3. x \in T /\ \A z \in T : x <= z
    BY <2>1, <2>2 DEF Conc!Min
  <2>4. Conc!Curr(c, k) = x
    BY <1>4, <2>1 DEF Conc!Curr
  <2>5. TbAt(c, k, x)
    BY <2>3 DEF TbAt
  <2>6. TbHas(c, k) /\ TbVal(c, k) = c[x][2]
    BY <2>5, TbIs DEF CmChain
  <2> QED
    BY <1>1, <2>3, <2>4, <2>5, <2>6
<1> QED
  BY <1>3, <1>4

\* What a search answers with.
LEMMA CmAnswer ==
  ASSUME CmTypes(buckets, call)
  PROVE  [k \in Conc!Held |-> Conc!ValueAt(k)] = CmMap(buckets)
<1>1. \A k \in MapKeys : buckets[MapBucket[k]].head \in CmChain
  BY CmConstants DEF CmTypes
<1>2. Conc!Held = {j \in MapKeys : TbHas(buckets[MapBucket[j]].head, j)}
  BY <1>1, CmCurr DEF Conc!Held
<1>3. \A k \in Conc!Held : Conc!ValueAt(k) = TbVal(buckets[MapBucket[k]].head, k)
  BY <1>1, <1>2, CmCurr DEF Conc!ValueAt
<1> QED
  BY <1>2, <1>3 DEF CmMap

LEMMA CmAnswerNext ==
  ASSUME CmTypes(buckets', call')
  PROVE  [k \in Conc!Held |-> Conc!ValueAt(k)]' = CmMap(buckets')
<1>1. \A k \in MapKeys : buckets'[MapBucket[k]].head \in CmChain
  BY CmConstants DEF CmTypes
<1>2. Conc!Held' = {j \in MapKeys : TbHas(buckets'[MapBucket[j]].head, j)}
  BY <1>1, CmCurr DEF Conc!Held
<1>3. \A k \in Conc!Held' : Conc!ValueAt(k)' = TbVal(buckets'[MapBucket[k]].head, k)
  BY <1>1, <1>2, CmCurr DEF Conc!ValueAt
<1> QED
  BY <1>2, <1>3 DEF CmMap

\* One bucket changed, by a pair.
CmOne(B, D, k, v) ==
  /\ TbPut(B[MapBucket[k]].head, D[MapBucket[k]].head, k, v)
  /\ \A b \in 0 .. NUM_BUCKETS - 1 : b # MapBucket[k] => D[b].head = B[b].head

\* A map after Put.
TbPutMap(m, n, k, v) == n = [j \in DOMAIN m \cup {k} |-> IF j = k THEN v ELSE m[j]]

LEMMA CmChange ==
  ASSUME NEW B, NEW D, NEW k \in MapKeys, NEW v, CmOne(B, D, k, v)
  PROVE  TbPutMap(CmMap(B), CmMap(D), k, v)
<1> USE DEF CmOne
<1>1. \A j \in MapKeys : TbHas(D[MapBucket[j]].head, j) <=> j = k \/ TbHas(B[MapBucket[j]].head, j)
  BY CmConstants DEF TbPut
<1>2. DOMAIN CmMap(D) = DOMAIN CmMap(B) \cup {k}
  BY <1>1 DEF CmMap
<1>3. TbVal(D[MapBucket[k]].head, k) = v
  BY DEF TbPut
<1>4. \A j \in DOMAIN CmMap(B) : j # k =>
        TbVal(D[MapBucket[j]].head, j) = TbVal(B[MapBucket[j]].head, j)
  BY CmConstants DEF TbPut, CmMap
<1>5. ASSUME NEW j \in DOMAIN CmMap(B) \cup {k}
      PROVE  CmMap(D)[j] = IF j = k THEN v ELSE CmMap(B)[j]
  BY <1>2, <1>3, <1>4 DEF CmMap
<1>6. CmMap(D) = [j \in DOMAIN CmMap(D) |-> CmMap(D)[j]]
  BY DEF CmMap
<1> QED
  BY <1>2, <1>5, <1>6 DEF TbPutMap

LEMMA CmStarts == Conc!hashmapInit => CmInv /\ Conc!Map!Init
<1> SUFFICES ASSUME Conc!hashmapInit PROVE CmInv /\ Conc!Map!Init
  OBVIOUS
<1>1. CmTypes(buckets, call)
  BY CmConstants DEF Conc!hashmapInit, CmTypes, CmChain, Conc!Idle, Conc!Nobody
<1>2. \A t \in MapThreads : CmHolds(buckets, call[t], t)
  BY DEF Conc!hashmapInit, CmHolds, Conc!Idle
<1>3. \A k \in MapKeys : ~TbHas(buckets[MapBucket[k]].head, k)
  BY CmConstants DEF Conc!hashmapInit, TbHas
<1>4. CmMap(buckets) = <<>>
  BY <1>3 DEF CmMap
<1>5. [k \in Conc!Held |-> Conc!ValueAt(k)] = <<>>
  BY <1>1, <1>4, CmAnswer
<1> QED
  BY <1>1, <1>2, <1>5 DEF CmInv, Conc!Map!Init, Conc!hashmapInit, Conc!NotFound

\* A step of another thread, or one that leaves a bucket as it is, does not
\* disturb a thread inside.
LEMMA CmKeeps ==
  ASSUME NEW B, NEW D, NEW C, NEW E, NEW t \in MapThreads,
         \A u \in MapThreads : CmHolds(B, C[u], u),
         \A u \in MapThreads \ {t} : E[u] = C[u],
         CmHolds(D, E[t], t),
         \A b \in 0 .. NUM_BUCKETS - 1 : D[b] = B[b] \/ B[b].lock \in {0, t}
  PROVE  \A u \in MapThreads : CmHolds(D, E[u], u)
<1>1. ASSUME NEW u \in MapThreads \ {t}
      PROVE  CmHolds(D, E[u], u)
  <2>1. CmHolds(B, E[u], u)
    OBVIOUS
  <2>2. CASE E[u].op # "inside"
    BY <2>1, <2>2 DEF CmHolds
  <2>3. CASE E[u].op = "inside"
    <3>1. PICK b \in 0 .. NUM_BUCKETS - 1 : b = MapBucket[E[u].key]
      BY <2>1, <2>3, CmConstants DEF CmHolds
    <3>2. B[b].lock = u
      BY <2>1, <2>3, <3>1 DEF CmHolds
    <3>3. D[b] = B[b]
      BY <3>2, CmConstants
    <3> QED
      BY <2>1, <3>1, <3>3 DEF CmHolds
  <2> QED
    BY <2>2, <2>3
<1> QED
  BY <1>1

\* The next state of the map is that of the promised one.
CmSteps == CmInv' /\ Conc!Map!Step

LEMMA CmCalls ==
  ASSUME CmInv, NEW t \in MapThreads, NEW k \in MapKeys, NEW op, NEW v,
         \/ op = "lookup" /\ v = 0
         \/ op = "insert" /\ v \in MapValues,
         Conc!Call(t, op, k, v)
  PROVE  CmSteps
<1>1. PICK c : c = [op |-> op, key |-> k, value |-> v, head |-> <<>>]
  OBVIOUS
<1>2. call' = [call EXCEPT ![t] = c] /\ buckets' = buckets /\ mapLast' = mapLast
  BY <1>1 DEF Conc!Call
<1>3. c \in [op : {"none", "insert", "lookup", "inside"}, key : MapKeys \cup {0},
             value : MapValues \cup {0}, head : CmChain]
  BY <1>1 DEF CmChain
<1>4. CmTypes(buckets', call')
  BY <1>2, <1>3 DEF CmInv, CmTypes
<1>5. CmHolds(buckets, c, t)
  BY <1>1 DEF CmHolds
<1>6. call'[t] = c /\ \A u \in MapThreads \ {t} : call'[u] = call[u]
  BY <1>2 DEF CmInv, CmTypes
<1>7. \A u \in MapThreads : CmHolds(buckets', call'[u], u)
  BY <1>2, <1>5, <1>6, CmKeeps DEF CmInv
<1>8. CmInv'
  BY <1>4, <1>7 DEF CmInv
<1>9. [k_1 \in Conc!Held |-> Conc!ValueAt(k_1)]' = [k_1 \in Conc!Held |-> Conc!ValueAt(k_1)]
  BY <1>2, <1>4, CmAnswer, CmAnswerNext DEF CmInv
<1> QED
  BY <1>2, <1>8, <1>9 DEF CmSteps, Conc!Map!Step

LEMMA CmEnters ==
  ASSUME CmInv, NEW t \in MapThreads, Conc!InsertEnter(t)
  PROVE  CmSteps
<1>1. PICK k \in MapKeys : k = call[t].key
  BY DEF CmInv, CmHolds, Conc!InsertEnter
<1>2. PICK b \in 0 .. NUM_BUCKETS - 1 : b = MapBucket[k]
  BY CmConstants
<1>3. /\ call[t].op = "insert" /\ buckets[b].lock = 0
      /\ buckets' = [buckets EXCEPT ![b] = [buckets[b] EXCEPT !.lock = t]]
      /\ call' = [call EXCEPT ![t] = [op |-> "inside", key |-> call[t].key, value |-> call[t].value,
                                      head |-> buckets[b].head]]
      /\ mapLast' = mapLast
  BY <1>1, <1>2 DEF Conc!InsertEnter, Conc!MayLock, Conc!Bucket, Conc!Nobody
<1>4. /\ buckets \in [0 .. NUM_BUCKETS - 1 -> [head : CmChain, lock : MapThreads \cup {0}]]
      /\ call \in [MapThreads -> [op : {"none", "insert", "lookup", "inside"}, key : MapKeys \cup {0},
                                  value : MapValues \cup {0}, head : CmChain]]
  BY DEF CmInv, CmTypes
<1>5. PICK r : r = [head |-> buckets[b].head, lock |-> t]
  OBVIOUS
<1>6. PICK c : c = [op |-> "inside", key |-> call[t].key, value |-> call[t].value,
                    head |-> buckets[b].head]
  OBVIOUS
<1>7. buckets' = [buckets EXCEPT ![b] = r] /\ r \in [head : CmChain, lock : MapThreads \cup {0}]
  <2>1. buckets[b] \in [head : CmChain, lock : MapThreads \cup {0}]
    BY <1>4
  <2>2. [buckets[b] EXCEPT !.lock = t] = r
    BY <1>5, <2>1
  <2> QED
    BY <1>3, <1>5, <2>1, <2>2
<1>8. /\ call' = [call EXCEPT ![t] = c]
      /\ c \in [op : {"none", "insert", "lookup", "inside"}, key : MapKeys \cup {0},
                value : MapValues \cup {0}, head : CmChain]
  <2>1. call[t] \in [op : {"none", "insert", "lookup", "inside"}, key : MapKeys \cup {0},
                     value : MapValues \cup {0}, head : CmChain]
    BY <1>4
  <2>2. buckets[b].head \in CmChain
    BY <1>4
  <2> QED
    BY <1>3, <1>6, <2>1, <2>2
<1>9. CmTypes(buckets', call')
  BY <1>4, <1>7, <1>8 DEF CmTypes
<1>10. \A x \in 0 .. NUM_BUCKETS - 1 : buckets'[x].head = buckets[x].head
  BY <1>4, <1>5, <1>7
<1>11. CmHolds(buckets', c, t)
  <2>1. buckets'[b] = r /\ c.key = k /\ c.head = r.head /\ r.lock = t
    BY <1>1, <1>4, <1>5, <1>6, <1>7
  <2>2. c.value \in MapValues
    BY <1>3, <1>6 DEF CmInv, CmHolds
  <2> QED
    BY <1>2, <2>1, <2>2 DEF CmHolds
<1>12. call'[t] = c /\ \A u \in MapThreads \ {t} : call'[u] = call[u]
  BY <1>4, <1>8
<1>13. \A x \in 0 .. NUM_BUCKETS - 1 : buckets'[x] = buckets[x] \/ buckets[x].lock \in {0, t}
  BY <1>3, <1>4, <1>7
<1>14. \A u \in MapThreads : CmHolds(buckets', call'[u], u)
  BY <1>11, <1>12, <1>13, CmKeeps DEF CmInv
<1>15. CmInv'
  BY <1>9, <1>14 DEF CmInv
<1>16. CmMap(buckets') = CmMap(buckets)
  BY <1>10, CmConstants DEF CmMap
<1>17. [k_1 \in Conc!Held |-> Conc!ValueAt(k_1)]' = [k_1 \in Conc!Held |-> Conc!ValueAt(k_1)]
  BY <1>9, <1>16, CmAnswer, CmAnswerNext DEF CmInv
<1> QED
  BY <1>3, <1>15, <1>17 DEF CmSteps, Conc!Map!Step

LEMMA CmLeaves ==
  ASSUME CmInv, NEW t \in MapThreads, Conc!InsertLeave(t)
  PROVE  CmSteps
<1>1. PICK k \in MapKeys : k = call[t].key
  BY DEF CmInv, CmHolds, Conc!InsertLeave
<1>2. PICK v \in MapValues : v = call[t].value
  BY DEF CmInv, CmHolds, Conc!InsertLeave
<1>3. PICK b \in 0 .. NUM_BUCKETS - 1 : b = MapBucket[k]
  BY CmConstants
<1>4. /\ buckets \in [0 .. NUM_BUCKETS - 1 -> [head : CmChain, lock : MapThreads \cup {0}]]
      /\ call \in [MapThreads -> [op : {"none", "insert", "lookup", "inside"}, key : MapKeys \cup {0},
                                  value : MapValues \cup {0}, head : CmChain]]
  BY DEF CmInv, CmTypes
<1>5. PICK s \in CmChain : s = call[t].head
  BY <1>4
<1>6. call[t].op = "inside" /\ buckets[b].lock = t /\ buckets[b].head = s
  BY <1>1, <1>3, <1>5 DEF CmInv, CmHolds, Conc!InsertLeave
<1>7. PICK d : d = IF Conc!Curr(s, k) = 0 THEN <<<<k, v>>>> \o s
                   ELSE [s EXCEPT ![Conc!Curr(s, k)] = <<k, v>>]
  OBVIOUS
<1>8. /\ buckets' = [buckets EXCEPT ![b] = [head |-> d, lock |-> 0]]
      /\ call' = [call EXCEPT ![t] = Conc!Idle]
      /\ mapLast' = <<"put", k, v>>
  BY <1>1, <1>2, <1>3, <1>5, <1>7 DEF Conc!InsertLeave, Conc!Bucket, Conc!Nobody
<1>9. d \in CmChain /\ TbPut(s, d, k, v)
  <2>1. CASE Conc!Curr(s, k) = 0
    <3>1. ~TbHas(s, k) /\ d = <<<<k, v>>>> \o s
      BY <1>7, <2>1, CmCurr
    <3>2. d \in CmChain
      BY <3>1 DEF CmChain
    <3> QED
      BY <3>1, <3>2, TbPrepend DEF CmChain
  <2>2. CASE Conc!Curr(s, k) # 0
    <3>1. PICK i : i = Conc!Curr(s, k)
      OBVIOUS
    <3>2. TbAt(s, k, i) /\ d = [s EXCEPT ![i] = <<k, v>>]
      BY <1>7, <2>2, <3>1, CmCurr
    <3>3. d \in CmChain
      BY <3>2 DEF CmChain, TbAt
    <3> QED
      BY <3>2, <3>3, TbReplace DEF CmChain
  <2> QED
    BY <2>1, <2>2
<1>10. PICK r : r = [head |-> d, lock |-> 0]
  OBVIOUS
<1>11. buckets' = [buckets EXCEPT ![b] = r] /\ r \in [head : CmChain, lock : MapThreads \cup {0}]
  BY <1>4, <1>8, <1>9, <1>10
<1>12. PICK c : c = [op |-> "none", key |-> 0, value |-> 0, head |-> <<>>]
  OBVIOUS
<1>13. /\ call' = [call EXCEPT ![t] = c]
       /\ c \in [op : {"none", "insert", "lookup", "inside"}, key : MapKeys \cup {0},
                 value : MapValues \cup {0}, head : CmChain]
  BY <1>8, <1>12 DEF Conc!Idle, CmChain
<1>14. CmTypes(buckets', call')
  BY <1>4, <1>11, <1>13 DEF CmTypes
<1>15. CmHolds(buckets', c, t)
  BY <1>12 DEF CmHolds
<1>16. call'[t] = c /\ \A u \in MapThreads \ {t} : call'[u] = call[u]
  BY <1>4, <1>13
<1>17. \A x \in 0 .. NUM_BUCKETS - 1 : buckets'[x] = buckets[x] \/ buckets[x].lock \in {0, t}
  BY <1>4, <1>6, <1>11
<1>18. \A u \in MapThreads : CmHolds(buckets', call'[u], u)
  BY <1>15, <1>16, <1>17, CmKeeps DEF CmInv
<1>19. CmInv'
  BY <1>14, <1>18 DEF CmInv
<1>20. CmOne(buckets, buckets', k, v)
  <2>1. buckets'[b] = r /\ r.head = d
    BY <1>4, <1>10, <1>11
  <2>2. \A x \in 0 .. NUM_BUCKETS - 1 : x # b => buckets'[x] = buckets[x]
    BY <1>4, <1>11
  <2> QED
    BY <1>3, <1>6, <1>9, <2>1, <2>2 DEF CmOne
<1>21. TbPutMap(CmMap(buckets), CmMap(buckets'), k, v)
  BY <1>20, CmChange
<1>22. /\ [j \in Conc!Held |-> Conc!ValueAt(j)] = CmMap(buckets)
       /\ [j \in Conc!Held |-> Conc!ValueAt(j)]' = CmMap(buckets')
  BY <1>14, CmAnswer, CmAnswerNext DEF CmInv
<1>23. Conc!Map!Put(k, v)
  BY <1>8, <1>21, <1>22 DEF Conc!Map!Put, TbPutMap
<1>24. Conc!Map!Next
  BY <1>23 DEF Conc!Map!Next
<1> QED
  BY <1>19, <1>24 DEF CmSteps, Conc!Map!Step

LEMMA CmLooks ==
  ASSUME CmInv, NEW t \in MapThreads, Conc!hashmapLookup(t)
  PROVE  CmSteps
<1>1. PICK k \in MapKeys : k = call[t].key
  BY DEF CmInv, CmHolds, Conc!hashmapLookup
<1>2. PICK s : s = buckets[MapBucket[k]].head
  OBVIOUS
<1>3. s \in CmChain
  BY <1>2, CmConstants DEF CmInv, CmTypes
<1>4. /\ mapLast' = <<"ask", k, IF Conc!Curr(s, k) = 0 THEN -1 ELSE s[Conc!Curr(s, k)][2]>>
      /\ call' = [call EXCEPT ![t] = Conc!Idle]
      /\ buckets' = buckets
  BY <1>1, <1>2 DEF Conc!hashmapLookup, Conc!Bucket, Conc!NotFound
<1>5. PICK c : c = [op |-> "none", key |-> 0, value |-> 0, head |-> <<>>]
  OBVIOUS
<1>6. /\ call' = [call EXCEPT ![t] = c]
      /\ c \in [op : {"none", "insert", "lookup", "inside"}, key : MapKeys \cup {0},
                value : MapValues \cup {0}, head : CmChain]
  BY <1>4, <1>5 DEF Conc!Idle, CmChain
<1>7. CmTypes(buckets', call')
  BY <1>4, <1>6 DEF CmInv, CmTypes
<1>8. CmHolds(buckets', c, t)
  BY <1>5 DEF CmHolds
<1>9. call'[t] = c /\ \A u \in MapThreads \ {t} : call'[u] = call[u]
  BY <1>6 DEF CmInv, CmTypes
<1>10. \A u \in MapThreads : CmHolds(buckets', call'[u], u)
  BY <1>4, <1>8, <1>9, CmKeeps DEF CmInv
<1>11. CmInv'
  BY <1>7, <1>10 DEF CmInv
<1>12. /\ [j \in Conc!Held |-> Conc!ValueAt(j)] = CmMap(buckets)
       /\ [j \in Conc!Held |-> Conc!ValueAt(j)]' = CmMap(buckets)
  BY <1>4, <1>7, CmAnswer, CmAnswerNext DEF CmInv
<1>13. (IF Conc!Curr(s, k) = 0 THEN -1 ELSE s[Conc!Curr(s, k)][2])
         = IF k \in DOMAIN CmMap(buckets) THEN CmMap(buckets)[k] ELSE -1
  <2>1. k \in DOMAIN CmMap(buckets) <=> TbHas(s, k)
    BY <1>2 DEF CmMap
  <2>2. CASE TbHas(s, k)
    <3>1. CmMap(buckets)[k] = TbVal(s, k)
      BY <1>2, <2>2 DEF CmMap
    <3> QED
      BY <1>3, <2>1, <2>2, <3>1, CmCurr
  <2>3. CASE ~TbHas(s, k)
    BY <1>3, <2>1, <2>3, CmCurr
  <2> QED
    BY <2>2, <2>3
<1>14. Conc!Map!Ask(k)
  BY <1>4, <1>12, <1>13 DEF Conc!Map!Ask, Conc!NotFound
<1>15. Conc!Map!Next
  BY <1>14 DEF Conc!Map!Next
<1> QED
  BY <1>11, <1>15 DEF CmSteps, Conc!Map!Step

LEMMA CmDestroys ==
  ASSUME CmInv, Conc!hashmapDestroy
  PROVE  CmSteps
<1>1. /\ \A t \in MapThreads : call[t] = Conc!Idle
      /\ buckets' = [b \in 0 .. NUM_BUCKETS - 1 |-> [head |-> <<>>, lock |-> 0]]
      /\ mapLast' = <<"none", 0, -1>>
      /\ call' = call
  BY DEF Conc!hashmapDestroy, Conc!Nobody, Conc!NotFound, CmInv, CmTypes
<1>2. CmTypes(buckets', call')
  <2>1. <<>> \in CmChain
    BY DEF CmChain
  <2> QED
    BY <1>1, <2>1 DEF CmInv, CmTypes
<1>3. \A t \in MapThreads : CmHolds(buckets', call'[t], t)
  BY <1>1 DEF CmHolds, Conc!Idle
<1>4. CmInv'
  BY <1>2, <1>3 DEF CmInv
<1>5. \A k \in MapKeys : ~TbHas(buckets'[MapBucket[k]].head, k)
  <2>1. \A k : ~TbHas(<<>>, k)
    BY DEF TbHas
  <2> QED
    BY <1>1, <2>1, CmConstants
<1>6. CmMap(buckets') = <<>>
  BY <1>5 DEF CmMap
<1>7. [j \in Conc!Held |-> Conc!ValueAt(j)]' = <<>>
  BY <1>2, <1>6, CmAnswerNext
<1>8. Conc!Map!Clear
  BY <1>1, <1>7 DEF Conc!Map!Clear, Conc!NotFound
<1>9. Conc!Map!Next
  BY <1>8 DEF Conc!Map!Next
<1> QED
  BY <1>4, <1>9 DEF CmSteps, Conc!Map!Step

\* Every step of a thread, and of main, is one of the map's or changes nothing of it.
LEMMA CmStep ==
  ASSUME CmInv, Conc!Next \/ UNCHANGED mapped
  PROVE  CmInv' /\ Conc!Map!Step
<1>1. CASE UNCHANGED mapped
  <2>1. buckets' = buckets /\ call' = call /\ mapLast' = mapLast
    BY <1>1 DEF mapped
  <2>2. CmInv' /\ CmTypes(buckets', call')
    BY <2>1 DEF CmInv
  <2>3. [j \in Conc!Held |-> Conc!ValueAt(j)]' = [j \in Conc!Held |-> Conc!ValueAt(j)]
    BY <2>1, <2>2, CmAnswer, CmAnswerNext DEF CmInv
  <2> QED
    BY <2>1, <2>2, <2>3 DEF Conc!Map!Step
<1>2. CASE Conc!hashmapDestroy
  BY <1>2, CmDestroys DEF CmSteps
<1>3. ASSUME NEW t \in MapThreads, Conc!hashmapInsert(t)
      PROVE  CmSteps
  BY <1>3, CmEnters, CmLeaves DEF Conc!hashmapInsert
<1>4. ASSUME NEW t \in MapThreads, Conc!hashmapLookup(t)
      PROVE  CmSteps
  BY <1>4, CmLooks
<1>5. ASSUME NEW t \in MapThreads, NEW k \in MapKeys, Conc!Call(t, "lookup", k, 0)
      PROVE  CmSteps
  BY <1>5, CmCalls
<1>6. ASSUME NEW t \in MapThreads, NEW k \in MapKeys, NEW v \in MapValues,
             Conc!Call(t, "insert", k, v)
      PROVE  CmSteps
  BY <1>6, CmCalls
<1>7. Conc!Next => CmSteps
  BY <1>2, <1>3, <1>4, <1>5, <1>6 DEF Conc!Next, CmSteps
<1> QED
  BY <1>1, <1>7 DEF CmSteps
-----------------------------------------------------------------------------
(* The hash table.                                                         *)

HtChain == Seq(TableKeys \X TableValues)

HtSound(B) == B \in [0 .. TABLE_SIZE - 1 -> HtChain] /\ \A b \in 0 .. TABLE_SIZE - 1 : TbOnce(B[b])

HtInv == HtSound(chains)

HtMap(B) ==
  [k \in {j \in TableKeys : TbHas(B[TableBucket[j]], j)} |-> TbVal(B[TableBucket[k]], k)]

\* The map as the table has it.
HtTable == [k \in Hash!Held |-> chains[TableBucket[k]][Hash!Min(Hash!Places(k))][2]]

LEMMA HtConstants ==
  TABLE_SIZE \in Nat \ {0} /\ TableBucket \in [TableKeys -> 0 .. TABLE_SIZE - 1]
BY CoreAssumption DEF Hash!ConstantsOK

\* What a search finds.
LEMMA HtPlaces ==
  ASSUME NEW c \in HtChain, NEW k, NEW P, P = {i \in DOMAIN c : c[i][1] = k}
  PROVE  /\ P = {} <=> ~TbHas(c, k)
         /\ P # {} => TbAt(c, k, Hash!Min(P)) /\ c[Hash!Min(P)][2] = TbVal(c, k)
<1>1. P \subseteq Nat
  BY DEF HtChain
<1>2. P = {} <=> ~TbHas(c, k)
  BY DEF TbHas
<1>3. ASSUME P # {}
      PROVE  TbAt(c, k, Hash!Min(P)) /\ c[Hash!Min(P)][2] = TbVal(c, k)
  <2>1. PICK x : x = Hash!Min(P)
    OBVIOUS
  <2>2. \E y \in P : \A z \in P : y <= z
    BY <1>1, <1>3, MvLeast
  <2>3. x \in P /\ \A z \in P : x <= z
    BY <2>1, <2>2 DEF Hash!Min
  <2>4. TbAt(c, k, x)
    BY <2>3 DEF TbAt
  <2>5. TbVal(c, k) = c[x][2]
    BY <2>4, TbIs DEF HtChain
  <2> QED
    BY <2>1, <2>4, <2>5
<1> QED
  BY <1>2, <1>3

LEMMA HtAnswer ==
  ASSUME HtSound(chains)
  PROVE  HtTable = HtMap(chains)
<1>1. \A k \in TableKeys : chains[TableBucket[k]] \in HtChain
  BY HtConstants DEF HtSound
<1>2. Hash!Held = {j \in TableKeys : TbHas(chains[TableBucket[j]], j)}
  <2>1. \A j : Hash!Places(j) # {} <=> TbHas(chains[TableBucket[j]], j)
    BY DEF Hash!Places, TbHas
  <2> QED
    BY <2>1 DEF Hash!Held
<1>3. \A k \in Hash!Held :
        chains[TableBucket[k]][Hash!Min(Hash!Places(k))][2] = TbVal(chains[TableBucket[k]], k)
  <2> SUFFICES ASSUME NEW k \in Hash!Held
               PROVE  chains[TableBucket[k]][Hash!Min(Hash!Places(k))][2] = TbVal(chains[TableBucket[k]], k)
    OBVIOUS
  <2>1. k \in TableKeys /\ Hash!Places(k) # {}
    BY DEF Hash!Held
  <2>2. PICK P : P = Hash!Places(k)
    OBVIOUS
  <2>3. P = {i \in DOMAIN chains[TableBucket[k]] : chains[TableBucket[k]][i][1] = k}
    BY <2>2 DEF Hash!Places
  <2> QED
    BY <1>1, <2>1, <2>2, <2>3, HtPlaces
<1> QED
  BY <1>2, <1>3 DEF HtMap, HtTable

LEMMA HtAnswerNext ==
  ASSUME HtSound(chains')
  PROVE  HtTable' = HtMap(chains')
<1>1. \A k \in TableKeys : chains'[TableBucket[k]] \in HtChain
  BY HtConstants DEF HtSound
<1>2. Hash!Held' = {j \in TableKeys : TbHas(chains'[TableBucket[j]], j)}
  <2>1. \A j : Hash!Places(j)' # {} <=> TbHas(chains'[TableBucket[j]], j)
    BY DEF Hash!Places, TbHas
  <2> QED
    BY <2>1 DEF Hash!Held
<1>3. \A k \in Hash!Held' :
        chains'[TableBucket[k]][Hash!Min(Hash!Places(k)')][2] = TbVal(chains'[TableBucket[k]], k)
  <2> SUFFICES ASSUME NEW k \in Hash!Held'
               PROVE  chains'[TableBucket[k]][Hash!Min(Hash!Places(k)')][2] = TbVal(chains'[TableBucket[k]], k)
    OBVIOUS
  <2>1. k \in TableKeys /\ Hash!Places(k)' # {}
    BY DEF Hash!Held
  <2>2. PICK P : P = Hash!Places(k)'
    OBVIOUS
  <2>3. P = {i \in DOMAIN chains'[TableBucket[k]] : chains'[TableBucket[k]][i][1] = k}
    BY <2>2 DEF Hash!Places
  <2> QED
    BY <1>1, <2>1, <2>2, <2>3, HtPlaces
<1> QED
  BY <1>2, <1>3 DEF HtMap, HtTable

LEMMA HtStarts == Hash!Init => HtInv /\ Hash!Map!Init
<1> SUFFICES ASSUME Hash!Init PROVE HtInv /\ Hash!Map!Init
  OBVIOUS
<1>1. HtSound(chains)
  <2>1. <<>> \in HtChain /\ TbOnce(<<>>)
    BY DEF HtChain, TbOnce
  <2> QED
    BY <2>1 DEF Hash!Init, HtSound
<1>2. \A k \in TableKeys : ~TbHas(chains[TableBucket[k]], k)
  BY HtConstants DEF Hash!Init, TbHas
<1>3. HtMap(chains) = <<>>
  BY <1>2 DEF HtMap
<1>4. HtTable = <<>>
  BY <1>1, <1>3, HtAnswer
<1> QED
  BY <1>1, <1>4 DEF HtInv, HtTable, Hash!Map!Init, Hash!Init

\* One chain changed: a pair put in, or taken out.
HtOne(B, D, k) ==
  \A b \in 0 .. TABLE_SIZE - 1 : b # TableBucket[k] => D[b] = B[b]

TbGoneMap(m, n, k) == n = [j \in DOMAIN m \ {k} |-> m[j]]

LEMMA HtPuts ==
  ASSUME NEW B, NEW D, NEW k \in TableKeys, NEW v, HtOne(B, D, k),
         TbPut(B[TableBucket[k]], D[TableBucket[k]], k, v)
  PROVE  TbPutMap(HtMap(B), HtMap(D), k, v)
<1>1. \A j \in TableKeys : TbHas(D[TableBucket[j]], j) <=> j = k \/ TbHas(B[TableBucket[j]], j)
  BY HtConstants DEF TbPut, HtOne
<1>2. DOMAIN HtMap(D) = DOMAIN HtMap(B) \cup {k}
  BY <1>1 DEF HtMap
<1>3. TbVal(D[TableBucket[k]], k) = v
  BY DEF TbPut
<1>4. \A j \in DOMAIN HtMap(B) : j # k =>
        TbVal(D[TableBucket[j]], j) = TbVal(B[TableBucket[j]], j)
  BY HtConstants DEF TbPut, HtMap, HtOne
<1>5. ASSUME NEW j \in DOMAIN HtMap(B) \cup {k}
      PROVE  HtMap(D)[j] = IF j = k THEN v ELSE HtMap(B)[j]
  BY <1>2, <1>3, <1>4 DEF HtMap
<1>6. HtMap(D) = [j \in DOMAIN HtMap(D) |-> HtMap(D)[j]]
  BY DEF HtMap
<1> QED
  BY <1>2, <1>5, <1>6 DEF TbPutMap

LEMMA HtRemoves ==
  ASSUME NEW B, NEW D, NEW k \in TableKeys, HtOne(B, D, k),
         TbGone(B[TableBucket[k]], D[TableBucket[k]], k)
  PROVE  TbGoneMap(HtMap(B), HtMap(D), k)
<1>1. \A j \in TableKeys : TbHas(D[TableBucket[j]], j) <=> j # k /\ TbHas(B[TableBucket[j]], j)
  BY HtConstants DEF TbGone, HtOne
<1>2. DOMAIN HtMap(D) = DOMAIN HtMap(B) \ {k}
  BY <1>1 DEF HtMap
<1>3. \A j \in DOMAIN HtMap(B) : j # k =>
        TbVal(D[TableBucket[j]], j) = TbVal(B[TableBucket[j]], j)
  BY HtConstants DEF TbGone, HtMap, HtOne
<1>4. ASSUME NEW j \in DOMAIN HtMap(B) \ {k}
      PROVE  HtMap(D)[j] = HtMap(B)[j]
  BY <1>2, <1>3 DEF HtMap
<1>5. HtMap(D) = [j \in DOMAIN HtMap(D) |-> HtMap(D)[j]]
  BY DEF HtMap
<1> QED
  BY <1>2, <1>4, <1>5 DEF TbGoneMap

HtSteps == HtInv' /\ Hash!Map!Step

\* The chain of k replaced by d.
LEMMA HtReplaced ==
  ASSUME HtInv, NEW k \in TableKeys, NEW d \in HtChain, TbOnce(d),
         chains' = [chains EXCEPT ![TableBucket[k]] = d]
  PROVE  HtInv' /\ HtOne(chains, chains', k) /\ chains'[TableBucket[k]] = d
<1>1. PICK b \in 0 .. TABLE_SIZE - 1 : b = TableBucket[k]
  BY HtConstants
<1>2. chains \in [0 .. TABLE_SIZE - 1 -> HtChain] /\ chains' = [chains EXCEPT ![b] = d]
  BY <1>1 DEF HtInv, HtSound
<1>3. /\ chains' \in [0 .. TABLE_SIZE - 1 -> HtChain] /\ chains'[b] = d
      /\ \A x \in 0 .. TABLE_SIZE - 1 : x # b => chains'[x] = chains[x]
  BY <1>2
<1>4. \A x \in 0 .. TABLE_SIZE - 1 : TbOnce(chains'[x])
  BY <1>3 DEF HtInv, HtSound
<1> QED
  BY <1>1, <1>3, <1>4 DEF HtInv, HtSound, HtOne

LEMMA HtInserts ==
  ASSUME HtInv, NEW k \in TableKeys, NEW v \in TableValues, Hash!insert(k, v)
  PROVE  HtSteps
<1>1. PICK c : c = chains[TableBucket[k]]
  OBVIOUS
<1>2. c \in HtChain /\ TbOnce(c)
  BY <1>1, HtConstants DEF HtInv, HtSound
<1>3. PICK P : P = {i \in DOMAIN c : c[i][1] = k}
  OBVIOUS
<1>4. Hash!Places(k) = P
  BY <1>1, <1>3 DEF Hash!Places
<1>5. PICK d : d = IF P = {} THEN Append(c, <<k, v>>) ELSE [c EXCEPT ![Len(c)] = <<k, v>>]
  OBVIOUS
<1>6. /\ \A i \in P : i = Len(c)
      /\ chains' = [chains EXCEPT ![TableBucket[k]] = d]
      /\ hashLast' = <<"put", k, v>>
  BY <1>1, <1>4, <1>5 DEF Hash!insert
<1>7. d \in HtChain /\ TbOnce(d) /\ TbPut(c, d, k, v)
  <2>1. CASE P = {}
    <3>1. d = Append(c, <<k, v>>) /\ ~TbHas(c, k)
      BY <1>3, <1>5, <2>1 DEF TbHas
    <3>2. TbPut(c, d, k, v)
      BY <1>2, <3>1, TbAppend DEF HtChain
    <3>3. /\ d \in HtChain /\ DOMAIN d = 1 .. Len(c) + 1 /\ d[Len(c) + 1] = <<k, v>>
          /\ \A i \in DOMAIN c : d[i] = c[i]
          /\ DOMAIN c = 1 .. Len(c) /\ Len(c) \in Nat
      BY <1>2, <3>1 DEF HtChain
    <3>4. \A i \in DOMAIN d : i \in DOMAIN c \/ i = Len(c) + 1
      BY <3>3
    <3>5. \A i \in DOMAIN c : c[i][1] # k
      BY <3>1 DEF TbHas
    <3>6. TbOnce(d)
      BY <1>2, <3>3, <3>4, <3>5 DEF TbOnce
    <3> QED
      BY <3>2, <3>3, <3>6
  <2>2. CASE P # {}
    <3>1. PICK i \in P : i = Len(c)
      BY <1>6, <2>2
    <3>2. i \in DOMAIN c /\ c[i][1] = k /\ d = [c EXCEPT ![i] = <<k, v>>]
      BY <1>3, <1>5, <2>2, <3>1
    <3>3. TbAt(c, k, i)
      BY <1>2, <3>2 DEF TbAt, TbOnce, HtChain
    <3>4. TbPut(c, d, k, v)
      BY <1>2, <3>2, <3>3, TbReplace DEF HtChain
    <3>5. d \in HtChain /\ DOMAIN d = DOMAIN c /\ \A j \in DOMAIN c : d[j][1] = c[j][1]
      BY <1>2, <3>2 DEF HtChain
    <3> QED
      BY <1>2, <3>4, <3>5 DEF TbOnce
  <2> QED
    BY <2>1, <2>2
<1>8. HtInv' /\ HtOne(chains, chains', k) /\ chains'[TableBucket[k]] = d
  BY <1>6, <1>7, HtReplaced
<1>9. TbPut(chains[TableBucket[k]], chains'[TableBucket[k]], k, v)
  BY <1>1, <1>7, <1>8
<1>10. TbPutMap(HtMap(chains), HtMap(chains'), k, v)
  BY <1>8, <1>9, HtPuts
<1>11. HtTable = HtMap(chains) /\ HtTable' = HtMap(chains')
  BY <1>8, HtAnswer, HtAnswerNext DEF HtInv
<1>12. Hash!Map!Put(k, v)
  BY <1>6, <1>10, <1>11 DEF Hash!Map!Put, TbPutMap, HtTable
<1>13. Hash!Map!Next
  BY <1>12 DEF Hash!Map!Next
<1> QED
  BY <1>8, <1>13 DEF HtSteps, Hash!Map!Step

LEMMA HtDeletes ==
  ASSUME HtInv, NEW k \in TableKeys, Hash!delete(k)
  PROVE  HtSteps
<1>1. PICK c : c = chains[TableBucket[k]]
  OBVIOUS
<1>2. c \in HtChain /\ TbOnce(c)
  BY <1>1, HtConstants DEF HtInv, HtSound
<1>3. PICK P : P = {i \in DOMAIN c : c[i][1] = k}
  OBVIOUS
<1>4. Hash!Places(k) = P
  BY <1>1, <1>3 DEF Hash!Places
<1>5. PICK d : d = IF P = {} THEN c ELSE Hash!RemoveAt(c, Hash!Min(P))
  OBVIOUS
<1>6. /\ chains' = [chains EXCEPT ![TableBucket[k]] = d]
      /\ hashLast' = <<"remove", k, -1>>
  BY <1>1, <1>4, <1>5 DEF Hash!delete, Hash!Missing
<1>7. d \in HtChain /\ TbOnce(d) /\ TbGone(c, d, k)
  <2>1. CASE P = {}
    <3>1. d = c /\ ~TbHas(c, k)
      BY <1>3, <1>5, <2>1 DEF TbHas
    <3> QED
      BY <1>2, <3>1 DEF TbGone
  <2>2. CASE P # {}
    <3>1. PICK i : i = Hash!Min(P)
      OBVIOUS
    <3>2. TbAt(c, k, i) /\ d = Hash!RemoveAt(c, i)
      BY <1>2, <1>3, <1>5, <2>2, <3>1, HtPlaces
    <3> QED
      BY <1>2, <3>2, TbRemove DEF HtChain
  <2> QED
    BY <2>1, <2>2
<1>8. HtInv' /\ HtOne(chains, chains', k) /\ chains'[TableBucket[k]] = d
  BY <1>6, <1>7, HtReplaced
<1>9. TbGone(chains[TableBucket[k]], chains'[TableBucket[k]], k)
  BY <1>1, <1>7, <1>8
<1>10. TbGoneMap(HtMap(chains), HtMap(chains'), k)
  BY <1>8, <1>9, HtRemoves
<1>11. HtTable = HtMap(chains) /\ HtTable' = HtMap(chains')
  BY <1>8, HtAnswer, HtAnswerNext DEF HtInv
<1>12. Hash!Map!Remove(k)
  BY <1>6, <1>10, <1>11 DEF Hash!Map!Remove, TbGoneMap, HtTable, Hash!Missing
<1>13. Hash!Map!Next
  BY <1>12 DEF Hash!Map!Next
<1> QED
  BY <1>8, <1>13 DEF HtSteps, Hash!Map!Step

LEMMA HtSearches ==
  ASSUME HtInv, NEW k \in TableKeys, Hash!search(k)
  PROVE  HtSteps
<1>1. PICK c : c = chains[TableBucket[k]]
  OBVIOUS
<1>2. c \in HtChain /\ TbOnce(c)
  BY <1>1, HtConstants DEF HtInv, HtSound
<1>3. PICK P : P = {i \in DOMAIN c : c[i][1] = k}
  OBVIOUS
<1>4. Hash!Places(k) = P
  BY <1>1, <1>3 DEF Hash!Places
<1>5. PICK a : a = IF P = {} THEN -1 ELSE c[Hash!Min(P)][2]
  OBVIOUS
<1>6. chains' = chains /\ hashLast' = <<"ask", k, a>>
  BY <1>1, <1>4, <1>5 DEF Hash!search, Hash!Missing
<1>7. HtInv' /\ HtTable = HtMap(chains) /\ HtTable' = HtMap(chains)
  BY <1>6, HtAnswer, HtAnswerNext DEF HtInv
<1>8. a = IF k \in DOMAIN HtMap(chains) THEN HtMap(chains)[k] ELSE -1
  <2>1. k \in DOMAIN HtMap(chains) <=> TbHas(c, k)
    BY <1>1 DEF HtMap
  <2>2. P = {} <=> ~TbHas(c, k)
    BY <1>2, <1>3, HtPlaces
  <2>3. CASE P # {}
    <3>1. HtMap(chains)[k] = TbVal(c, k)
      BY <1>1, <2>2, <2>3 DEF HtMap
    <3>2. a = TbVal(c, k)
      BY <1>2, <1>3, <1>5, <2>3, HtPlaces
    <3> QED
      BY <2>1, <2>2, <2>3, <3>1, <3>2
  <2>4. CASE P = {}
    BY <1>5, <2>1, <2>2, <2>4
  <2> QED
    BY <2>3, <2>4
<1>9. Hash!Map!Ask(k)
  BY <1>6, <1>7, <1>8 DEF Hash!Map!Ask, HtTable, Hash!Missing
<1>10. Hash!Map!Next
  BY <1>9 DEF Hash!Map!Next
<1> QED
  BY <1>7, <1>10 DEF HtSteps, Hash!Map!Step

\* Every call is one of the map's, or changes nothing of it.
LEMMA HtStep ==
  ASSUME HtInv, Hash!Next \/ UNCHANGED chained
  PROVE  HtInv' /\ Hash!Map!Step
<1>1. ASSUME chains' = chains, hashLast' = hashLast
      PROVE  HtSteps
  <2>1. HtInv'
    BY <1>1 DEF HtInv
  <2>2. HtTable' = HtTable
    BY <1>1, <2>1, HtAnswer, HtAnswerNext DEF HtInv
  <2> QED
    BY <1>1, <2>1, <2>2 DEF HtSteps, HtTable, Hash!Map!Step
<1>2. CASE UNCHANGED chained
  BY <1>1, <1>2 DEF chained, HtSteps
<1>3. CASE Hash!Next
  <2>1. PICK k \in TableKeys : \/ Hash!search(k) \/ Hash!delete(k)
                               \/ \E v \in TableValues : Hash!insert(k, v) \/ Hash!insertFreed(k, v)
    BY <1>3 DEF Hash!Next
  <2>2. ASSUME Hash!search(k) PROVE HtSteps
    BY <2>2, HtSearches
  <2>3. ASSUME Hash!delete(k) PROVE HtSteps
    BY <2>3, HtDeletes
  <2>4. ASSUME NEW v \in TableValues, Hash!insert(k, v)
        PROVE  HtSteps
    BY <2>4, HtInserts
  <2>5. ASSUME NEW v \in TableValues, Hash!insertFreed(k, v)
        PROVE  HtSteps
    BY <1>1, <2>5 DEF Hash!insertFreed
  <2>6. HtSteps
    BY <2>1, <2>2, <2>3, <2>4, <2>5
  <2> QED
    BY <2>6 DEF HtSteps
<1> QED
  BY <1>2, <1>3
=============================================================================
