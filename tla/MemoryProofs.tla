---------------------------- MODULE MemoryProofs ----------------------------
(***************************************************************************)
(* The inductive invariants of the memory tracker, the memory pool, the    *)
(* page manager and the caches, for any numbers of pages, buffers, blocks, *)
(* files and keys and any addresses, sizes and pool, and the proofs that   *)
(* every step keeps them.                                                  *)
(***************************************************************************)
EXTENDS MemoryCore, Integers, Sequences, FiniteSets, FiniteSetTheorems, SequenceTheorems, WellFoundedInduction, TLAPS

\* A set of numbers has a least one.
LEMMA LeastNumber ==
  ASSUME NEW T, T \subseteq Nat, T # {}
  PROVE  \E x \in T : \A y \in T : x <= y
<1>1. \A x, y \in Nat : <<y, x>> \in OpToRel(<, Nat) <=> y < x
  BY DEF OpToRel
<1>2. PICK R : IsWellFoundedOn(R, Nat) /\ \A x, y \in Nat : <<y, x>> \in R <=> y < x
  BY <1>1, NatLessThanWellFounded, Zenon
<1>3. PICK x \in T : \A y \in T : ~(<<y, x>> \in R)
  BY <1>2, WFMin
<1>4. ASSUME NEW y \in T
      PROVE  x <= y
  <2>1. x \in Nat /\ y \in Nat /\ ~(y < x)
    BY <1>2, <1>3
  <2> QED
    BY <2>1
<1> QED
  BY <1>4
-----------------------------------------------------------------------------
(* The memory tracker.                                                     *)

TkNode == [address : Addresses, size : Sizes, is_freed : BOOLEAN]
TkActive(b) == b.is_freed = FALSE

TkTypes ==
  /\ heap \in [Addresses -> Sizes \cup {0}] /\ nodes \in Seq(TkNode)
  /\ ptrs \in Seq(Addresses \cup {0}) /\ running \in BOOLEAN
  /\ untracked \subseteq {a \in Addresses : heap[a] # 0}

\* A node that is not freed has the size of what is allocated and is the first
\* of its address, and there is one for everything that is allocated, unless it
\* could not be made.
TkSound(list, hp, lost) ==
  /\ \A i \in 1 .. Len(list) : TkActive(list[i]) =>
       /\ hp[list[i].address] = list[i].size /\ list[i].address \notin lost
       /\ \A j \in 1 .. Len(list) : j < i => list[j].address # list[i].address
  /\ \A a \in Addresses : hp[a] # 0 /\ a \notin lost =>
       \E i \in 1 .. Len(list) : TkActive(list[i]) /\ list[i].address = a

TkHeld ==
  \A i, j \in 1 .. Len(ptrs) :
    ptrs[i] # 0 => heap[ptrs[i]] # 0 /\ (ptrs[i] = ptrs[j] => i = j)

TkInv == TkTypes /\ TkHeld /\ (running => TkSound(nodes, heap, untracked))

LEMMA TkConstants ==
  /\ Addresses \subseteq Nat \ {0} /\ Sizes \subseteq Nat \ {0} /\ 0 \notin Addresses /\ 0 \notin Sizes
  /\ Tracker!NULL = 0
BY MemoryAssumption DEF Tracker!ConstantsOK, Tracker!NULL

\* The list with a new node in front.
TkCons(a, size, list) == <<[address |-> a, size |-> size, is_freed |-> FALSE]>> \o list

\* AddAllocation for memory that was free: with a node, or without.
LEMMA TkAdd ==
  ASSUME NEW list \in Seq(TkNode), NEW hp \in [Addresses -> Sizes \cup {0}], NEW lost,
         TkSound(list, hp, lost), NEW a \in Addresses, NEW size \in Sizes, hp[a] = 0,
         NEW hp2, hp2 = [hp EXCEPT ![a] = size],
         NEW list2, list2 = TkCons(a, size, list)
  PROVE  /\ list2 \in Seq(TkNode) /\ TkSound(list2, hp2, lost \ {a})
         /\ TkSound(list, hp2, lost \cup {a})
<1>1. PICK b : b = [address |-> a, size |-> size, is_freed |-> FALSE]
  OBVIOUS
<1>2. b \in TkNode /\ b.address = a /\ b.size = size /\ TkActive(b)
  BY <1>1 DEF TkNode, TkActive
<1>3. PICK n : n = Len(list) /\ n \in Nat
  BY LenProperties
<1>4. /\ list2 \in Seq(TkNode) /\ Len(list2) = n + 1 /\ list2[1] = b
      /\ \A i \in 1 .. n : list2[i + 1] = list[i]
  <2>1. <<b>> \in Seq(TkNode) /\ Len(<<b>>) = 1 /\ <<b>>[1] = b
    BY <1>2
  <2>2. PICK c : c = <<b>>
    OBVIOUS
  <2>3. c \in Seq(TkNode) /\ Len(c) = 1 /\ c[1] = b /\ list2 = c \o list
    BY <1>1, <2>1, <2>2 DEF TkCons
  <2>4. /\ list2 \in Seq(TkNode) /\ Len(list2) = 1 + n
        /\ \A i \in 1 .. 1 + n : list2[i] = IF i <= 1 THEN c[i] ELSE list[i - 1]
    <3>1. /\ c \o list \in Seq(TkNode) /\ Len(c \o list) = Len(c) + Len(list)
          /\ \A i \in 1 .. Len(c) + Len(list) :
               (c \o list)[i] = IF i <= Len(c) THEN c[i] ELSE list[i - Len(c)]
      BY <2>3, ConcatProperties
    <3> QED
      BY <1>3, <2>3, <3>1
  <2>5. ASSUME NEW i \in 1 .. n PROVE list2[i + 1] = list[i]
    <3>1. i + 1 \in 1 .. 1 + n /\ ~(i + 1 <= 1) /\ i + 1 - 1 = i
      BY <1>3
    <3> QED
      BY <2>4, <3>1
  <2>6. 1 \in 1 .. 1 + n /\ 1 <= 1 /\ 1 + n = n + 1
    BY <1>3
  <2> QED
    BY <2>3, <2>4, <2>5, <2>6
<1>5. \A i \in 1 .. n : list[i] \in TkNode /\ list[i].address \in Addresses /\ list[i].size \in Sizes
  <2>1. \A i \in 1 .. n : list[i] \in TkNode
    BY <1>3, ElementOfSeq
  <2> QED
    BY <2>1 DEF TkNode
<1>6. /\ \A i \in 1 .. n : TkActive(list[i]) =>
           /\ hp[list[i].address] = list[i].size /\ list[i].address \notin lost
           /\ \A j \in 1 .. n : j < i => list[j].address # list[i].address
      /\ \A x \in Addresses : hp[x] # 0 /\ x \notin lost =>
           \E i \in 1 .. n : TkActive(list[i]) /\ list[i].address = x
  BY <1>3 DEF TkSound
<1>7. \A i \in 1 .. n : TkActive(list[i]) => list[i].address # a
  BY <1>5, <1>6, TkConstants
<1>8. \A x \in Addresses : hp2[x] = IF x = a THEN size ELSE hp[x]
  OBVIOUS
<1>9. TkSound(list, hp2, lost \cup {a})
  <2>1. \A i \in 1 .. n : TkActive(list[i]) =>
          /\ hp2[list[i].address] = list[i].size /\ list[i].address \notin lost \cup {a}
          /\ \A j \in 1 .. n : j < i => list[j].address # list[i].address
    BY <1>5, <1>6, <1>7, <1>8
  <2>2. \A x \in Addresses : hp2[x] # 0 /\ x \notin lost \cup {a} =>
          \E i \in 1 .. n : TkActive(list[i]) /\ list[i].address = x
    BY <1>6, <1>8
  <2> QED
    BY <1>3, <2>1, <2>2 DEF TkSound
<1>10. TkSound(list2, hp2, lost \ {a})
  <2>1. ASSUME NEW k \in 1 .. n + 1, TkActive(list2[k])
        PROVE  /\ hp2[list2[k].address] = list2[k].size /\ list2[k].address \notin lost \ {a}
               /\ \A j \in 1 .. n + 1 : j < k => list2[j].address # list2[k].address
    <3>1. CASE k = 1
      <4>1. \A j \in 1 .. n + 1 : ~(j < k)
        BY <1>3, <3>1
      <4> QED
        BY <1>2, <1>4, <1>8, <3>1, <4>1
    <3>2. CASE k # 1
      <4>1. PICK i : i = k - 1 /\ i \in 1 .. n /\ k = i + 1
        BY <1>3, <3>2
      <4>2. list2[k] = list[i] /\ TkActive(list[i]) /\ list[i].address # a
        BY <1>4, <1>7, <2>1, <4>1
      <4>3. hp2[list2[k].address] = list2[k].size /\ list2[k].address \notin lost \ {a}
        <5>1. PICK x : x = list[i].address
          OBVIOUS
        <5>2. x \in Addresses /\ hp[x] = list[i].size /\ x \notin lost /\ x # a
          BY <1>5, <1>6, <4>1, <4>2, <5>1
        <5>3. hp2[x] = hp[x]
          BY <1>8, <5>2
        <5> QED
          BY <4>2, <5>1, <5>2, <5>3
      <4>4. ASSUME NEW j \in 1 .. n + 1, j < k PROVE list2[j].address # list2[k].address
        <5>1. CASE j = 1
          BY <1>2, <1>4, <4>2, <5>1
        <5>2. CASE j # 1
          <6>1. PICK l : l = j - 1 /\ l \in 1 .. n /\ j = l + 1 /\ l < i
            BY <1>3, <4>1, <4>4, <5>2
          <6> QED
            <7>1. list2[j] = list[l] /\ list2[k] = list[i]
              BY <1>4, <4>2, <6>1
            <7>2. list[l].address # list[i].address
              BY <1>6, <4>1, <4>2, <6>1
            <7> QED
              BY <7>1, <7>2
        <5> QED
          BY <5>1, <5>2
      <4> QED
        BY <4>3, <4>4
    <3> QED
      BY <3>1, <3>2
  <2>2. ASSUME NEW x \in Addresses, hp2[x] # 0, x \notin lost \ {a}
        PROVE  \E k \in 1 .. n + 1 : TkActive(list2[k]) /\ list2[k].address = x
    <3>1. CASE x = a
      <4>1. 1 \in 1 .. n + 1
        BY <1>3
      <4> QED
        BY <1>2, <1>4, <3>1, <4>1
    <3>2. CASE x # a
      <4>1. PICK i \in 1 .. n : TkActive(list[i]) /\ list[i].address = x
        BY <1>6, <1>8, <2>2, <3>2
      <4>2. i + 1 \in 1 .. n + 1
        BY <1>3
      <4> QED
        BY <1>4, <4>1, <4>2
    <3> QED
      BY <3>1, <3>2
  <2>3. Len(list2) = n + 1
    BY <1>4
  <2> QED
    BY ONLY <2>1, <2>2, <2>3 DEF TkSound
<1> QED
  BY <1>4, <1>9, <1>10

\* The first node of an address is marked when its memory goes.
LEMMA TkMark ==
  ASSUME NEW list \in Seq(TkNode), NEW hp \in [Addresses -> Sizes \cup {0}], NEW lost,
         TkSound(list, hp, lost), NEW a \in Addresses, NEW hp2, hp2 = [hp EXCEPT ![a] = 0],
         NEW n \in 1 .. Len(list), list[n].address = a,
         \A j \in 1 .. Len(list) : j < n => list[j].address # a,
         NEW list2, list2 = [list EXCEPT ![n].is_freed = TRUE]
  PROVE  list2 \in Seq(TkNode) /\ TkSound(list2, hp2, lost \ {a})
<1>1. PICK l : l = Len(list) /\ l \in Nat /\ DOMAIN list = 1 .. l
  BY LenProperties
<1>2. PICK b : b = [list[n] EXCEPT !.is_freed = TRUE]
  OBVIOUS
<1>3. \A i \in 1 .. l : list[i] \in TkNode /\ list[i].address \in Addresses /\ list[i].size \in Sizes
  <2>1. \A i \in 1 .. l : list[i] \in TkNode
    BY <1>1, ElementOfSeq
  <2> QED
    BY <2>1 DEF TkNode
<1>4. b \in TkNode /\ b.address = a /\ ~TkActive(b)
  BY <1>1, <1>2, <1>3 DEF TkNode, TkActive
<1>5. list2 = [list EXCEPT ![n] = b]
  BY <1>2
<1>6. /\ list2 \in Seq(TkNode) /\ Len(list2) = l
      /\ \A i \in 1 .. l : list2[i] = IF i = n THEN b ELSE list[i]
  <2>1. /\ [list EXCEPT ![n] = b] \in Seq(TkNode) /\ Len([list EXCEPT ![n] = b]) = Len(list)
        /\ \A i \in 1 .. Len(list) : [list EXCEPT ![n] = b][i] = IF i = n THEN b ELSE list[i]
    BY <1>4, ExceptSeq
  <2> QED
    BY <1>1, <1>5, <2>1
<1>7. /\ \A i \in 1 .. l : TkActive(list[i]) =>
           /\ hp[list[i].address] = list[i].size /\ list[i].address \notin lost
           /\ \A j \in 1 .. l : j < i => list[j].address # list[i].address
      /\ \A x \in Addresses : hp[x] # 0 /\ x \notin lost =>
           \E i \in 1 .. l : TkActive(list[i]) /\ list[i].address = x
  BY <1>1 DEF TkSound
<1>8. \A x \in Addresses : hp2[x] = IF x = a THEN 0 ELSE hp[x]
  OBVIOUS
<1>9. ASSUME NEW i \in 1 .. l, i # n, TkActive(list[i]) PROVE list[i].address # a
  <2>1. n \in 1 .. l /\ (n < i \/ i < n)
    BY <1>1, <1>9
  <2> QED
    BY <1>1, <1>7, <1>9, <2>1
<1>10. ASSUME NEW i \in 1 .. l, TkActive(list2[i])
       PROVE  /\ hp2[list2[i].address] = list2[i].size /\ list2[i].address \notin lost \ {a}
              /\ \A j \in 1 .. l : j < i => list2[j].address # list2[i].address
  <2>1. i # n /\ list2[i] = list[i] /\ TkActive(list[i]) /\ list[i].address # a
    BY <1>4, <1>6, <1>9, <1>10
  <2>2. hp2[list2[i].address] = list2[i].size /\ list2[i].address \notin lost \ {a}
    BY <1>3, <1>7, <1>8, <2>1
  <2>3. \A j \in 1 .. l : list2[j].address = list[j].address
    BY <1>4, <1>6
  <2> QED
    BY <1>7, <2>1, <2>2, <2>3
<1>11. ASSUME NEW x \in Addresses, hp2[x] # 0, x \notin lost \ {a}
       PROVE  \E i \in 1 .. l : TkActive(list2[i]) /\ list2[i].address = x
  <2>1. x # a /\ hp[x] # 0 /\ x \notin lost
    BY <1>8, <1>11
  <2>2. PICK i \in 1 .. l : TkActive(list[i]) /\ list[i].address = x
    BY <1>7, <2>1
  <2> QED
    BY <1>6, <2>1, <2>2
<1> QED
  BY <1>6, <1>10, <1>11 DEF TkSound

\* Memory without a node goes.
LEMMA TkForget ==
  ASSUME NEW list \in Seq(TkNode), NEW hp \in [Addresses -> Sizes \cup {0}], NEW lost,
         TkSound(list, hp, lost), NEW a \in Addresses, NEW hp2, hp2 = [hp EXCEPT ![a] = 0],
         \A j \in 1 .. Len(list) : list[j].address # a
  PROVE  TkSound(list, hp2, lost \ {a})
<1>1. PICK l : l = Len(list) /\ l \in Nat
  BY LenProperties
<1>2. \A i \in 1 .. l : list[i].address \in Addresses
  <2>1. \A i \in 1 .. l : list[i] \in TkNode
    BY <1>1, ElementOfSeq
  <2> QED
    BY <2>1 DEF TkNode
<1>3. \A x \in Addresses : hp2[x] = IF x = a THEN 0 ELSE hp[x]
  OBVIOUS
<1> QED
  BY <1>1, <1>2, <1>3 DEF TkSound

\* FindeValue finds the first node of an address, if there is one.
LEMMA TkFind ==
  ASSUME nodes \in Seq(TkNode), NEW a, NEW n, n = Tracker!FindeValue(a)
  PROVE  \/ n = 0 /\ \A j \in 1 .. Len(nodes) : nodes[j].address # a
         \/ /\ n # 0 /\ n \in 1 .. Len(nodes) /\ nodes[n].address = a
            /\ \A j \in 1 .. Len(nodes) : j < n => nodes[j].address # a
<1>1. PICK T : T = Tracker!Matches(a)
  OBVIOUS
<1>2. T = {i \in 1 .. Len(nodes) : nodes[i].address = a} /\ Len(nodes) \in Nat
  BY <1>1, LenProperties DEF Tracker!Matches
<1>3. n = IF T = {} THEN 0 ELSE Tracker!Min(T)
  BY <1>1 DEF Tracker!FindeValue
<1>4. CASE T = {}
  BY <1>2, <1>3, <1>4
<1>5. CASE T # {}
  <2>1. T \subseteq Nat
    BY <1>2
  <2>2. \E x \in T : \A y \in T : x <= y
    BY <1>5, <2>1, LeastNumber
  <2>3. Tracker!Min(T) \in T /\ \A y \in T : Tracker!Min(T) <= y
    BY <2>2 DEF Tracker!Min
  <2>4. n \in T /\ \A y \in T : n <= y
    BY <1>3, <1>5, <2>3
  <2>5. n # 0 /\ n \in 1 .. Len(nodes) /\ nodes[n].address = a
    BY <1>2, <2>4
  <2>6. ASSUME NEW j \in 1 .. Len(nodes), j < n PROVE nodes[j].address # a
    <3>1. j \in T => n <= j
      BY <2>4
    <3>2. ~(n <= j)
      BY <2>5, <2>6
    <3> QED
      BY <1>2, <3>1, <3>2
  <2> QED
    BY <2>5, <2>6
<1> QED
  BY <1>4, <1>5

LEMMA TkStarts == Tracker!Init => TkInv
<1> SUFFICES ASSUME Tracker!Init PROVE TkInv
  OBVIOUS
<1>1. /\ heap = [a \in Addresses |-> 0] /\ nodes = <<>> /\ ptrs = <<>>
      /\ running = TRUE /\ untracked = {}
  BY DEF Tracker!Init
<1>2. TkTypes
  BY <1>1 DEF TkTypes
<1>3. Len(nodes) = 0 /\ Len(ptrs) = 0
  BY <1>1
<1>4. TkHeld
  BY <1>3 DEF TkHeld
<1>5. TkSound(nodes, heap, untracked)
  BY <1>1, <1>3 DEF TkSound
<1> QED
  BY <1>2, <1>4, <1>5 DEF TkInv

\* What main's pointers need: where there was nothing there is one pointer now.
LEMMA TkPtrs ==
  ASSUME TkTypes, TkHeld, NEW i \in 1 .. Len(ptrs), ptrs[i] # 0, NEW v \in Addresses \cup {0},
         ptrs' = [ptrs EXCEPT ![i] = v], heap' \in [Addresses -> Sizes \cup {0}],
         v # 0 => heap'[v] # 0 /\ (v = ptrs[i] \/ heap[v] = 0),
         \A a \in Addresses : a # ptrs[i] /\ heap[a] # 0 => heap'[a] # 0
  PROVE  ptrs' \in Seq(Addresses \cup {0}) /\ TkHeld'
<1>1. PICK l : l = Len(ptrs) /\ l \in Nat /\ i \in 1 .. l
  BY LenProperties DEF TkTypes
<1>2. \A k \in 1 .. l : ptrs[k] \in Addresses \cup {0}
  BY <1>1, ElementOfSeq DEF TkTypes
<1>3. PICK q : q = ptrs'
  OBVIOUS
<1>4. /\ q \in Seq(Addresses \cup {0}) /\ Len(q) = l
      /\ \A k \in 1 .. l : q[k] = IF k = i THEN v ELSE ptrs[k]
  <2>1. PICK S : S = Addresses \cup {0}
    OBVIOUS
  <2>2. ptrs \in Seq(S) /\ v \in S
    BY <2>1 DEF TkTypes
  <2>3. /\ [ptrs EXCEPT ![i] = v] \in Seq(S) /\ Len([ptrs EXCEPT ![i] = v]) = Len(ptrs)
        /\ \A k \in 1 .. Len(ptrs) : [ptrs EXCEPT ![i] = v][k] = IF k = i THEN v ELSE ptrs[k]
    BY <2>2, ExceptSeq
  <2> QED
    BY <1>1, <1>3, <2>1, <2>3
<1>5. \A j, k \in 1 .. l : ptrs[j] # 0 => heap[ptrs[j]] # 0 /\ (ptrs[j] = ptrs[k] => j = k)
  BY <1>1 DEF TkHeld
<1>6. ASSUME NEW j \in 1 .. l, NEW k \in 1 .. l, q[j] # 0
      PROVE  heap'[q[j]] # 0 /\ (q[j] = q[k] => j = k)
  <2>1. CASE j = i
    <3>1. q[j] = v
      BY <1>4, <2>1
    <3>2. ASSUME k # i PROVE q[k] # v
      <4>1. q[k] = ptrs[k]
        BY <1>4, <3>2
      <4>2. CASE ptrs[k] = 0
        BY <1>6, <3>1, <4>1, <4>2
      <4>3. CASE ptrs[k] # 0
        BY <1>1, <1>5, <1>6, <3>1, <3>2, <4>1, <4>3
      <4> QED
        BY <4>2, <4>3
    <3> QED
      BY <1>6, <2>1, <3>1, <3>2
  <2>2. CASE j # i
    <3>1. q[j] = ptrs[j] /\ ptrs[j] # 0 /\ ptrs[j] \in Addresses /\ heap[ptrs[j]] # 0
          /\ ptrs[j] # ptrs[i]
      BY <1>1, <1>2, <1>4, <1>5, <1>6, <2>2
    <3>2. heap'[q[j]] # 0
      BY <3>1
    <3>3. q[j] = q[k] => j = k
      <4>1. CASE k = i
        <5>1. q[k] = v
          BY <1>4, <4>1
        <5>2. v # ptrs[j]
          BY <3>1
        <5> QED
          BY <3>1, <5>1, <5>2
      <4>2. CASE k # i
        BY <1>4, <1>5, <3>1, <4>2
      <4> QED
        BY <4>1, <4>2
    <3> QED
      BY <3>2, <3>3
  <2> QED
    BY <2>1, <2>2
<1> QED
  BY <1>3, <1>4, <1>6 DEF TkHeld

\* A new entry of ptrs.
LEMMA TkPush ==
  ASSUME TkTypes, TkHeld, NEW v \in Addresses \cup {0},
         ptrs' = Append(ptrs, v), heap' \in [Addresses -> Sizes \cup {0}],
         v # 0 => heap'[v] # 0 /\ heap[v] = 0,
         \A a \in Addresses : heap[a] # 0 => heap'[a] # 0
  PROVE  ptrs' \in Seq(Addresses \cup {0}) /\ TkHeld'
<1>1. PICK l : l = Len(ptrs) /\ l \in Nat
  BY LenProperties DEF TkTypes
<1>2. \A k \in 1 .. l : ptrs[k] \in Addresses \cup {0}
  BY <1>1, ElementOfSeq DEF TkTypes
<1>3. PICK q : q = ptrs'
  OBVIOUS
<1>4. /\ q \in Seq(Addresses \cup {0}) /\ Len(q) = l + 1
      /\ \A k \in 1 .. l : q[k] = ptrs[k]
      /\ q[l + 1] = v
  <2>1. PICK S : S = Addresses \cup {0}
    OBVIOUS
  <2>2. ptrs \in Seq(S) /\ v \in S
    BY <2>1 DEF TkTypes
  <2>3. /\ Append(ptrs, v) \in Seq(S) /\ Len(Append(ptrs, v)) = Len(ptrs) + 1
        /\ \A k \in 1 .. Len(ptrs) : Append(ptrs, v)[k] = ptrs[k]
        /\ Append(ptrs, v)[Len(ptrs) + 1] = v
    BY <2>2, AppendProperties
  <2> QED
    BY <1>1, <1>3, <2>1, <2>3
<1>5. \A j, k \in 1 .. l : ptrs[j] # 0 => heap[ptrs[j]] # 0 /\ (ptrs[j] = ptrs[k] => j = k)
  BY <1>1 DEF TkHeld
<1>6. \A k \in 1 .. l + 1 : k = l + 1 \/ (k \in 1 .. l /\ k # l + 1)
  BY <1>1
<1>7. \A k \in 1 .. l : q[k] # 0 => q[k] # v
  BY <1>4, <1>5
<1>8. ASSUME NEW j \in 1 .. l + 1, NEW k \in 1 .. l + 1, q[j] # 0
      PROVE  heap'[q[j]] # 0 /\ (q[j] = q[k] => j = k)
  <2>1. CASE j = l + 1
    <3>1. q[j] = v
      BY <1>4, <2>1
    <3>2. k # j => q[k] # v
      BY <1>6, <1>7, <1>8, <2>1, <3>1
    <3> QED
      BY <1>8, <3>1, <3>2
  <2>2. CASE j \in 1 .. l
    <3>1. q[j] = ptrs[j] /\ ptrs[j] # 0 /\ ptrs[j] \in Addresses /\ heap[ptrs[j]] # 0
      BY <1>2, <1>4, <1>5, <1>8, <2>2
    <3>2. CASE k = l + 1
      BY <1>4, <1>7, <1>8, <2>2, <3>1, <3>2
    <3>3. CASE k \in 1 .. l
      BY <1>4, <1>5, <2>2, <3>1, <3>3
    <3> QED
      BY <1>6, <3>2, <3>3
  <2> QED
    BY <1>6, <2>1, <2>2
<1> QED
  BY <1>3, <1>4, <1>8 DEF TkHeld

LEMMA TkAllocate ==
  ASSUME TkInv, NEW a \in Addresses, NEW size \in Sizes, Tracker!Allocate(a, size)
  PROVE  TkInv'
<1>1. /\ heap \in [Addresses -> Sizes \cup {0}] /\ nodes \in Seq(TkNode)
      /\ untracked \subseteq {x \in Addresses : heap[x] # 0} /\ TkTypes /\ TkHeld
  BY DEF TkInv, TkTypes
<1>2. /\ running = TRUE /\ running' = TRUE /\ heap[a] = 0 /\ heap' = [heap EXCEPT ![a] = size]
      /\ ptrs' = Append(ptrs, a)
  BY <1>1 DEF Tracker!Allocate, Tracker!LogEvent, TkTypes
<1>3. size # 0 /\ a # 0
  BY TkConstants
<1>4. /\ heap' \in [Addresses -> Sizes \cup {0}] /\ heap'[a] = size
      /\ \A x \in Addresses : x # a => heap'[x] = heap[x]
  BY <1>1, <1>2
<1>5. TkSound(nodes, heap, untracked)
  BY <1>2 DEF TkInv
<1>6. PICK list : list = TkCons(a, size, nodes)
  OBVIOUS
<1>7. PICK hp : hp = heap'
  OBVIOUS
<1>8. /\ list \in Seq(TkNode) /\ TkSound(list, hp, untracked \ {a})
      /\ TkSound(nodes, hp, untracked \cup {a})
  <2>1. PICK lost : lost = untracked
    OBVIOUS
  <2>2. /\ a \in Addresses /\ size \in Sizes /\ nodes \in Seq(TkNode)
        /\ heap \in [Addresses -> Sizes \cup {0}] /\ heap[a] = 0 /\ TkSound(nodes, heap, lost)
        /\ hp = [heap EXCEPT ![a] = size]
    BY <1>1, <1>2, <1>5, <1>7, <2>1
  <2>3. /\ list \in Seq(TkNode) /\ TkSound(list, hp, lost \ {a})
        /\ TkSound(nodes, hp, lost \cup {a})
    BY ONLY <1>6, <2>2, TkAdd
  <2> QED
    BY <2>1, <2>3
<1>9. \/ nodes' = list /\ untracked' = untracked \ {a}
      \/ nodes' = nodes /\ untracked' = untracked \cup {a}
  BY <1>6 DEF Tracker!Allocate, Tracker!AddAllocation, TkCons
<1>10. nodes' \in Seq(TkNode) /\ TkSound(nodes', hp, untracked')
  BY <1>1, <1>8, <1>9
<1>11. untracked' \subseteq {x \in Addresses : heap'[x] # 0}
  BY <1>1, <1>3, <1>4, <1>9
<1>12. ptrs' \in Seq(Addresses \cup {0}) /\ TkHeld'
  <2>1. \A x \in Addresses : heap[x] # 0 => heap'[x] # 0
    BY <1>3, <1>4
  <2>2. heap'[a] # 0 /\ a \in Addresses \cup {0}
    BY <1>3, <1>4
  <2> QED
    BY <1>1, <1>2, <1>4, <2>1, <2>2, TkPush
<1> QED
  BY <1>2, <1>4, <1>7, <1>10, <1>11, <1>12 DEF TkInv, TkTypes

LEMMA TkNothing ==
  ASSUME TkInv, Tracker!AllocateNothing
  PROVE  TkInv'
<1>1. /\ TkTypes /\ TkHeld /\ running' = running /\ ptrs' = Append(ptrs, 0)
      /\ heap' = heap /\ nodes' = nodes /\ untracked' = untracked
  BY TkConstants DEF TkInv, Tracker!AllocateNothing, Tracker!LogEvent
<1>2. ptrs' \in Seq(Addresses \cup {0}) /\ TkHeld'
  <2>1. heap' \in [Addresses -> Sizes \cup {0}] /\ 0 \in Addresses \cup {0}
    BY <1>1 DEF TkTypes
  <2> QED
    BY <1>1, <2>1, TkPush
<1>3. TkTypes'
  BY <1>1, <1>2 DEF TkTypes
<1>4. running' => TkSound(nodes', heap', untracked')
  BY <1>1 DEF TkInv
<1> QED
  BY <1>2, <1>3, <1>4 DEF TkInv

LEMMA TkLose ==
  ASSUME TkInv, NEW i \in DOMAIN ptrs, Tracker!ReallocateNothing(i)
  PROVE  TkInv'
<1>1. /\ TkTypes /\ TkHeld /\ running' = running /\ ptrs' = [ptrs EXCEPT ![i] = 0]
      /\ heap' = heap /\ nodes' = nodes /\ untracked' = untracked /\ ptrs[i] # 0
  BY TkConstants DEF TkInv, Tracker!ReallocateNothing, Tracker!LogEvent
<1>2. ptrs' \in Seq(Addresses \cup {0}) /\ TkHeld'
  <2>1. heap' \in [Addresses -> Sizes \cup {0}] /\ 0 \in Addresses \cup {0} /\ i \in 1 .. Len(ptrs)
    BY <1>1, LenProperties DEF TkTypes
  <2>2. \A a \in Addresses : a # ptrs[i] /\ heap[a] # 0 => heap'[a] # 0
    BY <1>1
  <2> QED
    BY ONLY <1>1, <2>1, <2>2, TkPtrs
<1>3. TkTypes'
  BY <1>1, <1>2 DEF TkTypes
<1>4. running' => TkSound(nodes', heap', untracked')
  BY <1>1 DEF TkInv
<1> QED
  BY <1>2, <1>3, <1>4 DEF TkInv

LEMMA TkRealloc ==
  ASSUME TkInv, NEW i \in DOMAIN ptrs, NEW new \in Addresses, NEW size \in Sizes,
         Tracker!Reallocate(i, new, size)
  PROVE  TkInv'
<1>1. /\ heap \in [Addresses -> Sizes \cup {0}] /\ nodes \in Seq(TkNode)
      /\ untracked \subseteq {x \in Addresses : heap[x] # 0} /\ TkTypes /\ TkHeld
  BY DEF TkInv, TkTypes
<1>2. PICK old : old = ptrs[i]
  OBVIOUS
<1>3. /\ running = TRUE /\ running' = TRUE /\ old # 0 /\ (new = old \/ heap[new] = 0)
      /\ heap' = [heap EXCEPT ![old] = 0, ![new] = size] /\ ptrs' = [ptrs EXCEPT ![i] = new]
      /\ Tracker!TrackMove(old, new, size)
  BY <1>1, <1>2, TkConstants DEF Tracker!Reallocate, Tracker!LogEvent, TkTypes
<1>4. i \in 1 .. Len(ptrs) /\ old \in Addresses
  <2>1. i \in 1 .. Len(ptrs)
    BY <1>1, LenProperties DEF TkTypes
  <2>2. ptrs[i] \in Addresses \cup {0}
    BY <1>1, <2>1, ElementOfSeq DEF TkTypes
  <2> QED
    BY <1>2, <1>3, <2>1, <2>2
<1>5. size # 0 /\ new # 0
  BY TkConstants
<1>6. PICK hp1 : hp1 = [heap EXCEPT ![old] = 0]
  OBVIOUS
<1>7. /\ hp1 \in [Addresses -> Sizes \cup {0}] /\ hp1[new] = 0
      /\ \A x \in Addresses : hp1[x] = IF x = old THEN 0 ELSE heap[x]
  BY <1>1, <1>3, <1>4, <1>6
<1>8. heap' = [hp1 EXCEPT ![new] = size]
  BY <1>3, <1>6
<1>9. /\ heap' \in [Addresses -> Sizes \cup {0}] /\ heap'[new] = size
      /\ \A x \in Addresses : x # new => heap'[x] = hp1[x]
  BY <1>7, <1>8
<1>10. TkSound(nodes, heap, untracked)
  BY <1>3 DEF TkInv
<1>11. PICK hp2 : hp2 = heap'
  OBVIOUS
<1>12. PICK n : n = Tracker!FindeValue(old)
  OBVIOUS
<1>13. nodes' \in Seq(TkNode) /\ TkSound(nodes', hp2, untracked')
       /\ untracked' \subseteq (untracked \ {old}) \cup {new}
  <2>1. CASE n = 0
    <3>1. \A j \in 1 .. Len(nodes) : nodes[j].address # old
      BY <1>1, <1>12, <2>1, TkFind
    <3>2. nodes' = nodes /\ untracked' = (untracked \ {old}) \cup {new}
      BY <1>3, <1>12, <2>1 DEF Tracker!TrackMove
    <3>3. TkSound(nodes, hp1, untracked \ {old})
      BY <1>1, <1>4, <1>6, <1>10, <3>1, TkForget
    <3>4. PICK list : list = TkCons(new, size, nodes)
      OBVIOUS
    <3>5. TkSound(nodes, hp2, (untracked \ {old}) \cup {new})
      BY <1>1, <1>7, <1>8, <1>11, <3>3, <3>4, TkAdd
    <3> QED
      BY <1>1, <3>2, <3>5
  <2>2. CASE n # 0
    <3>1. /\ n \in 1 .. Len(nodes) /\ nodes[n].address = old
          /\ \A j \in 1 .. Len(nodes) : j < n => nodes[j].address # old
      BY <1>1, <1>12, <2>2, TkFind
    <3>2. PICK list1 : list1 = [nodes EXCEPT ![n].is_freed = TRUE]
      OBVIOUS
    <3>3. list1 \in Seq(TkNode) /\ TkSound(list1, hp1, untracked \ {old})
      BY <1>1, <1>4, <1>6, <1>10, <3>1, <3>2, TkMark
    <3>4. PICK list2 : list2 = TkCons(new, size, list1)
      OBVIOUS
    <3>5. PICK lost : lost = untracked \ {old}
      OBVIOUS
    <3>6. /\ list2 \in Seq(TkNode) /\ TkSound(list2, hp2, lost \ {new})
          /\ TkSound(list1, hp2, lost \cup {new})
      <4>1. /\ new \in Addresses /\ size \in Sizes /\ hp1[new] = 0
            /\ hp1 \in [Addresses -> Sizes \cup {0}] /\ list1 \in Seq(TkNode)
            /\ TkSound(list1, hp1, lost) /\ hp2 = [hp1 EXCEPT ![new] = size]
        BY <1>7, <1>8, <1>11, <3>3, <3>5
      <4> QED
        BY ONLY <3>4, <4>1, TkAdd
    <3>7. \/ nodes' = list2 /\ untracked' = lost \ {new}
          \/ nodes' = list1 /\ untracked' = lost \cup {new}
      BY <1>3, <1>12, <2>2, <3>2, <3>4, <3>5 DEF Tracker!TrackMove, Tracker!AddAllocation, TkCons
    <3> QED
      BY <3>3, <3>5, <3>6, <3>7
  <2> QED
    BY <2>1, <2>2
<1>14. untracked' \subseteq {x \in Addresses : heap'[x] # 0}
  BY <1>1, <1>5, <1>7, <1>9, <1>13
<1>15. ptrs' \in Seq(Addresses \cup {0}) /\ TkHeld'
  <2>1. \A x \in Addresses : x # ptrs[i] /\ heap[x] # 0 => heap'[x] # 0
    BY <1>2, <1>5, <1>7, <1>9
  <2>2. heap'[new] # 0 /\ new \in Addresses \cup {0} /\ (new = ptrs[i] \/ heap[new] = 0) /\ ptrs[i] # 0
    BY <1>2, <1>3, <1>5, <1>9
  <2>3. /\ TkTypes /\ TkHeld /\ i \in 1 .. Len(ptrs) /\ ptrs' = [ptrs EXCEPT ![i] = new]
        /\ heap' \in [Addresses -> Sizes \cup {0}]
    BY <1>1, <1>3, <1>4, <1>9
  <2> QED
    BY ONLY <2>1, <2>2, <2>3, TkPtrs
<1> QED
  BY <1>3, <1>9, <1>11, <1>13, <1>14, <1>15 DEF TkInv, TkTypes

LEMMA TkFree ==
  ASSUME TkInv, NEW i \in DOMAIN ptrs, Tracker!TrackFree(i)
  PROVE  TkInv'
<1>1. /\ heap \in [Addresses -> Sizes \cup {0}] /\ nodes \in Seq(TkNode)
      /\ untracked \subseteq {x \in Addresses : heap[x] # 0} /\ TkTypes /\ TkHeld
  BY DEF TkInv, TkTypes
<1>2. PICK old : old = ptrs[i]
  OBVIOUS
<1>3. PICK n : n = Tracker!FindeValue(old)
  OBVIOUS
<1>4. /\ running = TRUE /\ running' = TRUE /\ old # 0 /\ ptrs' = [ptrs EXCEPT ![i] = 0]
      /\ untracked' = untracked
      /\ IF n # 0 /\ ~nodes[n].is_freed
         THEN nodes' = [nodes EXCEPT ![n].is_freed = TRUE] /\ heap' = [heap EXCEPT ![old] = 0]
         ELSE nodes' = nodes /\ heap' = heap
  BY <1>1, <1>2, <1>3, TkConstants DEF Tracker!TrackFree, Tracker!LogEvent, TkTypes
<1>5. i \in 1 .. Len(ptrs) /\ old \in Addresses
  <2>1. i \in 1 .. Len(ptrs)
    BY <1>1, LenProperties DEF TkTypes
  <2>2. ptrs[i] \in Addresses \cup {0}
    BY <1>1, <2>1, ElementOfSeq DEF TkTypes
  <2> QED
    BY <1>2, <1>4, <2>1, <2>2
<1>6. TkSound(nodes, heap, untracked)
  BY <1>4 DEF TkInv
<1>7. PICK hp : hp = heap'
  OBVIOUS
<1>8. /\ nodes' \in Seq(TkNode) /\ TkSound(nodes', hp, untracked)
      /\ hp \in [Addresses -> Sizes \cup {0}] /\ \A x \in Addresses : x # old => hp[x] = heap[x]
      /\ untracked \subseteq {x \in Addresses : hp[x] # 0}
  <2>1. CASE n # 0 /\ ~nodes[n].is_freed
    <3>1. /\ n \in 1 .. Len(nodes) /\ nodes[n].address = old
          /\ \A j \in 1 .. Len(nodes) : j < n => nodes[j].address # old
      BY <1>1, <1>3, <2>1, TkFind
    <3>2. nodes' = [nodes EXCEPT ![n].is_freed = TRUE] /\ hp = [heap EXCEPT ![old] = 0]
      BY <1>4, <1>7, <2>1
    <3>3. PICK list : list = nodes'
      OBVIOUS
    <3>4. list \in Seq(TkNode) /\ TkSound(list, hp, untracked \ {old})
      BY <1>1, <1>5, <1>6, <3>1, <3>2, <3>3, TkMark
    <3>5. old \notin untracked
      <4>1. nodes[n] \in TkNode
        BY <1>1, <3>1, ElementOfSeq
      <4>2. TkActive(nodes[n])
        BY <2>1, <4>1 DEF TkActive, TkNode
      <4> QED
        BY <1>6, <3>1, <4>2 DEF TkSound
    <3>6. untracked \ {old} = untracked
      BY <3>5
    <3>7. hp \in [Addresses -> Sizes \cup {0}] /\ \A x \in Addresses : x # old => hp[x] = heap[x]
      BY <1>1, <3>2
    <3> QED
      BY <1>1, <3>3, <3>4, <3>5, <3>6, <3>7
  <2>2. CASE ~(n # 0 /\ ~nodes[n].is_freed)
    BY <1>1, <1>4, <1>6, <1>7, <2>2
  <2> QED
    BY <2>1, <2>2
<1>9. ptrs' \in Seq(Addresses \cup {0}) /\ TkHeld'
  <2>1. \A x \in Addresses : x # ptrs[i] /\ heap[x] # 0 => heap'[x] # 0
    BY <1>2, <1>7, <1>8
  <2>2. /\ TkTypes /\ TkHeld /\ i \in 1 .. Len(ptrs) /\ ptrs' = [ptrs EXCEPT ![i] = 0]
        /\ heap' \in [Addresses -> Sizes \cup {0}] /\ 0 \in Addresses \cup {0} /\ ptrs[i] # 0
    BY <1>1, <1>2, <1>4, <1>5, <1>7, <1>8
  <2> QED
    BY ONLY <2>1, <2>2, TkPtrs
<1> QED
  BY <1>4, <1>7, <1>8, <1>9 DEF TkInv, TkTypes

LEMMA TkStep == TkInv /\ (Tracker!Next \/ UNCHANGED tracked) => TkInv'
<1> SUFFICES ASSUME TkInv, Tracker!Next \/ UNCHANGED tracked PROVE TkInv'
  OBVIOUS
<1>1. CASE UNCHANGED tracked
  BY <1>1 DEF tracked, TkInv, TkTypes, TkHeld
<1>2. CASE Tracker!AllocateNothing
  BY <1>2, TkNothing
<1>3. ASSUME NEW a \in Addresses, NEW size \in Sizes, Tracker!Allocate(a, size) PROVE TkInv'
  BY <1>3, TkAllocate
<1>4. ASSUME NEW i \in DOMAIN ptrs, Tracker!TrackRealloc(i) PROVE TkInv'
  BY <1>4, TkLose, TkRealloc DEF Tracker!TrackRealloc
<1>5. ASSUME NEW i \in DOMAIN ptrs, Tracker!TrackFree(i) PROVE TkInv'
  BY <1>5, TkFree
<1>6. CASE Tracker!CleanupTracker
  <2>1. /\ running' = FALSE /\ heap' = heap /\ ptrs' = ptrs /\ untracked' = untracked
        /\ (nodes' = nodes \/ nodes' = <<>>)
    BY <1>6 DEF Tracker!CleanupTracker
  <2>2. TkTypes'
    <3>1. nodes' \in Seq(TkNode)
      <4>1. nodes \in Seq(TkNode)
        BY DEF TkInv, TkTypes
      <4>2. <<>> \in Seq(TkNode)
        BY EmptySeq
      <4> QED
        BY <2>1, <4>1, <4>2
    <3>2. running' \in BOOLEAN
      BY <2>1
    <3>3. /\ heap' \in [Addresses -> Sizes \cup {0}] /\ ptrs' \in Seq(Addresses \cup {0})
          /\ untracked' \subseteq {a \in Addresses : heap'[a] # 0}
      BY <2>1 DEF TkInv, TkTypes
    <3> QED
      BY <3>1, <3>2, <3>3 DEF TkTypes
  <2>3. TkHeld'
    BY <2>1 DEF TkInv, TkHeld
  <2> QED
    BY <2>1, <2>2, <2>3 DEF TkInv
<1> QED
  BY <1>1, <1>2, <1>3, <1>4, <1>5, <1>6 DEF Tracker!Next

LEMMA TkImplies == TkInv => Tracker!ReportIsTrue /\ Tracker!NoDangling
<1> SUFFICES ASSUME TkInv PROVE Tracker!ReportIsTrue /\ Tracker!NoDangling
  OBVIOUS
<1>1. /\ heap \in [Addresses -> Sizes \cup {0}] /\ nodes \in Seq(TkNode)
      /\ ptrs \in Seq(Addresses \cup {0})
  BY DEF TkInv, TkTypes
<1>2. PICK l : l = Len(nodes) /\ l \in Nat /\ DOMAIN nodes = 1 .. l
  BY <1>1, LenProperties
<1>3. \A i \in 1 .. l : /\ nodes[i] \in TkNode /\ nodes[i].address \in Addresses
                        /\ nodes[i].size \in Sizes /\ nodes[i].is_freed \in BOOLEAN
  <2>1. \A i \in 1 .. l : nodes[i] \in TkNode
    BY <1>1, <1>2, ElementOfSeq
  <2> QED
    BY <2>1 DEF TkNode
<1>4. PICK A : A = Tracker!Active
  OBVIOUS
<1>5. \A i : i \in A <=> i \in 1 .. l /\ TkActive(nodes[i])
  BY <1>2, <1>3, <1>4 DEF Tracker!Active, TkActive
<1>6. ASSUME running PROVE
        /\ {<<nodes[i].address, nodes[i].size>> : i \in A} =
             {<<a, heap[a]>> : a \in Tracker!Allocated \ untracked}
        /\ \A i, j \in A : nodes[i].address = nodes[j].address => i = j
  <2>1. /\ \A i \in 1 .. l : TkActive(nodes[i]) =>
             /\ heap[nodes[i].address] = nodes[i].size /\ nodes[i].address \notin untracked
             /\ \A j \in 1 .. l : j < i => nodes[j].address # nodes[i].address
        /\ \A a \in Addresses : heap[a] # 0 /\ a \notin untracked =>
             \E i \in 1 .. l : TkActive(nodes[i]) /\ nodes[i].address = a
    BY <1>2, <1>6 DEF TkInv, TkSound
  <2>2. \A a : a \in Tracker!Allocated \ untracked <=> a \in Addresses /\ heap[a] # 0 /\ a \notin untracked
    BY DEF Tracker!Allocated
  <2>3. ASSUME NEW i \in A
        PROVE  nodes[i].address \in Tracker!Allocated \ untracked
               /\ heap[nodes[i].address] = nodes[i].size
    BY <1>3, <1>5, <2>1, <2>2, TkConstants
  <2>4. ASSUME NEW a \in Tracker!Allocated \ untracked
        PROVE  \E i \in A : nodes[i].address = a /\ nodes[i].size = heap[a]
    <3>1. PICK i \in 1 .. l : TkActive(nodes[i]) /\ nodes[i].address = a
      BY <2>1, <2>2
    <3> QED
      BY <1>5, <2>1, <3>1
  <2>5. ASSUME NEW i \in A, NEW j \in A, nodes[i].address = nodes[j].address PROVE i = j
    <3>1. ~(i < j) /\ ~(j < i) /\ i \in Nat /\ j \in Nat
      BY <1>2, <1>5, <2>1, <2>5
    <3> QED
      BY <3>1
  <2>6. {<<nodes[i].address, nodes[i].size>> : i \in A} =
          {<<a, heap[a]>> : a \in Tracker!Allocated \ untracked}
    <3>1. \A i \in A : \E a \in Tracker!Allocated \ untracked :
            <<nodes[i].address, nodes[i].size>> = <<a, heap[a]>>
      BY <2>3
    <3>2. \A a \in Tracker!Allocated \ untracked : \E i \in A :
            <<a, heap[a]>> = <<nodes[i].address, nodes[i].size>>
      BY <2>4
    <3> QED
      BY <3>1, <3>2
  <2> QED
    BY <2>5, <2>6
<1>7. Tracker!ReportIsTrue
  BY <1>4, <1>6 DEF Tracker!ReportIsTrue
<1>8. Tracker!NoDangling
  <2>1. ASSUME NEW i \in DOMAIN ptrs, NEW j \in DOMAIN ptrs, ptrs[i] # 0
        PROVE  ptrs[i] \in Tracker!Allocated /\ (ptrs[i] = ptrs[j] => i = j)
    <3>1. i \in 1 .. Len(ptrs) /\ j \in 1 .. Len(ptrs)
      BY <1>1, LenProperties
    <3>2. ptrs[i] \in Addresses \cup {0}
      BY <1>1, <3>1, ElementOfSeq
    <3>3. heap[ptrs[i]] # 0 /\ (ptrs[i] = ptrs[j] => i = j)
      BY <2>1, <3>1 DEF TkInv, TkHeld
    <3> QED
      BY <2>1, <3>2, <3>3 DEF Tracker!Allocated
  <2> QED
    BY <2>1, TkConstants DEF Tracker!NoDangling
<1> QED
  BY <1>7, <1>8

-----------------------------------------------------------------------------
(* The memory pool.                                                        *)

\* The loop of MergeBlock, one block at a time.
LEMMA AlPassed ==
  ASSUME NEW s, Len(s) \in Nat
  PROVE  /\ Memory!Passed(s)[0] = <<>>
         /\ \A n \in 1 .. Len(s) :
              Memory!Passed(s)[n] = Memory!Absorb(Memory!Passed(s)[n - 1], s[n])
<1> DEFINE Bad == {m \in 0 .. Len(s) :
                     ~\E g : g = [k \in 0 .. m |-> IF k = 0 THEN <<>>
                                                   ELSE Memory!Absorb(g[k - 1], s[k])]}
<1>1. Bad = {}
  <2>1. SUFFICES ASSUME Bad # {} PROVE FALSE
    OBVIOUS
  <2>2. Bad \subseteq Nat
    OBVIOUS
  <2>3. PICK m \in Bad : \A y \in Bad : m <= y
    BY <2>1, <2>2, LeastNumber
  <2>4. m # 0
    <3>1. ASSUME m = 0 PROVE FALSE
      <4> DEFINE g == [k \in 0 .. m |-> <<>>]
      <4>1. g = [k \in 0 .. m |-> IF k = 0 THEN <<>> ELSE Memory!Absorb(g[k - 1], s[k])]
        BY <3>1
      <4> QED
        BY <4>1
    <3> QED
      BY <3>1
  <2>5. m \in Nat /\ m - 1 \in 0 .. Len(s) /\ m - 1 \notin Bad
    <3>1. m \in 0 .. Len(s)
      OBVIOUS
    <3>2. m - 1 \in Bad => m <= m - 1
      BY <2>3
    <3> HIDE DEF Bad
    <3> QED
      BY <2>4, <3>1, <3>2
  <2>6. PICK g : g = [k \in 0 .. m - 1 |-> IF k = 0 THEN <<>> ELSE Memory!Absorb(g[k - 1], s[k])]
    BY <2>5
  <2> DEFINE f == [k \in 0 .. m |-> IF k = m THEN Memory!Absorb(g[m - 1], s[m]) ELSE g[k]]
  <2>7. ASSUME NEW k \in 0 .. m
        PROVE  f[k] = IF k = 0 THEN <<>> ELSE Memory!Absorb(f[k - 1], s[k])
    <3>1. CASE k = m
      <4>1. k # 0 /\ k - 1 \in 0 .. m /\ k - 1 # m
        BY <2>4, <2>5, <3>1
      <4>2. f[k - 1] = g[k - 1]
        BY <4>1
      <4> QED
        BY <3>1, <4>1, <4>2
    <3>2. CASE k # m /\ k = 0
      BY <2>4, <2>5, <2>6, <3>2
    <3>3. CASE k # m /\ k # 0
      <4>1. k \in 0 .. m - 1 /\ k - 1 \in 0 .. m /\ k - 1 # m
        BY <2>5, <3>3
      <4>2. f[k - 1] = g[k - 1] /\ f[k] = g[k]
        BY <3>3, <4>1
      <4>3. g[k] = Memory!Absorb(g[k - 1], s[k])
        BY <2>6, <3>3, <4>1
      <4> QED
        BY <3>3, <4>2, <4>3
    <3> QED
      BY <3>1, <3>2, <3>3
  <2>8. f = [k \in 0 .. m |-> IF k = 0 THEN <<>> ELSE Memory!Absorb(f[k - 1], s[k])]
    BY <2>7
  <2> QED
    BY <2>3, <2>8
<1>2. Len(s) \notin Bad /\ Len(s) \in 0 .. Len(s)
  <2>1. Len(s) \in 0 .. Len(s)
    BY LenProperties
  <2>2. Len(s) \notin Bad
    <3> HIDE DEF Bad
    <3> QED
      BY ONLY <1>1
  <2> QED
    BY ONLY <2>1, <2>2
<1>3. PICK f : f = Memory!Passed(s)
  OBVIOUS
<1>4. f = [k \in 0 .. Len(s) |-> IF k = 0 THEN <<>> ELSE Memory!Absorb(f[k - 1], s[k])]
  BY <1>2, <1>3 DEF Memory!Passed
<1> QED
  BY <1>3, <1>4

\* A list of blocks without a gap, and where a block ends.
AlBlock == [at : Nat, size : Nat, free : {0, 1}]
AlEnd(b) == b.at + HEADER + b.size
AlTiles(s, n) == \A i \in 1 .. Len(s) : i < n => AlEnd(s[i]) = s[i + 1].at
AlApart(s) == \A i \in 1 .. Len(s) - 1 : s[i].free = 0 \/ s[i + 1].free = 0
AlUsed(s, n) == {s[i] : i \in {i \in 1 .. n : s[i].free = 0}}
\* What MergeBlock has made of the first n blocks of s.
AlMerged(r, s, n) ==
  /\ r \in Seq(AlBlock) /\ r # <<>>
  /\ r[1].at = s[1].at /\ AlEnd(r[Len(r)]) = AlEnd(s[n])
  /\ AlTiles(r, Len(r)) /\ AlApart(r)
  /\ AlUsed(r, Len(r)) = AlUsed(s, n)

LEMMA AlConstants ==
  HEADER \in Nat \ {0} /\ Requests \subseteq Nat /\ TOTAL_PAGES \in Nat \ {0}
  /\ \A n \in PoolSizes : n \in Nat /\ n >= HEADER
BY MemoryAssumption DEF Memory!ConstantsOK, Memory!PoolConstantsOK, Memory!PagesConstantsOK

\* One more block.
LEMMA AlAbsorb ==
  ASSUME NEW s \in Seq(AlBlock), NEW n \in 1 .. Len(s) - 1, AlTiles(s, Len(s)),
         NEW r, AlMerged(r, s, n), NEW q, q = Memory!Absorb(r, s[n + 1])
  PROVE  AlMerged(q, s, n + 1)
<1>1. PICK l : l = Len(r) /\ l \in Nat \ {0}
  <2>1. r \in Seq(AlBlock) /\ r # <<>>
    BY DEF AlMerged
  <2> QED
    BY <2>1, EmptySeq, LenProperties
<1>2. PICK b : b = s[n + 1]
  OBVIOUS
<1>3. b \in AlBlock /\ s[n] \in AlBlock /\ AlEnd(s[n]) = b.at /\ HEADER \in Nat
  <2>1. n \in 1 .. Len(s) /\ n + 1 \in 1 .. Len(s) /\ n < Len(s)
    OBVIOUS
  <2>2. AlEnd(s[n]) = s[n + 1].at
    BY <2>1 DEF AlTiles
  <2> QED
    BY <1>2, <2>1, <2>2, AlConstants
<1>4. /\ r \in Seq(AlBlock) /\ r # <<>> /\ r[1].at = s[1].at /\ AlEnd(r[l]) = b.at
      /\ DOMAIN r = 1 .. l /\ r[l] \in AlBlock
      /\ \A i \in 1 .. l : r[i] \in AlBlock
  BY <1>1, <1>3, LenProperties, ElementOfSeq DEF AlMerged
<1>5. /\ \A i \in 1 .. l : i < l => AlEnd(r[i]) = r[i + 1].at
      /\ \A i \in 1 .. l - 1 : r[i].free = 0 \/ r[i + 1].free = 0
      /\ AlUsed(r, l) = AlUsed(s, n)
  BY <1>1 DEF AlMerged, AlTiles, AlApart
<1>6. AlUsed(s, n + 1) = AlUsed(s, n) \cup (IF b.free = 0 THEN {b} ELSE {})
  <2>1. {i \in 1 .. n + 1 : s[i].free = 0}
          = {i \in 1 .. n : s[i].free = 0} \cup (IF b.free = 0 THEN {n + 1} ELSE {})
    BY <1>2
  <2> QED
    BY <1>2, <2>1 DEF AlUsed
<1>7. CASE r[l].free = 1 /\ b.free = 1
  <2>1. PICK c : c = [r[l] EXCEPT !.size = @ + HEADER + b.size]
    OBVIOUS
  <2>2. q = [r EXCEPT ![l] = c]
    BY <1>1, <1>2, <1>4, <1>7, <2>1 DEF Memory!Absorb
  <2>3. c \in AlBlock /\ c.at = r[l].at /\ c.free = 1 /\ AlEnd(c) = AlEnd(b)
    <3>1. c.size = r[l].size + HEADER + b.size /\ c.at = r[l].at /\ c.free = r[l].free
          /\ c = [at |-> c.at, size |-> c.size, free |-> c.free]
      BY <1>4, <2>1 DEF AlBlock
    <3>2. /\ r[l].size \in Nat /\ r[l].at \in Nat /\ r[l].free \in {0, 1}
          /\ b.size \in Nat /\ b.at \in Nat
      BY <1>3, <1>4 DEF AlBlock
    <3>3. c.size \in Nat
      BY <1>3, <3>1, <3>2
    <3>4. AlEnd(c) = AlEnd(b)
      <4>1. r[l].at + HEADER + r[l].size = b.at
        BY <1>4 DEF AlEnd
      <4>2. c.at + HEADER + c.size = b.at + HEADER + b.size
        <5>1. PICK x, y, z, v, w : x = r[l].at /\ y = r[l].size /\ z = b.at /\ v = b.size /\ w = c.size
          OBVIOUS
        <5>2. x \in Nat /\ y \in Nat /\ z \in Nat /\ v \in Nat /\ w = y + HEADER + v
              /\ x + HEADER + y = z
          BY <3>1, <3>2, <4>1, <5>1
        <5>3. x + HEADER + w = z + HEADER + v
          BY <1>3, <5>2
        <5> QED
          BY <3>1, <5>1, <5>3
      <4> QED
        BY <4>2 DEF AlEnd
    <3> QED
      BY <1>7, <3>1, <3>2, <3>3, <3>4 DEF AlBlock
  <2>4. q \in Seq(AlBlock) /\ Len(q) = l /\ q # <<>>
        /\ \A i \in 1 .. l : q[i] = IF i = l THEN c ELSE r[i]
    BY <1>1, <1>4, <2>2, <2>3, ExceptSeq, EmptySeq
  <2>5. q[1].at = s[1].at /\ AlEnd(q[l]) = AlEnd(b)
    BY <1>1, <1>4, <2>3, <2>4
  <2>6. AlTiles(q, l)
    <3>1. ASSUME NEW i \in 1 .. l, i < l PROVE AlEnd(q[i]) = q[i + 1].at
      <4>1. i + 1 \in 1 .. l /\ i # l
        BY <1>1, <3>1
      <4>2. q[i] = r[i] /\ q[i + 1].at = r[i + 1].at
        BY <2>3, <2>4, <4>1
      <4> QED
        BY <1>5, <3>1, <4>2
    <3> QED
      BY <2>4, <3>1 DEF AlTiles
  <2>7. AlApart(q)
    <3>1. ASSUME NEW i \in 1 .. l - 1 PROVE q[i].free = 0 \/ q[i + 1].free = 0
      <4>1. i \in 1 .. l /\ i + 1 \in 1 .. l /\ i # l
        BY <1>1
      <4>2. q[i] = r[i] /\ q[i + 1].free = r[i + 1].free
        BY <1>7, <2>3, <2>4, <4>1
      <4> QED
        BY <1>5, <4>2
    <3> QED
      BY <2>4, <3>1 DEF AlApart
  <2>8. AlUsed(q, l) = AlUsed(r, l)
    <3>1. \A i \in 1 .. l : (q[i].free = 0 <=> r[i].free = 0) /\ (q[i].free = 0 => q[i] = r[i])
      BY <1>7, <2>3, <2>4
    <3> QED
      BY <3>1 DEF AlUsed
  <2> QED
    BY <1>2, <1>5, <1>6, <1>7, <2>4, <2>5, <2>6, <2>7, <2>8 DEF AlMerged
<1>8. CASE ~(r[l].free = 1 /\ b.free = 1)
  <2>1. q = Append(r, b)
    BY <1>1, <1>2, <1>4, <1>8 DEF Memory!Absorb
  <2>2. q \in Seq(AlBlock) /\ Len(q) = l + 1 /\ q # <<>>
        /\ \A i \in 1 .. l : q[i] = r[i]
        /\ q[l + 1] = b
    BY <1>1, <1>3, <1>4, <2>1, AppendProperties
  <2>3. q[1].at = s[1].at /\ AlEnd(q[l + 1]) = AlEnd(b)
    BY <1>1, <1>4, <2>2
  <2>4. AlTiles(q, l + 1)
    <3>1. ASSUME NEW i \in 1 .. l + 1, i < l + 1 PROVE AlEnd(q[i]) = q[i + 1].at
      <4>1. CASE i = l
        BY <1>1, <1>4, <2>2, <4>1
      <4>2. CASE i # l
        <5>1. i \in 1 .. l /\ i + 1 \in 1 .. l /\ i < l
          BY <1>1, <3>1, <4>2
        <5> QED
          BY <1>5, <2>2, <5>1
      <4> QED
        BY <4>1, <4>2
    <3> QED
      BY <2>2, <3>1 DEF AlTiles
  <2>5. AlApart(q)
    <3>1. ASSUME NEW i \in 1 .. l PROVE q[i].free = 0 \/ q[i + 1].free = 0
      <4>1. CASE i = l
        <5>1. r[l].free \in {0, 1} /\ b.free \in {0, 1}
          BY <1>3, <1>4 DEF AlBlock
        <5> QED
          BY <1>1, <1>8, <2>2, <4>1, <5>1
      <4>2. CASE i # l
        <5>1. i \in 1 .. l - 1 /\ i + 1 \in 1 .. l
          BY <1>1, <4>2
        <5> QED
          BY <1>5, <2>2, <5>1
      <4> QED
        BY <4>1, <4>2
    <3>2. Len(q) - 1 = l
      BY <1>1, <2>2
    <3> QED
      BY <3>1, <3>2 DEF AlApart
  <2>6. AlUsed(q, l + 1) = AlUsed(r, l) \cup (IF b.free = 0 THEN {b} ELSE {})
    <3>1. {i \in 1 .. l + 1 : q[i].free = 0}
            = {i \in 1 .. l : r[i].free = 0} \cup (IF b.free = 0 THEN {l + 1} ELSE {})
      BY <1>1, <2>2
    <3> QED
      BY <1>1, <2>2, <3>1 DEF AlUsed
  <2> QED
    BY <1>2, <1>5, <1>6, <2>2, <2>3, <2>4, <2>5, <2>6 DEF AlMerged
<1> QED
  BY <1>7, <1>8

\* MergeBlock keeps the used blocks, leaves no gap and no two free neighbours.
LEMMA AlMerge ==
  ASSUME NEW s \in Seq(AlBlock), s # <<>>, AlTiles(s, Len(s))
  PROVE  AlMerged(Memory!MergeBlock(s), s, Len(s))
<1>1. Len(s) \in Nat \ {0} /\ DOMAIN s = 1 .. Len(s)
  BY EmptySeq, LenProperties
<1>2. PICK f : f = Memory!Passed(s)
  OBVIOUS
<1>3. f[0] = <<>> /\ \A n \in 1 .. Len(s) : f[n] = Memory!Absorb(f[n - 1], s[n])
  BY <1>1, <1>2, AlPassed
<1> DEFINE Bad == {n \in 1 .. Len(s) : ~AlMerged(f[n], s, n)}
<1>4. Bad = {}
  <2>1. SUFFICES ASSUME Bad # {} PROVE FALSE
    OBVIOUS
  <2>2. PICK n \in Bad : \A y \in Bad : n <= y
    <3>1. Bad \subseteq Nat
      OBVIOUS
    <3> QED
      BY <2>1, <3>1, LeastNumber
  <2>3. n \in 1 .. Len(s) /\ ~AlMerged(f[n], s, n)
    OBVIOUS
  <2>4. CASE n = 1
    <3>1. PICK b : b = s[1]
      OBVIOUS
    <3>2. b \in AlBlock
      BY <1>1, <3>1
    <3>3. f[1] = <<b>>
      <4>1. f[1] = Memory!Absorb(f[1 - 1], s[1]) /\ 1 - 1 = 0
        BY <1>1, <1>3
      <4>2. f[1] = Append(<<>>, b)
        BY <1>3, <3>1, <4>1 DEF Memory!Absorb
      <4> QED
        BY <4>2
    <3>4. PICK r : r = <<b>>
      OBVIOUS
    <3>5. r \in Seq(AlBlock) /\ r # <<>> /\ Len(r) = 1 /\ r[1] = b
      BY <3>2, <3>4
    <3>6. AlTiles(r, 1) /\ AlApart(r)
      BY <3>5 DEF AlTiles, AlApart
    <3>7. AlUsed(r, 1) = AlUsed(s, 1)
      BY <3>1, <3>5 DEF AlUsed
    <3> QED
      BY <2>3, <2>4, <3>1, <3>3, <3>4, <3>5, <3>6, <3>7 DEF AlMerged
  <2>5. CASE n # 1
    <3>1. PICK m : m = n - 1 /\ m \in 1 .. Len(s) - 1 /\ m + 1 = n
      BY <1>1, <2>3, <2>5
    <3>2. AlMerged(f[m], s, m)
      <4>1. m \notin Bad
        <5>1. m \in Bad => n <= m
          BY <2>2
        <5> HIDE DEF Bad
        <5> QED
          BY <2>3, <3>1, <5>1
      <4>2. m \in 1 .. Len(s)
        BY <1>1, <3>1
      <4> QED
        BY <4>1, <4>2
    <3>3. f[n] = Memory!Absorb(f[m], s[m + 1])
      BY <1>3, <2>3, <3>1
    <3>4. AlMerged(f[n], s, m + 1)
      BY ONLY <3>1, <3>2, <3>3, AlAbsorb, s \in Seq(AlBlock), AlTiles(s, Len(s))
    <3> QED
      BY <2>3, <3>1, <3>4
  <2> QED
    BY <2>4, <2>5
<1>5. AlMerged(f[Len(s)], s, Len(s))
  BY <1>1, <1>4
<1> QED
  BY <1>2, <1>5 DEF Memory!MergeBlock

\* Blocks that follow each other are in the order of their addresses.
LEMMA AlOrdered ==
  ASSUME NEW s \in Seq(AlBlock), AlTiles(s, Len(s))
  PROVE  \A i, j \in 1 .. Len(s) : i < j => s[i].at < s[j].at
<1>1. Len(s) \in Nat /\ HEADER \in Nat \ {0}
  BY LenProperties, AlConstants
<1>2. \A i \in 1 .. Len(s) : s[i].at \in Nat /\ s[i].size \in Nat
  <2>1. \A i \in 1 .. Len(s) : s[i] \in AlBlock
    BY ElementOfSeq
  <2> QED
    BY <2>1 DEF AlBlock
<1> SUFFICES ASSUME NEW i \in 1 .. Len(s)
             PROVE  \A j \in 1 .. Len(s) : i < j => s[i].at < s[j].at
  OBVIOUS
<1> DEFINE Bad == {j \in 1 .. Len(s) : i < j /\ ~(s[i].at < s[j].at)}
<1>3. Bad = {}
  <2>1. SUFFICES ASSUME Bad # {} PROVE FALSE
    OBVIOUS
  <2>2. PICK j \in Bad : \A y \in Bad : j <= y
    <3>1. Bad \subseteq Nat
      OBVIOUS
    <3> QED
      BY <2>1, <3>1, LeastNumber
  <2>3. j \in 1 .. Len(s) /\ i < j /\ ~(s[i].at < s[j].at)
    OBVIOUS
  <2>4. PICK k : k = j - 1 /\ k \in 1 .. Len(s) /\ k < Len(s) /\ k + 1 = j /\ k < j /\ i <= k
    BY <1>1, <2>3
  <2>5. k \notin Bad
    <3>1. k \in Bad => j <= k
      BY <2>2
    <3> HIDE DEF Bad
    <3> QED
      BY <1>1, <2>3, <2>4, <3>1
  <2>6. i = k \/ s[i].at < s[k].at
    BY <1>1, <2>4, <2>5
  <2>7. s[k].at + HEADER + s[k].size = s[j].at
    BY <2>4 DEF AlTiles, AlEnd
  <2>8. PICK x, y, z, v : x = s[i].at /\ y = s[k].at /\ z = s[k].size /\ v = s[j].at
    OBVIOUS
  <2>9. x \in Nat /\ y \in Nat /\ z \in Nat /\ v \in Nat /\ x <= y /\ y + HEADER + z = v
    BY <1>2, <2>3, <2>4, <2>6, <2>7, <2>8
  <2>10. x < v
    BY <1>1, <2>9
  <2> QED
    BY <2>3, <2>8, <2>10
<1> QED
  BY <1>3

LEMMA AlLeast ==
  ASSUME NEW T, T \subseteq Nat, T # {}
  PROVE  Memory!Min(T) \in T /\ \A y \in T : Memory!Min(T) <= y
<1>1. \E x \in T : \A y \in T : x <= y
  BY LeastNumber
<1> QED
  BY <1>1 DEF Memory!Min

\* The pool is covered, and a block is in use while there is a pointer to it.
AlInv ==
  /\ PoolSize \in PoolSizes
  /\ blocks \in Seq(AlBlock) /\ blocks # <<>>
  /\ blocks[1].at = 0 /\ AlEnd(blocks[Len(blocks)]) = PoolSize
  /\ AlTiles(blocks, Len(blocks)) /\ AlApart(blocks)
  /\ DOMAIN asked = {b.at : b \in AlUsed(blocks, Len(blocks))}
  /\ \A b \in AlUsed(blocks, Len(blocks)) : b.size >= asked[b.at]

LEMMA AlStarts == Memory!PoolInit => AlInv
<1> SUFFICES ASSUME Memory!PoolInit PROVE AlInv
  OBVIOUS
<1>1. PICK b : b = [at |-> 0, size |-> PoolSize - HEADER, free |-> 1]
  OBVIOUS
<1>2. PoolSize \in PoolSizes /\ blocks = <<b>> /\ asked = <<>>
  BY <1>1 DEF Memory!PoolInit
<1>3. PoolSize \in Nat /\ PoolSize >= HEADER /\ HEADER \in Nat
  BY <1>2, AlConstants
<1>4. b \in AlBlock /\ AlEnd(b) = PoolSize /\ b.at = 0 /\ b.free = 1
  BY <1>1, <1>3 DEF AlBlock, AlEnd
<1>5. blocks \in Seq(AlBlock) /\ blocks # <<>> /\ Len(blocks) = 1 /\ blocks[1] = b
  BY <1>2, <1>4
<1>6. AlTiles(blocks, Len(blocks)) /\ AlApart(blocks) /\ AlUsed(blocks, Len(blocks)) = {}
  BY <1>4, <1>5 DEF AlTiles, AlApart, AlUsed
<1> QED
  BY <1>2, <1>4, <1>5, <1>6 DEF AlInv

\* Facts about the blocks that the steps need.
LEMMA AlFacts ==
  ASSUME AlInv
  PROVE  /\ Len(blocks) \in Nat \ {0} /\ DOMAIN blocks = 1 .. Len(blocks) /\ HEADER \in Nat \ {0}
         /\ \A i \in 1 .. Len(blocks) : /\ blocks[i] \in AlBlock
                                        /\ blocks[i].at \in Nat /\ blocks[i].size \in Nat
                                        /\ blocks[i].free \in {0, 1}
         /\ \A i, j \in 1 .. Len(blocks) : blocks[i].at = blocks[j].at => i = j
<1>1. blocks \in Seq(AlBlock) /\ blocks # <<>> /\ AlTiles(blocks, Len(blocks))
  BY DEF AlInv
<1>2. Len(blocks) \in Nat \ {0} /\ DOMAIN blocks = 1 .. Len(blocks) /\ HEADER \in Nat \ {0}
  BY <1>1, EmptySeq, LenProperties, AlConstants
<1>3. \A i \in 1 .. Len(blocks) : /\ blocks[i] \in AlBlock
                                  /\ blocks[i].at \in Nat /\ blocks[i].size \in Nat
                                  /\ blocks[i].free \in {0, 1}
  <2>1. \A i \in 1 .. Len(blocks) : blocks[i] \in AlBlock
    BY <1>1, ElementOfSeq
  <2> QED
    BY <2>1 DEF AlBlock
<1>4. \A i, j \in 1 .. Len(blocks) : i < j => blocks[i].at < blocks[j].at
  BY <1>1, AlOrdered
<1>5. ASSUME NEW i \in 1 .. Len(blocks), NEW j \in 1 .. Len(blocks), blocks[i].at = blocks[j].at
      PROVE  i = j
  <2>1. PICK x, y : x = blocks[i].at /\ y = blocks[j].at
    OBVIOUS
  <2>2. x \in Nat /\ y \in Nat /\ (i < j => x < y) /\ (j < i => y < x) /\ x = y
    BY <1>3, <1>4, <1>5, <2>1
  <2>3. i \in Nat /\ j \in Nat
    BY <1>2
  <2> QED
    BY <2>2, <2>3
<1> QED
  BY <1>2, <1>3, <1>5

LEMMA AlFree ==
  ASSUME AlInv, NEW i \in DOMAIN blocks, Memory!PoolFree(i)
  PROVE  AlInv'
<1>1. /\ Len(blocks) \in Nat \ {0} /\ DOMAIN blocks = 1 .. Len(blocks) /\ HEADER \in Nat \ {0}
      /\ \A k \in 1 .. Len(blocks) : /\ blocks[k] \in AlBlock
                                     /\ blocks[k].at \in Nat /\ blocks[k].size \in Nat
                                     /\ blocks[k].free \in {0, 1}
      /\ \A k, j \in 1 .. Len(blocks) : blocks[k].at = blocks[j].at => k = j
  BY AlFacts
<1>2. PICK n : n = Len(blocks) /\ n \in Nat \ {0}
  BY <1>1
<1>3. i \in 1 .. n /\ blocks[i].free = 0
  <2>1. PICK b \in AlUsed(blocks, Len(blocks)) : b.at = blocks[i].at
    BY DEF Memory!PoolFree, AlInv
  <2>2. PICK j \in 1 .. n : blocks[j] = b /\ b.free = 0
    BY <1>2, <2>1 DEF AlUsed
  <2>3. j = i
    BY <1>1, <1>2, <2>1, <2>2
  <2> QED
    BY <1>1, <1>2, <2>2, <2>3
<1>4. PICK c : c = [blocks[i] EXCEPT !.free = 1]
  OBVIOUS
<1>5. c \in AlBlock /\ c.at = blocks[i].at /\ c.free = 1 /\ AlEnd(c) = AlEnd(blocks[i])
  BY <1>1, <1>2, <1>3, <1>4 DEF AlBlock, AlEnd
<1>6. PICK s : s = [blocks EXCEPT ![i] = c]
  OBVIOUS
<1>7. /\ s \in Seq(AlBlock) /\ Len(s) = n /\ s # <<>>
      /\ \A k \in 1 .. n : s[k] = IF k = i THEN c ELSE blocks[k]
  BY <1>1, <1>2, <1>3, <1>5, <1>6, ExceptSeq, EmptySeq DEF AlInv
<1>8. AlTiles(s, Len(s))
  <2>1. ASSUME NEW k \in 1 .. n, k < n PROVE AlEnd(s[k]) = s[k + 1].at
    <3>1. k + 1 \in 1 .. n
      BY <1>2, <2>1
    <3>2. AlEnd(s[k]) = AlEnd(blocks[k]) /\ s[k + 1].at = blocks[k + 1].at
      BY <1>5, <1>7, <3>1
    <3> QED
      BY <1>2, <2>1, <3>2 DEF AlInv, AlTiles
  <2> QED
    BY <1>7, <2>1 DEF AlTiles
<1>9. s[1].at = 0 /\ AlEnd(s[n]) = PoolSize
  BY <1>2, <1>5, <1>7 DEF AlInv
<1>10. AlUsed(s, n) = AlUsed(blocks, n) \ {blocks[i]}
  <2>1. \A k \in 1 .. n : k # i => blocks[k] # blocks[i]
    BY <1>1, <1>2, <1>3
  <2>2. {k \in 1 .. n : s[k].free = 0} = {k \in 1 .. n : blocks[k].free = 0} \ {i}
    BY <1>5, <1>7
  <2> QED
    BY <1>3, <1>7, <2>1, <2>2 DEF AlUsed
<1>11. /\ blocks' = Memory!MergeBlock(s) /\ PoolSize' = PoolSize
       /\ asked' = [a \in DOMAIN asked \ {blocks[i].at} |-> asked[a]]
  BY <1>4, <1>6 DEF Memory!PoolFree
<1>12. PICK r : r = blocks'
  OBVIOUS
<1>13. AlMerged(r, s, n)
  BY <1>7, <1>8, <1>11, <1>12, AlMerge
<1>14. \A b \in AlUsed(s, n) : b \in AlUsed(blocks, n) /\ b.at # blocks[i].at
  <2>1. ASSUME NEW b \in AlUsed(s, n) PROVE b \in AlUsed(blocks, n) /\ b.at # blocks[i].at
    <3>1. b \in AlUsed(blocks, n) /\ b # blocks[i]
      BY <1>10
    <3>2. PICK k \in 1 .. n : b = blocks[k]
      BY <3>1 DEF AlUsed
    <3> QED
      BY <1>1, <1>2, <1>3, <3>1, <3>2
  <2> QED
    BY <2>1
<1>15. DOMAIN asked' = {b.at : b \in AlUsed(s, n)}
  <2>1. DOMAIN asked = {b.at : b \in AlUsed(blocks, n)} /\ DOMAIN asked' = DOMAIN asked \ {blocks[i].at}
    BY <1>2, <1>11 DEF AlInv
  <2>2. \A b \in AlUsed(blocks, n) : b.at # blocks[i].at => b \in AlUsed(s, n)
    BY <1>10
  <2> QED
    BY <1>14, <2>1, <2>2
<1>16. \A b \in AlUsed(s, n) : b.size >= asked'[b.at]
  <2>1. ASSUME NEW b \in AlUsed(s, n) PROVE b.size >= asked'[b.at]
    <3>1. b.at \in DOMAIN asked \ {blocks[i].at}
      BY <1>11, <1>15
    <3>2. asked'[b.at] = asked[b.at]
      BY <1>11, <3>1
    <3> QED
      BY <1>2, <1>14, <3>2 DEF AlInv
  <2> QED
    BY <2>1
<1>17. AlUsed(r, Len(r)) = AlUsed(s, n)
  BY <1>13 DEF AlMerged
<1> QED
  BY <1>9, <1>11, <1>12, <1>13, <1>15, <1>16, <1>17 DEF AlInv, AlMerged

\* Three lists in one.
AlJoined(r, u, g, v, a, l, c) ==
  /\ Len(r) = a + l + c
  /\ \A k \in 1 .. a : r[k] = u[k]
  /\ \A k \in 1 .. l : r[a + k] = g[k]
  /\ \A k \in 1 .. c : r[a + l + k] = v[k]

LEMMA AlThree ==
  ASSUME NEW S, NEW u \in Seq(S), NEW g \in Seq(S), NEW v \in Seq(S),
         NEW a \in Nat, NEW l \in Nat, NEW c \in Nat, Len(u) = a, Len(g) = l, Len(v) = c,
         NEW r, r = u \o g \o v
  PROVE  r \in Seq(S) /\ AlJoined(r, u, g, v, a, l, c)
<1>1. PICK w : w = u \o g
  OBVIOUS
<1>2. /\ w \in Seq(S) /\ Len(w) = a + l
      /\ \A k \in 1 .. a + l : w[k] = IF k <= a THEN u[k] ELSE g[k - a]
  <2>1. /\ u \o g \in Seq(S) /\ Len(u \o g) = Len(u) + Len(g)
        /\ \A k \in 1 .. Len(u) + Len(g) :
             (u \o g)[k] = IF k <= Len(u) THEN u[k] ELSE g[k - Len(u)]
    BY ConcatProperties
  <2> QED
    BY <1>1, <2>1
<1>3. PICK b : b = a + l /\ b \in Nat
  OBVIOUS
<1>4. /\ r \in Seq(S) /\ Len(r) = b + c
      /\ \A k \in 1 .. b + c : r[k] = IF k <= b THEN w[k] ELSE v[k - b]
  <2>1. Len(w) = b /\ r = w \o v
    BY <1>1, <1>2, <1>3
  <2>2. w \in Seq(S)
    BY <1>2
  <2>3. /\ w \o v \in Seq(S) /\ Len(w \o v) = Len(w) + Len(v)
        /\ \A k \in 1 .. Len(w) + Len(v) :
             (w \o v)[k] = IF k <= Len(w) THEN w[k] ELSE v[k - Len(w)]
    BY <2>2, ConcatProperties
  <2> QED
    BY <2>1, <2>3
<1>5. ASSUME NEW k \in 1 .. a PROVE r[k] = u[k]
  <2>1. k \in 1 .. b + c /\ k <= b /\ k \in 1 .. a + l /\ k <= a
    BY <1>3
  <2> QED
    BY <1>2, <1>4, <2>1
<1>6. ASSUME NEW k \in 1 .. l PROVE r[a + k] = g[k]
  <2>1. PICK j : j = a + k /\ j \in 1 .. b + c /\ j <= b /\ j \in 1 .. a + l /\ ~(j <= a) /\ j - a = k
    BY <1>3
  <2> QED
    BY <1>2, <1>4, <2>1
<1>7. ASSUME NEW k \in 1 .. c PROVE r[a + l + k] = v[k]
  <2>1. PICK j : j = a + l + k /\ j \in 1 .. b + c /\ ~(j <= b) /\ j - b = k
    BY <1>3
  <2> QED
    BY <1>4, <2>1
<1> QED
  BY <1>3, <1>4, <1>5, <1>6, <1>7 DEF AlJoined

\* The blocks around the one of which a part is given out.
AlPlaced(r, s, n, i, g, l) ==
  /\ Len(r) = n + l - 1
  /\ \A k \in 1 .. i - 1 : r[k] = s[k]
  /\ \A k \in 1 .. l : r[i - 1 + k] = g[k]
  /\ \A k \in 1 .. n - i : r[i - 1 + l + k] = s[i + k]

LEMMA AlPut ==
  ASSUME NEW s \in Seq(AlBlock), NEW n \in Nat, n = Len(s), NEW i \in 1 .. n,
         NEW g \in Seq(AlBlock), NEW l \in Nat, l = Len(g),
         NEW r, r = SubSeq(s, 1, i - 1) \o g \o SubSeq(s, i + 1, n)
  PROVE  r \in Seq(AlBlock) /\ AlPlaced(r, s, n, i, g, l)
<1>0. \A k \in 1 .. n : s[k] \in AlBlock
  BY ElementOfSeq
<1>1. PICK u : u = SubSeq(s, 1, i - 1)
  OBVIOUS
<1>2. PICK v : v = SubSeq(s, i + 1, n)
  OBVIOUS
<1>3. PICK a, c : a = i - 1 /\ c = n - i /\ a \in Nat /\ c \in Nat
  OBVIOUS
<1>4. u \in Seq(AlBlock) /\ Len(u) = a /\ \A k \in 1 .. a : u[k] = s[k]
  <2>1. \A k \in 1 .. a : s[k] \in AlBlock
    BY <1>0, <1>3
  <2>2. 1 \in Int /\ a \in Int /\ u = SubSeq(s, 1, a)
    BY <1>1, <1>3
  <2>3. /\ SubSeq(s, 1, a) \in Seq(AlBlock)
        /\ Len(SubSeq(s, 1, a)) = (IF 1 <= a THEN a - 1 + 1 ELSE 0)
        /\ \A k \in 1 .. a - 1 + 1 : SubSeq(s, 1, a)[k] = s[1 + k - 1]
    BY ONLY <2>1, <2>2, SubSeqProperties
  <2>4. Len(u) = a /\ \A k \in 1 .. a : k \in 1 .. a - 1 + 1 /\ 1 + k - 1 = k
    BY <1>3, <2>2, <2>3
  <2> QED
    BY <2>2, <2>3, <2>4
<1>5. v \in Seq(AlBlock) /\ Len(v) = c /\ \A k \in 1 .. c : v[k] = s[i + k]
  <2>0. PICK j : j = i + 1 /\ j \in Int
    OBVIOUS
  <2>1. \A k \in j .. n : s[k] \in AlBlock
    BY <1>0, <2>0
  <2>2. v \in Seq(AlBlock) /\ Len(v) = (IF j <= n THEN n - j + 1 ELSE 0)
        /\ \A k \in 1 .. n - j + 1 : v[k] = s[j + k - 1]
    <3>1. n \in Int /\ j \in Int /\ v = SubSeq(s, j, n)
      BY <1>2, <2>0
    <3>2. /\ SubSeq(s, j, n) \in Seq(AlBlock)
          /\ Len(SubSeq(s, j, n)) = (IF j <= n THEN n - j + 1 ELSE 0)
          /\ \A k \in 1 .. n - j + 1 : SubSeq(s, j, n)[k] = s[j + k - 1]
      BY ONLY <2>1, <3>1, SubSeqProperties
    <3> QED
      BY <3>1, <3>2
  <2>3. ASSUME NEW k \in 1 .. c PROVE v[k] = s[i + k]
    <3>1. k \in 1 .. n - j + 1 /\ j + k - 1 = i + k
      BY <1>3, <2>0
    <3> QED
      BY <2>2, <3>1
  <2> QED
    BY <1>3, <2>0, <2>2, <2>3
<1>6. r \in Seq(AlBlock) /\ AlJoined(r, u, g, v, a, l, c)
  <2>1. r = u \o g \o v
    BY <1>1, <1>2
  <2>2. u \in Seq(AlBlock) /\ v \in Seq(AlBlock) /\ Len(u) = a /\ Len(v) = c
    BY <1>4, <1>5
  <2> QED
    BY ONLY <1>3, <2>1, <2>2, AlThree, g \in Seq(AlBlock), l \in Nat, l = Len(g)
<1>7. /\ Len(r) = a + l + c
      /\ \A k \in 1 .. a : r[k] = u[k]
      /\ \A k \in 1 .. l : r[a + k] = g[k]
      /\ \A k \in 1 .. c : r[a + l + k] = v[k]
  BY <1>6 DEF AlJoined
<1>8. Len(r) = n + l - 1
  <2>1. a + l + c = n + l - 1
    BY <1>3
  <2> QED
    BY <1>7, <2>1
<1>9. \A k \in 1 .. i - 1 : r[k] = s[k]
  BY <1>3, <1>4, <1>7
<1>10. \A k \in 1 .. l : r[i - 1 + k] = g[k]
  BY <1>3, <1>7
<1>11. \A k \in 1 .. n - i : r[i - 1 + l + k] = s[i + k]
  BY <1>3, <1>5, <1>7
<1> QED
  BY <1>6, <1>8, <1>9, <1>10, <1>11 DEF AlPlaced

LEMMA AlAllocate ==
  ASSUME AlInv, NEW size \in Requests, Memory!PoolAllocate(size)
  PROVE  AlInv'
<1>1. /\ Len(blocks) \in Nat \ {0} /\ DOMAIN blocks = 1 .. Len(blocks) /\ HEADER \in Nat \ {0}
      /\ \A k \in 1 .. Len(blocks) : /\ blocks[k] \in AlBlock
                                     /\ blocks[k].at \in Nat /\ blocks[k].size \in Nat
                                     /\ blocks[k].free \in {0, 1}
      /\ \A k, j \in 1 .. Len(blocks) : blocks[k].at = blocks[j].at => k = j
  BY AlFacts
<1>2. PICK n : n = Len(blocks) /\ n \in Nat \ {0}
  BY <1>1
<1>3. size \in Nat /\ HEADER \in Nat \ {0} /\ blocks \in Seq(AlBlock)
  BY AlConstants DEF AlInv
<1>4. PICK i : i = Memory!Min(Memory!Fits(size))
  OBVIOUS
<1>5. i \in 1 .. n /\ blocks[i].free = 1 /\ blocks[i].size >= size
  <2>1. Memory!Fits(size) \subseteq Nat
    BY <1>1 DEF Memory!Fits
  <2>3. Memory!Fits(size) # {}
    BY DEF Memory!PoolAllocate
  <2>2. i \in Memory!Fits(size)
    BY <1>4, <2>1, <2>3, AlLeast
  <2> QED
    BY <1>1, <1>2, <2>2 DEF Memory!Fits
<1>6. PICK b : b = blocks[i]
  OBVIOUS
<1>7. /\ b \in AlBlock /\ b.at \in Nat /\ b.size \in Nat /\ b.free = 1 /\ b.size >= size
      /\ b = [at |-> b.at, size |-> b.size, free |-> b.free]
  BY <1>1, <1>2, <1>5, <1>6 DEF AlBlock
<1>8. PICK g : g = Memory!GivenOut(b, size)
  OBVIOUS
<1>9. PICK r : r = blocks'
  OBVIOUS
<1>10. /\ r = SubSeq(blocks, 1, i - 1) \o g \o SubSeq(blocks, i + 1, Len(blocks))
       /\ asked' = [a \in DOMAIN asked \cup {b.at} |-> IF a = b.at THEN size ELSE asked[a]]
       /\ PoolSize' = PoolSize
  BY <1>4, <1>6, <1>8, <1>9 DEF Memory!PoolAllocate
\* What is given out, and the rest if there is one, are where the block was.
<1>11. /\ g \in Seq(AlBlock) /\ Len(g) \in {1, 2}
       /\ g[1].at = b.at /\ g[1].free = 0 /\ g[1].size >= size
       /\ AlEnd(g[Len(g)]) = AlEnd(b)
       /\ Len(g) = 2 => AlEnd(g[1]) = g[2].at /\ g[2].free = 1
  <2>1. CASE b.size > size + HEADER
    <3>1. PICK c : c = [b EXCEPT !.size = size, !.free = 0]
      OBVIOUS
    <3>2. PICK d : d = [at |-> b.at + HEADER + size, size |-> b.size - size - HEADER, free |-> 1]
      OBVIOUS
    <3>3. g = <<c, d>>
      BY <1>8, <2>1, <3>1, <3>2 DEF Memory!GivenOut, Memory!SplitBlock
    <3>4. c = [at |-> b.at, size |-> size, free |-> 0]
      BY <1>7, <3>1
    <3>5. c \in AlBlock /\ c.at = b.at /\ c.size = size /\ c.free = 0
      BY <1>3, <1>7, <3>4 DEF AlBlock
    <3>6. /\ d.at = b.at + HEADER + size /\ d.size = b.size - size - HEADER /\ d.free = 1
          /\ d.at \in Nat /\ d.size \in Nat
      BY <1>3, <1>7, <2>1, <3>2
    <3>7. d \in AlBlock
      BY <3>2, <3>6 DEF AlBlock
    <3>8. AlEnd(c) = d.at /\ AlEnd(d) = AlEnd(b)
      BY <1>3, <1>7, <3>5, <3>6 DEF AlEnd
    <3>9. g \in Seq(AlBlock) /\ Len(g) = 2 /\ g[1] = c /\ g[2] = d
      BY <3>3, <3>5, <3>7
    <3> QED
      BY <1>3, <3>5, <3>6, <3>8, <3>9
  <2>2. CASE ~(b.size > size + HEADER)
    <3>1. PICK c : c = [b EXCEPT !.free = 0]
      OBVIOUS
    <3>2. g = <<c>>
      BY <1>8, <2>2, <3>1 DEF Memory!GivenOut
    <3>3. c = [at |-> b.at, size |-> b.size, free |-> 0]
      BY <1>7, <3>1
    <3>4. c \in AlBlock /\ c.at = b.at /\ c.size = b.size /\ c.free = 0 /\ AlEnd(c) = AlEnd(b)
      BY <1>7, <3>3 DEF AlBlock, AlEnd
    <3>5. g \in Seq(AlBlock) /\ Len(g) = 1 /\ g[1] = c
      BY <3>2, <3>4
    <3> QED
      BY <1>7, <3>4, <3>5
  <2> QED
    BY <2>1, <2>2
<1>12. PICK l : l = Len(g) /\ l \in {1, 2} /\ l \in Nat
  BY <1>11
<1>13. /\ r \in Seq(AlBlock) /\ Len(r) = n + l - 1
       /\ \A k \in 1 .. i - 1 : r[k] = blocks[k]
       /\ \A k \in 1 .. l : r[i - 1 + k] = g[k]
       /\ \A k \in 1 .. n - i : r[i - 1 + l + k] = blocks[i + k]
  <2>0. r \in Seq(AlBlock) /\ AlPlaced(r, blocks, n, i, g, l)
    <3>1. r = SubSeq(blocks, 1, i - 1) \o g \o SubSeq(blocks, i + 1, n)
      BY <1>2, <1>10
    <3>2. n \in Nat /\ g \in Seq(AlBlock)
      BY <1>2, <1>11
    <3> QED
      BY ONLY <1>2, <1>3, <1>5, <1>12, <3>1, <3>2, AlPut
  <2> QED
    BY <2>0 DEF AlPlaced
<1>14. PICK m : m = n + l - 1 /\ m \in Nat \ {0} /\ Len(r) = m
  <2>1. n + l - 1 \in Nat \ {0}
    BY <1>2, <1>12
  <2> QED
    BY <1>13, <2>1
<1>16. /\ \A k \in 1 .. n : k < i => r[k] = blocks[k]
       /\ r[i] = g[1] /\ r[i + l - 1] = g[l]
       /\ \A j \in 1 .. n : j > i => r[j + l - 1] = blocks[j]
  <2>1. ASSUME NEW k \in 1 .. n, k < i PROVE r[k] = blocks[k]
    <3>1. k \in 1 .. i - 1
      BY <1>2, <1>5, <2>1
    <3> QED
      BY <1>13, <3>1
  <2>2. r[i] = g[1]
    <3>1. 1 \in 1 .. l /\ i - 1 + 1 = i
      BY <1>2, <1>5, <1>12
    <3> QED
      BY <1>13, <3>1
  <2>3. r[i + l - 1] = g[l]
    <3>1. l \in 1 .. l /\ i - 1 + l = i + l - 1
      BY <1>2, <1>5, <1>12
    <3> QED
      BY <1>13, <3>1
  <2>4. ASSUME NEW j \in 1 .. n, j > i PROVE r[j + l - 1] = blocks[j]
    <3>1. PICK k : k = j - i
      OBVIOUS
    <3>2. k \in 1 .. n - i /\ i + k = j /\ i - 1 + l + k = j + l - 1
      BY <1>2, <1>5, <1>12, <2>4, <3>1
    <3>3. r[i - 1 + l + k] = blocks[i + k]
      BY <1>13, <3>2
    <3> QED
      BY <3>2, <3>3
  <2> QED
    BY <2>1, <2>2, <2>3, <2>4
\* Where each block of the new list comes from.
<1>15. ASSUME NEW k \in 1 .. m
       PROVE  \/ k < i /\ k \in 1 .. n /\ r[k] = blocks[k]
              \/ r[k] = g[1]
              \/ l = 2 /\ r[k] = g[2]
              \/ \E j \in 1 .. n : r[k] = blocks[j]
  <2>0. k \in Int /\ i \in Int /\ n \in Int /\ l \in Int
    BY <1>2, <1>5, <1>12
  <2>1. CASE k < i
    <3>1. k \in 1 .. n
      BY <1>2, <1>5, <2>1
    <3> QED
      BY <1>16, <2>1, <3>1
  <2>2. CASE k = i
    BY <1>16, <2>2
  <2>3. CASE k > i /\ k < i + l
    <3>1. k = i + l - 1 /\ l = 2
      <4>1. l = 1 \/ l = 2
        BY <1>12
      <4> QED
        BY <2>0, <2>3, <4>1
    <3> QED
      BY <1>16, <3>1
  <2>4. CASE k >= i + l
    <3>1. PICK j : j = k - l + 1
      OBVIOUS
    <3>2. j \in 1 .. n /\ j > i /\ j + l - 1 = k
      BY <1>5, <1>12, <1>14, <2>0, <2>4, <3>1
    <3> QED
      BY <1>16, <3>2
  <2> QED
    BY <2>0, <2>1, <2>2, <2>3, <2>4
<1>17. /\ \A k \in 1 .. n : k < n => AlEnd(blocks[k]) = blocks[k + 1].at
       /\ \A k \in 1 .. n - 1 : blocks[k].free = 0 \/ blocks[k + 1].free = 0
  BY <1>2 DEF AlInv, AlTiles, AlApart
<1>18. ASSUME NEW k \in 1 .. m, k < m
       PROVE  AlEnd(r[k]) = r[k + 1].at /\ (r[k].free = 0 \/ r[k + 1].free = 0)
  <2>1. CASE k < i
    <3>1. r[k] = blocks[k] /\ k \in 1 .. n /\ k < n /\ k + 1 \in 1 .. n /\ k \in 1 .. n - 1
      BY <1>2, <1>5, <1>16, <2>1
    <3>2. CASE k + 1 < i
      BY <1>16, <1>17, <3>1, <3>2
    <3>3. CASE ~(k + 1 < i)
      <4>1. k + 1 = i
        BY <1>5, <2>1, <3>3
      <4> QED
        BY <1>6, <1>11, <1>16, <1>17, <3>1, <4>1
    <3> QED
      BY <3>2, <3>3
  <2>2. CASE k = i /\ l = 2
    <3>1. r[k] = g[1] /\ r[k + 1] = g[2]
      <4>1. i + l - 1 = k + 1
        BY <1>5, <2>2
      <4> QED
        BY <1>16, <2>2, <4>1
    <3> QED
      BY <1>11, <1>12, <2>2, <3>1
  <2>3. CASE k = i + l - 1
    <3>0. PICK j : j = i + 1
      OBVIOUS
    <3>1. j = i + 1 /\ j \in 1 .. n /\ j > i /\ j + l - 1 = k + 1 /\ i < n /\ i \in 1 .. n - 1
      BY <1>2, <1>5, <1>12, <1>14, <1>18, <2>3, <3>0
    <3>2. r[k] = g[l] /\ r[k + 1] = blocks[j] /\ AlEnd(g[l]) = AlEnd(b)
      BY <1>11, <1>12, <1>16, <2>3, <3>1
    <3>3. AlEnd(b) = blocks[j].at /\ blocks[j].free = 0
      BY <1>5, <1>6, <1>17, <3>1
    <3> QED
      BY <3>2, <3>3
  <2>4. CASE k > i + l - 1
    <3>0. PICK j : j = k - l + 1
      OBVIOUS
    <3>1. /\ j \in 1 .. n /\ j > i /\ j + l - 1 = k /\ j < n
          /\ j + 1 \in 1 .. n /\ j + 1 > i /\ (j + 1) + l - 1 = k + 1 /\ j \in 1 .. n - 1
      BY <1>2, <1>5, <1>12, <1>14, <1>18, <2>4, <3>0
    <3>2. r[k] = blocks[j] /\ r[k + 1] = blocks[j + 1]
      BY <1>16, <3>1
    <3> QED
      BY <1>17, <3>1, <3>2
  <2>5. k < i \/ (k = i /\ l = 2) \/ k = i + l - 1 \/ k > i + l - 1
    <3>1. k \in Int /\ i \in Int /\ l \in Int
      BY <1>5, <1>12
    <3>2. l = 1 \/ l = 2
      BY <1>12
    <3> QED
      BY <3>1, <3>2
  <2> QED
    BY <2>1, <2>2, <2>3, <2>4, <2>5
<1>19. AlTiles(r, Len(r)) /\ AlApart(r)
  <2>1. \A k \in 1 .. m - 1 : k \in 1 .. m /\ k < m
    BY <1>14
  <2> QED
    BY <1>14, <1>18, <2>1 DEF AlTiles, AlApart
<1>20. r[1].at = 0
  <2>1. CASE i = 1
    BY <1>6, <1>11, <1>16, <2>1 DEF AlInv
  <2>2. CASE i # 1
    <3>1. 1 \in 1 .. n /\ 1 < i
      BY <1>2, <1>5, <2>2
    <3> QED
      BY <1>16, <3>1 DEF AlInv
  <2> QED
    BY <2>1, <2>2
<1>21. AlEnd(r[m]) = PoolSize
  <2>1. AlEnd(blocks[n]) = PoolSize
    BY <1>2 DEF AlInv
  <2>2. CASE i = n
    <3>1. i + l - 1 = m
      BY <1>14, <2>2
    <3> QED
      BY <1>6, <1>11, <1>12, <1>16, <2>1, <2>2, <3>1
  <2>3. CASE i # n
    <3>1. n \in 1 .. n /\ n > i /\ n + l - 1 = m
      BY <1>2, <1>5, <1>14, <2>3
    <3> QED
      BY <1>16, <2>1, <3>1
  <2> QED
    BY <2>2, <2>3
<1>22. AlUsed(r, m) = AlUsed(blocks, n) \cup {g[1]}
  <2>1. ASSUME NEW x \in AlUsed(r, m) PROVE x \in AlUsed(blocks, n) \cup {g[1]}
    <3>1. PICK k \in 1 .. m : x = r[k] /\ r[k].free = 0
      BY <2>1 DEF AlUsed
    <3>2. \/ k \in 1 .. n /\ r[k] = blocks[k]
          \/ r[k] = g[1]
          \/ l = 2 /\ r[k] = g[2]
          \/ \E j \in 1 .. n : r[k] = blocks[j]
      BY <1>15
    <3>3. ~(l = 2 /\ r[k] = g[2])
      BY <1>11, <1>12, <3>1
    <3> QED
      BY <3>1, <3>2, <3>3 DEF AlUsed
  <2>2. ASSUME NEW x \in AlUsed(blocks, n) PROVE x \in AlUsed(r, m)
    <3>1. PICK j \in 1 .. n : x = blocks[j] /\ blocks[j].free = 0
      BY <2>2 DEF AlUsed
    <3>2. j # i
      BY <1>5, <3>1
    <3>3. CASE j < i
      <4>1. j \in 1 .. m /\ r[j] = blocks[j]
        BY <1>2, <1>12, <1>14, <1>16, <3>3
      <4> QED
        BY <3>1, <4>1 DEF AlUsed
    <3>4. CASE j > i
      <4>1. j + l - 1 \in 1 .. m /\ r[j + l - 1] = blocks[j]
        BY <1>2, <1>12, <1>14, <1>16, <3>4
      <4> QED
        BY <3>1, <4>1 DEF AlUsed
    <3> QED
      BY <1>5, <3>2, <3>3, <3>4
  <2>3. g[1] \in AlUsed(r, m)
    <3>1. i \in 1 .. m /\ r[i] = g[1] /\ g[1].free = 0
      BY <1>2, <1>5, <1>11, <1>12, <1>14, <1>16
    <3> QED
      BY <3>1 DEF AlUsed
  <2> QED
    BY <2>1, <2>2, <2>3
<1>23. \A x \in AlUsed(blocks, n) : x.at # b.at
  <2>1. ASSUME NEW x \in AlUsed(blocks, n) PROVE x.at # b.at
    <3>1. PICK j \in 1 .. n : x = blocks[j] /\ blocks[j].free = 0
      BY DEF AlUsed
    <3> QED
      BY <1>1, <1>2, <1>5, <1>6, <3>1
  <2> QED
    BY <2>1
<1>24. DOMAIN asked' = {x.at : x \in AlUsed(r, m)}
  <2>1. DOMAIN asked = {x.at : x \in AlUsed(blocks, n)} /\ DOMAIN asked' = DOMAIN asked \cup {b.at}
    BY <1>2, <1>10 DEF AlInv
  <2> QED
    BY <1>11, <1>22, <2>1
<1>25. \A x \in AlUsed(r, m) : x.size >= asked'[x.at]
  <2>1. \A a \in DOMAIN asked \cup {b.at} : asked'[a] = IF a = b.at THEN size ELSE asked[a]
    BY <1>10
  <2>2. asked'[g[1].at] = size
    BY <1>11, <2>1
  <2>3. \A x \in AlUsed(blocks, n) : asked'[x.at] = asked[x.at] /\ x.size >= asked[x.at]
    BY <1>2, <1>23, <2>1 DEF AlInv
  <2> QED
    BY <1>11, <1>22, <2>2, <2>3
<1> QED
  BY <1>9, <1>10, <1>13, <1>14, <1>19, <1>20, <1>21, <1>24, <1>25, EmptySeq DEF AlInv

LEMMA AlStep == AlInv /\ (Memory!PoolNext \/ UNCHANGED pieces) => AlInv'
<1> SUFFICES ASSUME AlInv, Memory!PoolNext \/ UNCHANGED pieces PROVE AlInv'
  OBVIOUS
<1>1. CASE UNCHANGED pieces
  BY <1>1 DEF pieces, AlInv, AlTiles, AlApart, AlUsed
<1>2. ASSUME NEW size \in Requests, Memory!PoolAllocate(size) PROVE AlInv'
  BY <1>2, AlAllocate
<1>3. ASSUME NEW i \in DOMAIN blocks, Memory!PoolFree(i) PROVE AlInv'
  BY <1>3, AlFree
<1> QED
  BY <1>1, <1>2, <1>3 DEF Memory!PoolNext

LEMMA AlImplies == AlInv => Memory!Tiles /\ Memory!PointersHeld
<1> SUFFICES ASSUME AlInv PROVE Memory!Tiles /\ Memory!PointersHeld
  OBVIOUS
<1>1. Len(blocks) \in Nat \ {0} /\ DOMAIN blocks = 1 .. Len(blocks)
  BY AlFacts
<1>2. Memory!Tiles
  <2>1. ASSUME NEW i \in 1 .. Len(blocks) - 1
        PROVE  /\ blocks[i].at + HEADER + blocks[i].size = blocks[i + 1].at
               /\ blocks[i].free = 0 \/ blocks[i + 1].free = 0
    <3>1. i \in 1 .. Len(blocks) /\ i < Len(blocks)
      BY <1>1
    <3> QED
      BY <3>1 DEF AlInv, AlTiles, AlApart, AlEnd
  <2>2. /\ blocks[1].at = 0
        /\ blocks[Len(blocks)].at + HEADER + blocks[Len(blocks)].size = PoolSize
    BY DEF AlInv, AlEnd
  <2> QED
    BY <2>1, <2>2 DEF Memory!Tiles
<1>3. Memory!PointersHeld
  <2>1. DOMAIN asked = {b.at : b \in AlUsed(blocks, Len(blocks))}
        /\ \A b \in AlUsed(blocks, Len(blocks)) : b.size >= asked[b.at]
    BY DEF AlInv
  <2>2. AlUsed(blocks, Len(blocks)) = {blocks[i] : i \in {i \in DOMAIN blocks : blocks[i].free = 0}}
    BY <1>1 DEF AlUsed
  <2>3. DOMAIN asked = {blocks[i].at : i \in {i \in DOMAIN blocks : blocks[i].free = 0}}
    BY <2>1, <2>2
  <2>4. ASSUME NEW i \in DOMAIN blocks, blocks[i].free = 0
        PROVE  blocks[i].size >= asked[blocks[i].at]
    BY <2>1, <2>2, <2>4
  <2> QED
    BY <2>3, <2>4 DEF Memory!PointersHeld
<1> QED
  BY <1>2, <1>3
-----------------------------------------------------------------------------
(* The paged memory manager.                                               *)

PgPages == 0 .. TOTAL_PAGES - 1
PgInv == page_table \in [PgPages -> {0, 1}]

LEMMA PgStarts == Memory!PagesInit => PgInv
BY DEF Memory!PagesInit, PgInv, PgPages, Memory!Pages, Memory!FREE

LEMMA PgStep == PgInv /\ (Memory!PagesNext \/ UNCHANGED paged) => PgInv'
<1> SUFFICES ASSUME PgInv, Memory!PagesNext \/ UNCHANGED paged PROVE PgInv'
  OBVIOUS
<1>0. Memory!Pages = PgPages /\ Memory!FREE = 0 /\ Memory!USED = 1
  BY DEF Memory!Pages, PgPages, Memory!FREE, Memory!USED
<1>1. CASE UNCHANGED paged
  BY <1>1 DEF paged, PgInv
<1>2. ASSUME NEW n \in 1 .. TOTAL_PAGES, Memory!allocate_pages(n) PROVE PgInv'
  <2>1. CASE Memory!Allocate(n)
    BY <1>0, <2>1 DEF Memory!Allocate, PgInv
  <2>2. CASE Memory!NotEnough(n)
    BY <2>2 DEF Memory!NotEnough, PgInv
  <2> QED
    BY <1>2, <2>1, <2>2 DEF Memory!allocate_pages
<1>3. ASSUME NEW n \in 1 .. TOTAL_PAGES, NEW start \in PgPages, Memory!free_pages(start, n)
      PROVE  PgInv'
  BY <1>0, <1>3 DEF Memory!free_pages, PgInv
<1> QED
  BY <1>0, <1>1, <1>2, <1>3 DEF Memory!PagesNext

\* The loop of find_free_block, one page at a time.
LEMMA PgCounts ==
  /\ Memory!FreeBefore[-1] = 0
  /\ \A i \in PgPages : Memory!FreeBefore[i] =
       IF page_table[i] = 0 THEN Memory!FreeBefore[i - 1] + 1 ELSE 0
<1>0. TOTAL_PAGES \in Nat \ {0} /\ Memory!FREE = 0
  BY AlConstants DEF Memory!FREE
<1> DEFINE Bad == {m \in 0 .. TOTAL_PAGES :
                     ~\E g : g = [k \in -1 .. m - 1 |->
                                    IF k = -1 THEN 0
                                    ELSE IF page_table[k] = 0 THEN g[k - 1] + 1 ELSE 0]}
<1>1. Bad = {}
  <2>1. SUFFICES ASSUME Bad # {} PROVE FALSE
    OBVIOUS
  <2>3. PICK m \in Bad : \A y \in Bad : m <= y
    <3>1. Bad \subseteq Nat
      OBVIOUS
    <3> QED
      BY <2>1, <3>1, LeastNumber
  <2>4. m # 0
    <3>1. ASSUME m = 0 PROVE FALSE
      <4> DEFINE g == [k \in -1 .. m - 1 |-> 0]
      <4>1. \A k \in -1 .. m - 1 : k = -1
        BY <3>1
      <4>2. g = [k \in -1 .. m - 1 |->
                   IF k = -1 THEN 0 ELSE IF page_table[k] = 0 THEN g[k - 1] + 1 ELSE 0]
        BY <4>1
      <4> QED
        BY <4>2
    <3> QED
      BY <3>1
  <2>5. m \in Nat /\ m - 1 \in 0 .. TOTAL_PAGES /\ m - 1 \notin Bad
    <3>1. m \in 0 .. TOTAL_PAGES
      OBVIOUS
    <3>2. m - 1 \in Bad => m <= m - 1
      BY <2>3
    <3> HIDE DEF Bad
    <3> QED
      BY <1>0, <2>4, <3>1, <3>2
  <2>6. PICK g : g = [k \in -1 .. (m - 1) - 1 |->
                        IF k = -1 THEN 0 ELSE IF page_table[k] = 0 THEN g[k - 1] + 1 ELSE 0]
    BY <2>5
  <2>7. PICK l : l = m - 1 /\ l \in Nat /\ l - 1 = (m - 1) - 1
    BY <2>4, <2>5
  <2> DEFINE next == IF page_table[l] = 0 THEN g[l - 1] + 1 ELSE 0
             f == [k \in -1 .. l |-> IF k = l THEN next ELSE g[k]]
  <2>8. ASSUME NEW k \in -1 .. l
        PROVE  f[k] = IF k = -1 THEN 0 ELSE IF page_table[k] = 0 THEN f[k - 1] + 1 ELSE 0
    <3>1. CASE k = l
      <4>1. k # -1 /\ k - 1 \in -1 .. l /\ k - 1 # l
        BY <2>7, <3>1
      <4>2. f[k - 1] = g[k - 1]
        BY <4>1
      <4> QED
        BY <3>1, <4>1, <4>2
    <3>2. CASE k = -1
      <4>1. k # l /\ k \in -1 .. l - 1
        BY <2>7, <3>2
      <4>2. f[k] = g[k] /\ g[k] = 0
        BY <2>6, <2>7, <3>2, <4>1
      <4> QED
        BY <3>2, <4>2
    <3>3. CASE k # l /\ k # -1
      <4>1. k \in -1 .. l - 1 /\ k - 1 \in -1 .. l /\ k - 1 # l
        BY <2>7, <3>3
      <4>2. f[k - 1] = g[k - 1] /\ f[k] = g[k]
        BY <3>3, <4>1
      <4>3. g[k] = IF page_table[k] = 0 THEN g[k - 1] + 1 ELSE 0
        BY <2>6, <2>7, <3>3, <4>1
      <4> QED
        BY <3>3, <4>2, <4>3
    <3> QED
      BY <3>1, <3>2, <3>3
  <2>9. f = [k \in -1 .. l |-> IF k = -1 THEN 0 ELSE IF page_table[k] = 0 THEN f[k - 1] + 1 ELSE 0]
    BY <2>8
  <2> QED
    BY <2>3, <2>7, <2>9
<1>2. TOTAL_PAGES \notin Bad /\ TOTAL_PAGES \in 0 .. TOTAL_PAGES
  <2>1. TOTAL_PAGES \in 0 .. TOTAL_PAGES
    BY <1>0
  <2>2. TOTAL_PAGES \notin Bad
    <3> HIDE DEF Bad
    <3> QED
      BY ONLY <1>1
  <2> QED
    BY ONLY <2>1, <2>2
<1>3. PICK f : f = Memory!FreeBefore
  OBVIOUS
<1>4. f = [k \in -1 .. TOTAL_PAGES - 1 |->
             IF k = -1 THEN 0 ELSE IF page_table[k] = 0 THEN f[k - 1] + 1 ELSE 0]
  BY <1>0, <1>2, <1>3 DEF Memory!FreeBefore
<1>5. -1 \in -1 .. TOTAL_PAGES - 1
  BY <1>0
<1>6. \A i \in PgPages : i \in -1 .. TOTAL_PAGES - 1 /\ i # -1
  BY <1>0 DEF PgPages
<1> QED
  BY <1>3, <1>4, <1>5, <1>6

\* The count is how far back the last used page is.
PgRun(i, c) ==
  /\ c \in 0 .. i + 1
  /\ \A j \in 0 .. i : j > i - c => page_table[j] = 0
  /\ \A j \in 0 .. i : j = i - c => page_table[j] # 0

LEMMA PgCount ==
  ASSUME PgInv, NEW i \in PgPages
  PROVE  PgRun(i, Memory!FreeBefore[i])
<1>0. TOTAL_PAGES \in Nat \ {0} /\ \A k \in PgPages : k \in Nat
  BY AlConstants DEF PgPages
<1>1. PICK f : f = Memory!FreeBefore
  OBVIOUS
<1>2. f[-1] = 0 /\ \A k \in PgPages : f[k] = IF page_table[k] = 0 THEN f[k - 1] + 1 ELSE 0
  BY <1>1, PgCounts
<1> DEFINE Bad == {k \in PgPages : ~PgRun(k, f[k])}
<1>3. Bad = {}
  <2>1. SUFFICES ASSUME Bad # {} PROVE FALSE
    OBVIOUS
  <2>2. PICK k \in Bad : \A y \in Bad : k <= y
    <3>1. Bad \subseteq Nat
      BY <1>0
    <3> QED
      BY <2>1, <3>1, LeastNumber
  <2>3. k \in PgPages /\ ~PgRun(k, f[k]) /\ k \in Nat
    BY <1>0
  <2>4. PICK c, d : c = f[k] /\ d = f[k - 1]
    OBVIOUS
  <2>5. c = IF page_table[k] = 0 THEN d + 1 ELSE 0
    BY <1>2, <2>3, <2>4
  <2>6. CASE page_table[k] # 0
    <3>1. c = 0
      BY <2>5, <2>6
    <3>2. PgRun(k, c)
      BY <2>3, <2>6, <3>1 DEF PgRun
    <3> QED
      BY <2>3, <2>4, <3>2
  <2>7. CASE page_table[k] = 0 /\ k = 0
    <3>1. d = 0
      <4>1. k - 1 = -1
        BY <2>7
      <4> QED
        BY <1>2, <2>4, <4>1
    <3>2. c = 1
      BY <2>5, <2>7, <3>1
    <3>3. PgRun(k, c)
      BY <2>7, <3>2 DEF PgRun
    <3> QED
      BY <2>3, <2>4, <3>3
  <2>8. CASE page_table[k] = 0 /\ k # 0
    <3>1. PICK l : l = k - 1 /\ l \in Nat /\ k = l + 1
      BY <2>3, <2>8
    <3>2. l \in PgPages /\ l \notin Bad
      <4>1. l \in Bad => k <= l
        BY <2>2
      <4>2. l \notin Bad
        <5> HIDE DEF Bad
        <5> QED
          BY <2>3, <3>1, <4>1
      <4>3. l \in PgPages
        BY <1>0, <2>3, <3>1 DEF PgPages
      <4> QED
        BY <4>2, <4>3
    <3>3. PgRun(l, d)
      BY <2>4, <3>1, <3>2
    <3>4. /\ d \in 0 .. l + 1
          /\ \A j \in 0 .. l : j > l - d => page_table[j] = 0
          /\ \A j \in 0 .. l : j = l - d => page_table[j] # 0
      BY <3>3 DEF PgRun
    <3>5. c = d + 1 /\ c \in 0 .. k + 1 /\ k - c = l - d
      BY <2>5, <2>8, <3>1, <3>4
    <3>6. ASSUME NEW j \in 0 .. k
          PROVE  (j > k - c => page_table[j] = 0) /\ (j = k - c => page_table[j] # 0)
      <4>1. CASE j = k
        <5>1. j # k - c
          BY <2>3, <3>4, <3>5, <4>1
        <5> QED
          BY <2>8, <4>1, <5>1
      <4>2. CASE j # k
        <5>1. j \in 0 .. l
          BY <3>1, <4>2
        <5> QED
          BY <3>4, <3>5, <5>1
      <4> QED
        BY <4>1, <4>2
    <3>7. PgRun(k, c)
      BY <3>5, <3>6 DEF PgRun
    <3> QED
      BY <2>3, <2>4, <3>7
  <2> QED
    BY <2>6, <2>7, <2>8
<1> QED
  BY <1>1, <1>3

LEMMA PgImplies == PgInv => Memory!FirstFit
<1> SUFFICES ASSUME PgInv, NEW n \in 1 .. TOTAL_PAGES,
                    NEW ends, ends = {i \in PgPages : Memory!FreeBefore[i] = n},
                    NEW starts, starts = {s \in PgPages : Memory!Run(s, n)}
             PROVE  (IF ends = {} THEN -1 ELSE Memory!Min(ends) - n + 1)
                      = (IF starts = {} THEN -1 ELSE Memory!Min(starts))
  BY DEF Memory!FirstFit, Memory!find_free_block, Memory!Pages, PgPages
<1>0. TOTAL_PAGES \in Nat \ {0} /\ n \in Nat \ {0} /\ n <= TOTAL_PAGES
      /\ (\A k \in PgPages : k \in Nat /\ k < TOTAL_PAGES)
      /\ (\A k \in Nat : k < TOTAL_PAGES => k \in PgPages)
  BY AlConstants DEF PgPages
<1>1. \A s : s \in starts <=> /\ s \in PgPages /\ s + n <= TOTAL_PAGES
                              /\ \A i \in s .. s + n - 1 : page_table[i] = 0
  BY DEF Memory!Run, Memory!FREE
\* A run of n pages that ends here begins n pages before.
<1>2. ASSUME NEW i \in ends
      PROVE  i - n + 1 \in starts
  <2>1. i \in PgPages /\ PgRun(i, n)
    BY PgCount
  <2>2. i \in Nat /\ i < TOTAL_PAGES
    BY <1>0, <2>1
  <2>3. n \in 0 .. i + 1 /\ \A j \in 0 .. i : j > i - n => page_table[j] = 0
    BY <2>1 DEF PgRun
  <2>4. PICK s : s = i - n + 1 /\ s \in Nat /\ s < TOTAL_PAGES /\ s + n <= TOTAL_PAGES
                 /\ s + n - 1 = i /\ s > i - n
    BY <1>0, <2>2, <2>3
  <2>5. \A j \in s .. s + n - 1 : page_table[j] = 0
    BY <2>2, <2>3, <2>4
  <2> QED
    BY <1>0, <1>1, <2>4, <2>5
\* A run that begins here, or before, has its nth page not later than n from here.
<1>3. ASSUME NEW s \in starts
      PROVE  \E i \in ends : i - n + 1 <= s
  <2>1. /\ s \in PgPages /\ s + n <= TOTAL_PAGES /\ s \in Nat
        /\ \A i \in s .. s + n - 1 : page_table[i] = 0
    BY <1>0, <1>1
  <2>2. PICK e : e = s + n - 1 /\ e \in Nat /\ e \in PgPages
    BY <1>0, <2>1
  <2>3. PICK c : c = Memory!FreeBefore[e]
    OBVIOUS
  <2>4. /\ c \in 0 .. e + 1
        /\ \A j \in 0 .. e : j > e - c => page_table[j] = 0
        /\ \A j \in 0 .. e : j = e - c => page_table[j] # 0
    BY <2>2, <2>3, PgCount DEF PgRun
  <2>5. c >= n
    <3>1. ASSUME c < n PROVE FALSE
      <4>1. e - c \in 0 .. e /\ e - c \in s .. s + n - 1
        BY <1>0, <2>1, <2>2, <2>4, <3>1
      <4> QED
        BY <2>1, <2>4, <4>1
    <3> QED
      BY <1>0, <2>4, <3>1
  <2>6. PICK i : i = e - c + n /\ i \in Nat /\ i <= e /\ i - n = e - c /\ i - n + 1 <= s
    BY <1>0, <2>1, <2>2, <2>4, <2>5
  <2>7. i \in PgPages
    BY <1>0, <2>2, <2>6
  <2>8. PICK d : d = Memory!FreeBefore[i]
    OBVIOUS
  <2>9. /\ d \in 0 .. i + 1
        /\ \A j \in 0 .. i : j > i - d => page_table[j] = 0
        /\ \A j \in 0 .. i : j = i - d => page_table[j] # 0
    BY <2>7, <2>8, PgCount DEF PgRun
  <2>10. ~(d < n)
    <3>1. ASSUME d < n PROVE FALSE
      <4>1. i - d \in 0 .. i /\ i - d \in 0 .. e /\ i - d > e - c
        BY <1>0, <2>2, <2>4, <2>6, <2>9, <3>1
      <4> QED
        BY <2>4, <2>9, <4>1
    <3> QED
      BY <3>1
  <2>11. ~(d > n)
    <3>1. ASSUME d > n PROVE FALSE
      <4>1. e - c \in 0 .. e /\ e - c \in 0 .. i /\ e - c > i - d
        BY <1>0, <2>2, <2>4, <2>6, <2>9, <3>1
      <4> QED
        BY <2>4, <2>9, <4>1
    <3> QED
      BY <3>1
  <2>12. d = n
    BY <1>0, <2>9, <2>10, <2>11
  <2> QED
    BY <2>6, <2>7, <2>8, <2>12
<1>4. CASE ends = {}
  BY <1>3, <1>4
<1>5. CASE ends # {}
  <2>1. ends \subseteq Nat /\ starts \subseteq Nat /\ starts # {}
    BY <1>0, <1>2, <1>5
  <2>2. PICK e, s : e = Memory!Min(ends) /\ s = Memory!Min(starts)
    OBVIOUS
  <2>3. /\ e \in ends /\ \A y \in ends : e <= y
        /\ s \in starts /\ \A y \in starts : s <= y
    BY <1>5, <2>1, <2>2, AlLeast
  <2>4. s <= e - n + 1
    BY <1>2, <2>3
  <2>5. PICK i \in ends : i - n + 1 <= s
    BY <1>3, <2>3
  <2>6. e <= i /\ e \in Nat /\ i \in Nat /\ s \in Nat
    BY <2>1, <2>3
  <2>7. s = e - n + 1
    BY <1>0, <2>4, <2>5, <2>6
  <2> QED
    BY <1>5, <2>1, <2>2, <2>7
<1> QED
  BY <1>4, <1>5
-----------------------------------------------------------------------------
(* Linked lists.  A chain is described by the sequence of its records.     *)

ChDistinct(s) == \A i, j \in 1 .. Len(s) : s[i] = s[j] => i = j
ChFirst(s) == IF Len(s) = 0 THEN 0 ELSE s[1]
ChAfter(s, k) == IF k = Len(s) THEN 0 ELSE s[k + 1]
ChLinked(f, i, s) == i = ChFirst(s) /\ \A k \in 1 .. Len(s) : f[s[k]] = ChAfter(s, k)
ChRange(s) == {s[k] : k \in 1 .. Len(s)}
\* The first record is put in, record k is taken out.
ChPush(s, n) == [j \in 1 .. Len(s) + 1 |-> IF j = 1 THEN n ELSE s[j - 1]]
ChDrop(s, k) == [j \in 1 .. Len(s) - 1 |-> IF j < k THEN s[j] ELSE s[j + 1]]

\* Functions on 1 .. n are sequences.
LEMMA ChSeq ==
  ASSUME NEW D, NEW n \in Nat, NEW s \in [1 .. n -> D]
  PROVE  s \in Seq(D) /\ Len(s) = n /\ DOMAIN s = 1 .. n
<1>1. s \in Seq(D)
  BY SeqDef
<1> QED
  BY <1>1, LenProperties

LEMMA ChPushed ==
  ASSUME NEW D, NEW s \in Seq(D), NEW n \in D
  PROVE  /\ ChPush(s, n) \in Seq(D) /\ Len(ChPush(s, n)) = Len(s) + 1
         /\ \A j \in 1 .. Len(s) + 1 : ChPush(s, n)[j] = IF j = 1 THEN n ELSE s[j - 1]
<1>1. Len(s) \in Nat /\ \A j \in 1 .. Len(s) : s[j] \in D
  BY LenProperties, ElementOfSeq
<1>2. ChPush(s, n) \in [1 .. Len(s) + 1 -> D] /\ Len(s) + 1 \in Nat
  BY <1>1 DEF ChPush
<1>3. ChPush(s, n) \in Seq(D) /\ Len(ChPush(s, n)) = Len(s) + 1
  BY <1>2, ChSeq
<1> QED
  BY <1>3 DEF ChPush

LEMMA ChDropped ==
  ASSUME NEW D, NEW s \in Seq(D), NEW k \in 1 .. Len(s)
  PROVE  /\ ChDrop(s, k) \in Seq(D) /\ Len(ChDrop(s, k)) = Len(s) - 1
         /\ \A j \in 1 .. Len(s) - 1 : ChDrop(s, k)[j] = IF j < k THEN s[j] ELSE s[j + 1]
<1>1. Len(s) \in Nat /\ \A j \in 1 .. Len(s) : s[j] \in D
  BY LenProperties, ElementOfSeq
<1>2. ChDrop(s, k) \in [1 .. Len(s) - 1 -> D] /\ Len(s) - 1 \in Nat
  BY <1>1 DEF ChDrop
<1>3. ChDrop(s, k) \in Seq(D) /\ Len(ChDrop(s, k)) = Len(s) - 1
  BY <1>2, ChSeq
<1> QED
  BY <1>3 DEF ChDrop

\* A list without repetition is not longer than there are records.
LEMMA ChShort ==
  ASSUME NEW D, IsFiniteSet(D), NEW s \in Seq(D), ChDistinct(s)
  PROVE  Len(s) \in Nat /\ Cardinality(D) \in Nat /\ Len(s) <= Cardinality(D)
<1>1. Len(s) \in Nat /\ s \in [1 .. Len(s) -> D]
  BY LenProperties
<1>2. s \in Injection(1 .. Len(s), D)
  BY <1>1 DEF ChDistinct, Injection, IsInjective
<1>3. Cardinality(1 .. Len(s)) <= Cardinality(D)
  BY <1>2, FS_Injection
<1>4. Cardinality(1 .. Len(s)) = IF 1 > Len(s) THEN 0 ELSE Len(s) - 1 + 1
  BY <1>1, FS_Interval
<1>5. Cardinality(D) \in Nat
  BY FS_CardinalityType
<1> QED
  BY <1>1, <1>3, <1>4, <1>5

LEMMA ChCardinality ==
  \A S : /\ Files!Cardinality(S) = Cardinality(S)
         /\ Blocks!Cardinality(S) = Cardinality(S)
         /\ Lru!Cardinality(S) = Cardinality(S)
BY DEF Files!Cardinality, Files!IsFiniteSet, Blocks!Cardinality, Blocks!IsFiniteSet,
       Lru!Cardinality, Lru!IsFiniteSet, Cardinality, IsFiniteSet

\* The records that Chain comes to from i are those of the sequence.
LEMMA ChainIs ==
  ASSUME NEW D, IsFiniteSet(D), 0 \notin D, NEW f \in [D -> D \cup {0}], NEW i,
         NEW s \in Seq(D), ChDistinct(s), ChLinked(f, i, s)
  PROVE  Files!Chain(f, i) = s /\ Blocks!Chain(f, i) = s /\ Lru!Chain(f, i) = s
<1> DEFINE n == Files!Cardinality(DOMAIN f)
           after == [x \in DOMAIN f \cup {0} |-> IF x = 0 THEN 0 ELSE f[x]]
           Steps(g) == g = [k \in 0 .. n |-> IF k = 0 THEN i ELSE after[g[k - 1]]]
           w == [k \in 0 .. n |-> IF k < Len(s) THEN s[k + 1] ELSE 0]
<1>1. /\ Len(s) \in Nat /\ n \in Nat /\ Len(s) <= n /\ s \in [1 .. Len(s) -> D]
      /\ DOMAIN f = D
  BY ChShort, LenProperties, ChCardinality
<1>2. \A k \in 0 .. n : w[k] = IF k = 0 THEN i ELSE after[w[k - 1]]
  <2> TAKE k \in 0 .. n
  <2> HIDE DEF n
  <2>1. CASE k = 0
    BY <1>1, <2>1 DEF ChLinked, ChFirst
  <2>2. CASE k # 0
    <3>1. k - 1 \in 0 .. n /\ k \in Nat /\ (k - 1) + 1 = k
      BY <1>1, <2>2
    <3>2. w[k - 1] = IF k - 1 < Len(s) THEN s[k] ELSE 0
      BY <3>1
    <3>3. CASE k - 1 < Len(s)
      <4>1. k \in 1 .. Len(s) /\ s[k] \in D /\ s[k] # 0
        BY <1>1, <3>1, <3>3, <2>2
      <4>2. after[w[k - 1]] = f[s[k]]
        BY <1>1, <3>2, <3>3, <4>1
      <4>3. f[s[k]] = IF k = Len(s) THEN 0 ELSE s[k + 1]
        BY <4>1 DEF ChLinked, ChAfter
      <4>4. w[k] = IF k < Len(s) THEN s[k + 1] ELSE 0
        OBVIOUS
      <4>5. (k = Len(s)) <=> ~(k < Len(s))
        BY ONLY <4>1, Len(s) \in Nat
      <4>6. w[k] = f[s[k]]
        BY <4>3, <4>4, <4>5
      <4> QED
        BY <2>2, <4>2, <4>6
    <3>4. CASE ~(k - 1 < Len(s))
      <4>1. after[w[k - 1]] = 0 /\ ~(k < Len(s))
        BY <1>1, <3>1, <3>2, <3>4
      <4> QED
        BY <2>2, <4>1
    <3> QED
      BY <3>3, <3>4
  <2> QED
    BY <2>1, <2>2
<1>3. Steps(w)
  BY <1>2
<1>4. ASSUME NEW g, Steps(g) PROVE g = w
  <2> DEFINE Bad == {k \in 0 .. n : g[k] # w[k]}
  <2>1. Bad = {}
    <3> SUFFICES ASSUME Bad # {} PROVE FALSE
      OBVIOUS
    <3>1. PICK k \in Bad : \A y \in Bad : k <= y
      <4>1. Bad \subseteq Nat
        OBVIOUS
      <4> QED
        BY <4>1, LeastNumber
    <3>2. k \in 0 .. n /\ g[k] # w[k]
      OBVIOUS
    <3>3. g[k] = IF k = 0 THEN i ELSE after[g[k - 1]]
      BY <1>4, <3>2
    <3>4. k # 0
      BY <1>2, <3>2, <3>3
    <3>5. k - 1 \in 0 .. n /\ ~(k <= k - 1)
      <4> HIDE DEF Bad, n
      <4> QED
        BY <1>1, <3>2, <3>4
    <3>6. g[k - 1] = w[k - 1]
      BY <3>1, <3>5
    <3>7. w[k] = after[w[k - 1]]
      BY <1>2, <3>2, <3>4
    <3> HIDE DEF w, after, Bad, n
    <3> QED
      BY <3>2, <3>3, <3>4, <3>6, <3>7
  <2>2. g = [k \in 0 .. n |-> g[k]] /\ w = [k \in 0 .. n |-> w[k]]
    BY <1>4
  <2> QED
    BY <2>1, <2>2
<1> DEFINE G == CHOOSE g : Steps(g)
<1>5. G = w
  <2>1. Steps(G)
    BY <1>3
  <2> HIDE DEF G, Steps
  <2> QED
    BY <1>4, <2>1
<1>6. {j \in 0 .. n : w[j] # 0} = 0 .. Len(s) - 1
  <2> HIDE DEF n
  <2>1. ASSUME NEW j \in 0 .. n PROVE w[j] # 0 <=> j < Len(s)
    <3>1. CASE j < Len(s)
      <4>1. j + 1 \in 1 .. Len(s) /\ s[j + 1] \in D
        BY <1>1, <3>1
      <4> QED
        BY <3>1, <4>1
    <3> QED
      BY <3>1
  <2> HIDE DEF w
  <2>2. ASSUME NEW j PROVE j \in 0 .. n /\ j < Len(s) <=> j \in 0 .. Len(s) - 1
    BY <1>1
  <2> QED
    BY <2>1, <2>2
<1>7. Cardinality(0 .. Len(s) - 1) = Len(s)
  <2>1. Cardinality(0 .. Len(s) - 1) = IF 0 > Len(s) - 1 THEN 0 ELSE Len(s) - 1 - 0 + 1
    <3>1. 0 \in Int /\ Len(s) - 1 \in Int
      BY <1>1
    <3> QED
      BY ONLY <3>1, FS_Interval
  <2> QED
    BY <1>1, <2>1
<1>8. s = [k \in 1 .. Len(s) |-> w[k - 1]]
  <2> HIDE DEF n
  <2>1. ASSUME NEW k \in 1 .. Len(s) PROVE s[k] = w[k - 1]
    <3>1. k - 1 \in 0 .. n /\ k - 1 < Len(s) /\ (k - 1) + 1 = k
      BY <1>1
    <3> QED
      BY <3>1
  <2> QED
    BY <1>1, <2>1
<1>9. s = [k \in 1 .. Files!Cardinality({j \in 0 .. n : G[j] # 0}) |-> G[k - 1]]
  <2>1. Files!Cardinality({j \in 0 .. n : w[j] # 0}) = Len(s)
    <3> HIDE DEF n, w
    <3> QED
      BY <1>6, <1>7, ChCardinality
  <2> HIDE DEF n, w, G
  <2> QED
    BY <1>5, <1>8, <2>1
<1>10. Files!Chain(f, i) = s
  BY <1>9 DEF Files!Chain, Files!NULL
<1>11. Blocks!Chain(f, i) = Files!Chain(f, i)
  BY DEF Files!Chain, Files!NULL, Files!Cardinality, Files!IsFiniteSet,
         Blocks!Chain, Blocks!NULL, Blocks!Cardinality, Blocks!IsFiniteSet
<1>12. Lru!Chain(f, i) = Files!Chain(f, i)
  BY DEF Files!Chain, Files!NULL, Files!Cardinality, Files!IsFiniteSet,
         Lru!Chain, Lru!NULL, Lru!Cardinality, Lru!IsFiniteSet
<1> QED
  BY <1>10, <1>11, <1>12

\* What is before a record and last, and which of two records comes first.
ChBefore(s, k) == IF k = 1 THEN 0 ELSE s[k - 1]
ChLast(s) == IF Len(s) = 0 THEN 0 ELSE s[Len(s)]
ChOrder(s, x, y) == \A i, j \in 1 .. Len(s) : s[i] = x /\ s[j] = y => i < j
\* Where the record was that is at j once record k is gone.
ChOld(k, j) == IF j < k THEN j ELSE j + 1

ChIsPush(D, s, n, t) ==
  /\ Len(s) \in Nat /\ t \in Seq(D) /\ Len(t) = Len(s) + 1 /\ t[1] = n /\ 1 \in 1 .. Len(t)
  /\ \A k \in 1 .. Len(s) : k + 1 \in 1 .. Len(t) /\ t[k + 1] = s[k]
  /\ \A j \in 1 .. Len(t) : j = 1 \/ (j - 1 \in 1 .. Len(s) /\ t[j] = s[j - 1])
ChIsDrop(D, s, k, t) ==
  /\ Len(s) \in Nat /\ t \in Seq(D) /\ Len(t) = Len(s) - 1
  /\ \A j \in 1 .. Len(t) : /\ ChOld(k, j) \in 1 .. Len(s) /\ ChOld(k, j) # k
                            /\ t[j] = s[ChOld(k, j)]
  /\ \A i \in 1 .. Len(s) : i # k => \E j \in 1 .. Len(t) : i = ChOld(k, j) /\ t[j] = s[i]
  /\ \A i, j \in 1 .. Len(t) : (i < j) <=> (ChOld(k, i) < ChOld(k, j))

LEMMA ChPushPlaces ==
  ASSUME NEW D, NEW s \in Seq(D), NEW n \in D, NEW t, t = ChPush(s, n)
  PROVE  ChIsPush(D, s, n, t)
<1>1. Len(s) \in Nat
  BY LenProperties
<1>2. /\ t \in Seq(D) /\ Len(t) = Len(s) + 1
      /\ \A j \in 1 .. Len(s) + 1 : t[j] = IF j = 1 THEN n ELSE s[j - 1]
  <2>1. /\ ChPush(s, n) \in Seq(D) /\ Len(ChPush(s, n)) = Len(s) + 1
        /\ \A j \in 1 .. Len(s) + 1 : ChPush(s, n)[j] = IF j = 1 THEN n ELSE s[j - 1]
    <3>1. s \in Seq(D) /\ n \in D
      OBVIOUS
    <3> QED
      BY ONLY <3>1, ChPushed
  <2>2. t = ChPush(s, n)
    OBVIOUS
  <2> QED
    BY ONLY <2>1, <2>2
<1>3. ASSUME NEW k \in 1 .. Len(s) PROVE k + 1 \in 1 .. Len(t) /\ t[k + 1] = s[k]
  <2>1. k + 1 \in 1 .. Len(s) + 1 /\ k + 1 # 1 /\ (k + 1) - 1 = k
    BY <1>1
  <2> QED
    BY <1>2, <2>1
<1>4. ASSUME NEW j \in 1 .. Len(t) PROVE j = 1 \/ (j - 1 \in 1 .. Len(s) /\ t[j] = s[j - 1])
  BY <1>1, <1>2
<1>5. 1 \in 1 .. Len(t)
  BY <1>1, <1>2
<1> QED
  BY <1>1, <1>2, <1>3, <1>4, <1>5 DEF ChIsPush

LEMMA ChDropPlaces ==
  ASSUME NEW D, NEW s \in Seq(D), NEW k \in 1 .. Len(s), NEW t, t = ChDrop(s, k)
  PROVE  ChIsDrop(D, s, k, t)
<1>1. Len(s) \in Nat
  BY LenProperties
<1>2. /\ t \in Seq(D) /\ Len(t) = Len(s) - 1
      /\ \A j \in 1 .. Len(s) - 1 : t[j] = IF j < k THEN s[j] ELSE s[j + 1]
  BY ChDropped
<1>3. ASSUME NEW j \in 1 .. Len(t)
      PROVE  ChOld(k, j) \in 1 .. Len(s) /\ ChOld(k, j) # k /\ t[j] = s[ChOld(k, j)]
  <2>1. j \in 1 .. Len(s) - 1 /\ t[j] = IF j < k THEN s[j] ELSE s[j + 1]
    BY <1>2
  <2>2. j \in 1 .. Len(s) /\ j + 1 \in 1 .. Len(s) /\ k \in Int
    BY <1>1, <2>1
  <2>3. ChOld(k, j) # k
    BY <2>2 DEF ChOld
  <2> QED
    BY <2>1, <2>2, <2>3 DEF ChOld
<1>4. ASSUME NEW i \in 1 .. Len(s), i # k
      PROVE  \E j \in 1 .. Len(t) : i = ChOld(k, j) /\ t[j] = s[i]
  <2>1. CASE i < k
    <3>1. i \in 1 .. Len(t) /\ i = ChOld(k, i)
      BY <1>1, <1>2, <2>1 DEF ChOld
    <3> QED
      BY <1>3, <3>1
  <2>2. CASE ~(i < k)
    <3>1. PICK j \in Int : j = i - 1
      OBVIOUS
    <3>2. j \in 1 .. Len(t) /\ ~(j < k) /\ j + 1 = i
      BY <1>1, <1>2, <1>4, <2>2, <3>1
    <3>3. i = ChOld(k, j)
      BY <3>2 DEF ChOld
    <3> QED
      BY <1>3, <3>2, <3>3
  <2> QED
    BY <2>1, <2>2
<1>5. ASSUME NEW i \in 1 .. Len(t), NEW j \in 1 .. Len(t)
      PROVE  (i < j) <=> (ChOld(k, i) < ChOld(k, j))
  BY DEF ChOld
<1> QED
  BY <1>1, <1>2, <1>3, <1>4, <1>5 DEF ChIsDrop

\* A record that is new keeps a list without repetition.
LEMMA ChPushRange ==
  ASSUME NEW D, NEW s \in Seq(D), ChDistinct(s), NEW n \in D, n \notin ChRange(s)
  PROVE  ChDistinct(ChPush(s, n)) /\ ChRange(ChPush(s, n)) = ChRange(s) \cup {n}
<1>1. PICK t : t = ChPush(s, n)
  OBVIOUS
<1>2. /\ Len(s) \in Nat /\ t \in Seq(D) /\ Len(t) = Len(s) + 1 /\ t[1] = n /\ 1 \in 1 .. Len(t)
      /\ \A k \in 1 .. Len(s) : k + 1 \in 1 .. Len(t) /\ t[k + 1] = s[k]
      /\ \A j \in 1 .. Len(t) : j = 1 \/ (j - 1 \in 1 .. Len(s) /\ t[j] = s[j - 1])
  <2>1. ChIsPush(D, s, n, t)
    BY <1>1, ChPushPlaces
  <2> QED
    BY <2>1 DEF ChIsPush
<1>3. \A k \in 1 .. Len(s) : s[k] # n
  BY DEF ChRange
<1>4. ChDistinct(t)
  <2>1. ASSUME NEW i \in 1 .. Len(t), NEW j \in 1 .. Len(t), t[i] = t[j] PROVE i = j
    <3>1. CASE i = 1 \/ j = 1
      BY <1>2, <1>3, <2>1, <3>1
    <3>2. CASE i # 1 /\ j # 1
      <4>1. i - 1 \in 1 .. Len(s) /\ j - 1 \in 1 .. Len(s) /\ s[i - 1] = s[j - 1]
        BY <1>2, <2>1, <3>2
      <4>2. i - 1 = j - 1 /\ i \in Int /\ j \in Int
        BY <4>1 DEF ChDistinct
      <4> QED
        BY <4>2
    <3> QED
      BY <3>1, <3>2
  <2> QED
    BY <2>1 DEF ChDistinct
<1>5. ChRange(t) = ChRange(s) \cup {n}
  <2>1. ASSUME NEW x \in ChRange(t) PROVE x \in ChRange(s) \cup {n}
    <3>1. PICK j \in 1 .. Len(t) : x = t[j]
      BY DEF ChRange
    <3>2. CASE j = 1
      BY <1>2, <3>1, <3>2
    <3>3. CASE j # 1
      <4>1. j - 1 \in 1 .. Len(s) /\ x = s[j - 1]
        BY <1>2, <3>1, <3>3
      <4> QED
        BY <4>1 DEF ChRange
    <3> QED
      BY <3>2, <3>3
  <2>2. ASSUME NEW x \in ChRange(s) PROVE x \in ChRange(t)
    BY <1>2 DEF ChRange
  <2>3. n \in ChRange(t)
    BY <1>2 DEF ChRange
  <2> QED
    BY <2>1, <2>2, <2>3
<1> QED
  BY <1>1, <1>4, <1>5

LEMMA ChDropRange ==
  ASSUME NEW D, NEW s \in Seq(D), ChDistinct(s), NEW k \in 1 .. Len(s)
  PROVE  ChDistinct(ChDrop(s, k)) /\ ChRange(ChDrop(s, k)) = ChRange(s) \ {s[k]}
<1>1. PICK t : t = ChDrop(s, k)
  OBVIOUS
<1>2. /\ Len(s) \in Nat /\ t \in Seq(D) /\ Len(t) = Len(s) - 1
      /\ \A j \in 1 .. Len(t) : /\ ChOld(k, j) \in 1 .. Len(s) /\ ChOld(k, j) # k
                                /\ t[j] = s[ChOld(k, j)]
      /\ \A i \in 1 .. Len(s) : i # k => \E j \in 1 .. Len(t) : i = ChOld(k, j) /\ t[j] = s[i]
      /\ \A i, j \in 1 .. Len(t) : (i < j) <=> (ChOld(k, i) < ChOld(k, j))
  <2>1. ChIsDrop(D, s, k, t)
    BY <1>1, ChDropPlaces
  <2> QED
    BY <2>1 DEF ChIsDrop
<1>3. ChDistinct(t)
  <2>1. ASSUME NEW i \in 1 .. Len(t), NEW j \in 1 .. Len(t), t[i] = t[j] PROVE i = j
    <3>1. ChOld(k, i) = ChOld(k, j)
      BY <1>2, <2>1 DEF ChDistinct
    <3>2. k \in Int /\ i \in Int /\ j \in Int
      OBVIOUS
    <3> QED
      BY ONLY <3>1, <3>2 DEF ChOld
  <2> QED
    BY <2>1 DEF ChDistinct
<1>4. ASSUME NEW x \in ChRange(t) PROVE x \in ChRange(s) \ {s[k]}
  <2>1. PICK j \in 1 .. Len(t) : x = t[j]
    BY DEF ChRange
  <2>2. ChOld(k, j) \in 1 .. Len(s) /\ ChOld(k, j) # k /\ x = s[ChOld(k, j)]
    BY <1>2, <2>1
  <2> QED
    BY <2>2 DEF ChRange, ChDistinct
<1>5. ASSUME NEW x \in ChRange(s), x # s[k] PROVE x \in ChRange(t)
  <2>1. PICK i \in 1 .. Len(s) : x = s[i]
    BY DEF ChRange
  <2>2. i # k
    BY <1>5, <2>1
  <2>3. PICK j \in 1 .. Len(t) : t[j] = s[i]
    BY <1>2, <2>2
  <2> QED
    BY <2>1, <2>3 DEF ChRange
<1> QED
  BY <1>1, <1>3, <1>4, <1>5

\* A chain with a record put in front.
LEMMA ChPushLinked ==
  ASSUME NEW D, NEW s \in Seq(D), NEW n \in D, NEW f, NEW g, NEW i, ChLinked(f, i, s),
         g[n] = i, \A x \in ChRange(s) : g[x] = f[x]
  PROVE  ChLinked(g, n, ChPush(s, n))
<1>1. PICK t : t = ChPush(s, n)
  OBVIOUS
<1>2. /\ Len(s) \in Nat /\ t \in Seq(D) /\ Len(t) = Len(s) + 1 /\ t[1] = n /\ 1 \in 1 .. Len(t)
      /\ \A k \in 1 .. Len(s) : k + 1 \in 1 .. Len(t) /\ t[k + 1] = s[k]
      /\ \A j \in 1 .. Len(t) : j = 1 \/ (j - 1 \in 1 .. Len(s) /\ t[j] = s[j - 1])
  <2>1. ChIsPush(D, s, n, t)
    BY <1>1, ChPushPlaces
  <2> QED
    BY <2>1 DEF ChIsPush
<1>3. n = ChFirst(t)
  BY <1>2 DEF ChFirst
<1>4. ASSUME NEW j \in 1 .. Len(t) PROVE g[t[j]] = ChAfter(t, j)
  <2>1. CASE j = 1
    <3>1. g[t[j]] = ChFirst(s)
      BY <1>2, <2>1 DEF ChLinked
    <3>2. CASE Len(s) = 0
      BY <1>2, <2>1, <3>1, <3>2 DEF ChFirst, ChAfter
    <3>3. CASE Len(s) # 0
      <4>1. 1 \in 1 .. Len(s) /\ j # Len(t)
        BY <1>2, <2>1, <3>3
      <4>2. t[1 + 1] = s[1]
        BY <1>2, <4>1
      <4> QED
        BY <2>1, <3>1, <3>3, <4>1, <4>2 DEF ChFirst, ChAfter
    <3> QED
      BY <3>2, <3>3
  <2>2. CASE j # 1
    <3>1. j - 1 \in 1 .. Len(s) /\ t[j] = s[j - 1]
      BY <1>2, <2>2
    <3>2. s[j - 1] \in ChRange(s)
      BY <3>1 DEF ChRange
    <3>3. g[t[j]] = ChAfter(s, j - 1)
      BY <3>1, <3>2 DEF ChLinked
    <3>4. CASE j = Len(t)
      <4>1. j - 1 = Len(s)
        BY <1>2, <3>4
      <4> QED
        BY <3>3, <3>4, <4>1 DEF ChAfter
    <3>5. CASE j # Len(t)
      <4>1. j - 1 # Len(s) /\ j \in 1 .. Len(s) /\ (j - 1) + 1 = j
        BY <1>2, <3>5
      <4>2. t[j + 1] = s[j]
        BY <1>2, <4>1
      <4> QED
        BY <3>3, <3>5, <4>1, <4>2 DEF ChAfter
    <3> QED
      BY <3>4, <3>5
  <2> QED
    BY <2>1, <2>2
<1> QED
  BY <1>1, <1>3, <1>4 DEF ChLinked

\* A chain without record k: the pointer that led to it leads to the next one.
LEMMA ChDropLinked ==
  ASSUME NEW D, 0 \notin D, NEW s \in Seq(D), ChDistinct(s), NEW k \in 1 .. Len(s),
         NEW f, NEW g, NEW i, ChLinked(f, i, s),
         \A x \in ChRange(s) : x # s[k] => g[x] = IF f[x] = s[k] THEN f[s[k]] ELSE f[x]
  PROVE  ChLinked(g, IF i = s[k] THEN f[s[k]] ELSE i, ChDrop(s, k))
<1>1. PICK t : t = ChDrop(s, k)
  OBVIOUS
<1>2. /\ Len(s) \in Nat /\ t \in Seq(D) /\ Len(t) = Len(s) - 1
      /\ \A j \in 1 .. Len(s) - 1 : t[j] = IF j < k THEN s[j] ELSE s[j + 1]
      /\ \A j \in 1 .. Len(s) : s[j] \in D /\ s[j] # 0
  BY <1>1, ChDropped, LenProperties, ElementOfSeq
<1>3. \A j \in 1 .. Len(s) : f[s[j]] = ChAfter(s, j)
  BY DEF ChLinked
<1>4. (IF i = s[k] THEN f[s[k]] ELSE i) = ChFirst(t)
  <2>1. i = s[1] /\ 1 \in 1 .. Len(s)
    BY <1>2 DEF ChLinked, ChFirst
  <2>2. i = s[k] <=> k = 1
    BY <2>1 DEF ChDistinct
  <2>3. CASE k = 1
    <3>1. CASE Len(s) = 1
      BY <1>2, <1>3, <2>2, <2>3, <3>1 DEF ChAfter, ChFirst
    <3>2. CASE Len(s) # 1
      <4>1. 1 \in 1 .. Len(s) - 1 /\ Len(t) # 0
        BY <1>2, <3>2
      <4>2. t[1] = s[1 + 1]
        BY <1>2, <2>3, <4>1
      <4> QED
        BY <1>3, <2>1, <2>2, <2>3, <3>2, <4>1, <4>2 DEF ChAfter, ChFirst
    <3> QED
      BY <3>1, <3>2
  <2>4. CASE k # 1
    <3>1. 1 \in 1 .. Len(s) - 1 /\ 1 < k /\ Len(t) # 0
      BY <1>2, <2>4
    <3>2. t[1] = s[1]
      BY <1>2, <3>1
    <3> QED
      BY <2>1, <2>2, <2>4, <3>1, <3>2 DEF ChFirst
  <2> QED
    BY <2>3, <2>4
<1>5. ASSUME NEW j \in 1 .. Len(t) PROVE g[t[j]] = ChAfter(t, j)
  <2>1. j \in 1 .. Len(s) - 1 /\ j \in 1 .. Len(s) /\ j + 1 \in 1 .. Len(s) /\ j \in Nat
    BY <1>2
  <2>2. CASE j < k
    <3>1. t[j] = s[j] /\ s[j] \in ChRange(s) /\ j # k
      BY <1>2, <2>1, <2>2 DEF ChRange
    <3>2. s[j] # s[k]
      BY <2>1, <3>1 DEF ChDistinct
    <3>3. f[s[j]] = s[j + 1]
      <4>1. j # Len(s)
        BY <1>2, <2>1
      <4> QED
        BY <1>3, <2>1, <4>1 DEF ChAfter
    <3>4. s[j + 1] = s[k] <=> j + 1 = k
      BY <2>1 DEF ChDistinct
    <3>5. g[t[j]] = IF j + 1 = k THEN f[s[k]] ELSE s[j + 1]
      BY <3>1, <3>2, <3>3, <3>4
    <3>6. CASE j + 1 = k
      <4>1. CASE k = Len(s)
        <5>1. j = Len(t)
          BY <1>2, <2>1, <3>6, <4>1
        <5> QED
          BY <1>3, <3>5, <3>6, <4>1, <5>1 DEF ChAfter
      <4>2. CASE k # Len(s)
        <5>1. j # Len(t) /\ j + 1 \in 1 .. Len(s) - 1 /\ ~(j + 1 < k)
          BY <1>2, <2>1, <3>6, <4>2
        <5>2. t[j + 1] = s[(j + 1) + 1]
          BY <1>2, <5>1
        <5>3. f[s[k]] = s[k + 1]
          BY <1>3, <4>2 DEF ChAfter
        <5> QED
          BY <3>5, <3>6, <5>1, <5>2, <5>3 DEF ChAfter
      <4> QED
        BY <4>1, <4>2
    <3>7. CASE j + 1 # k
      <4>1. j + 1 < k /\ j + 1 \in 1 .. Len(s) - 1 /\ j # Len(t)
        BY <1>2, <2>1, <2>2, <3>7
      <4>2. t[j + 1] = s[j + 1]
        BY <1>2, <4>1
      <4> QED
        BY <3>5, <3>7, <4>1, <4>2 DEF ChAfter
    <3> QED
      BY <3>6, <3>7
  <2>3. CASE ~(j < k)
    <3>1. t[j] = s[j + 1] /\ s[j + 1] \in ChRange(s) /\ j + 1 # k
      BY <1>2, <2>1, <2>3 DEF ChRange
    <3>2. s[j + 1] # s[k]
      BY <2>1, <3>1 DEF ChDistinct
    <3>3. f[s[j + 1]] = ChAfter(s, j + 1)
      BY <1>3, <2>1
    <3>4. CASE j + 1 = Len(s)
      <4>1. j = Len(t) /\ f[s[j + 1]] = 0
        BY <1>2, <2>1, <3>3, <3>4 DEF ChAfter
      <4>2. 0 # s[k]
        BY <1>2
      <4> QED
        BY <3>1, <3>2, <4>1, <4>2 DEF ChAfter
    <3>5. CASE j + 1 # Len(s)
      <4>1. /\ j # Len(t) /\ j + 1 \in 1 .. Len(s) - 1 /\ ~(j + 1 < k)
            /\ (j + 1) + 1 \in 1 .. Len(s) /\ (j + 1) + 1 # k
        BY <1>2, <2>1, <2>3, <3>5
      <4>2. f[s[j + 1]] = s[(j + 1) + 1] /\ s[(j + 1) + 1] # s[k]
        BY <3>3, <3>5, <4>1 DEF ChAfter, ChDistinct
      <4>3. t[j + 1] = s[(j + 1) + 1]
        BY <1>2, <4>1
      <4> QED
        BY <3>1, <3>2, <4>1, <4>2, <4>3 DEF ChAfter
    <3> QED
      BY <3>4, <3>5
  <2> QED
    BY <2>2, <2>3
<1> QED
  BY <1>1, <1>4, <1>5 DEF ChLinked

\* A list without repetition is as long as it has records.
LEMMA ChCount ==
  ASSUME NEW D, NEW s \in Seq(D), ChDistinct(s)
  PROVE  Len(s) \in Nat /\ IsFiniteSet(ChRange(s)) /\ Cardinality(ChRange(s)) = Len(s)
<1>1. Len(s) \in Nat /\ s \in [1 .. Len(s) -> D]
  BY LenProperties
<1>2. s \in Surjection(1 .. Len(s), ChRange(s)) /\ s \in Injection(1 .. Len(s), ChRange(s))
  <2>1. s \in [1 .. Len(s) -> ChRange(s)] /\ \A y \in ChRange(s) : \E k \in 1 .. Len(s) : s[k] = y
    BY <1>1 DEF ChRange
  <2> QED
    BY <2>1 DEF ChDistinct, Surjection, Injection, IsInjective
<1>3. IsFiniteSet(1 .. Len(s)) /\ Cardinality(1 .. Len(s)) = IF 1 > Len(s) THEN 0 ELSE Len(s) - 1 + 1
  BY <1>1, FS_Interval
<1>4. IsFiniteSet(ChRange(s)) /\ Cardinality(ChRange(s)) = Cardinality(1 .. Len(s))
  BY <1>2, <1>3, FS_Surjection
<1> QED
  BY <1>1, <1>3, <1>4

\* A list that is linked both ways.
DlLinked(head, tail, prev, next, s) ==
  /\ ChLinked(next, head, s) /\ tail = ChLast(s)
  /\ \A k \in 1 .. Len(s) : prev[s[k]] = ChBefore(s, k)

\* Record n is linked in front.
DlIn(head, prev, next, s, n, prev2, next2) ==
  /\ next2[n] = head /\ prev2[n] = 0
  /\ \A x \in ChRange(s) : next2[x] = next[x] /\ prev2[x] = IF x = head THEN n ELSE prev[x]

LEMMA DlPush ==
  ASSUME NEW D, 0 \notin D, NEW s \in Seq(D), ChDistinct(s), NEW n \in D,
         NEW head, NEW tail, NEW prev, NEW next, DlLinked(head, tail, prev, next, s),
         NEW prev2, NEW next2, DlIn(head, prev, next, s, n, prev2, next2)
  PROVE  DlLinked(n, IF tail = 0 THEN n ELSE tail, prev2, next2, ChPush(s, n))
<1>0. /\ next2[n] = head /\ \A x \in ChRange(s) : next2[x] = next[x]
      /\ prev2[n] = 0 /\ \A x \in ChRange(s) : prev2[x] = IF x = head THEN n ELSE prev[x]
  BY DEF DlIn
<1>1. PICK t : t = ChPush(s, n)
  OBVIOUS
<1>2. /\ Len(s) \in Nat /\ t \in Seq(D) /\ Len(t) = Len(s) + 1 /\ t[1] = n /\ 1 \in 1 .. Len(t)
      /\ \A k \in 1 .. Len(s) : k + 1 \in 1 .. Len(t) /\ t[k + 1] = s[k]
      /\ \A j \in 1 .. Len(t) : j = 1 \/ (j - 1 \in 1 .. Len(s) /\ t[j] = s[j - 1])
  <2>1. ChIsPush(D, s, n, t)
    BY <1>1, ChPushPlaces
  <2> QED
    BY <2>1 DEF ChIsPush
<1>3. ChLinked(next2, n, t)
  BY <1>0, <1>1, ChPushLinked DEF DlLinked
<1>4. \A k \in 1 .. Len(s) : s[k] \in D /\ s[k] # 0
  BY ElementOfSeq
<1>5. (IF tail = 0 THEN n ELSE tail) = ChLast(t)
  <2>1. CASE Len(s) = 0
    BY <1>2, <2>1 DEF DlLinked, ChLast
  <2>2. CASE Len(s) # 0
    <3>1. Len(s) \in 1 .. Len(s) /\ Len(t) # 0
      BY <1>2, <2>2
    <3>2. tail = s[Len(s)] /\ tail # 0
      BY <1>4, <2>2, <3>1 DEF DlLinked, ChLast
    <3>3. t[Len(t)] = s[Len(s)]
      BY <1>2, <3>1
    <3> QED
      BY <3>1, <3>2, <3>3 DEF ChLast
  <2> QED
    BY <2>1, <2>2
<1>6. ASSUME NEW j \in 1 .. Len(t) PROVE prev2[t[j]] = ChBefore(t, j)
  <2>1. CASE j = 1
    BY <1>0, <1>2, <2>1 DEF ChBefore
  <2>2. CASE j # 1
    <3>1. PICK i \in 1 .. Len(s) : i = j - 1 /\ t[j] = s[i] /\ j \in Int
      BY <1>2, <2>2
    <3>2. s[i] \in ChRange(s) /\ prev[s[i]] = ChBefore(s, i)
      BY <3>1 DEF ChRange, DlLinked
    <3>3. head = s[1] /\ 1 \in 1 .. Len(s)
      <4>1. Len(s) # 0 /\ 1 \in 1 .. Len(s)
        BY <1>2
      <4> QED
        BY <4>1 DEF DlLinked, ChLinked, ChFirst
    <3>4. prev2[t[j]] = IF i = 1 THEN n ELSE ChBefore(s, i)
      BY <1>0, <3>1, <3>2, <3>3 DEF ChDistinct
    <3>5. CASE i = 1
      <4>1. j - 1 = 1
        BY <3>1, <3>5
      <4> QED
        BY <1>2, <2>2, <3>4, <3>5, <4>1 DEF ChBefore
    <3>6. CASE i # 1
      <4>1. i - 1 \in 1 .. Len(s) /\ (i - 1) + 1 = j - 1
        BY <1>2, <3>1, <3>6
      <4>2. t[j - 1] = s[i - 1]
        BY <1>2, <4>1
      <4> QED
        BY <2>2, <3>4, <3>6, <4>2 DEF ChBefore
    <3> QED
      BY <3>5, <3>6
  <2> QED
    BY <2>1, <2>2
<1> QED
  BY <1>1, <1>3, <1>5, <1>6 DEF DlLinked

\* Record e is linked past.
DlOut(prev, next, s, e, prev2, next2) ==
  \A x \in ChRange(s) : x # e =>
    /\ next2[x] = IF x = prev[e] THEN next[e] ELSE next[x]
    /\ prev2[x] = IF x = next[e] THEN prev[e] ELSE prev[x]
DlGone(head, tail, prev, next, e, prev2, next2, t) ==
  /\ DlLinked(IF prev[e] = 0 THEN next[e] ELSE head,
              IF next[e] = 0 THEN prev[e] ELSE tail, prev2, next2, t)
  /\ ((prev[e] = 0) <=> (head = e)) /\ ((next[e] = 0) <=> (tail = e))

LEMMA DlDrop ==
  ASSUME NEW D, 0 \notin D, NEW s \in Seq(D), ChDistinct(s), NEW k \in 1 .. Len(s),
         NEW head, NEW tail, NEW prev, NEW next, DlLinked(head, tail, prev, next, s),
         NEW e, e = s[k], NEW prev2, NEW next2, DlOut(prev, next, s, e, prev2, next2)
  PROVE  DlGone(head, tail, prev, next, e, prev2, next2, ChDrop(s, k))
<1>0. PICK p0, n0 : /\ p0 = prev[e] /\ n0 = next[e]
                    /\ \A x \in ChRange(s) : x # e => next2[x] = IF x = p0 THEN n0 ELSE next[x]
                    /\ \A x \in ChRange(s) : x # e => prev2[x] = IF x = n0 THEN p0 ELSE prev[x]
  BY DEF DlOut
<1>1. PICK t : t = ChDrop(s, k)
  OBVIOUS
<1>2. /\ Len(s) \in Nat /\ t \in Seq(D) /\ Len(t) = Len(s) - 1
      /\ \A j \in 1 .. Len(s) - 1 : t[j] = IF j < k THEN s[j] ELSE s[j + 1]
      /\ \A j \in 1 .. Len(s) : s[j] \in D /\ s[j] # 0 /\ s[j] \in ChRange(s)
  <2>1. /\ ChDrop(s, k) \in Seq(D) /\ Len(ChDrop(s, k)) = Len(s) - 1
        /\ \A j \in 1 .. Len(s) - 1 : ChDrop(s, k)[j] = IF j < k THEN s[j] ELSE s[j + 1]
    BY ChDropped
  <2>2. Len(s) \in Nat /\ \A j \in 1 .. Len(s) : s[j] \in D /\ s[j] # 0 /\ s[j] \in ChRange(s)
    BY LenProperties, ElementOfSeq DEF ChRange
  <2> QED
    BY <1>1, <2>1, <2>2
<1>3. /\ p0 = ChBefore(s, k) /\ n0 = ChAfter(s, k)
      /\ \A j \in 1 .. Len(s) : next[s[j]] = ChAfter(s, j) /\ prev[s[j]] = ChBefore(s, j)
  BY <1>0 DEF DlLinked, ChLinked
<1>4. \A i, j \in 1 .. Len(s) : s[i] = s[j] <=> i = j
  BY DEF ChDistinct
<1>5. /\ head = s[1] /\ 1 \in 1 .. Len(s) /\ tail = s[Len(s)] /\ Len(s) \in 1 .. Len(s)
      /\ k \in Int /\ Len(s) # 0
  <2>1. 1 \in 1 .. Len(s) /\ Len(s) \in 1 .. Len(s) /\ k \in Int /\ Len(s) # 0
    BY <1>2
  <2> QED
    BY <2>1 DEF DlLinked, ChLinked, ChFirst, ChLast
<1>6. /\ ((p0 = 0) <=> (k = 1)) /\ ((n0 = 0) <=> (k = Len(s)))
      /\ ((p0 = 0) <=> (head = e)) /\ ((n0 = 0) <=> (tail = e))
  <2>2. k # 1 => k - 1 \in 1 .. Len(s)
    BY <1>2
  <2>3. (p0 = 0) <=> (k = 1)
    BY <1>2, <1>3, <2>2 DEF ChBefore
  <2>4. k # Len(s) => k + 1 \in 1 .. Len(s)
    BY <1>2
  <2>5. (n0 = 0) <=> (k = Len(s))
    BY <1>2, <1>3, <2>4 DEF ChAfter
  <2>6. ((head = e) <=> (k = 1)) /\ ((tail = e) <=> (k = Len(s)))
    BY <1>4, <1>5
  <2> QED
    BY <2>3, <2>5, <2>6
<1>7. ChLinked(next2, IF p0 = 0 THEN n0 ELSE head, t)
  <2>1. ASSUME NEW x \in ChRange(s), x # s[k]
        PROVE  next2[x] = IF next[x] = s[k] THEN next[s[k]] ELSE next[x]
    <3>1. PICK j \in 1 .. Len(s) : x = s[j]
      BY DEF ChRange
    <3>2. next[x] = s[k] <=> j + 1 = k
      <4>1. CASE j = Len(s)
        <5>1. next[x] = 0 /\ j + 1 # k
          BY <1>2, <1>3, <3>1, <4>1 DEF ChAfter
        <5> QED
          BY <1>2, <5>1
      <4>2. CASE j # Len(s)
        <5>1. j + 1 \in 1 .. Len(s) /\ next[x] = s[j + 1]
          BY <1>2, <1>3, <3>1, <4>2 DEF ChAfter
        <5> QED
          BY <1>4, <5>1
      <4> QED
        BY <4>1, <4>2
    <3>3. x = p0 <=> j + 1 = k
      <4>1. CASE k = 1
        <5>1. p0 = 0 /\ j + 1 # k
          BY <1>2, <1>3, <4>1 DEF ChBefore
        <5> QED
          BY <1>2, <3>1, <5>1
      <4>2. CASE k # 1
        <5>1. k - 1 \in 1 .. Len(s) /\ p0 = s[k - 1]
          BY <1>2, <1>3, <4>2 DEF ChBefore
        <5>2. x = p0 <=> j = k - 1
          BY <1>4, <3>1, <5>1
        <5>3. (j = k - 1) <=> (j + 1 = k)
          BY <1>5
        <5> QED
          BY <5>2, <5>3
      <4> QED
        BY <4>1, <4>2
    <3> QED
      BY <1>0, <2>1, <3>2, <3>3
  <2>2. ChLinked(next2, IF head = s[k] THEN next[s[k]] ELSE head, ChDrop(s, k))
    <3>1. ChLinked(next, head, s)
      BY DEF DlLinked
    <3> QED
      BY <2>1, <3>1, ChDropLinked
  <2> QED
    BY <1>0, <1>1, <1>6, <2>2
<1>8. (IF n0 = 0 THEN p0 ELSE tail) = ChLast(t)
  <2>1. CASE k = Len(s)
    <3>1. CASE Len(s) = 1
      BY <1>2, <1>3, <1>6, <2>1, <3>1 DEF ChLast, ChBefore
    <3>2. CASE Len(s) # 1
      <4>1. Len(s) - 1 \in 1 .. Len(s) - 1 /\ Len(s) - 1 < k /\ Len(t) # 0 /\ k # 1
        BY <1>2, <2>1, <3>2
      <4>2. t[Len(t)] = s[k - 1]
        BY <1>2, <2>1, <4>1
      <4> QED
        BY <1>3, <1>6, <2>1, <4>1, <4>2 DEF ChLast, ChBefore
    <3> QED
      BY <3>1, <3>2
  <2>2. CASE k # Len(s)
    <3>1. Len(s) - 1 \in 1 .. Len(s) - 1 /\ ~(Len(s) - 1 < k) /\ Len(t) # 0 /\ (Len(s) - 1) + 1 = Len(s)
      BY <1>2, <2>2
    <3>2. t[Len(t)] = s[Len(s)]
      BY <1>2, <3>1
    <3> QED
      BY <1>5, <1>6, <2>2, <3>1, <3>2 DEF ChLast
  <2> QED
    BY <2>1, <2>2
<1>9. ASSUME NEW j \in 1 .. Len(t) PROVE prev2[t[j]] = ChBefore(t, j)
  <2>1. j \in 1 .. Len(s) - 1 /\ j \in 1 .. Len(s) /\ j + 1 \in 1 .. Len(s) /\ j \in Int
    BY <1>2
  <2>2. PICK o \in 1 .. Len(s) : o = (IF j < k THEN j ELSE j + 1) /\ t[j] = s[o]
    BY <1>2, <2>1
  <2>3. o # k /\ s[o] # e
    <3>1. o # k
      BY <1>5, <2>1, <2>2
    <3> QED
      BY <1>4, <3>1
  <2>4. s[o] = n0 <=> j = k
    <3>1. CASE k = Len(s)
      <4>1. n0 = 0 /\ j # k
        BY <1>2, <1>6, <2>1, <3>1
      <4> QED
        BY <1>2, <4>1
    <3>2. CASE k # Len(s)
      <4>1. k + 1 \in 1 .. Len(s) /\ n0 = s[k + 1]
        BY <1>2, <1>3, <3>2 DEF ChAfter
      <4>2. s[o] = n0 <=> o = k + 1
        BY <1>4, <4>1
      <4>3. (o = k + 1) <=> (j = k)
        BY <1>5, <2>1, <2>2
      <4> QED
        BY <4>2, <4>3
    <3> QED
      BY <3>1, <3>2
  <2>5. prev2[t[j]] = IF j = k THEN ChBefore(s, k) ELSE ChBefore(s, o)
    BY <1>0, <1>2, <1>3, <2>2, <2>3, <2>4
  <2>6. CASE j = 1
    <3>1. CASE j = k
      BY <2>5, <2>6, <3>1 DEF ChBefore
    <3>2. CASE j # k
      <4>1. o = 1
        BY <1>5, <2>1, <2>2, <2>6, <3>2
      <4> QED
        BY <2>5, <2>6, <3>2, <4>1 DEF ChBefore
    <3> QED
      BY <3>1, <3>2
  <2>7. CASE j # 1
    <3>1. j - 1 \in 1 .. Len(s) - 1 /\ (j - 1) + 1 = j
      BY <1>2, <2>1, <2>7
    <3>2. t[j - 1] = IF j - 1 < k THEN s[j - 1] ELSE s[j]
      BY <1>2, <3>1
    <3>3. CASE j < k
      <4>1. j - 1 < k /\ o = j /\ j # k
        BY <1>5, <2>1, <2>2, <3>3
      <4> QED
        BY <2>5, <2>7, <3>2, <4>1 DEF ChBefore
    <3>4. CASE j = k
      <4>1. j - 1 < k /\ k # 1
        BY <1>5, <2>1, <2>7, <3>4
      <4> QED
        BY <2>5, <2>7, <3>2, <3>4, <4>1 DEF ChBefore
    <3>5. CASE ~(j < k) /\ j # k
      <4>1. ~(j - 1 < k) /\ o = j + 1 /\ o # 1 /\ o - 1 = j
        BY <1>5, <2>1, <2>2, <3>5
      <4> QED
        BY <2>5, <2>7, <3>2, <3>5, <4>1 DEF ChBefore
    <3> QED
      BY <3>3, <3>4, <3>5
  <2> QED
    BY <2>6, <2>7
<1> QED
  BY <1>0, <1>1, <1>6, <1>7, <1>8, <1>9 DEF DlLinked, DlGone

\* Which of two records comes first, in a list with a record more or less.
LEMMA ChOrderDrop ==
  ASSUME NEW D, NEW s \in Seq(D), NEW k \in 1 .. Len(s), NEW x, NEW y, ChOrder(s, x, y)
  PROVE  ChOrder(ChDrop(s, k), x, y)
<1>1. PICK t : t = ChDrop(s, k)
  OBVIOUS
<1>2. ChIsDrop(D, s, k, t)
  BY <1>1, ChDropPlaces
<1>3. ASSUME NEW i \in 1 .. Len(t), NEW j \in 1 .. Len(t), t[i] = x, t[j] = y
      PROVE  i < j
  <2>1. /\ ChOld(k, i) \in 1 .. Len(s) /\ s[ChOld(k, i)] = x
        /\ ChOld(k, j) \in 1 .. Len(s) /\ s[ChOld(k, j)] = y
    BY <1>2, <1>3 DEF ChIsDrop
  <2>2. ChOld(k, i) < ChOld(k, j)
    BY <2>1 DEF ChOrder
  <2> QED
    BY <1>2, <2>2 DEF ChIsDrop
<1> QED
  BY <1>1, <1>3 DEF ChOrder

LEMMA ChOrderPush ==
  ASSUME NEW D, NEW s \in Seq(D), NEW n \in D, NEW x, NEW y, x # n, y # n, ChOrder(s, x, y)
  PROVE  ChOrder(ChPush(s, n), x, y)
<1>1. PICK t : t = ChPush(s, n)
  OBVIOUS
<1>2. /\ Len(s) \in Nat /\ t[1] = n
      /\ \A j \in 1 .. Len(t) : j = 1 \/ (j - 1 \in 1 .. Len(s) /\ t[j] = s[j - 1])
  <2>1. ChIsPush(D, s, n, t)
    BY <1>1, ChPushPlaces
  <2> QED
    BY <2>1 DEF ChIsPush
<1>3. ASSUME NEW i \in 1 .. Len(t), NEW j \in 1 .. Len(t), t[i] = x, t[j] = y
      PROVE  i < j
  <2>1. i # 1 /\ j # 1
    BY <1>2, <1>3
  <2>2. i - 1 \in 1 .. Len(s) /\ s[i - 1] = x /\ j - 1 \in 1 .. Len(s) /\ s[j - 1] = y
    BY <1>2, <1>3, <2>1
  <2>3. i - 1 < j - 1 /\ i \in Int /\ j \in Int
    BY <2>2 DEF ChOrder
  <2> QED
    BY <2>3
<1> QED
  BY <1>1, <1>3 DEF ChOrder

LEMMA ChOrderNew ==
  ASSUME NEW D, NEW s \in Seq(D), NEW n \in D, n \notin ChRange(s), NEW y, y # n
  PROVE  ChOrder(ChPush(s, n), n, y)
<1>1. PICK t : t = ChPush(s, n)
  OBVIOUS
<1>2. /\ Len(s) \in Nat /\ t[1] = n
      /\ \A j \in 1 .. Len(t) : j = 1 \/ (j - 1 \in 1 .. Len(s) /\ t[j] = s[j - 1])
  <2>1. ChIsPush(D, s, n, t)
    BY <1>1, ChPushPlaces
  <2> QED
    BY <2>1 DEF ChIsPush
<1>3. ASSUME NEW i \in 1 .. Len(t), NEW j \in 1 .. Len(t), t[i] = n, t[j] = y
      PROVE  i < j
  <2>1. j # 1
    BY <1>2, <1>3
  <2>2. i = 1
    <3>1. CASE i # 1
      <4>1. i - 1 \in 1 .. Len(s) /\ s[i - 1] = n
        BY <1>2, <1>3, <3>1
      <4> QED
        BY <4>1 DEF ChRange
    <3> QED
      BY <3>1
  <2> QED
    BY <2>1, <2>2
<1> QED
  BY <1>1, <1>3 DEF ChOrder

LEMMA ChLinkedSame ==
  ASSUME NEW f, NEW g, NEW i, NEW s, ChLinked(f, i, s), \A x \in ChRange(s) : g[x] = f[x]
  PROVE  ChLinked(g, i, s)
<1>1. \A k \in 1 .. Len(s) : s[k] \in ChRange(s)
  BY DEF ChRange
<1> QED
  BY <1>1 DEF ChLinked

\* In the chain a pointer leads to a record of it, or nowhere.
LEMMA ChStays ==
  ASSUME NEW D, NEW s \in Seq(D), NEW f, NEW i, ChLinked(f, i, s)
  PROVE  /\ i \in ChRange(s) \cup {0}
         /\ \A x \in ChRange(s) : f[x] \in ChRange(s) \cup {0}
<1>1. Len(s) \in Nat
  BY LenProperties
<1>2. i \in ChRange(s) \cup {0}
  BY <1>1 DEF ChLinked, ChFirst, ChRange
<1>3. ASSUME NEW x \in ChRange(s) PROVE f[x] \in ChRange(s) \cup {0}
  <2>1. PICK k \in 1 .. Len(s) : x = s[k] /\ f[x] = ChAfter(s, k)
    BY DEF ChRange, ChLinked
  <2>2. CASE k = Len(s)
    BY <2>1, <2>2 DEF ChAfter
  <2>3. CASE k # Len(s)
    <3>1. k + 1 \in 1 .. Len(s) /\ f[x] = s[k + 1]
      BY <1>1, <2>1, <2>3 DEF ChAfter
    <3> QED
      BY <3>1 DEF ChRange
  <2> QED
    BY <2>2, <2>3
<1> QED
  BY <1>2, <1>3
-----------------------------------------------------------------------------
(* The block cache: its buffers.                                           *)

BcPoolInv == free_list = [i \in 1 .. BUFFER_POOL_SIZE |-> i - 1]

LEMMA BcPoolStarts == Blocks!Init => BcPoolInv
BY DEF Blocks!Init, Blocks!create_buffer_pool, BcPoolInv

\* A buffer that is taken and given back leaves the list as it was.
LEMMA BcPoolStep == BcPoolInv /\ (Blocks!Next \/ UNCHANGED storage) => BcPoolInv'
<1> SUFFICES ASSUME BcPoolInv, Blocks!Next \/ UNCHANGED storage PROVE BcPoolInv'
  OBVIOUS
<1>1. BUFFER_POOL_SIZE \in Nat \ {0}
  BY MemoryAssumption DEF Blocks!ConstantsOK
<1>2. PICK t : t = free_list
  OBVIOUS
<1>3. t \in [1 .. BUFFER_POOL_SIZE -> Int]
  BY <1>2 DEF BcPoolInv
<1>4. t \in Seq(Int) /\ Len(t) = BUFFER_POOL_SIZE
  BY <1>1, <1>3, ChSeq
<1>5. PICK m \in Nat : m = BUFFER_POOL_SIZE - 1
  BY <1>1
<1>6. PICK u : u = SubSeq(t, 1, m)
  OBVIOUS
<1>7. \A i \in 1 .. m : t[i] \in Int
  BY <1>1, <1>3, <1>5
<1>8. /\ SubSeq(t, 1, m) \in Seq(Int)
      /\ Len(SubSeq(t, 1, m)) = IF 1 <= m THEN m - 1 + 1 ELSE 0
      /\ \A i \in 1 .. m - 1 + 1 : SubSeq(t, 1, m)[i] = t[1 + i - 1]
  <2>1. 1 \in Int /\ m \in Int
    BY <1>5
  <2> QED
    BY ONLY <1>7, <2>1, SubSeqProperties
<1>9. u \in Seq(Int) /\ Len(u) = m /\ \A i \in 1 .. m : u[i] = t[i]
  BY <1>5, <1>6, <1>8
<1>10. t[m + 1] \in Int /\ m + 1 = Len(t)
  BY <1>1, <1>3, <1>4, <1>5
<1>11. /\ Append(u, t[m + 1]) \in Seq(Int)
       /\ Len(Append(u, t[m + 1])) = m + 1
       /\ \A i \in 1 .. m : Append(u, t[m + 1])[i] = u[i]
       /\ Append(u, t[m + 1])[m + 1] = t[m + 1]
  BY <1>9, <1>10, AppendProperties
<1>12. Append(u, t[m + 1]) = t
  <2>1. ASSUME NEW i \in 1 .. Len(t) PROVE t[i] = Append(u, t[m + 1])[i]
    BY <1>5, <1>9, <1>10, <1>11
  <2> QED
    BY <1>4, <1>10, <1>11, <2>1, SeqEqual
<1>13. Blocks!release_buffer(Blocks!Taken, Blocks!get_buffer) = free_list
  <2>1. Len(free_list) - 1 = m /\ free_list[Len(free_list)] = t[m + 1]
    BY <1>2, <1>5, <1>10
  <2>2. Blocks!Taken = u
    BY <1>2, <1>6, <2>1 DEF Blocks!Taken
  <2> QED
    BY <1>2, <1>12, <2>1, <2>2 DEF Blocks!release_buffer, Blocks!get_buffer
<1>14. free_list' = free_list
  BY <1>13 DEF Blocks!Next, Blocks!read_block, Blocks!ReadHit, Blocks!ReadMiss,
               Blocks!ReadFails, Blocks!write_block, storage
<1> QED
  BY <1>14 DEF BcPoolInv

LEMMA BcPoolImplies == BcPoolInv => Blocks!BuffersReturned
<1> SUFFICES ASSUME BcPoolInv PROVE Blocks!BuffersReturned
  OBVIOUS
<1>1. BUFFER_POOL_SIZE \in Nat \ {0}
  BY MemoryAssumption DEF Blocks!ConstantsOK
<1>2. free_list \in [1 .. BUFFER_POOL_SIZE -> Int]
  BY DEF BcPoolInv
<1>3. Len(free_list) = BUFFER_POOL_SIZE /\ DOMAIN free_list = 1 .. BUFFER_POOL_SIZE
  BY <1>1, <1>2, ChSeq
<1>4. {free_list[i] : i \in DOMAIN free_list} = 0 .. BUFFER_POOL_SIZE - 1
  <2>1. ASSUME NEW i \in DOMAIN free_list PROVE free_list[i] \in 0 .. BUFFER_POOL_SIZE - 1
    BY <1>1, <1>3 DEF BcPoolInv
  <2>2. ASSUME NEW x \in 0 .. BUFFER_POOL_SIZE - 1
        PROVE  x \in {free_list[i] : i \in DOMAIN free_list}
    <3>1. x + 1 \in DOMAIN free_list /\ free_list[x + 1] = x
      BY <1>1, <1>3 DEF BcPoolInv
    <3> QED
      BY <3>1
  <2> QED
    BY <2>1, <2>2
<1> QED
  BY <1>3, <1>4 DEF Blocks!BuffersReturned, Blocks!Buffers
-----------------------------------------------------------------------------
(* The block cache.  The entries in order of use are one list, those of    *)
(* each bucket another, and entries of one block are in the same order in  *)
(* both: an older one is never used later than a newer one.                *)

BcE == 1 .. MAX_CACHE_SIZE
BcPointer == BcE \cup {0}
BcRecords ==
  [hash_table : [Blocks!Buckets -> BcPointer], lru_head : BcPointer, lru_tail : BcPointer,
   next : [BcE -> BcPointer], lru_prev : [BcE -> BcPointer], lru_next : [BcE -> BcPointer],
   entry : [BcE -> [block : Nat, data : Blocks!Data]], live : SUBSET BcE, current_size : Nat]

BcBlock(c, e) == c.entry[e].block
BcIn(c, h) == {e \in c.live : BlockBucket[BcBlock(c, e)] = h}

BcUse(c, l) ==
  /\ l \in Seq(BcE) /\ ChDistinct(l) /\ ChRange(l) = c.live
  /\ DlLinked(c.lru_head, c.lru_tail, c.lru_prev, c.lru_next, l)
  /\ c.current_size = Len(l)

BcFirst(c, s, i) == \A j \in 1 .. Len(s) : j < i => BcBlock(c, s[j]) # BcBlock(c, s[i])
BcSame(c, l, s) ==
  \A i, j \in 1 .. Len(s) :
    i < j /\ BcBlock(c, s[i]) = BcBlock(c, s[j]) => ChOrder(l, s[i], s[j])
BcNewest(c, s, lt, uw) ==
  \A i \in 1 .. Len(s) :
    BcFirst(c, s, i) =>
      BcBlock(c, s[i]) \in uw \/ c.entry[s[i]].data = lt[BcBlock(c, s[i])]
BcHeld(c, h, s) ==
  /\ s \in Seq(BcE) /\ ChDistinct(s) /\ ChLinked(c.next, c.hash_table[h], s)
  /\ ChRange(s) = BcIn(c, h)
BcChain(c, l, h, s, lt, uw) == BcHeld(c, h, s) /\ BcSame(c, l, s) /\ BcNewest(c, s, lt, uw)

BcGood(c, l, lt, uw) ==
  /\ c \in BcRecords /\ \A e \in c.live : BcBlock(c, e) \in BlockIds
  /\ BcUse(c, l)
  /\ \A h \in Blocks!Buckets : \E s : BcChain(c, l, h, s, lt, uw)
BcSound(c, lt, uw) == \E l : BcGood(c, l, lt, uw)

\* What the disk holds.
BcDisk(dk, lt, uw) ==
  /\ dk \in Seq(Blocks!Data) /\ lt \in [BlockIds -> Blocks!Data] /\ uw \subseteq BlockIds
  /\ \A b \in BlockIds \ uw : IF b < Len(dk) THEN dk[b + 1] = lt[b] ELSE lt[b] = "zero"

BcInv == BcSound(cache, latest, unwritten) /\ BcDisk(disk, latest, unwritten)

LEMMA BcConstants ==
  /\ MAX_CACHE_SIZE \in Nat /\ MAX_CACHE_SIZE # 0 /\ BlockIds \subseteq Nat /\ 0 \notin BcE
  /\ Blocks!Entries = BcE /\ Blocks!Pointer = BcPointer /\ Blocks!NULL = 0 /\ Blocks!Zero = "zero"
  /\ Blocks!Unset \in [block : Nat, data : Blocks!Data] /\ BlockTexts \subseteq Blocks!Data
  /\ "zero" \in Blocks!Data
  /\ \A b \in BlockIds : BlockBucket[b] \in Blocks!Buckets
  /\ IsFiniteSet(BcE) /\ Cardinality(BcE) = MAX_CACHE_SIZE
<1>1. /\ MAX_CACHE_SIZE \in Nat /\ MAX_CACHE_SIZE # 0 /\ BlockIds \subseteq Nat
  BY MemoryAssumption DEF Blocks!ConstantsOK
<1>2. 0 \notin BcE
  BY <1>1 DEF BcE
<1>3. /\ IsFiniteSet(1 .. MAX_CACHE_SIZE)
      /\ Cardinality(1 .. MAX_CACHE_SIZE) = IF 1 > MAX_CACHE_SIZE THEN 0 ELSE MAX_CACHE_SIZE - 1 + 1
  BY <1>1, FS_Interval
<1>4. IsFiniteSet(BcE) /\ Cardinality(BcE) = MAX_CACHE_SIZE
  BY <1>1, <1>3 DEF BcE
<1>5. /\ Blocks!Entries = BcE /\ Blocks!NULL = 0 /\ Blocks!Zero = "zero" /\ "zero" \in Blocks!Data
      /\ BlockTexts \subseteq Blocks!Data
  BY DEF Blocks!Entries, BcE, Blocks!NULL, Blocks!Zero, Blocks!Data
<1>6. Blocks!Pointer = BcPointer
  BY <1>5 DEF Blocks!Pointer, BcPointer
<1>7. Blocks!Unset \in [block : Nat, data : Blocks!Data]
  BY <1>5 DEF Blocks!Unset
<1>8. \A b \in BlockIds : BlockBucket[b] \in Blocks!Buckets
  BY DEF Blocks!Buckets
<1> QED
  BY <1>1, <1>2, <1>4, <1>5, <1>6, <1>7, <1>8

LEMMA BcMin ==
  ASSUME NEW S, S \subseteq Nat, S # {}
  PROVE  Blocks!Min(S) \in S /\ \A y \in S : Blocks!Min(S) <= y
BY LeastNumber DEF Blocks!Min

\* Where the search of a block ends.
LEMMA BcLookup ==
  ASSUME NEW c \in BcRecords, NEW b \in BlockIds, NEW s, BcHeld(c, BlockBucket[b], s)
  PROVE  /\ Blocks!Chain(c.next, c.hash_table[BlockBucket[b]]) = s
         /\ \/ Blocks!Lookup(c, b) = 0 /\ \A i \in 1 .. Len(s) : BcBlock(c, s[i]) # b
            \/ \E i \in 1 .. Len(s) : /\ Blocks!Lookup(c, b) = s[i] /\ s[i] # 0
                                      /\ BcBlock(c, s[i]) = b /\ BcFirst(c, s, i)
<1> DEFINE hits == {i \in DOMAIN s : c.entry[s[i]].block = b}
<1>1. Blocks!Chain(c.next, c.hash_table[BlockBucket[b]]) = s
  <2>1. c.next \in [BcE -> BcE \cup {0}]
    BY DEF BcRecords, BcPointer
  <2> QED
    BY <2>1, BcConstants, ChainIs DEF BcHeld
<1>2. Len(s) \in Nat /\ DOMAIN s = 1 .. Len(s) /\ \A i \in 1 .. Len(s) : s[i] # 0
  BY LenProperties, ElementOfSeq, BcConstants DEF BcHeld
<1>3. Blocks!Lookup(c, b) = IF hits = {} THEN 0 ELSE s[Blocks!Min(hits)]
  BY <1>1, BcConstants DEF Blocks!Lookup
<1>4. \A i : i \in hits <=> i \in 1 .. Len(s) /\ BcBlock(c, s[i]) = b
  BY <1>2 DEF BcBlock
<1>5. CASE hits = {}
  BY <1>1, <1>3, <1>4, <1>5
<1>6. CASE hits # {}
  <2> HIDE DEF hits
  <2>1. hits \subseteq Nat
    BY <1>4
  <2>2. PICK i \in hits : i = Blocks!Min(hits) /\ \A y \in hits : i <= y
    BY <1>6, <2>1, BcMin
  <2>3. i \in 1 .. Len(s) /\ BcBlock(c, s[i]) = b /\ Blocks!Lookup(c, b) = s[i] /\ s[i] # 0
    BY <1>2, <1>3, <1>4, <1>6, <2>2
  <2>4. ASSUME NEW j \in 1 .. Len(s), j < i PROVE BcBlock(c, s[j]) # BcBlock(c, s[i])
    <3>1. j \notin hits
      BY <2>2, <2>3, <2>4
    <3> QED
      BY <1>4, <2>3, <3>1
  <2> QED
    BY <1>1, <2>3, <2>4 DEF BcFirst
<1> QED
  BY <1>5, <1>6

\* What evict_lru does to each field.
LEMMA BcEvictFields ==
  ASSUME NEW c \in BcRecords, NEW v \in BcE, v = c.lru_tail, NEW q, q = c.lru_prev[v],
         NEW h, h = BlockBucket[BcBlock(c, v)], h \in Blocks!Buckets, c.current_size # 0,
         NEW d, d = Blocks!evict_lru(c)
  PROVE  /\ d \in BcRecords /\ d.live = c.live \ {v} /\ d.current_size = c.current_size - 1
         /\ d.lru_tail = q /\ d.lru_head = IF q = 0 THEN 0 ELSE c.lru_head
         /\ \A x \in BcE : x # v =>
              /\ d.lru_next[x] = IF x = q THEN 0 ELSE c.lru_next[x]
              /\ d.lru_prev[x] = c.lru_prev[x]
              /\ d.next[x] = IF c.next[x] = v THEN c.next[v] ELSE c.next[x]
              /\ d.entry[x] = c.entry[x]
         /\ \A g \in Blocks!Buckets :
              d.hash_table[g] = IF g = h /\ c.hash_table[g] = v THEN c.next[v] ELSE c.hash_table[g]
<1> DEFINE lnext == [Blocks!Store(c.lru_next, q, 0) EXCEPT ![v] = 0]
           lprev == [c.lru_prev EXCEPT ![v] = 0]
           nx0   == [x \in BcE |-> IF c.next[x] = v THEN c.next[v] ELSE c.next[x]]
           nx    == [nx0 EXCEPT ![v] = 0]
           ht    == [c.hash_table EXCEPT ![h] = IF @ = v THEN c.next[v] ELSE @]
           en    == [c.entry EXCEPT ![v] = Blocks!Unset]
<1>1. /\ c.hash_table \in [Blocks!Buckets -> BcPointer] /\ c.lru_head \in BcPointer /\ c.lru_tail \in BcPointer
      /\ c.next \in [BcE -> BcPointer] /\ c.lru_prev \in [BcE -> BcPointer] /\ c.lru_next \in [BcE -> BcPointer]
      /\ c.entry \in [BcE -> [block : Nat, data : Blocks!Data]] /\ c.live \subseteq BcE
      /\ c.current_size \in Nat
  BY DEF BcRecords
<1>2. d = [hash_table |-> ht, lru_head |-> IF q = 0 THEN 0 ELSE c.lru_head, lru_tail |-> q,
           next |-> nx, lru_prev |-> lprev, lru_next |-> lnext, entry |-> en,
           live |-> c.live \ {v}, current_size |-> c.current_size - 1]
  <2>1. d = [[c EXCEPT !.hash_table[h] = IF @ = v THEN c.next[v] ELSE @,
                       !.next = [x \in BcE |-> IF @[x] = v THEN c.next[v] ELSE @[x]]]
              EXCEPT !.lru_tail = q,
                     !.lru_head = IF q = 0 THEN 0 ELSE @,
                     !.lru_next = [Blocks!Store(@, q, 0) EXCEPT ![v] = 0],
                     !.lru_prev[v] = 0, !.next[v] = 0,
                     !.entry[v] = Blocks!Unset, !.live = @ \ {v}, !.current_size = @ - 1]
    BY BcConstants DEF Blocks!evict_lru, Blocks!Unchained, BcBlock
  <2>2. PICK r : r = [c EXCEPT !.hash_table[h] = IF @ = v THEN c.next[v] ELSE @,
                               !.next = [x \in BcE |-> IF @[x] = v THEN c.next[v] ELSE @[x]]]
    OBVIOUS
  <2>3. PICK f1, f2, f3, f4, f5, f6, f7, f8, f9 :
          /\ f1 = ht /\ f2 = c.lru_head /\ f3 = c.lru_tail /\ f4 = nx0 /\ f5 = c.lru_prev
          /\ f6 = c.lru_next /\ f7 = c.entry /\ f8 = c.live /\ f9 = c.current_size
    OBVIOUS
  <2>4. r = [hash_table |-> f1, lru_head |-> f2, lru_tail |-> f3, next |-> f4, lru_prev |-> f5,
             lru_next |-> f6, entry |-> f7, live |-> f8, current_size |-> f9]
    BY <2>2, <2>3 DEF BcRecords
  <2>5. d = [r EXCEPT !.lru_tail = q,
                      !.lru_head = IF q = 0 THEN 0 ELSE @,
                      !.lru_next = [Blocks!Store(@, q, 0) EXCEPT ![v] = 0],
                      !.lru_prev[v] = 0, !.next[v] = 0,
                      !.entry[v] = Blocks!Unset, !.live = @ \ {v}, !.current_size = @ - 1]
    BY <2>1, <2>2
  <2>6. d = [hash_table |-> f1, lru_head |-> IF q = 0 THEN 0 ELSE f2, lru_tail |-> q,
             next |-> [f4 EXCEPT ![v] = 0], lru_prev |-> [f5 EXCEPT ![v] = 0],
             lru_next |-> [Blocks!Store(f6, q, 0) EXCEPT ![v] = 0],
             entry |-> [f7 EXCEPT ![v] = Blocks!Unset],
             live |-> f8 \ {v}, current_size |-> f9 - 1]
    BY ONLY <2>4, <2>5
  <2> QED
    BY <2>3, <2>6
<1>3. /\ lnext \in [BcE -> BcPointer]
      /\ \A x \in BcE : x # v => lnext[x] = IF x = q THEN 0 ELSE c.lru_next[x]
  <2>1. q \in BcPointer /\ 0 \in BcPointer /\ 0 \notin BcE
    BY <1>1, BcConstants DEF BcPointer
  <2>2. CASE q = 0
    BY <1>1, <2>1, <2>2, BcConstants DEF Blocks!Store
  <2>3. CASE q # 0
    BY <1>1, <2>1, <2>3, BcConstants DEF Blocks!Store, BcPointer
  <2> QED
    BY <2>2, <2>3
<1>4. /\ lprev \in [BcE -> BcPointer] /\ \A x \in BcE : x # v => lprev[x] = c.lru_prev[x]
      /\ nx \in [BcE -> BcPointer]
      /\ \A x \in BcE : x # v => nx[x] = IF c.next[x] = v THEN c.next[v] ELSE c.next[x]
      /\ q \in BcPointer /\ 0 \in BcPointer
  BY <1>1 DEF BcPointer
<1>5. /\ ht \in [Blocks!Buckets -> BcPointer]
      /\ \A g \in Blocks!Buckets :
           ht[g] = IF g = h /\ c.hash_table[g] = v THEN c.next[v] ELSE c.hash_table[g]
  BY <1>1
<1>6. /\ en \in [BcE -> [block : Nat, data : Blocks!Data]]
      /\ \A x \in BcE : x # v => en[x] = c.entry[x]
  <2>1. Blocks!Unset \in [block : Nat, data : Blocks!Data]
    BY BcConstants
  <2> QED
    BY <1>1, <2>1
<1>7. c.current_size - 1 \in Nat
  BY <1>1
<1> HIDE DEF lnext, lprev, nx, ht, en
<1>8. d \in BcRecords
  BY <1>1, <1>2, <1>3, <1>4, <1>5, <1>6, <1>7 DEF BcRecords
<1> QED
  BY <1>2, <1>3, <1>4, <1>5, <1>6, <1>8

\* evict_lru: the entry that was used least recently leaves its chain too, and it
\* is not the newest of its block if there is another one.
LEMMA BcEvicts ==
  ASSUME NEW c, NEW lt, NEW uw, BcSound(c, lt, uw), c.current_size # 0
  PROVE  /\ BcSound(Blocks!evict_lru(c), lt, uw)
         /\ Blocks!evict_lru(c).current_size = c.current_size - 1
<1>1. PICK l : BcGood(c, l, lt, uw)
  BY DEF BcSound
<1>2. /\ c \in BcRecords /\ l \in Seq(BcE) /\ ChDistinct(l) /\ ChRange(l) = c.live
      /\ DlLinked(c.lru_head, c.lru_tail, c.lru_prev, c.lru_next, l)
      /\ c.current_size = Len(l) /\ \A e \in c.live : BcBlock(c, e) \in BlockIds
  BY <1>1 DEF BcGood, BcUse
<1>3. PICK k \in Nat : k = Len(l) /\ k # 0 /\ k \in 1 .. Len(l)
  BY <1>2, LenProperties
<1>4. PICK v : v = l[k]
  OBVIOUS
<1>5. v = c.lru_tail /\ v \in BcE /\ v \in c.live /\ v # 0
  <2>1. v \in ChRange(l) /\ v \in BcE
    BY <1>2, <1>3, <1>4, ElementOfSeq DEF ChRange
  <2> QED
    BY <1>2, <1>3, <1>4, <2>1, BcConstants DEF DlLinked, ChLast
<1>6. PICK h : h = BlockBucket[BcBlock(c, v)] /\ h \in Blocks!Buckets
  BY <1>2, <1>5, BcConstants
<1>7. PICK q : q = c.lru_prev[v]
  OBVIOUS
<1>8. PICK d : d = Blocks!evict_lru(c)
  OBVIOUS
<1>9. /\ d \in BcRecords /\ d.live = c.live \ {v} /\ d.current_size = c.current_size - 1
      /\ d.lru_tail = q /\ d.lru_head = IF q = 0 THEN 0 ELSE c.lru_head
      /\ \A x \in BcE : x # v =>
           /\ d.lru_next[x] = IF x = q THEN 0 ELSE c.lru_next[x]
           /\ d.lru_prev[x] = c.lru_prev[x]
           /\ d.next[x] = IF c.next[x] = v THEN c.next[v] ELSE c.next[x]
           /\ d.entry[x] = c.entry[x]
      /\ \A g \in Blocks!Buckets :
           d.hash_table[g] = IF g = h /\ c.hash_table[g] = v THEN c.next[v] ELSE c.hash_table[g]
  BY ONLY <1>2, <1>3, <1>5, <1>6, <1>7, <1>8, BcEvictFields
<1>10. PICK m : m = ChDrop(l, k)
  OBVIOUS
<1>11. m \in Seq(BcE) /\ Len(m) = k - 1 /\ ChDistinct(m) /\ ChRange(m) = d.live
  <2>1. ChDistinct(ChDrop(l, k)) /\ ChRange(ChDrop(l, k)) = ChRange(l) \ {l[k]}
    BY <1>2, <1>3, ChDropRange
  <2>2. ChDrop(l, k) \in Seq(BcE) /\ Len(ChDrop(l, k)) = Len(l) - 1
    BY <1>2, <1>3, ChDropped
  <2> QED
    BY <1>2, <1>3, <1>4, <1>9, <1>10, <2>1, <2>2
<1>12. DlLinked(d.lru_head, d.lru_tail, d.lru_prev, d.lru_next, m)
  <2>1. c.lru_next[v] = 0
    <3>1. c.lru_next[v] = ChAfter(l, k)
      BY <1>2, <1>3, <1>4 DEF DlLinked, ChLinked
    <3> QED
      BY <1>3, <3>1 DEF ChAfter
  <2>2. PICK z : z = c.lru_next[v] /\ z = 0
    BY <2>1
  <2>3. \A x \in ChRange(l) : x # v => d.lru_next[x] = IF x = q THEN z ELSE c.lru_next[x]
    BY <1>2, <1>9, <2>2 DEF BcRecords
  <2>4. \A x \in ChRange(l) : x # v => d.lru_prev[x] = IF x = z THEN q ELSE c.lru_prev[x]
    BY <1>2, <1>9, <2>2, BcConstants DEF BcRecords
  <2>5. 0 \notin BcE
    BY BcConstants
  <2>6. DlLinked(IF q = 0 THEN z ELSE c.lru_head, IF z = 0 THEN q ELSE c.lru_tail,
                 d.lru_prev, d.lru_next, ChDrop(l, k))
    <3>1. DlOut(c.lru_prev, c.lru_next, l, v, d.lru_prev, d.lru_next)
      BY <1>7, <2>2, <2>3, <2>4 DEF DlOut
    <3>2. DlGone(c.lru_head, c.lru_tail, c.lru_prev, c.lru_next, v, d.lru_prev, d.lru_next, ChDrop(l, k))
      BY <1>2, <1>3, <1>4, <2>5, <3>1, DlDrop
    <3> QED
      BY <1>7, <2>2, <3>2 DEF DlGone
  <2> QED
    BY <1>9, <1>10, <2>2, <2>6
<1>13. BcUse(d, m)
  BY <1>2, <1>3, <1>9, <1>11, <1>12 DEF BcUse
<1>14. \A e \in d.live : e \in BcE /\ e # v /\ e \in c.live /\ BcBlock(d, e) = BcBlock(c, e)
  BY <1>2, <1>9 DEF BcBlock, BcRecords
<1>15. \A g : BcIn(d, g) = BcIn(c, g) \ {v}
  BY <1>9, <1>14 DEF BcIn
<1>16. ASSUME NEW x, NEW y, ChOrder(l, x, y) PROVE ChOrder(m, x, y)
  BY <1>2, <1>3, <1>10, <1>16, ChOrderDrop
<1>17. ASSUME NEW g \in Blocks!Buckets, g # h
       PROVE  \E s : BcChain(d, m, g, s, lt, uw)
  <2>1. PICK s : BcChain(c, l, g, s, lt, uw)
    BY <1>1 DEF BcGood
  <2>2. /\ s \in Seq(BcE) /\ ChDistinct(s) /\ ChLinked(c.next, c.hash_table[g], s)
        /\ ChRange(s) = BcIn(c, g)
    BY <2>1 DEF BcChain, BcHeld
  <2>3. v \notin ChRange(s) /\ \A x \in ChRange(s) : x \in BcE /\ x # v
    BY <1>2, <1>6, <1>17, <2>2 DEF BcIn, BcRecords
  <2>4. \A x \in ChRange(s) : d.next[x] = c.next[x]
    <3>1. \A x \in ChRange(s) : c.next[x] \in ChRange(s) \cup {0}
      BY <2>2, ChStays
    <3> QED
      BY <1>5, <1>9, <2>3, <3>1
  <2>5. ChLinked(d.next, d.hash_table[g], s)
    <3>1. d.hash_table[g] = c.hash_table[g]
      BY <1>9, <1>17
    <3>2. ChLinked(d.next, c.hash_table[g], s)
      BY ONLY <2>2, <2>4, ChLinkedSame
    <3> QED
      BY <3>1, <3>2
  <2>6. BcHeld(d, g, s)
    BY <1>15, <2>2, <2>3, <2>5 DEF BcHeld
  <2>7. \A i \in 1 .. Len(s) : BcBlock(d, s[i]) = BcBlock(c, s[i]) /\ d.entry[s[i]] = c.entry[s[i]]
    <3>1. \A i \in 1 .. Len(s) : s[i] \in ChRange(s)
      BY DEF ChRange
    <3> QED
      BY <1>9, <2>3, <3>1 DEF BcBlock
  <2>8. BcSame(d, m, s)
    BY <1>16, <2>1, <2>7 DEF BcChain, BcSame
  <2>9. BcNewest(d, s, lt, uw)
    <3>1. \A i \in 1 .. Len(s) : BcFirst(d, s, i) <=> BcFirst(c, s, i)
      BY <2>7 DEF BcFirst
    <3>2. BcNewest(c, s, lt, uw)
      BY <2>1 DEF BcChain
    <3> QED
      BY <2>7, <3>1, <3>2 DEF BcNewest
  <2> QED
    BY <2>6, <2>8, <2>9 DEF BcChain
<1>18. \E s : BcChain(d, m, h, s, lt, uw)
  <2>1. PICK s : BcChain(c, l, h, s, lt, uw)
    BY <1>1, <1>6 DEF BcGood
  <2>2. /\ s \in Seq(BcE) /\ ChDistinct(s) /\ ChLinked(c.next, c.hash_table[h], s)
        /\ ChRange(s) = BcIn(c, h)
    BY <2>1 DEF BcChain, BcHeld
  <2>3. PICK o \in 1 .. Len(s) : s[o] = v
    <3>1. v \in ChRange(s)
      BY <1>5, <1>6, <2>2 DEF BcIn
    <3> QED
      BY <3>1 DEF ChRange
  <2>4. PICK t : t = ChDrop(s, o)
    OBVIOUS
  <2>5. ChDistinct(t) /\ ChRange(t) = ChRange(s) \ {v} /\ t \in Seq(BcE)
    <3>1. ChDistinct(ChDrop(s, o)) /\ ChRange(ChDrop(s, o)) = ChRange(s) \ {s[o]}
      BY <2>2, ChDropRange
    <3>2. ChDrop(s, o) \in Seq(BcE)
      BY <2>2, ChDropped
    <3> QED
      BY <2>3, <2>4, <3>1, <3>2
  <2>6. ChLinked(d.next, d.hash_table[h], t)
    <3>1. \A x \in ChRange(s) : x \in BcE
      BY <1>2, <2>2 DEF BcIn, BcRecords
    <3>2. \A x \in ChRange(s) : x # s[o] =>
            d.next[x] = IF c.next[x] = s[o] THEN c.next[s[o]] ELSE c.next[x]
      BY <1>9, <2>3, <3>1
    <3>3. 0 \notin BcE
      BY BcConstants
    <3>4. ChLinked(d.next, IF c.hash_table[h] = s[o] THEN c.next[s[o]] ELSE c.hash_table[h], ChDrop(s, o))
      BY ONLY <2>2, <3>2, <3>3, ChDropLinked
    <3> QED
      BY <1>6, <1>9, <2>3, <2>4, <3>4
  <2>7. BcHeld(d, h, t)
    BY <1>15, <2>2, <2>5, <2>6 DEF BcHeld
  <2>8. ChIsDrop(BcE, s, o, t)
    BY <2>2, <2>4, ChDropPlaces
  <2>9. ASSUME NEW i \in 1 .. Len(t)
        PROVE  /\ ChOld(o, i) \in 1 .. Len(s) /\ ChOld(o, i) # o /\ t[i] = s[ChOld(o, i)]
               /\ BcBlock(d, t[i]) = BcBlock(c, t[i]) /\ d.entry[t[i]] = c.entry[t[i]]
    <3>1. ChOld(o, i) \in 1 .. Len(s) /\ ChOld(o, i) # o /\ t[i] = s[ChOld(o, i)]
      BY <2>8 DEF ChIsDrop
    <3>2. t[i] \in d.live
      BY <1>15, <2>5, <2>7 DEF ChRange, BcHeld, BcIn
    <3> QED
      BY <1>9, <1>14, <3>1, <3>2
  <2>10. BcSame(d, m, t)
    <3>1. ASSUME NEW i \in 1 .. Len(t), NEW j \in 1 .. Len(t), i < j,
                 BcBlock(d, t[i]) = BcBlock(d, t[j])
          PROVE  ChOrder(m, t[i], t[j])
      <4>1. ChOld(o, i) < ChOld(o, j)
        BY <2>8, <3>1 DEF ChIsDrop
      <4>2. ChOrder(l, t[i], t[j])
        BY <2>1, <2>9, <3>1, <4>1 DEF BcChain, BcSame
      <4> QED
        BY <1>16, <4>2
    <3> QED
      BY <3>1 DEF BcSame
  <2>11. BcNewest(d, t, lt, uw)
    <3>1. ASSUME NEW i \in 1 .. Len(t), BcFirst(d, t, i)
          PROVE  BcFirst(c, s, ChOld(o, i))
      <4>1. ASSUME NEW j \in 1 .. Len(s), j < ChOld(o, i), BcBlock(c, s[j]) = BcBlock(c, s[ChOld(o, i)])
            PROVE  FALSE
        <5>1. CASE j = o
          <6>1. ChOrder(l, v, t[i])
            BY <2>1, <2>3, <2>9, <4>1, <5>1 DEF BcChain, BcSame
          <6>2. t[i] \in ChRange(l)
            BY <1>2, <1>9, <1>11, <1>15, <2>5, <2>7 DEF ChRange, BcHeld, BcIn
          <6>3. PICK y \in 1 .. Len(l) : l[y] = t[i]
            BY <6>2 DEF ChRange
          <6>4. k < y
            BY <1>3, <1>4, <6>1, <6>3 DEF ChOrder
          <6> QED
            BY <1>3, <6>4
        <5>2. CASE j # o
          <6>1. PICK a \in 1 .. Len(t) : j = ChOld(o, a) /\ t[a] = s[j]
            BY <2>8, <5>2 DEF ChIsDrop
          <6>2. a < i
            BY <2>8, <4>1, <6>1 DEF ChIsDrop
          <6>3. BcBlock(d, t[a]) # BcBlock(d, t[i])
            BY <3>1, <6>2 DEF BcFirst
          <6> QED
            BY <2>9, <4>1, <6>1, <6>3
        <5> QED
          BY <5>1, <5>2
      <4> QED
        BY <4>1 DEF BcFirst
    <3>2. BcNewest(c, s, lt, uw)
      BY <2>1 DEF BcChain
    <3>3. ASSUME NEW i \in 1 .. Len(t), BcFirst(d, t, i)
          PROVE  BcBlock(d, t[i]) \in uw \/ d.entry[t[i]].data = lt[BcBlock(d, t[i])]
      <4>1. BcFirst(c, s, ChOld(o, i))
        BY <3>1, <3>3
      <4>2. PICK a \in 1 .. Len(s) : /\ BcFirst(c, s, a) /\ t[i] = s[a] /\ d.entry[t[i]] = c.entry[t[i]]
                                     /\ BcBlock(d, t[i]) = BcBlock(c, t[i])
        BY <2>9, <4>1
      <4>3. BcBlock(c, s[a]) \in uw \/ c.entry[s[a]].data = lt[BcBlock(c, s[a])]
        BY <3>2, <4>2 DEF BcNewest
      <4> QED
        BY <4>2, <4>3
    <3> QED
      BY <3>3 DEF BcNewest
  <2> QED
    BY <2>7, <2>10, <2>11 DEF BcChain
<1>19. \A g \in Blocks!Buckets : \E s : BcChain(d, m, g, s, lt, uw)
  BY <1>17, <1>18
<1>20. \A e \in d.live : BcBlock(d, e) \in BlockIds
  BY <1>2, <1>14
<1>21. BcGood(d, m, lt, uw)
  BY <1>9, <1>13, <1>19, <1>20 DEF BcGood
<1> QED
  BY <1>8, <1>9, <1>21 DEF BcSound

\* cache_put, once there is room.
BcPutIn(c, b, x) ==
  LET e == Blocks!Min(BcE \ c.live)
      h == BlockBucket[b]
  IN  [c EXCEPT !.entry[e] = [block |-> b, data |-> x],
                !.next[e] = c.hash_table[h], !.hash_table[h] = e,
                !.lru_next[e] = c.lru_head,
                !.lru_prev = Blocks!Store([@ EXCEPT ![e] = 0], c.lru_head, e),
                !.lru_head = e,
                !.lru_tail = IF @ = 0 THEN e ELSE @,
                !.live = @ \cup {e}, !.current_size = @ + 1]

BcIsPut(c, d, e, h, b, x) ==
  /\ d \in BcRecords /\ d.live = c.live \cup {e} /\ d.current_size = c.current_size + 1
  /\ d.lru_head = e /\ d.lru_tail = IF c.lru_tail = 0 THEN e ELSE c.lru_tail
  /\ d.lru_next[e] = c.lru_head /\ (c.lru_head # e => d.lru_prev[e] = 0)
  /\ d.next[e] = c.hash_table[h] /\ d.entry[e] = [block |-> b, data |-> x]
  /\ \A y \in BcE : y # e =>
       /\ d.lru_next[y] = c.lru_next[y]
       /\ d.lru_prev[y] = IF y = c.lru_head THEN e ELSE c.lru_prev[y]
       /\ d.next[y] = c.next[y] /\ d.entry[y] = c.entry[y]
  /\ \A g \in Blocks!Buckets : d.hash_table[g] = IF g = h THEN e ELSE c.hash_table[g]

LEMMA BcPutFields ==
  ASSUME NEW c \in BcRecords, NEW b \in BlockIds, NEW x \in Blocks!Data,
         NEW e \in BcE, e = Blocks!Min(BcE \ c.live), NEW h, h = BlockBucket[b], h \in Blocks!Buckets,
         NEW d, d = BcPutIn(c, b, x)
  PROVE  BcIsPut(c, d, e, h, b, x)
<1> DEFINE lnext == [c.lru_next EXCEPT ![e] = c.lru_head]
           lprev == Blocks!Store([c.lru_prev EXCEPT ![e] = 0], c.lru_head, e)
           nx    == [c.next EXCEPT ![e] = c.hash_table[h]]
           ht    == [c.hash_table EXCEPT ![h] = e]
           en    == [c.entry EXCEPT ![e] = [block |-> b, data |-> x]]
<1>1. /\ c.hash_table \in [Blocks!Buckets -> BcPointer] /\ c.lru_head \in BcPointer /\ c.lru_tail \in BcPointer
      /\ c.next \in [BcE -> BcPointer] /\ c.lru_prev \in [BcE -> BcPointer] /\ c.lru_next \in [BcE -> BcPointer]
      /\ c.entry \in [BcE -> [block : Nat, data : Blocks!Data]] /\ c.live \subseteq BcE
      /\ c.current_size \in Nat
  BY DEF BcRecords
<1>2. d = [hash_table |-> ht, lru_head |-> e, lru_tail |-> IF c.lru_tail = 0 THEN e ELSE c.lru_tail,
           next |-> nx, lru_prev |-> lprev, lru_next |-> lnext, entry |-> en,
           live |-> c.live \cup {e}, current_size |-> c.current_size + 1]
  <2>1. d = [c EXCEPT !.entry[e] = [block |-> b, data |-> x],
                !.next[e] = c.hash_table[h], !.hash_table[h] = e,
                !.lru_next[e] = c.lru_head,
                !.lru_prev = Blocks!Store([@ EXCEPT ![e] = 0], c.lru_head, e),
                !.lru_head = e,
                !.lru_tail = IF @ = 0 THEN e ELSE @,
                !.live = @ \cup {e}, !.current_size = @ + 1]
    BY DEF BcPutIn
  <2>2. PICK f1, f2, f3, f4, f5, f6, f7, f8, f9 :
          /\ f1 = c.hash_table /\ f2 = c.lru_head /\ f3 = c.lru_tail /\ f4 = c.next /\ f5 = c.lru_prev
          /\ f6 = c.lru_next /\ f7 = c.entry /\ f8 = c.live /\ f9 = c.current_size
    OBVIOUS
  <2>3. c = [hash_table |-> f1, lru_head |-> f2, lru_tail |-> f3, next |-> f4, lru_prev |-> f5,
             lru_next |-> f6, entry |-> f7, live |-> f8, current_size |-> f9]
    BY <2>2 DEF BcRecords
  <2> QED
    BY ONLY <2>1, <2>3
<1>3. /\ lprev \in [BcE -> BcPointer] /\ (c.lru_head # e => lprev[e] = 0)
      /\ \A y \in BcE : y # e => lprev[y] = IF y = c.lru_head THEN e ELSE c.lru_prev[y]
  <2>1. 0 \in BcPointer /\ 0 \notin BcE /\ e \in BcPointer
    BY BcConstants DEF BcPointer
  <2>2. CASE c.lru_head = 0
    BY <1>1, <2>1, <2>2, BcConstants DEF Blocks!Store
  <2>3. CASE c.lru_head # 0
    BY <1>1, <2>1, <2>3, BcConstants DEF Blocks!Store, BcPointer
  <2> QED
    BY <2>2, <2>3
<1>4. /\ lnext \in [BcE -> BcPointer] /\ lnext[e] = c.lru_head /\ \A y \in BcE : y # e => lnext[y] = c.lru_next[y]
      /\ nx \in [BcE -> BcPointer] /\ nx[e] = c.hash_table[h] /\ \A y \in BcE : y # e => nx[y] = c.next[y]
      /\ e \in BcPointer /\ (IF c.lru_tail = 0 THEN e ELSE c.lru_tail) \in BcPointer
  BY <1>1 DEF BcPointer
<1>5. /\ ht \in [Blocks!Buckets -> BcPointer]
      /\ \A g \in Blocks!Buckets : ht[g] = IF g = h THEN e ELSE c.hash_table[g]
  BY <1>1 DEF BcPointer
<1>6. /\ en \in [BcE -> [block : Nat, data : Blocks!Data]] /\ en[e] = [block |-> b, data |-> x]
      /\ \A y \in BcE : y # e => en[y] = c.entry[y]
  <2>1. [block |-> b, data |-> x] \in [block : Nat, data : Blocks!Data]
    BY BcConstants
  <2> QED
    BY <1>1, <2>1
<1>7. c.current_size + 1 \in Nat /\ c.live \cup {e} \subseteq BcE
  BY <1>1
<1> HIDE DEF lnext, lprev, nx, ht, en
<1>8. d \in BcRecords
  BY <1>2, <1>3, <1>4, <1>5, <1>6, <1>7 DEF BcRecords
<1>9. /\ d.live = c.live \cup {e} /\ d.current_size = c.current_size + 1
      /\ d.lru_head = e /\ d.lru_tail = IF c.lru_tail = 0 THEN e ELSE c.lru_tail
      /\ d.lru_next = lnext /\ d.lru_prev = lprev /\ d.next = nx /\ d.entry = en /\ d.hash_table = ht
  BY ONLY <1>2
<1> QED
  BY <1>3, <1>4, <1>5, <1>6, <1>8, <1>9 DEF BcIsPut

\* The entry comes first, in its chain and in the order of use.
LEMMA BcPutsIn ==
  ASSUME NEW c, NEW lt, NEW uw, BcSound(c, lt, uw), c.current_size < MAX_CACHE_SIZE,
         NEW b \in BlockIds, NEW x \in Blocks!Data, NEW lt2, NEW uw2,
         b \in uw2 \/ lt2[b] = x,
         \A a \in BlockIds : a # b => a \in uw2 \/ (a \notin uw /\ lt2[a] = lt[a])
  PROVE  BcSound(BcPutIn(c, b, x), lt2, uw2)
<1>1. PICK l : BcGood(c, l, lt, uw)
  BY DEF BcSound
<1>2. /\ c \in BcRecords /\ l \in Seq(BcE) /\ ChDistinct(l) /\ ChRange(l) = c.live
      /\ DlLinked(c.lru_head, c.lru_tail, c.lru_prev, c.lru_next, l)
      /\ c.current_size = Len(l) /\ \A y \in c.live : BcBlock(c, y) \in BlockIds
      /\ c.live \subseteq BcE
  BY <1>1 DEF BcGood, BcUse, BcRecords
<1>3. BcE \ c.live # {}
  <2>1. Cardinality(ChRange(l)) = Len(l)
    BY <1>2, ChCount
  <2>2. Cardinality(BcE) = MAX_CACHE_SIZE /\ MAX_CACHE_SIZE \in Nat /\ Len(l) < MAX_CACHE_SIZE /\ Len(l) \in Nat
    BY <1>2, BcConstants, LenProperties
  <2>3. c.live # BcE
    BY <1>2, <2>1, <2>2
  <2> QED
    BY <1>2, <2>3
<1>4. PICK e : e = Blocks!Min(BcE \ c.live)
  OBVIOUS
<1>5. e \in BcE /\ e \notin c.live /\ e # 0
  <2>1. BcE \ c.live \subseteq Nat
    BY BcConstants DEF BcE
  <2>2. Blocks!Min(BcE \ c.live) \in BcE \ c.live
    BY <1>3, <2>1, BcMin
  <2> QED
    BY <1>4, <2>2, BcConstants
<1>6. PICK h : h = BlockBucket[b] /\ h \in Blocks!Buckets
  BY BcConstants
<1>7. PICK d : d = BcPutIn(c, b, x)
  OBVIOUS
<1>8. /\ d \in BcRecords /\ d.live = c.live \cup {e} /\ d.current_size = c.current_size + 1
      /\ d.lru_head = e /\ d.lru_tail = IF c.lru_tail = 0 THEN e ELSE c.lru_tail
      /\ d.lru_next[e] = c.lru_head /\ (c.lru_head # e => d.lru_prev[e] = 0)
      /\ d.next[e] = c.hash_table[h] /\ d.entry[e] = [block |-> b, data |-> x]
      /\ \A y \in BcE : y # e =>
           /\ d.lru_next[y] = c.lru_next[y]
           /\ d.lru_prev[y] = IF y = c.lru_head THEN e ELSE c.lru_prev[y]
           /\ d.next[y] = c.next[y] /\ d.entry[y] = c.entry[y]
      /\ \A g \in Blocks!Buckets : d.hash_table[g] = IF g = h THEN e ELSE c.hash_table[g]
  <2>1. BcIsPut(c, d, e, h, b, x)
    BY <1>2, <1>4, <1>5, <1>6, <1>7, BcPutFields
  <2> QED
    BY <2>1 DEF BcIsPut
<1>9. PICK m : m = ChPush(l, e)
  OBVIOUS
<1>10. /\ m \in Seq(BcE) /\ Len(m) = Len(l) + 1 /\ ChDistinct(m) /\ ChRange(m) = d.live
  <2>1. ChDistinct(ChPush(l, e)) /\ ChRange(ChPush(l, e)) = ChRange(l) \cup {e}
    BY <1>2, <1>5, ChPushRange
  <2>2. ChPush(l, e) \in Seq(BcE) /\ Len(ChPush(l, e)) = Len(l) + 1
    BY <1>2, <1>5, ChPushed
  <2> QED
    BY <1>2, <1>8, <1>9, <2>1, <2>2
<1>11. DlLinked(d.lru_head, d.lru_tail, d.lru_prev, d.lru_next, m)
  <2>1. c.lru_head # e
    <3>1. ChLinked(c.lru_next, c.lru_head, l)
      BY <1>2 DEF DlLinked
    <3>2. c.lru_head \in ChRange(l) \cup {0}
      BY <1>2, <3>1, ChStays
    <3> QED
      BY <1>2, <1>5, <3>2
  <2>2. \A y \in ChRange(l) : y \in BcE /\ y # e
    BY <1>2, <1>5
  <2>3. DlIn(c.lru_head, c.lru_prev, c.lru_next, l, e, d.lru_prev, d.lru_next)
    BY <1>8, <2>1, <2>2 DEF DlIn
  <2>4. DlLinked(e, IF c.lru_tail = 0 THEN e ELSE c.lru_tail, d.lru_prev, d.lru_next, ChPush(l, e))
    BY <1>2, <1>5, <2>3, BcConstants, DlPush
  <2> QED
    BY <1>8, <1>9, <2>4
<1>12. BcUse(d, m)
  BY <1>2, <1>8, <1>10, <1>11 DEF BcUse
<1>13. \A y \in c.live : y \in BcE /\ y # e /\ y \in d.live /\ BcBlock(d, y) = BcBlock(c, y)
  BY <1>2, <1>5, <1>8 DEF BcBlock
<1>14. BcBlock(d, e) = b /\ d.entry[e].data = x
  BY <1>8 DEF BcBlock
<1>15. \A g : BcIn(d, g) = IF g = h THEN BcIn(c, g) \cup {e} ELSE BcIn(c, g)
  BY <1>6, <1>8, <1>13, <1>14 DEF BcIn
<1>16. ASSUME NEW y \in c.live, NEW z \in c.live, ChOrder(l, y, z) PROVE ChOrder(m, y, z)
  BY <1>2, <1>5, <1>9, <1>13, <1>16, ChOrderPush
<1>17. ASSUME NEW y \in c.live PROVE ChOrder(m, e, y)
  BY <1>2, <1>5, <1>9, <1>13, ChOrderNew
<1>18. ASSUME NEW g \in Blocks!Buckets
       PROVE  \E s : BcChain(d, m, g, s, lt2, uw2)
  <2>1. PICK s : BcChain(c, l, g, s, lt, uw)
    BY <1>1 DEF BcGood
  <2>2. /\ s \in Seq(BcE) /\ ChDistinct(s) /\ ChLinked(c.next, c.hash_table[g], s)
        /\ ChRange(s) = BcIn(c, g) /\ BcSame(c, l, s) /\ BcNewest(c, s, lt, uw) /\ Len(s) \in Nat
    BY <2>1, LenProperties DEF BcChain, BcHeld
  <2>3. \A i \in 1 .. Len(s) :
          /\ s[i] \in c.live /\ s[i] # e /\ s[i] \in ChRange(s)
          /\ BcBlock(d, s[i]) = BcBlock(c, s[i]) /\ d.entry[s[i]] = c.entry[s[i]]
          /\ BcBlock(c, s[i]) \in BlockIds /\ BlockBucket[BcBlock(c, s[i])] = g
    <3>1. \A i \in 1 .. Len(s) : s[i] \in ChRange(s)
      BY DEF ChRange
    <3>2. \A i \in 1 .. Len(s) : s[i] \in c.live /\ BlockBucket[BcBlock(c, s[i])] = g
      BY <2>2, <3>1 DEF BcIn
    <3> QED
      BY <1>2, <1>8, <1>13, <3>1, <3>2
  <2>4. e \notin ChRange(s) /\ \A y \in ChRange(s) : y \in BcE /\ y # e /\ d.next[y] = c.next[y]
    BY <1>5, <1>8, <1>13, <2>2 DEF BcIn
  <2>5. ASSUME NEW i \in 1 .. Len(s), BcFirst(c, s, i), BcBlock(c, s[i]) # b
        PROVE  BcBlock(d, s[i]) \in uw2 \/ d.entry[s[i]].data = lt2[BcBlock(d, s[i])]
    <3>1. BcBlock(c, s[i]) \in uw \/ c.entry[s[i]].data = lt[BcBlock(c, s[i])]
      BY <2>2, <2>5 DEF BcNewest
    <3>2. PICK a \in BlockIds : a = BcBlock(c, s[i]) /\ a # b
      BY <2>3, <2>5
    <3>3. a \in uw2 \/ (a \notin uw /\ lt2[a] = lt[a])
      BY <3>2
    <3> QED
      BY <2>3, <3>1, <3>2, <3>3
  <2>6. CASE g # h
    <3>1. ChLinked(d.next, c.hash_table[g], s)
      BY ONLY <2>2, <2>4, ChLinkedSame
    <3>2. BcHeld(d, g, s)
      BY <1>8, <1>15, <2>2, <2>6, <3>1 DEF BcHeld
    <3>3. BcSame(d, m, s)
      BY <1>16, <2>2, <2>3 DEF BcSame
    <3>4. \A i \in 1 .. Len(s) : /\ BcFirst(d, s, i) <=> BcFirst(c, s, i)
                                 /\ BcBlock(c, s[i]) # b
      BY <1>6, <2>3, <2>6 DEF BcFirst
    <3>5. BcNewest(d, s, lt2, uw2)
      BY <2>5, <3>4 DEF BcNewest
    <3> QED
      BY <3>2, <3>3, <3>5 DEF BcChain
  <2>7. CASE g = h
    <3>1. PICK t : t = ChPush(s, e)
      OBVIOUS
    <3>2. ChDistinct(t) /\ ChRange(t) = ChRange(s) \cup {e} /\ t \in Seq(BcE)
      <4>1. ChDistinct(ChPush(s, e)) /\ ChRange(ChPush(s, e)) = ChRange(s) \cup {e}
        BY <1>5, <2>2, <2>4, ChPushRange
      <4>2. ChPush(s, e) \in Seq(BcE)
        BY <1>5, <2>2, ChPushed
      <4> QED
        BY <3>1, <4>1, <4>2
    <3>3. ChLinked(d.next, e, t)
      <4>1. d.next[e] = c.hash_table[g] /\ \A y \in ChRange(s) : d.next[y] = c.next[y]
        BY <1>8, <2>4, <2>7
      <4>2. ChLinked(d.next, e, ChPush(s, e))
        BY ONLY <1>5, <2>2, <4>1, ChPushLinked
      <4> QED
        BY <3>1, <4>2
    <3>4. BcHeld(d, g, t)
      BY <1>8, <1>15, <2>2, <2>7, <3>2, <3>3 DEF BcHeld
    <3>5. /\ Len(t) = Len(s) + 1 /\ t[1] = e /\ 1 \in 1 .. Len(t)
          /\ \A k \in 1 .. Len(s) : k + 1 \in 1 .. Len(t) /\ t[k + 1] = s[k]
          /\ \A j \in 1 .. Len(t) : j = 1 \/ (j - 1 \in 1 .. Len(s) /\ t[j] = s[j - 1])
      <4>1. ChIsPush(BcE, s, e, t)
        BY <1>5, <2>2, <3>1, ChPushPlaces
      <4> QED
        BY <4>1 DEF ChIsPush
    <3>6. BcSame(d, m, t)
      <4>1. ASSUME NEW i \in 1 .. Len(t), NEW j \in 1 .. Len(t), i < j,
                   BcBlock(d, t[i]) = BcBlock(d, t[j])
            PROVE  ChOrder(m, t[i], t[j])
        <5>1. j # 1
          BY <4>1
        <5>2. PICK j0 \in 1 .. Len(s) : j0 = j - 1 /\ t[j] = s[j0]
          BY <3>5, <5>1
        <5>3. CASE i = 1
          BY <1>17, <2>3, <3>5, <5>2, <5>3
        <5>4. CASE i # 1
          <6>1. PICK i0 \in 1 .. Len(s) : i0 = i - 1 /\ t[i] = s[i0]
            BY <3>5, <5>4
          <6>2. i0 < j0
            BY <4>1, <5>2, <6>1
          <6>3. BcBlock(c, s[i0]) = BcBlock(c, s[j0])
            BY <2>3, <4>1, <5>2, <6>1
          <6>4. ChOrder(l, s[i0], s[j0])
            BY <2>2, <6>2, <6>3 DEF BcSame
          <6> QED
            BY <1>16, <2>3, <5>2, <6>1, <6>4
        <5> QED
          BY <5>3, <5>4
      <4> QED
        BY <4>1 DEF BcSame
    <3>7. ASSUME NEW i \in 1 .. Len(t), BcFirst(d, t, i)
          PROVE  BcBlock(d, t[i]) \in uw2 \/ d.entry[t[i]].data = lt2[BcBlock(d, t[i])]
      <4>1. CASE i = 1
        BY <1>14, <3>5, <4>1
      <4>2. CASE i # 1
        <5>1. PICK i0 \in 1 .. Len(s) : i0 = i - 1 /\ t[i] = s[i0]
          BY <3>5, <4>2
        <5>2. BcBlock(c, s[i0]) # b
          <6>1. 1 < i
            BY <4>2
          <6>2. BcBlock(d, t[1]) # BcBlock(d, t[i])
            BY <3>5, <3>7, <6>1 DEF BcFirst
          <6> QED
            BY <1>14, <2>3, <3>5, <5>1, <6>2
        <5>3. BcFirst(c, s, i0)
          <6>1. ASSUME NEW j \in 1 .. Len(s), j < i0 PROVE BcBlock(c, s[j]) # BcBlock(c, s[i0])
            <7>1. j + 1 \in 1 .. Len(t) /\ t[j + 1] = s[j] /\ j + 1 < i
              BY <3>5, <5>1, <6>1
            <7>2. BcBlock(d, t[j + 1]) # BcBlock(d, t[i])
              BY <3>7, <7>1 DEF BcFirst
            <7> QED
              BY <2>3, <5>1, <7>1, <7>2
          <6> QED
            BY <6>1 DEF BcFirst
        <5> QED
          BY <2>5, <5>1, <5>2, <5>3
      <4> QED
        BY <4>1, <4>2
    <3>8. BcNewest(d, t, lt2, uw2)
      BY <3>7 DEF BcNewest
    <3> QED
      BY <3>4, <3>6, <3>8 DEF BcChain
  <2> QED
    BY <2>6, <2>7
<1>19. \A y \in d.live : BcBlock(d, y) \in BlockIds
  BY <1>2, <1>8, <1>13, <1>14
<1>20. BcGood(d, m, lt2, uw2)
  BY <1>8, <1>12, <1>18, <1>19 DEF BcGood
<1> QED
  BY <1>7, <1>20 DEF BcSound

LEMMA BcPuts ==
  ASSUME NEW c, NEW lt, NEW uw, BcSound(c, lt, uw),
         NEW b \in BlockIds, NEW x \in Blocks!Data, NEW lt2, NEW uw2,
         b \in uw2 \/ lt2[b] = x,
         \A a \in BlockIds : a # b => a \in uw2 \/ (a \notin uw /\ lt2[a] = lt[a])
  PROVE  BcSound(Blocks!cache_put(c, b, x), lt2, uw2)
<1>1. MAX_CACHE_SIZE \in Nat /\ MAX_CACHE_SIZE # 0 /\ c.current_size \in Nat /\ c.current_size <= MAX_CACHE_SIZE
  <2>1. PICK l : BcGood(c, l, lt, uw)
    BY DEF BcSound
  <2>2. l \in Seq(BcE) /\ ChDistinct(l) /\ c.current_size = Len(l)
    BY <2>1 DEF BcGood, BcUse
  <2>3. Len(l) \in Nat /\ Len(l) <= Cardinality(BcE)
    BY <2>2, BcConstants, ChShort
  <2> QED
    BY <2>2, <2>3, BcConstants
<1>2. PICK r : r = IF c.current_size + 1 > MAX_CACHE_SIZE THEN Blocks!evict_lru(c) ELSE c
  OBVIOUS
<1>3. BcSound(r, lt, uw) /\ r.current_size < MAX_CACHE_SIZE
  <2>1. CASE c.current_size + 1 > MAX_CACHE_SIZE
    <3>1. c.current_size # 0
      BY <1>1, <2>1
    <3>2. /\ BcSound(Blocks!evict_lru(c), lt, uw)
          /\ Blocks!evict_lru(c).current_size = c.current_size - 1
      BY <3>1, BcEvicts
    <3> QED
      BY <1>1, <1>2, <2>1, <3>2
  <2>2. CASE ~(c.current_size + 1 > MAX_CACHE_SIZE)
    BY <1>1, <1>2, <2>2
  <2> QED
    BY <2>1, <2>2
<1>4. Blocks!cache_put(c, b, x) = BcPutIn(r, b, x)
  BY <1>2, BcConstants DEF Blocks!cache_put, BcPutIn
<1>5. BcSound(BcPutIn(r, b, x), lt2, uw2)
  BY <1>3, BcPutsIn
<1> QED
  BY <1>4, <1>5

BcStored(f, i, v, g) ==
  g \in [BcE -> BcPointer] /\ \A y \in BcE : g[y] = IF y = i THEN v ELSE f[y]

LEMMA BcStore ==
  ASSUME NEW f \in [BcE -> BcPointer], NEW i \in BcPointer, NEW v \in BcPointer
  PROVE  BcStored(f, i, v, Blocks!Store(f, i, v))
<1>1. CASE i = 0
  BY <1>1, BcConstants DEF Blocks!Store, BcStored
<1>2. CASE i # 0
  BY <1>2, BcConstants DEF Blocks!Store, BcPointer, BcStored
<1> QED
  BY <1>1, <1>2

BcIsMove(c, d, e, a, z) ==
  /\ d \in BcRecords /\ d.live = c.live /\ d.current_size = c.current_size
  /\ d.next = c.next /\ d.entry = c.entry /\ d.hash_table = c.hash_table
  /\ d.lru_head = e /\ d.lru_tail = IF e = c.lru_tail THEN a ELSE c.lru_tail
  /\ d.lru_next[e] = c.lru_head /\ (c.lru_head # e => d.lru_prev[e] = 0)
  /\ \A y \in BcE : y # e =>
       /\ d.lru_next[y] = IF y = a THEN z ELSE c.lru_next[y]
       /\ d.lru_prev[y] = IF y = c.lru_head THEN e ELSE IF y = z THEN a ELSE c.lru_prev[y]

LEMMA BcMoveFields ==
  ASSUME NEW c \in BcRecords, NEW e \in BcE, e # c.lru_head,
         NEW a, a = c.lru_prev[e], NEW z, z = c.lru_next[e], NEW d, d = Blocks!move_to_front(c, e)
  PROVE  BcIsMove(c, d, e, a, z)
<1> DEFINE lnext == [Blocks!Store(c.lru_next, a, z) EXCEPT ![e] = c.lru_head]
           lprev == Blocks!Store([Blocks!Store(c.lru_prev, z, a) EXCEPT ![e] = 0], c.lru_head, e)
           tl    == IF e = c.lru_tail THEN a ELSE c.lru_tail
<1>1. /\ c.hash_table \in [Blocks!Buckets -> BcPointer] /\ c.lru_head \in BcPointer /\ c.lru_tail \in BcPointer
      /\ c.next \in [BcE -> BcPointer] /\ c.lru_prev \in [BcE -> BcPointer] /\ c.lru_next \in [BcE -> BcPointer]
      /\ c.entry \in [BcE -> [block : Nat, data : Blocks!Data]] /\ c.live \subseteq BcE
      /\ c.current_size \in Nat
  BY DEF BcRecords
<1>2. d = [hash_table |-> c.hash_table, lru_head |-> e, lru_tail |-> tl,
           next |-> c.next, lru_prev |-> lprev, lru_next |-> lnext, entry |-> c.entry,
           live |-> c.live, current_size |-> c.current_size]
  <2>1. d = [c EXCEPT !.lru_next = [Blocks!Store(@, a, z) EXCEPT ![e] = c.lru_head],
                      !.lru_prev = Blocks!Store([Blocks!Store(@, z, a) EXCEPT ![e] = 0], c.lru_head, e),
                      !.lru_tail = IF e = @ THEN a ELSE @,
                      !.lru_head = e]
    BY BcConstants DEF Blocks!move_to_front
  <2>2. PICK f1, f2, f3, f4, f5, f6, f7, f8, f9 :
          /\ f1 = c.hash_table /\ f2 = c.lru_head /\ f3 = c.lru_tail /\ f4 = c.next /\ f5 = c.lru_prev
          /\ f6 = c.lru_next /\ f7 = c.entry /\ f8 = c.live /\ f9 = c.current_size
    OBVIOUS
  <2>3. c = [hash_table |-> f1, lru_head |-> f2, lru_tail |-> f3, next |-> f4, lru_prev |-> f5,
             lru_next |-> f6, entry |-> f7, live |-> f8, current_size |-> f9]
    BY <2>2 DEF BcRecords
  <2> QED
    BY ONLY <2>1, <2>3
<1>3. a \in BcPointer /\ z \in BcPointer /\ 0 \in BcPointer /\ 0 \notin BcE /\ e \in BcPointer
  BY <1>1, BcConstants DEF BcPointer
<1>5. /\ lnext \in [BcE -> BcPointer] /\ lnext[e] = c.lru_head
      /\ \A y \in BcE : y # e => lnext[y] = IF y = a THEN z ELSE c.lru_next[y]
  <2>1. PICK f : f = Blocks!Store(c.lru_next, a, z)
    OBVIOUS
  <2>2. f \in [BcE -> BcPointer] /\ \A y \in BcE : f[y] = IF y = a THEN z ELSE c.lru_next[y]
    <3>1. BcStored(c.lru_next, a, z, f)
      BY <1>1, <1>3, <2>1, BcStore
    <3> QED
      BY <3>1 DEF BcStored
  <2>3. lnext = [f EXCEPT ![e] = c.lru_head]
    BY <2>1
  <2> QED
    BY <1>1, <2>2, <2>3
<1>6. /\ lprev \in [BcE -> BcPointer] /\ (c.lru_head # e => lprev[e] = 0)
      /\ \A y \in BcE : y # e =>
           lprev[y] = IF y = c.lru_head THEN e ELSE IF y = z THEN a ELSE c.lru_prev[y]
  <2>1. PICK f : f = Blocks!Store(c.lru_prev, z, a)
    OBVIOUS
  <2>2. f \in [BcE -> BcPointer] /\ \A y \in BcE : f[y] = IF y = z THEN a ELSE c.lru_prev[y]
    <3>1. BcStored(c.lru_prev, z, a, f)
      BY <1>1, <1>3, <2>1, BcStore
    <3> QED
      BY <3>1 DEF BcStored
  <2>3. PICK g : g = [f EXCEPT ![e] = 0]
    OBVIOUS
  <2>4. /\ g \in [BcE -> BcPointer] /\ g[e] = 0
        /\ \A y \in BcE : y # e => g[y] = IF y = z THEN a ELSE c.lru_prev[y]
    BY <1>3, <2>2, <2>3
  <2>5. lprev = Blocks!Store(g, c.lru_head, e)
    BY <2>1, <2>3
  <2>6. lprev \in [BcE -> BcPointer] /\ \A y \in BcE : lprev[y] = IF y = c.lru_head THEN e ELSE g[y]
    <3>1. BcStored(g, c.lru_head, e, Blocks!Store(g, c.lru_head, e))
      BY <1>1, <1>3, <2>4, BcStore
    <3>2. BcStored(g, c.lru_head, e, lprev)
      BY <2>5, <3>1
    <3> HIDE DEF lprev
    <3> QED
      BY <3>2 DEF BcStored
  <2> HIDE DEF lprev
  <2> QED
    BY <2>4, <2>6
<1>7. tl \in BcPointer
  BY <1>1, <1>3
<1> HIDE DEF lnext, lprev, tl
<1>8. d \in BcRecords
  BY <1>1, <1>2, <1>3, <1>5, <1>6, <1>7 DEF BcRecords
<1>9. /\ d.live = c.live /\ d.current_size = c.current_size
      /\ d.lru_head = e /\ d.lru_tail = tl
      /\ d.lru_next = lnext /\ d.lru_prev = lprev /\ d.next = c.next /\ d.entry = c.entry
      /\ d.hash_table = c.hash_table
  BY ONLY <1>2
<1>10. tl = IF e = c.lru_tail THEN a ELSE c.lru_tail
  BY DEF tl
<1> QED
  BY <1>5, <1>6, <1>8, <1>9, <1>10 DEF BcIsMove

\* A hit moves the newest entry of its block, so the order of entries of one block
\* stays as it is in the chain.
LEMMA BcMoves ==
  ASSUME NEW c, NEW lt, NEW uw, BcSound(c, lt, uw), NEW b \in BlockIds, Blocks!Lookup(c, b) # 0
  PROVE  BcSound(Blocks!move_to_front(c, Blocks!Lookup(c, b)), lt, uw)
<1>1. PICK l : BcGood(c, l, lt, uw)
  BY DEF BcSound
<1>2. /\ c \in BcRecords /\ l \in Seq(BcE) /\ ChDistinct(l) /\ ChRange(l) = c.live
      /\ DlLinked(c.lru_head, c.lru_tail, c.lru_prev, c.lru_next, l)
      /\ c.current_size = Len(l) /\ \A y \in c.live : BcBlock(c, y) \in BlockIds
      /\ c.live \subseteq BcE /\ 0 \notin BcE
  BY <1>1, BcConstants DEF BcGood, BcUse, BcRecords
<1>3. PICK e : e = Blocks!Lookup(c, b)
  OBVIOUS
<1>4. ASSUME NEW s, BcHeld(c, BlockBucket[b], s)
      PROVE  \E i \in 1 .. Len(s) : e = s[i] /\ BcBlock(c, s[i]) = b /\ BcFirst(c, s, i)
  BY <1>2, <1>3, <1>4, BcLookup
<1>5. e \in c.live /\ e \in BcE /\ BcBlock(c, e) = b
  <2>1. PICK s : BcChain(c, l, BlockBucket[b], s, lt, uw)
    BY <1>1, BcConstants DEF BcGood
  <2>2. PICK i \in 1 .. Len(s) : e = s[i] /\ BcBlock(c, s[i]) = b
    BY <1>4, <2>1 DEF BcChain
  <2>3. e \in ChRange(s)
    BY <2>2 DEF ChRange
  <2> QED
    BY <1>2, <2>1, <2>2, <2>3 DEF BcChain, BcHeld, BcIn
<1>6. CASE e = c.lru_head
  BY <1>3, <1>6 DEF Blocks!move_to_front
<1>7. CASE e # c.lru_head
  <2>1. PICK d : d = Blocks!move_to_front(c, e)
    OBVIOUS
  <2>2. PICK a, z : a = c.lru_prev[e] /\ z = c.lru_next[e]
    OBVIOUS
  <2>3. BcIsMove(c, d, e, a, z)
    BY <1>2, <1>5, <1>7, <2>1, <2>2, BcMoveFields
  <2>4. /\ d \in BcRecords /\ d.live = c.live /\ d.current_size = c.current_size
        /\ d.next = c.next /\ d.entry = c.entry /\ d.hash_table = c.hash_table
        /\ d.lru_head = e /\ d.lru_tail = IF e = c.lru_tail THEN a ELSE c.lru_tail
        /\ d.lru_next[e] = c.lru_head /\ d.lru_prev[e] = 0
        /\ \A y \in BcE : y # e =>
             /\ d.lru_next[y] = IF y = a THEN z ELSE c.lru_next[y]
             /\ d.lru_prev[y] = IF y = c.lru_head THEN e ELSE IF y = z THEN a ELSE c.lru_prev[y]
    BY <1>7, <2>3 DEF BcIsMove
  <2>5. PICK k \in 1 .. Len(l) : l[k] = e
    BY <1>2, <1>5 DEF ChRange
  <2>6. PICK m : m = ChDrop(l, k)
    OBVIOUS
  <2>7. /\ m \in Seq(BcE) /\ Len(m) = Len(l) - 1 /\ ChDistinct(m) /\ ChRange(m) = c.live \ {e}
    <3>1. ChDistinct(ChDrop(l, k)) /\ ChRange(ChDrop(l, k)) = ChRange(l) \ {l[k]}
      BY <1>2, ChDropRange
    <3>2. ChDrop(l, k) \in Seq(BcE) /\ Len(ChDrop(l, k)) = Len(l) - 1
      BY <1>2, ChDropped
    <3> QED
      BY <1>2, <2>5, <2>6, <3>1, <3>2
  <2>8. PICK nx : nx = [y \in BcE |-> IF y = a THEN z ELSE c.lru_next[y]]
    OBVIOUS
  <2>9. PICK pv : pv = [y \in BcE |-> IF y = z THEN a ELSE c.lru_prev[y]]
    OBVIOUS
  <2>10. /\ DlLinked(IF a = 0 THEN z ELSE c.lru_head, IF z = 0 THEN a ELSE c.lru_tail, pv, nx, m)
         /\ a # 0 /\ ((z = 0) <=> (c.lru_tail = e))
    <3>1. DlOut(c.lru_prev, c.lru_next, l, e, pv, nx)
      BY <1>2, <2>2, <2>8, <2>9 DEF DlOut
    <3>2. DlGone(c.lru_head, c.lru_tail, c.lru_prev, c.lru_next, e, pv, nx, ChDrop(l, k))
      BY <1>2, <2>5, <3>1, DlDrop
    <3> QED
      BY <1>7, <2>2, <2>6, <3>2 DEF DlGone
  <2>11. DlLinked(c.lru_head, d.lru_tail, pv, nx, m)
    BY <2>4, <2>10
  <2>12. PICK w : w = ChPush(m, e)
    OBVIOUS
  <2>13. w \in Seq(BcE) /\ Len(w) = Len(l) /\ ChDistinct(w) /\ ChRange(w) = d.live
    <3>1. ChDistinct(ChPush(m, e)) /\ ChRange(ChPush(m, e)) = ChRange(m) \cup {e}
      BY <1>5, <2>7, ChPushRange
    <3>2. ChPush(m, e) \in Seq(BcE) /\ Len(ChPush(m, e)) = Len(m) + 1
      BY <1>5, <2>7, ChPushed
    <3>3. Len(l) \in Nat
      BY <1>2, LenProperties
    <3> QED
      BY <1>5, <2>4, <2>7, <2>12, <3>1, <3>2, <3>3
  <2>14. DlLinked(e, d.lru_tail, d.lru_prev, d.lru_next, w)
    <3>1. \A y \in ChRange(m) : y \in BcE /\ y # e
      BY <1>2, <2>7
    <3>2. DlIn(c.lru_head, pv, nx, m, e, d.lru_prev, d.lru_next)
      BY <2>4, <2>8, <2>9, <3>1 DEF DlIn
    <3>3. DlLinked(e, IF d.lru_tail = 0 THEN e ELSE d.lru_tail, d.lru_prev, d.lru_next, ChPush(m, e))
      BY <1>2, <1>5, <2>7, <2>11, <3>2, DlPush
    <3>4. d.lru_tail # 0
      <4>1. CASE e = c.lru_tail
        BY <2>4, <2>10, <4>1
      <4>2. CASE e # c.lru_tail
        <5>1. Len(l) \in 1 .. Len(l) /\ Len(l) # 0
          BY <1>2, LenProperties
        <5>2. c.lru_tail = l[Len(l)] /\ l[Len(l)] \in BcE
          BY <1>2, <5>1, ElementOfSeq DEF DlLinked, ChLast
        <5> QED
          BY <1>2, <2>4, <4>2, <5>2
      <4> QED
        BY <4>1, <4>2
    <3> QED
      BY <2>12, <3>3, <3>4
  <2>15. BcUse(d, w)
    BY <1>2, <2>4, <2>13, <2>14 DEF BcUse
  <2>16. /\ \A y : BcBlock(d, y) = BcBlock(c, y)
         /\ \A g : BcIn(d, g) = BcIn(c, g)
    BY <2>4 DEF BcBlock, BcIn
  <2>17. ASSUME NEW g \in Blocks!Buckets PROVE \E s : BcChain(d, w, g, s, lt, uw)
    <3>1. PICK s : BcChain(c, l, g, s, lt, uw)
      BY <1>1 DEF BcGood
    <3>2. BcHeld(c, g, s) /\ BcSame(c, l, s) /\ BcNewest(c, s, lt, uw)
      BY <3>1 DEF BcChain
    <3>3. BcHeld(d, g, s)
      BY <2>4, <2>16, <3>2 DEF BcHeld
    <3>4. BcNewest(d, s, lt, uw)
      <4>1. \A i \in 1 .. Len(s) : BcFirst(d, s, i) <=> BcFirst(c, s, i)
        BY <2>16 DEF BcFirst
      <4> QED
        BY <2>4, <2>16, <3>2, <4>1 DEF BcNewest
    <3>5. ASSUME NEW i \in 1 .. Len(s), NEW j \in 1 .. Len(s), i < j, BcBlock(c, s[i]) = BcBlock(c, s[j])
          PROVE  ChOrder(w, s[i], s[j])
      <4>1. ChOrder(l, s[i], s[j]) /\ s[i] # s[j]
        BY <3>2, <3>5 DEF BcSame, BcHeld, ChDistinct
      <4>2. ChOrder(m, s[i], s[j])
        <5>1. ChOrder(ChDrop(l, k), s[i], s[j])
          BY <1>2, <4>1, ChOrderDrop
        <5> QED
          BY <2>6, <5>1
      <4>3. CASE s[i] = e
        <5>1. ChOrder(ChPush(m, e), e, s[j])
          BY <1>5, <2>7, <4>1, <4>3, ChOrderNew
        <5> QED
          BY <2>12, <4>3, <5>1
      <4>4. CASE s[j] = e
        <5>1. g = BlockBucket[b]
          <6>1. e \in ChRange(s)
            BY <4>4 DEF ChRange
          <6> QED
            BY <1>5, <3>2, <6>1 DEF BcHeld, BcIn
        <5>2. PICK o \in 1 .. Len(s) : e = s[o] /\ BcFirst(c, s, o)
          BY <1>4, <3>2, <5>1
        <5>3. o = j
          BY <3>2, <4>4, <5>2 DEF BcHeld, ChDistinct
        <5> QED
          BY <3>5, <5>2, <5>3 DEF BcFirst
      <4>5. CASE s[i] # e /\ s[j] # e
        <5>1. ChOrder(ChPush(m, e), s[i], s[j])
          BY <1>5, <2>7, <4>2, <4>5, ChOrderPush
        <5> QED
          BY <2>12, <5>1
      <4> QED
        BY <4>3, <4>4, <4>5
    <3>6. BcSame(d, w, s)
      BY <2>16, <3>5 DEF BcSame
    <3> QED
      BY <3>3, <3>4, <3>6 DEF BcChain
  <2>18. BcGood(d, w, lt, uw)
    BY <1>2, <2>4, <2>15, <2>16, <2>17 DEF BcGood
  <2> QED
    BY <1>3, <2>1, <2>18 DEF BcSound
<1> QED
  BY <1>6, <1>7

LEMMA BcStarts == Blocks!Init => BcInv
<1> SUFFICES ASSUME Blocks!Init PROVE BcInv
  OBVIOUS
<1>1. PICK c : c = cache
  OBVIOUS
<1>2. c = [hash_table |-> [h \in Blocks!Buckets |-> 0], lru_head |-> 0, lru_tail |-> 0,
           next |-> [e \in BcE |-> 0], lru_prev |-> [e \in BcE |-> 0], lru_next |-> [e \in BcE |-> 0],
           entry |-> [e \in BcE |-> Blocks!Unset], live |-> {}, current_size |-> 0]
  BY <1>1, BcConstants DEF Blocks!Init, Blocks!create_cache, Blocks!NoLinks
<1>3. c \in BcRecords
  <2>1. 0 \in BcPointer /\ Blocks!Unset \in [block : Nat, data : Blocks!Data]
    BY BcConstants DEF BcPointer
  <2>2. [h \in Blocks!Buckets |-> 0] \in [Blocks!Buckets -> BcPointer]
    BY <2>1
  <2>3. [e \in BcE |-> 0] \in [BcE -> BcPointer]
    BY <2>1
  <2>4. [e \in BcE |-> Blocks!Unset] \in [BcE -> [block : Nat, data : Blocks!Data]]
    BY <2>1
  <2> QED
    BY <1>2, <2>1, <2>2, <2>3, <2>4 DEF BcRecords
<1>4. PICK l : l \in Seq(BcE) /\ Len(l) = 0 /\ ChDistinct(l) /\ ChRange(l) = {}
  <2>1. <<>> \in Seq(BcE) /\ Len(<<>>) = 0
    OBVIOUS
  <2>2. PICK l : l \in Seq(BcE) /\ Len(l) = 0
    BY <2>1
  <2>3. \A i : i \notin 1 .. Len(l)
    BY <2>2
  <2> QED
    BY <2>2, <2>3 DEF ChDistinct, ChRange
<1>5. BcUse(c, l)
  <2>1. c.lru_head = 0 /\ c.lru_tail = 0 /\ c.live = {} /\ c.current_size = 0
    BY <1>2
  <2> QED
    BY <1>4, <2>1 DEF BcUse, DlLinked, ChLinked, ChFirst, ChLast
<1>6. \A h \in Blocks!Buckets : BcChain(c, l, h, l, latest, unwritten)
  <2> TAKE h \in Blocks!Buckets
  <2>1. c.hash_table[h] = 0 /\ c.live = {}
    BY <1>2
  <2>2. BcHeld(c, h, l)
    BY <1>4, <2>1 DEF BcHeld, ChLinked, ChFirst, BcIn
  <2> QED
    BY <1>4, <2>2 DEF BcChain, BcSame, BcNewest
<1>7. BcSound(c, latest, unwritten)
  <2>1. c.live = {}
    BY <1>2
  <2>2. BcGood(c, l, latest, unwritten)
    BY <1>3, <1>5, <1>6, <2>1 DEF BcGood
  <2> QED
    BY <2>2 DEF BcSound
<1>8. BcDisk(disk, latest, unwritten)
  <2>1. PICK n \in FirstLengths : disk = [i \in 1 .. n |-> "zero"]
    BY BcConstants DEF Blocks!Init
  <2>2. n \in Nat
    BY MemoryAssumption DEF Blocks!ConstantsOK
  <2>3. disk \in [1 .. n -> Blocks!Data]
    BY <2>1, BcConstants
  <2>4. disk \in Seq(Blocks!Data) /\ Len(disk) = n
    BY <2>2, <2>3, ChSeq
  <2>5. latest = [b \in BlockIds |-> "zero"] /\ unwritten = {}
    BY BcConstants DEF Blocks!Init
  <2>6. ASSUME NEW b \in BlockIds, b < Len(disk) PROVE disk[b + 1] = "zero"
    <3>1. b + 1 \in 1 .. n
      BY <2>2, <2>4, <2>6, BcConstants
    <3> QED
      BY <2>1, <3>1
  <2> QED
    BY <2>4, <2>5, <2>6, BcConstants DEF BcDisk
<1> QED
  BY <1>1, <1>7, <1>8 DEF BcInv

\* What a write makes of the disk.
LEMMA BcWritten ==
  ASSUME NEW dk, NEW lt, NEW uw, BcDisk(dk, lt, uw), NEW b \in BlockIds, NEW x \in Blocks!Data,
         NEW dk2, dk2 = [i \in 1 .. IF b < Len(dk) THEN Len(dk) ELSE b + 1 |->
                           IF i = b + 1 THEN x ELSE IF i <= Len(dk) THEN dk[i] ELSE "zero"]
  PROVE  BcDisk(dk2, [lt EXCEPT ![b] = x], uw \ {b})
<1>1. PICK k, n : k = Len(dk) /\ n = IF b < k THEN k ELSE b + 1
  OBVIOUS
<1>2. k \in Nat /\ b \in Nat /\ n \in Nat /\ n >= k /\ n > b
  BY <1>1, BcConstants, LenProperties DEF BcDisk
<1>3. \A i \in 1 .. k : dk[i] \in Blocks!Data
  BY <1>1, ElementOfSeq DEF BcDisk
<1>4. dk2 = [i \in 1 .. n |-> IF i = b + 1 THEN x ELSE IF i <= k THEN dk[i] ELSE "zero"]
  BY <1>1
<1>5. dk2 \in [1 .. n -> Blocks!Data]
  <2>1. ASSUME NEW i \in 1 .. n
        PROVE  (IF i = b + 1 THEN x ELSE IF i <= k THEN dk[i] ELSE "zero") \in Blocks!Data
    <3>1. i <= k => i \in 1 .. k
      BY <1>2
    <3> QED
      BY <1>3, <3>1, BcConstants
  <2> QED
    BY <1>4, <2>1
<1>6. dk2 \in Seq(Blocks!Data) /\ Len(dk2) = n
  BY <1>2, <1>5, ChSeq
<1>7. PICK lt2 : lt2 = [lt EXCEPT ![b] = x]
  OBVIOUS
<1>8. /\ lt2 \in [BlockIds -> Blocks!Data] /\ lt2[b] = x
      /\ \A a \in BlockIds : a # b => lt2[a] = lt[a]
  BY <1>7 DEF BcDisk
<1>9. ASSUME NEW a \in BlockIds \ (uw \ {b})
      PROVE  IF a < Len(dk2) THEN dk2[a + 1] = lt2[a] ELSE lt2[a] = "zero"
  <2>1. a \in Nat
    BY BcConstants
  <2>2. CASE a = b
    <3>1. a + 1 \in 1 .. n /\ a < n
      BY <1>2, <2>2
    <3> QED
      BY <1>4, <1>6, <1>8, <2>2, <3>1
  <2>3. CASE a # b
    <3>1. /\ IF a < k THEN dk[a + 1] = lt[a] ELSE lt[a] = "zero"
          /\ lt2[a] = lt[a]
      BY <1>1, <1>8, <1>9, <2>3 DEF BcDisk
    <3>2. CASE a < k
      <4>1. a + 1 \in 1 .. n /\ a + 1 # b + 1 /\ a + 1 <= k /\ a < n
        BY <1>2, <2>1, <2>3, <3>2
      <4> QED
        BY <1>4, <1>6, <3>1, <3>2, <4>1
    <3>3. CASE ~(a < k)
      <4>1. CASE a < n
        <5>1. a + 1 \in 1 .. n /\ a + 1 # b + 1 /\ ~(a + 1 <= k)
          BY <1>2, <2>1, <2>3, <3>3, <4>1
        <5> QED
          BY <1>4, <1>6, <3>1, <3>3, <4>1, <5>1
      <4>2. CASE ~(a < n)
        BY <1>6, <3>1, <3>3, <4>2
      <4> QED
        BY <4>1, <4>2
    <3> QED
      BY <3>2, <3>3
  <2> QED
    BY <2>2, <2>3
<1>10. uw \ {b} \subseteq BlockIds
  BY DEF BcDisk
<1> QED
  BY <1>6, <1>7, <1>8, <1>9, <1>10 DEF BcDisk

LEMMA BcStep == BcInv /\ (Blocks!Next \/ UNCHANGED storage) => BcInv'
<1> SUFFICES ASSUME BcInv, Blocks!Next \/ UNCHANGED storage PROVE BcInv'
  OBVIOUS
<1>1. PICK c, lt, uw, dk : c = cache /\ lt = latest /\ uw = unwritten /\ dk = disk
  OBVIOUS
<1>2. BcSound(c, lt, uw) /\ BcDisk(dk, lt, uw)
  BY <1>1 DEF BcInv
<1>3. PICK c2, lt2, uw2, dk2 : c2 = cache' /\ lt2 = latest' /\ uw2 = unwritten' /\ dk2 = disk'
  OBVIOUS
<1>4. SUFFICES BcSound(c2, lt2, uw2) /\ BcDisk(dk2, lt2, uw2)
  BY <1>3 DEF BcInv
<1>5. CASE UNCHANGED <<cache, disk, latest, unwritten>>
  BY <1>1, <1>2, <1>3, <1>5
<1>6. ASSUME NEW b \in BlockIds, Blocks!ReadHit(b)
      PROVE  BcSound(c2, lt2, uw2) /\ BcDisk(dk2, lt2, uw2)
  <2>1. /\ Blocks!Lookup(c, b) # 0 /\ c2 = Blocks!move_to_front(c, Blocks!Lookup(c, b))
        /\ lt2 = lt /\ uw2 = uw /\ dk2 = dk
    BY <1>1, <1>3, <1>6, BcConstants DEF Blocks!ReadHit
  <2>2. BcSound(Blocks!move_to_front(c, Blocks!Lookup(c, b)), lt, uw)
    BY <1>2, <2>1, BcMoves
  <2> QED
    BY <1>2, <2>1, <2>2
<1>7. ASSUME NEW b \in BlockIds, Blocks!ReadMiss(b)
      PROVE  BcSound(c2, lt2, uw2) /\ BcDisk(dk2, lt2, uw2)
  <2>1. /\ b < Len(dk) /\ c2 = Blocks!cache_put(c, b, dk[b + 1])
        /\ lt2 = lt /\ uw2 = uw /\ dk2 = dk
    BY <1>1, <1>3, <1>7 DEF Blocks!ReadMiss
  <2>2. b \in Nat /\ Len(dk) \in Nat /\ dk \in Seq(Blocks!Data)
    BY <1>2, BcConstants, LenProperties DEF BcDisk
  <2>3. b + 1 \in 1 .. Len(dk)
    BY <2>1, <2>2
  <2>4. PICK x \in Blocks!Data : x = dk[b + 1]
    BY <2>2, <2>3, ElementOfSeq
  <2>5. b \in uw \/ lt[b] = x
    BY <1>2, <2>1, <2>4 DEF BcDisk
  <2>6. \A a \in BlockIds : a # b => a \in uw \/ (a \notin uw /\ lt[a] = lt[a])
    OBVIOUS
  <2>7. BcSound(Blocks!cache_put(c, b, x), lt, uw)
    BY <1>2, <2>5, <2>6, BcPuts
  <2> QED
    BY <1>2, <2>1, <2>4, <2>7
<1>8. ASSUME NEW b \in BlockIds, Blocks!ReadFails(b)
      PROVE  BcSound(c2, lt2, uw2) /\ BcDisk(dk2, lt2, uw2)
  BY <1>1, <1>2, <1>3, <1>8 DEF Blocks!ReadFails
<1>9. ASSUME NEW b \in BlockIds, NEW x \in BlockTexts, Blocks!write_block(b, x)
      PROVE  BcSound(c2, lt2, uw2) /\ BcDisk(dk2, lt2, uw2)
  <2>1. x \in Blocks!Data
    BY BcConstants
  <2>2. /\ c2 = Blocks!cache_put(c, b, x) /\ lt2 = [lt EXCEPT ![b] = x]
        /\ \/ /\ uw2 = uw \ {b}
              /\ dk2 = [i \in 1 .. IF b < Len(dk) THEN Len(dk) ELSE b + 1 |->
                          IF i = b + 1 THEN x ELSE IF i <= Len(dk) THEN dk[i] ELSE "zero"]
           \/ dk2 = dk /\ uw2 = uw \cup {b}
    BY <1>1, <1>3, <1>9, BcConstants DEF Blocks!write_block, Blocks!Written
  <2>3. lt2 \in [BlockIds -> Blocks!Data] /\ lt2[b] = x /\ \A a \in BlockIds : a # b => lt2[a] = lt[a]
    BY <1>2, <2>1, <2>2 DEF BcDisk
  <2>4. \A a \in BlockIds : a # b => a \in uw2 \/ (a \notin uw /\ lt2[a] = lt[a])
    BY <2>2, <2>3
  <2>5. BcSound(Blocks!cache_put(c, b, x), lt2, uw2)
    BY <1>2, <2>1, <2>3, <2>4, BcPuts
  <2>6. BcDisk(dk2, lt2, uw2)
    <3>1. CASE dk2 = dk /\ uw2 = uw \cup {b}
      BY <1>2, <2>3, <3>1 DEF BcDisk
    <3>2. CASE ~(dk2 = dk /\ uw2 = uw \cup {b})
      <4>1. /\ uw2 = uw \ {b} /\ lt2 = [lt EXCEPT ![b] = x]
            /\ dk2 = [i \in 1 .. IF b < Len(dk) THEN Len(dk) ELSE b + 1 |->
                        IF i = b + 1 THEN x ELSE IF i <= Len(dk) THEN dk[i] ELSE "zero"]
        BY <2>2, <3>2
      <4>2. BcDisk(dk2, [lt EXCEPT ![b] = x], uw \ {b})
        BY ONLY b \in BlockIds, <1>2, <2>1, <4>1, BcWritten
      <4> QED
        BY <4>1, <4>2
    <3> QED
      BY <3>1, <3>2
  <2> QED
    BY <2>2, <2>5, <2>6
<1> QED
  BY <1>5, <1>6, <1>7, <1>8, <1>9 DEF Blocks!Next, Blocks!read_block, storage

LEMMA BcReads == BcInv => Blocks!ReadsLatest
<1> SUFFICES ASSUME BcInv, NEW b \in BlockIds \ unwritten,
                    Blocks!Lookup(cache, b) # 0 \/ b < Len(disk)
             PROVE  Blocks!ReadsAs(b) = latest[b]
  BY BcConstants DEF Blocks!ReadsLatest
<1>1. PICK c, lt, uw : c = cache /\ lt = latest /\ uw = unwritten
  OBVIOUS
<1>2. PICK l : BcGood(c, l, lt, uw)
  BY <1>1 DEF BcInv, BcSound
<1>3. b \in BlockIds /\ b \notin uw /\ c \in BcRecords
  BY <1>1, <1>2 DEF BcGood
<1>4. PICK s : BcChain(c, l, BlockBucket[b], s, lt, uw)
  BY <1>2, <1>3, BcConstants DEF BcGood
<1>5. \/ Blocks!Lookup(c, b) = 0
      \/ \E i \in 1 .. Len(s) : /\ Blocks!Lookup(c, b) = s[i] /\ s[i] # 0
                                /\ BcBlock(c, s[i]) = b /\ BcFirst(c, s, i)
  BY <1>3, <1>4, BcLookup DEF BcChain
<1>6. CASE Blocks!Lookup(c, b) = 0
  BY <1>1, <1>6, BcConstants DEF Blocks!ReadsAs, BcInv, BcDisk
<1>7. CASE Blocks!Lookup(c, b) # 0
  <2>1. PICK i \in 1 .. Len(s) : /\ Blocks!Lookup(c, b) = s[i]
                                 /\ BcBlock(c, s[i]) = b /\ BcFirst(c, s, i)
    BY <1>5, <1>7
  <2>2. c.entry[s[i]].data = lt[b]
    BY <1>3, <1>4, <2>1 DEF BcChain, BcNewest
  <2> QED
    BY <1>1, <1>7, <2>1, <2>2, BcConstants DEF Blocks!ReadsAs
<1> QED
  BY <1>6, <1>7

LEMMA BcAgree == BcInv => Blocks!ListsAgree
<1> SUFFICES ASSUME BcInv PROVE Blocks!ListsAgree
  OBVIOUS
<1>1. PICK c : c = cache
  OBVIOUS
<1>2. PICK l : BcGood(c, l, latest, unwritten)
  BY <1>1 DEF BcInv, BcSound
<1>3. /\ c \in BcRecords /\ l \in Seq(BcE) /\ ChDistinct(l) /\ ChRange(l) = c.live
      /\ DlLinked(c.lru_head, c.lru_tail, c.lru_prev, c.lru_next, l) /\ c.current_size = Len(l)
  BY <1>2 DEF BcGood, BcUse
<1>4. c.next \in [BcE -> BcE \cup {0}] /\ c.lru_next \in [BcE -> BcE \cup {0}]
  BY <1>3 DEF BcRecords, BcPointer
<1>5. Blocks!Chain(c.lru_next, c.lru_head) = l
  BY <1>3, <1>4, BcConstants, ChainIs DEF DlLinked
<1>6. Len(l) \in Nat /\ DOMAIN l = 1 .. Len(l)
  BY <1>3, LenProperties
<1>7. Blocks!IsDoublyLinked(c.lru_head, c.lru_tail, c.lru_prev, c.lru_next, c.live)
  <2>1. {l[i] : i \in DOMAIN l} = c.live
    BY <1>3, <1>6 DEF ChRange
  <2>2. \A i, j \in DOMAIN l : l[i] = l[j] => i = j
    BY <1>3, <1>6 DEF ChDistinct
  <2>3. \A i \in DOMAIN l : c.lru_prev[l[i]] = IF i = 1 THEN 0 ELSE l[i - 1]
    BY <1>3, <1>6 DEF DlLinked, ChBefore
  <2>4. c.lru_tail = IF l = <<>> THEN 0 ELSE l[Len(l)]
    <3>1. l = <<>> <=> Len(l) = 0
      BY <1>3, EmptySeq
    <3> QED
      BY <1>3, <3>1 DEF DlLinked, ChLast
  <2> QED
    BY <1>5, <2>1, <2>2, <2>3, <2>4, BcConstants DEF Blocks!IsDoublyLinked
<1>8. c.current_size = Blocks!Cardinality(c.live)
  BY <1>3, ChCount, ChCardinality
<1>9. ASSUME NEW h \in Blocks!Buckets
      PROVE  LET s == Blocks!Chain(c.next, c.hash_table[h])
             IN  /\ {s[i] : i \in DOMAIN s} = {e \in c.live : BlockBucket[c.entry[e].block] = h}
                 /\ \A i, j \in DOMAIN s : s[i] = s[j] => i = j
  <2>1. PICK s : BcHeld(c, h, s)
    BY <1>2 DEF BcGood, BcChain
  <2>2. Blocks!Chain(c.next, c.hash_table[h]) = s
    BY <1>4, <2>1, BcConstants, ChainIs DEF BcHeld
  <2>3. DOMAIN s = 1 .. Len(s)
    BY <2>1, LenProperties DEF BcHeld
  <2> QED
    BY <2>1, <2>2, <2>3 DEF BcHeld, ChRange, ChDistinct, BcIn, BcBlock
<1> QED
  BY <1>1, <1>7, <1>8, <1>9 DEF Blocks!ListsAgree
-----------------------------------------------------------------------------
(* The string cache.                                                       *)

ScInv ==
  /\ strings = [head |-> strings.head, tail |-> strings.tail,
                nodes |-> strings.nodes, count |-> strings.count]
  /\ IsFiniteSet(sLive)
  /\ strings.count = Cardinality(sLive) /\ Cardinality(sLive) <= CACHE_SIZE
  \* There is a node to be removed when there is one at all.
  /\ sLive # {} => strings.tail # 0

LEMMA ScConstants ==
  /\ CACHE_SIZE \in Nat \ {0}
  /\ \A S : Strings!Cardinality(S) = Cardinality(S)
  /\ Strings!NULL = 0 /\ Strings!Wild = -1
<1>1. \A S : Strings!Cardinality(S) = Cardinality(S)
  BY DEF Strings!Cardinality, Strings!IsFiniteSet, Cardinality, IsFiniteSet
<1> QED
  BY <1>1, MemoryAssumption DEF Strings!ConstantsOK, Strings!NULL, Strings!Wild

LEMMA ScStarts == Strings!Init => ScInv
<1> SUFFICES ASSUME Strings!Init PROVE ScInv
  OBVIOUS
<1>1. sLive = {} /\ IsFiniteSet(sLive) /\ Cardinality(sLive) = 0
  BY FS_EmptySet DEF Strings!Init
<1>2. 0 <= CACHE_SIZE
  BY ScConstants
<1> QED
  BY <1>1, <1>2 DEF Strings!Init, ScInv

LEMMA ScImplies == ScInv => Strings!Counted
BY ScConstants DEF ScInv, Strings!Counted

\* A hit keeps the count and leaves a tail.
LEMMA ScHit ==
  ASSUME ScInv, NEW k, NEW update, Strings!Hit(k, update)
  PROVE  ScInv'
<1> DEFINE n == Strings!Find(sNext, k)
           m == Strings!move_to_front(n)
<1>1. CASE UNCHANGED <<strings, sLive>>
  BY <1>1 DEF ScInv
<1>2. CASE n # Strings!NULL /\ strings' = m.cache /\ sLive' = sLive
  <2> HIDE DEF n
  <2>1. n # 0
    BY <1>2, ScConstants
  <2>2. CASE strings.head = n
    <3>1. m.cache = strings
      BY <2>2 DEF Strings!move_to_front
    <3> QED
      BY <1>1, <1>2, <3>1
  <2>3. CASE strings.head # n
    <3>1. PICK last : m.cache = [strings EXCEPT !.head = n, !.tail = IF last = Strings!NULL THEN n ELSE last]
      BY <2>3 DEF Strings!move_to_front
    <3>2. PICK c : c = strings
      OBVIOUS
    <3>3. strings' = [c EXCEPT !.head = n, !.tail = IF last = 0 THEN n ELSE last]
      BY <1>2, <3>1, <3>2, ScConstants
    <3>4. c = [head |-> c.head, tail |-> c.tail, nodes |-> c.nodes, count |-> c.count]
      BY <3>2 DEF ScInv
    <3>5. /\ strings'.head = n /\ strings'.tail # 0
          /\ strings'.nodes = c.nodes /\ strings'.count = c.count
          /\ strings' = [head |-> strings'.head, tail |-> strings'.tail,
                         nodes |-> strings'.nodes, count |-> strings'.count]
      BY <2>1, <3>3, <3>4
    <3> QED
      BY <1>2, <3>2, <3>5 DEF ScInv
  <2> QED
    BY <2>2, <2>3
<1> QED
  BY <1>1, <1>2 DEF Strings!Hit, Strings!Undefined

\* What malloc returns is not allocated.
LEMMA ScFresh ==
  ASSUME NEW n \in Strings!Fresh
  PROVE  n \notin sLive /\ n # 0
<1> DEFINE met == {strings.nodes[b] : b \in DOMAIN strings.nodes} \cup {strings.tail} \cup
                  {sNext[x] : x \in sLive} \cup {sPrev[x] : x \in sLive}
           clean == Strings!Nodes \ (sLive \cup met)
<1>1. \/ n \in met \ (sLive \cup {0})
      \/ clean # {} /\ n = Strings!Min(clean)
  BY ScConstants DEF Strings!Fresh
<1>2. CASE clean # {} /\ n = Strings!Min(clean)
  <2>1. clean \subseteq Nat /\ 0 \notin clean
    BY ScConstants DEF Strings!Nodes
  <2> HIDE DEF clean
  <2>2. \E x \in clean : \A y \in clean : x <= y
    BY <1>2, <2>1, LeastNumber
  <2>3. Strings!Min(clean) \in clean
    BY <2>2 DEF Strings!Min
  <2> USE DEF clean
  <2> QED
    BY <1>2, <2>1, <2>3
<1> QED
  BY <1>1, <1>2

LEMMA ScInsert ==
  ASSUME ScInv, NEW k, Strings!Insert(k)
  PROVE  ScInv'
<1> DEFINE r == Strings!remove_lru
<1>1. CASE UNCHANGED <<strings, sLive>>
  BY <1>1 DEF ScInv
<1>2. CASE r.sound /\ \E n \in Strings!Fresh :
             /\ sLive' = (sLive \ r.gone) \cup {n}
             /\ strings' = [Strings!add_to_front(r.cache, n) EXCEPT
                              !.nodes[StringHash[k]] = n, !.count = @ + 1]
  <2>1. PICK n \in Strings!Fresh :
          /\ sLive' = (sLive \ r.gone) \cup {n}
          /\ strings' = [Strings!add_to_front(r.cache, n) EXCEPT
                           !.nodes[StringHash[k]] = n, !.count = @ + 1]
    BY <1>2
  <2>2. n \notin sLive /\ n # 0
    BY ScFresh
  <2>3. PICK c : c = r.cache
    OBVIOUS
  <2>4. PICK A : A = sLive \ r.gone
    OBVIOUS
  <2>5. /\ c = [head |-> c.head, tail |-> c.tail, nodes |-> c.nodes, count |-> c.count]
        /\ IsFiniteSet(A) /\ Cardinality(A) = c.count /\ Cardinality(A) \in Nat
        /\ Cardinality(A) + 1 <= CACHE_SIZE /\ A \subseteq sLive
    <3>1. PICK d : d = strings
      OBVIOUS
    <3>2. /\ d = [head |-> d.head, tail |-> d.tail, nodes |-> d.nodes, count |-> d.count]
          /\ d.count = Cardinality(sLive) /\ Cardinality(sLive) <= CACHE_SIZE
          /\ IsFiniteSet(sLive) /\ (sLive # {} => d.tail # 0)
      BY <3>1 DEF ScInv
    <3>3. Cardinality(sLive) \in Nat /\ CACHE_SIZE \in Nat \ {0}
      BY <3>2, FS_CardinalityType, ScConstants
    <3>4. CASE d.count < CACHE_SIZE \/ d.tail = 0
      <4>1. c = d /\ A = sLive
        BY <2>3, <2>4, <3>1, <3>4, ScConstants DEF Strings!remove_lru
      <4>2. d.tail = 0 => Cardinality(sLive) = 0
        BY <3>2, FS_EmptySet
      <4> QED
        BY <3>2, <3>3, <3>4, <4>1, <4>2
    <3>5. CASE ~(d.count < CACHE_SIZE) /\ d.tail # 0
      <4>1. PICK before, nd : c = [d EXCEPT !.head = IF before = 0 THEN 0 ELSE @, !.tail = before,
                                            !.nodes = nd, !.count = @ - 1]
        <5> DEFINE lru == strings.tail
                   next1 == Strings!Store(sNext, sPrev[lru], Strings!NULL)
        <5>1. c = [d EXCEPT !.head = IF sPrev[lru] = 0 THEN 0 ELSE @, !.tail = sPrev[lru],
                            !.nodes[StringHash[sKey[lru]]] = IF @ = lru THEN next1[lru] ELSE @,
                            !.count = @ - 1]
          BY <2>3, <3>1, <3>5, ScConstants DEF Strings!remove_lru
        <5> HIDE DEF next1
        <5>2. PICK nd : nd = [d.nodes EXCEPT ![StringHash[sKey[lru]]] = IF @ = lru THEN next1[lru] ELSE @]
          OBVIOUS
        <5>3. c = [d EXCEPT !.head = IF sPrev[lru] = 0 THEN 0 ELSE @, !.tail = sPrev[lru],
                            !.nodes = nd, !.count = @ - 1]
          BY <3>2, <5>1, <5>2
        <5> QED
          BY <5>3
      <4>2. A = sLive \ {d.tail} /\ d.tail \in sLive
        <5>1. r.gone = {d.tail} /\ r.sound = Strings!Valid({strings.tail, sPrev[strings.tail]})
          BY <3>1, <3>5, ScConstants DEF Strings!remove_lru
        <5> QED
          BY <1>2, <2>4, <3>1, <3>5, <5>1, ScConstants DEF Strings!Valid
      <4>3. IsFiniteSet(A) /\ Cardinality(A) = Cardinality(sLive) - 1
        BY <3>2, <4>2, FS_RemoveElement
      <4>4. Cardinality(A) \in Nat
        BY <4>3, FS_CardinalityType
      <4>5. /\ c = [head |-> c.head, tail |-> c.tail, nodes |-> c.nodes, count |-> c.count]
            /\ c.count = d.count - 1
        BY <3>2, <4>1
      <4> QED
        BY <3>2, <3>3, <4>2, <4>3, <4>4, <4>5
    <3> QED
      BY <3>4, <3>5
  <2>6. /\ IsFiniteSet(A \cup {n})
        /\ Cardinality(A \cup {n}) = IF n \in A THEN Cardinality(A) ELSE Cardinality(A) + 1
    BY ONLY <2>5, FS_AddElement
  <2>7. Cardinality(sLive') = c.count + 1 /\ IsFiniteSet(sLive')
    BY <2>1, <2>2, <2>4, <2>5, <2>6
  <2>8. PICK e : e = Strings!add_to_front(c, n)
    OBVIOUS
  <2>9. e = [c EXCEPT !.head = n, !.tail = IF @ = 0 THEN n ELSE @]
    BY <2>8, ScConstants DEF Strings!add_to_front
  <2>10. /\ e = [head |-> e.head, tail |-> e.tail, nodes |-> e.nodes, count |-> e.count]
         /\ e.count = c.count /\ e.tail # 0
    BY <2>2, <2>5, <2>9
  <2>11. strings' = [e EXCEPT !.nodes[StringHash[k]] = n, !.count = @ + 1]
    BY <2>1, <2>3, <2>8
  <2>12. /\ strings' = [head |-> strings'.head, tail |-> strings'.tail,
                        nodes |-> strings'.nodes, count |-> strings'.count]
         /\ strings'.count = c.count + 1 /\ strings'.tail # 0
    BY <2>10, <2>11
  <2> QED
    BY <2>5, <2>7, <2>12 DEF ScInv
<1> QED
  BY <1>1, <1>2 DEF Strings!Insert, Strings!Undefined

LEMMA ScStep == ScInv /\ (Strings!Next \/ UNCHANGED stringed) => ScInv'
<1> SUFFICES ASSUME ScInv, Strings!Next \/ UNCHANGED stringed PROVE ScInv'
  OBVIOUS
<1>1. CASE UNCHANGED stringed
  BY <1>1 DEF ScInv, stringed
<1>2. CASE Strings!Next
  <2>1. PICK k \in StringKeys : Strings!cache_get(k) \/ Strings!cache_put(k)
    BY <1>2 DEF Strings!Next
  <2>2. \/ Strings!Hit(k, FALSE) \/ Strings!Hit(k, TRUE) \/ Strings!Insert(k)
    BY <2>1 DEF Strings!cache_get, Strings!cache_put
  <2> QED
    BY <2>2, ScHit, ScInsert
<1> QED
  BY <1>1, <1>2
-----------------------------------------------------------------------------
(* The file cache.                                                         *)

FcBuffers == 1 .. POOL_SIZE
FcBuckets == {FileBucket[f] : f \in FileNames}
FcEntry == [filename : {StoredNames[f] : f \in FileNames}, buffer : FcBuffers,
            last_accessed : 0 .. MaxTime]

LEMMA FcConstants ==
  /\ POOL_SIZE \in Nat \ {0} /\ MaxTime \in Nat /\ FcBuckets \subseteq Nat
  /\ IsFiniteSet(FcBuffers) /\ 0 \notin FcBuffers
  /\ "zeroed" \notin FileNames
  /\ \A f \in FileNames : FileBucket[f] \in FcBuckets
<1>1. POOL_SIZE \in Nat \ {0}
  BY MemoryAssumption DEF Files!ConstantsOK
<1>2. IsFiniteSet(FcBuffers)
  BY <1>1, FS_Interval DEF FcBuffers
<1>3. 0 \notin FcBuffers
  BY <1>1 DEF FcBuffers
<1> QED
  BY <1>1, <1>2, <1>3, MemoryAssumption DEF Files!ConstantsOK, Files!Buckets, FcBuckets, Files!Zeroed

LEMMA FcNames ==
  /\ Files!Buffers = FcBuffers /\ Files!Buckets = FcBuckets
  /\ Files!Zeroed = "zeroed" /\ Files!NULL = 0
BY DEF Files!Buffers, FcBuffers, Files!Buckets, FcBuckets, Files!Zeroed, Files!NULL

\* The free list is a list of the free buffers.
FcFreeList(q, s) ==
  /\ s \in Seq(FcBuffers) /\ ChDistinct(s) /\ ChLinked(q.next, q.free_list, s)
  /\ ChRange(s) = {b \in FcBuffers : q.is_free[b]}
  /\ q.free_count = Len(s)

FcPool(q) ==
  /\ q = [free_list |-> q.free_list, free_count |-> q.free_count,
          next |-> q.next, is_free |-> q.is_free]
  /\ q.next \in [FcBuffers -> FcBuffers \cup {0}]
  /\ q.is_free \in [FcBuffers -> BOOLEAN]
  /\ \E s : FcFreeList(q, s)

\* The entry is of a file of its bucket, whose text is in a buffer that is not free.
FcOwn(g, e, P, D) ==
  /\ ~P[e.buffer]
  /\ \E f \in FileNames : /\ D[e.buffer] = f /\ StoredNames[f] = e.filename
                          /\ FileBucket[f] = g

FcApart(F) ==
  \A g1, g2 \in FcBuckets : \A i \in 1 .. Len(F[g1]), j \in 1 .. Len(F[g2]) :
    F[g1][i].buffer = F[g2][j].buffer => g1 = g2 /\ i = j

FcUsed(F, P) ==
  \A b \in FcBuffers : ~P[b] => \E g \in FcBuckets : \E i \in 1 .. Len(F[g]) : F[g][i].buffer = b

\* An entry that has the text of file f, and its name; there is one such at most.
FcIs(e, D, f) == e.filename = f /\ D[e.buffer] = f
FcOnce(F, D) ==
  \A f \in FileNames, g \in FcBuckets : g = FileBucket[f] =>
    \A i, j \in 1 .. Len(F[g]) : FcIs(F[g][i], D, f) /\ FcIs(F[g][j], D, f) => i = j

FcFiles(F, P, D) ==
  /\ F \in [FcBuckets -> Seq(FcEntry)]
  /\ P \in [FcBuffers -> BOOLEAN]
  /\ D \in [FcBuffers -> FileNames \cup {"zeroed"}]
  /\ \A g \in FcBuckets : \A i \in 1 .. Len(F[g]) : FcOwn(g, F[g][i], P, D)
  /\ FcApart(F) /\ FcUsed(F, P) /\ FcOnce(F, D)

FcInv == FcPool(pool) /\ FcFiles(files, pool.is_free, data) /\ now \in 0 .. MaxTime

\* No bucket has more entries than there are buffers.
LEMMA FcBounded ==
  ASSUME NEW F, NEW P, NEW D, FcFiles(F, P, D), NEW g \in FcBuckets
  PROVE  Len(F[g]) \in Nat /\ Len(F[g]) <= POOL_SIZE /\ DOMAIN F[g] = 1 .. Len(F[g])
<1>1. F[g] \in Seq(FcEntry)
  BY DEF FcFiles
<1>2. PICK t : t = F[g]
  OBVIOUS
<1>3. Len(t) \in Nat /\ DOMAIN t = 1 .. Len(t) /\ \A i \in 1 .. Len(t) : t[i] \in FcEntry
  BY <1>1, <1>2, LenProperties, ElementOfSeq
<1>4. PICK u : u = [i \in 1 .. Len(t) |-> t[i].buffer]
  OBVIOUS
<1>5. u \in [1 .. Len(t) -> FcBuffers]
  BY <1>3, <1>4 DEF FcEntry
<1>6. u \in Seq(FcBuffers) /\ Len(u) = Len(t)
  BY <1>3, <1>5, ChSeq
<1>7. ChDistinct(u)
  <2>1. ASSUME NEW i \in 1 .. Len(u), NEW j \in 1 .. Len(u), u[i] = u[j] PROVE i = j
    <3>1. F[g][i].buffer = F[g][j].buffer /\ i \in 1 .. Len(F[g]) /\ j \in 1 .. Len(F[g])
      BY <1>2, <1>4, <1>6, <2>1
    <3> QED
      BY <3>1 DEF FcFiles, FcApart
  <2> QED
    BY <2>1 DEF ChDistinct
<1>8. Len(u) <= Cardinality(FcBuffers)
  BY ONLY <1>6, <1>7, ChShort, FcConstants
<1>9. Cardinality(FcBuffers) = POOL_SIZE
  <2>1. Cardinality(1 .. POOL_SIZE) = IF 1 > POOL_SIZE THEN 0 ELSE POOL_SIZE - 1 + 1
    <3>1. 1 \in Int /\ POOL_SIZE \in Int
      BY FcConstants
    <3> QED
      BY ONLY <3>1, FS_Interval
  <2> QED
    BY <2>1, FcConstants DEF FcBuffers
<1> QED
  BY <1>2, <1>3, <1>6, <1>8, <1>9

\* Only times are changed.
LEMMA FcTouched ==
  ASSUME NEW F, NEW P, NEW D, FcFiles(F, P, D), NEW E \in [FcBuckets -> Seq(FcEntry)],
         \A g \in FcBuckets : /\ Len(E[g]) = Len(F[g])
                              /\ \A i \in 1 .. Len(F[g]) : /\ E[g][i].buffer = F[g][i].buffer
                                                           /\ E[g][i].filename = F[g][i].filename
  PROVE  FcFiles(E, P, D)
<1>1. \A g \in FcBuckets : \A i \in 1 .. Len(E[g]) : FcOwn(g, E[g][i], P, D)
  BY DEF FcFiles, FcOwn
<1>2. FcApart(E)
  BY DEF FcFiles, FcApart
<1>3. FcUsed(E, P)
  BY DEF FcFiles, FcUsed
<1>4. FcOnce(E, D)
  <2>1. FcOnce(F, D)
    BY DEF FcFiles
  <2>2. ASSUME NEW x \in FileNames, NEW g \in FcBuckets, g = FileBucket[x],
               NEW i \in 1 .. Len(E[g]), NEW j \in 1 .. Len(E[g]),
               FcIs(E[g][i], D, x), FcIs(E[g][j], D, x)
        PROVE  i = j
    <3>1. /\ i \in 1 .. Len(F[g]) /\ FcIs(F[g][i], D, x)
          /\ j \in 1 .. Len(F[g]) /\ FcIs(F[g][j], D, x)
      BY <2>2 DEF FcIs
    <3> QED
      BY <2>1, <2>2, <3>1 DEF FcOnce
  <2> QED
    BY <2>2 DEF FcOnce
<1> QED
  BY <1>1, <1>2, <1>3, <1>4 DEF FcFiles

\* A file is read into a free buffer.
LEMMA FcAdded ==
  ASSUME NEW F, NEW P, NEW D, FcFiles(F, P, D), NEW f \in FileNames, NEW b \in FcBuffers, P[b],
         NEW e \in FcEntry, e.buffer = b, e.filename = StoredNames[f],
         \A i \in 1 .. Len(F[FileBucket[f]]) : F[FileBucket[f]][i].filename # f
  PROVE  FcFiles([F EXCEPT ![FileBucket[f]] = <<e>> \o @], [P EXCEPT ![b] = FALSE],
                 [D EXCEPT ![b] = f])
<1> PICK h : h = FileBucket[f]
  OBVIOUS
<1> PICK t : t = <<e>> \o F[h]
  OBVIOUS
<1> PICK E : E = [F EXCEPT ![FileBucket[f]] = <<e>> \o @]
  OBVIOUS
<1> PICK Q : Q = [P EXCEPT ![b] = FALSE]
  OBVIOUS
<1> PICK C : C = [D EXCEPT ![b] = f]
  OBVIOUS
<1>1. h \in FcBuckets /\ F \in [FcBuckets -> Seq(FcEntry)] /\ F[h] \in Seq(FcEntry)
  BY FcConstants DEF FcFiles
<1>2. \A g \in FcBuckets : /\ F[g] \in Seq(FcEntry) /\ Len(F[g]) \in Nat
                           /\ \A i \in 1 .. Len(F[g]) : F[g][i] \in FcEntry
  BY <1>1, LenProperties, ElementOfSeq
<1>3. /\ t \in Seq(FcEntry) /\ Len(t) = Len(F[h]) + 1 /\ t[1] = e
      /\ \A i \in 1 .. Len(F[h]) : t[i + 1] = F[h][i]
  <2>1. <<e>> \in Seq(FcEntry) /\ Len(<<e>>) = 1 /\ <<e>>[1] = e
    OBVIOUS
  <2>2. /\ t \in Seq(FcEntry) /\ Len(t) = 1 + Len(F[h])
        /\ \A i \in 1 .. 1 + Len(F[h]) : t[i] = IF i <= 1 THEN <<e>>[i] ELSE F[h][i - 1]
    BY <1>1, <2>1, ConcatProperties
  <2>3. Len(F[h]) \in Nat
    BY <1>1, <1>2
  <2>4. ASSUME NEW i \in 1 .. Len(F[h]) PROVE t[i + 1] = F[h][i]
    <3>1. i + 1 \in 1 .. 1 + Len(F[h]) /\ ~(i + 1 <= 1) /\ (i + 1) - 1 = i
      BY <2>3
    <3> QED
      BY <2>2, <3>1
  <2>5. t[1] = e
    <3>1. 1 \in 1 .. 1 + Len(F[h])
      BY <2>3
    <3> QED
      BY <2>1, <2>2, <3>1
  <2> QED
    BY <2>2, <2>3, <2>4, <2>5
<1>4. /\ E \in [FcBuckets -> Seq(FcEntry)] /\ E[h] = t
      /\ \A g \in FcBuckets : g # h => E[g] = F[g]
  BY <1>1, <1>3
<1>5. /\ Q \in [FcBuffers -> BOOLEAN] /\ ~Q[b] /\ \A x \in FcBuffers : x # b => Q[x] = P[x]
      /\ C \in [FcBuffers -> FileNames \cup {"zeroed"}] /\ C[b] = f
      /\ \A x \in FcBuffers : x # b => C[x] = D[x]
  BY DEF FcFiles
\* Each entry is the new one or an old one.
<1> DEFINE Old(g, i) == IF g = h THEN i - 1 ELSE i
<1>6. ASSUME NEW g \in FcBuckets, NEW i \in 1 .. Len(E[g])
      PROVE  \/ g = h /\ i = 1 /\ E[g][i] = e
             \/ Old(g, i) \in 1 .. Len(F[g]) /\ E[g][i] = F[g][Old(g, i)] /\ ~(g = h /\ i = 1)
  <2>1. CASE g = h
    <3>1. i \in 1 .. Len(F[h]) + 1 /\ Len(F[h]) \in Nat
      BY <1>1, <1>2, <1>3, <1>4, <2>1
    <3>2. CASE i = 1
      BY <1>3, <1>4, <2>1, <3>2
    <3>3. CASE i # 1
      <4>1. i - 1 \in 1 .. Len(F[h]) /\ (i - 1) + 1 = i
        BY <3>1, <3>3
      <4>2. t[i] = F[h][i - 1]
        BY <1>3, <4>1
      <4> QED
        BY <1>4, <2>1, <3>3, <4>1, <4>2
    <3> QED
      BY <3>2, <3>3
  <2>2. CASE g # h
    BY <1>4, <2>2
  <2> QED
    BY <2>1, <2>2
<1>7. ASSUME NEW g \in FcBuckets, NEW i \in 1 .. Len(F[g])
      PROVE  F[g][i].buffer \in FcBuffers /\ F[g][i].buffer # b
  <2>1. F[g][i].buffer \in FcBuffers
    BY <1>2 DEF FcEntry
  <2>2. ~P[F[g][i].buffer]
    BY DEF FcFiles, FcOwn
  <2> QED
    BY <2>1, <2>2
<1>8. ASSUME NEW g \in FcBuckets, NEW i \in 1 .. Len(E[g]) PROVE FcOwn(g, E[g][i], Q, C)
  <2> HIDE DEF Old
  <2>1. CASE g = h /\ i = 1 /\ E[g][i] = e
    BY <1>5, <2>1 DEF FcOwn
  <2>2. CASE Old(g, i) \in 1 .. Len(F[g]) /\ E[g][i] = F[g][Old(g, i)]
    <3>1. FcOwn(g, F[g][Old(g, i)], P, D)
      BY <2>2 DEF FcFiles
    <3>2. F[g][Old(g, i)].buffer \in FcBuffers /\ F[g][Old(g, i)].buffer # b
      BY <1>7, <2>2
    <3> QED
      BY <1>5, <2>2, <3>1, <3>2 DEF FcOwn
  <2> QED
    BY <1>6, <2>1, <2>2
<1>9. FcApart(E)
  <2>1. ASSUME NEW g1 \in FcBuckets, NEW g2 \in FcBuckets,
               NEW i \in 1 .. Len(E[g1]), NEW j \in 1 .. Len(E[g2]),
               E[g1][i].buffer = E[g2][j].buffer
        PROVE  g1 = g2 /\ i = j
    <3>1. i \in Int /\ j \in Int
      OBVIOUS
    <3>2. CASE g1 = h /\ i = 1 /\ E[g1][i] = e
      <4>1. ~(Old(g2, j) \in 1 .. Len(F[g2]) /\ E[g2][j] = F[g2][Old(g2, j)])
        <5> HIDE DEF Old
        <5> QED
          BY <1>7, <2>1, <3>2
      <4> QED
        BY <1>6, <3>2, <4>1
    <3>3. CASE g2 = h /\ j = 1 /\ E[g2][j] = e
      <4>1. ~(Old(g1, i) \in 1 .. Len(F[g1]) /\ E[g1][i] = F[g1][Old(g1, i)])
        <5> HIDE DEF Old
        <5> QED
          BY <1>7, <2>1, <3>3
      <4> QED
        BY <1>6, <3>3, <4>1
    <3>4. CASE /\ Old(g1, i) \in 1 .. Len(F[g1]) /\ E[g1][i] = F[g1][Old(g1, i)]
               /\ Old(g2, j) \in 1 .. Len(F[g2]) /\ E[g2][j] = F[g2][Old(g2, j)]
      <4>1. g1 = g2 /\ Old(g1, i) = Old(g2, j)
        <5>1. PICK a, c : a = Old(g1, i) /\ c = Old(g2, j)
          OBVIOUS
        <5> HIDE DEF Old
        <5>2. /\ a \in 1 .. Len(F[g1]) /\ c \in 1 .. Len(F[g2])
              /\ F[g1][a].buffer = F[g2][c].buffer
          BY <2>1, <3>4, <5>1
        <5> QED
          BY <5>1, <5>2 DEF FcFiles, FcApart
      <4> QED
        BY <3>1, <4>1
    <3> QED
      BY <1>6, <3>2, <3>3, <3>4
  <2> QED
    BY <2>1 DEF FcApart
<1>10. FcUsed(E, Q)
  <2>1. ASSUME NEW x \in FcBuffers, ~Q[x]
        PROVE  \E g \in FcBuckets : \E i \in 1 .. Len(E[g]) : E[g][i].buffer = x
    <3>1. CASE x = b
      <4>1. 1 \in 1 .. Len(E[h]) /\ E[h][1] = e
        BY <1>1, <1>2, <1>3, <1>4
      <4> QED
        BY <1>1, <3>1, <4>1
    <3>2. CASE x # b
      <4>1. PICK g \in FcBuckets : \E i \in 1 .. Len(F[g]) : F[g][i].buffer = x
        BY <1>5, <2>1, <3>2 DEF FcFiles, FcUsed
      <4>2. PICK i \in 1 .. Len(F[g]) : F[g][i].buffer = x
        BY <4>1
      <4>3. CASE g = h
        <5>1. i + 1 \in 1 .. Len(E[h]) /\ E[h][i + 1] = F[h][i]
          BY <1>1, <1>2, <1>3, <1>4, <4>3
        <5> QED
          BY <1>1, <4>2, <4>3, <5>1
      <4>4. CASE g # h
        BY <1>4, <4>2, <4>4
      <4> QED
        BY <4>3, <4>4
    <3> QED
      BY <3>1, <3>2
  <2> QED
    BY <2>1 DEF FcUsed
<1>11. FcOnce(E, C)
  <2>1. ASSUME NEW x \in FileNames, NEW g \in FcBuckets, g = FileBucket[x],
               NEW i \in 1 .. Len(E[g]), NEW j \in 1 .. Len(E[g]),
               FcIs(E[g][i], C, x), FcIs(E[g][j], C, x)
        PROVE  i = j
    <3>1. i \in Int /\ j \in Int
      OBVIOUS
    <3>2. ASSUME NEW k \in 1 .. Len(F[g]), FcIs(F[g][k], C, x), g = h
          PROVE  x # f
      BY <3>2 DEF FcIs
    <3>3. CASE g = h /\ i = 1 /\ E[g][i] = e
      <4>1. x = f
        BY <1>5, <2>1, <3>3 DEF FcIs
      <4>2. ~(Old(g, j) \in 1 .. Len(F[g]) /\ E[g][j] = F[g][Old(g, j)])
        <5> HIDE DEF Old
        <5> QED
          BY <2>1, <3>2, <3>3, <4>1
      <4> QED
        BY <1>6, <3>3, <4>2
    <3>4. CASE g = h /\ j = 1 /\ E[g][j] = e
      <4>1. x = f
        BY <1>5, <2>1, <3>4 DEF FcIs
      <4>2. ~(Old(g, i) \in 1 .. Len(F[g]) /\ E[g][i] = F[g][Old(g, i)])
        <5> HIDE DEF Old
        <5> QED
          BY <2>1, <3>2, <3>4, <4>1
      <4> QED
        BY <1>6, <3>4, <4>2
    <3>5. CASE /\ Old(g, i) \in 1 .. Len(F[g]) /\ E[g][i] = F[g][Old(g, i)]
               /\ Old(g, j) \in 1 .. Len(F[g]) /\ E[g][j] = F[g][Old(g, j)]
      <4>1. Old(g, i) = Old(g, j)
        <5>1. PICK a, c : a = Old(g, i) /\ c = Old(g, j)
          OBVIOUS
        <5> HIDE DEF Old
        <5>2. /\ a \in 1 .. Len(F[g]) /\ c \in 1 .. Len(F[g])
              /\ FcIs(F[g][a], C, x) /\ FcIs(F[g][c], C, x)
          BY <2>1, <3>5, <5>1
        <5>3. FcIs(F[g][a], D, x) /\ FcIs(F[g][c], D, x)
          BY <1>5, <1>7, <5>2 DEF FcIs
        <5> QED
          BY <2>1, <5>1, <5>2, <5>3 DEF FcFiles, FcOnce
      <4> QED
        BY <3>1, <4>1
    <3>6. /\ \/ g = h /\ i = 1 /\ E[g][i] = e
             \/ Old(g, i) \in 1 .. Len(F[g]) /\ E[g][i] = F[g][Old(g, i)]
          /\ \/ g = h /\ j = 1 /\ E[g][j] = e
             \/ Old(g, j) \in 1 .. Len(F[g]) /\ E[g][j] = F[g][Old(g, j)]
      <4> HIDE DEF Old
      <4> QED
        BY <1>6
    <3> QED
      BY <3>3, <3>4, <3>5, <3>6
  <2> QED
    BY <2>1 DEF FcOnce
<1>12. FcFiles(E, Q, C)
  BY <1>4, <1>5, <1>8, <1>9, <1>10, <1>11 DEF FcFiles
<1> QED
  BY <1>12

\* RemoveAt takes out one record.
LEMMA ChRemoveAt ==
  ASSUME NEW D, NEW s \in Seq(D), NEW k \in 1 .. Len(s)
  PROVE  Files!RemoveAt(s, k) = ChDrop(s, k) /\ Lru!RemoveAt(s, k) = ChDrop(s, k)
<1>1. Len(s) \in Nat /\ \A j \in 1 .. Len(s) : s[j] \in D
  BY LenProperties, ElementOfSeq
<1>2. PICK n \in Nat : n = Len(s)
  BY <1>1
<1>3. PICK u : u = SubSeq(s, 1, k - 1)
  OBVIOUS
<1>4. PICK v : v = SubSeq(s, k + 1, n)
  OBVIOUS
<1>5. u \in Seq(D) /\ Len(u) = k - 1 /\ \A j \in 1 .. k - 1 : u[j] = s[j]
  <2>1. 1 \in Int /\ k - 1 \in Int /\ \A j \in 1 .. k - 1 : s[j] \in D
    BY <1>1
  <2>2. /\ SubSeq(s, 1, k - 1) \in Seq(D)
        /\ Len(SubSeq(s, 1, k - 1)) = IF 1 <= k - 1 THEN k - 1 - 1 + 1 ELSE 0
        /\ \A j \in 1 .. k - 1 - 1 + 1 : SubSeq(s, 1, k - 1)[j] = s[1 + j - 1]
    BY ONLY <2>1, SubSeqProperties
  <2>3. ASSUME NEW j \in 1 .. k - 1 PROVE u[j] = s[j]
    <3>1. j \in 1 .. k - 1 - 1 + 1 /\ 1 + j - 1 = j
      OBVIOUS
    <3> QED
      BY <1>3, <2>2, <3>1
  <2> QED
    BY <1>3, <2>2, <2>3
<1>6. v \in Seq(D) /\ Len(v) = n - k /\ \A j \in 1 .. n - k : v[j] = s[k + j]
  <2>1. k + 1 \in Int /\ n \in Int /\ \A j \in k + 1 .. n : s[j] \in D
    BY <1>1, <1>2
  <2>2. /\ SubSeq(s, k + 1, n) \in Seq(D)
        /\ Len(SubSeq(s, k + 1, n)) = IF k + 1 <= n THEN n - (k + 1) + 1 ELSE 0
        /\ \A j \in 1 .. n - (k + 1) + 1 : SubSeq(s, k + 1, n)[j] = s[(k + 1) + j - 1]
    BY ONLY <2>1, SubSeqProperties
  <2>3. ASSUME NEW j \in 1 .. n - k PROVE v[j] = s[k + j]
    <3>1. j \in 1 .. n - (k + 1) + 1 /\ (k + 1) + j - 1 = k + j
      OBVIOUS
    <3> QED
      BY <1>4, <2>2, <3>1
  <2> QED
    BY <1>2, <1>4, <2>2, <2>3
<1>7. PICK w : w = u \o v
  OBVIOUS
<1>8. /\ w \in Seq(D) /\ Len(w) = (k - 1) + (n - k)
      /\ \A j \in 1 .. (k - 1) + (n - k) : w[j] = IF j <= k - 1 THEN u[j] ELSE v[j - (k - 1)]
  <2>1. /\ u \o v \in Seq(D) /\ Len(u \o v) = Len(u) + Len(v)
        /\ \A j \in 1 .. Len(u) + Len(v) :
             (u \o v)[j] = IF j <= Len(u) THEN u[j] ELSE v[j - Len(u)]
    BY ONLY <1>5, <1>6, ConcatProperties
  <2> QED
    BY <1>5, <1>6, <1>7, <2>1
<1>9. /\ ChDrop(s, k) \in Seq(D) /\ Len(ChDrop(s, k)) = n - 1
      /\ \A j \in 1 .. n - 1 : ChDrop(s, k)[j] = IF j < k THEN s[j] ELSE s[j + 1]
  BY <1>2, ChDropped
<1>10. ASSUME NEW j \in 1 .. Len(w) PROVE w[j] = ChDrop(s, k)[j]
  <2>1. j \in 1 .. n - 1 /\ j \in 1 .. (k - 1) + (n - k)
    BY <1>2, <1>8
  <2>2. CASE j < k
    <3>1. j <= k - 1 /\ j \in 1 .. k - 1
      BY <2>1, <2>2
    <3> QED
      BY <1>5, <1>8, <1>9, <2>1, <2>2, <3>1
  <2>3. CASE ~(j < k)
    <3>1. ~(j <= k - 1) /\ j - (k - 1) \in 1 .. n - k /\ k + (j - (k - 1)) = j + 1
      BY <1>2, <2>1, <2>3
    <3> QED
      BY <1>6, <1>8, <1>9, <2>1, <2>3, <3>1
  <2> QED
    BY <2>2, <2>3
<1>11. Len(w) = Len(ChDrop(s, k))
  BY <1>2, <1>8, <1>9
<1>12. w = ChDrop(s, k)
  BY <1>8, <1>9, <1>10, <1>11, SeqEqual
<1> QED
  BY <1>2, <1>3, <1>4, <1>7, <1>12 DEF Files!RemoveAt, Lru!RemoveAt

\* An entry is removed and its buffer given back.
LEMMA FcRemoved ==
  ASSUME NEW F, NEW P, NEW D, FcFiles(F, P, D), NEW h \in FcBuckets, NEW k \in 1 .. Len(F[h]),
         NEW b, b = F[h][k].buffer
  PROVE  /\ b \in FcBuffers /\ ~P[b]
         /\ FcFiles([F EXCEPT ![h] = ChDrop(@, k)], [P EXCEPT ![b] = TRUE],
                    [D EXCEPT ![b] = "zeroed"])
<1> PICK t : t = ChDrop(F[h], k)
  OBVIOUS
<1> PICK E : E = [F EXCEPT ![h] = ChDrop(@, k)]
  OBVIOUS
<1> PICK Q : Q = [P EXCEPT ![b] = TRUE]
  OBVIOUS
<1> PICK C : C = [D EXCEPT ![b] = "zeroed"]
  OBVIOUS
<1>1. F \in [FcBuckets -> Seq(FcEntry)] /\ F[h] \in Seq(FcEntry)
  BY DEF FcFiles
<1>2. \A g \in FcBuckets : /\ F[g] \in Seq(FcEntry) /\ Len(F[g]) \in Nat
                           /\ \A i \in 1 .. Len(F[g]) : F[g][i] \in FcEntry
  BY <1>1, LenProperties, ElementOfSeq
<1>3. b \in FcBuffers /\ ~P[b]
  <2>1. F[h][k].buffer \in FcBuffers
    BY <1>2 DEF FcEntry
  <2>2. ~P[F[h][k].buffer]
    BY DEF FcFiles, FcOwn
  <2> QED
    BY <2>1, <2>2
<1>4. /\ t \in Seq(FcEntry) /\ Len(t) = Len(F[h]) - 1
      /\ \A j \in 1 .. Len(F[h]) - 1 : t[j] = IF j < k THEN F[h][j] ELSE F[h][j + 1]
  BY <1>1, ChDropped
<1>5. /\ E \in [FcBuckets -> Seq(FcEntry)] /\ E[h] = t
      /\ \A g \in FcBuckets : g # h => E[g] = F[g]
  BY <1>1, <1>4
<1>6. /\ Q \in [FcBuffers -> BOOLEAN] /\ Q[b] /\ \A x \in FcBuffers : x # b => Q[x] = P[x]
      /\ C \in [FcBuffers -> FileNames \cup {"zeroed"}]
      /\ \A x \in FcBuffers : x # b => C[x] = D[x]
  BY <1>3 DEF FcFiles
\* Where each entry that stays was.
<1> DEFINE Old(g, i) == IF g = h /\ ~(i < k) THEN i + 1 ELSE i
<1>7. ASSUME NEW g \in FcBuckets, NEW i \in 1 .. Len(E[g])
      PROVE  Old(g, i) \in 1 .. Len(F[g]) /\ E[g][i] = F[g][Old(g, i)] /\ ~(g = h /\ Old(g, i) = k)
  <2>1. CASE g = h
    <3>1. i \in 1 .. Len(F[h]) - 1 /\ Len(F[h]) \in Nat
      BY <1>1, <1>2, <1>4, <1>5, <2>1
    <3>2. i \in 1 .. Len(F[h]) /\ i + 1 \in 1 .. Len(F[h])
      BY <3>1
    <3>3. E[g][i] = IF i < k THEN F[h][i] ELSE F[h][i + 1]
      BY <1>4, <1>5, <2>1, <3>1
    <3>4. Old(g, i) # k
      BY <2>1, <3>1
    <3> QED
      BY <2>1, <3>2, <3>3, <3>4
  <2>2. CASE g # h
    BY <1>5, <2>2
  <2> QED
    BY <2>1, <2>2
<1>8. ASSUME NEW g \in FcBuckets, NEW i \in 1 .. Len(F[g]), ~(g = h /\ i = k)
      PROVE  F[g][i].buffer \in FcBuffers /\ F[g][i].buffer # b
  <2>1. F[g][i].buffer \in FcBuffers
    BY <1>2 DEF FcEntry
  <2>2. F[g][i].buffer # F[h][k].buffer
    BY <1>8 DEF FcFiles, FcApart
  <2> QED
    BY <2>1, <2>2
<1>9. ASSUME NEW g \in FcBuckets, NEW i \in 1 .. Len(E[g]) PROVE FcOwn(g, E[g][i], Q, C)
  <2>1. PICK a : a = Old(g, i)
    OBVIOUS
  <2>2. a \in 1 .. Len(F[g]) /\ E[g][i] = F[g][a] /\ ~(g = h /\ a = k)
    BY <1>7, <2>1
  <2>3. FcOwn(g, F[g][a], P, D)
    BY <2>2 DEF FcFiles
  <2>4. F[g][a].buffer \in FcBuffers /\ F[g][a].buffer # b
    BY <1>8, <2>2
  <2> QED
    BY <1>6, <2>2, <2>3, <2>4 DEF FcOwn
<1>10. FcApart(E)
  <2>1. ASSUME NEW g1 \in FcBuckets, NEW g2 \in FcBuckets,
               NEW i \in 1 .. Len(E[g1]), NEW j \in 1 .. Len(E[g2]),
               E[g1][i].buffer = E[g2][j].buffer
        PROVE  g1 = g2 /\ i = j
    <3>1. PICK a, c : a = Old(g1, i) /\ c = Old(g2, j)
      OBVIOUS
    <3>2. a \in 1 .. Len(F[g1]) /\ c \in 1 .. Len(F[g2]) /\ F[g1][a].buffer = F[g2][c].buffer
      <4>1. a \in 1 .. Len(F[g1]) /\ E[g1][i] = F[g1][a]
        BY <1>7, <3>1
      <4>2. c \in 1 .. Len(F[g2]) /\ E[g2][j] = F[g2][c]
        BY <1>7, <3>1
      <4> QED
        BY <2>1, <4>1, <4>2
    <3>3. g1 = g2 /\ a = c
      BY <3>2 DEF FcFiles, FcApart
    <3>4. i \in Int /\ j \in Int
      OBVIOUS
    <3> QED
      BY <3>1, <3>3, <3>4
  <2> QED
    BY <2>1 DEF FcApart
<1>11. FcUsed(E, Q)
  <2>1. ASSUME NEW x \in FcBuffers, ~Q[x]
        PROVE  \E g \in FcBuckets : \E i \in 1 .. Len(E[g]) : E[g][i].buffer = x
    <3>1. x # b /\ ~P[x]
      BY <1>6, <2>1
    <3>2. PICK g \in FcBuckets : \E i \in 1 .. Len(F[g]) : F[g][i].buffer = x
      BY <3>1 DEF FcFiles, FcUsed
    <3>3. PICK i \in 1 .. Len(F[g]) : F[g][i].buffer = x
      BY <3>2
    <3>4. CASE g = h
      <4>1. i # k /\ Len(F[h]) \in Nat /\ i \in 1 .. Len(F[h])
        BY <1>2, <3>1, <3>3, <3>4
      <4>2. CASE i < k
        <5>1. i \in 1 .. Len(F[h]) - 1
          BY <4>1, <4>2
        <5>2. i \in 1 .. Len(E[h]) /\ E[h][i] = F[h][i]
          BY <1>4, <1>5, <4>2, <5>1
        <5> QED
          BY <3>3, <3>4, <5>2
      <4>3. CASE ~(i < k)
        <5>1. i - 1 \in 1 .. Len(F[h]) - 1 /\ ~(i - 1 < k) /\ (i - 1) + 1 = i
          BY <4>1, <4>3
        <5>2. i - 1 \in 1 .. Len(E[h]) /\ E[h][i - 1] = F[h][i]
          BY <1>4, <1>5, <5>1
        <5> QED
          BY <3>3, <3>4, <5>2
      <4> QED
        BY <4>2, <4>3
    <3>5. CASE g # h
      BY <1>5, <3>3, <3>5
    <3> QED
      BY <3>4, <3>5
  <2> QED
    BY <2>1 DEF FcUsed
<1>12. FcOnce(E, C)
  <2>1. ASSUME NEW x \in FileNames, NEW g \in FcBuckets, g = FileBucket[x],
               NEW i \in 1 .. Len(E[g]), NEW j \in 1 .. Len(E[g]),
               FcIs(E[g][i], C, x), FcIs(E[g][j], C, x)
        PROVE  i = j
    <3>1. PICK a, c : a = Old(g, i) /\ c = Old(g, j)
      OBVIOUS
    <3>2. /\ a \in 1 .. Len(F[g]) /\ c \in 1 .. Len(F[g])
          /\ FcIs(F[g][a], D, x) /\ FcIs(F[g][c], D, x)
      <4>1. a \in 1 .. Len(F[g]) /\ E[g][i] = F[g][a]
        BY <1>7, <3>1
      <4>2. c \in 1 .. Len(F[g]) /\ E[g][j] = F[g][c]
        BY <1>7, <3>1
      <4>3. F[g][a].buffer \in FcBuffers /\ F[g][c].buffer \in FcBuffers
        BY <1>2, <4>1, <4>2 DEF FcEntry
      <4>4. F[g][a].buffer # b /\ F[g][c].buffer # b
        BY <2>1, <1>3, <4>1, <4>2, FcConstants DEF FcIs, FcFiles
      <4> QED
        BY <2>1, <1>6, <4>1, <4>2, <4>3, <4>4 DEF FcIs
    <3>3. a = c
      BY <2>1, <3>2 DEF FcFiles, FcOnce
    <3>4. i \in Int /\ j \in Int
      OBVIOUS
    <3> QED
      BY <3>1, <3>3, <3>4
  <2> QED
    BY <2>1 DEF FcOnce
<1>13. FcFiles(E, Q, C)
  BY <1>5, <1>6, <1>9, <1>10, <1>11, <1>12 DEF FcFiles
<1> QED
  BY <1>3, <1>13

\* What a free buffer holds is of no file.
LEMMA FcOverwritten ==
  ASSUME NEW F, NEW P, NEW D, FcFiles(F, P, D), NEW b \in FcBuffers, P[b]
  PROVE  FcFiles(F, P, [D EXCEPT ![b] = "zeroed"])
<1> PICK C : C = [D EXCEPT ![b] = "zeroed"]
  OBVIOUS
<1>1. /\ C \in [FcBuffers -> FileNames \cup {"zeroed"}]
      /\ \A x \in FcBuffers : x # b => C[x] = D[x]
  BY DEF FcFiles
<1>2. ASSUME NEW g \in FcBuckets, NEW i \in 1 .. Len(F[g]) PROVE FcOwn(g, F[g][i], P, C)
  <2>1. FcOwn(g, F[g][i], P, D)
    BY DEF FcFiles
  <2>2. F[g][i].buffer \in FcBuffers
    <3>1. F[g] \in Seq(FcEntry)
      BY DEF FcFiles
    <3>2. F[g][i] \in FcEntry
      BY <3>1, ElementOfSeq
    <3> QED
      BY <3>2 DEF FcEntry
  <2>3. F[g][i].buffer # b
    BY <2>1 DEF FcOwn
  <2> QED
    BY <1>1, <2>1, <2>2, <2>3 DEF FcOwn
<1>3. ASSUME NEW x \in FileNames, NEW g \in FcBuckets, NEW i \in 1 .. Len(F[g]), FcIs(F[g][i], C, x)
      PROVE  FcIs(F[g][i], D, x)
  <2>1. F[g][i].buffer # b
    BY <1>3, FcConstants DEF FcIs, FcFiles
  <2>2. F[g][i].buffer \in FcBuffers
    <3>1. F[g] \in Seq(FcEntry)
      BY DEF FcFiles
    <3>2. F[g][i] \in FcEntry
      BY <3>1, ElementOfSeq
    <3> QED
      BY <3>2 DEF FcEntry
  <2> QED
    BY <1>1, <1>3, <2>1, <2>2 DEF FcIs
<1>4. FcOnce(F, C)
  <2>1. FcOnce(F, D)
    BY DEF FcFiles
  <2>2. ASSUME NEW x \in FileNames, NEW g \in FcBuckets, g = FileBucket[x],
               NEW i \in 1 .. Len(F[g]), NEW j \in 1 .. Len(F[g]),
               FcIs(F[g][i], C, x), FcIs(F[g][j], C, x)
        PROVE  i = j
    <3>1. FcIs(F[g][i], D, x) /\ FcIs(F[g][j], D, x)
      BY <1>3, <2>2
    <3> QED
      BY <2>1, <2>2, <3>1 DEF FcOnce
  <2> QED
    BY <2>2 DEF FcOnce
<1> QED
  BY <1>1, <1>2, <1>4 DEF FcFiles

\* A list has a free buffer in front.
LEMMA FcFront ==
  ASSUME NEW q, FcPool(q), q.free_count # 0
  PROVE  q.free_list \in FcBuffers /\ q.is_free[q.free_list]
<1>1. PICK s : FcFreeList(q, s)
  BY DEF FcPool
<1>2. s \in Seq(FcBuffers) /\ Len(s) \in Nat /\ Len(s) # 0
  BY <1>1, LenProperties DEF FcFreeList
<1>3. 1 \in 1 .. Len(s) /\ q.free_list = s[1]
  BY <1>1, <1>2 DEF FcFreeList, ChLinked, ChFirst
<1>4. s[1] \in ChRange(s)
  BY <1>3 DEF ChRange
<1> QED
  BY <1>1, <1>3, <1>4 DEF FcFreeList

LEMMA FcAcquired ==
  ASSUME NEW q, FcPool(q), q.free_count # 0,
         NEW r, r = [q EXCEPT !.free_list = q.next[q.free_list], !.is_free[q.free_list] = FALSE,
                              !.next[q.free_list] = 0, !.free_count = @ - 1]
  PROVE  FcPool(r) /\ r.is_free = [q.is_free EXCEPT ![q.free_list] = FALSE]
<1>1. PICK s : FcFreeList(q, s)
  BY DEF FcPool
<1>2. PICK b : b = q.free_list
  OBVIOUS
<1>3. b \in FcBuffers /\ q.is_free[b]
  BY <1>2, FcFront
<1>4. /\ r = [free_list |-> r.free_list, free_count |-> r.free_count,
              next |-> r.next, is_free |-> r.is_free]
      /\ r.free_list = q.next[b] /\ r.free_count = q.free_count - 1
      /\ r.next = [q.next EXCEPT ![b] = 0] /\ r.is_free = [q.is_free EXCEPT ![b] = FALSE]
  BY <1>2 DEF FcPool
<1>5. /\ r.next \in [FcBuffers -> FcBuffers \cup {0}] /\ r.is_free \in [FcBuffers -> BOOLEAN]
      /\ \A x \in FcBuffers : x # b => r.next[x] = q.next[x] /\ r.is_free[x] = q.is_free[x]
      /\ ~r.is_free[b]
  BY <1>3, <1>4 DEF FcPool
<1>6. /\ s \in Seq(FcBuffers) /\ Len(s) \in Nat /\ Len(s) # 0
      /\ \A k \in 1 .. Len(s) : s[k] \in FcBuffers
  BY <1>1, LenProperties, ElementOfSeq DEF FcFreeList
<1>7. 1 \in 1 .. Len(s) /\ b = s[1]
  BY <1>1, <1>2, <1>6 DEF FcFreeList, ChLinked, ChFirst
<1>8. PICK t : t = ChDrop(s, 1)
  OBVIOUS
<1>9. t \in Seq(FcBuffers) /\ Len(t) = Len(s) - 1 /\ \A j \in 1 .. Len(s) - 1 : t[j] = s[j + 1]
  <2>1. /\ ChDrop(s, 1) \in Seq(FcBuffers) /\ Len(ChDrop(s, 1)) = Len(s) - 1
        /\ \A j \in 1 .. Len(s) - 1 : ChDrop(s, 1)[j] = IF j < 1 THEN s[j] ELSE s[j + 1]
    BY ONLY <1>6, <1>7, ChDropped
  <2> QED
    BY <1>6, <1>8, <2>1
<1>10. ASSUME NEW j \in 1 .. Len(t)
       PROVE  j + 1 \in 1 .. Len(s) /\ t[j] = s[j + 1] /\ t[j] \in FcBuffers /\ t[j] # b
  <2>1. j + 1 \in 1 .. Len(s) /\ j \in 1 .. Len(s) - 1 /\ j + 1 # 1
    BY <1>6, <1>9
  <2>2. t[j] = s[j + 1]
    BY <1>9, <2>1
  <2>3. s[j + 1] # s[1]
    BY <1>1, <1>7, <2>1 DEF FcFreeList, ChDistinct
  <2> QED
    BY <1>6, <1>7, <2>1, <2>2, <2>3
<1>11. ChDistinct(t)
  <2>1. ASSUME NEW i \in 1 .. Len(t), NEW j \in 1 .. Len(t), t[i] = t[j] PROVE i = j
    <3>1. i + 1 \in 1 .. Len(s) /\ j + 1 \in 1 .. Len(s) /\ s[i + 1] = s[j + 1]
      BY <1>10, <2>1
    <3>2. i + 1 = j + 1 /\ i \in Int /\ j \in Int
      BY <1>1, <3>1 DEF FcFreeList, ChDistinct
    <3> QED
      BY <3>2
  <2> QED
    BY <2>1 DEF ChDistinct
<1>12. ChLinked(r.next, r.free_list, t)
  <2>1. r.free_list = ChFirst(t)
    <3>1. q.next[b] = ChAfter(s, 1)
      BY <1>1, <1>7 DEF FcFreeList, ChLinked
    <3>2. CASE Len(s) = 1
      BY <1>4, <1>9, <3>1, <3>2 DEF ChAfter, ChFirst
    <3>3. CASE Len(s) # 1
      <4>1. 1 \in 1 .. Len(t) /\ Len(t) # 0
        BY <1>6, <1>9, <3>3
      <4>2. t[1] = s[1 + 1]
        BY <1>10, <4>1
      <4> QED
        BY <1>4, <3>1, <3>3, <4>1, <4>2 DEF ChAfter, ChFirst
    <3> QED
      BY <3>2, <3>3
  <2>2. ASSUME NEW j \in 1 .. Len(t) PROVE r.next[t[j]] = ChAfter(t, j)
    <3>1. j + 1 \in 1 .. Len(s) /\ t[j] = s[j + 1] /\ t[j] \in FcBuffers /\ t[j] # b
      BY <1>10
    <3>2. q.next[s[j + 1]] = ChAfter(s, j + 1)
      BY <1>1, <3>1 DEF FcFreeList, ChLinked
    <3>5. r.next[t[j]] = ChAfter(s, j + 1)
      BY <1>5, <3>1, <3>2
    <3>3. CASE j = Len(t)
      <4>1. j + 1 = Len(s)
        BY <1>6, <1>9, <3>3
      <4> QED
        BY <3>5, <3>3, <4>1 DEF ChAfter
    <3>4. CASE j # Len(t)
      <4>1. j + 1 # Len(s) /\ j + 1 \in 1 .. Len(t)
        BY <1>6, <1>9, <3>4
      <4>2. t[j + 1] = s[(j + 1) + 1]
        BY <1>10, <4>1
      <4> QED
        BY <3>5, <3>4, <4>1, <4>2 DEF ChAfter
    <3> QED
      BY <3>3, <3>4
  <2> QED
    BY <2>1, <2>2 DEF ChLinked
<1>13. ChRange(t) = {x \in FcBuffers : r.is_free[x]}
  <2>1. ASSUME NEW x \in ChRange(t) PROVE x \in FcBuffers /\ r.is_free[x]
    <3>1. PICK j \in 1 .. Len(t) : x = t[j]
      BY DEF ChRange
    <3>2. x \in FcBuffers /\ x # b /\ x \in ChRange(s)
      BY <1>10, <3>1 DEF ChRange
    <3> QED
      BY <1>1, <1>5, <3>2 DEF FcFreeList
  <2>2. ASSUME NEW x \in FcBuffers, r.is_free[x] PROVE x \in ChRange(t)
    <3>1. x # b /\ x \in ChRange(s)
      BY <1>1, <1>5, <2>2 DEF FcFreeList
    <3>2. PICK k \in 1 .. Len(s) : x = s[k]
      BY <3>1 DEF ChRange
    <3>3. k - 1 \in 1 .. Len(t) /\ (k - 1) + 1 = k
      <4>1. k # 1
        BY <1>7, <3>1, <3>2
      <4> QED
        BY <1>6, <1>9, <4>1
    <3>4. t[k - 1] = x
      BY <1>10, <3>2, <3>3
    <3> QED
      BY <3>3, <3>4 DEF ChRange
  <2> QED
    BY <2>1, <2>2
<1>14. FcFreeList(r, t)
  <2>1. r.free_count = Len(t)
    BY <1>1, <1>4, <1>9 DEF FcFreeList
  <2> QED
    BY <1>9, <1>11, <1>12, <1>13, <2>1 DEF FcFreeList
<1> QED
  BY <1>2, <1>4, <1>5, <1>14 DEF FcPool

LEMMA FcReleased ==
  ASSUME NEW q, FcPool(q), NEW b \in FcBuffers, ~q.is_free[b],
         NEW r, r = [q EXCEPT !.is_free[b] = TRUE, !.next[b] = q.free_list,
                              !.free_list = b, !.free_count = @ + 1]
  PROVE  FcPool(r) /\ r.is_free = [q.is_free EXCEPT ![b] = TRUE]
<1>1. PICK s : FcFreeList(q, s)
  BY DEF FcPool
<1>2. /\ s \in Seq(FcBuffers) /\ Len(s) \in Nat
      /\ \A k \in 1 .. Len(s) : s[k] \in FcBuffers
  BY <1>1, LenProperties, ElementOfSeq DEF FcFreeList
<1>3. \A k \in 1 .. Len(s) : s[k] # b
  BY <1>1, <1>2 DEF FcFreeList, ChRange
<1>4. /\ r = [free_list |-> r.free_list, free_count |-> r.free_count,
              next |-> r.next, is_free |-> r.is_free]
      /\ r.free_list = b /\ r.free_count = q.free_count + 1
      /\ r.next = [q.next EXCEPT ![b] = q.free_list] /\ r.is_free = [q.is_free EXCEPT ![b] = TRUE]
  BY DEF FcPool
<1>5. q.free_list \in FcBuffers \cup {0}
  <2>1. Len(s) # 0 => 1 \in 1 .. Len(s)
    BY <1>2
  <2> QED
    BY <1>1, <1>2, <2>1 DEF FcFreeList, ChLinked, ChFirst
<1>6. /\ r.next \in [FcBuffers -> FcBuffers \cup {0}] /\ r.is_free \in [FcBuffers -> BOOLEAN]
      /\ \A x \in FcBuffers : x # b => r.next[x] = q.next[x] /\ r.is_free[x] = q.is_free[x]
      /\ r.is_free[b] /\ r.next[b] = q.free_list
  BY <1>4, <1>5 DEF FcPool
<1>7. PICK t : t = ChPush(s, b)
  OBVIOUS
<1>8. /\ t \in Seq(FcBuffers) /\ Len(t) = Len(s) + 1 /\ t[1] = b
      /\ \A k \in 1 .. Len(s) : t[k + 1] = s[k]
  <2>1. /\ t \in Seq(FcBuffers) /\ Len(t) = Len(s) + 1
        /\ \A j \in 1 .. Len(s) + 1 : t[j] = IF j = 1 THEN b ELSE s[j - 1]
    <3>1. /\ ChPush(s, b) \in Seq(FcBuffers) /\ Len(ChPush(s, b)) = Len(s) + 1
          /\ \A j \in 1 .. Len(s) + 1 : ChPush(s, b)[j] = IF j = 1 THEN b ELSE s[j - 1]
      BY ONLY <1>2, b \in FcBuffers, ChPushed
    <3> QED
      BY <1>7, <3>1
  <2>2. ASSUME NEW k \in 1 .. Len(s) PROVE t[k + 1] = s[k]
    <3>1. k + 1 \in 1 .. Len(s) + 1 /\ k + 1 # 1 /\ (k + 1) - 1 = k
      BY <1>2
    <3> QED
      BY <2>1, <3>1
  <2>3. 1 \in 1 .. Len(s) + 1
    BY <1>2
  <2> QED
    BY <2>1, <2>2, <2>3
<1>9. ASSUME NEW j \in 1 .. Len(t), j # 1
      PROVE  j - 1 \in 1 .. Len(s) /\ t[j] = s[j - 1] /\ t[j] # b /\ t[j] \in FcBuffers
  <2>1. j - 1 \in 1 .. Len(s) /\ (j - 1) + 1 = j
    BY <1>2, <1>8, <1>9
  <2> QED
    BY <1>2, <1>3, <1>8, <2>1
<1>10. ChDistinct(t)
  <2>1. ASSUME NEW i \in 1 .. Len(t), NEW j \in 1 .. Len(t), t[i] = t[j] PROVE i = j
    <3>1. CASE i = 1 \/ j = 1
      BY <1>8, <1>9, <2>1, <3>1
    <3>2. CASE i # 1 /\ j # 1
      <4>1. i - 1 \in 1 .. Len(s) /\ j - 1 \in 1 .. Len(s) /\ s[i - 1] = s[j - 1]
        BY <1>9, <2>1, <3>2
      <4>2. i - 1 = j - 1 /\ i \in Int /\ j \in Int
        BY <1>1, <4>1 DEF FcFreeList, ChDistinct
      <4> QED
        BY <4>2
    <3> QED
      BY <3>1, <3>2
  <2> QED
    BY <2>1 DEF ChDistinct
<1>11. ChLinked(r.next, r.free_list, t)
  <2>1. r.free_list = ChFirst(t)
    BY <1>2, <1>4, <1>8 DEF ChFirst
  <2>2. ASSUME NEW j \in 1 .. Len(t) PROVE r.next[t[j]] = ChAfter(t, j)
    <3>1. CASE j = 1
      <4>1. r.next[t[j]] = ChFirst(s)
        BY <1>1, <1>6, <1>8, <3>1 DEF FcFreeList, ChLinked
      <4>2. CASE Len(s) = 0
        BY <1>8, <3>1, <4>1, <4>2 DEF ChFirst, ChAfter
      <4>3. CASE Len(s) # 0
        <5>1. 1 \in 1 .. Len(s) /\ j # Len(t)
          BY <1>2, <1>8, <3>1, <4>3
        <5>2. t[1 + 1] = s[1]
          BY <1>8, <5>1
        <5> QED
          BY <3>1, <4>1, <4>3, <5>1, <5>2 DEF ChFirst, ChAfter
      <4> QED
        BY <4>2, <4>3
    <3>2. CASE j # 1
      <4>1. j - 1 \in 1 .. Len(s) /\ t[j] = s[j - 1] /\ t[j] # b /\ t[j] \in FcBuffers
        BY <1>9, <3>2
      <4>2. r.next[t[j]] = ChAfter(s, j - 1)
        BY <1>1, <1>6, <4>1 DEF FcFreeList, ChLinked
      <4>3. CASE j = Len(t)
        <5>1. j - 1 = Len(s)
          BY <1>2, <1>8, <4>3
        <5> QED
          BY <4>2, <4>3, <5>1 DEF ChAfter
      <4>4. CASE j # Len(t)
        <5>1. j - 1 # Len(s) /\ j \in 1 .. Len(s) /\ (j - 1) + 1 = j
          BY <1>2, <1>8, <4>4
        <5>2. t[j + 1] = s[j]
          BY <1>8, <5>1
        <5> QED
          BY <4>2, <4>4, <5>1, <5>2 DEF ChAfter
      <4> QED
        BY <4>3, <4>4
    <3> QED
      BY <3>1, <3>2
  <2> QED
    BY <2>1, <2>2 DEF ChLinked
<1>12. ChRange(t) = {x \in FcBuffers : r.is_free[x]}
  <2>1. ASSUME NEW x \in ChRange(t) PROVE x \in FcBuffers /\ r.is_free[x]
    <3>1. PICK j \in 1 .. Len(t) : x = t[j]
      BY DEF ChRange
    <3>2. CASE j = 1
      BY <1>6, <1>8, <3>1, <3>2
    <3>3. CASE j # 1
      <4>1. x \in FcBuffers /\ x # b /\ x \in ChRange(s)
        BY <1>9, <3>1, <3>3 DEF ChRange
      <4> QED
        BY <1>1, <1>6, <4>1 DEF FcFreeList
    <3> QED
      BY <3>2, <3>3
  <2>2. ASSUME NEW x \in FcBuffers, r.is_free[x] PROVE x \in ChRange(t)
    <3>1. CASE x = b
      <4>1. 1 \in 1 .. Len(t) /\ t[1] = x
        BY <1>2, <1>8, <3>1
      <4> QED
        BY <4>1 DEF ChRange
    <3>2. CASE x # b
      <4>1. x \in ChRange(s)
        BY <1>1, <1>6, <2>2, <3>2 DEF FcFreeList
      <4>2. PICK k \in 1 .. Len(s) : x = s[k]
        BY <4>1 DEF ChRange
      <4>3. k + 1 \in 1 .. Len(t) /\ t[k + 1] = x
        BY <1>2, <1>8, <4>2
      <4> QED
        BY <4>3 DEF ChRange
    <3> QED
      BY <3>1, <3>2
  <2> QED
    BY <2>1, <2>2
<1>13. FcFreeList(r, t)
  <2>1. r.free_count = Len(t)
    BY <1>1, <1>4, <1>8 DEF FcFreeList
  <2> QED
    BY <1>8, <1>10, <1>11, <1>12, <2>1 DEF FcFreeList
<1> QED
  BY <1>4, <1>6, <1>13 DEF FcPool

LEMMA FcStarts == Files!Init => FcInv
<1> SUFFICES ASSUME Files!Init PROVE FcInv
  OBVIOUS
<1>1. /\ pool = [free_list |-> 1, free_count |-> POOL_SIZE,
                 next |-> [b \in FcBuffers |-> IF b = POOL_SIZE THEN 0 ELSE b + 1],
                 is_free |-> [b \in FcBuffers |-> TRUE]]
      /\ data = [b \in FcBuffers |-> "zeroed"]
      /\ files = [g \in FcBuckets |-> <<>>] /\ now = 0
  BY FcNames DEF Files!Init, Files!PoolInit
<1>2. POOL_SIZE \in Nat \ {0} /\ MaxTime \in Nat
  BY FcConstants
<1>3. /\ pool.next \in [FcBuffers -> FcBuffers \cup {0}]
      /\ pool.is_free \in [FcBuffers -> BOOLEAN] /\ \A b \in FcBuffers : pool.is_free[b]
  BY <1>1, <1>2 DEF FcBuffers
<1>4. PICK s : s = [b \in 1 .. POOL_SIZE |-> b]
  OBVIOUS
<1>5. s \in Seq(FcBuffers) /\ Len(s) = POOL_SIZE
  <2>1. s \in [1 .. POOL_SIZE -> FcBuffers]
    BY <1>4 DEF FcBuffers
  <2> QED
    BY <1>2, <2>1, ChSeq
<1>6. ChDistinct(s)
  BY <1>4, <1>5 DEF ChDistinct
<1>7. ChLinked(pool.next, pool.free_list, s)
  BY <1>1, <1>2, <1>4, <1>5 DEF ChLinked, ChFirst, ChAfter, FcBuffers
<1>8. ChRange(s) = {b \in FcBuffers : pool.is_free[b]}
  BY <1>3, <1>4, <1>5 DEF ChRange, FcBuffers
<1>9. FcFreeList(pool, s)
  BY <1>1, <1>5, <1>6, <1>7, <1>8 DEF FcFreeList
<1>10. FcPool(pool)
  BY <1>1, <1>3, <1>9 DEF FcPool
<1>11. \A g \in FcBuckets : files[g] \in Seq(FcEntry) /\ Len(files[g]) = 0
  BY <1>1, EmptySeq
<1>12. FcFiles(files, pool.is_free, data)
  <2>1. files \in [FcBuckets -> Seq(FcEntry)]
    BY <1>1, <1>11
  <2>2. data \in [FcBuffers -> FileNames \cup {"zeroed"}]
    BY <1>1
  <2>3. \A g \in FcBuckets : 1 .. Len(files[g]) = {}
    BY <1>11
  <2> QED
    BY <1>3, <2>1, <2>2, <2>3 DEF FcFiles, FcApart, FcUsed, FcOnce
<1> QED
  BY <1>1, <1>2, <1>10, <1>12 DEF FcInv

\* Min and FirstMet are of the set they are taken of.
LEMMA FcMin ==
  ASSUME NEW S, S \subseteq Nat, S # {}
  PROVE  Files!Min(S) \in S
BY LeastNumber DEF Files!Min

LEMMA FcFirstMet ==
  ASSUME NEW S, S \subseteq FcBuckets \X FcBuffers, S # {}
  PROVE  Files!FirstMet(S) \in S
<1> DEFINE T == {c[1] : c \in S}
<1>1. T \subseteq Nat /\ T # {}
  BY FcConstants
<1>2. PICK g \in T : \A y \in T : g <= y
  BY <1>1, LeastNumber
<1> DEFINE U == {c[2] : c \in {c \in S : c[1] = g}}
<1>3. U \subseteq Nat /\ U # {}
  BY FcConstants DEF FcBuffers
<1>4. PICK k \in U : \A y \in U : k <= y
  BY <1>3, LeastNumber
<1>5. PICK c \in S : c[1] = g /\ c[2] = k
  BY <1>4
<1>6. ASSUME NEW d \in S PROVE c[1] < d[1] \/ (c[1] = d[1] /\ c[2] <= d[2])
  <2>1. d[1] \in T /\ d[1] \in Nat /\ g \in Nat /\ g <= d[1]
    BY <1>1, <1>2
  <2>2. d[1] = g => k <= d[2]
    BY <1>4
  <2> HIDE DEF T, U
  <2> QED
    BY <1>5, <2>1, <2>2
<1> QED
  BY <1>6 DEF Files!FirstMet

LEMMA FcHits ==
  ASSUME FcInv, NEW f \in FileNames
  PROVE  /\ FileBucket[f] \in FcBuckets
         /\ Files!Hits(f) \subseteq 1 .. Len(files[FileBucket[f]])
         /\ Files!Hits(f) = {i \in 1 .. Len(files[FileBucket[f]]) : files[FileBucket[f]][i].filename = f}
         /\ Files!Hits(f) # {} => Files!Min(Files!Hits(f)) \in Files!Hits(f)
<1>1. FileBucket[f] \in FcBuckets
  BY FcConstants
<1>2. DOMAIN files[FileBucket[f]] = 1 .. Len(files[FileBucket[f]])
  BY <1>1, FcBounded DEF FcInv
<1>3. Files!Hits(f) = {i \in 1 .. Len(files[FileBucket[f]]) : files[FileBucket[f]][i].filename = f}
  BY <1>2 DEF Files!Hits
<1>4. Files!Hits(f) \subseteq Nat
  BY <1>3
<1> QED
  BY <1>1, <1>3, <1>4, FcMin

LEMMA FcHit ==
  ASSUME FcInv, NEW f \in FileNames, Files!Hit(f)
  PROVE  FcInv'
<1>1. PICK h : h = FileBucket[f]
  OBVIOUS
<1>2. PICK k : k = Files!Min(Files!Hits(f))
  OBVIOUS
<1>3. h \in FcBuckets /\ k \in 1 .. Len(files[h])
  BY <1>1, <1>2, FcHits DEF Files!Hit
<1>4. files' = [files EXCEPT ![h][k].last_accessed = now] /\ UNCHANGED <<pool, data, now>>
  BY <1>1, <1>2 DEF Files!Hit
<1>5. files \in [FcBuckets -> Seq(FcEntry)] /\ files[h] \in Seq(FcEntry) /\ now \in 0 .. MaxTime
  BY <1>3 DEF FcInv, FcFiles
<1>6. PICK t : t = files[h]
  OBVIOUS
<1>7. PICK e : e = [t[k] EXCEPT !.last_accessed = now]
  OBVIOUS
<1>8. t[k] \in FcEntry
  BY <1>3, <1>5, <1>6, ElementOfSeq
<1>9. e \in FcEntry /\ e.buffer = t[k].buffer /\ e.filename = t[k].filename
  BY <1>5, <1>7, <1>8 DEF FcEntry
<1>10. PICK u : u = [t EXCEPT ![k] = e]
  OBVIOUS
<1>11. /\ u \in Seq(FcEntry) /\ Len(u) = Len(t)
       /\ \A j \in 1 .. Len(t) : u[j] = IF j = k THEN e ELSE t[j]
  BY <1>3, <1>5, <1>6, <1>9, <1>10, ExceptSeq
<1>12. files' = [files EXCEPT ![h] = u]
  BY <1>4, <1>6, <1>7, <1>10
<1>13. PICK E : E = files'
  OBVIOUS
<1>14. E \in [FcBuckets -> Seq(FcEntry)] /\ E[h] = u /\ \A g \in FcBuckets : g # h => E[g] = files[g]
  BY <1>3, <1>5, <1>11, <1>12, <1>13
<1>15. \A g \in FcBuckets : /\ Len(E[g]) = Len(files[g])
                            /\ \A i \in 1 .. Len(files[g]) : /\ E[g][i].buffer = files[g][i].buffer
                                                             /\ E[g][i].filename = files[g][i].filename
  BY <1>6, <1>9, <1>11, <1>14
<1>16. FcFiles(E, pool.is_free, data)
  BY <1>14, <1>15, FcTouched DEF FcInv
<1> QED
  BY <1>4, <1>13, <1>16 DEF FcInv

LEMMA FcRead ==
  ASSUME FcInv, NEW f \in FileNames, Files!Read(f)
  PROVE  FcInv'
<1>1. PICK q : q = pool
  OBVIOUS
<1>2. PICK b : b = q.free_list
  OBVIOUS
<1>3. FcPool(q) /\ q.free_count # 0
  BY <1>1 DEF FcInv, Files!Read, Files!Exhausted
<1>4. b \in FcBuffers /\ q.is_free[b]
  BY <1>2, <1>3, FcFront
<1>5. pool' = [q EXCEPT !.free_list = q.next[q.free_list], !.is_free[q.free_list] = FALSE,
                        !.next[q.free_list] = 0, !.free_count = @ - 1]
  BY <1>1, FcNames DEF Files!Read, Files!AfterAcquire, Files!Acquired
<1>6. FcPool(pool') /\ pool'.is_free = [q.is_free EXCEPT ![b] = FALSE]
  BY <1>2, <1>3, <1>5, FcAcquired
<1>7. data' = [data EXCEPT ![b] = f] /\ now' = now
  BY <1>1, <1>2 DEF Files!Read, Files!Acquired
<1>8. PICK e : e = Files!Entry(f, b)
  OBVIOUS
<1>9. e \in FcEntry /\ e.buffer = b /\ e.filename = StoredNames[f]
  <2>1. now \in 0 .. MaxTime
    BY DEF FcInv
  <2> QED
    BY <1>4, <1>8, <2>1 DEF Files!Entry, FcEntry
<1>10. files' = [files EXCEPT ![FileBucket[f]] = <<e>> \o @]
  BY <1>1, <1>2, <1>8 DEF Files!Read, Files!Acquired
<1>11. \A i \in 1 .. Len(files[FileBucket[f]]) : files[FileBucket[f]][i].filename # f
  BY FcHits DEF Files!Read
<1>12. FcFiles(files, q.is_free, data)
  BY <1>1 DEF FcInv
<1>13. FcFiles([files EXCEPT ![FileBucket[f]] = <<e>> \o @], [q.is_free EXCEPT ![b] = FALSE],
               [data EXCEPT ![b] = f])
  BY ONLY <1>4, <1>9, <1>11, <1>12, f \in FileNames, FcAdded
<1> QED
  BY <1>6, <1>7, <1>10, <1>13 DEF FcInv

LEMMA FcReadFails ==
  ASSUME FcInv, NEW f \in FileNames, Files!ReadFails(f)
  PROVE  FcInv'
<1>1. PICK b : b = pool.free_list
  OBVIOUS
<1>2. FcPool(pool) /\ pool.free_count # 0
  BY DEF FcInv, Files!ReadFails, Files!Exhausted
<1>3. b \in FcBuffers /\ pool.is_free[b]
  BY <1>1, <1>2, FcFront
<1>4. data' = [data EXCEPT ![b] = "zeroed"] /\ UNCHANGED <<pool, files, now>>
  BY <1>1, FcNames DEF Files!ReadFails, Files!Acquired
<1>5. FcFiles(files, pool.is_free, [data EXCEPT ![b] = "zeroed"])
  BY <1>3, FcOverwritten DEF FcInv
<1> QED
  BY <1>4, <1>5 DEF FcInv

LEMMA FcUnlink ==
  ASSUME FcInv, NEW g \in FcBuckets, NEW i \in 1 .. Len(files[g]), Files!Unlink(g, i)
  PROVE  FcInv'
<1>1. PICK b : b = files[g][i].buffer
  OBVIOUS
<1>2. PICK q : q = pool
  OBVIOUS
<1>3. FcFiles(files, q.is_free, data)
  BY <1>2 DEF FcInv
<1>4. /\ b \in FcBuffers /\ ~q.is_free[b]
      /\ FcFiles([files EXCEPT ![g] = ChDrop(@, i)], [q.is_free EXCEPT ![b] = TRUE],
                 [data EXCEPT ![b] = "zeroed"])
  BY ONLY <1>1, <1>3, g \in FcBuckets, i \in 1 .. Len(files[g]), FcRemoved
<1>5. pool' = [q EXCEPT !.is_free[b] = TRUE, !.next[b] = q.free_list,
                        !.free_list = b, !.free_count = @ + 1]
  BY <1>1, <1>2, <1>4 DEF Files!Unlink, Files!release_buffer, Files!AfterRelease
<1>6. FcPool(pool') /\ pool'.is_free = [q.is_free EXCEPT ![b] = TRUE]
  <2>1. FcPool(q)
    BY <1>2 DEF FcInv
  <2> QED
    BY <1>4, <1>5, <2>1, FcReleased
<1>7. data' = [data EXCEPT ![b] = "zeroed"] /\ now' = now
  BY <1>1, <1>2, <1>4, FcNames DEF Files!Unlink, Files!release_buffer
<1>8. files' = [files EXCEPT ![g] = ChDrop(@, i)]
  <2>1. files[g] \in Seq(FcEntry)
    BY <1>3 DEF FcFiles
  <2>2. Files!RemoveAt(files[g], i) = ChDrop(files[g], i)
    BY <2>1, ChRemoveAt
  <2>3. files' = [files EXCEPT ![g] = Files!RemoveAt(files[g], i)]
    BY DEF Files!Unlink
  <2> QED
    BY <2>2, <2>3
<1> QED
  BY <1>4, <1>6, <1>7, <1>8 DEF FcInv

\* The entries that the loops over all buckets look at.
LEMMA FcCached ==
  ASSUME FcInv
  PROVE  /\ Files!Cached \subseteq FcBuckets \X FcBuffers
         /\ \A c \in Files!Cached : /\ c[1] \in FcBuckets /\ c[2] \in 1 .. Len(files[c[1]])
                                    /\ Files!Accessed(c) \in 0 .. MaxTime
<1>1. Files!Cached = {c \in FcBuckets \X FcBuffers : c[2] \in DOMAIN files[c[1]]}
  BY FcNames DEF Files!Cached
<1>2. ASSUME NEW c \in Files!Cached
      PROVE  c[1] \in FcBuckets /\ c[2] \in 1 .. Len(files[c[1]]) /\ Files!Accessed(c) \in 0 .. MaxTime
  <2>1. c[1] \in FcBuckets /\ c[2] \in DOMAIN files[c[1]]
    BY <1>1
  <2>2. c[2] \in 1 .. Len(files[c[1]]) /\ files[c[1]] \in Seq(FcEntry)
    BY <2>1, FcBounded DEF FcInv, FcFiles
  <2>3. files[c[1]][c[2]] \in FcEntry
    BY <2>2, ElementOfSeq
  <2> QED
    BY <2>1, <2>2, <2>3 DEF Files!Accessed, FcEntry
<1> QED
  BY <1>1, <1>2

LEMMA FcOldest ==
  ASSUME FcInv, Files!remove_lru_cached_file \/ Files!remove_mru_cached_file
  PROVE  FcInv'
<1>1. PICK S : /\ S \subseteq Files!Cached /\ S # {}
               /\ Files!Unlink(Files!FirstMet(S)[1], Files!FirstMet(S)[2])
  <2>1. CASE Files!remove_lru_cached_file
    <3> DEFINE T == {Files!Accessed(c) : c \in Files!Cached}
               S == {c \in Files!Cached : \A d \in Files!Cached : Files!Accessed(c) <= Files!Accessed(d)}
    <3>1. T \subseteq Nat /\ T # {}
      BY <2>1, FcCached DEF Files!remove_lru_cached_file
    <3>2. PICK x \in T : \A y \in T : x <= y
      BY <3>1, LeastNumber
    <3>3. S # {}
      BY <3>2
    <3>4. Files!Unlink(Files!FirstMet(S)[1], Files!FirstMet(S)[2])
      BY <2>1 DEF Files!remove_lru_cached_file
    <3> QED
      BY <3>3, <3>4
  <2>2. CASE Files!remove_mru_cached_file
    <3> DEFINE T == {MaxTime - Files!Accessed(c) : c \in Files!Cached}
               S == {c \in Files!Cached : \A d \in Files!Cached : Files!Accessed(c) >= Files!Accessed(d)}
    <3>1. T \subseteq Nat /\ T # {}
      BY <2>2, FcCached, FcConstants DEF Files!remove_mru_cached_file
    <3>2. PICK x \in T : \A y \in T : x <= y
      BY <3>1, LeastNumber
    <3>3. PICK c \in Files!Cached : x = MaxTime - Files!Accessed(c)
      BY <3>2
    <3>4. ASSUME NEW d \in Files!Cached PROVE Files!Accessed(c) >= Files!Accessed(d)
      <4>1. MaxTime - Files!Accessed(c) <= MaxTime - Files!Accessed(d)
        BY <3>2, <3>3
      <4>2. Files!Accessed(c) \in Int /\ Files!Accessed(d) \in Int /\ MaxTime \in Int
        BY FcCached, FcConstants
      <4> QED
        BY <4>1, <4>2
    <3>5. S # {}
      BY <3>4
    <3>6. Files!Unlink(Files!FirstMet(S)[1], Files!FirstMet(S)[2])
      BY <2>2 DEF Files!remove_mru_cached_file
    <3> QED
      BY <3>5, <3>6
  <2> QED
    BY <2>1, <2>2
<1>2. PICK c : c = Files!FirstMet(S)
  OBVIOUS
<1>3. c \in Files!Cached
  <2>1. S \subseteq FcBuckets \X FcBuffers
    BY <1>1, FcCached
  <2> QED
    BY <1>1, <1>2, <2>1, FcFirstMet
<1>4. c[1] \in FcBuckets /\ c[2] \in 1 .. Len(files[c[1]])
  BY <1>3, FcCached
<1>5. Files!Unlink(c[1], c[2])
  BY <1>1, <1>2
<1> QED
  BY <1>4, <1>5, FcUnlink

LEMMA FcStep == FcInv /\ (Files!Next \/ UNCHANGED cached) => FcInv'
<1> SUFFICES ASSUME FcInv, Files!Next \/ UNCHANGED cached PROVE FcInv'
  OBVIOUS
<1>1. CASE UNCHANGED <<pool, data, files, now>>
  BY <1>1 DEF FcInv
<1>2. ASSUME NEW f \in FileNames, Files!read_file_cached(f) PROVE FcInv'
  <2>1. Files!NoBuffer(f) => UNCHANGED <<pool, data, files, now>>
    BY DEF Files!NoBuffer, Files!vars
  <2> QED
    BY <1>1, <1>2, <2>1, FcHit, FcRead, FcReadFails DEF Files!read_file_cached
<1>3. ASSUME NEW f \in FileNames, Files!remove_cache_file(f) PROVE FcInv'
  <2>1. PICK g, k : g = FileBucket[f] /\ k = Files!Min(Files!Hits(f))
    OBVIOUS
  <2>2. g \in FcBuckets /\ k \in 1 .. Len(files[g]) /\ Files!Unlink(g, k)
    BY <1>3, <2>1, FcHits DEF Files!remove_cache_file
  <2> QED
    BY <2>2, FcUnlink
<1>4. CASE Files!Tick
  <2>1. now' \in 0 .. MaxTime /\ UNCHANGED <<pool, data, files>>
    BY <1>4, FcConstants DEF Files!Tick, FcInv
  <2> QED
    BY <2>1 DEF FcInv
<1> QED
  BY <1>1, <1>2, <1>3, <1>4, FcOldest DEF Files!Next, cached

LEMMA FcPartition == FcInv => Files!PoolPartition
<1> SUFFICES ASSUME FcInv PROVE Files!PoolPartition
  OBVIOUS
<1>1. Files!FreeListSound
  <2>1. PICK s : FcFreeList(pool, s)
    BY DEF FcInv, FcPool
  <2>2. Files!Chain(pool.next, pool.free_list) = s
    <3>1. /\ IsFiniteSet(FcBuffers) /\ 0 \notin FcBuffers
          /\ pool.next \in [FcBuffers -> FcBuffers \cup {0}]
          /\ s \in Seq(FcBuffers) /\ ChDistinct(s) /\ ChLinked(pool.next, pool.free_list, s)
      BY <2>1, FcConstants DEF FcInv, FcPool, FcFreeList
    <3> QED
      BY ONLY <3>1, ChainIs
  <2>3. DOMAIN s = 1 .. Len(s)
    BY <2>1, LenProperties DEF FcFreeList
  <2> QED
    BY <2>1, <2>2, <2>3, FcNames DEF Files!FreeListSound, FcFreeList, ChRange, ChDistinct
<1>2. ASSUME NEW b \in FcBuffers
      PROVE  Files!Cardinality({c \in Files!Cached : files[c[1]][c[2]].buffer = b})
               = (IF pool.is_free[b] THEN 0 ELSE 1)
  <2>1. PICK A : A = {c \in Files!Cached : files[c[1]][c[2]].buffer = b}
    OBVIOUS
  <2>2. CASE pool.is_free[b]
    <3>1. A = {}
      <4>1. ASSUME NEW c \in A PROVE FALSE
        <5>1. c[1] \in FcBuckets /\ c[2] \in 1 .. Len(files[c[1]]) /\ files[c[1]][c[2]].buffer = b
          BY <2>1, FcCached
        <5>2. FcOwn(c[1], files[c[1]][c[2]], pool.is_free, data)
          BY <5>1 DEF FcInv, FcFiles
        <5> QED
          BY <2>2, <5>1, <5>2 DEF FcOwn
      <4> QED
        BY <4>1
    <3>2. Cardinality(A) = 0
      BY <3>1, FS_EmptySet
    <3> QED
      BY <2>1, <2>2, <3>2, ChCardinality
  <2>3. CASE ~pool.is_free[b]
    <3>1. PICK g \in FcBuckets : \E i \in 1 .. Len(files[g]) : files[g][i].buffer = b
      BY <2>3 DEF FcInv, FcFiles, FcUsed
    <3>2. PICK i \in 1 .. Len(files[g]) : files[g][i].buffer = b
      BY <3>1
    <3>3. i \in FcBuffers /\ i \in DOMAIN files[g]
      <4>1. Len(files[g]) \in Nat /\ Len(files[g]) <= POOL_SIZE /\ DOMAIN files[g] = 1 .. Len(files[g])
        BY FcBounded DEF FcInv
      <4> QED
        BY <4>1, FcConstants DEF FcBuffers
    <3>4. <<g, i>> \in A
      BY <2>1, <3>2, <3>3, FcNames DEF Files!Cached
    <3>5. ASSUME NEW c \in A PROVE c = <<g, i>>
      <4>1. c[1] \in FcBuckets /\ c[2] \in 1 .. Len(files[c[1]]) /\ files[c[1]][c[2]].buffer = b
        BY <2>1, FcCached
      <4>2. c \in FcBuckets \X FcBuffers
        BY <2>1, FcCached
      <4>3. c[1] = g /\ c[2] = i
        BY <3>2, <4>1 DEF FcInv, FcFiles, FcApart
      <4> QED
        BY <4>2, <4>3
    <3>6. A = {<<g, i>>}
      BY <3>4, <3>5
    <3>7. Cardinality(A) = 1
      BY <3>6, FS_Singleton
    <3> QED
      BY <2>1, <2>3, <3>7, ChCardinality
  <2> QED
    BY <2>2, <2>3
<1> QED
  BY <1>1, <1>2, FcNames DEF Files!PoolPartition

LEMMA FcHitsOwn == FcInv => Files!HitsOwnFile
<1> SUFFICES ASSUME FcInv, NEW f \in FileNames
             PROVE  /\ \A i \in Files!Hits(f) : data[files[FileBucket[f]][i].buffer] \in Files!Namesakes(f)
                    /\ Files!Cardinality({i \in Files!Hits(f) : data[files[FileBucket[f]][i].buffer] = f}) <= 1
  BY DEF Files!HitsOwnFile
<1>1. PICK g : g = FileBucket[f]
  OBVIOUS
<1>2. /\ g \in FcBuckets
      /\ Files!Hits(f) = {i \in 1 .. Len(files[g]) : files[g][i].filename = f}
  BY <1>1, FcHits
<1>3. ASSUME NEW i \in Files!Hits(f) PROVE data[files[g][i].buffer] \in Files!Namesakes(f)
  <2>1. i \in 1 .. Len(files[g]) /\ files[g][i].filename = f
    BY <1>2
  <2>2. PICK x \in FileNames : /\ data[files[g][i].buffer] = x /\ StoredNames[x] = f
                               /\ FileBucket[x] = g
    BY <1>2, <2>1 DEF FcInv, FcFiles, FcOwn
  <2> QED
    BY <1>1, <2>2 DEF Files!Namesakes
<1>4. PICK A : A = {i \in Files!Hits(f) : data[files[g][i].buffer] = f}
  OBVIOUS
<1>5. \A i, j \in A : i = j
  BY <1>1, <1>2, <1>4 DEF FcInv, FcFiles, FcOnce, FcIs
<1>6. Cardinality(A) <= 1
  <2>1. CASE A = {}
    BY <2>1, FS_EmptySet
  <2>2. CASE A # {}
    <3>1. PICK i \in A : A = {i}
      BY <1>5, <2>2
    <3>2. Cardinality({i}) = 1
      BY FS_Singleton
    <3> QED
      BY <3>1, <3>2
  <2> QED
    BY <2>1, <2>2
<1> QED
  BY <1>1, <1>3, <1>4, <1>6, ChCardinality
-----------------------------------------------------------------------------
(* The LRU cache.  The nodes in order of use are a list, and the table has *)
(* one entry for each of them, in the bucket of its key.                   *)

LcN == 1 .. LruNodes
LcPointer == LcN \cup {0}
LcBuckets == 0 .. HASH_SIZE - 1
LcBucket(k) == k % HASH_SIZE
LcLists ==
  [capacity : Nat, size : Nat, head : LcPointer, tail : LcPointer,
   prev : [LcN -> LcPointer], next : [LcN -> LcPointer]]
LcNodes == [LcN -> [key : Nat, value : Nat]]
LcEntry == [key : LruKeys, node : LcN]

LcLink(o, l) ==
  /\ o \in LcLists /\ l \in Seq(LcN) /\ ChDistinct(l)
  /\ DlLinked(o.head, o.tail, o.prev, o.next, l)
LcUse(o, l, lv) == LcLink(o, l) /\ ChRange(l) = lv /\ o.size = Len(l)

LcOwn(b, e, nd, lv) == e.node \in lv /\ nd[e.node].key = e.key /\ LcBucket(e.key) = b
LcApart(s) == \A i, j \in 1 .. Len(s) : s[i].key = s[j].key => i = j
LcFound(T, n) == \E b \in LcBuckets : \E i \in 1 .. Len(T[b]) : T[b][i].node = n
LcTable(nd, T, lv) ==
  /\ T \in [LcBuckets -> Seq(LcEntry)]
  /\ \A b \in LcBuckets : LcApart(T[b]) /\ \A i \in 1 .. Len(T[b]) : LcOwn(b, T[b][i], nd, lv)
  /\ \A n \in lv : LcFound(T, n)

LcSound(o, nd, T, lv) ==
  nd \in LcNodes /\ lv \subseteq LcN /\ (\E l : LcUse(o, l, lv)) /\ LcTable(nd, T, lv)
LcInv ==
  /\ LcSound(obj, node, hashTable, live)
  /\ obj.capacity \in LruCapacities /\ obj.size <= obj.capacity

LEMMA LcConstants ==
  /\ LruNodes \in Nat /\ LruKeys \subseteq Nat /\ LruValues \subseteq Nat
  /\ \A c \in LruCapacities : c \in Nat /\ c + 1 <= LruNodes
  /\ \A k \in LruKeys : LcBucket(k) \in LcBuckets /\ Lru!hash(k) = LcBucket(k)
  /\ 0 \notin LcN /\ IsFiniteSet(LcN) /\ Cardinality(LcN) = LruNodes
  /\ Lru!Nodes = LcN /\ Lru!Buckets = LcBuckets /\ Lru!NULL = 0
<1>1. /\ LruNodes \in Nat /\ LruKeys \subseteq Nat /\ LruValues \subseteq Nat
      /\ HASH_SIZE \in Nat \ {0} /\ \A c \in LruCapacities : c \in Nat /\ c + 1 <= LruNodes
  BY MemoryAssumption DEF Lru!ConstantsOK
<1>2. ASSUME NEW k \in LruKeys PROVE LcBucket(k) \in LcBuckets
  <2>1. k \in Nat
    BY <1>1
  <2>2. k % HASH_SIZE \in 0 .. HASH_SIZE - 1
    BY ONLY <1>1, <2>1
  <2> QED
    BY <2>2 DEF LcBucket, LcBuckets
<1>3. /\ IsFiniteSet(1 .. LruNodes)
      /\ Cardinality(1 .. LruNodes) = IF 1 > LruNodes THEN 0 ELSE LruNodes - 1 + 1
  BY <1>1, FS_Interval
<1>4. 0 \notin LcN /\ IsFiniteSet(LcN) /\ Cardinality(LcN) = LruNodes
  BY <1>1, <1>3 DEF LcN
<1>5. Lru!Nodes = LcN /\ Lru!Buckets = LcBuckets /\ Lru!NULL = 0
  BY DEF Lru!Nodes, LcN, Lru!Buckets, LcBuckets, Lru!NULL
<1>6. \A k : Lru!hash(k) = LcBucket(k)
  BY DEF Lru!hash, LcBucket
<1> QED
  BY <1>1, <1>2, <1>4, <1>5, <1>6

LcStored(f, i, v, g) ==
  g \in [LcN -> LcPointer] /\ \A y \in LcN : g[y] = IF y = i THEN v ELSE f[y]

LEMMA LcStore ==
  ASSUME NEW f \in [LcN -> LcPointer], NEW i \in LcPointer, NEW v \in LcPointer
  PROVE  LcStored(f, i, v, Lru!Store(f, i, v))
<1>1. CASE i = 0
  BY <1>1, LcConstants DEF Lru!Store, LcStored
<1>2. CASE i # 0
  BY <1>2, LcConstants DEF Lru!Store, LcPointer, LcStored
<1> QED
  BY <1>1, <1>2

\* A changed list: its links, and what is left alone.
LcChanged(o, d, l) == LcLink(d, l) /\ d.size = o.size /\ d.capacity = o.capacity

\* removeNode.
LEMMA LcRemoves ==
  ASSUME NEW o, NEW l, LcLink(o, l), NEW k \in 1 .. Len(l), NEW n, n = l[k],
         NEW d, d = Lru!removeNode(o, n)
  PROVE  LcChanged(o, d, ChDrop(l, k))
<1>1. /\ o \in LcLists /\ l \in Seq(LcN) /\ ChDistinct(l)
      /\ DlLinked(o.head, o.tail, o.prev, o.next, l)
  BY DEF LcLink
<1>2. /\ o.capacity \in Nat /\ o.size \in Nat /\ o.head \in LcPointer /\ o.tail \in LcPointer
      /\ o.prev \in [LcN -> LcPointer] /\ o.next \in [LcN -> LcPointer]
  BY <1>1 DEF LcLists
<1>3. n \in LcN
  BY <1>1, ElementOfSeq
<1>4. PICK f1, f2, f3, f4, f5, f6 :
        /\ f1 = o.capacity /\ f2 = o.size /\ f3 = o.head /\ f4 = o.tail
        /\ f5 = o.prev /\ f6 = o.next
  OBVIOUS
<1>5. o = [capacity |-> f1, size |-> f2, head |-> f3, tail |-> f4, prev |-> f5, next |-> f6]
  BY <1>1, <1>4 DEF LcLists
<1>6. PICK p0, n0 : p0 = o.prev[n] /\ n0 = o.next[n] /\ p0 \in LcPointer /\ n0 \in LcPointer
  BY <1>2, <1>3
<1>7. d = [o EXCEPT !.next = Lru!Store(@, p0, n0),
                    !.head = IF p0 = 0 THEN n0 ELSE @,
                    !.prev = Lru!Store(@, n0, p0),
                    !.tail = IF n0 = 0 THEN p0 ELSE @]
  BY <1>6, LcConstants DEF Lru!removeNode
<1>8. d = [capacity |-> f1, size |-> f2, head |-> IF p0 = 0 THEN n0 ELSE f3,
           tail |-> IF n0 = 0 THEN p0 ELSE f4, prev |-> Lru!Store(f5, n0, p0),
           next |-> Lru!Store(f6, p0, n0)]
  BY ONLY <1>5, <1>7
<1>9. PICK pv, nx : pv = Lru!Store(f5, n0, p0) /\ nx = Lru!Store(f6, p0, n0)
  OBVIOUS
<1>10. LcStored(f5, n0, p0, pv) /\ LcStored(f6, p0, n0, nx)
  BY <1>2, <1>4, <1>6, <1>9, LcStore
<1>11. /\ d.prev = pv /\ d.next = nx /\ d.size = o.size /\ d.capacity = o.capacity
       /\ d.head = IF p0 = 0 THEN n0 ELSE o.head
       /\ d.tail = IF n0 = 0 THEN p0 ELSE o.tail
  BY <1>4, <1>8, <1>9
<1>12. d \in LcLists
  <2>1. /\ f1 \in Nat /\ f2 \in Nat /\ (IF p0 = 0 THEN n0 ELSE f3) \in LcPointer
        /\ (IF n0 = 0 THEN p0 ELSE f4) \in LcPointer
        /\ pv \in [LcN -> LcPointer] /\ nx \in [LcN -> LcPointer]
    BY <1>2, <1>4, <1>6, <1>10 DEF LcStored
  <2> QED
    BY <1>8, <1>9, <2>1 DEF LcLists
<1>13. DlOut(o.prev, o.next, l, n, pv, nx)
  <2>1. ASSUME NEW x \in ChRange(l) PROVE x \in LcN
    BY <1>1, ElementOfSeq DEF ChRange
  <2> QED
    BY <1>4, <1>6, <1>10, <2>1 DEF DlOut, LcStored
<1>14. DlGone(o.head, o.tail, o.prev, o.next, n, pv, nx, ChDrop(l, k))
  BY <1>1, <1>13, LcConstants, DlDrop
<1>15. DlLinked(d.head, d.tail, d.prev, d.next, ChDrop(l, k))
  BY <1>6, <1>11, <1>14 DEF DlGone
<1>16. ChDistinct(ChDrop(l, k)) /\ ChDrop(l, k) \in Seq(LcN)
  BY <1>1, ChDropRange, ChDropped
<1> QED
  BY <1>11, <1>12, <1>15, <1>16 DEF LcChanged, LcLink

\* addToHead.
LEMMA LcAdds ==
  ASSUME NEW o, NEW l, LcLink(o, l), NEW n \in LcN, n \notin ChRange(l),
         NEW d, d = Lru!addToHead(o, n)
  PROVE  LcChanged(o, d, ChPush(l, n))
<1>1. /\ o \in LcLists /\ l \in Seq(LcN) /\ ChDistinct(l)
      /\ DlLinked(o.head, o.tail, o.prev, o.next, l)
  BY DEF LcLink
<1>2. /\ o.capacity \in Nat /\ o.size \in Nat /\ o.head \in LcPointer /\ o.tail \in LcPointer
      /\ o.prev \in [LcN -> LcPointer] /\ o.next \in [LcN -> LcPointer]
  BY <1>1 DEF LcLists
<1>3. n \in LcPointer /\ 0 \in LcPointer
  BY DEF LcPointer
<1>4. PICK f1, f2, f3, f4, f5, f6 :
        /\ f1 = o.capacity /\ f2 = o.size /\ f3 = o.head /\ f4 = o.tail
        /\ f5 = o.prev /\ f6 = o.next
  OBVIOUS
<1>5. o = [capacity |-> f1, size |-> f2, head |-> f3, tail |-> f4, prev |-> f5, next |-> f6]
  BY <1>1, <1>4 DEF LcLists
<1>6. d = [o EXCEPT !.next = Lru!Store(@, n, f3),
                    !.prev = Lru!Store(Lru!Store(@, n, 0), f3, n),
                    !.head = n,
                    !.tail = IF @ = 0 THEN n ELSE @]
  BY <1>4, LcConstants DEF Lru!addToHead
<1>7. d = [capacity |-> f1, size |-> f2, head |-> n, tail |-> IF f4 = 0 THEN n ELSE f4,
           prev |-> Lru!Store(Lru!Store(f5, n, 0), f3, n), next |-> Lru!Store(f6, n, f3)]
  BY ONLY <1>5, <1>6
<1>8. PICK p1, pv, nx : /\ p1 = Lru!Store(f5, n, 0) /\ pv = Lru!Store(p1, f3, n)
                        /\ nx = Lru!Store(f6, n, f3)
  OBVIOUS
<1>9. LcStored(f5, n, 0, p1) /\ LcStored(f6, n, f3, nx)
  BY <1>2, <1>3, <1>4, <1>8, LcStore
<1>10. LcStored(p1, f3, n, pv)
  <2>1. p1 \in [LcN -> LcPointer] /\ f3 \in LcPointer
    BY <1>2, <1>4, <1>9 DEF LcStored
  <2> QED
    BY <1>3, <1>8, <2>1, LcStore
<1>11. /\ d.prev = pv /\ d.next = nx /\ d.size = o.size /\ d.capacity = o.capacity
       /\ d.head = n /\ d.tail = IF o.tail = 0 THEN n ELSE o.tail
  BY <1>4, <1>7, <1>8
<1>12. d \in LcLists
  <2>1. /\ f1 \in Nat /\ f2 \in Nat /\ (IF f4 = 0 THEN n ELSE f4) \in LcPointer
        /\ pv \in [LcN -> LcPointer] /\ nx \in [LcN -> LcPointer]
    BY <1>2, <1>3, <1>4, <1>9, <1>10 DEF LcStored
  <2> QED
    BY <1>3, <1>7, <1>8, <2>1 DEF LcLists
<1>13. o.head \in ChRange(l) \cup {0}
  BY <1>1, ChStays DEF DlLinked
<1>14. DlIn(o.head, o.prev, o.next, l, n, pv, nx)
  <2>1. ASSUME NEW x \in ChRange(l) PROVE x \in LcN /\ x # n
    BY <1>1, ElementOfSeq DEF ChRange
  <2>2. o.head # n
    BY <1>13, LcConstants
  <2> QED
    BY <1>4, <1>9, <1>10, <2>1, <2>2 DEF DlIn, LcStored
<1>15. DlLinked(d.head, d.tail, d.prev, d.next, ChPush(l, n))
  BY <1>1, <1>11, <1>14, LcConstants, DlPush
<1>16. ChDistinct(ChPush(l, n)) /\ ChPush(l, n) \in Seq(LcN)
  BY <1>1, ChPushRange, ChPushed
<1> QED
  BY <1>11, <1>12, <1>15, <1>16 DEF LcChanged, LcLink

\* moveToHead.
LEMMA LcMoves ==
  ASSUME NEW o, NEW l, NEW lv, LcUse(o, l, lv), NEW n \in lv, NEW d, d = Lru!moveToHead(o, n)
  PROVE  (\E w : LcUse(d, w, lv)) /\ d.size = o.size /\ d.capacity = o.capacity
<1>1. LcLink(o, l) /\ ChRange(l) = lv /\ o.size = Len(l) /\ l \in Seq(LcN) /\ ChDistinct(l)
  BY DEF LcUse, LcLink
<1>2. PICK k \in 1 .. Len(l) : n = l[k]
  BY <1>1 DEF ChRange
<1>3. PICK m : m = Lru!removeNode(o, n)
  OBVIOUS
<1>4. PICK t : t = ChDrop(l, k)
  OBVIOUS
<1>5. LcChanged(o, m, t)
  BY <1>1, <1>2, <1>3, <1>4, LcRemoves
<1>6. /\ ChRange(t) = ChRange(l) \ {n} /\ Len(t) = Len(l) - 1 /\ t \in Seq(LcN) /\ ChDistinct(t)
      /\ Len(l) \in Nat
  BY <1>1, <1>2, <1>4, ChDropRange, ChDropped, LenProperties
<1>7. PICK w : w = ChPush(t, n)
  OBVIOUS
<1>8. n \in LcN /\ n \notin ChRange(t)
  BY <1>1, <1>2, <1>6, ElementOfSeq
<1>9. d = Lru!addToHead(m, n)
  BY <1>3 DEF Lru!moveToHead
<1>10. LcLink(m, t)
  BY <1>5 DEF LcChanged
<1>11. LcChanged(m, d, w)
  BY <1>7, <1>8, <1>9, <1>10, LcAdds
<1>12. ChRange(w) = lv /\ Len(w) = Len(l)
  <2>1. ChRange(w) = ChRange(t) \cup {n}
    BY <1>6, <1>7, <1>8, ChPushRange
  <2>2. Len(w) = Len(t) + 1
    BY <1>6, <1>7, <1>8, ChPushed
  <2> QED
    BY <1>1, <1>6, <2>1, <2>2
<1>13. LcUse(d, w, lv)
  BY <1>1, <1>5, <1>11, <1>12 DEF LcChanged, LcUse
<1> QED
  BY <1>5, <1>11, <1>13 DEF LcChanged

\* hashGet: the node of the key, if the table has an entry for the key.
LEMMA LcGet ==
  ASSUME LcTable(node, hashTable, live), NEW k \in LruKeys
  PROVE  \/ /\ Lru!hashGet(k) = 0
            /\ \A i \in 1 .. Len(hashTable[LcBucket(k)]) : hashTable[LcBucket(k)][i].key # k
         \/ Lru!hashGet(k) # 0 /\ Lru!hashGet(k) \in live
<1>1. PICK s : s = hashTable[LcBucket(k)]
  OBVIOUS
<1>2. LcBucket(k) \in LcBuckets /\ Lru!hash(k) = LcBucket(k)
  BY LcConstants
<1>3. s \in Seq(LcEntry) /\ \A i \in 1 .. Len(s) : s[i].node \in live /\ s[i] \in LcEntry
  <2>1. s \in Seq(LcEntry) /\ \A i \in 1 .. Len(s) : s[i].node \in live
    BY <1>1, <1>2 DEF LcTable, LcOwn
  <2> QED
    BY <2>1, ElementOfSeq
<1>4. DOMAIN s = 1 .. Len(s) /\ Len(s) \in Nat
  BY <1>3, LenProperties
<1>5. PICK K : K = Lru!Hits(s, k)
  OBVIOUS
<1>6. K = {i \in 1 .. Len(s) : s[i].key = k}
  BY <1>4, <1>5 DEF Lru!Hits
<1>7. Lru!hashGet(k) = IF K = {} THEN 0 ELSE s[Lru!Min(K)].node
  BY <1>1, <1>2, <1>5, LcConstants DEF Lru!hashGet
<1>8. CASE K = {}
  BY <1>1, <1>6, <1>7, <1>8
<1>9. CASE K # {}
  <2>1. K \subseteq Nat
    BY <1>4, <1>6
  <2>2. Lru!Min(K) \in K
    BY <1>9, <2>1, LeastNumber DEF Lru!Min
  <2>3. PICK i \in 1 .. Len(s) : Lru!Min(K) = i
    BY <1>6, <2>2
  <2>4. Lru!hashGet(k) = s[i].node /\ s[i].node \in LcN
    BY <1>3, <1>7, <1>9, <2>3 DEF LcEntry
  <2> QED
    BY <1>3, <2>3, <2>4, LcConstants
<1> QED
  BY <1>8, <1>9

\* Nothing of the table changes.
LEMMA LcSame ==
  ASSUME NEW nd, NEW T, NEW lv, LcTable(nd, T, lv), NEW nd2, \A n \in lv : nd2[n].key = nd[n].key
  PROVE  LcTable(nd2, T, lv)
BY DEF LcTable, LcOwn

\* hashPut, of a node that is new.
LEMMA LcPuts ==
  ASSUME NEW nd, NEW T, NEW lv, LcTable(nd, T, lv), NEW n \in LcN, NEW k \in LruKeys,
         \A i \in 1 .. Len(T[LcBucket(k)]) : T[LcBucket(k)][i].key # k,
         NEW nd2, nd2[n].key = k, \A m \in lv : nd2[m].key = nd[m].key
  PROVE  LcTable(nd2, Lru!hashPut(T, k, n), lv \cup {n})
<1>1. PICK h : h = LcBucket(k)
  OBVIOUS
<1>2. h \in LcBuckets /\ Lru!hash(k) = h
  BY <1>1, LcConstants
<1>3. PICK s : s = T[h]
  OBVIOUS
<1>4. T \in [LcBuckets -> Seq(LcEntry)] /\ s \in Seq(LcEntry)
  BY <1>2, <1>3 DEF LcTable
<1>5. PICK e : e = [key |-> k, node |-> n]
  OBVIOUS
<1>6. e \in LcEntry /\ e.key = k /\ e.node = n
  BY <1>5 DEF LcEntry
<1>7. PICK t : t = <<e>> \o s
  OBVIOUS
<1>8. PICK U : U = [T EXCEPT ![h] = t]
  OBVIOUS
<1>9. Lru!hashPut(T, k, n) = U
  BY <1>2, <1>3, <1>5, <1>7, <1>8 DEF Lru!hashPut
<1>10. /\ Len(s) \in Nat /\ t \in Seq(LcEntry) /\ Len(t) = Len(s) + 1 /\ t[1] = e
       /\ 1 \in 1 .. Len(t)
       /\ \A j \in 1 .. Len(s) : j + 1 \in 1 .. Len(t) /\ t[j + 1] = s[j]
       /\ \A j \in 1 .. Len(t) : j = 1 \/ (j - 1 \in 1 .. Len(s) /\ t[j] = s[j - 1])
  <2>1. <<e>> \in Seq(LcEntry) /\ Len(<<e>>) = 1 /\ <<e>>[1] = e
    BY <1>6
  <2>2. /\ <<e>> \o s \in Seq(LcEntry) /\ Len(<<e>> \o s) = Len(<<e>>) + Len(s)
        /\ \A j \in 1 .. Len(<<e>>) + Len(s) :
             (<<e>> \o s)[j] = IF j <= Len(<<e>>) THEN <<e>>[j] ELSE s[j - Len(<<e>>)]
    BY ONLY <1>4, <2>1, ConcatProperties
  <2>3. Len(s) \in Nat
    BY <1>4, LenProperties
  <2>4. /\ t \in Seq(LcEntry) /\ Len(t) = 1 + Len(s)
        /\ \A j \in 1 .. 1 + Len(s) : t[j] = IF j <= 1 THEN <<e>>[j] ELSE s[j - 1]
    BY <1>7, <2>1, <2>2
  <2>5. ASSUME NEW j \in 1 .. Len(s) PROVE j + 1 \in 1 .. Len(t) /\ t[j + 1] = s[j]
    <3>1. j + 1 \in 1 .. 1 + Len(s) /\ ~(j + 1 <= 1) /\ (j + 1) - 1 = j
      BY <2>3
    <3> QED
      BY <2>4, <3>1
  <2>6. ASSUME NEW j \in 1 .. Len(t), j # 1 PROVE j - 1 \in 1 .. Len(s) /\ t[j] = s[j - 1]
    <3>1. j \in 1 .. 1 + Len(s) /\ ~(j <= 1) /\ j - 1 \in 1 .. Len(s)
      BY <2>3, <2>4, <2>6
    <3> QED
      BY <2>4, <3>1
  <2>7. 1 \in 1 .. Len(t) /\ t[1] = e
    BY <2>1, <2>3, <2>4
  <2> QED
    BY <2>3, <2>4, <2>5, <2>6, <2>7
<1>11. U \in [LcBuckets -> Seq(LcEntry)] /\ U[h] = t /\ \A b \in LcBuckets : b # h => U[b] = T[b]
  BY <1>2, <1>4, <1>8, <1>10
<1>12. ASSUME NEW b \in LcBuckets, NEW i \in 1 .. Len(T[b])
       PROVE  T[b][i] \in LcEntry /\ LcOwn(b, T[b][i], nd2, lv \cup {n})
  <2>1. T[b] \in Seq(LcEntry) /\ LcOwn(b, T[b][i], nd, lv)
    BY DEF LcTable
  <2>2. T[b][i] \in LcEntry
    BY <2>1, ElementOfSeq
  <2> QED
    BY <2>1, <2>2 DEF LcOwn
<1>13. LcOwn(h, e, nd2, lv \cup {n})
  BY <1>1, <1>6 DEF LcOwn
<1>14. ASSUME NEW b \in LcBuckets, NEW i \in 1 .. Len(U[b])
       PROVE  LcOwn(b, U[b][i], nd2, lv \cup {n})
  <2>1. CASE b # h
    BY <1>11, <1>12, <2>1
  <2>2. CASE b = h /\ i = 1
    BY <1>10, <1>11, <1>13, <2>2
  <2>3. CASE b = h /\ i # 1
    <3>1. i - 1 \in 1 .. Len(T[b]) /\ U[b][i] = T[b][i - 1]
      BY <1>3, <1>10, <1>11, <2>3
    <3> QED
      BY <1>12, <3>1
  <2> QED
    BY <2>1, <2>2, <2>3
<1>15. ASSUME NEW b \in LcBuckets PROVE LcApart(U[b])
  <2>1. CASE b # h
    BY <1>11, <2>1 DEF LcTable
  <2>2. CASE b = h
    <3>1. LcApart(s)
      BY <1>2, <1>3 DEF LcTable
    <3>2. ASSUME NEW i \in 1 .. Len(t), NEW j \in 1 .. Len(t), t[i].key = t[j].key
          PROVE  i = j
      <4>1. \A m \in 1 .. Len(s) : s[m].key # e.key
        BY <1>1, <1>3, <1>6
      <4>2. CASE i = 1 \/ j = 1
        BY <1>10, <3>2, <4>1, <4>2
      <4>3. CASE i # 1 /\ j # 1
        <5>1. /\ i - 1 \in 1 .. Len(s) /\ j - 1 \in 1 .. Len(s)
              /\ s[i - 1].key = s[j - 1].key
          BY <1>10, <3>2, <4>3
        <5>2. i - 1 = j - 1
          BY <3>1, <5>1 DEF LcApart
        <5> QED
          BY <5>2
      <4> QED
        BY <4>2, <4>3
    <3> QED
      BY <1>11, <2>2, <3>2 DEF LcApart
  <2> QED
    BY <2>1, <2>2
<1>16. ASSUME NEW m \in lv \cup {n} PROVE LcFound(U, m)
  <2>1. CASE m = n
    <3>1. 1 \in 1 .. Len(U[h]) /\ U[h][1].node = m
      BY <1>6, <1>10, <1>11, <2>1
    <3> QED
      BY <1>2, <3>1 DEF LcFound
  <2>2. CASE m # n
    <3>1. PICK b \in LcBuckets : \E i \in 1 .. Len(T[b]) : T[b][i].node = m
      BY <2>2 DEF LcTable, LcFound
    <3>2. PICK i \in 1 .. Len(T[b]) : T[b][i].node = m
      BY <3>1
    <3>3. CASE b # h
      BY <1>11, <3>2, <3>3 DEF LcFound
    <3>4. CASE b = h
      <4>1. i + 1 \in 1 .. Len(U[h]) /\ U[h][i + 1].node = m
        BY <1>3, <1>10, <1>11, <3>2, <3>4
      <4> QED
        BY <1>2, <4>1 DEF LcFound
    <3> QED
      BY <3>3, <3>4
  <2> QED
    BY <2>1, <2>2
<1> QED
  BY <1>9, <1>11, <1>14, <1>15, <1>16 DEF LcTable

\* hashRemove, of the key of a node: its one entry goes.
LEMMA LcDrops ==
  ASSUME NEW nd, NEW T, NEW lv, LcTable(nd, T, lv), NEW n \in lv, NEW k, k = nd[n].key,
         NEW nd2, \A m \in lv \ {n} : nd2[m].key = nd[m].key
  PROVE  LcTable(nd2, Lru!hashRemove(T, k), lv \ {n})
<1>1. PICK h \in LcBuckets : \E i \in 1 .. Len(T[h]) : T[h][i].node = n
  BY DEF LcTable, LcFound
<1>2. PICK g \in 1 .. Len(T[h]) : T[h][g].node = n
  BY <1>1
<1>3. PICK s : s = T[h]
  OBVIOUS
<1>4. T \in [LcBuckets -> Seq(LcEntry)] /\ s \in Seq(LcEntry) /\ LcApart(s)
  BY <1>3 DEF LcTable
<1>5. Len(s) \in Nat /\ DOMAIN s = 1 .. Len(s) /\ g \in 1 .. Len(s) /\ s[g] \in LcEntry
  <2>1. g \in 1 .. Len(s)
    BY <1>2, <1>3
  <2> QED
    BY <1>4, <2>1, LenProperties, ElementOfSeq
<1>6. s[g].key = k /\ s[g].node = n /\ LcBucket(k) = h
  <2>1. LcOwn(h, T[h][g], nd, lv)
    BY <1>2 DEF LcTable
  <2> QED
    BY <1>2, <1>3, <2>1 DEF LcOwn
<1>7. k \in LruKeys /\ Lru!hash(k) = h
  <2>1. k \in LruKeys
    BY <1>5, <1>6 DEF LcEntry
  <2> QED
    BY <1>6, <2>1, LcConstants
<1>8. Lru!Hits(s, k) = {g}
  <2>1. ASSUME NEW i \in 1 .. Len(s), s[i].key = k PROVE i = g
    BY <1>4, <1>5, <1>6, <2>1 DEF LcApart
  <2> QED
    BY <1>5, <1>6, <2>1 DEF Lru!Hits
<1>9. Lru!Min({g}) = g
  <2>1. {g} \subseteq Nat /\ {g} # {}
    BY <1>5
  <2>2. Lru!Min({g}) \in {g}
    BY <2>1, LeastNumber DEF Lru!Min
  <2> QED
    BY <2>2
<1>10. PICK t : t = ChDrop(s, g)
  OBVIOUS
<1>11. PICK U : U = [T EXCEPT ![h] = t]
  OBVIOUS
<1>12. Lru!hashRemove(T, k) = U
  <2>1. Lru!RemoveAt(s, g) = t
    BY <1>4, <1>5, <1>10, ChRemoveAt
  <2>2. Lru!hashRemove(T, k) =
          [T EXCEPT ![h] = IF Lru!Hits(T[h], k) = {} THEN T[h]
                           ELSE Lru!RemoveAt(T[h], Lru!Min(Lru!Hits(T[h], k)))]
    BY <1>4, <1>7 DEF Lru!hashRemove
  <2>3. Lru!Hits(T[h], k) = {g} /\ Lru!Hits(T[h], k) # {}
    BY <1>3, <1>8
  <2>4. Lru!hashRemove(T, k) = [T EXCEPT ![h] = Lru!RemoveAt(s, g)]
    BY <1>3, <1>9, <2>2, <2>3
  <2> QED
    BY <1>11, <2>1, <2>4
<1>13. ChIsDrop(LcEntry, s, g, t)
  BY <1>4, <1>5, <1>10, ChDropPlaces
<1>14. /\ t \in Seq(LcEntry)
       /\ \A j \in 1 .. Len(t) : /\ ChOld(g, j) \in 1 .. Len(s) /\ ChOld(g, j) # g
                                 /\ t[j] = s[ChOld(g, j)]
       /\ \A i \in 1 .. Len(s) : i # g => \E j \in 1 .. Len(t) : i = ChOld(g, j) /\ t[j] = s[i]
  BY <1>13 DEF ChIsDrop
<1>15. U \in [LcBuckets -> Seq(LcEntry)] /\ U[h] = t /\ \A b \in LcBuckets : b # h => U[b] = T[b]
  BY <1>4, <1>11, <1>14
\* No other entry has the node.
<1>16. ASSUME NEW b \in LcBuckets, NEW i \in 1 .. Len(T[b]), ~(b = h /\ i = g)
       PROVE  LcOwn(b, T[b][i], nd2, lv \ {n})
  <2>1. LcOwn(b, T[b][i], nd, lv)
    BY DEF LcTable
  <2>2. ASSUME T[b][i].node = n PROVE FALSE
    <3>1. T[b][i].key = k /\ b = h
      BY <1>6, <2>1, <2>2 DEF LcOwn
    <3>2. i \in 1 .. Len(s) /\ s[i].key = s[g].key
      BY <1>3, <1>6, <3>1
    <3>3. i = g
      BY <1>4, <1>5, <3>2 DEF LcApart
    <3> QED
      BY <1>16, <3>1, <3>3
  <2> QED
    BY <2>1, <2>2 DEF LcOwn
<1>17. ASSUME NEW b \in LcBuckets, NEW i \in 1 .. Len(U[b])
       PROVE  LcOwn(b, U[b][i], nd2, lv \ {n})
  <2>1. CASE b # h
    BY <1>15, <1>16, <2>1
  <2>2. CASE b = h
    <3>1. i \in 1 .. Len(t) /\ U[b][i] = t[i]
      BY <1>15, <2>2
    <3>2. PICK j : j = ChOld(g, i)
      OBVIOUS
    <3>3. j \in 1 .. Len(T[b]) /\ j # g /\ U[b][i] = T[b][j]
      BY <1>3, <1>14, <2>2, <3>1, <3>2
    <3> QED
      BY <1>16, <3>3
  <2> QED
    BY <2>1, <2>2
<1>18. ASSUME NEW b \in LcBuckets PROVE LcApart(U[b])
  <2>1. CASE b # h
    BY <1>15, <2>1 DEF LcTable
  <2>2. CASE b = h
    <3>1. ASSUME NEW i \in 1 .. Len(t), NEW j \in 1 .. Len(t), t[i].key = t[j].key
          PROVE  i = j
      <4>1. /\ ChOld(g, i) \in 1 .. Len(s) /\ ChOld(g, j) \in 1 .. Len(s)
            /\ s[ChOld(g, i)].key = s[ChOld(g, j)].key
        BY <1>14, <3>1
      <4>2. ChOld(g, i) = ChOld(g, j)
        BY <1>4, <4>1 DEF LcApart
      <4>3. g \in Int /\ i \in Int /\ j \in Int
        OBVIOUS
      <4> QED
        BY ONLY <4>2, <4>3 DEF ChOld
    <3> QED
      BY <1>15, <2>2, <3>1 DEF LcApart
  <2> QED
    BY <2>1, <2>2
<1>19. ASSUME NEW m \in lv \ {n} PROVE LcFound(U, m)
  <2>1. PICK b \in LcBuckets : \E i \in 1 .. Len(T[b]) : T[b][i].node = m
    BY DEF LcTable, LcFound
  <2>2. PICK i \in 1 .. Len(T[b]) : T[b][i].node = m
    BY <2>1
  <2>3. CASE b # h
    BY <1>15, <2>2, <2>3 DEF LcFound
  <2>4. CASE b = h
    <3>1. i \in 1 .. Len(s) /\ i # g
      BY <1>3, <1>6, <2>2, <2>4
    <3>2. PICK j \in 1 .. Len(t) : t[j] = s[i]
      BY <1>14, <3>1
    <3>3. j \in 1 .. Len(U[h]) /\ U[h][j].node = m
      BY <1>3, <1>15, <2>2, <2>4, <3>2
    <3> QED
      BY <3>3 DEF LcFound
  <2> QED
    BY <2>3, <2>4
<1> QED
  BY <1>12, <1>15, <1>17, <1>18, <1>19 DEF LcTable

\* A new node is linked and counted.
LcIsMore(o, d, w, lv) ==
  LcUse(d, w, lv) /\ d.size = o.size + 1 /\ o.size \in Nat /\ d.capacity = o.capacity

LEMMA LcLinksNew ==
  ASSUME NEW o, NEW l, NEW lv, LcUse(o, l, lv), NEW n \in LcN, n \notin lv,
         NEW d, d = [Lru!addToHead(o, n) EXCEPT !.size = @ + 1]
  PROVE  LcIsMore(o, d, ChPush(l, n), lv \cup {n})
<1>1. /\ LcLink(o, l) /\ ChRange(l) = lv /\ o.size = Len(l) /\ l \in Seq(LcN) /\ ChDistinct(l)
      /\ o \in LcLists
  BY DEF LcUse, LcLink
<1>2. PICK m : m = Lru!addToHead(o, n)
  OBVIOUS
<1>3. PICK w : w = ChPush(l, n)
  OBVIOUS
<1>4. LcChanged(o, m, w)
  BY <1>1, <1>2, <1>3, LcAdds
<1>5. /\ m \in LcLists /\ m.size = o.size /\ m.capacity = o.capacity /\ w \in Seq(LcN)
      /\ ChDistinct(w) /\ DlLinked(m.head, m.tail, m.prev, m.next, w)
  BY <1>4 DEF LcChanged, LcLink
<1>6. d = [m EXCEPT !.size = @ + 1]
  BY <1>2
<1>7. /\ d \in LcLists /\ d.size = o.size + 1 /\ o.size \in Nat /\ d.capacity = o.capacity
      /\ d.head = m.head /\ d.tail = m.tail /\ d.prev = m.prev /\ d.next = m.next
  <2>1. PICK f1, f2, f3, f4, f5, f6 :
          /\ f1 = m.capacity /\ f2 = m.size /\ f3 = m.head /\ f4 = m.tail
          /\ f5 = m.prev /\ f6 = m.next
    OBVIOUS
  <2>2. m = [capacity |-> f1, size |-> f2, head |-> f3, tail |-> f4, prev |-> f5, next |-> f6]
    BY <1>5, <2>1 DEF LcLists
  <2>3. d = [capacity |-> f1, size |-> f2 + 1, head |-> f3, tail |-> f4, prev |-> f5, next |-> f6]
    BY ONLY <1>6, <2>2
  <2>4. /\ f1 \in Nat /\ f2 \in Nat /\ f2 + 1 \in Nat /\ f3 \in LcPointer /\ f4 \in LcPointer
        /\ f5 \in [LcN -> LcPointer] /\ f6 \in [LcN -> LcPointer]
    BY <1>5, <2>1 DEF LcLists
  <2>5. d \in LcLists
    <3>1. PICK x \in Nat : x = f2 + 1
      BY <2>4
    <3>2. d = [capacity |-> f1, size |-> x, head |-> f3, tail |-> f4, prev |-> f5, next |-> f6]
      BY <2>3, <3>1
    <3> QED
      BY ONLY <2>4, <3>2, x \in Nat DEF LcLists
  <2> QED
    BY <1>5, <2>1, <2>3, <2>4, <2>5
<1>8. ChRange(w) = lv \cup {n}
  BY <1>1, <1>3, ChPushRange
<1>9. Len(w) = Len(l) + 1
  BY <1>1, <1>3, ChPushed
<1> QED
  BY <1>1, <1>3, <1>5, <1>7, <1>8, <1>9 DEF LcIsMore, LcUse, LcLink

\* The last node is linked past, freed and no longer counted.
LcIsLess(o, d, lv, n) ==
  /\ n \in lv /\ \E w : LcUse(d, w, lv \ {n})
  /\ d.size = o.size - 1 /\ o.size \in Nat /\ d.capacity = o.capacity

LEMMA LcUnlinksLast ==
  ASSUME NEW o, NEW l, NEW lv, LcUse(o, l, lv), lv # {},
         NEW n, n = o.tail,
         NEW d, d = [Lru!Forget(Lru!removeTail(o), n) EXCEPT !.size = @ - 1]
  PROVE  LcIsLess(o, d, lv, n)
<1>1. /\ LcLink(o, l) /\ ChRange(l) = lv /\ o.size = Len(l) /\ l \in Seq(LcN) /\ ChDistinct(l)
      /\ o \in LcLists /\ DlLinked(o.head, o.tail, o.prev, o.next, l)
  BY DEF LcUse, LcLink
<1>2. Len(l) \in Nat /\ Len(l) # 0 /\ Len(l) \in 1 .. Len(l)
  <2>1. Len(l) \in Nat
    BY <1>1, LenProperties
  <2>2. Len(l) # 0
    BY <1>1, <2>1 DEF ChRange
  <2> QED
    BY <2>1, <2>2
<1>3. PICK k \in 1 .. Len(l) : k = Len(l)
  BY <1>2
<1>4. n = l[k] /\ n \in lv /\ n \in LcN
  <2>1. n = l[k]
    BY <1>1, <1>2, <1>3 DEF DlLinked, ChLast
  <2> QED
    BY <1>1, <2>1, ElementOfSeq DEF ChRange
<1>5. PICK m : m = Lru!removeTail(o)
  OBVIOUS
<1>6. PICK w : w = ChDrop(l, k)
  OBVIOUS
<1>7. LcChanged(o, m, w)
  BY <1>1, <1>4, <1>5, <1>6, LcRemoves DEF Lru!removeTail
<1>8. /\ m \in LcLists /\ m.size = o.size /\ m.capacity = o.capacity /\ w \in Seq(LcN)
      /\ ChDistinct(w) /\ DlLinked(m.head, m.tail, m.prev, m.next, w)
  BY <1>7 DEF LcChanged, LcLink
<1>9. ChRange(w) = lv \ {n}
  BY <1>1, <1>4, <1>6, ChDropRange
<1>10. Len(w) = Len(l) - 1
  BY <1>1, <1>6, ChDropped
<1>11. d = [[m EXCEPT !.prev[n] = 0, !.next[n] = 0] EXCEPT !.size = @ - 1]
  BY <1>5, LcConstants DEF Lru!Forget
<1>12. PICK f1, f2, f3, f4, f5, f6 :
        /\ f1 = m.capacity /\ f2 = m.size /\ f3 = m.head /\ f4 = m.tail
        /\ f5 = m.prev /\ f6 = m.next
  OBVIOUS
<1>13. m = [capacity |-> f1, size |-> f2, head |-> f3, tail |-> f4, prev |-> f5, next |-> f6]
  BY <1>8, <1>12 DEF LcLists
<1>14. d = [capacity |-> f1, size |-> f2 - 1, head |-> f3, tail |-> f4,
            prev |-> [f5 EXCEPT ![n] = 0], next |-> [f6 EXCEPT ![n] = 0]]
  BY ONLY <1>11, <1>13
<1>15. /\ f1 \in Nat /\ f2 = Len(l) /\ f3 \in LcPointer /\ f4 \in LcPointer
       /\ f5 \in [LcN -> LcPointer] /\ f6 \in [LcN -> LcPointer] /\ 0 \in LcPointer
  BY <1>1, <1>8, <1>12 DEF LcLists, LcPointer
<1>16. f2 - 1 \in Nat
  BY <1>2, <1>15
<1>17. d \in LcLists
  BY <1>14, <1>15, <1>16 DEF LcLists
<1>18. /\ d.size = o.size - 1 /\ d.capacity = o.capacity /\ d.head = m.head /\ d.tail = m.tail
       /\ \A x \in LcN : x # n => d.prev[x] = m.prev[x] /\ d.next[x] = m.next[x]
  BY <1>1, <1>8, <1>12, <1>14, <1>15
<1>19. DlLinked(d.head, d.tail, d.prev, d.next, w)
  <2>1. ASSUME NEW x \in ChRange(w) PROVE d.prev[x] = m.prev[x] /\ d.next[x] = m.next[x]
    <3>1. x \in LcN /\ x # n
      <4>1. PICK j \in 1 .. Len(l) : x = l[j]
        BY <1>1, <1>9 DEF ChRange
      <4> QED
        BY <1>1, <1>9, <4>1, ElementOfSeq
    <3> QED
      BY <1>18, <3>1
  <2>2. ChLinked(m.next, d.head, w)
    BY <1>8, <1>18 DEF DlLinked
  <2>3. ChLinked(d.next, d.head, w)
    BY <2>1, <2>2, ChLinkedSame
  <2>4. \A j \in 1 .. Len(w) : w[j] \in ChRange(w)
    BY DEF ChRange
  <2> QED
    BY <1>8, <1>18, <2>1, <2>3, <2>4 DEF DlLinked
<1>20. LcUse(d, w, lv \ {n})
  BY <1>1, <1>8, <1>9, <1>10, <1>17, <1>18, <1>19 DEF LcUse, LcLink
<1> QED
  BY <1>1, <1>2, <1>4, <1>18, <1>20 DEF LcIsLess

LEMMA LcStarts == Lru!Init => LcInv
<1> SUFFICES ASSUME Lru!Init PROVE LcInv
  OBVIOUS
<1>1. PICK c \in LruCapacities :
        obj = [capacity |-> c, size |-> 0, head |-> 0, tail |-> 0,
               prev |-> [n \in LcN |-> 0], next |-> [n \in LcN |-> 0]]
  BY LcConstants DEF Lru!Init, Lru!NoLinks
<1>2. LcUse(obj, <<>>, {})
  <2>1. <<>> \in Seq(LcN) /\ Len(<<>>) = 0 /\ ChDistinct(<<>>) /\ ChRange(<<>>) = {}
    BY DEF ChDistinct, ChRange
  <2>2. c \in Nat /\ 0 \in LcPointer /\ [n \in LcN |-> 0] \in [LcN -> LcPointer]
    BY LcConstants DEF LcPointer
  <2>3. obj \in LcLists
    BY <1>1, <2>2 DEF LcLists
  <2>4. DlLinked(0, 0, [n \in LcN |-> 0], [n \in LcN |-> 0], <<>>)
    BY <2>1 DEF DlLinked, ChLinked, ChFirst, ChLast
  <2> QED
    BY <1>1, <2>1, <2>3, <2>4 DEF LcUse, LcLink
<1>3. live = {} /\ node \in LcNodes
  BY LcConstants DEF Lru!Init, Lru!Unset, LcNodes
<1>4. LcTable(node, hashTable, {})
  <2>1. hashTable = [b \in LcBuckets |-> <<>>]
    BY LcConstants DEF Lru!Init
  <2>2. \A b \in LcBuckets : hashTable[b] = <<>> /\ Len(hashTable[b]) = 0
    BY <2>1
  <2>3. hashTable \in [LcBuckets -> Seq(LcEntry)]
    BY <2>1
  <2> QED
    BY <2>2, <2>3 DEF LcTable, LcApart
<1>5. obj.capacity \in LruCapacities /\ obj.size <= obj.capacity
  BY <1>1, LcConstants
<1> QED
  BY <1>2, <1>3, <1>4, <1>5 DEF LcInv, LcSound

\* There is memory for one node more.
LEMMA LcRoom ==
  ASSUME LcInv
  PROVE  Lru!Min(LcN \ live) \in LcN \ live
<1>1. PICK l : LcUse(obj, l, live)
  BY DEF LcInv, LcSound
<1>2. l \in Seq(LcN) /\ ChDistinct(l) /\ ChRange(l) = live /\ obj.size = Len(l)
  BY <1>1 DEF LcUse, LcLink
<1>3. Len(l) \in Nat /\ Cardinality(live) = Len(l)
  BY <1>2, ChCount
<1>4. Len(l) + 1 <= LruNodes
  <2>1. obj.capacity \in Nat /\ obj.capacity + 1 <= LruNodes /\ Len(l) <= obj.capacity
    BY <1>2, LcConstants DEF LcInv
  <2> QED
    BY <1>3, <2>1, LcConstants
<1>5. live \subseteq LcN
  BY DEF LcInv, LcSound
<1>6. LcN \ live # {}
  <2>1. SUFFICES ASSUME LcN \ live = {} PROVE FALSE
    OBVIOUS
  <2>2. live = LcN
    BY <1>5, <2>1
  <2>3. Len(l) = LruNodes
    BY <1>3, <2>2, LcConstants
  <2> QED
    BY <1>3, <1>4, <2>3
<1>7. LcN \ live \subseteq Nat
  BY LcConstants DEF LcN
<1> QED
  BY <1>6, <1>7, LeastNumber DEF Lru!Min

\* A new node, and the last one out if there are too many.
LEMMA LcInserts ==
  ASSUME LcInv, NEW k \in LruKeys, NEW v \in LruValues, Lru!Insert(k, v)
  PROVE  LcInv'
<1>1. PICK n : n = Lru!Min(LcN \ live)
  OBVIOUS
<1>2. n \in LcN /\ n \notin live
  BY <1>1, LcRoom
<1>3. PICK l : LcUse(obj, l, live)
  BY DEF LcInv, LcSound
<1>4. /\ node \in LcNodes /\ live \subseteq LcN /\ LcTable(node, hashTable, live)
      /\ obj.capacity \in LruCapacities /\ obj.size <= obj.capacity
  BY DEF LcInv, LcSound
<1>5. PICK a : a = [Lru!addToHead(obj, n) EXCEPT !.size = @ + 1]
  OBVIOUS
<1>6. PICK T : T = Lru!hashPut(hashTable, k, n)
  OBVIOUS
<1>7. PICK nd : nd = [node EXCEPT ![n] = Lru!createNode(k, v)]
  OBVIOUS
<1>8. PICK old : old = a.tail
  OBVIOUS
<1>9. Lru!hashGet(k) = 0
  BY LcConstants DEF Lru!Insert
<1>10. /\ Lru!OverFull(a) => /\ obj' = [Lru!Forget(Lru!removeTail(a), old) EXCEPT !.size = @ - 1]
                             /\ hashTable' = Lru!hashRemove(T, nd[old].key)
                             /\ node' = [nd EXCEPT ![old] = Lru!Unset]
                             /\ live' = (live \cup {n}) \ {old}
       /\ ~Lru!OverFull(a) => obj' = a /\ hashTable' = T /\ node' = nd /\ live' = live \cup {n}
  BY <1>1, <1>5, <1>6, <1>7, <1>8, LcConstants DEF Lru!Insert
<1>11. PICK lv : lv = live \cup {n}
  OBVIOUS
<1>12. PICK w : w = ChPush(l, n)
  OBVIOUS
<1>13. /\ LcUse(a, w, lv) /\ a.size = obj.size + 1 /\ obj.size \in Nat
       /\ a.capacity = obj.capacity
  <2>1. LcIsMore(obj, a, w, lv)
    BY <1>2, <1>3, <1>5, <1>11, <1>12, LcLinksNew
  <2> QED
    BY <2>1 DEF LcIsMore
<1>14. k \in Nat /\ v \in Nat /\ obj.capacity \in Nat
  BY <1>4, LcConstants
<1>15. /\ nd \in LcNodes /\ nd[n].key = k /\ \A m \in LcN : m # n => nd[m] = node[m]
  BY <1>2, <1>4, <1>7, <1>14 DEF LcNodes, Lru!createNode
<1>16. LcTable(nd, T, lv)
  <2>1. \A i \in 1 .. Len(hashTable[LcBucket(k)]) : hashTable[LcBucket(k)][i].key # k
    BY <1>4, <1>9, LcGet
  <2>2. \A m \in live : nd[m].key = node[m].key
    BY <1>2, <1>4, <1>15
  <2> QED
    BY <1>2, <1>4, <1>6, <1>11, <1>15, <2>1, <2>2, LcPuts
<1>17. lv \subseteq LcN /\ lv # {}
  BY <1>2, <1>4, <1>11
<1>18. CASE ~Lru!OverFull(a)
  <2>1. obj' = a /\ hashTable' = T /\ node' = nd /\ live' = lv
    BY <1>10, <1>11, <1>18
  <2>2. a.size <= a.capacity
    <3>1. ~(a.size > a.capacity)
      BY <1>18 DEF Lru!OverFull
    <3> QED
      BY <1>13, <1>14, <3>1
  <2>3. LcSound(a, nd, T, lv)
    BY <1>13, <1>15, <1>16, <1>17 DEF LcSound
  <2> QED
    BY <1>4, <1>13, <2>1, <2>2, <2>3 DEF LcInv
<1>19. CASE Lru!OverFull(a)
  <2>1. PICK d : d = [Lru!Forget(Lru!removeTail(a), old) EXCEPT !.size = @ - 1]
    OBVIOUS
  <2>2. PICK U : U = Lru!hashRemove(T, nd[old].key)
    OBVIOUS
  <2>3. PICK nd2 : nd2 = [nd EXCEPT ![old] = Lru!Unset]
    OBVIOUS
  <2>4. obj' = d /\ hashTable' = U /\ node' = nd2 /\ live' = lv \ {old}
    BY <1>10, <1>11, <1>19, <2>1, <2>2, <2>3
  <2>5. /\ old \in lv /\ \E x : LcUse(d, x, lv \ {old})
        /\ d.size = a.size - 1 /\ a.size \in Nat /\ d.capacity = a.capacity
    <3>1. LcIsLess(a, d, lv, old)
      BY <1>8, <1>13, <1>17, <2>1, LcUnlinksLast
    <3> QED
      BY <3>1 DEF LcIsLess
  <2>6. nd2 \in LcNodes /\ \A m \in lv \ {old} : nd2[m].key = nd[m].key
    BY <1>15, <1>17, <2>3 DEF LcNodes, Lru!Unset
  <2>7. LcTable(nd2, U, lv \ {old})
    BY <1>16, <2>2, <2>5, <2>6, LcDrops
  <2>8. d.size <= d.capacity
    <3>1. d.size = obj.size /\ d.capacity = obj.capacity
      BY <1>13, <2>5
    <3> QED
      BY <1>4, <3>1
  <2>9. LcSound(d, nd2, U, lv \ {old})
    BY <1>17, <2>5, <2>6, <2>7 DEF LcSound
  <2> QED
    BY <1>4, <1>13, <2>4, <2>5, <2>8, <2>9 DEF LcInv
<1> QED
  BY <1>18, <1>19

\* Every node is met by the loop that frees them.
LEMMA LcFreed == LcInv => Lru!Freed = live
<1> SUFFICES ASSUME LcInv PROVE Lru!Freed = live
  OBVIOUS
<1>1. PICK l : LcUse(obj, l, live)
  BY DEF LcInv, LcSound
<1>2. /\ l \in Seq(LcN) /\ ChDistinct(l) /\ ChRange(l) = live /\ obj \in LcLists
      /\ ChLinked(obj.next, obj.head, l)
  BY <1>1 DEF LcUse, LcLink, DlLinked
<1>3. obj.next \in [LcN -> LcN \cup {0}]
  BY <1>2 DEF LcLists, LcPointer
<1>4. Lru!Chain(obj.next, obj.head) = l
  BY <1>2, <1>3, LcConstants, ChainIs
<1>5. DOMAIN l = 1 .. Len(l)
  BY <1>2, LenProperties
<1> QED
  BY <1>2, <1>4, <1>5 DEF Lru!Freed, ChRange

LEMMA LcFrees == LcInv /\ Lru!lRUCacheFree => LcInv'
<1> SUFFICES ASSUME LcInv, Lru!lRUCacheFree PROVE LcInv'
  OBVIOUS
<1>1. obj \in LcLists /\ obj.capacity \in LruCapacities /\ node \in LcNodes /\ live \subseteq LcN
  BY DEF LcInv, LcSound, LcUse, LcLink
<1>2. PICK c : c = obj.capacity
  OBVIOUS
<1>3. c \in LruCapacities /\ c \in Nat
  BY <1>1, <1>2, LcConstants
<1>4. obj' = [capacity |-> c, size |-> 0, head |-> 0, tail |-> 0,
              prev |-> [n \in LcN |-> 0], next |-> [n \in LcN |-> 0]]
  <2>1. obj' = [obj EXCEPT !.size = 0, !.head = 0, !.tail = 0,
                           !.prev = [n \in LcN |-> 0], !.next = [n \in LcN |-> 0]]
    BY LcConstants DEF Lru!lRUCacheFree, Lru!NoLinks
  <2> QED
    BY <1>1, <1>2, <2>1 DEF LcLists
<1>5. LcUse(obj', <<>>, {})
  <2>1. <<>> \in Seq(LcN) /\ Len(<<>>) = 0 /\ ChDistinct(<<>>) /\ ChRange(<<>>) = {}
    BY DEF ChDistinct, ChRange
  <2>2. 0 \in LcPointer /\ [n \in LcN |-> 0] \in [LcN -> LcPointer]
    BY DEF LcPointer
  <2>3. obj' \in LcLists
    BY <1>3, <1>4, <2>2 DEF LcLists
  <2>4. DlLinked(0, 0, [n \in LcN |-> 0], [n \in LcN |-> 0], <<>>)
    BY <2>1 DEF DlLinked, ChLinked, ChFirst, ChLast
  <2> QED
    BY <1>4, <2>1, <2>3, <2>4 DEF LcUse, LcLink
<1>6. live' = {}
  BY LcFreed DEF Lru!lRUCacheFree
<1>7. node' \in LcNodes
  BY <1>1, LcConstants DEF Lru!lRUCacheFree, LcNodes, Lru!Unset
<1>8. LcTable(node', hashTable', {})
  <2>1. hashTable' = [b \in LcBuckets |-> <<>>]
    BY LcConstants DEF Lru!lRUCacheFree
  <2>2. PICK T : T = hashTable'
    OBVIOUS
  <2>3. (\A b \in LcBuckets : T[b] = <<>> /\ Len(T[b]) = 0) /\ T \in [LcBuckets -> Seq(LcEntry)]
    BY <2>1, <2>2
  <2>4. LcTable(node', T, {})
    BY <2>3 DEF LcTable, LcApart
  <2> QED
    BY <2>2, <2>4
<1>9. obj.capacity' \in LruCapacities /\ obj.size' <= obj.capacity'
  BY <1>3, <1>4
<1>10. LcSound(obj', node', hashTable', live')
  BY <1>5, <1>6, <1>7, <1>8 DEF LcSound
<1> QED
  BY <1>9, <1>10 DEF LcInv

LEMMA LcStep == LcInv /\ (Lru!Next \/ UNCHANGED linked) => LcInv'
<1> SUFFICES ASSUME LcInv, Lru!Next \/ UNCHANGED linked PROVE LcInv'
  OBVIOUS
<1>1. PICK l : LcUse(obj, l, live)
  BY DEF LcInv, LcSound
<1>2. /\ node \in LcNodes /\ live \subseteq LcN /\ LcTable(node, hashTable, live)
      /\ obj.capacity \in LruCapacities /\ obj.size <= obj.capacity
  BY DEF LcInv, LcSound
<1>3. CASE UNCHANGED <<obj, node, hashTable, live>>
  BY <1>3 DEF LcInv
<1>4. ASSUME NEW n \in live, obj' = Lru!moveToHead(obj, n), UNCHANGED <<hashTable, live>>,
             node' \in LcNodes, \A m \in live : node'[m].key = node[m].key
      PROVE  LcInv'
  <2>1. PICK d : d = obj'
    OBVIOUS
  <2>2. (\E w : LcUse(d, w, live)) /\ d.size = obj.size /\ d.capacity = obj.capacity
    BY <1>1, <1>4, <2>1, LcMoves
  <2>3. LcTable(node', hashTable, live)
    BY <1>2, <1>4, LcSame
  <2>4. LcSound(d, node', hashTable, live)
    BY <1>2, <1>4, <2>2, <2>3 DEF LcSound
  <2> QED
    BY <1>2, <1>4, <2>1, <2>2, <2>4 DEF LcInv
<1>5. ASSUME NEW k \in LruKeys, Lru!hashGet(k) # 0 PROVE Lru!hashGet(k) \in live
  BY <1>2, <1>5, LcGet
<1>6. ASSUME NEW k \in LruKeys, Lru!lRUCacheGet(k) PROVE LcInv'
  <2>1. CASE Lru!Hit(k)
    <3>1. Lru!hashGet(k) \in live
      BY <1>5, <2>1, LcConstants DEF Lru!Hit
    <3>2. obj' = Lru!moveToHead(obj, Lru!hashGet(k)) /\ UNCHANGED <<node, hashTable, live>>
      BY <2>1 DEF Lru!Hit
    <3> QED
      BY <1>2, <1>4, <3>1, <3>2
  <2>2. CASE Lru!Miss(k)
    BY <1>3, <2>2 DEF Lru!Miss
  <2> QED
    BY <1>6, <2>1, <2>2 DEF Lru!lRUCacheGet
<1>7. ASSUME NEW k \in LruKeys, NEW v \in LruValues, Lru!lRUCachePut(k, v) PROVE LcInv'
  <2>1. CASE Lru!Replace(k, v)
    <3>1. PICK n : n = Lru!hashGet(k)
      OBVIOUS
    <3>2. n \in live /\ n \in LcN
      BY <1>2, <1>5, <2>1, <3>1, LcConstants DEF Lru!Replace
    <3>3. /\ obj' = Lru!moveToHead(obj, n) /\ UNCHANGED <<hashTable, live>>
          /\ node' = [node EXCEPT ![n].value = v]
      BY <2>1, <3>1 DEF Lru!Replace
    <3>4. node' \in LcNodes /\ \A m \in live : node'[m].key = node[m].key
      <4>1. v \in Nat
        BY LcConstants
      <4> QED
        BY <1>2, <3>2, <3>3, <4>1 DEF LcNodes
    <3> QED
      BY <1>4, <3>2, <3>3, <3>4
  <2>2. CASE Lru!Insert(k, v)
    BY <2>2, LcInserts
  <2> QED
    BY <1>7, <2>1, <2>2 DEF Lru!lRUCachePut
<1> QED
  BY <1>3, <1>6, <1>7, LcFrees DEF Lru!Next, linked

\* The chain of a bucket is not longer than there are nodes.
LEMMA LcShort ==
  ASSUME NEW nd, NEW T, NEW lv, LcTable(nd, T, lv), NEW b \in LcBuckets, lv \subseteq LcN
  PROVE  Len(T[b]) \in Nat /\ Len(T[b]) <= LruNodes
<1>1. PICK s : s = T[b]
  OBVIOUS
<1>2. s \in Seq(LcEntry) /\ LcApart(s) /\ \A i \in 1 .. Len(s) : LcOwn(b, s[i], nd, lv)
  BY <1>1 DEF LcTable
<1>3. Len(s) \in Nat
  BY <1>2, LenProperties
<1>4. PICK u : u = [i \in 1 .. Len(s) |-> s[i].node]
  OBVIOUS
<1>5. u \in [1 .. Len(s) -> LcN]
  BY <1>2, <1>4 DEF LcOwn
<1>6. u \in Seq(LcN) /\ Len(u) = Len(s)
  BY <1>3, <1>5, ChSeq
<1>7. ChDistinct(u)
  <2>1. ASSUME NEW i \in 1 .. Len(u), NEW j \in 1 .. Len(u), u[i] = u[j] PROVE i = j
    <3>1. i \in 1 .. Len(s) /\ j \in 1 .. Len(s) /\ s[i].node = s[j].node
      BY <1>4, <1>6, <2>1
    <3>2. s[i].key = s[j].key
      BY <1>2, <3>1 DEF LcOwn
    <3> QED
      BY <1>2, <3>1, <3>2 DEF LcApart
  <2> QED
    BY <2>1 DEF ChDistinct
<1>8. Len(u) <= Cardinality(LcN)
  BY <1>6, <1>7, LcConstants, ChShort
<1> QED
  BY <1>1, <1>3, <1>6, <1>8, LcConstants

\* The invariant is enough.
LEMMA LcImplies == LcInv => Lru!Sound
<1> SUFFICES ASSUME LcInv PROVE Lru!Sound
  OBVIOUS
<1>1. PICK l : LcUse(obj, l, live)
  BY DEF LcInv, LcSound
<1>2. /\ l \in Seq(LcN) /\ ChDistinct(l) /\ ChRange(l) = live /\ obj \in LcLists
      /\ DlLinked(obj.head, obj.tail, obj.prev, obj.next, l) /\ obj.size = Len(l)
  BY <1>1 DEF LcUse, LcLink
<1>3. LcTable(node, hashTable, live) /\ live \subseteq LcN
  BY DEF LcInv, LcSound
<1>4. Lru!IsDoublyLinked(obj.head, obj.tail, obj.prev, obj.next, live)
  <2>1. obj.next \in [LcN -> LcN \cup {0}]
    BY <1>2 DEF LcLists, LcPointer
  <2>2. Lru!Chain(obj.next, obj.head) = l
    BY <1>2, <2>1, LcConstants, ChainIs DEF DlLinked
  <2>3. Len(l) \in Nat /\ DOMAIN l = 1 .. Len(l)
    BY <1>2, LenProperties
  <2>4. {l[i] : i \in DOMAIN l} = live
    BY <1>2, <2>3 DEF ChRange
  <2>5. \A i, j \in DOMAIN l : l[i] = l[j] => i = j
    BY <1>2, <2>3 DEF ChDistinct
  <2>6. \A i \in DOMAIN l : obj.prev[l[i]] = IF i = 1 THEN 0 ELSE l[i - 1]
    BY <1>2, <2>3 DEF DlLinked, ChBefore
  <2>7. obj.tail = IF l = <<>> THEN 0 ELSE l[Len(l)]
    <3>1. l = <<>> <=> Len(l) = 0
      BY <1>2, EmptySeq
    <3> QED
      BY <1>2, <3>1 DEF DlLinked, ChLast
  <2> QED
    BY <2>2, <2>4, <2>5, <2>6, <2>7, LcConstants DEF Lru!IsDoublyLinked
<1>5. obj.size = Lru!Cardinality(live)
  BY <1>2, ChCount, ChCardinality
<1>6. ASSUME NEW b \in LcBuckets
      PROVE  /\ Len(hashTable[b]) \in Nat /\ Len(hashTable[b]) <= LruNodes
             /\ DOMAIN hashTable[b] = 1 .. Len(hashTable[b])
  <2>1. Len(hashTable[b]) \in Nat /\ Len(hashTable[b]) <= LruNodes
    BY <1>3, LcShort
  <2>2. hashTable[b] \in Seq(LcEntry)
    BY <1>3 DEF LcTable
  <2> QED
    BY <2>1, <2>2, LenProperties
<1>7. ASSUME NEW b \in LcBuckets, NEW i \in DOMAIN hashTable[b]
      PROVE  /\ hashTable[b][i].node \in live /\ node[hashTable[b][i].node].key = hashTable[b][i].key
             /\ Lru!hash(hashTable[b][i].key) = b
  <2>1. i \in 1 .. Len(hashTable[b])
    BY <1>6
  <2>2. LcOwn(b, hashTable[b][i], node, live)
    BY <1>3, <2>1 DEF LcTable
  <2>3. hashTable[b] \in Seq(LcEntry)
    BY <1>3 DEF LcTable
  <2>4. hashTable[b][i].key \in LruKeys
    <3>1. hashTable[b][i] \in LcEntry
      BY <2>1, <2>3, ElementOfSeq
    <3> QED
      BY <3>1 DEF LcEntry
  <2> QED
    BY <2>2, <2>4, LcConstants DEF LcOwn
<1>8. ASSUME NEW n \in live
      PROVE  Lru!Cardinality({e \in LcBuckets \X (1 .. LruNodes) :
               e[2] \in DOMAIN hashTable[e[1]] /\ hashTable[e[1]][e[2]].node = n}) = 1
  <2>1. PICK b \in LcBuckets : \E i \in 1 .. Len(hashTable[b]) : hashTable[b][i].node = n
    BY <1>3 DEF LcTable, LcFound
  <2>2. PICK i \in 1 .. Len(hashTable[b]) : hashTable[b][i].node = n
    BY <2>1
  <2>3. i \in 1 .. LruNodes /\ i \in DOMAIN hashTable[b]
    BY <1>6, LcConstants
  <2>4. ASSUME NEW c \in LcBuckets, NEW j \in DOMAIN hashTable[c], hashTable[c][j].node = n
        PROVE  c = b /\ j = i
    <3>1. c = b
      BY <1>7, <2>2, <2>3, <2>4
    <3>2. hashTable[b][j].key = hashTable[b][i].key
      BY <1>7, <2>2, <2>3, <2>4, <3>1
    <3>3. LcApart(hashTable[b]) /\ j \in 1 .. Len(hashTable[b])
      BY <1>3, <1>6, <2>4, <3>1 DEF LcTable
    <3> QED
      BY <3>1, <3>2, <3>3 DEF LcApart
  <2>5. {e \in LcBuckets \X (1 .. LruNodes) :
           e[2] \in DOMAIN hashTable[e[1]] /\ hashTable[e[1]][e[2]].node = n} = {<<b, i>>}
    <3>1. ASSUME NEW e \in LcBuckets \X (1 .. LruNodes), e[2] \in DOMAIN hashTable[e[1]],
                 hashTable[e[1]][e[2]].node = n
          PROVE  e = <<b, i>>
      <4>1. e[1] \in LcBuckets /\ e = <<e[1], e[2]>>
        OBVIOUS
      <4>2. e[1] = b /\ e[2] = i
        BY <2>4, <3>1, <4>1
      <4> QED
        BY <4>1, <4>2
    <3>2. <<b, i>> \in LcBuckets \X (1 .. LruNodes) /\ <<b, i>>[1] = b /\ <<b, i>>[2] = i
      BY <2>3
    <3> QED
      BY <2>2, <2>3, <3>1, <3>2
  <2>6. Cardinality({<<b, i>>}) = 1
    BY FS_Singleton
  <2> QED
    BY <2>5, <2>6, ChCardinality
<1> QED
  BY <1>4, <1>5, <1>7, <1>8, LcConstants DEF Lru!Sound
=============================================================================
