--------------------------- MODULE PageReplacement ---------------------------
(***************************************************************************)
(* week 8/Page cache/pageCahe.c: main runs one of three simulations over   *)
(* the requests of pages[].  Here the requests are any, one after the      *)
(* other.  The counts of hits and misses are only printed and left out;    *)
(* counter, which grows by one with every request, is the request's number.*)
(***************************************************************************)
EXTENDS Integers, Sequences, FiniteSets, FiniteSetsExt, SequencesExt

CONSTANTS Pages,        \* what pages[] holds
          MAX_FRAMES,
          MAX_PAGES     \* requests of a simulation

None   == -1            \* an empty frame, and what removeLRU finds in an empty list
Frames == 0 .. MAX_FRAMES - 1

ConstantsOK ==
  MAX_FRAMES \in Nat \ {0} /\ MAX_PAGES \in Nat /\ Pages \subseteq Nat \ {0}

VARIABLES choice,       \* 1 LRU, 2 Clock, 3 ARC
          counter,      \* requests so far
          buffer,       \* the page in each frame (LRU and Clock)
          time,         \* LRU: when each frame was used last
          refBit, pointer,          \* Clock
          T1, T2, B1, B2, p,        \* ARC: resident and ghost lists, target size
          recent        \* history: the pages requested, the last one first

vars == <<choice, counter, buffer, time, refBit, pointer, T1, T2, B1, B2, p, recent>>

TypeOK ==
  /\ choice \in 1 .. 3 /\ counter \in 0 .. MAX_PAGES
  /\ buffer \in [Frames -> Pages \cup {None}]
  /\ time \in [Frames -> -1 .. counter]
  /\ refBit \in [Frames -> {0, 1}] /\ pointer \in Frames
  /\ T1 \in Seq(Pages) /\ T2 \in Seq(Pages) /\ B1 \in Seq(Pages)
  /\ B2 \in Seq(Pages \cup {None})
  /\ p \in 0 .. MAX_FRAMES
  /\ recent \in Seq(Pages)

Init ==
  /\ choice \in 1 .. 3
  /\ counter = 0
  /\ buffer = [f \in Frames |-> None]
  /\ time = [f \in Frames |-> -1]
  /\ refBit = [f \in Frames |-> 0]
  /\ pointer = 0
  /\ T1 = <<>> /\ T2 = <<>> /\ B1 = <<>> /\ B2 = <<>>
  /\ p = 0
  /\ recent = <<>>

contains(list, page) == page \in Range(list)

\* The first node with this page is unlinked, if there is one.
removeNode(list, page) ==
  IF contains(list, page) THEN RemoveAt(list, Min({k \in DOMAIN list : list[k] = page}))
  ELSE list

\* The next request is for this page.
Request(page) ==
  /\ counter < MAX_PAGES
  /\ counter' = counter + 1
  /\ recent' = <<page>> \o removeNode(recent, page)
  /\ UNCHANGED choice
-----------------------------------------------------------------------------
(* simulateLRU                                                             *)

Holding(page) == {f \in Frames : buffer[f] = page}

\* Mutant: a hit does not count as a use.
LruHitForgotten(page) == UNCHANGED <<buffer, time>>

LruHit(page) ==
  time' = [time EXCEPT ![Min(Holding(page))] = counter + 1] /\ UNCHANGED buffer

\* An empty frame, or the first of those used longest ago.
LruFrame ==
  IF Holding(None) # {} THEN Min(Holding(None))
  ELSE Min({f \in Frames : \A g \in Frames : time[f] <= time[g]})

LruMiss(page) ==
  /\ buffer' = [buffer EXCEPT ![LruFrame] = page]
  /\ time' = [time EXCEPT ![LruFrame] = counter + 1]

simulateLRU(page) ==
  /\ choice = 1 /\ Request(page)
  /\ \/ Holding(page) # {} /\ LruHit(page)
     \/ Holding(page) = {} /\ LruMiss(page)
  /\ UNCHANGED <<refBit, pointer, T1, T2, B1, B2, p>>
-----------------------------------------------------------------------------
(* simulateClock                                                           *)

ClockHit(page) ==
  refBit' = [refBit EXCEPT ![Min(Holding(page))] = 1] /\ UNCHANGED <<buffer, pointer>>

At(k) == (pointer + k) % MAX_FRAMES

\* Mutant: the test of the bit is the wrong way round.
PassedInverted ==
  LET set == {k \in 0 .. MAX_FRAMES - 1 : refBit[At(k)] # 0}
  IN  IF set = {} THEN MAX_FRAMES ELSE Min(set)

\* How many frames the hand passes and clears before one whose bit is 0: all
\* of them, back to where it was, if there is none.
Passed ==
  LET clear == {k \in 0 .. MAX_FRAMES - 1 : refBit[At(k)] = 0}
  IN  IF clear = {} THEN MAX_FRAMES ELSE Min(clear)

ClockMiss(page) ==
  /\ buffer' = [buffer EXCEPT ![At(Passed)] = page]
  /\ refBit' = [f \in Frames |-> IF f = At(Passed) THEN 1
                                 ELSE IF \E k \in 0 .. Passed - 1 : f = At(k) THEN 0
                                 ELSE refBit[f]]
  /\ pointer' = At(Passed + 1)

simulateClock(page) ==
  /\ choice = 2 /\ Request(page)
  /\ \/ Holding(page) # {} /\ ClockHit(page)
     \/ Holding(page) = {} /\ ClockMiss(page)
  /\ UNCHANGED <<time, T1, T2, B1, B2, p>>
-----------------------------------------------------------------------------
(* simulateARC                                                             *)

\* What removeLRU returns, and what it leaves.
Oldest(list) == IF list = <<>> THEN None ELSE list[Len(list)]
Younger(list) == IF list = <<>> THEN <<>> ELSE Front(list)

\* The lists after replaceARC, for a target size q.
replaceARC(q) ==
  IF Len(T1) >= 1 /\ (Len(T1) > q \/ (contains(B2, 0) /\ Len(T1) = q))
  THEN [T1 |-> Younger(T1), T2 |-> T2, B1 |-> <<Oldest(T1)>> \o B1, B2 |-> B2]
  ELSE [T1 |-> T1, T2 |-> Younger(T2), B1 |-> B1, B2 |-> <<Oldest(T2)>> \o B2]

ArcHit(page) ==
  /\ contains(T1, page) \/ contains(T2, page)
  /\ T1' = removeNode(T1, page)
  /\ T2' = <<page>> \o (IF contains(T1, page) THEN T2 ELSE removeNode(T2, page))
  /\ UNCHANGED <<B1, B2, p>>

\* Mutant: the ghost is not removed when its page comes back.
ArcB1KeepsGhost(page) ==
  LET q == IF p + (IF B2 # <<>> THEN 1 ELSE 0) < MAX_FRAMES THEN p + 1 ELSE MAX_FRAMES
      r == replaceARC(q)
  IN  /\ contains(B1, page)
      /\ p' = q
      /\ T1' = r.T1 /\ T2' = <<page>> \o r.T2 /\ B1' = r.B1 /\ B2' = r.B2

ArcB1(page) ==
  LET q == IF p + (IF B2 # <<>> THEN 1 ELSE 0) < MAX_FRAMES THEN p + 1 ELSE MAX_FRAMES
      r == replaceARC(q)
  IN  /\ contains(B1, page)
      /\ p' = q
      /\ T1' = r.T1 /\ T2' = <<page>> \o r.T2 /\ B1' = removeNode(r.B1, page) /\ B2' = r.B2

ArcB2(page) ==
  LET q == IF p - (IF B1 # <<>> THEN 1 ELSE 0) > 0 THEN p - 1 ELSE 0
      r == replaceARC(q)
  IN  /\ contains(B2, page) /\ ~contains(B1, page)
      /\ p' = q
      /\ T1' = r.T1 /\ T2' = <<page>> \o r.T2 /\ B1' = r.B1 /\ B2' = removeNode(r.B2, page)

ArcNew(page) ==
  LET r == IF Len(T1) + Len(T2) >= MAX_FRAMES THEN replaceARC(p)
           ELSE [T1 |-> T1, T2 |-> T2, B1 |-> B1, B2 |-> B2]
  IN  /\ ~contains(B1, page) /\ ~contains(B2, page)
      /\ T1' = <<page>> \o r.T1 /\ T2' = r.T2 /\ B1' = r.B1 /\ B2' = r.B2
      /\ UNCHANGED p

simulateARC(page) ==
  /\ choice = 3 /\ Request(page)
  /\ \/ ArcHit(page)
     \/ /\ ~contains(T1, page) /\ ~contains(T2, page)
        /\ ArcB1(page) \/ ArcB2(page) \/ ArcNew(page)
  /\ UNCHANGED <<buffer, time, refBit, pointer>>
-----------------------------------------------------------------------------
Next == \E page \in Pages : simulateLRU(page) \/ simulateClock(page) \/ simulateARC(page)

Spec == Init /\ [][Next]_vars
-----------------------------------------------------------------------------
(* Properties.                                                             *)

Resident ==
  IF choice = 3 THEN Range(T1) \cup Range(T2) ELSE Range(buffer) \ {None}

\* Under LRU the pages in memory are exactly the MAX_FRAMES used last, hits
\* counted: the array of times orders the frames as the requests did.
LruKeepsRecent ==
  choice = 1 =>
    Resident = {recent[i] : i \in {i \in DOMAIN recent : i <= MAX_FRAMES}}

\* Whatever the policy, no page is given up before MAX_FRAMES different ones
\* were requested, the page requested last is in memory, and no frame is
\* spent on a second copy.
NoEarlyEviction ==
  /\ Len(recent) <= MAX_FRAMES => Resident = Range(recent)
  /\ recent # <<>> => recent[1] \in Resident
  /\ \A page \in Pages : Cardinality(Holding(page)) <= 1

Times(list, page) == Cardinality({i \in DOMAIN list : list[i] = page})

\* A page is at most once in the four lists of ARC, and was requested; there
\* are at most MAX_FRAMES pages in memory, but for one more each time that
\* replaceARC found T2 empty and moved the -1 of removeLRU to B2.
ArcListsSound ==
  /\ \A page \in Pages :
       /\ Times(T1 \o T2 \o B1 \o B2, page) <= 1
       /\ choice = 3 => (Times(T1 \o T2 \o B1 \o B2, page) = 1 <=> contains(recent, page))
  /\ Len(T1) + Len(T2) <= MAX_FRAMES + Times(B2, None)
=============================================================================
