---------------------------- MODULE MemoryTracker ----------------------------
(***************************************************************************)
(* MemoryAllocation/memoryAllocation.c: wrappers of malloc, calloc,        *)
(* realloc and free that keep a list of all allocations, and the menu of   *)
(* main that calls them on an array of pointers.  A node stays in the list *)
(* after its memory is freed, and the allocator may give the address out   *)
(* again.  TrackMalloc and TrackCalloc differ only in what they log.       *)
(***************************************************************************)
EXTENDS Integers, Sequences, FiniteSets, FiniteSetsExt

CONSTANTS Addresses,    \* what the allocator may return
          Sizes,        \* of an allocation, in bytes
          MaxPtrs,      \* entries of ptrs; main does not look for its end
          MaxNodes      \* bound on the nodes of the list

NULL == 0

ConstantsOK ==
  /\ Addresses \subseteq Nat \ {NULL} /\ Sizes \subseteq Nat \ {0}
  /\ MaxPtrs \in Nat /\ MaxNodes \in Nat

VARIABLES heap,         \* size of what is allocated at each address, 0 if nothing is
          nodes,        \* the list from head: [address, size, is_freed]
          ptrs,         \* the entries used so far
          log_open,     \* logFile is not NULL
          running,      \* main is in its loop
          untracked     \* history: allocations for which there was no node

vars == <<heap, nodes, ptrs, log_open, running, untracked>>

Allocated == {a \in Addresses : heap[a] # 0}

TypeOK ==
  /\ heap \in [Addresses -> Sizes \cup {0}]
  /\ nodes \in Seq([address : Addresses, size : Sizes, is_freed : BOOLEAN])
  /\ ptrs \in Seq(Addresses \cup {NULL}) /\ Len(ptrs) <= MaxPtrs
  /\ log_open \in BOOLEAN /\ running \in BOOLEAN
  /\ untracked \subseteq Allocated

Init ==
  /\ heap = [a \in Addresses |-> 0]
  /\ nodes = <<>> /\ ptrs = <<>>
  /\ log_open = FALSE /\ running = TRUE
  /\ untracked = {}

\* The log is opened by the first call that succeeds in it.
LogEvent == running /\ log_open' \in {TRUE, log_open} /\ UNCHANGED running

\* malloc of the node may fail, and AddAllocation's result is ignored.  The
\* allocations in lost have no node so far.
AddAllocation(list, lost, a, size) ==
  \/ /\ Len(list) < MaxNodes
     /\ nodes' = <<[address |-> a, size |-> size, is_freed |-> FALSE]>> \o list
     /\ untracked' = lost \ {a}
  \/ nodes' = list /\ untracked' = lost \cup {a}

Matches(a) == {i \in DOMAIN nodes : nodes[i].address = a}

\* Mutant: the search ends with the last match.
FindLast(a) == IF Matches(a) = {} THEN 0 ELSE Max(Matches(a))

\* Index of the first node with the address, 0 if there is none.
FindeValue(a) == IF Matches(a) = {} THEN 0 ELSE Min(Matches(a))
-----------------------------------------------------------------------------
\* A size of 0, or no memory.
AllocateNothing ==
  /\ LogEvent
  /\ Len(ptrs) < MaxPtrs
  /\ ptrs' = Append(ptrs, NULL)
  /\ UNCHANGED <<heap, nodes, untracked>>

Allocate(a, size) ==
  /\ LogEvent
  /\ Len(ptrs) < MaxPtrs
  /\ heap[a] = 0
  /\ heap' = [heap EXCEPT ![a] = size]
  /\ AddAllocation(nodes, untracked, a, size)
  /\ ptrs' = Append(ptrs, a)

\* A new size of 0, or no memory: what was there stays, the pointer is lost.
ReallocateNothing(i) ==
  /\ LogEvent
  /\ ptrs[i] # NULL
  /\ ptrs' = [ptrs EXCEPT ![i] = NULL]
  /\ UNCHANGED <<heap, nodes, untracked>>

\* The list after a reallocation from old to new.
TrackMove(old, new, size) ==
  IF FindeValue(old) # 0
  THEN AddAllocation([nodes EXCEPT ![FindeValue(old)].is_freed = TRUE],
                     untracked \ {old}, new, size)
  ELSE UNCHANGED nodes /\ untracked' = (untracked \ {old}) \cup {new}

\* realloc keeps the address or moves the block.
Reallocate(i, new, size) ==
  /\ LogEvent
  /\ ptrs[i] # NULL
  /\ new = ptrs[i] \/ heap[new] = 0
  /\ heap' = [heap EXCEPT ![ptrs[i]] = 0, ![new] = size]
  /\ TrackMove(ptrs[i], new, size)
  /\ ptrs' = [ptrs EXCEPT ![i] = new]

TrackRealloc(i) ==
  ReallocateNothing(i) \/ \E new \in Addresses, size \in Sizes : Reallocate(i, new, size)

\* Mutant: main keeps the pointer it has freed.
TrackFreeKeepsPointer(i) ==
  LET n == FindeValue(ptrs[i])
  IN  /\ LogEvent
      /\ ptrs[i] # NULL
      /\ IF n # 0 /\ ~nodes[n].is_freed
         THEN /\ nodes' = [nodes EXCEPT ![n].is_freed = TRUE]
              /\ heap' = [heap EXCEPT ![ptrs[i]] = 0]
         ELSE UNCHANGED <<nodes, heap>>
      /\ UNCHANGED <<ptrs, untracked>>

\* Memory without an active node is not freed; main drops the pointer anyway.
TrackFree(i) ==
  LET n == FindeValue(ptrs[i])
  IN  /\ LogEvent
      /\ ptrs[i] # NULL
      /\ IF n # 0 /\ ~nodes[n].is_freed
         THEN /\ nodes' = [nodes EXCEPT ![n].is_freed = TRUE]
              /\ heap' = [heap EXCEPT ![ptrs[i]] = 0]
         ELSE UNCHANGED <<nodes, heap>>
      /\ ptrs' = [ptrs EXCEPT ![i] = NULL]
      /\ UNCHANGED untracked

\* Nothing is cleaned up if nothing was ever logged.
CleanupTracker ==
  /\ running
  /\ running' = FALSE
  /\ log_open' = FALSE
  /\ nodes' = IF log_open THEN <<>> ELSE nodes
  /\ UNCHANGED <<heap, ptrs, untracked>>

Next ==
  \/ AllocateNothing
  \/ \E a \in Addresses, size \in Sizes : Allocate(a, size)
  \/ \E i \in DOMAIN ptrs : TrackRealloc(i) \/ TrackFree(i)
  \/ CleanupTracker

Spec == Init /\ [][Next]_vars
-----------------------------------------------------------------------------
(* Properties.                                                             *)

Active == {i \in DOMAIN nodes : ~nodes[i].is_freed}

\* What TableView lists and MemoryLeaks adds up is what is allocated, each
\* address once and with its size, but for memory whose node could not be
\* allocated: old nodes of an address given out again do not disturb it.
ReportIsTrue ==
  running =>
    /\ {<<nodes[i].address, nodes[i].size>> : i \in Active} =
         {<<a, heap[a]>> : a \in Allocated \ untracked}
    /\ \A i, j \in Active : nodes[i].address = nodes[j].address => i = j

\* No entry of ptrs dangles and no two are the same: nothing is freed twice.
NoDangling ==
  \A i, j \in DOMAIN ptrs :
    ptrs[i] # NULL => ptrs[i] \in Allocated /\ (ptrs[i] = ptrs[j] => i = j)
=============================================================================
