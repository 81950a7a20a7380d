----------------------------- MODULE Allocators -----------------------------
(***************************************************************************)
(* Two allocators that look for the first place that fits.                 *)
(***************************************************************************)
EXTENDS Integers, Sequences, FiniteSets, FiniteSetsExt, SequencesExt

(***************************************************************************)
(* MemoryPool/memoryPool.c: first fit in one piece of memory, cut into     *)
(* blocks with a header each.  The list runs through the blocks in the     *)
(* order of their addresses, so it is a sequence; an address is an offset  *)
(* in the pool.  A pool smaller than a header, where the size of the first *)
(* block would wrap, is left out.                                          *)
(***************************************************************************)
CONSTANTS PoolSizes,    \* what main may read
          HEADER,       \* sizeof(Block)
          Requests      \* sizes PoolAllocate may be called with

PoolConstantsOK ==
  /\ HEADER \in Nat \ {0} /\ Requests \subseteq Nat
  /\ \A n \in PoolSizes : n \in Nat /\ n >= HEADER

VARIABLES PoolSize,
          blocks,       \* [at, size, free], from FreeList on
          asked         \* history: the size each pointer handed out was asked for

pieces == <<PoolSize, blocks, asked>>

PoolTypeOK ==
  /\ PoolSize \in PoolSizes
  /\ blocks \in Seq([at : 0 .. PoolSize, size : 0 .. PoolSize, free : {0, 1}])
  /\ DOMAIN asked \subseteq 0 .. PoolSize

PoolInit ==
  /\ PoolSize \in PoolSizes
  /\ blocks = <<[at |-> 0, size |-> PoolSize - HEADER, free |-> 1]>>
  /\ asked = <<>>

\* Mutant: the header of a free block is taken for room.
FitsWithHeader(size) ==
  {i \in DOMAIN blocks : blocks[i].free = 1 /\ blocks[i].size + HEADER >= size}

Fits(size) == {i \in DOMAIN blocks : blocks[i].free = 1 /\ blocks[i].size >= size}

SplitBlock(b, size) ==
  <<[b EXCEPT !.size = size, !.free = 0],
    [at |-> b.at + HEADER + size, size |-> b.size - size - HEADER, free |-> 1]>>

\* What block b becomes when size bytes of it are given out.
GivenOut(b, size) ==
  IF b.size > size + HEADER THEN SplitBlock(b, size) ELSE <<[b EXCEPT !.free = 0]>>

\* The pointer is that of the block, behind its header.
PoolAllocate(size) ==
  LET i == Min(Fits(size))
  IN  /\ Fits(size) # {}
      /\ blocks' = SubSeq(blocks, 1, i - 1) \o GivenOut(blocks[i], size)
                     \o SubSeq(blocks, i + 1, Len(blocks))
      /\ asked' = [a \in DOMAIN asked \cup {blocks[i].at} |->
                     IF a = blocks[i].at THEN size ELSE asked[a]]
      /\ UNCHANGED PoolSize

\* Mutant: the header between two merged blocks is lost.
AbsorbNoHeader(passed, b) ==
  IF passed # <<>> /\ passed[Len(passed)].free = 1 /\ b.free = 1
  THEN [passed EXCEPT ![Len(passed)].size = @ + b.size]
  ELSE Append(passed, b)

\* A step of the loop: block b comes behind the blocks passed, of which the
\* last takes it in if both are free.
Absorb(passed, b) ==
  IF passed # <<>> /\ passed[Len(passed)].free = 1 /\ b.free = 1
  THEN [passed EXCEPT ![Len(passed)].size = @ + HEADER + b.size]
  ELSE Append(passed, b)

\* The blocks passed after n of those of s.
Passed(s) ==
  LET passed[n \in 0 .. Len(s)] == IF n = 0 THEN <<>> ELSE Absorb(passed[n - 1], s[n])
  IN  passed

MergeBlock(s) == Passed(s)[Len(s)]

\* The caller frees a pointer it has.
PoolFree(i) ==
  /\ blocks[i].at \in DOMAIN asked
  /\ blocks' = MergeBlock([blocks EXCEPT ![i].free = 1])
  /\ asked' = [a \in DOMAIN asked \ {blocks[i].at} |-> asked[a]]
  /\ UNCHANGED PoolSize

PoolNext ==
  \/ \E size \in Requests : PoolAllocate(size)
  \/ \E i \in DOMAIN blocks : PoolFree(i)

PoolSpec == PoolInit /\ [][PoolNext]_pieces
-----------------------------------------------------------------------------
(***************************************************************************)
(* TASK/24-10-2025/pages_memory_manager.c: a table of pages, first fit for *)
(* a run of free ones, and a menu that frees any range.                    *)
(***************************************************************************)
CONSTANT TOTAL_PAGES

PagesConstantsOK == TOTAL_PAGES \in Nat \ {0}

FREE  == 0
USED  == 1
Pages == 0 .. TOTAL_PAGES - 1

VARIABLE page_table

PagesTypeOK == page_table \in [Pages -> {FREE, USED}]

PagesInit == page_table = [i \in Pages |-> FREE]

\* Mutant: a used page does not set the count back.
FreeBeforeAll ==
  LET count[i \in -1 .. TOTAL_PAGES - 1] ==
        IF i = -1 THEN 0 ELSE IF page_table[i] = FREE THEN count[i - 1] + 1 ELSE count[i - 1]
  IN  count

\* count of find_free_block after page i: the free pages that end in i.
FreeBefore ==
  LET count[i \in -1 .. TOTAL_PAGES - 1] ==
        IF i = -1 THEN 0 ELSE IF page_table[i] = FREE THEN count[i - 1] + 1 ELSE 0
  IN  count

\* The loop returns at the first page where the count is n.
find_free_block(n) ==
  LET ends == {i \in Pages : FreeBefore[i] = n}
  IN  IF ends = {} THEN -1 ELSE Min(ends) - n + 1

Allocate(n) ==
  LET start == find_free_block(n)
  IN  /\ start # -1
      /\ page_table' = [i \in Pages |-> IF i \in start .. start + n - 1 THEN USED
                                        ELSE page_table[i]]

NotEnough(n) == find_free_block(n) = -1 /\ UNCHANGED page_table

allocate_pages(n) == n \in 1 .. TOTAL_PAGES /\ (Allocate(n) \/ NotEnough(n))

\* Pages that are free already only give a warning.
free_pages(start, n) ==
  /\ start \in Pages /\ n > 0 /\ start + n <= TOTAL_PAGES
  /\ page_table' = [i \in Pages |-> IF i \in start .. start + n - 1 THEN FREE
                                    ELSE page_table[i]]

PagesNext ==
  \E n \in 1 .. TOTAL_PAGES :
    allocate_pages(n) \/ \E start \in Pages : free_pages(start, n)

PagesSpec == PagesInit /\ [][PagesNext]_page_table

ConstantsOK == PoolConstantsOK /\ PagesConstantsOK

TypeOK == PoolTypeOK /\ PagesTypeOK
-----------------------------------------------------------------------------
(* Properties.                                                             *)

\* Headers and blocks cover the pool without gap or overlap, however it was
\* split and merged, and no two free blocks are neighbours: the room that
\* there is in one piece is found.
Tiles ==
  LET end(i) == blocks[i].at + HEADER + blocks[i].size
  IN  /\ blocks[1].at = 0 /\ end(Len(blocks)) = PoolSize
      /\ \A i \in 1 .. Len(blocks) - 1 :
           /\ end(i) = blocks[i + 1].at
           /\ blocks[i].free = 0 \/ blocks[i + 1].free = 0

\* A pointer handed out and not freed has a block of its own, in use and at
\* least as large as was asked for; every block in use has its pointer.
PointersHeld ==
  /\ DOMAIN asked = {blocks[i].at : i \in {i \in DOMAIN blocks : blocks[i].free = 0}}
  /\ \A i \in DOMAIN blocks : blocks[i].free = 0 => blocks[i].size >= asked[blocks[i].at]

Run(start, n) ==
  start + n <= TOTAL_PAGES /\ \A i \in start .. start + n - 1 : page_table[i] = FREE

\* find_free_block finds the lowest run of n free pages, and fails only if
\* there is none, for every table the menu can make.
FirstFit ==
  \A n \in 1 .. TOTAL_PAGES :
    LET starts == {s \in Pages : Run(s, n)}
    IN  find_free_block(n) = (IF starts = {} THEN -1 ELSE Min(starts))
=============================================================================
