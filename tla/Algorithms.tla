----------------------------- MODULE Algorithms -----------------------------
(***************************************************************************)
(* Programs that compute an answer.  LEETCODE PROBLEMS: the median of a    *)
(* stream from a balanced tree, and, on every short array, the window      *)
(* maximum by a deque, the range sums counted while merging and the counts *)
(* by a binary indexed tree.  POSIX/PosixTask.c: threads count the words   *)
(* of parts of one buffer.  Position i of an array of C is i + 1 of the    *)
(* sequence.                                                               *)
(***************************************************************************)
EXTENDS Integers, Sequences, FiniteSetsExt, TLC

CONSTANTS Nums,        \* values that are added to the stream
          MaxTotal,    \* additions
          Values,      \* elements of the arrays
          MaxLen,
          MAX_THREADS,
          MaxSize      \* bound: characters of the file

VARIABLES root, total,
          added,       \* history: how often each value was added
          nums,        \* the array; it grows by an element
          text,        \* the buffer: whether each character is a space
          tdata,       \* [start, end, count] of each thread created
          counted,     \* the threads that have returned
          joined, total_count

ConstantsOK ==
  /\ Nums \subseteq Nat /\ MaxTotal \in Nat
  /\ Values \subseteq Int /\ MaxLen \in Nat
  /\ MAX_THREADS \in Nat \ {0} /\ MaxSize \in Nat

filesize == Len(text)

TypeOK ==
  /\ total \in 0 .. MaxTotal /\ added \in [Nums -> 0 .. MaxTotal]
  /\ nums \in Seq(Values)
  /\ counted \subseteq 0 .. Len(tdata) - 1 /\ joined \in 0 .. Len(tdata)
  /\ \A i \in DOMAIN tdata : {tdata[i].start, tdata[i].end, tdata[i].count} \subseteq 0 .. filesize
  /\ total_count \in 0 .. filesize
-----------------------------------------------------------------------------
(* mediandta.c: a node is [val, height, count, size, left, right], counting *)
(* the values below it, and NULL is <<>>.                                   *)

NULL == <<>>
height(n) == IF n = NULL THEN 0 ELSE n.height
size(n)   == IF n = NULL THEN 0 ELSE n.size
getBalance(n) == IF n = NULL THEN 0 ELSE height(n.left) - height(n.right)

\* n and all that is below it, level by level, NULL included.
Subtrees(n) ==
  LET level[d \in 0 .. height(n)] ==
        IF d = 0 THEN {n} ELSE UNION {{m.left, m.right} : m \in level[d - 1] \ {NULL}}
  IN  UNION {level[d] : d \in 0 .. height(n)}

\* Mutant: the values equal to the node's own are left out.
updateOnce(v, c, l, r) ==
  [val |-> v, height |-> 1 + (IF height(l) > height(r) THEN height(l) ELSE height(r)),
   count |-> c, size |-> 1 + size(l) + size(r), left |-> l, right |-> r]

\* The node with height and size made up from its children's.
update(v, c, l, r) ==
  [val |-> v, height |-> 1 + (IF height(l) > height(r) THEN height(l) ELSE height(r)),
   count |-> c, size |-> c + size(l) + size(r), left |-> l, right |-> r]

rightRotate(y) ==
  LET x == y.left
  IN  update(x.val, x.count, x.left, update(y.val, y.count, x.right, y.right))

leftRotate(x) ==
  LET y == x.right
  IN  update(y.val, y.count, update(x.val, x.count, x.left, y.left), y.right)

\* Of an unbalanced node the value tells the way the insertion went.
Rebalance(n, v) ==
  CASE getBalance(n) > 1  /\ v < n.left.val  -> rightRotate(n)
    [] getBalance(n) < -1 /\ v > n.right.val -> leftRotate(n)
    [] getBalance(n) > 1  /\ v > n.left.val  -> rightRotate([n EXCEPT !.left = leftRotate(@)])
    [] getBalance(n) < -1 /\ v < n.right.val -> leftRotate([n EXCEPT !.right = rightRotate(@)])
    [] OTHER -> n

insert(top, v) ==
  LET into[n \in Subtrees(top)] ==
        IF n = NULL THEN update(v, 1, NULL, NULL)
        ELSE Rebalance(
          CASE v < n.val -> update(n.val, n.count, into[n.left], n.right)
            [] v > n.val -> update(n.val, n.count, n.left, into[n.right])
            [] v = n.val -> update(n.val, n.count + 1, n.left, n.right), v)
  IN  into[top]

\* The k-th smallest value.
kth(top, nth) ==
  LET at[n \in Subtrees(top), k \in Int] ==
        CASE n = NULL -> -1
          [] n # NULL /\ k <= size(n.left) -> at[n.left, k]
          [] n # NULL /\ k \in size(n.left) + 1 .. size(n.left) + n.count -> n.val
          [] n # NULL /\ k > size(n.left) + n.count -> at[n.right, k - size(n.left) - n.count]
  IN  at[top, nth]
-----------------------------------------------------------------------------
MedianInit == root = NULL /\ total = 0 /\ added = [v \in Nums |-> 0]

medianFinderAddNum(num) ==
  /\ total < MaxTotal
  /\ root' = insert(root, num)
  /\ total' = total + 1
  /\ added' = [added EXCEPT ![num] = @ + 1]

\* Twice the median: the code divides by 2.0.
medianFinderFindMedian ==
  IF total % 2 = 1 THEN 2 * kth(root, total \div 2 + 1)
  ELSE kth(root, total \div 2) + kth(root, total \div 2 + 1)

\* medianFinderFree; the next one is empty.
medianFinderFree == root' = NULL /\ total' = 0 /\ added' = [v \in Nums |-> 0]

MedianNext == medianFinderFree \/ \E num \in Nums : medianFinderAddNum(num)
-----------------------------------------------------------------------------
(* The arrays.                                                             *)

ArrayInit == nums = <<>>
ArrayNext == Len(nums) < MaxLen /\ \E v \in Values : nums' = Append(nums, v)
-----------------------------------------------------------------------------
(* SlidingWindowMaximum.c                                                  *)

\* Mutant: an index leaves the deque one step late.
ExpireLate(deque, i, k) == IF deque[1] < i - k THEN Tail(deque) ELSE deque

\* The front leaves when it is out of the window.
Expire(deque, i, k) == IF deque[1] <= i - k THEN Tail(deque) ELSE deque

\* What is smaller than the new element leaves at the back.
Push(deque, i) ==
  LET keep == Max({j \in 0 .. Len(deque) : j = 0 \/ ~(nums[deque[j]] < nums[i])})
  IN  Append(SubSeq(deque, 1, keep), i)

maxSlidingWindow(k) ==
  LET at[i \in 0 .. Len(nums)] ==
        IF i = 0 THEN [deque |-> <<>>, result |-> <<>>]
        ELSE LET deque == Expire(Push(at[i - 1].deque, i), i, k)
             IN  [deque |-> deque,
                  result |-> IF i >= k THEN Append(at[i - 1].result, nums[deque[1]])
                             ELSE at[i - 1].result]
  IN  IF nums = <<>> \/ k = 0 THEN <<>> ELSE at[Len(nums)].result
-----------------------------------------------------------------------------
(* countRange.c: the part of sums from left up to but not right.           *)

\* The first m from k on that is at the end, or not one of those to be passed.
Advance(k, right, passed) == Min({m \in k .. right : m = right \/ m \notin passed})

\* One i of the left half: j and k enclose the partners of sums[i] in the right
\* half, and t merges that half into the cache.
Partners(sums, right, lower, upper, s, i) ==
  LET k == Advance(s.k, right, {m \in s.k .. right - 1 : sums[m + 1] - sums[i + 1] < lower})
      j == Advance(s.j, right, {m \in s.j .. right - 1 : sums[m + 1] - sums[i + 1] <= upper})
      t == Advance(s.t, right, {m \in s.t .. right - 1 : sums[m + 1] < sums[i + 1]})
  IN  [j |-> j, k |-> k, t |-> t, count |-> s.count + j - k,
       cache |-> s.cache \o SubSeq(sums, s.t + 1, t) \o <<sums[i + 1]>>]

\* Both halves, sorted and counted, are merged.
MergeHalves(lo, hi, left, mid, right, lower, upper) ==
  LET at[i \in left .. mid] ==
        IF i = left
        THEN [j |-> mid, k |-> mid, t |-> mid, count |-> lo[1] + hi[1], cache |-> <<>>]
        ELSE Partners(hi[2], right, lower, upper, at[i - 1], i - 1)
      end == at[mid]
  IN  <<end.count, [m \in DOMAIN hi[2] |->
                      IF m \in left + 1 .. end.t THEN end.cache[m - left] ELSE hi[2][m]]>>

countWhileMergeSort(all, lower, upper) ==
  LET sorted[sums \in Seq(Int), left \in Nat, right \in Nat] ==
        IF right - left <= 1 THEN <<0, sums>>
        ELSE LET mid == (left + right) \div 2
                 lo  == sorted[sums, left, mid]
                 hi  == sorted[lo[2], mid, right]
             IN  MergeHalves(lo, hi, left, mid, right, lower, upper)
  IN  sorted[all, 0, Len(all)]

PrefixSums ==
  LET sum[i \in 0 .. Len(nums)] == IF i = 0 THEN 0 ELSE sum[i - 1] + nums[i]
  IN  [i \in 1 .. Len(nums) + 1 |-> sum[i - 1]]

countRangeSum(lower, upper) ==
  countWhileMergeSort(PrefixSums, lower, upper)[1]
-----------------------------------------------------------------------------
(* countersmallernumber.c and createSorted.c: a binary indexed tree over    *)
(* the ranks.                                                              *)

\* x & -x
lowbit(x) == Max({p \in 1 .. x : x % p = 0 /\ \E e \in 0 .. x : p = 2 ^ e})

updateBit(bit, idx, val, last) ==
  LET above[i \in Nat] == IF i > last THEN {} ELSE {i} \cup above[i + lowbit(i)]
  IN  [i \in DOMAIN bit |-> IF i \in above[idx] THEN bit[i] + val ELSE bit[i]]

query(bit, idx) ==
  LET sum[i \in Int] == IF i <= 0 THEN 0 ELSE bit[i] + sum[i - lowbit(i)] IN sum[idx]

\* The binary search, with what it has found so far.
Search(sorted, x) ==
  LET find[left \in Int, right \in Int, r \in Int] ==
        LET mid == (left + right) \div 2
        IN  CASE left > right -> r
              [] left <= right /\ sorted[mid + 1] < x -> find[mid + 1, right, mid + 1]
              [] left <= right /\ ~(sorted[mid + 1] < x) -> find[left, mid - 1, r]
  IN  find[0, Len(sorted) - 1, 0]

rank ==
  LET sorted == SortSeq(nums, <)
  IN  [i \in DOMAIN nums |-> Search(sorted, nums[i]) + 1]

maxRank == Len(nums) + 2
Zeroes  == [i \in 0 .. maxRank - 1 |-> 0]

\* From the last element to the first.
countSmaller ==
  LET bits[i \in 1 .. Len(nums) + 1] ==
        IF i > Len(nums) THEN Zeroes ELSE updateBit(bits[i + 1], rank[i], 1, maxRank - 1)
  IN  [i \in DOMAIN nums |-> query(bits[i + 1], rank[i] - 1)]

\* Mutant: equal elements count as greater.
CostEqual(bit, i, r) ==
  LET left == query(bit, r - 1)  right == i - query(bit, r - 1)
  IN  IF left < right THEN left ELSE right

\* The price of the i-th element, i counted from 0.
Cost(bit, i, r) ==
  LET left == query(bit, r - 1)  right == i - query(bit, r)
  IN  IF left < right THEN left ELSE right

createSortedArray ==
  LET bits[i \in 0 .. Len(nums)] ==
        IF i = 0 THEN Zeroes ELSE updateBit(bits[i - 1], rank[i], 1, maxRank - 1)
      cost[i \in 0 .. Len(nums)] ==
        IF i = 0 THEN 0 ELSE (cost[i - 1] + Cost(bits[i - 1], i - 1, rank[i])) % 1000000007
  IN  cost[Len(nums)]
-----------------------------------------------------------------------------
(* PosixTask.c.  A character is a space or not.  (As it stands the file    *)
(* does not compile: loadFile lacks its parameter filesize.)               *)

WordInit ==
  /\ text \in UNION {[1 .. n -> BOOLEAN] : n \in 0 .. MaxSize}
  /\ tdata = <<>> /\ counted = {} /\ joined = 0 /\ total_count = 0

chunk_size == filesize \div MAX_THREADS
isspace(i) == text[i + 1]         \* characters count from 0

\* Mutant: a part begins where it begins.
PartStartExact(i) == i * chunk_size

\* Where the part of thread i begins: behind the first, at a space.
PartStart(i) ==
  IF i = 0 THEN 0
  ELSE Min({s \in i * chunk_size .. filesize : s = filesize \/ isspace(s)})

Create ==
  LET i == Len(tdata)
  IN  /\ i < MAX_THREADS
      /\ tdata' = Append(tdata, [start |-> PartStart(i),
                                 end   |-> IF i = MAX_THREADS - 1 THEN filesize
                                           ELSE (i + 1) * chunk_size,
                                 count |-> 0])
      /\ UNCHANGED <<text, counted, joined, total_count>>

\* A word is counted at its first character in the part.
count_words(i) ==
  LET d == tdata[i + 1]
      firsts == {c \in d.start .. d.end - 1 : ~isspace(c) /\ (c = d.start \/ isspace(c - 1))}
  IN  /\ i < Len(tdata) /\ i \notin counted
      /\ tdata' = [tdata EXCEPT ![i + 1].count = Cardinality(firsts)]
      /\ counted' = counted \cup {i}
      /\ UNCHANGED <<text, joined, total_count>>

\* pthread_join, in the order of the threads, behind the last creation.
Join ==
  /\ Len(tdata) = MAX_THREADS /\ joined < MAX_THREADS /\ joined \in counted
  /\ joined' = joined + 1
  /\ total_count' = total_count + tdata[joined + 1].count
  /\ UNCHANGED <<text, tdata, counted>>

split_and_count == Create \/ Join

WordNext == split_and_count \/ \E i \in 0 .. MAX_THREADS - 1 : count_words(i)
-----------------------------------------------------------------------------
(* Properties: each against its definition.                                *)

\* The values in order, told from what was added.
Sorted[vs \in SUBSET Nums] ==
  IF vs = {} THEN <<>>
  ELSE LET least == CHOOSE v \in vs : \A w \in vs : v <= w
       IN  [i \in 1 .. added[least] |-> least] \o Sorted[vs \ {least}]

\* The median is that of all values added, whatever the order and however often
\* each came; of none it is -1.
MedianRight ==
  LET s == Sorted[Nums]
      n == Len(s)
  IN  medianFinderFindMedian =
        IF n = 0 THEN -2 ELSE s[(n + 1) \div 2] + s[n \div 2 + 1]

\* Duplicates do not make the tree lean.
Balanced == \A n \in Subtrees(root) : getBalance(n) \in -1 .. 1

Image(is) == {nums[i] : i \in is}

\* The maximum of every window of k elements, in order.
WindowsRight ==
  \A k \in 1 .. MaxLen + 1 :
    maxSlidingWindow(k) = [w \in 1 .. Len(nums) - k + 1 |-> Max(Image(w .. w + k - 1))]

\* The number of runs of elements whose sum lies between lower and upper.
RangesRight ==
  \A lower, upper \in -2 .. 2 :
    lower <= upper =>
      countRangeSum(lower, upper) =
        Cardinality({r \in (1 .. Len(nums)) \X (1 .. Len(nums)) :
                       r[1] <= r[2] /\ PrefixSums[r[2] + 1] - PrefixSums[r[1]] \in lower .. upper})

Count(js, Test(_)) == Cardinality({j \in js : Test(nums[j])})

\* The number of smaller elements behind each; and for each the smaller of the
\* numbers of lesser and greater elements before it, summed up.
CountsRight ==
  /\ countSmaller = [i \in DOMAIN nums |-> Count(i + 1 .. Len(nums), LAMBDA v : v < nums[i])]
  /\ createSortedArray =
       MapThenSumSet(LAMBDA i : Min({Count(1 .. i - 1, LAMBDA v : v < nums[i]),
                                       Count(1 .. i - 1, LAMBDA v : v > nums[i])}),
                       DOMAIN nums)

Words == {c \in 0 .. filesize - 1 : ~isspace(c) /\ (c = 0 \/ isspace(c - 1))}

\* No word is counted twice, though parts meet inside words; and those that are
\* missed are exactly the words that begin where a later thread's part begins.
WordsCounted ==
  joined = MAX_THREADS =>
    total_count = Cardinality(Words \ {i * chunk_size : i \in 1 .. MAX_THREADS - 1})
=============================================================================
