---------------------------- MODULE MemoryProofs ----------------------------
(***************************************************************************)
(* The free list of MemAlloc holds the gaps between the processes, in the  *)
(* order of the chosen algorithm, and the allocator implements the memory  *)
(* map: for all sizes of the memory, of the requests and of the slice that *)
(* is given away, and any number of processes.                             *)
(***************************************************************************)
EXTENDS MemAlloc, SequenceTheorems, WellFoundedInduction, TLAPS

(* The sort and the merge are recursive functions over an interval.        *)

(* The least-number principle for a set of naturals. *)
LEMMA NatSetHasMinimum ==
  ASSUME NEW T \in SUBSET Nat, T # {}
  PROVE  \E m \in T : \A k \in T : m <= k
  <1>1. PICK m \in T : \A k \in T : ~ (<<k, m>> \in OpToRel(<, Nat))
    BY NatLessThanWellFounded, WFMin
  <1>2. \A k \in T : <<k, m>> \in Nat \X Nat OBVIOUS
  <1>3. \A k \in T : ~ (k < m) BY <1>1, <1>2, Zenon DEF OpToRel
  <1>4. \A k \in T : m <= k BY <1>3
  <1> QED BY <1>4

(* A set that contains the first number of an interval and with each       *)
(* number but the last the next one contains the interval.                 *)
LEMMA Upwards ==
  ASSUME NEW lo \in Int, NEW hi \in Int, NEW S, lo \in S,
         \A k \in lo .. hi - 1 : k \in S => k + 1 \in S
  PROVE  \A k \in lo .. hi : k \in S
<1> DEFINE Bad == {k \in Nat : lo + k <= hi /\ lo + k \notin S}
<1>1. SUFFICES ASSUME Bad # {} PROVE FALSE
  <2> SUFFICES ASSUME NEW k \in lo .. hi, k \notin S PROVE FALSE
    OBVIOUS
  <2>1. k - lo \in Nat /\ lo + (k - lo) = k
    OBVIOUS
  <2>2. k - lo \in Bad
    BY <2>1
  <2> QED BY <1>1, <2>2
<1>2. PICK m \in Bad : \A k \in Bad : m <= k
  BY <1>1, NatSetHasMinimum
<1>3. m # 0 /\ m - 1 \in Nat /\ m - 1 \notin Bad
  BY <1>2
<1>4. lo + (m - 1) \in S /\ lo + (m - 1) \in lo .. hi - 1
  BY <1>2, <1>3
<1>5. lo + (m - 1) + 1 = lo + m
  BY <1>2
<1> QED BY <1>2, <1>4, <1>5

Iterates(f, lo, hi, a, step) ==
    f = [k \in lo .. hi |-> IF k = lo THEN a ELSE step[k][f[k - 1]]]

(* A recursion on an interval has a solution, whatever its step.           *)
LEMMA IterationExists ==
  ASSUME NEW lo \in Int, NEW hi \in Int, NEW a, NEW step
  PROVE  lo <= hi => \E f : Iterates(f, lo, hi, a, step)
<1> DEFINE Good == {n \in Int : \E f : Iterates(f, lo, n, a, step)}
<1>1. lo \in Good
  <2> DEFINE f == [k \in lo .. lo |-> a]
  <2>1. Iterates(f, lo, lo, a, step)
    BY DEF Iterates
  <2> QED BY <2>1
<1>2. ASSUME NEW n \in lo .. hi - 1, n \in Good PROVE n + 1 \in Good
  <2>1. PICK f : Iterates(f, lo, n, a, step)
    BY <1>2
  <2> DEFINE g == [k \in lo .. n + 1 |-> IF k = n + 1 THEN step[k][f[n]] ELSE f[k]]
  <2>2. ASSUME NEW k \in lo .. n + 1
        PROVE  g[k] = IF k = lo THEN a ELSE step[k][g[k - 1]]
    <3>1. CASE k = n + 1
      <4>1. g[k - 1] = f[n]
        BY <3>1
      <4> QED BY <3>1, <4>1
    <3>2. CASE k # n + 1
      <4>1. k \in lo .. n /\ g[k] = f[k]
        BY <3>2
      <4>2. k # lo => g[k - 1] = f[k - 1]
        BY <4>1
      <4>3. f[k] = IF k = lo THEN a ELSE step[k][f[k - 1]]
        BY <2>1, <4>1 DEF Iterates
      <4> HIDE DEF g
      <4> QED BY <4>1, <4>2, <4>3
    <3> QED BY <3>1, <3>2
  <2>3. Iterates(g, lo, n + 1, a, step)
    BY <2>2 DEF Iterates
  <2> QED BY <2>3
<1>3. \A n \in lo .. hi : n \in Good
  <2> HIDE DEF Good
  <2> QED BY <1>1, <1>2, Upwards
<1> QED BY <1>3

(* Its values are those the recursion says.                                *)
LEMMA IterationValues ==
  ASSUME NEW lo \in Int, NEW hi \in Int, lo <= hi, NEW a, NEW step, NEW f,
         Iterates(f, lo, hi, a, step)
  PROVE  /\ f[lo] = a
         /\ \A k \in lo + 1 .. hi : f[k] = step[k][f[k - 1]]
         /\ f = [k \in lo .. hi |-> f[k]]
<1>1. \A k \in lo .. hi : f[k] = IF k = lo THEN a ELSE step[k][f[k - 1]]
  BY DEF Iterates
<1>2. lo \in lo .. hi /\ \A k \in lo + 1 .. hi : k \in lo .. hi /\ k # lo
  OBVIOUS
<1>3. f = [k \in lo .. hi |-> f[k]]
  BY DEF Iterates
<1> QED BY <1>1, <1>2, <1>3

(* What holds of the first value and is kept from each to the next holds of *)
(* all of them.                                                            *)
LEMMA KeptUpwards ==
  ASSUME NEW lo \in Int, NEW hi \in Int, NEW f, NEW inv, f[lo] \in inv[lo],
         \A k \in lo + 1 .. hi : f[k - 1] \in inv[k - 1] => f[k] \in inv[k]
  PROVE  \A k \in lo .. hi : f[k] \in inv[k]
<1> DEFINE Good == {k \in Int : f[k] \in inv[k]}
<1>1. ASSUME NEW k \in lo .. hi - 1, k \in Good PROVE k + 1 \in Good
  <2>1. k + 1 \in lo + 1 .. hi /\ (k + 1) - 1 = k
    OBVIOUS
  <2> QED BY <1>1, <2>1
<1>2. lo \in Good
  OBVIOUS
<1> HIDE DEF Good
<1>3. \A k \in lo .. hi : k \in Good
  BY <1>1, <1>2, Upwards
<1> QED BY <1>3 DEF Good
-----------------------------------------------------------------------------
(* The exchange sort. *)

RawBlocks == [start_addr : Nat, size : Nat \ {0}]

Members(list) == {list[i] : i \in 1 .. Len(list)}

Distinct(list) == \A i, j \in 1 .. Len(list) : list[i] = list[j] => i = j

Rank(algorithm, b) ==
    CASE algorithm = MA_FF -> b.start_addr
      [] algorithm = MA_BF -> b.size
      [] algorithm = MA_WF -> -b.size

(* Each algorithm orders the blocks by one of their two numbers.           *)
LEMMA OutOfOrderIsRank ==
  ASSUME NEW algorithm \in Algorithms, NEW x \in RawBlocks, NEW y \in RawBlocks
  PROVE  /\ Rank(algorithm, x) \in Int
         /\ OutOfOrder(algorithm, x, y) <=> Rank(algorithm, x) > Rank(algorithm, y)
<1>1. /\ x.start_addr \in Nat /\ x.size \in Nat
      /\ y.start_addr \in Nat /\ y.size \in Nat
  BY DEF RawBlocks
<1>2. CASE algorithm = MA_FF
  BY <1>1, <1>2 DEF Rank, OutOfOrder, MA_FF, MA_BF, MA_WF
<1>3. CASE algorithm = MA_BF
  BY <1>1, <1>3 DEF Rank, OutOfOrder, MA_FF, MA_BF, MA_WF
<1>4. CASE algorithm = MA_WF
  BY <1>1, <1>4 DEF Rank, OutOfOrder, MA_FF, MA_BF, MA_WF
<1> QED BY <1>2, <1>3, <1>4 DEF Algorithms

\* list has the blocks of original in another order.
Shuffled(original, list) ==
    /\ list \in Seq(RawBlocks)
    /\ Len(list) = Len(original)
    /\ Distinct(list)
    /\ Members(list) = Members(original)

(* An exchange loses no block, moves nothing else, and puts the two blocks *)
(* in order.                                                               *)
LEMMA ExchangeKeeps ==
  ASSUME NEW algorithm \in Algorithms, NEW original, NEW list,
         Shuffled(original, list),
         NEW j \in 1 .. Len(list), NEW i \in 1 .. j - 1
  PROVE  LET r == exchange(algorithm, list, i, j) IN
         /\ Shuffled(original, r)
         /\ \A k \in 1 .. Len(list) : k # i /\ k # j => r[k] = list[k]
         /\ Rank(algorithm, r[i]) <= Rank(algorithm, r[j])
         /\ \/ r[i] = list[i] /\ r[j] = list[j]
            \/ /\ r[i] = list[j] /\ r[j] = list[i]
               /\ Rank(algorithm, list[j]) <= Rank(algorithm, list[i])
<1> DEFINE r == exchange(algorithm, list, i, j)
<1>1. /\ list \in Seq(RawBlocks) /\ Len(list) \in Nat
      /\ i \in 1 .. Len(list) /\ i < j
      /\ list[i] \in RawBlocks /\ list[j] \in RawBlocks
  BY ElementOfSeq, LenProperties DEF Shuffled
<1>2. CASE ~OutOfOrder(algorithm, list[i], list[j])
  <2>1. r = list
    BY <1>2 DEF exchange
  <2>2. Rank(algorithm, list[i]) <= Rank(algorithm, list[j])
    BY <1>1, <1>2, OutOfOrderIsRank
  <2> QED BY <2>1, <2>2
<1>3. CASE OutOfOrder(algorithm, list[i], list[j])
  <2> DEFINE half == [list EXCEPT ![i] = list[j]]
  <2>1. r = [half EXCEPT ![j] = list[i]]
    BY <1>3 DEF exchange
  <2>2. /\ half \in Seq(RawBlocks) /\ Len(half) = Len(list)
        /\ \A k \in 1 .. Len(list) : half[k] = IF k = i THEN list[j] ELSE list[k]
    BY <1>1, ExceptSeq
  <2>3. /\ r \in Seq(RawBlocks) /\ Len(r) = Len(list)
        /\ \A k \in 1 .. Len(list) :
             r[k] = IF k = j THEN list[i] ELSE half[k]
    <3> HIDE DEF half
    <3> QED BY <1>1, <2>1, <2>2, ExceptSeq
  <2>4. \A k \in 1 .. Len(list) :
           r[k] = IF k = j THEN list[i] ELSE IF k = i THEN list[j] ELSE list[k]
    BY <2>2, <2>3
  <2> HIDE DEF r, half
  <2>5. Members(r) = Members(list)
    BY <1>1, <2>3, <2>4 DEF Members
  <2>6. Distinct(r)
    BY <1>1, <2>3, <2>4 DEF Shuffled, Distinct
  <2>7. Rank(algorithm, list[j]) <= Rank(algorithm, list[i])
    BY <1>1, <1>3, OutOfOrderIsRank
  <2>8. r[i] = list[j] /\ r[j] = list[i]
    BY <1>1, <2>4
  <2>9. Shuffled(original, r)
    BY <2>3, <2>5, <2>6 DEF Shuffled
  <2> QED BY <2>4, <2>7, <2>8, <2>9 DEF r
<1> QED BY <1>2, <1>3

\* The first i blocks come before every later one.
OrderedUpTo(algorithm, list, i) ==
    \A p \in 1 .. i : \A q \in p + 1 .. Len(list) :
        Rank(algorithm, list[p]) <= Rank(algorithm, list[q])

PassedUpTo(algorithm, original, i, j) ==
    {list \in Seq(RawBlocks) :
        /\ Shuffled(original, list)
        /\ OrderedUpTo(algorithm, list, i - 1)
        /\ \A q \in i + 1 .. j : Rank(algorithm, list[i]) <= Rank(algorithm, list[q])}

(* One iteration of the inner loop.                                        *)
LEMMA InnerStep ==
  ASSUME NEW algorithm \in Algorithms, NEW original, Len(original) \in Nat,
         NEW i \in 1 .. Len(original), NEW j \in i + 1 .. Len(original),
         NEW list \in PassedUpTo(algorithm, original, i, j - 1)
  PROVE  exchange(algorithm, list, i, j) \in PassedUpTo(algorithm, original, i, j)
<1> DEFINE r == exchange(algorithm, list, i, j)
           R(b) == Rank(algorithm, b)
           n == Len(original)
<1>1. /\ Shuffled(original, list) /\ OrderedUpTo(algorithm, list, i - 1)
      /\ \A q \in i + 1 .. j - 1 : R(list[i]) <= R(list[q])
  BY DEF PassedUpTo
<1>2. /\ list \in Seq(RawBlocks) /\ Len(list) = n
      /\ \A k \in 1 .. n : list[k] \in RawBlocks /\ R(list[k]) \in Int
  BY <1>1, ElementOfSeq, OutOfOrderIsRank DEF Shuffled
<1>3. /\ Shuffled(original, r)
      /\ \A k \in 1 .. n : k # i /\ k # j => r[k] = list[k]
      /\ R(r[i]) <= R(r[j])
      /\ \/ r[i] = list[i] /\ r[j] = list[j]
         \/ r[i] = list[j] /\ r[j] = list[i] /\ R(list[j]) <= R(list[i])
  BY <1>1, <1>2, ExchangeKeeps
<1>4. r \in Seq(RawBlocks) /\ Len(r) = n
  BY <1>2, <1>3 DEF Shuffled
<1> HIDE DEF r, R
<1>5. \A q \in i + 1 .. j : R(r[i]) <= R(r[q])
  <2> TAKE q \in i + 1 .. j
  <2>1. CASE q = j
    BY <1>3, <2>1
  <2>2. CASE q # j
    <3>1. r[q] = list[q] /\ R(list[i]) <= R(list[q]) /\ q \in 1 .. n
      BY <1>1, <1>3, <2>2
    <3> QED BY <1>2, <1>3, <3>1
  <2> QED BY <2>1, <2>2
<1>6. \A p \in 1 .. i - 1 : \A q \in p + 1 .. n : R(r[p]) <= R(r[q])
  <2> TAKE p \in 1 .. i - 1
  <2> TAKE q \in p + 1 .. n
  <2>1. \A k \in p + 1 .. n : R(list[p]) <= R(list[k])
    BY <1>1, <1>2 DEF OrderedUpTo, R
  <2>2. r[p] = list[p]
    BY <1>3
  <2>3. PICK k \in p + 1 .. n : r[q] = list[k]
    BY <1>3
  <2> QED BY <2>1, <2>2, <2>3
<1> QED BY <1>3, <1>4, <1>5, <1>6 DEF PassedUpTo, OrderedUpTo, R, r

(* The inner loop brings the first of the blocks from i on to place i.     *)
LEMMA PassKeeps ==
  ASSUME NEW algorithm \in Algorithms, NEW original, Len(original) \in Nat,
         NEW i \in 1 .. Len(original), NEW list, Shuffled(original, list),
         OrderedUpTo(algorithm, list, i - 1)
  PROVE  /\ Shuffled(original, pass(algorithm, list, i))
         /\ OrderedUpTo(algorithm, pass(algorithm, list, i), i)
<1> DEFINE n == Len(original)
           inv == [j \in i .. n |-> PassedUpTo(algorithm, original, i, j)]
           step == [j \in i .. n |-> [l \in Seq(RawBlocks) |-> exchange(algorithm, l, i, j)]]
           Solves(f) == f = [j \in i .. n |->
                        IF j = i THEN list ELSE exchange(algorithm, f[j - 1], i, j)]
<1>0. i \in Int /\ n \in Int /\ i <= n
  OBVIOUS
<1>1. Len(list) = n /\ list \in inv[i] /\ \A j \in i .. n : inv[j] \subseteq Seq(RawBlocks)
  BY DEF Shuffled, PassedUpTo
<1>2. ASSUME NEW j \in i + 1 .. n, NEW l \in inv[j - 1]
      PROVE  exchange(algorithm, l, i, j) \in inv[j]
  BY <1>2, InnerStep
<1>3. \E f : Solves(f)
  <2>1. PICK f : Iterates(f, i, n, list, step)
    <3> HIDE DEF step
    <3> QED BY <1>0, IterationExists
  <2>2. /\ f[i] = list
        /\ \A j \in i + 1 .. n : f[j] = step[j][f[j - 1]]
        /\ f = [j \in i .. n |-> f[j]]
    <3> HIDE DEF step, n
    <3> QED BY <1>0, <2>1, IterationValues, SMTT(30)
  <2>3. \A j \in i + 1 .. n : f[j - 1] \in inv[j - 1] =>
           f[j] = exchange(algorithm, f[j - 1], i, j)
    <3> SUFFICES ASSUME NEW j \in i + 1 .. n, f[j - 1] \in inv[j - 1]
                 PROVE  f[j] = exchange(algorithm, f[j - 1], i, j)
      OBVIOUS
    <3>1. j - 1 \in i .. n /\ j \in i .. n
      OBVIOUS
    <3>2. f[j - 1] \in Seq(RawBlocks)
      BY <1>1, <3>1
    <3>3. step[j][f[j - 1]] = exchange(algorithm, f[j - 1], i, j)
      BY <3>1, <3>2
    <3> QED BY <2>2, <3>3
  <2>4. \A j \in i .. n : f[j] \in inv[j]
    <3> HIDE DEF inv
    <3>1. f[i] \in inv[i] /\ \A j \in i + 1 .. n : f[j - 1] \in inv[j - 1] => f[j] \in inv[j]
      BY <1>1, <1>2, <2>2, <2>3
    <3> QED BY <1>0, <3>1, KeptUpwards
  <2>5. \A j \in i .. n : f[j] = IF j = i THEN list ELSE exchange(algorithm, f[j - 1], i, j)
    <3> HIDE DEF inv, n
    <3>1. \A j \in i .. n : j # i => j \in i + 1 .. n /\ j - 1 \in i .. n
      BY <1>0
    <3> QED BY <2>2, <2>3, <2>4, <3>1
  <2>6. f = [j \in i .. n |-> IF j = i THEN list ELSE exchange(algorithm, f[j - 1], i, j)]
    BY <2>2, <2>5, Zenon
  <2> QED BY <2>6
<1> DEFINE after == CHOOSE f : Solves(f)
<1>4. Solves(after)
  BY <1>3
<1>5. pass(algorithm, list, i) = after[n]
  BY <1>1 DEF pass
<1>6. after[n] \in inv[n]
  <2> HIDE DEF after, inv
  <2>1. after[i] = list /\ \A j \in i + 1 .. n : after[j] = exchange(algorithm, after[j - 1], i, j)
    BY <1>4
  <2> HIDE DEF Solves
  <2>2. /\ after[i] \in inv[i]
        /\ \A j \in i + 1 .. n : after[j - 1] \in inv[j - 1] => after[j] \in inv[j]
    BY <1>1, <1>2, <2>1
  <2>3. \A j \in i .. n : after[j] \in inv[j]
    BY <1>0, <2>2, KeptUpwards
  <2> QED BY <1>0, <2>3
<1> HIDE DEF after
<1>7. /\ Shuffled(original, after[n]) /\ OrderedUpTo(algorithm, after[n], i - 1)
      /\ \A q \in i + 1 .. n : Rank(algorithm, after[n][i]) <= Rank(algorithm, after[n][q])
      /\ Len(after[n]) = n
  BY <1>6 DEF PassedUpTo, Shuffled
<1>8. OrderedUpTo(algorithm, after[n], i)
  BY <1>7 DEF OrderedUpTo
<1> QED BY <1>5, <1>7, <1>8

SortedUpTo(algorithm, original, i) ==
    {list \in Seq(RawBlocks) :
        Shuffled(original, list) /\ OrderedUpTo(algorithm, list, i)}

(* rearrange loses no block and leaves the list in the order of the        *)
(* algorithm, whatever the order was before.                               *)
THEOREM RearrangeSorts ==
  ASSUME NEW algorithm \in Algorithms, NEW list \in Seq(RawBlocks), Distinct(list)
  PROVE  LET r == rearrange(algorithm, list) IN
         /\ Shuffled(list, r)
         /\ \A p, q \in 1 .. Len(list) : p < q => ~OutOfOrder(algorithm, r[p], r[q])
<1> DEFINE n == Len(list)
           inv == [i \in 0 .. n |-> SortedUpTo(algorithm, list, i)]
           step == [i \in 0 .. n |-> [l \in Seq(RawBlocks) |-> pass(algorithm, l, i)]]
           Solves(f) == f = [i \in 0 .. n |->
                        IF i = 0 THEN list ELSE pass(algorithm, f[i - 1], i)]
<1>0. n \in Nat /\ 0 \in Int /\ n \in Int /\ 0 <= n
  BY LenProperties
<1>1. list \in inv[0] /\ \A i \in 0 .. n : inv[i] \subseteq Seq(RawBlocks)
  BY <1>0 DEF SortedUpTo, Shuffled, OrderedUpTo
<1>2. ASSUME NEW i \in 0 + 1 .. n, NEW l \in inv[i - 1]
      PROVE  pass(algorithm, l, i) \in inv[i]
  <2>1. l \in SortedUpTo(algorithm, list, i - 1)
    BY <1>0, <1>2
  <2>2. /\ Shuffled(list, pass(algorithm, l, i))
        /\ OrderedUpTo(algorithm, pass(algorithm, l, i), i)
    <3>1. Len(list) \in Nat /\ i \in 1 .. Len(list)
      BY <1>0
    <3> QED BY <2>1, <3>1, PassKeeps DEF SortedUpTo
  <2> QED BY <2>2, <1>0 DEF SortedUpTo, Shuffled
<1>3. \E f : Solves(f)
  <2>1. PICK f : Iterates(f, 0, n, list, step)
    <3> HIDE DEF step, n
    <3> QED BY <1>0, IterationExists
  <2>2. /\ f[0] = list
        /\ \A i \in 0 + 1 .. n : f[i] = step[i][f[i - 1]]
        /\ f = [i \in 0 .. n |-> f[i]]
    <3> HIDE DEF step, n
    <3> QED BY <1>0, <2>1, IterationValues, SMTT(30)
  <2>3. \A i \in 0 + 1 .. n : f[i - 1] \in inv[i - 1] =>
           f[i] = pass(algorithm, f[i - 1], i)
    <3> SUFFICES ASSUME NEW i \in 0 + 1 .. n, f[i - 1] \in inv[i - 1]
                 PROVE  f[i] = pass(algorithm, f[i - 1], i)
      OBVIOUS
    <3>1. i - 1 \in 0 .. n /\ i \in 0 .. n
      BY <1>0
    <3>2. f[i - 1] \in Seq(RawBlocks)
      BY <1>1, <3>1
    <3>3. step[i][f[i - 1]] = pass(algorithm, f[i - 1], i)
      BY <3>1, <3>2
    <3> QED BY <2>2, <3>3
  <2>4. \A i \in 0 .. n : f[i] \in inv[i]
    <3> HIDE DEF inv, n
    <3>1. f[0] \in inv[0] /\ \A i \in 0 + 1 .. n : f[i - 1] \in inv[i - 1] => f[i] \in inv[i]
      BY <1>1, <1>2, <2>2, <2>3
    <3> QED BY <1>0, <3>1, KeptUpwards
  <2>5. \A i \in 0 .. n : f[i] = IF i = 0 THEN list ELSE pass(algorithm, f[i - 1], i)
    <3> HIDE DEF inv, n
    <3>1. \A i \in 0 .. n : i # 0 => i \in 0 + 1 .. n /\ i - 1 \in 0 .. n
      BY <1>0
    <3> QED BY <2>2, <2>3, <2>4, <3>1
  <2>6. f = [i \in 0 .. n |-> IF i = 0 THEN list ELSE pass(algorithm, f[i - 1], i)]
    BY <2>2, <2>5, Zenon
  <2> QED BY <2>6
<1> DEFINE after == CHOOSE f : Solves(f)
<1>4. Solves(after)
  BY <1>3
<1>5. rearrange(algorithm, list) = after[n]
  BY DEF rearrange
<1>6. after[n] \in inv[n]
  <2> HIDE DEF after, inv
  <2>1. after[0] = list /\ \A i \in 0 + 1 .. n : after[i] = pass(algorithm, after[i - 1], i)
    BY <1>0, <1>4
  <2> HIDE DEF Solves, n
  <2>2. /\ after[0] \in inv[0]
        /\ \A i \in 0 + 1 .. n : after[i - 1] \in inv[i - 1] => after[i] \in inv[i]
    BY <1>1, <1>2, <2>1
  <2>3. \A i \in 0 .. n : after[i] \in inv[i]
    BY <1>0, <2>2, KeptUpwards
  <2> QED BY <1>0, <2>3
<1> HIDE DEF after
<1>7. Shuffled(list, after[n]) /\ OrderedUpTo(algorithm, after[n], n)
  BY <1>0, <1>6 DEF SortedUpTo
<1> DEFINE r == after[n]
<1> HIDE DEF r
<1>8. r \in Seq(RawBlocks) /\ Len(r) = n /\ OrderedUpTo(algorithm, r, n)
  BY <1>7 DEF Shuffled, r
<1>9. ASSUME NEW p \in 1 .. n, NEW q \in 1 .. n, p < q
      PROVE  ~OutOfOrder(algorithm, r[p], r[q])
  <2>1. Rank(algorithm, r[p]) <= Rank(algorithm, r[q])
    BY <1>0, <1>8, <1>9 DEF OrderedUpTo
  <2>2. r[p] \in RawBlocks /\ r[q] \in RawBlocks
    BY <1>8, ElementOfSeq
  <2> QED BY <2>1, <2>2, OutOfOrderIsRank
<1> QED BY <1>5, <1>7, <1>9 DEF r
-----------------------------------------------------------------------------
(* The merge. *)

Holds(b, address) == b.start_addr <= address /\ address < End(b)

Covers(list, k, address) == \E p \in 1 .. k : Holds(list[p], address)

(* The numbers of a block.                                                 *)
LEMMA BlockFacts ==
  ASSUME NEW x \in RawBlocks
  PROVE  /\ x.start_addr \in Nat /\ x.size \in Nat \ {0}
         /\ End(x) = x.start_addr + x.size
         /\ End(x) \in Nat /\ x.start_addr < End(x)
<1>1. x.start_addr \in Nat /\ x.size \in Nat \ {0}
  BY DEF RawBlocks
<1>2. End(x) = x.start_addr + x.size
  BY DEF End
<1> QED BY <1>1, <1>2

(* A block that takes the size of the next one ends where that one ends.   *)
LEMMA BlockGrows ==
  ASSUME NEW x \in RawBlocks, NEW b \in RawBlocks, End(x) = b.start_addr
  PROVE  LET y == [x EXCEPT !.size = @ + b.size] IN
         y \in RawBlocks /\ y.start_addr = x.start_addr /\ End(y) = End(b)
<1> DEFINE y == [x EXCEPT !.size = @ + b.size]
<1>1. x.size + b.size \in Nat \ {0}
  BY BlockFacts
<1>2. x = [start_addr |-> x.start_addr, size |-> x.size] /\ x.start_addr \in Nat
  BY DEF RawBlocks
<1>3. y = [start_addr |-> x.start_addr, size |-> x.size + b.size]
  BY <1>2
<1>4. y \in RawBlocks /\ y.start_addr = x.start_addr /\ y.size = x.size + b.size
  BY <1>1, <1>2, <1>3 DEF RawBlocks
<1>5. End(y) = y.start_addr + y.size
  BY DEF End
<1> HIDE DEF y
<1>6. End(y) = End(b)
  BY <1>4, <1>5, BlockFacts
<1> QED BY <1>4, <1>6 DEF y

MergedUpTo(list, k) ==
    {m \in Seq(RawBlocks) :
        /\ Len(m) >= 1
        /\ \A p, q \in 1 .. Len(m) : p < q => End(m[p]) < m[q].start_addr
        /\ End(m[Len(m)]) = End(list[k])
        /\ \A address \in Nat : Covers(m, Len(m), address) <=> Covers(list, k, address)}

(* One iteration of the loop of free_mem.                                  *)
LEMMA JoinKeeps ==
  ASSUME NEW list \in Seq(RawBlocks), NEW k \in 2 .. Len(list),
         NEW m \in MergedUpTo(list, k - 1),
         End(list[k - 1]) <= list[k].start_addr
  PROVE  join(m, list[k]) \in MergedUpTo(list, k)
<1> DEFINE b == list[k]
           n == Len(m)
           r == join(m, b)
<1>1. /\ m \in Seq(RawBlocks) /\ n \in Nat /\ n >= 1
      /\ \A p, q \in 1 .. n : p < q => End(m[p]) < m[q].start_addr
      /\ End(m[n]) = End(list[k - 1])
      /\ \A address \in Nat : Covers(m, n, address) <=> Covers(list, k - 1, address)
  BY LenProperties DEF MergedUpTo
<1>2. b \in RawBlocks /\ \A p \in 1 .. n : m[p] \in RawBlocks
  BY <1>1, LenProperties, ElementOfSeq
<1>3. \A x \in RawBlocks : x.start_addr \in Nat /\ x.size \in Nat \ {0}
                           /\ End(x) = x.start_addr + x.size
                           /\ End(x) \in Nat /\ x.start_addr < End(x)
  BY BlockFacts
<1>4. End(m[n]) <= b.start_addr
  BY <1>1
<1>5. \A address \in Nat :
         Covers(list, k, address) <=> Covers(m, n, address) \/ Holds(b, address)
  <2> TAKE address \in Nat
  <2>1. Len(list) \in Nat
    BY LenProperties
  <2>2. Covers(list, k, address) <=> Covers(list, k - 1, address) \/ Holds(b, address)
    BY <2>1 DEF Covers
  <2> QED BY <1>1, <2>2
<1>6. CASE End(m[n]) = b.start_addr
  <2> DEFINE x == [m[n] EXCEPT !.size = @ + b.size]
  <2>1. /\ x \in RawBlocks /\ x.start_addr = m[n].start_addr /\ End(x) = End(b)
    <3>1. m[n] \in RawBlocks
      BY <1>1, <1>2
    <3> QED BY <1>2, <1>3, <1>6, <3>1, BlockGrows
  <2>2. r = [m EXCEPT ![n] = x]
    BY <1>6 DEF join, Last
  <2>3. /\ r \in Seq(RawBlocks) /\ Len(r) = n
        /\ \A p \in 1 .. n : r[p] = IF p = n THEN x ELSE m[p]
    <3> HIDE DEF x
    <3> QED BY <1>1, <2>1, <2>2, ExceptSeq
  <2>4. \A address \in Nat : Holds(x, address) <=> Holds(m[n], address) \/ Holds(b, address)
    <3> HIDE DEF x, b
    <3>1. /\ m[n].start_addr \in Nat /\ End(m[n]) \in Nat
          /\ m[n].start_addr < End(m[n]) /\ End(b) \in Nat /\ b.start_addr < End(b)
      BY <1>1, <1>2, <1>3
    <3> QED BY <1>6, <2>1, <3>1 DEF Holds
  <2> HIDE DEF x, r
  <2>5. \A p, q \in 1 .. n : p < q => End(r[p]) < r[q].start_addr
    BY <1>1, <2>1, <2>3
  <2>6. End(r[n]) = End(b)
    BY <1>1, <2>1, <2>3
  <2>7. \A address \in Nat : Covers(r, n, address) <=> Covers(m, n, address) \/ Holds(b, address)
    <3> TAKE address \in Nat
    <3>1. Covers(r, n, address) <=> Covers(m, n - 1, address) \/ Holds(x, address)
      BY <1>1, <2>3 DEF Covers
    <3>2. Covers(m, n, address) <=> Covers(m, n - 1, address) \/ Holds(m[n], address)
      BY <1>1 DEF Covers
    <3> QED BY <2>4, <3>1, <3>2
  <2> QED BY <1>1, <1>5, <2>3, <2>5, <2>6, <2>7 DEF MergedUpTo, r
<1>7. CASE End(m[n]) # b.start_addr
  <2>1. r = Append(m, b)
    BY <1>7 DEF join, Last
  <2>2. /\ r \in Seq(RawBlocks) /\ Len(r) = n + 1
        /\ \A p \in 1 .. n : r[p] = m[p]
        /\ r[n + 1] = b
    BY <1>1, <1>2, <2>1
  <2> HIDE DEF r
  <2>3. \A p \in 1 .. n : End(m[p]) < b.start_addr
    <3> TAKE p \in 1 .. n
    <3>1. CASE p = n
      BY <1>1, <1>2, <1>3, <1>4, <1>7, <3>1
    <3>2. CASE p # n
      <4>1. End(m[p]) < m[n].start_addr
        BY <1>1, <3>2
      <4>2. m[p] \in RawBlocks /\ m[n] \in RawBlocks
        BY <1>1, <1>2
      <4>3. /\ End(m[p]) \in Nat /\ m[n].start_addr \in Nat /\ End(m[n]) \in Nat
            /\ m[n].start_addr < End(m[n]) /\ b.start_addr \in Nat
        BY <1>2, <1>3, <4>2
      <4> HIDE DEF b
      <4> QED BY <1>4, <4>1, <4>3
    <3> QED BY <3>1, <3>2
  <2>4. \A p, q \in 1 .. n + 1 : p < q => End(r[p]) < r[q].start_addr
    BY <1>1, <2>2, <2>3
  <2>5. \A address \in Nat :
           Covers(r, n + 1, address) <=> Covers(m, n, address) \/ Holds(b, address)
    <3> TAKE address \in Nat
    <3>1. Covers(r, n + 1, address) <=> Covers(r, n, address) \/ Holds(r[n + 1], address)
      BY <1>1 DEF Covers
    <3>2. Covers(r, n, address) <=> Covers(m, n, address)
      BY <2>2 DEF Covers
    <3> QED BY <2>2, <3>1, <3>2
  <2> QED BY <1>1, <1>5, <2>2, <2>4, <2>5 DEF MergedUpTo, r
<1> QED BY <1>6, <1>7

(* merge keeps every address, and of the blocks it leaves no two touch.    *)
LEMMA MergeJoins ==
  ASSUME NEW list \in Seq(RawBlocks), Len(list) >= 1,
         \A p, q \in 1 .. Len(list) : p < q => End(list[p]) <= list[q].start_addr
  PROVE  LET m == merge(list) IN
         /\ m \in Seq(RawBlocks)
         /\ \A p, q \in 1 .. Len(m) : p < q => End(m[p]) < m[q].start_addr
         /\ \A address \in Nat : Covers(m, Len(m), address) <=> Covers(list, Len(list), address)
<1> DEFINE n == Len(list)
           inv == [k \in 1 .. n |-> MergedUpTo(list, k)]
           step == [k \in 1 .. n |-> [m \in Seq(RawBlocks) |-> join(m, list[k])]]
           Solves(f) == f = [k \in 1 .. n |->
                        IF k = 1 THEN <<list[1]>> ELSE join(f[k - 1], list[k])]
<1>0. n \in Nat /\ 1 \in Int /\ n \in Int /\ 1 <= n
  BY LenProperties
<1>1. <<list[1]>> \in inv[1] /\ \A k \in 1 .. n : inv[k] \subseteq Seq(RawBlocks)
  <2>1. list[1] \in RawBlocks
    BY <1>0, ElementOfSeq
  <2> DEFINE m == <<list[1]>>
  <2>2. m \in Seq(RawBlocks) /\ Len(m) = 1 /\ m[1] = list[1]
    BY <2>1
  <2> HIDE DEF m
  <2>3. m \in MergedUpTo(list, 1)
    <3>1. \A p, q \in 1 .. Len(m) : p < q => End(m[p]) < m[q].start_addr
      BY <2>2
    <3>2. \A address \in Nat : Covers(m, Len(m), address) <=> Covers(list, 1, address)
      BY <2>2 DEF Covers
    <3>3. End(m[Len(m)]) = End(list[1]) /\ Len(m) >= 1
      BY <2>2
    <3> QED BY <2>2, <3>1, <3>2, <3>3 DEF MergedUpTo
  <2> QED BY <1>0, <2>3 DEF MergedUpTo, m
<1>2. ASSUME NEW k \in 1 + 1 .. n, NEW m \in inv[k - 1]
      PROVE  join(m, list[k]) \in inv[k]
  <2>1. /\ k \in 2 .. Len(list) /\ k - 1 \in 1 .. n /\ k \in 1 .. n
        /\ End(list[k - 1]) <= list[k].start_addr
    BY <1>0
  <2>2. m \in MergedUpTo(list, k - 1)
    BY <1>2, <2>1
  <2>3. join(m, list[k]) \in MergedUpTo(list, k)
    BY <2>1, <2>2, JoinKeeps
  <2> QED BY <2>1, <2>3
<1>3. \E f : Solves(f)
  <2>1. PICK f : Iterates(f, 1, n, <<list[1]>>, step)
    <3> HIDE DEF step, n
    <3> QED BY <1>0, IterationExists
  <2>2. /\ f[1] = <<list[1]>>
        /\ \A k \in 1 + 1 .. n : f[k] = step[k][f[k - 1]]
        /\ f = [k \in 1 .. n |-> f[k]]
    <3> HIDE DEF step, n
    <3> QED BY <1>0, <2>1, IterationValues, SMTT(30)
  <2>3. \A k \in 1 + 1 .. n : f[k - 1] \in inv[k - 1] => f[k] = join(f[k - 1], list[k])
    <3> SUFFICES ASSUME NEW k \in 1 + 1 .. n, f[k - 1] \in inv[k - 1]
                 PROVE  f[k] = join(f[k - 1], list[k])
      OBVIOUS
    <3>1. k - 1 \in 1 .. n /\ k \in 1 .. n
      BY <1>0
    <3>2. f[k - 1] \in Seq(RawBlocks)
      BY <1>1, <3>1
    <3>3. step[k][f[k - 1]] = join(f[k - 1], list[k])
      BY <3>1, <3>2
    <3> QED BY <2>2, <3>3
  <2>4. \A k \in 1 .. n : f[k] \in inv[k]
    <3> HIDE DEF inv, n
    <3>1. f[1] \in inv[1] /\ \A k \in 1 + 1 .. n : f[k - 1] \in inv[k - 1] => f[k] \in inv[k]
      BY <1>1, <1>2, <2>2, <2>3
    <3> QED BY <1>0, <3>1, KeptUpwards
  <2>5. \A k \in 1 .. n : f[k] = IF k = 1 THEN <<list[1]>> ELSE join(f[k - 1], list[k])
    <3> HIDE DEF inv, n
    <3>1. \A k \in 1 .. n : k # 1 => k \in 1 + 1 .. n /\ k - 1 \in 1 .. n
      BY <1>0
    <3> QED BY <2>2, <2>3, <2>4, <3>1
  <2>6. f = [k \in 1 .. n |-> IF k = 1 THEN <<list[1]>> ELSE join(f[k - 1], list[k])]
    BY <2>2, <2>5, Zenon
  <2> QED BY <2>6
<1> DEFINE merged == CHOOSE f : Solves(f)
<1>4. Solves(merged)
  BY <1>3
<1>5. merge(list) = merged[n]
  BY DEF merge
<1>6. merged[n] \in inv[n]
  <2> HIDE DEF merged, inv
  <2>1. /\ merged[1] = <<list[1]>>
        /\ \A k \in 1 + 1 .. n : merged[k] = join(merged[k - 1], list[k])
    BY <1>0, <1>4
  <2> HIDE DEF Solves, n
  <2>2. /\ merged[1] \in inv[1]
        /\ \A k \in 1 + 1 .. n : merged[k - 1] \in inv[k - 1] => merged[k] \in inv[k]
    BY <1>1, <1>2, <2>1
  <2>3. \A k \in 1 .. n : merged[k] \in inv[k]
    BY <1>0, <2>2, KeptUpwards
  <2> QED BY <1>0, <2>3
<1> HIDE DEF merged
<1> QED BY <1>0, <1>5, <1>6 DEF MergedUpTo
-----------------------------------------------------------------------------
(* A list describes a memory: its blocks are the addresses no piece holds, *)
(* and no two of them touch.                                               *)

Apart(list) ==
    \A i, j \in 1 .. Len(list) :
        i # j => \/ End(list[i]) < list[j].start_addr
                 \/ End(list[j]) < list[i].start_addr

Held(used, address) == \E ab \in used : Holds(ab, address)

Describes(list, total, used) ==
    /\ list \in Seq(RawBlocks)
    /\ Apart(list)
    /\ \A i \in 1 .. Len(list) : End(list[i]) <= total
    /\ \A address \in 0 .. total - 1 :
         Covers(list, Len(list), address) <=> ~Held(used, address)

(* Blocks that do not touch are not equal.                                 *)
LEMMA ApartIsDistinct ==
  ASSUME NEW list \in Seq(RawBlocks), Apart(list)
  PROVE  Distinct(list)
<1> SUFFICES ASSUME NEW i \in 1 .. Len(list), NEW j \in 1 .. Len(list),
                    list[i] = list[j], i # j
             PROVE  FALSE
  BY DEF Distinct
<1>1. list[i] \in RawBlocks
  BY ElementOfSeq
<1>2. End(list[i]) < list[i].start_addr
  BY DEF Apart
<1> QED BY <1>1, <1>2, BlockFacts

(* The order of the list does not matter for what it describes.            *)
LEMMA ShuffledDescribes ==
  ASSUME NEW list, NEW r, NEW total, NEW used,
         Describes(list, total, used), Shuffled(list, r)
  PROVE  Describes(r, total, used)
<1>1. /\ list \in Seq(RawBlocks) /\ r \in Seq(RawBlocks)
      /\ Len(list) \in Nat /\ Len(r) = Len(list)
  BY LenProperties DEF Describes, Shuffled
<1>2. \A i \in 1 .. Len(r) : \E k \in 1 .. Len(list) : r[i] = list[k]
  <2> TAKE i \in 1 .. Len(r)
  <2>1. r[i] \in Members(list)
    BY DEF Shuffled, Members
  <2> QED BY <2>1 DEF Members
<1>3. \A k \in 1 .. Len(list) : \E i \in 1 .. Len(r) : r[i] = list[k]
  <2> TAKE k \in 1 .. Len(list)
  <2>1. list[k] \in Members(r)
    BY DEF Shuffled, Members
  <2> QED BY <2>1 DEF Members
<1>4. Apart(r)
  <2> SUFFICES ASSUME NEW i \in 1 .. Len(r), NEW j \in 1 .. Len(r), i # j
               PROVE  \/ End(r[i]) < r[j].start_addr
                      \/ End(r[j]) < r[i].start_addr
    BY DEF Apart
  <2>1. PICK k \in 1 .. Len(list), l \in 1 .. Len(list) : r[i] = list[k] /\ r[j] = list[l]
    BY <1>2
  <2>2. k # l
    BY <2>1 DEF Shuffled, Distinct
  <2> QED BY <2>1, <2>2 DEF Describes, Apart
<1>5. \A i \in 1 .. Len(r) : End(r[i]) <= total
  BY <1>2 DEF Describes
<1>6. \A address : Covers(r, Len(r), address) <=> Covers(list, Len(list), address)
  BY <1>2, <1>3 DEF Covers
<1> QED BY <1>1, <1>4, <1>5, <1>6 DEF Describes

(* What rearrange makes of such a list.                                    *)
LEMMA RearrangeDescribes ==
  ASSUME NEW algorithm \in Algorithms, NEW list, NEW total, NEW used,
         Describes(list, total, used)
  PROVE  LET r == rearrange(algorithm, list) IN
         /\ Describes(r, total, used)
         /\ Shuffled(list, r)
         /\ \A p, q \in 1 .. Len(r) : p < q => ~OutOfOrder(algorithm, r[p], r[q])
<1>1. list \in Seq(RawBlocks) /\ Distinct(list)
  BY ApartIsDistinct DEF Describes
<1> DEFINE r == rearrange(algorithm, list)
<1>2. /\ Shuffled(list, r)
      /\ \A p, q \in 1 .. Len(list) : p < q => ~OutOfOrder(algorithm, r[p], r[q])
  BY <1>1, RearrangeSorts
<1>3. Describes(r, total, used) /\ Len(r) = Len(list)
  BY <1>2, ShuffledDescribes DEF Shuffled
<1> QED BY <1>2, <1>3

\* The part of block b that a request gets.
Given(b, request_size) == IF TakesWhole(b, request_size) THEN b.size ELSE request_size

(* The beginning of a block goes to a process, and the list that is left   *)
(* describes the memory with that process in it.                           *)
LEMMA RemainingDescribes ==
  ASSUME NEW list, NEW total \in Nat, NEW used, Describes(list, total, used),
         NEW i \in 1 .. Len(list), NEW request_size \in Nat \ {0},
         request_size <= list[i].size, NEW ab,
         ab.start_addr = list[i].start_addr, ab.size = Given(list[i], request_size)
  PROVE  /\ Describes(Remaining(list, i, request_size), total, used \cup {ab})
         /\ ab.start_addr \in Nat /\ ab.size \in Nat \ {0} /\ End(ab) <= End(list[i])
<1> DEFINE n == Len(list)
           b == list[i]
           r == Remaining(list, i, request_size)
<1>1. /\ list \in Seq(RawBlocks) /\ n \in Nat /\ b \in RawBlocks
      /\ \A k \in 1 .. n : list[k] \in RawBlocks
  BY LenProperties, ElementOfSeq DEF Describes
<1>2. /\ b.start_addr \in Nat /\ b.size \in Nat \ {0}
      /\ End(b) = b.start_addr + b.size /\ End(b) <= total
  BY <1>1, BlockFacts DEF Describes
<1>3. /\ ab.start_addr = b.start_addr /\ ab.size \in Nat \ {0} /\ ab.size <= b.size
      /\ End(ab) = ab.start_addr + ab.size
  BY <1>2 DEF Given, End
<1>4. \A k \in 1 .. n, address \in Nat : k # i /\ Holds(list[k], address) => ~Holds(b, address)
  <2> SUFFICES ASSUME NEW k \in 1 .. n, NEW address \in Nat, k # i,
                      Holds(list[k], address), Holds(b, address)
               PROVE  FALSE
    OBVIOUS
  <2>1. End(list[k]) < b.start_addr \/ End(b) < list[k].start_addr
    BY DEF Describes, Apart
  <2>2. list[k].start_addr \in Nat /\ End(list[k]) \in Nat
    BY <1>1, BlockFacts
  <2> HIDE DEF b
  <2> QED BY <1>2, <2>1, <2>2 DEF Holds
<1>5. \A address : Covers(list, n, address) <=>
         Holds(b, address) \/ \E k \in 1 .. n : k # i /\ Holds(list[k], address)
  BY DEF Covers
<1>6. \A address : Held(used \cup {ab}, address) <=> Held(used, address) \/ Holds(ab, address)
  BY DEF Held
<1>7. ASSUME TakesWhole(b, request_size)
      PROVE  Describes(r, total, used \cup {ab})
  <2>1. /\ r \in Seq(RawBlocks) /\ Len(r) = n - 1
        /\ \A k \in 1 .. n - 1 : r[k] = IF k < i THEN list[k] ELSE list[k + 1]
    <3> DEFINE s1 == SubSeq(list, 1, i - 1)
               s2 == SubSeq(list, i + 1, n)
    <3>1. /\ s1 \in Seq(RawBlocks) /\ Len(s1) = i - 1
          /\ \A k \in 1 .. i - 1 : s1[k] = list[k]
      BY <1>1, SubSeqProperties
    <3>2. /\ s2 \in Seq(RawBlocks) /\ Len(s2) = n - i
          /\ \A k \in 1 .. n - i : s2[k] = list[k + i]
      BY <1>1, SubSeqProperties
    <3>3. r = s1 \o s2
      BY <1>7 DEF Remaining, RemoveAt
    <3> HIDE DEF s1, s2
    <3>4. /\ r \in Seq(RawBlocks) /\ Len(r) = n - 1
          /\ \A k \in 1 .. n - 1 : r[k] = IF k <= i - 1 THEN s1[k] ELSE s2[k - (i - 1)]
      BY <1>1, <3>1, <3>2, <3>3, ConcatProperties, SMTT(30)
    <3> HIDE DEF r
    <3>5. \A k \in 1 .. n - 1 : r[k] = IF k < i THEN list[k] ELSE list[k + 1]
      <4> TAKE k \in 1 .. n - 1
      <4>1. CASE k < i
        BY <1>1, <3>1, <3>4, <4>1, SMTT(30)
      <4>2. CASE k >= i
        <5>1. k - (i - 1) \in 1 .. n - i /\ k - (i - 1) + i = k + 1
          BY <1>1, <4>2
        <5>2. r[k] = s2[k - (i - 1)]
          BY <1>1, <3>4, <4>2
        <5>3. r[k] = list[k + 1]
          BY <3>2, <5>1, <5>2
        <5> QED BY <1>1, <4>2, <5>3
      <4> QED BY <1>1, <4>1, <4>2
    <3> QED BY <3>4, <3>5
  <2> HIDE DEF r
  <2>2. Apart(r)
    <3> SUFFICES ASSUME NEW k \in 1 .. n - 1, NEW l \in 1 .. n - 1, k # l
                 PROVE  End(r[k]) < r[l].start_addr \/ End(r[l]) < r[k].start_addr
      BY <2>1 DEF Apart
    <3>1. PICK p \in 1 .. n : r[k] = list[p] /\ p = IF k < i THEN k ELSE k + 1
      BY <1>1, <2>1
    <3>2. PICK q \in 1 .. n : r[l] = list[q] /\ q = IF l < i THEN l ELSE l + 1
      BY <1>1, <2>1
    <3>3. p # q
      BY <3>1, <3>2
    <3> QED BY <3>1, <3>2, <3>3 DEF Describes, Apart
  <2>3. \A k \in 1 .. n - 1 : End(r[k]) <= total
    BY <1>1, <2>1 DEF Describes
  <2>4. \A address : Covers(r, n - 1, address) <=>
           \E k \in 1 .. n : k # i /\ Holds(list[k], address)
    <3> SUFFICES ASSUME NEW address
                 PROVE  Covers(r, n - 1, address) <=>
                           \E k \in 1 .. n : k # i /\ Holds(list[k], address)
      OBVIOUS
    <3>1. ASSUME NEW k \in 1 .. n - 1, Holds(r[k], address)
          PROVE  \E l \in 1 .. n : l # i /\ Holds(list[l], address)
      BY <1>1, <2>1, <3>1, SMTT(30)
    <3>2. ASSUME NEW l \in 1 .. n, l # i, Holds(list[l], address)
          PROVE  \E k \in 1 .. n - 1 : Holds(r[k], address)
      <4>1. CASE l < i
        BY <1>1, <2>1, <3>2, <4>1, SMTT(30)
      <4>2. CASE l > i
        <5>1. l - 1 \in 1 .. n - 1 /\ r[l - 1] = list[l]
          BY <1>1, <2>1, <4>2
        <5> QED BY <3>2, <5>1
      <4> QED BY <3>2, <4>1, <4>2
    <3> QED BY <3>1, <3>2 DEF Covers
  <2>5. \A address : Holds(ab, address) <=> Holds(b, address)
    BY <1>2, <1>3, <1>7 DEF Holds, Given, End
  <2>6. ASSUME NEW address \in 0 .. total - 1
        PROVE  Covers(r, n - 1, address) <=> ~Held(used \cup {ab}, address)
    <3>1. address \in Nat
      OBVIOUS
    <3>2. Covers(list, n, address) <=> ~Held(used, address)
      BY DEF Describes
    <3>3. Holds(b, address) => ~\E k \in 1 .. n : k # i /\ Holds(list[k], address)
      BY <1>4, <3>1
    <3> QED BY <1>5, <1>6, <2>4, <2>5, <3>2, <3>3
  <2> QED BY <2>1, <2>2, <2>3, <2>6 DEF Describes
<1>8. ASSUME ~TakesWhole(b, request_size)
      PROVE  Describes(r, total, used \cup {ab})
  <2> DEFINE cut == [start_addr |-> b.start_addr + request_size, size |-> b.size - request_size]
  <2>1. request_size < b.size
    BY <1>2, <1>8, MemoryAssumption DEF TakesWhole, MemoryAssumption
  <2>2. cut \in RawBlocks
    BY <1>2, <2>1 DEF RawBlocks
  <2>3. cut.start_addr = End(ab) /\ End(cut) = End(b)
    BY <1>2, <1>3, <1>8 DEF End, Given
  <2>4. r = [list EXCEPT ![i] = cut]
    BY <1>8 DEF Remaining
  <2> HIDE DEF cut
  <2>5. /\ r \in Seq(RawBlocks) /\ Len(r) = n
        /\ \A k \in 1 .. n : r[k] = IF k = i THEN cut ELSE list[k]
    BY <1>1, <2>2, <2>4, ExceptSeq
  <2> HIDE DEF r
  <2>6. Apart(r)
    <3> SUFFICES ASSUME NEW k \in 1 .. n, NEW l \in 1 .. n, k # l
                 PROVE  End(r[k]) < r[l].start_addr \/ End(r[l]) < r[k].start_addr
      BY <2>5 DEF Apart
    <3>1. End(list[k]) < list[l].start_addr \/ End(list[l]) < list[k].start_addr
      BY DEF Describes, Apart
    <3>2. /\ list[k].start_addr \in Nat /\ End(list[k]) \in Nat
          /\ list[l].start_addr \in Nat /\ End(list[l]) \in Nat
      BY <1>1, BlockFacts
    <3>3. b.start_addr <= cut.start_addr /\ cut.start_addr \in Nat
      BY <1>2, <1>3, <2>3
    <3> QED BY <2>3, <2>5, <3>1, <3>2, <3>3, SMTT(30)
  <2>7. \A k \in 1 .. n : End(r[k]) <= total
    BY <1>1, <1>2, <2>3, <2>5 DEF Describes
  <2>8. \A address : Covers(r, n, address) <=>
           Holds(cut, address) \/ \E k \in 1 .. n : k # i /\ Holds(list[k], address)
    BY <2>5 DEF Covers
  <2>9. \A address \in Nat :
           /\ Holds(b, address) <=> Holds(ab, address) \/ Holds(cut, address)
           /\ ~(Holds(ab, address) /\ Holds(cut, address))
    <3> HIDE DEF b
    <3> QED BY <1>2, <1>3, <2>3 DEF Holds
  <2>10. ASSUME NEW address \in 0 .. total - 1
         PROVE  Covers(r, n, address) <=> ~Held(used \cup {ab}, address)
    <3>1. address \in Nat
      OBVIOUS
    <3>2. Covers(list, n, address) <=> ~Held(used, address)
      BY DEF Describes
    <3>3. Holds(b, address) => ~\E k \in 1 .. n : k # i /\ Holds(list[k], address)
      BY <1>4, <3>1
    <3> QED BY <1>5, <1>6, <2>8, <2>9, <3>1, <3>2, <3>3
  <2> QED BY <2>5, <2>6, <2>7, <2>10 DEF Describes
<1>9. ab.start_addr \in Nat /\ ab.size \in Nat \ {0} /\ End(ab) <= End(b)
  <2> HIDE DEF b
  <2> QED BY <1>2, <1>3
<1> QED BY <1>7, <1>8, <1>9

\* The pieces lie in the memory and have no address in common.
Placed(total, used) ==
    /\ \A ab \in used :
         /\ ab.start_addr \in Nat /\ ab.size \in Nat \ {0}
         /\ End(ab) <= total
    /\ \A ab, other \in used :
         ab # other => End(ab) <= other.start_addr \/ End(other) <= ab.start_addr

(* Two blocks without a common address lie one before the other.           *)
LEMMA NoCommonAddress ==
  ASSUME NEW x \in RawBlocks, NEW y \in RawBlocks,
         \A address \in Nat : ~(Holds(x, address) /\ Holds(y, address))
  PROVE  End(x) <= y.start_addr \/ End(y) <= x.start_addr
<1>1. /\ x.start_addr \in Nat /\ End(x) \in Nat /\ x.start_addr < End(x)
      /\ y.start_addr \in Nat /\ End(y) \in Nat /\ y.start_addr < End(y)
  BY BlockFacts
<1>2. ~(Holds(x, x.start_addr) /\ Holds(y, x.start_addr))
  BY <1>1
<1>3. ~(Holds(x, y.start_addr) /\ Holds(y, y.start_addr))
  BY <1>1
<1> QED BY <1>1, <1>2, <1>3 DEF Holds

(* free_mem gives the addresses of a piece back and joins it with its      *)
(* neighbours on both sides.                                               *)
LEMMA FreedDescribes ==
  ASSUME ma_algorithm \in Algorithms, mem_size \in Nat,
         Describes(free_block, mem_size, allocated_block_head),
         Placed(mem_size, allocated_block_head), NEW ab \in allocated_block_head
  PROVE  /\ Describes(free_mem(ab), mem_size, allocated_block_head \ {ab})
         /\ \A p, q \in 1 .. Len(free_mem(ab)) :
              p < q => ~OutOfOrder(ma_algorithm, free_mem(ab)[p], free_mem(ab)[q])
<1> DEFINE list == free_block
           n == Len(free_block)
           used == allocated_block_head
           freed == [start_addr |-> ab.start_addr, size |-> ab.size]
           longer == <<freed>> \o list
           sorted == rearrange(MA_FF, longer)
           merged == merge(sorted)
<1>1. /\ list \in Seq(RawBlocks) /\ n \in Nat
      /\ \A k \in 1 .. n : list[k] \in RawBlocks
  BY LenProperties, ElementOfSeq DEF Describes
<1>2. /\ freed \in RawBlocks /\ End(freed) <= mem_size
      /\ \A address : Holds(freed, address) <=> Holds(ab, address)
  BY DEF Placed, RawBlocks, End, Holds
<1> HIDE DEF freed
<1>3. /\ longer \in Seq(RawBlocks) /\ Len(longer) = n + 1 /\ longer[1] = freed
      /\ \A k \in 1 .. n : longer[k + 1] = list[k]
      /\ \A k \in 2 .. n + 1 : longer[k] = list[k - 1]
  <2>1. <<freed>> \in Seq(RawBlocks) /\ Len(<<freed>>) = 1 /\ <<freed>>[1] = freed
    BY <1>2
  <2> QED BY <1>1, <2>1, ConcatProperties
<1> HIDE DEF longer
<1>4. \A k \in 1 .. n + 1 : longer[k] \in RawBlocks /\ End(longer[k]) <= mem_size
  BY <1>1, <1>2, <1>3 DEF Describes
<1>5. \A k \in 1 .. n : End(freed) <= list[k].start_addr \/ End(list[k]) <= freed.start_addr
  <2> TAKE k \in 1 .. n
  <2>1. ASSUME NEW address \in Nat, Holds(freed, address), Holds(list[k], address)
        PROVE  FALSE
    <3>1. address \in 0 .. mem_size - 1
      BY <1>2, <2>1, BlockFacts DEF Holds
    <3>2. Covers(list, n, address)
      BY <2>1 DEF Covers
    <3>3. Held(used, address)
      BY <1>2, <2>1 DEF Held
    <3> QED BY <3>1, <3>2, <3>3 DEF Describes
  <2> QED BY <1>1, <1>2, <2>1, NoCommonAddress
<1>6. ASSUME NEW k \in 1 .. n + 1, NEW l \in 1 .. n + 1, k # l
      PROVE  End(longer[k]) <= longer[l].start_addr \/ End(longer[l]) <= longer[k].start_addr
  <2>1. CASE k = 1
    <3>1. l - 1 \in 1 .. n /\ longer[l] = list[l - 1] /\ longer[k] = freed
      BY <1>1, <1>3, <1>6, <2>1
    <3> QED BY <1>5, <3>1
  <2>2. CASE l = 1
    <3>1. k - 1 \in 1 .. n /\ longer[k] = list[k - 1] /\ longer[l] = freed
      BY <1>1, <1>3, <1>6, <2>2
    <3> QED BY <1>5, <3>1
  <2>3. CASE k # 1 /\ l # 1
    <3>1. /\ k - 1 \in 1 .. n /\ longer[k] = list[k - 1]
          /\ l - 1 \in 1 .. n /\ longer[l] = list[l - 1] /\ k - 1 # l - 1
      BY <1>1, <1>3, <1>6, <2>3
    <3>2. \/ End(list[k - 1]) < list[l - 1].start_addr
          \/ End(list[l - 1]) < list[k - 1].start_addr
      BY <3>1 DEF Describes, Apart
    <3>3. /\ End(list[k - 1]) \in Nat /\ list[k - 1].start_addr \in Nat
          /\ End(list[l - 1]) \in Nat /\ list[l - 1].start_addr \in Nat
      BY <1>1, <3>1, BlockFacts
    <3> QED BY <3>1, <3>2, <3>3
  <2> QED BY <2>1, <2>2, <2>3
<1>7. Distinct(longer)
  <2> SUFFICES ASSUME NEW k \in 1 .. n + 1, NEW l \in 1 .. n + 1,
                      longer[k] = longer[l], k # l
               PROVE  FALSE
    BY <1>3 DEF Distinct
  <2>1. End(longer[k]) <= longer[k].start_addr
    BY <1>6
  <2> QED BY <1>4, <2>1, BlockFacts
<1>8. /\ Shuffled(longer, sorted)
      /\ \A p, q \in 1 .. n + 1 : p < q => ~OutOfOrder(MA_FF, sorted[p], sorted[q])
  BY <1>3, <1>7, RearrangeSorts DEF Algorithms
<1> HIDE DEF sorted
<1>9. /\ sorted \in Seq(RawBlocks) /\ Len(sorted) = n + 1
      /\ \A p \in 1 .. n + 1 : \E k \in 1 .. n + 1 : sorted[p] = longer[k]
      /\ \A k \in 1 .. n + 1 : \E p \in 1 .. n + 1 : sorted[p] = longer[k]
  <2>1. \A p \in 1 .. n + 1 : sorted[p] \in Members(longer) /\ longer[p] \in Members(sorted)
    BY <1>3, <1>8 DEF Shuffled, Members
  <2>2. sorted \in Seq(RawBlocks) /\ Len(sorted) = n + 1
    BY <1>3, <1>8 DEF Shuffled
  <2>3. /\ \A p \in 1 .. n + 1 : \E k \in 1 .. n + 1 : sorted[p] = longer[k]
        /\ \A k \in 1 .. n + 1 : \E p \in 1 .. n + 1 : sorted[p] = longer[k]
    BY <1>3, <2>1, <2>2 DEF Members
  <2> QED BY <2>2, <2>3
<1>10. ASSUME NEW p \in 1 .. n + 1, NEW q \in 1 .. n + 1, p < q
       PROVE  End(sorted[p]) <= sorted[q].start_addr
  <2>1. PICK k \in 1 .. n + 1, l \in 1 .. n + 1 : sorted[p] = longer[k] /\ sorted[q] = longer[l]
    BY <1>9
  <2>2. k # l
    BY <1>3, <1>8, <1>10, <2>1 DEF Shuffled, Distinct
  <2>3. End(sorted[p]) <= sorted[q].start_addr \/ End(sorted[q]) <= sorted[p].start_addr
    BY <1>6, <2>1, <2>2
  <2>4. sorted[p].start_addr <= sorted[q].start_addr
    <3>1. ~(sorted[p].start_addr > sorted[q].start_addr)
      BY <1>8, <1>10 DEF OutOfOrder, MA_FF, MA_BF, MA_WF
    <3>2. sorted[p].start_addr \in Nat /\ sorted[q].start_addr \in Nat
      BY <1>4, <2>1, BlockFacts
    <3> QED BY <3>1, <3>2
  <2>5. /\ sorted[p].start_addr \in Nat /\ End(sorted[q]) \in Nat
        /\ sorted[q].start_addr \in Nat /\ sorted[q].start_addr < End(sorted[q])
    BY <1>4, <2>1, BlockFacts
  <2> QED BY <2>3, <2>4, <2>5
<1>11. /\ merged \in Seq(RawBlocks)
       /\ \A p, q \in 1 .. Len(merged) : p < q => End(merged[p]) < merged[q].start_addr
       /\ \A address \in Nat :
            Covers(merged, Len(merged), address) <=> Covers(sorted, n + 1, address)
  <2>1. /\ Len(sorted) >= 1
        /\ \A p, q \in 1 .. Len(sorted) : p < q => End(sorted[p]) <= sorted[q].start_addr
    <3>1. Len(sorted) = n + 1 /\ n + 1 >= 1
      BY <1>1, <1>9
    <3> HIDE DEF sorted, n
    <3> QED BY <1>10, <3>1
  <2>2. /\ merged \in Seq(RawBlocks)
        /\ \A p, q \in 1 .. Len(merged) : p < q => End(merged[p]) < merged[q].start_addr
        /\ \A address \in Nat :
             Covers(merged, Len(merged), address) <=> Covers(sorted, Len(sorted), address)
    BY <1>9, <2>1, MergeJoins
  <2> HIDE DEF merged
  <2> QED BY <1>9, <2>2
<1> HIDE DEF merged
<1>12. \A address : Covers(sorted, n + 1, address) <=>
                      Holds(ab, address) \/ Covers(list, n, address)
  <2> TAKE address
  <2>1. Covers(sorted, n + 1, address) <=> \E k \in 1 .. n + 1 : Holds(longer[k], address)
    BY <1>9 DEF Covers
  <2>2. (\E k \in 1 .. n + 1 : Holds(longer[k], address)) <=>
           Holds(freed, address) \/ \E k \in 1 .. n : Holds(list[k], address)
    <3>1. ASSUME NEW k \in 1 .. n + 1, Holds(longer[k], address)
          PROVE  Holds(freed, address) \/ \E l \in 1 .. n : Holds(list[l], address)
      <4>1. CASE k = 1
        BY <1>3, <3>1, <4>1
      <4>2. CASE k # 1
        <5>1. k - 1 \in 1 .. n /\ longer[k] = list[k - 1]
          BY <1>1, <1>3, <4>2
        <5> QED BY <3>1, <5>1
      <4> QED BY <4>1, <4>2
    <3>2. Holds(freed, address) => \E k \in 1 .. n + 1 : Holds(longer[k], address)
      <4>1. 1 \in 1 .. n + 1
        BY <1>1
      <4> QED BY <1>3, <4>1
    <3>3. ASSUME NEW l \in 1 .. n, Holds(list[l], address)
          PROVE  \E k \in 1 .. n + 1 : Holds(longer[k], address)
      <4>1. l + 1 \in 1 .. n + 1
        BY <1>1
      <4> QED BY <1>3, <3>3, <4>1
    <3> QED BY <3>1, <3>2, <3>3
  <2> QED BY <1>2, <2>1, <2>2 DEF Covers
<1>13. Describes(merged, mem_size, used \ {ab})
  <2>1. Len(merged) \in Nat /\ \A p \in 1 .. Len(merged) : merged[p] \in RawBlocks
    BY <1>11, LenProperties, ElementOfSeq
  <2>2. Apart(merged)
    BY <1>11, <2>1 DEF Apart
  <2>3. \A p \in 1 .. Len(merged) : End(merged[p]) <= mem_size
    <3> TAKE p \in 1 .. Len(merged)
    <3>1. /\ End(merged[p]) \in Nat /\ merged[p].start_addr \in Nat
          /\ merged[p].start_addr < End(merged[p])
      BY <2>1, BlockFacts
    <3> DEFINE address == End(merged[p]) - 1
    <3>2. address \in Nat /\ Holds(merged[p], address)
      BY <3>1 DEF Holds
    <3>3. Covers(sorted, n + 1, address)
      BY <1>11, <3>2 DEF Covers
    <3>4. PICK k \in 1 .. n + 1 : Holds(longer[k], address)
      BY <1>9, <3>3 DEF Covers
    <3>5. address < End(longer[k]) /\ End(longer[k]) <= mem_size /\ End(longer[k]) \in Nat
      BY <1>4, <3>4, BlockFacts DEF Holds
    <3> QED BY <3>1, <3>5
  <2>4. ASSUME NEW address \in 0 .. mem_size - 1
        PROVE  Covers(merged, Len(merged), address) <=> ~Held(used \ {ab}, address)
    <3>1. Covers(merged, Len(merged), address) <=> Holds(ab, address) \/ Covers(list, n, address)
      BY <1>11, <1>12
    <3>2. Covers(list, n, address) <=> ~Held(used, address)
      BY DEF Describes
    <3>3. Held(used, address) <=> Holds(ab, address) \/ Held(used \ {ab}, address)
      BY DEF Held
    <3>4. Holds(ab, address) => ~Held(used \ {ab}, address)
      <4> SUFFICES ASSUME NEW other \in used \ {ab}, Holds(ab, address), Holds(other, address)
                   PROVE  FALSE
        BY DEF Held
      <4>1. End(ab) <= other.start_addr \/ End(other) <= ab.start_addr
        BY DEF Placed
      <4>2. /\ ab.start_addr \in Nat /\ ab.size \in Nat
            /\ other.start_addr \in Nat /\ other.size \in Nat
        BY DEF Placed
      <4> QED BY <4>1, <4>2 DEF Holds, End
    <3> QED BY <3>1, <3>2, <3>3, <3>4
  <2> QED BY <1>11, <2>2, <2>3, <2>4 DEF Describes
<1>14. free_mem(ab) = rearrange(ma_algorithm, merged)
  BY DEF free_mem, merged, sorted, longer, freed
<1> QED BY <1>13, <1>14, RearrangeDescribes
-----------------------------------------------------------------------------
(* The inductive invariant. *)

Sorted(algorithm, list) ==
    \A p, q \in 1 .. Len(list) : p < q => ~OutOfOrder(algorithm, list[p], list[q])

MemoryInv ==
    /\ TypeOK
    /\ Describes(free_block, mem_size, allocated_block_head)
    /\ Placed(mem_size, allocated_block_head)
    /\ \A ab, other \in allocated_block_head : ab # other => ab.pid # other.pid
    /\ Sorted(ma_algorithm, free_block)
    /\ flag = 0 =>
         /\ allocated_block_head = {}
         /\ free_block = <<[start_addr |-> 0, size |-> mem_size]>>

(* What the types of the parameters say.                                   *)
LEMMA MemoryFacts ==
  ASSUME TypeOK
  PROVE  /\ mem_size \in Nat \ {0} /\ ma_algorithm \in Algorithms
         /\ pid \in Nat /\ pid <= MaxPid /\ MaxPid \in Nat /\ MinSlice \in Nat
         /\ \A ab \in allocated_block_head :
              /\ ab.pid \in 1 .. pid /\ ab.start_addr \in Nat /\ ab.size \in Nat \ {0}
              /\ ab = [pid |-> ab.pid, start_addr |-> ab.start_addr, size |-> ab.size]
<1>1. mem_size \in Nat \ {0} /\ MaxPid \in Nat /\ MinSlice \in Nat
  BY MemoryAssumption DEF TypeOK, MemoryAssumption
<1>2. ma_algorithm \in Algorithms /\ pid \in Nat /\ pid <= MaxPid
  BY <1>1 DEF TypeOK
<1>3. ASSUME NEW ab \in allocated_block_head
      PROVE  /\ ab.pid \in 1 .. pid /\ ab.start_addr \in Nat /\ ab.size \in Nat \ {0}
             /\ ab = [pid |-> ab.pid, start_addr |-> ab.start_addr, size |-> ab.size]
  <2>1. ab \in [pid : 1 .. pid, start_addr : 0 .. mem_size - 1, size : 1 .. mem_size]
    BY DEF TypeOK
  <2> QED BY <1>1, <1>2, <2>1
<1> QED BY <1>1, <1>2, <1>3

(* A list that describes a memory has the types of free_block.             *)
LEMMA DescribedTypes ==
  ASSUME NEW list, NEW total \in Nat, NEW used, Describes(list, total, used)
  PROVE  list \in Seq([start_addr : 0 .. total - 1, size : 1 .. total])
<1>1. list \in Seq(RawBlocks) /\ Len(list) \in Nat
  BY LenProperties DEF Describes
<1>2. ASSUME NEW i \in 1 .. Len(list)
      PROVE  list[i] \in [start_addr : 0 .. total - 1, size : 1 .. total]
  <2>1. list[i] \in RawBlocks /\ End(list[i]) <= total
    BY <1>1, ElementOfSeq DEF Describes
  <2>2. list[i] = [start_addr |-> list[i].start_addr, size |-> list[i].size]
    BY <2>1 DEF RawBlocks
  <2>3. list[i].start_addr \in 0 .. total - 1 /\ list[i].size \in 1 .. total
    BY <2>1, BlockFacts
  <2> QED BY <2>2, <2>3
<1> DEFINE n == Len(list)
           S == [start_addr : 0 .. total - 1, size : 1 .. total]
<1>3. list = [i \in 1 .. n |-> list[i]]
  BY <1>1, LenProperties
<1> HIDE DEF S
<1>4. [i \in 1 .. n |-> list[i]] \in [1 .. n -> S]
  BY <1>2 DEF S
<1>5. [1 .. n -> S] \subseteq Seq(S)
  BY <1>1, SeqDef
<1> QED BY <1>3, <1>4, <1>5 DEF S

(* The free list of an empty memory.                                       *)
LEMMA WholeDescribes ==
  ASSUME NEW total \in Nat \ {0}, NEW algorithm
  PROVE  LET list == <<[start_addr |-> 0, size |-> total]>> IN
         Describes(list, total, {}) /\ Placed(total, {}) /\ Sorted(algorithm, list)
<1> DEFINE list == <<[start_addr |-> 0, size |-> total]>>
<1>1. /\ list \in Seq(RawBlocks) /\ Len(list) = 1
      /\ list[1].start_addr = 0 /\ list[1].size = total
  BY DEF RawBlocks
<1> HIDE DEF list
<1>2. End(list[1]) = total
  BY <1>1 DEF End
<1>3. \A address \in 0 .. total - 1 : Covers(list, 1, address) /\ ~Held({}, address)
  BY <1>1, <1>2 DEF Covers, Held, Holds
<1>4. Describes(list, total, {})
  BY <1>1, <1>2, <1>3 DEF Describes, Apart
<1>5. Placed(total, {}) /\ Sorted(algorithm, list)
  BY <1>1 DEF Placed, Sorted
<1> QED BY <1>4, <1>5 DEF list

(* An address is free in the map when no process has it.                   *)
LEMMA FreeIsNotHeld ==
  ASSUME TypeOK, NEW address \in Int
  PROVE  Map!IsFree(address) <=> ~Held(allocated_block_head, address)
<1>1. Map!IsFree(address) <=>
         \A ab \in allocated_block_head :
             address < ab.start_addr \/ ab.start_addr + ab.size <= address
  <2> DEFINE Piece(ab) == [pid |-> ab.pid, start |-> ab.start_addr, size |-> ab.size]
             Away(p) == address < p.start \/ p.start + p.size <= address
  <2>1. InUse = {Piece(ab) : ab \in allocated_block_head}
    BY DEF InUse
  <2>2. Map!IsFree(address) <=> \A p \in InUse : Away(p)
    BY DEF Map!IsFree
  <2>3. ASSUME NEW ab
        PROVE  Away(Piece(ab)) <=>
                   address < ab.start_addr \/ ab.start_addr + ab.size <= address
    OBVIOUS
  <2> HIDE DEF Piece, Away
  <2> QED BY <2>1, <2>2, <2>3
<1>2. \A ab \in allocated_block_head : ab.start_addr \in Nat /\ ab.size \in Nat
  BY MemoryFacts
<1> QED BY <1>1, <1>2 DEF Held, Holds, End

(* The gap that a block of the list is.                                    *)
AsGap(b) == [start |-> b.start_addr, size |-> b.size]

(* The blocks of the list are the gaps of the map: a block is free and     *)
(* cannot be extended as the next block does not touch it, and a gap that  *)
(* begins or ends inside a block could be extended.                        *)
LEMMA GapsAreListed ==
  ASSUME TypeOK, Describes(free_block, mem_size, allocated_block_head)
  PROVE  Map!Gaps = {AsGap(free_block[i]) : i \in 1 .. Len(free_block)}
<1> DEFINE n == Len(free_block)
           total == mem_size
<1>1. total \in Nat /\ n \in Nat /\ \A i \in 1 .. n : free_block[i] \in RawBlocks
  BY MemoryFacts, LenProperties, ElementOfSeq DEF Describes
<1>2. \A i \in 1 .. n :
         /\ free_block[i].start_addr \in Nat /\ free_block[i].size \in Nat \ {0}
         /\ End(free_block[i]) = free_block[i].start_addr + free_block[i].size
         /\ End(free_block[i]) <= total
  BY <1>1, BlockFacts DEF Describes
<1>3. \A address \in 0 .. total - 1 :
         Map!IsFree(address) <=> \E i \in 1 .. n : Holds(free_block[i], address)
  <2> TAKE address \in 0 .. total - 1
  <2>1. Map!IsFree(address) <=> ~Held(allocated_block_head, address)
    BY FreeIsNotHeld
  <2> QED BY <2>1 DEF Describes, Covers
<1>4. ASSUME NEW i \in 1 .. n PROVE AsGap(free_block[i]) \in Map!Gaps
  <2> DEFINE b == free_block[i]
             g == AsGap(b)
  <2>1. g.start = b.start_addr /\ g.size = b.size
    BY DEF AsGap
  <2>2. g \in [start : 0 .. total - 1, size : 1 .. total] /\ g.start + g.size <= total
    BY <1>1, <1>2 DEF AsGap
  <2> HIDE DEF g
  <2>3. \A address \in g.start .. g.start + g.size - 1 : Map!IsFree(address)
    <3> TAKE address \in g.start .. g.start + g.size - 1
    <3>1. address \in 0 .. total - 1 /\ Holds(free_block[i], address)
      BY <1>1, <1>2, <2>1 DEF Holds
    <3> QED BY <1>3, <3>1
  <2>4. ASSUME NEW address \in 0 .. total - 1,
               address = g.start - 1 \/ address = g.start + g.size, Map!IsFree(address)
        PROVE  FALSE
    <3>1. PICK k \in 1 .. n : Holds(free_block[k], address)
      BY <1>3, <2>4
    <3>2. CASE k = i
      BY <1>2, <2>1, <2>4, <3>1, <3>2 DEF Holds
    <3>3. CASE k # i
      <4>1. \/ End(free_block[k]) < b.start_addr
            \/ End(b) < free_block[k].start_addr
        BY <3>3 DEF Describes, Apart
      <4> HIDE DEF b
      <4>2. /\ b.start_addr \in Nat /\ b.size \in Nat /\ End(b) = b.start_addr + b.size
            /\ End(free_block[k]) \in Nat /\ free_block[k].start_addr \in Nat
        BY <1>2, SMTT(30) DEF b
      <4> QED BY <2>1, <2>4, <3>1, <4>1, <4>2, SMTT(30) DEF Holds
    <3> QED BY <3>2, <3>3
  <2>5. Map!IsGap(g.start, g.size)
    <3>1. g.start \in Nat /\ g.size \in Nat /\ g.start + g.size <= total
      BY <1>1, <2>2
    <3>2. g.start > 0 => g.start - 1 \in 0 .. total - 1
      BY <1>1, <2>2
    <3>3. g.start + g.size < total => g.start + g.size \in 0 .. total - 1
      BY <1>1, <3>1
    <3> QED BY <2>3, <2>4, <3>2, <3>3 DEF Map!IsGap
  <2> QED BY <2>2, <2>5 DEF Map!Gaps, g
<1>5. ASSUME NEW g \in Map!Gaps PROVE \E i \in 1 .. n : g = AsGap(free_block[i])
  <2>1. /\ g \in [start : 0 .. total - 1, size : 1 .. total]
        /\ g.start + g.size <= total /\ Map!IsGap(g.start, g.size)
    BY DEF Map!Gaps
  <2>2. g.start \in 0 .. total - 1 /\ g.size \in 1 .. total
        /\ g = [start |-> g.start, size |-> g.size]
    BY <2>1
  <2>3. /\ \A address \in g.start .. g.start + g.size - 1 : Map!IsFree(address)
        /\ g.start > 0 => ~Map!IsFree(g.start - 1)
        /\ g.start + g.size < total => ~Map!IsFree(g.start + g.size)
    BY <2>1 DEF Map!IsGap
  <2>4. PICK i \in 1 .. n : Holds(free_block[i], g.start)
    <3>1. g.start \in g.start .. g.start + g.size - 1
      BY <1>1, <2>2
    <3> QED BY <1>3, <2>2, <2>3, <3>1
  <2> DEFINE b == free_block[i]
  <2>5. /\ b.start_addr \in Nat /\ b.size \in Nat \ {0} /\ End(b) = b.start_addr + b.size
        /\ End(b) <= total /\ b.start_addr <= g.start /\ g.start < End(b)
    BY <1>2, <2>4 DEF Holds
  <2>6. \A address \in 0 .. total - 1 : Holds(b, address) => Map!IsFree(address)
    BY <1>3
  <2>7. b.start_addr = g.start
    <3> SUFFICES ASSUME b.start_addr < g.start PROVE FALSE
      BY <2>2, <2>5
    <3> HIDE DEF b
    <3>1. g.start > 0 /\ g.start - 1 \in 0 .. total - 1 /\ Holds(b, g.start - 1)
      BY <1>1, <2>2, <2>5 DEF Holds
    <3> QED BY <2>3, <2>6, <3>1
  <2>8. ~(g.start + g.size < End(b))
    <3> SUFFICES ASSUME g.start + g.size < End(b) PROVE FALSE
      OBVIOUS
    <3> HIDE DEF b
    <3>1. /\ g.start + g.size < total /\ g.start + g.size \in 0 .. total - 1
          /\ Holds(b, g.start + g.size)
      BY <1>1, <2>2, <2>5, SMTT(30) DEF Holds
    <3> QED BY <2>3, <2>6, <3>1
  <2>9. ~(End(b) < g.start + g.size)
    <3> SUFFICES ASSUME End(b) < g.start + g.size PROVE FALSE
      OBVIOUS
    <3>1. End(b) \in g.start .. g.start + g.size - 1 /\ End(b) \in 0 .. total - 1
      <4> HIDE DEF b
      <4> QED BY <1>1, <2>1, <2>2, <2>5
    <3>2. PICK k \in 1 .. n : Holds(free_block[k], End(b))
      BY <1>3, <2>3, <3>1
    <3>3. k # i
      BY <2>5, <3>2 DEF Holds
    <3>4. End(free_block[k]) < b.start_addr \/ End(b) < free_block[k].start_addr
      BY <3>3 DEF Describes, Apart
    <3>5. End(free_block[k]) \in Nat /\ free_block[k].start_addr \in Nat
      BY <1>2
    <3> HIDE DEF b
    <3> QED BY <2>5, <3>2, <3>4, <3>5 DEF Holds
  <2>10. b.size = g.size
    <3> HIDE DEF b
    <3> QED BY <2>2, <2>5, <2>7, <2>8, <2>9
  <2> QED BY <2>2, <2>7, <2>10 DEF AsGap
<1> QED BY <1>4, <1>5
-----------------------------------------------------------------------------
(* The searches of allocate_mem. *)

(* SelectInSeq gives the least index that passes the test, or 0.           *)
LEMMA SelectFindsLeast ==
  ASSUME NEW I \in SUBSET Nat
  PROVE  I # {} =>
           LET m == CHOOSE x \in I : \A y \in I : x <= y
           IN m \in I /\ \A y \in I : m <= y
BY NatSetHasMinimum

(* The first search finds the first block that fits, or 0 if none does.    *)
LEMMA FirstSearchFinds ==
  ASSUME NEW list, Len(list) \in Nat, NEW size, NEW k, k = FirstSearch(list, size)
  PROVE  /\ (k = 0) <=> (\A i \in 1 .. Len(list) : ~(list[i].size >= size))
         /\ k # 0 => /\ k \in 1 .. Len(list) /\ list[k].size >= size
                     /\ \A i \in 1 .. Len(list) : list[i].size >= size => k <= i
<1> DEFINE I == {i \in 1 .. Len(list) : list[i].size >= size}
<1>1. k = IF I # {} THEN Min(I) ELSE 0
  BY DEF FirstSearch, SelectInSeq
<1>2. I \in SUBSET Nat /\ 0 \notin I
  OBVIOUS
<1>3. I # {} => Min(I) \in I /\ \A y \in I : Min(I) <= y
  BY <1>2, SelectFindsLeast DEF Min
<1> QED BY <1>1, <1>2, <1>3

(* What the second search finds is a block that fits.                      *)
LEMMA SecondSearchFinds ==
  ASSUME NEW list, Len(list) \in Nat, NEW size, NEW k, k = SecondSearch(list, size), k # 0
  PROVE  k \in 1 .. Len(list) /\ list[k].size >= size
<1> DEFINE I == {i \in 1 .. Len(list) : list[i].size >= size \/ list[i].size < MinSlice}
           s == IF I # {} THEN Min(I) ELSE 0
<1>1. SelectInSeq(list, LAMBDA b : b.size >= size \/ b.size < MinSlice) = s
  BY DEF SelectInSeq
<1>2. k = s /\ s # 0 /\ list[s].size >= size
  BY <1>1 DEF SecondSearch
<1>3. I \in SUBSET Nat /\ 0 \notin I
  OBVIOUS
<1>4. I # {} => Min(I) \in I
  BY <1>3, SelectFindsLeast DEF Min
<1> QED BY <1>2, <1>4
-----------------------------------------------------------------------------
(* Every choice of the menu keeps the invariant, and is a step of the map. *)

(* The simulator starts with the whole memory free.                        *)
LEMMA StartsFree ==
  ASSUME Init
  PROVE  MemoryInv /\ Map!Init
<1>1. /\ mem_size = DefaultSize /\ DefaultSize \in MemSizes /\ DefaultSize \in Nat \ {0}
      /\ free_block = <<[start_addr |-> 0, size |-> mem_size]>>
      /\ allocated_block_head = {}
  BY DefaultSizeAssumption, MemoryAssumption
     DEF Init, DefaultSizeAssumption, MemoryAssumption
<1>2. /\ Describes(free_block, mem_size, {}) /\ Placed(mem_size, {})
      /\ Sorted(ma_algorithm, free_block)
  BY <1>1, WholeDescribes
<1>3. free_block \in Seq(FreeBlocks)
  BY <1>1, <1>2, DescribedTypes DEF FreeBlocks
<1>4. TypeOK
  BY <1>1, <1>3, MemoryAssumption
     DEF Init, TypeOK, MemoryAssumption, Algorithms, MA_FF, MA_BF, MA_WF
<1>5. Map!Init
  BY <1>1 DEF Init, Map!Init, Map!MA_FF, InUse, MA_FF
<1> QED BY <1>1, <1>2, <1>4, <1>5 DEF MemoryInv

(* The memory gets another size while it is one free block.                *)
LEMMA SetMemSizeStep ==
  ASSUME MemoryInv, NEW size \in MemSizes, set_mem_size(size)
  PROVE  MemoryInv' /\ Map!Resize(size)
<1>1. /\ allocated_block_head = {} /\ allocated_block_head' = {}
      /\ free_block = <<[start_addr |-> 0, size |-> mem_size]>>
      /\ mem_size' = size /\ ma_algorithm' = ma_algorithm
  BY DEF MemoryInv, set_mem_size
<1>2. free_block' = <<[start_addr |-> 0, size |-> size]>>
  BY <1>1 DEF set_mem_size
<1>3. size \in Nat \ {0}
  BY MemoryAssumption DEF MemoryAssumption
<1>4. /\ Describes(free_block', size, {}) /\ Placed(size, {})
      /\ Sorted(ma_algorithm', free_block')
  BY <1>2, <1>3, WholeDescribes
<1>5. free_block' \in Seq([start_addr : 0 .. size - 1, size : 1 .. size])
  BY <1>3, <1>4, DescribedTypes
<1>6. TypeOK'
  BY <1>1, <1>5 DEF MemoryInv, TypeOK, FreeBlocks, set_mem_size
<1>7. MemoryInv'
  <2>1. Describes(free_block, mem_size, allocated_block_head)'
    BY <1>1, <1>4 DEF Describes
  <2>2. Placed(mem_size, allocated_block_head)' /\ Sorted(ma_algorithm, free_block)'
    BY <1>1, <1>4 DEF Placed, Sorted
  <2> QED BY <1>1, <1>2, <1>6, <2>1, <2>2 DEF MemoryInv
<1>8. Map!Resize(size)
  BY <1>1 DEF Map!Resize, InUse, set_mem_size
<1> QED BY <1>7, <1>8

(* The list is put in the order of another algorithm.                      *)
LEMMA SetAlgorithmStep ==
  ASSUME MemoryInv, NEW algorithm \in 0 .. 3, set_algorithm(algorithm)
  PROVE  MemoryInv' /\ ma_algorithm' \in Algorithms /\ Map!Choose(ma_algorithm')
<1>1. /\ ma_algorithm' \in Algorithms
      /\ free_block' = rearrange(ma_algorithm', free_block)
      /\ flag' = 1
      /\ UNCHANGED <<mem_size, pid, allocated_block_head>>
  BY DEF MemoryInv, TypeOK, set_algorithm
<1>2. /\ Describes(free_block', mem_size, allocated_block_head)
      /\ Sorted(ma_algorithm', free_block')
  BY <1>1, RearrangeDescribes DEF MemoryInv, Sorted
<1>3. free_block' \in Seq([start_addr : 0 .. mem_size - 1, size : 1 .. mem_size])
  BY <1>2, MemoryFacts, DescribedTypes DEF MemoryInv
<1>4. TypeOK'
  BY <1>1, <1>3 DEF MemoryInv, TypeOK, FreeBlocks, set_algorithm
<1>5. MemoryInv'
  BY <1>1, <1>2, <1>4 DEF MemoryInv, Describes, Placed, Sorted
<1>6. Map!Choose(ma_algorithm')
  BY <1>1 DEF Map!Choose, InUse, set_algorithm
<1> QED BY <1>1, <1>5, <1>6

(* A choice that only sets the flag is the choice of the same algorithm.   *)
LEMMA OnlyFlagStep ==
  ASSUME MemoryInv, OnlyFlag
  PROVE  MemoryInv' /\ ma_algorithm' \in Algorithms /\ Map!Choose(ma_algorithm')
<1>1. /\ flag' = 1 /\ ret' = 0
      /\ UNCHANGED <<mem_size, ma_algorithm, pid, free_block, allocated_block_head, mode>>
  BY DEF OnlyFlag
<1>2. TypeOK' /\ ma_algorithm' \in Algorithms
  BY <1>1 DEF MemoryInv, TypeOK, FreeBlocks
<1>3. MemoryInv'
  BY <1>1, <1>2 DEF MemoryInv, Describes, Placed, Sorted
<1>4. Map!Choose(ma_algorithm')
  BY <1>1 DEF Map!Choose, InUse
<1> QED BY <1>2, <1>3, <1>4

(* The end of the program and the stop of the model change nothing else.   *)
LEMMA StopStep ==
  ASSUME MemoryInv,
         mode' \in {"running", "exited", "crashed", "unset"},
         UNCHANGED <<mem_size, ma_algorithm, pid, free_block, allocated_block_head, ret>>,
         flag' \in {flag, 1}
  PROVE  MemoryInv' /\ UNCHANGED Map!vars
<1>1. TypeOK'
  BY DEF MemoryInv, TypeOK, FreeBlocks
<1>2. MemoryInv'
  BY <1>1 DEF MemoryInv, Describes, Placed, Sorted, TypeOK
<1>3. UNCHANGED Map!vars
  BY DEF Map!vars, InUse
<1> QED BY <1>2, <1>3

(* The gap of the first block that fits is one the algorithm prefers: the  *)
(* list is in its order.                                                   *)
LEMMA FirstFitIsPreferred ==
  ASSUME MemoryInv, NEW size \in Requests, NEW i \in 1 .. Len(free_block),
         free_block[i].size >= size,
         \A j \in 1 .. Len(free_block) : free_block[j].size >= size => i <= j
  PROVE  /\ AsGap(free_block[i]) \in Map!Fitting(size)
         /\ \A h \in Map!Fitting(size) : Map!Prefers(AsGap(free_block[i]), h)
         /\ Map!Share(AsGap(free_block[i]), size) = Given(free_block[i], size)
<1>1. /\ Len(free_block) \in Nat /\ ma_algorithm \in Algorithms /\ size \in Nat
      /\ \A k \in 1 .. Len(free_block) : free_block[k] \in RawBlocks
  BY LenProperties, ElementOfSeq, MemoryFacts, MemoryAssumption
     DEF MemoryInv, Describes, MemoryAssumption
<1>2. Map!Gaps = {AsGap(free_block[k]) : k \in 1 .. Len(free_block)}
  BY GapsAreListed DEF MemoryInv
<1>3. \A k \in 1 .. Len(free_block) :
         /\ AsGap(free_block[k]).start = free_block[k].start_addr
         /\ AsGap(free_block[k]).size = free_block[k].size
  BY DEF AsGap
<1>4. AsGap(free_block[i]) \in Map!Fitting(size)
  BY <1>2, <1>3 DEF Map!Fitting
<1>5. ASSUME NEW h \in Map!Fitting(size) PROVE Map!Prefers(AsGap(free_block[i]), h)
  <2>1. PICK k \in 1 .. Len(free_block) : h = AsGap(free_block[k])
    BY <1>2 DEF Map!Fitting
  <2>2. h.size >= size
    BY DEF Map!Fitting
  <2>3. free_block[k].size >= size
    BY <1>3, <2>1, <2>2
  <2>4. i <= k
    BY <2>3
  <2>5. ~OutOfOrder(ma_algorithm, free_block[i], free_block[k])
    <3>1. CASE i = k
      <4>1. /\ Rank(ma_algorithm, free_block[i]) \in Int
            /\ OutOfOrder(ma_algorithm, free_block[i], free_block[k]) =>
                  Rank(ma_algorithm, free_block[i]) > Rank(ma_algorithm, free_block[i])
        BY <1>1, <3>1, OutOfOrderIsRank
      <4> QED BY <4>1
    <3>2. CASE i < k
      BY <3>2 DEF MemoryInv, Sorted
    <3> QED BY <2>4, <3>1, <3>2
  <2>6. /\ free_block[i].size \in Nat /\ free_block[i].start_addr \in Nat
        /\ free_block[k].size \in Nat /\ free_block[k].start_addr \in Nat
    BY <1>1, BlockFacts
  <2>7. CASE ma_algorithm = MA_FF
    BY <1>3, <2>1, <2>5, <2>6, <2>7
       DEF OutOfOrder, Map!Prefers, MA_FF, MA_BF, MA_WF, Map!MA_FF, Map!MA_BF, Map!MA_WF
  <2>8. CASE ma_algorithm = MA_BF
    BY <1>3, <2>1, <2>5, <2>6, <2>8
       DEF OutOfOrder, Map!Prefers, MA_FF, MA_BF, MA_WF, Map!MA_FF, Map!MA_BF, Map!MA_WF
  <2>9. CASE ma_algorithm = MA_WF
    BY <1>3, <2>1, <2>5, <2>6, <2>9
       DEF OutOfOrder, Map!Prefers, MA_FF, MA_BF, MA_WF, Map!MA_FF, Map!MA_BF, Map!MA_WF
  <2> QED BY <1>1, <2>7, <2>8, <2>9 DEF Algorithms
<1>6. Map!Share(AsGap(free_block[i]), size) = Given(free_block[i], size)
  BY <1>3 DEF Map!Share, Given, TakesWhole
<1> QED BY <1>4, <1>5, <1>6

(* The first block that fits goes to the new process.                      *)
LEMMA GrantStep ==
  ASSUME MemoryInv, NEW size \in Requests, pid < MaxPid, mode = "running",
         NEW i \in 1 .. Len(free_block), free_block[i].size >= size,
         \A j \in 1 .. Len(free_block) : free_block[j].size >= size => i <= j,
         Grant(free_block, i, size), Remaining(free_block, i, size) # <<>>,
         flag' = 1, UNCHANGED <<mem_size, ma_algorithm>>
  PROVE  MemoryInv' /\ Map!Start(pid + 1, size)
<1> DEFINE b == free_block[i]
           new == [pid |-> pid + 1, start_addr |-> b.start_addr, size |-> Given(b, size)]
           rest == Remaining(free_block, i, size)
           used == allocated_block_head \cup {new}
<1>1. /\ free_block' = rearrange(ma_algorithm, rest)
      /\ pid' = pid + 1 /\ allocated_block_head' = used
      /\ ret' = 1 /\ mode' = "running"
  BY DEF Grant, Given
<1>2. /\ mem_size \in Nat \ {0} /\ size \in Nat \ {0} /\ pid \in Nat /\ MaxPid \in Nat
      /\ ma_algorithm \in Algorithms
      /\ Describes(free_block, mem_size, allocated_block_head)
      /\ free_block \in Seq(RawBlocks) /\ b \in RawBlocks
  BY MemoryFacts, MemoryAssumption, ElementOfSeq
     DEF MemoryInv, MemoryAssumption, Describes
<1>3. new.pid = pid + 1 /\ new.start_addr = b.start_addr /\ new.size = Given(b, size)
  OBVIOUS
<1> HIDE DEF new
<1>4. size <= b.size
  BY <1>2, BlockFacts
<1>5. /\ Describes(rest, mem_size, used)
      /\ new.start_addr \in Nat /\ new.size \in Nat \ {0} /\ End(new) <= End(b)
  BY <1>2, <1>3, <1>4, RemainingDescribes
<1>6. End(b) <= mem_size /\ End(b) \in Nat /\ End(new) \in Nat /\ End(new) <= mem_size
      /\ End(new) = new.start_addr + new.size
  <2>1. End(b) <= mem_size /\ End(b) \in Nat
    BY <1>2, BlockFacts DEF Describes
  <2> QED BY <1>2, <1>5, <2>1 DEF End
<1>7. /\ Describes(free_block', mem_size, used)
      /\ Sorted(ma_algorithm, free_block')
  BY <1>1, <1>2, <1>5, RearrangeDescribes DEF Sorted
<1>8. Placed(mem_size, used)
  <2>1. ASSUME NEW ab \in allocated_block_head
        PROVE  End(ab) <= new.start_addr \/ End(new) <= ab.start_addr
    <3> DEFINE piece == [start_addr |-> ab.start_addr, size |-> ab.size]
               given == [start_addr |-> new.start_addr, size |-> new.size]
    <3>1. /\ piece \in RawBlocks /\ given \in RawBlocks
          /\ piece.start_addr = ab.start_addr /\ piece.size = ab.size
          /\ given.start_addr = new.start_addr /\ given.size = new.size
      BY <1>5 DEF MemoryInv, Placed, RawBlocks
    <3>2. End(piece) = End(ab) /\ End(given) = End(new)
      BY <3>1 DEF End
    <3> HIDE DEF piece, given
    <3>3. \A address \in Nat : ~(Holds(piece, address) /\ Holds(given, address))
      <4> SUFFICES ASSUME NEW address \in Nat, Holds(piece, address), Holds(given, address)
                   PROVE  FALSE
        OBVIOUS
      <4>1. Holds(ab, address) /\ Holds(new, address)
        BY <3>1, <3>2 DEF Holds
      <4>2. address \in 0 .. mem_size - 1 /\ Holds(b, address)
        BY <1>2, <1>3, <1>5, <1>6, <4>1 DEF Holds
      <4>3. Covers(free_block, Len(free_block), address)
        BY <4>2 DEF Covers
      <4>4. Held(allocated_block_head, address)
        BY <4>1 DEF Held
      <4> QED BY <1>2, <4>2, <4>3, <4>4 DEF Describes
    <3>4. End(piece) <= given.start_addr \/ End(given) <= piece.start_addr
      BY <3>1, <3>3, NoCommonAddress
    <3> QED BY <3>1, <3>2, <3>4
  <2> QED BY <1>5, <1>6, <2>1 DEF MemoryInv, Placed
<1>9. \A ab \in allocated_block_head : ab.pid \in 1 .. pid /\ ab.pid # new.pid
  BY <1>2, <1>3, MemoryFacts DEF MemoryInv
<1>10. TypeOK'
  <2>1. free_block' \in Seq(FreeBlocks')
    BY <1>2, <1>7, DescribedTypes DEF FreeBlocks
  <2>2. new \in [pid : 1 .. pid + 1, start_addr : 0 .. mem_size - 1, size : 1 .. mem_size]
    <3>1. /\ new.pid \in 1 .. pid + 1
          /\ new.start_addr \in 0 .. mem_size - 1 /\ new.size \in 1 .. mem_size
      BY <1>2, <1>3, <1>5, <1>6, SMTT(30)
    <3> QED BY <3>1 DEF new
  <2>3. allocated_block_head \subseteq
            [pid : 1 .. pid + 1, start_addr : 0 .. mem_size - 1, size : 1 .. mem_size]
    <3>1. 1 .. pid \subseteq 1 .. pid + 1
      BY <1>2
    <3> QED BY <3>1 DEF MemoryInv, TypeOK
  <2>4. pid' \in 0 .. MaxPid
    BY <1>1, <1>2
  <2> QED BY <1>1, <2>1, <2>2, <2>3, <2>4 DEF MemoryInv, TypeOK
<1>11. MemoryInv'
  <2>1. Describes(free_block, mem_size, allocated_block_head)'
    BY <1>1, <1>7 DEF Describes
  <2>2. Placed(mem_size, allocated_block_head)'
    BY <1>1, <1>8 DEF Placed
  <2>3. Sorted(ma_algorithm, free_block)'
    BY <1>7 DEF Sorted
  <2>4. \A ab, other \in allocated_block_head' : ab # other => ab.pid # other.pid
    BY <1>1, <1>9 DEF MemoryInv
  <2> QED BY <1>10, <2>1, <2>2, <2>3, <2>4 DEF MemoryInv
<1>12. Map!Start(pid + 1, size)
  <2>1. \A p \in InUse : p.pid # pid + 1
    BY <1>3, <1>9 DEF InUse
  <2>2. InUse' = InUse \cup {[pid |-> pid + 1, start |-> b.start_addr, size |-> Given(b, size)]}
    <3>1. InUse' = {[pid |-> ab.pid, start |-> ab.start_addr, size |-> ab.size] : ab \in used}
      BY <1>1 DEF InUse
    <3> QED BY <1>3, <3>1 DEF InUse
  <2>3. /\ AsGap(b) \in Map!Fitting(size)
        /\ \A h \in Map!Fitting(size) : Map!Prefers(AsGap(b), h)
        /\ Map!Share(AsGap(b), size) = Given(b, size)
        /\ AsGap(b).start = b.start_addr
    BY FirstFitIsPreferred DEF AsGap
  <2> QED BY <1>1, <2>1, <2>2, <2>3 DEF Map!Start
<1> QED BY <1>11, <1>12

(* No gap is large enough, and the list is rearranged for nothing.         *)
LEMMA RefuseStep ==
  ASSUME MemoryInv, NEW size \in Requests, mode = "running",
         \A i \in 1 .. Len(free_block) : ~(free_block[i].size >= size),
         free_block' = rearrange(ma_algorithm, free_block), ret' = -1, flag' = 1,
         UNCHANGED <<mem_size, ma_algorithm, pid, allocated_block_head, mode>>
  PROVE  MemoryInv' /\ Map!Refuse(size)
<1>1. /\ ma_algorithm \in Algorithms /\ mem_size \in Nat
      /\ Describes(free_block', mem_size, allocated_block_head)
      /\ Sorted(ma_algorithm, free_block')
  BY MemoryFacts, RearrangeDescribes DEF MemoryInv, Sorted
<1>2. free_block' \in Seq(FreeBlocks')
  BY <1>1, DescribedTypes DEF FreeBlocks
<1>3. TypeOK'
  BY <1>2 DEF MemoryInv, TypeOK
<1>4. MemoryInv'
  BY <1>1, <1>3 DEF MemoryInv, Describes, Placed, Sorted
<1>5. Map!Fitting(size) = {}
  <2> SUFFICES ASSUME NEW h \in Map!Gaps, h.size >= size PROVE FALSE
    BY DEF Map!Fitting
  <2>1. PICK i \in 1 .. Len(free_block) : h = AsGap(free_block[i])
    BY GapsAreListed DEF MemoryInv
  <2> QED BY <2>1 DEF AsGap
<1>6. Map!Refuse(size)
  BY <1>5 DEF Map!Refuse, InUse
<1> QED BY <1>4, <1>6

(* What the second search would find the first one has found.              *)
LEMMA SecondSearchFindsNothing ==
  ASSUME MemoryInv, NEW size, FirstSearch(free_block, size) = 0
  PROVE  SecondSearch(rearrange(ma_algorithm, free_block), size) = 0
<1> DEFINE again == rearrange(ma_algorithm, free_block)
           k == SecondSearch(again, size)
<1> SUFFICES ASSUME k # 0 PROVE FALSE
  OBVIOUS
<1>1. Shuffled(free_block, again) /\ free_block \in Seq(RawBlocks)
  BY MemoryFacts, RearrangeDescribes DEF MemoryInv, Describes
<1>2. Len(again) \in Nat /\ Len(free_block) \in Nat
  BY <1>1, LenProperties DEF Shuffled
<1> HIDE DEF again
<1>3. k \in 1 .. Len(again) /\ again[k].size >= size
  BY <1>2, SecondSearchFinds
<1>4. \A i \in 1 .. Len(free_block) : ~(free_block[i].size >= size)
  BY <1>2, FirstSearchFinds
<1>5. again[k] \in Members(free_block)
  BY <1>1, <1>3 DEF Shuffled, Members
<1> QED BY <1>3, <1>4, <1>5 DEF Members

(* A new process starts in the map, or is refused there, or the program    *)
(* follows the null pointer of an empty list.                              *)
LEMMA NewProcessStep ==
  ASSUME MemoryInv, NEW size \in Requests, new_process(size)
  PROVE  /\ MemoryInv'
         /\ Map!Start(pid + 1, size) \/ Map!Refuse(size) \/ UNCHANGED Map!vars
<1> DEFINE k == FirstSearch(free_block, size)
           again == rearrange(ma_algorithm, free_block)
<1>1. /\ mode = "running" /\ pid < MaxPid /\ flag' = 1
      /\ mem_size' = mem_size /\ ma_algorithm' = ma_algorithm
  BY DEF new_process
<1>2. Len(free_block) \in Nat
  BY LenProperties DEF MemoryInv, Describes
<1>3. CASE k # 0
  <2>1. /\ k \in 1 .. Len(free_block) /\ free_block[k].size >= size
        /\ \A i \in 1 .. Len(free_block) : free_block[i].size >= size => k <= i
    BY <1>2, <1>3, FirstSearchFinds
  <2>2. Grant(free_block, k, size)
    BY <1>3 DEF new_process
  <2> HIDE DEF k
  <2>3. CASE Remaining(free_block, k, size) = <<>>
    <3>1. mode' = "crashed" /\ UNCHANGED <<pid, free_block, allocated_block_head, ret>>
      BY <2>2, <2>3 DEF Grant
    <3> QED BY <1>1, <3>1, StopStep
  <2>4. CASE Remaining(free_block, k, size) # <<>>
    BY <1>1, <2>1, <2>2, <2>4, GrantStep
  <2> QED BY <2>3, <2>4
<1>4. CASE k = 0
  <2>1. SecondSearch(again, size) = 0
    BY <1>4, SecondSearchFindsNothing
  <2>2. /\ free_block' = again /\ ret' = -1
        /\ UNCHANGED <<pid, allocated_block_head, mode>>
    BY <1>4, <2>1 DEF new_process
  <2>3. \A i \in 1 .. Len(free_block) : ~(free_block[i].size >= size)
    BY <1>2, <1>4, FirstSearchFinds
  <2> QED BY <1>1, <2>2, <2>3, RefuseStep
<1> QED BY <1>3, <1>4

(* The piece of a process that is killed is free again.                    *)
LEMMA KillProcessStep ==
  ASSUME MemoryInv, NEW number \in Pids, kill_process(number)
  PROVE  MemoryInv' /\ Map!Stop(number)
<1>1. PICK ab \in allocated_block_head :
         /\ ab.pid = number
         /\ free_block' = free_mem(ab)
         /\ allocated_block_head' = allocated_block_head \ {ab}
  BY DEF kill_process
<1>2. /\ flag' = 1 /\ ret' = 0 /\ mode' = mode
      /\ mem_size' = mem_size /\ ma_algorithm' = ma_algorithm /\ pid' = pid
  BY DEF kill_process
<1>3. mem_size \in Nat /\ ma_algorithm \in Algorithms
  BY MemoryFacts DEF MemoryInv
<1>4. /\ Describes(free_block', mem_size, allocated_block_head')
      /\ Sorted(ma_algorithm, free_block')
  BY <1>1, <1>3, FreedDescribes DEF MemoryInv, Sorted
<1>5. free_block' \in Seq(FreeBlocks')
  BY <1>2, <1>3, <1>4, DescribedTypes DEF FreeBlocks
<1>6. TypeOK'
  BY <1>1, <1>2, <1>5 DEF MemoryInv, TypeOK
<1>7. MemoryInv'
  <2>1. Describes(free_block, mem_size, allocated_block_head)'
    BY <1>2, <1>4 DEF Describes
  <2>2. Placed(mem_size, allocated_block_head)'
    BY <1>1, <1>2 DEF MemoryInv, Placed
  <2>3. Sorted(ma_algorithm, free_block)'
    BY <1>2, <1>4 DEF Sorted
  <2>4. \A x, y \in allocated_block_head' : x # y => x.pid # y.pid
    BY <1>1 DEF MemoryInv
  <2> QED BY <1>2, <1>6, <2>1, <2>2, <2>3, <2>4 DEF MemoryInv
<1>8. InUse' = {p \in InUse : p.pid # number}
  <2> DEFINE Piece(x) == [pid |-> x.pid, start |-> x.start_addr, size |-> x.size]
  <2>1. /\ InUse = {Piece(x) : x \in allocated_block_head}
        /\ InUse' = {Piece(x) : x \in allocated_block_head \ {ab}}
    BY <1>1 DEF InUse
  <2>2. \A x \in allocated_block_head : Piece(x).pid = number <=> x = ab
    BY <1>1 DEF MemoryInv
  <2> HIDE DEF Piece
  <2> QED BY <2>1, <2>2
<1>9. Map!Stop(number)
  BY <1>2, <1>8 DEF Map!Stop
<1> QED BY <1>7, <1>9

(* Every step keeps the invariant and is a step of the map or none.        *)
LEMMA MemoryStep ==
  ASSUME MemoryInv, [Next]_vars
  PROVE  MemoryInv' /\ [Map!Next]_(Map!vars)
<1>1. ASSUME NEW size \in MemSizes, set_mem_size(size)
      PROVE  MemoryInv' /\ Map!Next
  BY <1>1, SetMemSizeStep DEF Map!Next
<1>2. ASSUME NEW algorithm \in 0 .. 3, set_algorithm(algorithm)
      PROVE  MemoryInv' /\ Map!Next
  BY <1>2, SetAlgorithmStep
     DEF Map!Next, Map!Algorithms, Algorithms, Map!MA_FF, Map!MA_BF, Map!MA_WF,
         MA_FF, MA_BF, MA_WF
<1>3. ASSUME NEW size \in Requests, new_process(size)
      PROVE  MemoryInv' /\ [Map!Next]_(Map!vars)
  <2>1. pid + 1 \in Map!Pids
    <3>1. pid \in Nat /\ MaxPid \in Nat /\ pid < MaxPid
      BY <1>3, MemoryFacts DEF MemoryInv, new_process
    <3> QED BY <3>1 DEF Map!Pids
  <2> QED BY <1>3, <2>1, NewProcessStep DEF Map!Next
<1>4. ASSUME new_process_unset
      PROVE  MemoryInv' /\ UNCHANGED Map!vars
  BY <1>4, StopStep DEF new_process_unset
<1>5. ASSUME NEW number \in Pids, kill_process(number)
      PROVE  MemoryInv' /\ Map!Next
  BY <1>5, KillProcessStep DEF Map!Next, Map!Pids, Pids
<1>6. ASSUME OnlyFlag
      PROVE  MemoryInv' /\ Map!Next
  BY <1>6, OnlyFlagStep
     DEF Map!Next, Map!Algorithms, Algorithms, Map!MA_FF, Map!MA_BF, Map!MA_WF,
         MA_FF, MA_BF, MA_WF
<1>7. ASSUME do_exit
      PROVE  MemoryInv' /\ UNCHANGED Map!vars
  BY <1>7, StopStep DEF do_exit
<1>8. ASSUME UNCHANGED vars
      PROVE  MemoryInv' /\ UNCHANGED Map!vars
  <2>1. mode' \in {"running", "exited", "crashed", "unset"}
    BY <1>8 DEF vars, MemoryInv, TypeOK
  <2> QED BY <1>8, <2>1, StopStep DEF vars
<1> QED BY <1>1, <1>2, <1>3, <1>4, <1>5, <1>6, <1>7, <1>8 DEF Next
-----------------------------------------------------------------------------
(* The theorems. *)

(* The invariant holds in every behaviour of the simulator.                *)
LEMMA MemoryInvariant == Spec => []MemoryInv
<1>1. Init => MemoryInv
  BY StartsFree
<1>2. MemoryInv /\ [Next]_vars => MemoryInv'
  BY MemoryStep
<1> QED BY <1>1, <1>2, PTL DEF Spec

(* Addresses and sizes stay in their ranges: no free block and no piece is *)
(* empty or reaches out of the memory, whichever blocks allocate_mem cuts  *)
(* and free_mem joins.                                                     *)
THEOREM MemTypeCorrect == Spec => []TypeOK
<1>1. MemoryInv => TypeOK
  BY DEF MemoryInv
<1> QED BY <1>1, MemoryInvariant, PTL

(* Nothing is lost, handed out twice or left unmerged: the free list holds *)
(* exactly the gaps between the processes, each of them once, whatever was *)
(* taken and given back and under whatever algorithms.                     *)
THEOREM FreeBlocksAreGaps == Spec => []FreeListIsGaps
<1>1. ASSUME MemoryInv PROVE FreeListIsGaps
  <2>1. free_block \in Seq(RawBlocks) /\ Distinct(free_block)
    BY <1>1, ApartIsDistinct DEF MemoryInv, Describes
  <2>2. DOMAIN free_block = 1 .. Len(free_block)
    BY <2>1, LenProperties
  <2>3. Map!Gaps = {AsGap(free_block[i]) : i \in 1 .. Len(free_block)}
    BY <1>1, GapsAreListed DEF MemoryInv
  <2> QED BY <2>1, <2>2, <2>3 DEF FreeListIsGaps, Distinct, AsGap
<1> QED BY <1>1, MemoryInvariant, PTL

(* The list is in the order of the chosen algorithm between any two        *)
(* commands, after a cut and after the sort by address that the merge      *)
(* needs.                                                                  *)
THEOREM FreeListInOrder == Spec => []ListInOrder
<1>1. MemoryInv => ListInOrder
  BY DEF MemoryInv, Sorted, ListInOrder, IsSorted
<1> QED BY <1>1, MemoryInvariant, PTL

(* The lists implement the memory map: a new process gets the beginning of *)
(* the gap its algorithm prefers, a request is refused only when no gap is *)
(* large enough, and kill_process frees one whole piece.                   *)
THEOREM ListsImplementMap == Spec => ImplementsMemoryMap
<1>1. Init => Map!Init
  BY StartsFree
<1>2. MemoryInv /\ [Next]_vars => [Map!Next]_(Map!vars)
  BY MemoryStep
<1> QED BY <1>1, <1>2, MemoryInvariant, PTL DEF Spec, ImplementsMemoryMap, Map!Spec

(* No address of the memory belongs to two processes, none has two pieces, *)
(* and all lie in the memory, after any sequence of starts and stops.      *)
THEOREM PiecesDisjoint == Spec => []Map!Disjoint
<1>1. ASSUME MemoryInv PROVE Map!Disjoint
  <2> DEFINE Piece(x) == [pid |-> x.pid, start |-> x.start_addr, size |-> x.size]
  <2>1. InUse = {Piece(x) : x \in allocated_block_head}
    BY DEF InUse
  <2>2. \A x \in allocated_block_head : Piece(x).start + Piece(x).size <= mem_size
    BY <1>1 DEF MemoryInv, Placed, End
  <2>3. ASSUME NEW x \in allocated_block_head, NEW y \in allocated_block_head,
               Piece(x) # Piece(y)
        PROVE  /\ Piece(x).pid # Piece(y).pid
               /\ \/ Piece(x).start + Piece(x).size <= Piece(y).start
                  \/ Piece(y).start + Piece(y).size <= Piece(x).start
    BY <1>1, <2>3 DEF MemoryInv, Placed, End
  <2> HIDE DEF Piece
  <2> QED BY <2>1, <2>2, <2>3 DEF Map!Disjoint
<1> QED BY <1>1, MemoryInvariant, PTL
-----------------------------------------------------------------------------
(* The memory map by itself. *)

(* What is known of a gap that is large enough. *)
LEMMA FittingGap ==
    ASSUME Map!TypeOK, NEW size \in Requests, NEW g \in Map!Fitting(size)
    PROVE  /\ mem_size \in Nat /\ size \in Nat \ {0}
           /\ g.start \in Nat /\ g.size \in Nat \ {0}
           /\ g.size >= size
           /\ g.start + g.size <= mem_size
           /\ \A address \in g.start .. g.start + g.size - 1 : Map!IsFree(address)
           /\ Map!Share(g, size) \in Nat \ {0}
           /\ Map!Share(g, size) <= g.size
<1>1. mem_size \in Nat /\ size \in Nat \ {0} /\ MinSlice \in Nat
  BY MemoryAssumption DEF MemoryAssumption, Map!TypeOK
<1>2. g \in Map!Gaps /\ g.size >= size
  BY DEF Map!Fitting
<1>3. /\ g \in [start : 0 .. mem_size - 1, size : 1 .. mem_size]
      /\ g.start + g.size <= mem_size
      /\ Map!IsGap(g.start, g.size)
  BY <1>2 DEF Map!Gaps
<1>4. g.start \in Nat /\ g.size \in Nat \ {0}
  BY <1>1, <1>3
<1>5. \A address \in g.start .. g.start + g.size - 1 : Map!IsFree(address)
  BY <1>3 DEF Map!IsGap
<1>6. Map!Share(g, size) \in Nat \ {0} /\ Map!Share(g, size) <= g.size
  BY <1>1, <1>2, <1>4 DEF Map!Share
<1> QED BY <1>1, <1>2, <1>3, <1>4, <1>5, <1>6

(* Numbers and intervals keep their range: no piece is empty and none      *)
(* begins before the memory, whichever gaps allocate_mem divides.          *)
THEOREM MapTypeCorrect == Map!Spec => []Map!TypeOK
<1> USE MemoryAssumption DEF MemoryAssumption, Map!TypeOK, Map!Pieces, Map!Algorithms
<1>1. Map!Init => Map!TypeOK
  BY DEF Map!Init
<1>2. Map!TypeOK /\ [Map!Next]_(Map!vars) => Map!TypeOK'
  <2> SUFFICES ASSUME Map!TypeOK, [Map!Next]_(Map!vars) PROVE Map!TypeOK'
    OBVIOUS
  <2>1. ASSUME NEW size \in MemSizes, Map!Resize(size) PROVE Map!TypeOK'
    BY <2>1 DEF Map!Resize
  <2>2. ASSUME NEW p \in Map!Algorithms, Map!Choose(p) PROVE Map!TypeOK'
    BY <2>2 DEF Map!Choose
  <2>3. ASSUME NEW id \in Map!Pids, NEW size \in Requests, Map!Start(id, size)
        PROVE Map!TypeOK'
    <3>1. PICK g \in Map!Fitting(size) :
            InUse' = InUse \cup
                {[pid |-> id, start |-> g.start, size |-> Map!Share(g, size)]}
      BY <2>3 DEF Map!Start
    <3>2. g.start \in Nat /\ Map!Share(g, size) \in Nat \ {0}
      BY <3>1, FittingGap
    <3>3. [pid |-> id, start |-> g.start, size |-> Map!Share(g, size)] \in Map!Pieces
      BY <3>2
    <3> QED BY <2>3, <3>1, <3>3 DEF Map!Start
  <2>4. ASSUME NEW size \in Requests, Map!Refuse(size) PROVE Map!TypeOK'
    BY <2>4 DEF Map!Refuse
  <2>5. ASSUME NEW id \in Map!Pids, Map!Stop(id) PROVE Map!TypeOK'
    BY <2>5 DEF Map!Stop
  <2>6. CASE UNCHANGED Map!vars
    BY <2>6 DEF Map!vars
  <2> QED BY <2>1, <2>2, <2>3, <2>4, <2>5, <2>6 DEF Map!Next
<1> QED BY <1>1, <1>2, PTL DEF Map!Spec

(* The part of a gap that a new process gets is inside the memory and      *)
(* meets no piece in use: allocate_mem hands nothing out twice.            *)
LEMMA ShareIsFree ==
    ASSUME Map!TypeOK, NEW size \in Requests, NEW g \in Map!Fitting(size)
    PROVE  /\ g.start + Map!Share(g, size) <= mem_size
           /\ \A p \in InUse : \/ g.start + Map!Share(g, size) <= p.start
                                \/ p.start + p.size <= g.start
<1>1. /\ g.start \in Nat /\ g.size \in Nat \ {0} /\ mem_size \in Nat
      /\ g.start + g.size <= mem_size
      /\ \A address \in g.start .. g.start + g.size - 1 : Map!IsFree(address)
      /\ Map!Share(g, size) \in Nat \ {0} /\ Map!Share(g, size) <= g.size
  BY FittingGap
<1>2. ASSUME NEW p \in InUse
      PROVE g.start + Map!Share(g, size) <= p.start \/ p.start + p.size <= g.start
  <2>1. p.start \in Nat /\ p.size \in Nat \ {0}
    BY DEF Map!TypeOK, Map!Pieces
  <2>2. CASE p.start <= g.start
    <3>1. Map!IsFree(g.start)
      BY <1>1
    <3> QED BY <1>1, <2>1, <2>2, <3>1 DEF Map!IsFree
  <2>3. CASE g.start < p.start /\ p.start < g.start + g.size
    <3>1. p.start \in g.start .. g.start + g.size - 1
      BY <1>1, <2>1, <2>3
    <3>2. Map!IsFree(p.start)
      BY <1>1, <3>1
    <3> QED BY <2>1, <3>2 DEF Map!IsFree
  <2>4. CASE g.start + g.size <= p.start
    BY <1>1, <2>1, <2>4
  <2> QED BY <1>1, <2>1, <2>2, <2>3, <2>4
<1>3. g.start + Map!Share(g, size) <= mem_size
  BY <1>1
<1> QED BY <1>2, <1>3

(* Whatever implements the map, no address belongs to two processes and    *)
(* none has two pieces, after any sequence of starts and stops.            *)
THEOREM MapKeepsApart == Map!Spec => []Map!Disjoint
<1> USE MemoryAssumption DEF MemoryAssumption, Map!TypeOK, Map!Pieces, Map!Disjoint
<1>1. Map!Init => Map!Disjoint
  BY DEF Map!Init
<1>2. Map!TypeOK /\ Map!Disjoint /\ [Map!Next]_(Map!vars) => Map!Disjoint'
  <2> SUFFICES ASSUME Map!TypeOK, Map!Disjoint, [Map!Next]_(Map!vars) PROVE Map!Disjoint'
    OBVIOUS
  <2>1. ASSUME NEW size \in MemSizes, Map!Resize(size) PROVE Map!Disjoint'
    BY <2>1 DEF Map!Resize
  <2>2. ASSUME NEW p \in Map!Algorithms, Map!Choose(p) PROVE Map!Disjoint'
    BY <2>2 DEF Map!Choose
  <2>3. ASSUME NEW id \in Map!Pids, NEW size \in Requests, Map!Start(id, size)
        PROVE Map!Disjoint'
    <3>1. PICK g \in Map!Fitting(size) :
            InUse' = InUse \cup
                {[pid |-> id, start |-> g.start, size |-> Map!Share(g, size)]}
      BY <2>3 DEF Map!Start
    <3>2. /\ g.start + Map!Share(g, size) <= mem_size
          /\ \A p \in InUse : \/ g.start + Map!Share(g, size) <= p.start
                               \/ p.start + p.size <= g.start
      BY <3>1, ShareIsFree
    <3>3. \A p \in InUse : p.pid # id
      BY <2>3 DEF Map!Start
    <3>4. mem_size' = mem_size
      BY <2>3 DEF Map!Start
    <3> DEFINE new == [pid |-> id, start |-> g.start, size |-> Map!Share(g, size)]
    <3>5. new.pid = id /\ new.start = g.start /\ new.size = Map!Share(g, size)
      OBVIOUS
    <3>6. InUse' = InUse \cup {new}
      BY <3>1
    <3> HIDE DEF new
    <3> QED BY <3>2, <3>3, <3>4, <3>5, <3>6
  <2>4. ASSUME NEW size \in Requests, Map!Refuse(size) PROVE Map!Disjoint'
    BY <2>4 DEF Map!Refuse
  <2>5. ASSUME NEW id \in Map!Pids, Map!Stop(id) PROVE Map!Disjoint'
    BY <2>5 DEF Map!Stop
  <2>6. CASE UNCHANGED Map!vars
    BY <2>6 DEF Map!vars
  <2> QED BY <2>1, <2>2, <2>3, <2>4, <2>5, <2>6 DEF Map!Next
<1> QED BY <1>1, <1>2, MapTypeCorrect, PTL DEF Map!Spec
=============================================================================
