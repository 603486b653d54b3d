-------------------------- MODULE Ext2BitmapProofs --------------------------
(***************************************************************************)
(* FirstClear is well defined: a bitmap with a clear bit yields a clear    *)
(* bit, whatever the hint.                                                 *)
(***************************************************************************)
EXTENDS Integers, Ext2Bitmap, WellFoundedInduction, TLAPS

(* What the proofs below use of div and mod. *)
LEMMA DivModFacts ==
  ASSUME NEW a \in Int, NEW b \in Nat \ {0}
  PROVE  /\ a \div b \in Int
         /\ a % b \in 0 .. b - 1
         /\ a = (b * (a \div b)) + (a % b)
OBVIOUS

(* A bitmap has at least one byte. *)
LEMMA DivPositive ==
  ASSUME NEW size \in Nat \ {0}, NEW b \in Nat \ {0}, size % b = 0
  PROVE  size \div b \in Nat \ {0}
  <1>1. size = b * (size \div b) BY DivModFacts
  <1>2. CASE size \div b <= 0  BY <1>1, <1>2, DivModFacts
  <1> QED BY <1>2, DivModFacts

(* Ranks are natural numbers, so one of them is the least. *)
LEMMA RankType ==
  ASSUME NEW size \in Nat \ {0}, size % ByteBits = 0,
         NEW hint \in Nat, NEW bit \in Nat
  PROVE  Rank(hint, bit, size) \in Nat
  <1> DEFINE n == size \div ByteBits
             x == ByteOf(bit) + n - ByteOf(hint)
  <1>1. ByteBits \in Nat \ {0} BY ByteBitsAssumption
  <1>2. n \in Nat \ {0} BY <1>1, DivPositive
  <1>3. x \in Int BY <1>1, <1>2, DivModFacts DEF ByteOf
  <1> HIDE DEF n, x
  <1>4. x % n \in Nat BY <1>2, <1>3, DivModFacts
  <1>5. bit % ByteBits \in Nat BY <1>1, DivModFacts
  <1>6. ((x % n) * ByteBits) + (bit % ByteBits) \in Nat BY <1>1, <1>4, <1>5
  <1> QED BY <1>6 DEF Rank, BytesPassed, n, x

(* The least-number principle for a set of naturals. *)
LEMMA NatSetHasMinimum ==
  ASSUME NEW T \in SUBSET Nat, T # {}
  PROVE  \E m \in T : \A k \in T : m <= k
  <1>1. PICK m \in T : \A k \in T : ~ (<<k, m>> \in OpToRel(<, Nat))
    BY NatLessThanWellFounded, WFMin
  <1>2. \A k \in T : <<k, m>> \in Nat \X Nat OBVIOUS
  <1>3. \A k \in T : ~ (k < m) BY <1>1, <1>2, Zenon DEF OpToRel
  <1>4. \A k \in T : m <= k BY <1>3
  <1> QED BY <1>4

(* While a bit is clear, the scan of alloc_block and get_inode takes a clear *)
(* bit of the bitmap, never one that is in use and never one past the end.  *)
THEOREM FirstClearIsClear ==
  ASSUME NEW size \in Nat \ {0}, size % ByteBits = 0,
         NEW hint \in Nat, NEW set, Clear(set, size) # {}
  PROVE  FirstClear(set, hint, size) \in Clear(set, size)
  <1> DEFINE ranks == {Rank(hint, bit, size) : bit \in Clear(set, size)}
  <1>1. \A bit \in Clear(set, size) : bit \in Nat BY DEF Clear
  <1>2. ranks \in SUBSET Nat BY <1>1, RankType
  <1>3. ranks # {} OBVIOUS
  <1>4. PICK m \in ranks : \A k \in ranks : m <= k BY <1>2, <1>3, NatSetHasMinimum
  <1>5. PICK bit \in Clear(set, size) : m = Rank(hint, bit, size) OBVIOUS
  <1>6. \A other \in Clear(set, size) : Rank(hint, bit, size) <= Rank(hint, other, size)
    BY <1>4, <1>5
  <1> QED BY <1>6 DEF FirstClear

(* A quotient and a remainder are the only ones in their range. *)
LEMMA DivModUnique ==
  ASSUME NEW a \in Int, NEW b \in Nat \ {0}, NEW q \in Int, NEW r \in 0 .. b - 1,
         a = (b * q) + r
  PROVE  a \div b = q /\ a % b = r
  <1> DEFINE p == a \div b
             s == a % b
  <1>1. p \in Int /\ s \in 0 .. b - 1 /\ a = (b * p) + s BY DivModFacts
  <1> HIDE DEF p, s
  <1>2. CASE p >= q + 1
    <2>1. b * p >= b * (q + 1) BY <1>1, <1>2
    <2>2. b * (q + 1) = (b * q) + b OBVIOUS
    <2> QED BY <2>1, <2>2, <1>1
  <1>3. CASE p <= q - 1
    <2>1. b * p <= b * (q - 1) BY <1>1, <1>3
    <2>2. b * (q - 1) = (b * q) - b OBVIOUS
    <2> QED BY <2>1, <2>2, <1>1
  <1>4. p = q BY <1>1, <1>2, <1>3
  <1>5. s = r BY <1>1, <1>4
  <1> QED BY <1>4, <1>5 DEF p, s

(* On an empty bitmap the scan that starts at the first byte takes the     *)
(* first bit: the root of a formatted disk is inode 1.                     *)
LEMMA FirstOfEmpty ==
  ASSUME NEW size \in Nat \ {0}, size % ByteBits = 0
  PROVE  FirstClear({}, 0, size) = 0
  <1> DEFINE n == size \div ByteBits
             bit == FirstClear({}, 0, size)
             byte == bit \div ByteBits
             low == bit % ByteBits
  <1>1. ByteBits \in Nat \ {0} BY ByteBitsAssumption
  <1>2. n \in Nat \ {0} /\ size = ByteBits * n BY <1>1, DivPositive, DivModFacts
  <1>3. 0 \div ByteBits = 0 /\ 0 % ByteBits = 0
    <2>1. 0 \in 0 .. ByteBits - 1 /\ 0 = (ByteBits * 0) + 0 BY <1>1
    <2> QED BY <2>1, <1>1, DivModUnique
  <1> HIDE DEF n
  <1>4. \A k \in Nat : Rank(0, k, size) = (((k \div ByteBits) + n) % n) * ByteBits + (k % ByteBits)
    <2> TAKE k \in Nat
    <2>1. Rank(0, k, size)
             = (((k \div ByteBits) + (n - 0)) % n) * ByteBits + (k % ByteBits)
      <3>1. ByteOf(k) = k \div ByteBits /\ ByteOf(0) = 0 BY <1>3 DEF ByteOf
      <3>2. BytesPassed(0, k, size) = (ByteOf(k) + (n - ByteOf(0))) % n
        BY DEF BytesPassed, n
      <3>3. Rank(0, k, size) = BytesPassed(0, k, size) * ByteBits + (k % ByteBits)
        BY DEF Rank
      <3> QED BY <3>1, <3>2, <3>3
    <2>2. n - 0 = n BY <1>2
    <2> QED BY <2>1, <2>2
  <1>5. \A k \in 0 .. n - 1 : (k + n) % n = k
    <2> TAKE k \in 0 .. n - 1
    <2>1. k + n \in Int /\ k + n = (n * 1) + k BY <1>2
    <2> QED BY <2>1, <1>2, DivModUnique
  <1>6. Rank(0, 0, size) = 0
    <2>1. (0 + n) % n = 0
      <3>1. 0 \in 0 .. n - 1 BY <1>2
      <3> QED BY <3>1, <1>5
    <2>2. Rank(0, 0, size) = ((0 + n) % n) * ByteBits + 0 BY <1>3, <1>4
    <2> QED BY <2>1, <2>2, <1>1
  <1>7. 0 \in Clear({}, size) BY DEF Clear
  <1>8. \A other \in Clear({}, size) : Rank(0, 0, size) <= Rank(0, other, size)
    BY <1>6, RankType DEF Clear
  <1>9. bit \in Clear({}, size) /\ Rank(0, bit, size) <= 0
    BY <1>6, <1>7, <1>8 DEF FirstClear
  <1> HIDE DEF bit
  <1>10. bit \in Nat /\ bit < size BY <1>9 DEF Clear
  <1>11. Rank(0, bit, size) = ((byte + n) % n) * ByteBits + low BY <1>4, <1>10
  <1>12. byte \in Int /\ low \in 0 .. ByteBits - 1 /\ bit = (ByteBits * byte) + low
    BY <1>1, <1>10, DivModFacts
  <1> HIDE DEF byte, low
  <1>13. byte >= 0
    <2>1. SUFFICES ASSUME byte <= -1 PROVE FALSE BY <1>12
    <2>2. ByteBits * byte <= -ByteBits BY <2>1, <1>1, <1>12
    <2> QED BY <2>2, <1>1, <1>10, <1>12
  <1>14. byte < n
    <2>1. SUFFICES ASSUME byte >= n PROVE FALSE BY <1>2, <1>12
    <2>2. ByteBits * byte >= ByteBits * n BY <2>1, <1>1, <1>2, <1>12
    <2> QED BY <2>2, <1>1, <1>2, <1>10, <1>12
  <1>15. (byte + n) % n = byte
    <2>1. byte \in 0 .. n - 1 BY <1>2, <1>12, <1>13, <1>14
    <2> QED BY <2>1, <1>5
  <1>16. bit <= 0 BY <1>9, <1>11, <1>12, <1>15, <1>1
  <1> QED BY <1>10, <1>16 DEF bit
=============================================================================
