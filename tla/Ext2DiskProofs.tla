--------------------------- MODULE Ext2DiskProofs ---------------------------
(***************************************************************************)
(* What surrounds the bitmaps of Ext2. The two loops of alloc_block and    *)
(* get_inode take the bit FirstClear names, for a bitmap of any size, any  *)
(* bits set and any hint; and the addresses ex2.h gives the inodes and the *)
(* blocks keep them apart, up to the inode where they do not.              *)
(***************************************************************************)
EXTENDS BitmapScan, Ext2BitmapProofs, Ext2Layout

ByteCount == Size \div ByteBits

\* How many bytes the first loop has passed when it comes to a byte.
Passed(byte) == (byte + ByteCount - ByteOf(hint)) % ByteCount

\* What the scan knows before it ends: it has changed nothing; no byte it has
\* passed has a clear bit; the byte it stopped at has one, and no clear bit
\* before flag.
Scanning ==
    /\ asked = [bits |-> bitbuf, hint |-> hint]
    /\ pc \in {"bytes", "bits"} =>
         /\ free # 0
         /\ \A bit \in Clear(bitbuf, Size) : Passed(cur) <= Passed(ByteOf(bit))
    /\ pc \in {"start", "bytes"} => flag = 0
    /\ pc = "bits" =>
         /\ ~Full(cur)
         /\ \A k \in 0 .. flag - 1 : cur * ByteBits + k \in bitbuf

ScanInv ==
    /\ ScanTypeOK
    /\ pc \in {"start", "bytes", "bits"} => Scanning
    /\ ScanTakesFirstClear

(* A bitmap is a whole number of bytes, at least one. *)
LEMMA SizeFacts ==
    /\ ByteBits \in Nat \ {0} /\ Size \in Nat \ {0} /\ Size % ByteBits = 0
    /\ ByteCount \in Nat \ {0}
    /\ Size = ByteBits * ByteCount
    /\ Bytes = 0 .. ByteCount - 1
<1>1. ByteBits \in Nat \ {0} /\ Size \in Nat \ {0} /\ Size % ByteBits = 0
  BY ByteBitsAssumption, SizeAssumption
<1>2. ByteCount \in Nat \ {0} /\ Size = ByteBits * ByteCount
  BY <1>1, DivPositive, DivModFacts DEF ByteCount
<1> QED BY <1>1, <1>2 DEF Bytes, ByteCount

(* A bit of the bitmap lies in a byte of it, at its place in that byte. *)
LEMMA BitPlace ==
    ASSUME NEW bit \in Bits
    PROVE  /\ ByteOf(bit) \in Bytes
           /\ bit % ByteBits \in 0 .. ByteBits - 1
           /\ bit = (ByteBits * ByteOf(bit)) + (bit % ByteBits)
<1> DEFINE q == ByteOf(bit)
           r == bit % ByteBits
<1>1. /\ ByteBits \in Nat \ {0} /\ ByteCount \in Nat \ {0}
      /\ Size = ByteBits * ByteCount /\ Bytes = 0 .. ByteCount - 1
  BY SizeFacts
<1>2. bit \in Nat /\ bit < Size
  BY <1>1, SizeFacts DEF Bits
<1>3. q \in Int /\ r \in 0 .. ByteBits - 1 /\ bit = (ByteBits * q) + r
  BY <1>1, <1>2, DivModFacts DEF ByteOf
<1> HIDE DEF q, r
<1>4. q >= 0
  <2>1. SUFFICES ASSUME q <= -1 PROVE FALSE BY <1>3
  <2>2. ByteBits * q <= -ByteBits BY <2>1, <1>1, <1>3
  <2> QED BY <2>2, <1>1, <1>2, <1>3
<1>5. q < ByteCount
  <2>1. SUFFICES ASSUME q >= ByteCount PROVE FALSE BY <1>1, <1>3
  <2>2. ByteBits * q >= ByteBits * ByteCount BY <2>1, <1>1, <1>3
  <2> QED BY <2>2, <1>1, <1>2, <1>3
<1>6. q \in Bytes BY <1>1, <1>3, <1>4, <1>5
<1> QED BY <1>3, <1>6 DEF q, r

(* A place in a byte of the bitmap is a bit of it. *)
LEMMA PlaceIsBit ==
    ASSUME NEW byte \in Bytes, NEW k \in 0 .. ByteBits - 1
    PROVE  /\ byte * ByteBits + k \in Bits
           /\ ByteOf(byte * ByteBits + k) = byte
           /\ (byte * ByteBits + k) % ByteBits = k
<1>1. /\ ByteBits \in Nat \ {0} /\ ByteCount \in Nat \ {0}
      /\ Size = ByteBits * ByteCount /\ Bytes = 0 .. ByteCount - 1
  BY SizeFacts
<1>2. byte \in Nat /\ byte + 1 <= ByteCount
  BY <1>1
<1>3. ByteBits * (byte + 1) <= ByteBits * ByteCount
  BY <1>1, <1>2
<1>4. ByteBits * (byte + 1) = ByteBits * byte + ByteBits /\ ByteBits * byte \in Nat
      /\ byte * ByteBits = ByteBits * byte
  BY <1>1, <1>2
<1>5. byte * ByteBits + k \in Nat /\ byte * ByteBits + k < Size
  BY <1>1, <1>3, <1>4
<1>6. byte * ByteBits + k = (ByteBits * byte) + k
  BY <1>4
<1>7. (byte * ByteBits + k) \div ByteBits = byte /\ (byte * ByteBits + k) % ByteBits = k
  BY <1>1, <1>2, <1>5, <1>6, DivModUnique
<1>8. byte * ByteBits + k \in Bits
  BY <1>5, SizeFacts DEF Bits
<1> QED BY <1>7, <1>8 DEF ByteOf

(* The distance of a byte from the byte of the hint, upwards and around. *)
LEMMA PassedIs ==
    ASSUME hint \in Bits, NEW byte \in Bytes
    PROVE  Passed(byte) = IF byte >= ByteOf(hint) THEN byte - ByteOf(hint)
                          ELSE byte + ByteCount - ByteOf(hint)
<1> DEFINE h == ByteOf(hint)
           x == byte + ByteCount - h
<1>1. ByteCount \in Nat \ {0} /\ Bytes = 0 .. ByteCount - 1
  BY SizeFacts
<1>2. h \in 0 .. ByteCount - 1 /\ byte \in 0 .. ByteCount - 1
  BY <1>1, BitPlace
<1> HIDE DEF h
<1>3. x \in Int
  BY <1>1, <1>2
<1>4. CASE byte >= h
  <2> DEFINE r == byte - h
  <2>1. x = (ByteCount * 1) + r /\ r \in 0 .. ByteCount - 1
    BY <1>1, <1>2, <1>4
  <2>2. x % ByteCount = r
    <3> HIDE DEF x, r
    <3>1. 1 \in Int OBVIOUS
    <3> QED BY <2>1, <3>1, <1>1, <1>3, DivModUnique
  <2> QED BY <2>2, <1>4 DEF Passed, x, h
<1>5. CASE byte < h
  <2>1. x = (ByteCount * 0) + x /\ x \in 0 .. ByteCount - 1
    BY <1>1, <1>2, <1>5
  <2>2. x % ByteCount = x
    <3> HIDE DEF x
    <3> QED BY <2>1, <1>1, <1>3, DivModUnique
  <2>3. ~(byte >= h)
    BY <1>1, <1>2, <1>5
  <2> QED BY <2>2, <2>3 DEF Passed, x, h
<1> QED BY <1>1, <1>2, <1>4, <1>5

(* No two bytes are at the same distance. *)
LEMMA PassedDiffers ==
    ASSUME hint \in Bits, NEW byte \in Bytes, NEW other \in Bytes,
           Passed(byte) = Passed(other)
    PROVE  byte = other
<1>1. ByteCount \in Nat \ {0} /\ Bytes = 0 .. ByteCount - 1 /\ ByteOf(hint) \in Bytes
  BY SizeFacts, BitPlace
<1> QED BY <1>1, PassedIs

(* The step of the first loop passes one byte more, until it has passed    *)
(* every byte but the last.                                                *)
LEMMA PassedNext ==
    ASSUME hint \in Bits, NEW byte \in Bytes,
           NEW next, next = IF byte + 1 \in Bytes THEN byte + 1 ELSE 0
    PROVE  /\ next \in Bytes
           /\ Passed(byte) \in 0 .. ByteCount - 1
           /\ Passed(byte) < ByteCount - 1 => Passed(next) = Passed(byte) + 1
<1>1. ByteCount \in Nat \ {0} /\ Bytes = 0 .. ByteCount - 1 /\ ByteOf(hint) \in Bytes
  BY SizeFacts, BitPlace
<1>2. next \in Bytes
  BY <1>1
<1>3. Passed(byte) = IF byte >= ByteOf(hint) THEN byte - ByteOf(hint)
                     ELSE byte + ByteCount - ByteOf(hint)
  BY PassedIs
<1>4. Passed(next) = IF next >= ByteOf(hint) THEN next - ByteOf(hint)
                     ELSE next + ByteCount - ByteOf(hint)
  BY <1>2, PassedIs
<1> QED BY <1>1, <1>2, <1>3, <1>4

(* What Rank counts, in terms of Passed. *)
LEMMA RankIs ==
    ASSUME hint \in Bits, NEW bit \in Bits
    PROVE  /\ Rank(hint, bit, Size) = Passed(ByteOf(bit)) * ByteBits + (bit % ByteBits)
           /\ Passed(ByteOf(bit)) \in Nat
<1>1. Rank(hint, bit, Size) = Passed(ByteOf(bit)) * ByteBits + (bit % ByteBits)
  BY DEF Rank, BytesPassed, Passed, ByteCount
<1>2. ByteOf(bit) \in Bytes
  BY BitPlace
<1>3. Passed(ByteOf(bit)) \in 0 .. ByteCount - 1
  BY <1>2, PassedNext
<1> QED BY <1>1, <1>3, SizeFacts

(* No two bits have the same rank, so that FirstClear is the only bit of   *)
(* least rank.                                                             *)
LEMMA RankDiffers ==
    ASSUME hint \in Bits, NEW bit \in Bits, NEW other \in Bits,
           Rank(hint, bit, Size) = Rank(hint, other, Size)
    PROVE  bit = other
<1> DEFINE a == Passed(ByteOf(bit))
           b == Passed(ByteOf(other))
           k == bit % ByteBits
           l == other % ByteBits
           r == Rank(hint, bit, Size)
<1>1. /\ a \in Nat /\ b \in Nat
      /\ r = a * ByteBits + k /\ r = b * ByteBits + l
  BY RankIs
<1>2. k \in 0 .. ByteBits - 1 /\ l \in 0 .. ByteBits - 1 /\ ByteBits \in Nat \ {0}
  BY BitPlace, SizeFacts
<1> HIDE DEF a, b, k, l, r
<1>3. a * ByteBits = ByteBits * a /\ b * ByteBits = ByteBits * b
  BY <1>1, <1>2
<1>4. r \in Int /\ r = (ByteBits * a) + k /\ r = (ByteBits * b) + l
  BY <1>1, <1>2, <1>3
<1>5. r \div ByteBits = a /\ r % ByteBits = k
  BY <1>1, <1>2, <1>4, DivModUnique
<1>6. r \div ByteBits = b /\ r % ByteBits = l
  BY <1>1, <1>2, <1>4, DivModUnique
<1>7. ByteOf(bit) \in Bytes /\ ByteOf(other) \in Bytes
  BY BitPlace
<1>8. ByteOf(bit) = ByteOf(other) /\ k = l
  BY <1>5, <1>6, <1>7, PassedDiffers DEF a, b
<1> QED BY <1>8, BitPlace DEF k, l

(* The bit the second loop stops at is the clear bit of least rank. *)
LEMMA StopsAtFirstClear ==
    ASSUME ScanTypeOK, Scanning, pc = "bits",
           flag < ByteBits, cur * ByteBits + flag \notin bitbuf
    PROVE  cur * ByteBits + flag = FirstClear(bitbuf, hint, Size)
<1> DEFINE bit == cur * ByteBits + flag
           set == Clear(bitbuf, Size)
           first == FirstClear(bitbuf, hint, Size)
<1>1. /\ ByteBits \in Nat \ {0} /\ cur \in Bytes /\ flag \in 0 .. ByteBits - 1
      /\ hint \in Bits /\ set \subseteq Bits
  BY SizeFacts DEF ScanTypeOK, Clear, Bits
<1>2. bit \in Bits /\ ByteOf(bit) = cur /\ bit % ByteBits = flag
  BY <1>1, PlaceIsBit
<1>3. bit \in set
  BY <1>2 DEF Clear, Bits
<1>4. ASSUME NEW other \in set
      PROVE  Rank(hint, bit, Size) <= Rank(hint, other, Size)
  <2> DEFINE a == Passed(cur)
             b == Passed(ByteOf(other))
             l == other % ByteBits
  <2>1. other \in Bits
    BY <1>1
  <2>2. Rank(hint, bit, Size) = a * ByteBits + flag /\ a \in Nat
    BY <1>1, <1>2, RankIs
  <2>3. Rank(hint, other, Size) = b * ByteBits + l /\ b \in Nat
    BY <1>1, <2>1, RankIs
  <2>4. a <= b
    BY DEF Scanning
  <2>5. l \in 0 .. ByteBits - 1 /\ ByteOf(other) \in Bytes
        /\ other = (ByteBits * ByteOf(other)) + l
    BY <2>1, BitPlace
  <2>6. CASE a = b
    <3>1. ByteOf(other) = cur
      BY <1>1, <2>5, <2>6, PassedDiffers
    <3>2. other = cur * ByteBits + l
      <4>1. cur \in Nat /\ cur * ByteBits = ByteBits * cur
        BY <1>1, SizeFacts
      <4> QED BY <2>5, <3>1, <4>1
    <3>3. other \notin bitbuf
      BY DEF Clear
    <3>4. ~(l < flag)
      <4>1. SUFFICES ASSUME l < flag PROVE FALSE OBVIOUS
      <4>2. l \in 0 .. flag - 1
        BY <1>1, <2>5, <4>1
      <4> HIDE DEF l
      <4> QED BY <3>2, <3>3, <4>2 DEF Scanning
    <3> HIDE DEF a, b, l
    <3> QED BY <1>1, <2>2, <2>3, <2>5, <2>6, <3>4
  <2>7. CASE a + 1 <= b
    <3> HIDE DEF a, b, l
    <3>1. (a + 1) * ByteBits <= b * ByteBits
      BY <1>1, <2>2, <2>3, <2>7
    <3>2. (a + 1) * ByteBits = a * ByteBits + ByteBits
          /\ a * ByteBits \in Nat /\ b * ByteBits \in Nat
      BY <1>1, <2>2, <2>3
    <3> QED BY <1>1, <2>2, <2>3, <2>5, <3>1, <3>2
  <2> HIDE DEF a, b, l
  <2> QED BY <2>2, <2>3, <2>4, <2>6, <2>7
<1>5. first \in set /\ \A other \in set : Rank(hint, first, Size) <= Rank(hint, other, Size)
  BY <1>3, <1>4 DEF FirstClear
<1> HIDE DEF bit, set, first
<1>6. Rank(hint, first, Size) = Rank(hint, bit, Size)
  <2>1. first \in Bits
    BY <1>1, <1>5
  <2>2. Rank(hint, bit, Size) \in Int /\ Rank(hint, first, Size) \in Int
    <3>1. \A b \in Bits : Rank(hint, b, Size) \in Nat
      BY <1>1, SizeFacts, RankType DEF Bits
    <3> QED BY <1>2, <2>1, <3>1
  <2> QED BY <1>3, <1>4, <1>5, <2>2
<1>7. first = bit
  BY <1>1, <1>2, <1>5, <1>6, RankDiffers
<1> QED BY <1>7 DEF bit, first

(* Where a call of alloc_block begins. *)
LEMMA ScanInitially == ScanInit => ScanInv
<1> SUFFICES ASSUME ScanInit PROVE ScanInv
  OBVIOUS
<1>1. /\ ByteCount \in Nat \ {0} /\ Bytes = 0 .. ByteCount - 1
      /\ ByteBits \in Nat \ {0} /\ Size \in Nat \ {0}
  BY SizeFacts
<1>2. ScanTypeOK
  <2>1. free \in 0 .. Size /\ cur \in Bytes /\ flag \in 0 .. ByteBits
    BY <1>1 DEF ScanInit
  <2> QED BY <2>1 DEF ScanInit, ScanTypeOK
<1>3. Scanning /\ ScanTakesFirstClear
  BY DEF ScanInit, Scanning, ScanTakesFirstClear
<1> QED BY <1>2, <1>3 DEF ScanInv

(* if(bg_free_blocks_count==0): the scan begins at the byte of the hint, as *)
(* near as can be.                                                         *)
LEMMA StartKeeps == ASSUME ScanInv, StartScan PROVE ScanInv'
<1>1. ScanTypeOK /\ Scanning /\ pc = "start"
  BY DEF ScanInv, StartScan
<1>2. UNCHANGED <<free, bitbuf, hint, flag, asked>>
  BY DEF StartScan
<1>3. CASE free = 0
  <2>1. pc' = "refused" /\ cur' = cur
    BY <1>3 DEF StartScan
  <2>2. ScanTypeOK'
    BY <1>1, <1>2, <2>1 DEF ScanTypeOK
  <2> QED BY <2>1, <2>2 DEF ScanInv, ScanTakesFirstClear
<1>4. CASE free # 0
  <2>1. pc' = "bytes" /\ cur' = ByteOf(hint)
    BY <1>4 DEF StartScan
  <2>2. hint \in Bits /\ ByteOf(hint) \in Bytes
    BY <1>1, BitPlace DEF ScanTypeOK
  <2>3. ScanTypeOK'
    BY <1>1, <1>2, <2>1, <2>2 DEF ScanTypeOK
  <2>4. ASSUME NEW bit \in Clear(bitbuf, Size)
        PROVE  Passed(ByteOf(hint)) <= Passed(ByteOf(bit))
    <3>1. bit \in Bits
      BY DEF Clear, Bits
    <3>2. Passed(ByteOf(bit)) \in Nat
      BY <2>2, <3>1, RankIs
    <3>3. ByteCount \in Nat \ {0} /\ Bytes = 0 .. ByteCount - 1
      BY SizeFacts
    <3>4. Passed(ByteOf(hint)) = 0
      BY <2>2, <3>3, PassedIs
    <3> QED BY <3>2, <3>4
  <2>5. Scanning'
    <3>1. asked' = [bits |-> bitbuf', hint |-> hint']
      BY <1>1, <1>2 DEF Scanning
    <3>2. flag' = 0
      BY <1>1, <1>2 DEF Scanning
    <3>3. \A bit \in Clear(bitbuf', Size) : Passed(cur)' <= Passed(ByteOf(bit))'
      BY <1>2, <2>1, <2>4 DEF Passed
    <3> QED BY <1>2, <1>4, <2>1, <3>1, <3>2, <3>3 DEF Scanning
  <2> QED BY <2>1, <2>3, <2>5 DEF ScanInv, ScanTakesFirstClear
<1> QED BY <1>3, <1>4

(* while(bitbuf[cur]==255): a full byte is passed, with the wrap-around;   *)
(* the loop leaves at one that has a clear bit.                            *)
LEMMA NextByteKeeps == ASSUME ScanInv, NextByte PROVE ScanInv'
<1>1. ScanTypeOK /\ Scanning /\ pc = "bytes" /\ flag = 0
  BY DEF ScanInv, NextByte, NextByteBy, Scanning
<1>2. UNCHANGED <<free, bitbuf, hint, flag, asked>>
  BY DEF NextByte, NextByteBy
<1>3. hint \in Bits /\ cur \in Bytes /\ ByteCount \in Nat \ {0}
      /\ Bytes = 0 .. ByteCount - 1
  BY <1>1, SizeFacts DEF ScanTypeOK
<1>4. asked' = [bits |-> bitbuf', hint |-> hint'] /\ flag' = 0 /\ free' # 0
  BY <1>1, <1>2 DEF Scanning
<1>5. CASE Full(cur)
  <2> DEFINE next == IF cur + 1 \in Bytes THEN cur + 1 ELSE 0
  <2>1. pc' = pc /\ cur' = next
    BY <1>5 DEF NextByte, NextByteBy
  <2>2. /\ next \in Bytes /\ Passed(cur) \in 0 .. ByteCount - 1
        /\ Passed(cur) < ByteCount - 1 => Passed(next) = Passed(cur) + 1
    BY <1>3, PassedNext
  <2> HIDE DEF next
  <2>3. ScanTypeOK'
    BY <1>1, <1>2, <2>1, <2>2 DEF ScanTypeOK
  <2>4. ASSUME NEW bit \in Clear(bitbuf, Size)
        PROVE  Passed(next) <= Passed(ByteOf(bit))
    <3>1. bit \in Bits /\ bit \notin bitbuf
      BY DEF Clear, Bits
    <3>2. ByteOf(bit) # cur
      BY <1>5, <3>1 DEF Full
    <3>3. ByteOf(bit) \in Bytes
      BY <3>1, BitPlace
    <3>4. Passed(ByteOf(bit)) \in 0 .. ByteCount - 1
      BY <1>3, <3>3, PassedNext
    <3>5. Passed(cur) # Passed(ByteOf(bit))
      BY <1>3, <3>2, <3>3, PassedDiffers
    <3>6. Passed(cur) <= Passed(ByteOf(bit))
      BY <1>1 DEF Scanning
    <3> QED BY <1>3, <2>2, <3>4, <3>5, <3>6
  <2>5. \A bit \in Clear(bitbuf', Size) : Passed(cur)' <= Passed(ByteOf(bit))'
    BY <1>2, <2>1, <2>4 DEF Passed
  <2>6. Scanning'
    BY <1>1, <1>4, <2>1, <2>5 DEF Scanning
  <2> QED BY <1>1, <2>1, <2>3, <2>6 DEF ScanInv, ScanTakesFirstClear
<1>6. CASE ~Full(cur)
  <2>1. pc' = "bits" /\ cur' = cur
    BY <1>6 DEF NextByte, NextByteBy
  <2>2. ScanTypeOK'
    BY <1>1, <1>2, <2>1 DEF ScanTypeOK
  <2>3. ~Full(cur)'
    BY <1>2, <1>6, <2>1 DEF Full
  <2>4. \A bit \in Clear(bitbuf', Size) : Passed(cur)' <= Passed(ByteOf(bit))'
    BY <1>1, <1>2, <2>1 DEF Passed, Scanning
  <2>5. \A k \in 0 .. flag' - 1 : cur' * ByteBits + k \in bitbuf'
    BY <1>4
  <2>6. Scanning'
    BY <1>4, <2>1, <2>3, <2>4, <2>5 DEF Scanning
  <2> QED BY <2>1, <2>2, <2>6 DEF ScanInv, ScanTakesFirstClear
<1> QED BY <1>5, <1>6

(* The second loop stays inside the byte: a clear bit of it lies ahead. *)
LEMMA FlagInByte ==
    ASSUME ScanTypeOK, Scanning, pc = "bits"
    PROVE  flag < ByteBits
<1>1. PICK bit \in Bits : ByteOf(bit) = cur /\ bit \notin bitbuf
  BY DEF Scanning, Full
<1>2. bit % ByteBits \in 0 .. ByteBits - 1 /\ bit = (ByteBits * cur) + (bit % ByteBits)
  BY <1>1, BitPlace
<1>3. ByteBits \in Nat \ {0} /\ cur \in Nat /\ flag \in Nat /\ cur * ByteBits = ByteBits * cur
  BY SizeFacts DEF ScanTypeOK
<1> DEFINE l == bit % ByteBits
<1>4. l \notin 0 .. flag - 1
  <2>1. SUFFICES ASSUME l \in 0 .. flag - 1 PROVE FALSE OBVIOUS
  <2>2. bit = cur * ByteBits + l
    BY <1>2, <1>3
  <2> HIDE DEF l
  <2> QED BY <1>1, <2>1, <2>2 DEF Scanning
<1> HIDE DEF l
<1>5. l \in 0 .. ByteBits - 1
  BY <1>2 DEF l
<1> QED BY <1>3, <1>4, <1>5

(* while(bitbuf[cur]&con) and what follows it. *)
LEMMA NextBitKeeps == ASSUME ScanInv, NextBit PROVE ScanInv'
<1>1. ScanTypeOK /\ Scanning /\ pc = "bits"
  BY DEF ScanInv, NextBit
<1>2. UNCHANGED <<cur, asked>>
  BY DEF NextBit
<1>3. flag < ByteBits
  BY <1>1, FlagInByte
<1>4. /\ ByteBits \in Nat \ {0} /\ Size \in Nat \ {0}
      /\ cur \in Bytes /\ flag \in 0 .. ByteBits - 1
  BY <1>1, <1>3, SizeFacts DEF ScanTypeOK
<1> DEFINE bit == cur * ByteBits + flag
<1>5. bit \in Bits
  BY <1>4, PlaceIsBit
<1> HIDE DEF bit
<1>6. CASE bit \in bitbuf
  <2>1. flag' = flag + 1 /\ UNCHANGED <<pc, free, bitbuf, hint>>
    BY <1>6 DEF NextBit, bit
  <2>2. flag' \in 0 .. ByteBits
    BY <1>4, <2>1
  <2>3. ScanTypeOK'
    BY <1>1, <1>2, <2>1, <2>2 DEF ScanTypeOK
  <2>4. \A k \in 0 .. flag' - 1 : cur' * ByteBits + k \in bitbuf'
    <3>1. SUFFICES ASSUME NEW k \in 0 .. flag' - 1
                   PROVE  cur * ByteBits + k \in bitbuf
      BY <1>2, <2>1
    <3>2. k = flag \/ k \in 0 .. flag - 1
      BY <1>4, <2>1
    <3> QED BY <1>1, <1>6, <3>2 DEF Scanning, bit
  <2>5. ~Full(cur)'
    BY <1>1, <1>2, <2>1 DEF Full, Scanning
  <2>6. \A b \in Clear(bitbuf', Size) : Passed(cur)' <= Passed(ByteOf(b))'
    BY <1>1, <1>2, <2>1 DEF Passed, Scanning
  <2>7. asked' = [bits |-> bitbuf', hint |-> hint'] /\ free' # 0 /\ pc' = "bits"
    BY <1>1, <1>2, <2>1 DEF Scanning
  <2>8. Scanning'
    BY <2>4, <2>5, <2>6, <2>7 DEF Scanning
  <2> QED BY <2>3, <2>7, <2>8 DEF ScanInv, ScanTakesFirstClear
<1>7. CASE bit \notin bitbuf
  <2>1. /\ bitbuf' = bitbuf \cup {bit} /\ hint' = bit /\ free' = free - 1
        /\ pc' = "done" /\ flag' = flag
    BY <1>7 DEF NextBit, bit
  <2>2. free' \in 0 .. Size
    BY <1>1, <1>4, <2>1 DEF ScanTypeOK, Scanning
  <2>3. ScanTypeOK'
    BY <1>1, <1>2, <1>5, <2>1, <2>2 DEF ScanTypeOK
  <2>4. bit = FirstClear(bitbuf, hint, Size)
    BY <1>1, <1>3, <1>7, StopsAtFirstClear DEF bit
  <2>5. asked'.bits = bitbuf /\ asked'.hint = hint
    BY <1>1, <1>2 DEF Scanning
  <2>6. ScanTakesFirstClear'
    BY <1>7, <2>1, <2>4, <2>5 DEF ScanTakesFirstClear
  <2> QED BY <2>1, <2>3, <2>6 DEF ScanInv
<1> QED BY <1>6, <1>7

(* Every iteration of the two loops keeps it. *)
LEMMA ScanStep == ScanInv /\ [ScanNext]_scanVars => ScanInv'
<1> SUFFICES ASSUME ScanInv, [ScanNext]_scanVars PROVE ScanInv'
  OBVIOUS
<1>1. CASE UNCHANGED scanVars
  BY <1>1 DEF scanVars, ScanInv, ScanTypeOK, Scanning, ScanTakesFirstClear, Passed, Full
<1> QED BY <1>1, StartKeeps, NextByteKeeps, NextBitKeeps DEF ScanNext
-----------------------------------------------------------------------------
(* Where the records of the disk lie.                                      *)

(* Two inodes never share a byte, nor two blocks, and the blocks end where *)
(* the disk that initialize_disk writes ends.                              *)
THEOREM RecordsApart ==
    /\ \A i, j \in 1 .. INODE_TABLE_COUNTS :
          i < j => InodeTo(i) <= InodeFrom(j)
    /\ \A b, c \in 0 .. DATA_BLOCK_COUNTS - 1 :
          b < c => BlockTo(b) <= BlockFrom(c)
    /\ BlockTo(DATA_BLOCK_COUNTS - 1) = DISK_SIZE * BLOCK_SIZE
<1>1. \A i, j \in 1 .. INODE_TABLE_COUNTS : i < j => InodeTo(i) <= InodeFrom(j)
    BY SMT DEF InodeFrom, InodeTo, INODE_TABLE, INODE_SIZE, INODE_TABLE_COUNTS
<1>2. \A b, c \in 0 .. DATA_BLOCK_COUNTS - 1 : b < c => BlockTo(b) <= BlockFrom(c)
    BY SMT DEF BlockFrom, BlockTo, DATA_BLOCK, DATA_BLOCK_COUNTS, BLOCK_SIZE
<1>3. BlockTo(DATA_BLOCK_COUNTS - 1) = DISK_SIZE * BLOCK_SIZE
    BY SMT DEF BlockFrom, BlockTo, DATA_BLOCK, DATA_BLOCK_COUNTS, BLOCK_SIZE, DISK_SIZE
<1> QED BY <1>1, <1>2, <1>3

(* The first 2048 inodes share no byte with any block: up to there Ext2 is *)
(* right to keep them apart.                                               *)
THEOREM LowInodesApart ==
    \A i \in 1 .. 2048 : \A b \in 0 .. DATA_BLOCK_COUNTS - 1 : Apart(i, b)
BY SMT DEF Apart, InodeFrom, InodeTo, BlockFrom, BlockTo, INODE_TABLE, INODE_SIZE,
       DATA_BLOCK, DATA_BLOCK_COUNTS, BLOCK_SIZE

(* Every inode of the second half lies in a block: four of them in each,   *)
(* from block 0 on, which is the directory of the root.                    *)
THEOREM HighInodesCollide ==
    \A i \in 2049 .. INODE_TABLE_COUNTS :
        \E b \in 0 .. DATA_BLOCK_COUNTS - 1 :
            BlockFrom(b) <= InodeFrom(i) /\ InodeTo(i) <= BlockTo(b)
<1> SUFFICES ASSUME NEW i \in 2049 .. INODE_TABLE_COUNTS
             PROVE  \E b \in 0 .. DATA_BLOCK_COUNTS - 1 :
                        BlockFrom(b) <= InodeFrom(i) /\ InodeTo(i) <= BlockTo(b)
    OBVIOUS
<1> DEFINE b == (i - 2049) \div 4
<1>1. b \in 0 .. DATA_BLOCK_COUNTS - 1 /\ 4 * b <= i - 2049 /\ i - 2049 < 4 * b + 4
    BY SMT DEF INODE_TABLE_COUNTS, DATA_BLOCK_COUNTS
<1>2. BlockFrom(b) <= InodeFrom(i) /\ InodeTo(i) <= BlockTo(b)
    <2> HIDE DEF b
    <2> QED
        BY <1>1, SMT DEF InodeFrom, InodeTo, BlockFrom, BlockTo, INODE_TABLE, INODE_SIZE,
                    INODE_TABLE_COUNTS, DATA_BLOCK, DATA_BLOCK_COUNTS, BLOCK_SIZE
<1> QED BY <1>1, <1>2
=============================================================================
