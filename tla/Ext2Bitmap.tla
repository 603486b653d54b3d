----------------------------- MODULE Ext2Bitmap -----------------------------
(***************************************************************************)
(* The bit that alloc_block and get_inode of Lab3/ex2.c take from a bitmap *)
(* block, as a function of the bits that are set and of the hint           *)
(* (last_alloc_block, or last_alloc_inode - 1).                            *)
(*                                                                         *)
(* Both functions look at whole bytes first, from the byte of the hint     *)
(* upwards and around the end, and inside the first byte that is not 255   *)
(* they take the most significant clear bit; bit 0 of the bitmap is the    *)
(* 128-bit of byte 0.  The hint therefore chooses the byte, never the bit. *)
(* BitmapScan has the two loops step by step and is checked against        *)
(* FirstClear, which is what the file system module uses.                  *)
(***************************************************************************)
EXTENDS Naturals

CONSTANT ByteBits   \* bits in a byte of the bitmap: 8 in the code

ASSUME ByteBitsAssumption == ByteBits \in Nat \ {0}

ByteOf(bit) == bit \div ByteBits

\* Bytes the scan passes before it comes to the byte of bit, in a bitmap of
\* size bits; then the bits it passes inside that byte.
BytesPassed(hint, bit, size) ==
    (ByteOf(bit) + (size \div ByteBits) - ByteOf(hint)) % (size \div ByteBits)

Rank(hint, bit, size) ==
    (BytesPassed(hint, bit, size) * ByteBits) + (bit % ByteBits)

Clear(set, size) == (0 .. size - 1) \ set

\* The clear bit the scan meets first (defined when some bit is clear).
FirstClear(set, hint, size) ==
    CHOOSE bit \in Clear(set, size) :
        \A other \in Clear(set, size) :
            Rank(hint, bit, size) <= Rank(hint, other, size)
=============================================================================
