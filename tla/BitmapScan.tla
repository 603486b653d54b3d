----------------------------- MODULE BitmapScan -----------------------------
(***************************************************************************)
(* The two loops of alloc_block (get_inode has the same ones) of           *)
(* Lab3/ex2.c, one action per iteration, over any bitmap, hint and free    *)
(* count.  free is bg_free_blocks_count: nothing in the loops relates it   *)
(* to the bitmap, so it is an input of its own.                            *)
(***************************************************************************)
EXTENDS Integers, FiniteSets, Ext2Bitmap

CONSTANT Size   \* bits in the bitmap: 4096 in the code

ASSUME SizeAssumption == Size \in Nat \ {0} /\ Size % ByteBits = 0

Bits == 0 .. Size - 1
Bytes == 0 .. (Size \div ByteBits) - 1

VARIABLES
    pc,        \* "start", "bytes", "bits", "done" or "refused"
    free,      \* bg_free_blocks_count
    bitbuf,    \* the set of bits that are 1
    hint,      \* last_alloc_block as the call finds it, and as it leaves it
    cur,       \* the byte under the first loop
    flag,      \* the bit of that byte under the second loop
    asked     \* history: the bits set and the hint when the call began

scanVars == <<pc, free, bitbuf, hint, cur, flag, asked>>

ScanTypeOK ==
    /\ pc \in {"start", "bytes", "bits", "done", "refused"}
    /\ free \in 0 .. Size
    /\ bitbuf \subseteq Bits
    /\ hint \in Bits
    /\ cur \in Bytes
    /\ flag \in 0 .. ByteBits
    /\ asked \in [bits : SUBSET Bits, hint : Bits]

ScanInit ==
    /\ pc = "start"
    /\ free \in {0, 1}
    /\ bitbuf \in SUBSET Bits
    /\ hint \in Bits
    /\ cur = 0
    /\ flag = 0
    /\ asked = [bits |-> bitbuf, hint |-> hint]

StartScan ==
    /\ pc = "start"
    /\ IF free = 0
         THEN pc' = "refused" /\ UNCHANGED cur
         ELSE pc' = "bytes" /\ cur' = ByteOf(hint)
    /\ UNCHANGED <<free, bitbuf, hint, flag, asked>>

Full(byte) == \A bit \in Bits : ByteOf(bit) = byte => bit \in bitbuf

\* while(bitbuf[cur]==255) with a given rule for the byte after cur.
NextByteBy(after(_)) ==
    /\ pc = "bytes"
    /\ IF Full(cur)
         THEN cur' = after(cur) /\ UNCHANGED pc
         ELSE pc' = "bits" /\ UNCHANGED cur
    /\ UNCHANGED <<free, bitbuf, hint, flag, asked>>

\* Mutants: no wrap at the last byte, and a scan that goes down.
NextByteStays == NextByteBy(LAMBDA c : IF c + 1 \in Bytes THEN c + 1 ELSE c)
NextByteDown == NextByteBy(LAMBDA c : IF c = 0 THEN (Size \div ByteBits) - 1 ELSE c - 1)

\* while(bitbuf[cur]==255), with the wrap at the last byte.
NextByte == NextByteBy(LAMBDA c : IF c + 1 \in Bytes THEN c + 1 ELSE 0)

\* while(bitbuf[cur]&con), then the assignments after the loop.
NextBit ==
    /\ pc = "bits"
    /\ LET bit == cur * ByteBits + flag IN
         IF bit \in bitbuf
           THEN flag' = flag + 1 /\ UNCHANGED <<pc, free, bitbuf, hint>>
           ELSE /\ bitbuf' = bitbuf \cup {bit}
                /\ hint' = bit
                /\ free' = free - 1
                /\ pc' = "done"
                /\ UNCHANGED flag
    /\ UNCHANGED <<cur, asked>>

ScanNext == StartScan \/ NextByte \/ NextBit
-----------------------------------------------------------------------------
(* The loops take exactly the bit that FirstClear names, mark that bit and  *)
(* no other, and remember it as the next hint: what the file system module *)
(* assumes of alloc_block and get_inode in one step.                       *)
ScanTakesFirstClear ==
    pc = "done" =>
        LET bit == FirstClear(asked.bits, asked.hint, Size) IN
        /\ bit \notin asked.bits
        /\ hint = bit
        /\ bitbuf = asked.bits \cup {bit}
=============================================================================
