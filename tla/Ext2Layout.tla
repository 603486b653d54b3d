----------------------------- MODULE Ext2Layout -----------------------------
(***************************************************************************)
(* Where Lab3/ex2.h puts the inodes and the blocks in the file ./Ext2, in  *)
(* bytes.  Ext2 keeps the two apart; the addresses do so for the first     *)
(* half of the table only, because DATA_BLOCK allows 64 bytes for an inode *)
(* and an inode takes 128.                                                 *)
(***************************************************************************)
EXTENDS Integers

BLOCK_SIZE == 512
INODE_TABLE == 1536
INODE_SIZE == 128
INODE_TABLE_COUNTS == 4096
DATA_BLOCK == 263680
DATA_BLOCK_COUNTS == 4096
DISK_SIZE == 4611

\* What update_inode_entry(i) and update_block(i) write, as first address and
\* the first one behind.
InodeFrom(i) == INODE_TABLE + (i - 1) * INODE_SIZE
InodeTo(i) == InodeFrom(i) + INODE_SIZE
BlockFrom(b) == DATA_BLOCK + b * BLOCK_SIZE
BlockTo(b) == BlockFrom(b) + BLOCK_SIZE

Apart(i, b) == InodeTo(i) <= BlockFrom(b) \/ BlockTo(b) <= InodeFrom(i)
=============================================================================
