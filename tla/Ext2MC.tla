------------------------------- MODULE Ext2MC -------------------------------
(***************************************************************************)
(* Ext2 for TLC.                                                           *)
(***************************************************************************)
EXTENDS Ext2Props

NamedInodes ==
    {fs.data[b][k].inode : b \in fs.block_bitmap, k \in Slots} \ {0}

\* Two states are the same to TLC when they differ only in bytes that no
\* command can read before it writes them: what a block holds while its bit
\* is clear, and the table entry of an inode nothing names.
Visible ==
    <<[fs EXCEPT
         !.data = [b \in fs.block_bitmap |-> fs.data[b]],
         !.inode_table = 
             [n \in NamedInodes |-> fs.inode_table[n]]],
      current_dir, current_path, fopen_table, mode, call>>
=============================================================================
