----------------------------- MODULE Ext2Props ------------------------------
(***************************************************************************)
(* What the disk of Ext2 must look like between commands, what a command   *)
(* may do to it, and that it implements the tree of FileTree.              *)
(*                                                                         *)
(* It is claimed while Followed holds.  What the documents promise and the *)
(* code does not do, the steps into a fault among it, is in the last       *)
(* section.                                                                *)
(***************************************************************************)
EXTENDS Ext2

(* Entries, and what the root reaches through them. *)

EntriesOf(s, n) ==
    {EntryAt(s, n, p) : p \in {q \in Positions(s, n) : EntryAt(s, n, q).inode # 0}}

CountEntries(s, n) ==
    Cardinality({p \in Positions(s, n) : EntryAt(s, n, p).inode # 0})

\* Paths with the inode they lead to, through at most InodeCount directories.
Named(s, from, type) ==
    UNION {{<<Append(x[1], EntryAt(s, x[2], p).name), EntryAt(s, x[2], p).inode>> :
               p \in {q \in Positions(s, x[2]) :
                         LET e == EntryAt(s, x[2], q) IN
                         /\ e.inode # 0
                         /\ e.file_type = type
                         /\ type = DIR => e.name \notin {".", ".."}}} :
           x \in from}

DirPaths(s) ==
    LET reach[depth \in 0 .. InodeCount] ==
            IF depth = 0 THEN {<<<<>>, Root>>}
            ELSE LET above == reach[depth - 1] IN
                 above \cup Named(s, {x \in above : Len(x[1]) = depth - 1}, DIR)
    IN reach[InodeCount - 1]

FilePaths(s) == Named(s, DirPaths(s), FILE)

TypedPaths(s) ==
    {<<x[1], DIR>> : x \in DirPaths(s)} \cup {<<x[1], FILE>> : x \in FilePaths(s)}

LiveDirs(s) == {x[2] : x \in DirPaths(s)}
LiveFiles(s) == {x[2] : x \in FilePaths(s)}
Live(s) == LiveDirs(s) \cup LiveFiles(s)

\* The blocks of inode n; a write_file in progress has its own list.
BlockList(n) ==
    IF mode = "write" /\ call.inode = n THEN call.i_block ELSE Area(fs, n).i_block

\* Neither a command that never returned nor one that was killed.
Clean == fs.faults = {} /\ mode # "hung"
-----------------------------------------------------------------------------
(* No block belongs to two places of the tree or of a file, every block in *)
(* use is marked in the bitmap, and the free count counts the clear bits.  *)
(* As long as no command was killed, no marked block is lost either.  This *)
(* is what alloc_block, remove_block and their five callers must keep up   *)
(* together.                                                               *)
BlockOwnership ==
    Followed =>
        LET owners == UNION {{<<n, i>> : i \in 1 .. Len(BlockList(n))} : n \in Live(fs)}
            owned == {BlockList(o[1])[o[2]] : o \in owners}
        IN /\ Cardinality(owned) = Cardinality(owners)
           /\ owned \subseteq fs.block_bitmap
           /\ Clean => owned = fs.block_bitmap
           /\ fs.bg_free_blocks_count = BlockCount - Cardinality(fs.block_bitmap)

(* Every directory the root reaches starts with "." for itself and ".."    *)
(* for the directory that names it, and every inode has exactly one name.  *)
TreeShape ==
    Followed =>
        LET paths == DirPaths(fs) \cup FilePaths(fs) IN
        /\ \A x \in DirPaths(fs) :
             /\ Area(fs, x[2]).i_block # <<>>
             /\ BlockAt(fs, x[2], 1)[0] = NewEntry(x[2], DIR, ".")
             /\ \E y \in DirPaths(fs) :
                  /\ BlockAt(fs, x[2], 1)[1] = NewEntry(y[2], DIR, "..")
                  /\ y[1] = (IF x[1] = <<>> THEN <<>>
                             ELSE SubSeq(x[1], 1, Len(x[1]) - 1))
        /\ Cardinality(Live(fs)) = Cardinality(paths)
        /\ \A n \in LiveDirs(fs) :
             CountEntries(fs, n) =
                 Cardinality({<<e.name, e.file_type>> : e \in EntriesOf(fs, n)})

(* i_size is the number of entries of a directory: mkdir, cat and rmdir    *)
(* decide by it alone whether there is a free slot and whether a directory *)
(* is empty.  After a killed command it may be too large, never too small. *)
SizeCountsEntries ==
    Followed =>
        \A n \in LiveDirs(fs) :
            /\ CountEntries(fs, n) <= Area(fs, n).i_size
            /\ Clean => CountEntries(fs, n) = Area(fs, n).i_size

(* mkdir and cat look for a free slot without a test for not finding one:  *)
(* whenever the size says that the blocks are not full, there is one.      *)
PartialHasFreeSlot ==
    Followed =>
        \A n \in LiveDirs(fs) :
            /\ Area(fs, n).i_size <= Len(Area(fs, n).i_block) * EntriesPerBlock
            /\ Partial(fs, n) => FreeSlot(fs, n) # {}

(* The number of blocks of a file is what its size needs, so that          *)
(* read_file's walk over i_blocks meets every byte (an empty text leaves   *)
(* no block), and no list of blocks outgrows the array i_block.            *)
SizeFitsBlocks ==
    Followed =>
        /\ \A n \in Live(fs) : Len(BlockList(n)) <= MaxBlocks
        /\ mode # "write" =>
               \A n \in LiveFiles(fs) :
                   LET area == Area(fs, n) IN
                   area.i_block # <<>> =>
                       need_blocks(area.i_size) = Len(area.i_block)

(* A slot of the open table names a live file, and no two slots the same   *)
(* one, except for the last slot, which test_fd does not see.              *)
OpenTableLive ==
    Followed =>
        \A q \in 0 .. OpenSlots - 2 :
            fopen_table[q] # 0 =>
                /\ fopen_table[q] \in LiveFiles(fs)
                /\ \A r \in 0 .. OpenSlots - 2 :
                     fopen_table[r] = fopen_table[q] => r = q

(* Every inode in use is marked in the inode bitmap.                       *)
LiveInodesMarked == Followed => Live(fs) \subseteq fs.inode_bitmap

(* The free count never falls behind the clear bits of the inode bitmap,   *)
(* whatever rmdir and rm forget: get_inode refuses only when no inode is   *)
(* left.                                                                   *)
FreeCountCovers ==
    InodeCount <= Cardinality(fs.inode_bitmap) + fs.bg_free_inodes_count

(* The current directory can always be left and re-entered by its name:    *)
(* the path in the prompt leads from the root to current_dir.              *)
PathNamesCurrentDir ==
    Followed => <<current_path, current_dir>> \in DirPaths(fs)
-----------------------------------------------------------------------------
(* An inode that enters the tree was never in use since the last format:   *)
(* a number in the open table or in ".." cannot come to mean another file. *)
NewInodesAreFresh ==
    [][Followed' => \/ format
                    \/ (Live(fs') \ Live(fs)) \cap fs.inode_bitmap = {}]_vars

(* A command changes the entries of the current directory only.            *)
OthersKeepEntries ==
    [][Followed' => \/ format
                    \/ \A n \in (LiveDirs(fs) \cap LiveDirs(fs')) \ {current_dir} :
                           EntriesOf(fs', n) = EntriesOf(fs, n)]_vars
-----------------------------------------------------------------------------
(* The refinement. *)

Paths(set) == {x[1] : x \in set}

Tree == INSTANCE FileTree WITH
    dirs <- IF Followed THEN Paths(DirPaths(fs)) ELSE {<<>>},
    files <- IF Followed THEN Paths(FilePaths(fs)) ELSE {},
    cwd <- IF Followed THEN current_path ELSE <<>>,
    ok <- Followed

(* The file system implements the tree of paths: mkdir, touch, rmdir, rm   *)
(* and cd change exactly the path they name, under the directory the       *)
(* prompt shows, and every other command leaves the tree alone.            *)
ImplementsFileTree == Tree!Spec
-----------------------------------------------------------------------------
(* What the documents and comments of the repository say and the code does *)
(* not do.  Each is violated; the counterexample is the finding.           *)

(* remove_inode clears the bit of the inode, so that the free count is the *)
(* number of clear bits.                                                   *)
FreeCountCountsClearBits ==
    Followed =>
        fs.bg_free_inodes_count = InodeCount - Cardinality(fs.inode_bitmap)

(* Every command comes back to the prompt: the sweep of rmdir and rm gives *)
(* back the blocks that have become empty and ends.                        *)
CommandsReturn == mode # "hung"

(* A mkdir that comes back has added its one path to the tree, and writing *)
(* a file leaves the tree alone.  mkdir writes a block of the directory    *)
(* over the last one; a full disk gives a directory or a text block 0, the *)
(* root's; and without an inode the new name means nothing.                *)
CommandsKeepTheTree ==
    [][/\ \A tmp \in Names :
            mkdir(tmp) /\ mode' = "prompt" =>
                TypedPaths(fs') = TypedPaths(fs) \cup {<<Append(current_path, tmp), DIR>>}
       /\ WriteEnd => TypedPaths(fs') = TypedPaths(fs)]_vars

(* rm closes the file it deletes: no slot of the open table names an inode *)
(* that has left the tree.                                                 *)
RemovedFilesAreClosed ==
    Followed => \A q \in DOMAIN fopen_table :
                    fopen_table[q] # 0 => fopen_table[q] \in LiveFiles(fs)
=============================================================================
