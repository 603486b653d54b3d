------------------------------ MODULE Ext2Crash ------------------------------
(***************************************************************************)
(* The program of Lab3 dies in the middle of a command and is started      *)
(* again.  Besides a kill there is a death that is built in: every         *)
(* update_* of ex2.c opens ./Ext2 and nothing closes it, so that after     *)
(* about a thousand writes fopen returns NULL and the next fseek crashes.  *)
(*                                                                         *)
(* A command writes the disk once in every update_*.  For each command the *)
(* module has its cuts: the disks between its first and its last write, in *)
(* the order of the calls.  A crash leaves one of them to                  *)
(* initialize_memory.  Stamps are writes too, of fields the disk of Ext2   *)
(* does not have.  A cut after a fault is left to the fault; format is     *)
(* taken whole.                                                            *)
(*                                                                         *)
(* torn: the crash has left a block that an inode of the tree owns and the *)
(* bitmap calls free.  The next allocation may give it to a second owner,  *)
(* so that, as after a fault, only format is followed.                     *)
(***************************************************************************)
EXTENDS Ext2Props

CONSTANT MaxCrashes   \* bound on the crashes of a behaviour

ASSUME MaxCrashesAssumption == MaxCrashes \in Nat

VARIABLES
    crashes,   \* crashes so far
    torn

crashVars == <<vars, crashes, torn>>

CrashTypeOK ==
    /\ TypeOK
    /\ crashes \in 0 .. MaxCrashes
    /\ torn \in BOOLEAN
-----------------------------------------------------------------------------
(* The cuts of the helpers: both write a bitmap, then the counts.          *)

\* Mutant: the count is written first.
MarkBlockLate(s) == [s EXCEPT !.bg_free_blocks_count = @ - 1]

\* What is on the disk between the two writes of alloc_block.
MarkBlock(s) == [s EXCEPT !.block_bitmap = @ \cup {next_block(s)}]

\* One that fails writes nothing: the disk with the fault is not a cut.
AllocCuts(s) ==
    IF alloc_block(s).faults = s.faults THEN {MarkBlock(s), alloc_block(s)} ELSE {}

InodeCuts(s) ==
    IF next_inode(s) = 0 THEN {}
    ELSE {[s EXCEPT !.inode_bitmap = @ \cup {next_inode(s)}], get_inode(s)}

RemoveCuts(s, b) ==
    {[s EXCEPT !.block_bitmap = @ \ {b}], remove_block(s, b)}
-----------------------------------------------------------------------------
(* The cuts of the commands. *)

PrepareCuts(s, tmp, type, n) ==
    IF type = DIR
      THEN AllocCuts(s) \cup
           {update_dir(alloc_block(s), next_block(s), NewDirectory(tmp, n))}
      ELSE {}

Grown(s, n) == [Area(s, n) EXCEPT !.i_size = @ + 1]

\* Mutant: the type of the entry is stored by a later write.
FillCutsTypeLater(s, n, name, type, p, to) ==
    {update_dir(get_inode(s), Area(s, n).i_block[to],
         [BlockAt(s, n, p[1]) EXCEPT ![p[2]] = NewEntry(next_inode(s), FILE, name)])}

\* The new entry replaces slot p of its block; then the size is written.
FillCuts(s, n, name, type, p, to) ==
    LET tmpno == next_inode(s)
        s1 == update_dir(get_inode(s), Area(s, n).i_block[to],
                  [BlockAt(s, n, p[1]) EXCEPT ![p[2]] = NewEntry(tmpno, type, name)])
        s2 == update_inode_entry(s1, n, Grown(s, n))
    IN IF to # p[1] THEN {}
       ELSE InodeCuts(s) \cup {s1, s2} \cup PrepareCuts(s2, tmpno, type, n)

\* Mutant: the directory takes its block before the bitmap is written.
AppendCutsBitmapLast(s, n, name, type) ==
    LET b == next_block(s)
        content == [k \in Slots |->
                        IF k = 0 THEN NewEntry(next_inode(s), type, name) ELSE Empty]
    IN {update_inode_entry(get_inode(update_dir(s, b, content)), n,
            [Grown(s, n) EXCEPT !.i_block = Append(@, b)])}

\* The new block with its entry, then the inode that owns it.
AppendCuts(s, n, name, type) ==
    LET b == next_block(s)
        s1 == alloc_block(s)
        tmpno == next_inode(s1)
        content == [k \in Slots |->
                        IF k = 0 THEN NewEntry(tmpno, type, name) ELSE Empty]
        s2 == update_dir(get_inode(s1), b, content)
        s3 == update_inode_entry(s2, n, [Grown(s, n) EXCEPT !.i_block = Append(@, b)])
    IN AllocCuts(s) \cup InodeCuts(s1) \cup {s2, s3} \cup PrepareCuts(s3, tmpno, type, n)

\* mkdir and cat.
AddCuts(s, n, name, type) ==
    IF ~Partial(s, n) THEN AppendCuts(s, n, name, type)
    ELSE UNION {FillCuts(s, n, name, type, p,
                         IF type = DIR THEN Len(Area(s, n).i_block) ELSE p[1]) :
                    p \in FreeSlot(s, n)}

SweepCuts(s, n) ==
    IF Len(Area(s, n).i_block) > 1 /\ ~SweepHangs(s, n)
      THEN RemoveCuts(s, Area(s, n).i_block[2]) ELSE {}

\* Mutant: the entry is cleared after the sweep.
RmdirCutsEntryLast(s, n, p) ==
    LET child == EntryAt(s, n, p).inode
        s1 == remove_block(s, Area(s, child).i_block[1])
        cleared == ClearSlot(s1, n, p)
    IN IF Len(Area(s, n).i_block) > 1 /\ ~SweepHangs(cleared, n)
         THEN RemoveCuts(s1, Area(s, n).i_block[2]) ELSE {}

\* The block of the child, its inode, its entry, then the sweep.
RmdirCuts(s, n, p) ==
    LET child == EntryAt(s, n, p).inode
        b == Area(s, child).i_block[1]
        s1 == remove_inode(remove_block(s, b), child)
        s2 == ClearSlot(s1, n, p)
    IN RemoveCuts(s, b) \cup {s1, s2} \cup SweepCuts(s2, n)

\* The blocks of the file one by one, its entry, then the sweep.
DelCuts(s, n, p) ==
    LET area == Area(s, EntryAt(s, n, p).inode)
        freed(k) == remove_blocks(s, [area EXCEPT !.i_block = SubSeq(@, 1, k)])
        cleared == ClearSlot(remove_blocks(s, area), n, p)
    IN (UNION {RemoveCuts(freed(k - 1), area.i_block[k]) : k \in 1 .. Len(area.i_block)})
       \cup {cleared} \cup SweepCuts(cleared, n)

\* write_file from its first block on; the inode is written last, and the
\* blocks it does not own yet may hold anything.
WriteCuts(s) ==
    {s} \cup
    (CASE Len(call.i_block) < need_blocks(call.length) -> AllocCuts(s)
       [] Len(call.i_block) > need_blocks(call.length) ->
             RemoveCuts(s, call.i_block[Len(call.i_block)])
       [] OTHER -> {})
-----------------------------------------------------------------------------
OwnedBlocks(s, n) == BlocksOf(Area(s, n))

TornInodes(s) == {n \in Live(s) : ~(OwnedBlocks(s, n) \subseteq s.block_bitmap)}

DieAt(disks) ==
    /\ crashes < MaxCrashes
    /\ ~torn
    /\ \E disk \in disks :
         /\ disk.faults \subseteq {"killed"}
         /\ initialize_memory(fault(disk, {"killed"}))
         /\ torn' = (TornInodes(disk) # {})
    /\ crashes' = crashes + 1

CrashAdding(tmp, type) ==
    /\ Prompt
    /\ reserch_file(fs, current_dir, tmp, type) = {}
    /\ HasRoom(fs, current_dir)
    /\ DieAt(AddCuts(fs, current_dir, tmp, type))

CrashInRmdir(tmp) ==
    /\ Prompt
    /\ \E p \in reserch_file(fs, current_dir, tmp, DIR) :
         /\ Area(fs, EntryAt(fs, current_dir, p).inode).i_size = 2
         /\ DieAt(RmdirCuts(fs, current_dir, p))

CrashInDel(tmp) ==
    /\ Prompt
    /\ \E p \in reserch_file(fs, current_dir, tmp, FILE) :
         DieAt(DelCuts(stamp(fs, BlockAt(fs, current_dir, p[1]), {0, 1}),
                       current_dir, p))

CrashInWrite == mode = "write" /\ Followed /\ DieAt(WriteCuts(fs))

CrashInit == Init /\ crashes = 0 /\ torn = FALSE

CrashNext ==
    \/ ~torn /\ Next /\ UNCHANGED <<crashes, torn>>
    \/ torn /\ format /\ torn' = FALSE /\ UNCHANGED crashes
    \/ \E tmp \in Names : CrashAdding(tmp, DIR) \/ CrashInRmdir(tmp)
    \/ \E tmp \in FileNames : CrashAdding(tmp, FILE) \/ CrashInDel(tmp)
    \/ CrashInWrite

CrashSpec == CrashInit /\ [][CrashNext]_crashVars
-----------------------------------------------------------------------------
(* After any number of crashes no block of the tree has two owners, every  *)
(* one is marked, and the free count exceeds the number of clear bits by   *)
(* at most one for each crash and never falls below it: alloc_block writes *)
(* the bitmap before the count.                                            *)
OwnershipSurvives ==
    Followed /\ ~torn =>
        LET owners == UNION {{<<n, i>> : i \in 1 .. Len(BlockList(n))} : n \in Live(fs)}
            owned == {BlockList(o[1])[o[2]] : o \in owners}
            clear == BlockCount - Cardinality(fs.block_bitmap)
        IN /\ Cardinality(owned) = Cardinality(owners)
           /\ owned \subseteq fs.block_bitmap
           /\ fs.bg_free_blocks_count - clear \in 0 .. crashes

(* The size of a directory never falls behind its entries by more than one *)
(* for each crash.  (It may exceed them: a removal writes it last.)        *)
SizesSurvive ==
    Followed /\ ~torn =>
        \A n \in LiveDirs(fs) : CountEntries(fs, n) <= Area(fs, n).i_size + crashes

(* A tear is never wider than one inode: the one that was losing blocks.   *)
(* rmdir and rm clear the name of what they removed before they touch the  *)
(* blocks of the directory.                                                *)
TearIsOneInode == torn => Cardinality(TornInodes(fs)) = 1

(* A crash while a name is added, or while a file is written that needs no *)
(* fewer blocks than before, never tears: blocks are marked before an      *)
(* inode owns them.                                                        *)
GrowthNeverTears ==
    [][/\ \A tmp \in Names : CrashAdding(tmp, DIR) => ~torn'
       /\ \A tmp \in FileNames : CrashAdding(tmp, FILE) => ~torn'
       /\ CrashInWrite /\ Len(call.i_block) >= Len(Area(fs, call.inode).i_block)
              /\ need_blocks(call.length) >= Len(call.i_block)
          => ~torn']_crashVars

Below(path, set) ==
    {x \in set : Len(x[1]) > Len(path) /\ SubSeq(x[1], 1, Len(path)) = path}

(* A crash leaves the tree as it was before the command or as it is after  *)
(* it: each command makes its name appear or disappear in a single write.  *)
(* rmdir takes along what a directory of the wrong size still held.        *)
CrashIsAllOrNothing ==
    [][LET here(tmp) == Append(current_path, tmp)
           before == TypedPaths(fs)
       IN /\ \A tmp \in Names :
               CrashAdding(tmp, DIR) =>
                   TypedPaths(fs') \in {before, before \cup {<<here(tmp), DIR>>}}
          /\ \A tmp \in FileNames :
               CrashAdding(tmp, FILE) =>
                   TypedPaths(fs') \in {before, before \cup {<<here(tmp), FILE>>}}
          /\ \A tmp \in Names :
               CrashInRmdir(tmp) =>
                   TypedPaths(fs') \in
                       {before, before \ ({<<here(tmp), DIR>>} \cup Below(here(tmp), before))}
          /\ \A tmp \in FileNames :
               CrashInDel(tmp) =>
                   TypedPaths(fs') \in {before, before \ {<<here(tmp), FILE>>}}
          /\ CrashInWrite => TypedPaths(fs') = before]_crashVars
=============================================================================
