----------------------------- MODULE Ext2Proofs -----------------------------
(***************************************************************************)
(* What the operators of Ext2 do to a disk. First their types: one lemma   *)
(* per operator, which maps a file system to a file system, then one per   *)
(* action, which gives the type correctness of Ext2.  Then the tree on the *)
(* disk and what each operator does to it.                                 *)
(***************************************************************************)
EXTENDS Ext2Props, Ext2BitmapProofs, FiniteSetTheorems

\* What SizesAssumption says about the sets the definitions use.
LEMMA ConstantFacts ==
    /\ Root \in Inodes
    /\ 0 \in Blocks
    /\ Inodes \subseteq Nat /\ Blocks \subseteq Nat
    /\ {0, 1} \subseteq Slots
    /\ EntriesPerBlock \in Nat /\ OpenSlots \in Nat /\ MaxBlocks \in Nat
BY SizesAssumption DEF Root, Inodes, Blocks, Slots

\* next_block returns a block, and one whose bit is clear unless it fails.
LEMMA NextBlockType ==
  ASSUME NEW s \in FileSystems
  PROVE  /\ next_block(s) \in Blocks
         /\ s.bg_free_blocks_count # 0 /\ s.block_bitmap # Blocks
               => next_block(s) \notin s.block_bitmap
  <1>1. s.block_bitmap \subseteq Blocks /\ s.last_alloc_block \in Nat
    BY ConstantFacts DEF FileSystems
  <1>2. CASE s.bg_free_blocks_count = 0 \/ s.block_bitmap = Blocks
    BY <1>2, ConstantFacts DEF next_block
  <1>3. CASE s.bg_free_blocks_count # 0 /\ s.block_bitmap # Blocks
    <2>1. Clear(s.block_bitmap, BlockCount) # {} BY <1>1, <1>3 DEF Clear, Blocks
    <2>2. FirstClear(s.block_bitmap, s.last_alloc_block, BlockCount)
             \in Clear(s.block_bitmap, BlockCount)
      BY <1>1, <2>1, FirstClearIsClear, SizesAssumption
    <2> QED BY <1>3, <2>2 DEF next_block, Clear, Blocks
  <1> QED BY <1>2, <1>3

\* next_inode returns 0, or an inode whose bit is clear.
LEMMA NextInodeType ==
  ASSUME NEW s \in FileSystems, next_inode(s) # 0
  PROVE  /\ next_inode(s) \in Inodes
         /\ next_inode(s) \notin s.inode_bitmap
         /\ s.bg_free_inodes_count # 0
  <1>1. s.inode_bitmap \subseteq Inodes /\ s.last_alloc_inode - 1 \in Nat
    BY SizesAssumption DEF FileSystems, Inodes
  <1>2. s.bg_free_inodes_count # 0 /\ s.inode_bitmap # Inodes BY DEF next_inode
  <1>3. PICK n \in Inodes : n \notin s.inode_bitmap BY <1>1, <1>2
  <1>4. n - 1 \in Clear(InodeBits(s), InodeCount)
    BY <1>1, <1>3, SizesAssumption DEF Clear, InodeBits, Inodes
  <1>5. FirstClear(InodeBits(s), s.last_alloc_inode - 1, InodeCount)
           \in Clear(InodeBits(s), InodeCount)
    BY <1>1, <1>4, FirstClearIsClear, SizesAssumption
  <1>6. next_inode(s) = FirstClear(InodeBits(s), s.last_alloc_inode - 1, InodeCount) + 1
    BY <1>2 DEF next_inode
  <1>7. next_inode(s) - 1 \in Clear(InodeBits(s), InodeCount) /\ next_inode(s) \in Int
    BY <1>5, <1>6, SizesAssumption DEF Clear
  <1> QED BY <1>2, <1>7, SizesAssumption DEF Clear, InodeBits, Inodes

\* Recording a fault.
LEMMA FaultType ==
  ASSUME NEW s \in FileSystems, NEW f \in SUBSET Faults
  PROVE  fault(s, f) \in FileSystems
BY DEF fault, FileSystems

\* alloc_block, whether it finds a block or not.
LEMMA AllocBlockType ==
  ASSUME NEW s \in FileSystems
  PROVE  alloc_block(s) \in FileSystems
  <1>1. CASE s.bg_free_blocks_count = 0 \/ s.block_bitmap = Blocks
    BY <1>1, FaultType DEF alloc_block, Faults
  <1>2. CASE s.bg_free_blocks_count # 0 /\ s.block_bitmap # Blocks
    <2>1. s.block_bitmap \cup {next_block(s)} \in SUBSET Blocks
      BY NextBlockType DEF FileSystems
    <2>2. s.bg_free_blocks_count - 1 \in Nat BY <1>2 DEF FileSystems
    <2>3. next_block(s) \in Blocks BY NextBlockType
    <2> QED BY <1>2, <2>1, <2>2, <2>3 DEF alloc_block, FileSystems
  <1> QED BY <1>1, <1>2

\* get_inode, whether it finds an inode or not.
LEMMA GetInodeType ==
  ASSUME NEW s \in FileSystems
  PROVE  get_inode(s) \in FileSystems
  <1>1. CASE next_inode(s) = 0 BY <1>1, FaultType DEF get_inode, Faults
  <1>2. CASE next_inode(s) # 0
    <2>1. s.inode_bitmap \cup {next_inode(s)} \in SUBSET Inodes
      BY <1>2, NextInodeType DEF FileSystems
    <2>2. s.bg_free_inodes_count - 1 \in Nat BY <1>2, NextInodeType DEF FileSystems
    <2>3. next_inode(s) \in Inodes BY <1>2, NextInodeType
    <2> QED BY <1>2, <2>1, <2>2, <2>3 DEF get_inode, FileSystems
  <1> QED BY <1>1, <1>2

\* remove_block and remove_inode.
LEMMA RemoveType ==
  ASSUME NEW s \in FileSystems, NEW b, NEW n
  PROVE  /\ remove_block(s, b) \in FileSystems
         /\ remove_inode(s, n) \in FileSystems
  <1>1. s.block_bitmap \ {b} \in SUBSET Blocks /\ s.bg_free_blocks_count + 1 \in Nat
    BY DEF FileSystems
  <1>2. s.bg_free_inodes_count + 1 \in Nat BY DEF FileSystems
  <1> QED BY <1>1, <1>2 DEF remove_block, remove_inode, FileSystems

\* Writing a block of entries.
LEMMA UpdateDirType ==
  ASSUME NEW s \in FileSystems, NEW b \in Blocks, NEW content \in [Slots -> Entries]
  PROVE  update_dir(s, b, content) \in FileSystems
BY DEF update_dir, FileSystems

\* Writing an inode, "inode 0" included.
LEMMA UpdateInodeType ==
  ASSUME NEW s \in FileSystems, NEW n \in 0 .. InodeCount, NEW area \in InodeRecords
  PROVE  update_inode_entry(s, n, area) \in FileSystems
BY SizesAssumption DEF update_inode_entry, FileSystems, Inodes

\* Stamping the times of "." and "..".
LEMMA StampType ==
  ASSUME NEW s \in FileSystems, NEW content, NEW slots
  PROVE  stamp(s, content, slots) \in FileSystems
BY FaultType DEF stamp, Faults

\* An entry of the inode table has the fields of an inode.
LEMMA AreaType ==
  ASSUME NEW s \in FileSystems, NEW n \in Inodes
  PROVE  /\ Area(s, n) \in InodeRecords
         /\ Area(s, n).i_mode \in SUBSET ModeBits
         /\ Area(s, n).i_size \in Int
         /\ Area(s, n).i_block \in Seq(Blocks)
         /\ Len(Area(s, n).i_block) \in Nat
BY DEF Area, FileSystems, InodeRecords

\* What a block number of an inode leads to.
LEMMA BlockAtType ==
  ASSUME NEW s \in FileSystems, NEW n \in Inodes,
         NEW i \in 1 .. Len(Area(s, n).i_block)
  PROVE  /\ Area(s, n).i_block[i] \in Blocks
         /\ BlockAt(s, n, i) \in [Slots -> Entries]
  <1>1. Area(s, n).i_block[i] \in Blocks BY AreaType
  <1> QED BY <1>1 DEF BlockAt, FileSystems

\* What a position in a directory leads to.
LEMMA EntryAtType ==
  ASSUME NEW s \in FileSystems, NEW n \in Inodes, NEW p \in Positions(s, n)
  PROVE  /\ p[1] \in 1 .. Len(Area(s, n).i_block)
         /\ p[2] \in Slots
         /\ EntryAt(s, n, p) \in Entries
         /\ EntryAt(s, n, p).inode \in 0 .. InodeCount
  <1>1. p[1] \in 1 .. Len(Area(s, n).i_block) /\ p[2] \in Slots BY DEF Positions
  <1>2. BlockAt(s, n, p[1]) \in [Slots -> Entries] BY <1>1, BlockAtType
  <1>3. EntryAt(s, n, p) \in Entries BY <1>1, <1>2 DEF EntryAt
  <1> QED BY <1>1, <1>3 DEF Entries

\* A successful search gives a position that holds a real inode number.
LEMMA FoundType ==
  ASSUME NEW s \in FileSystems, NEW n \in Inodes, NEW tmp, NEW type,
         NEW p \in reserch_file(s, n, tmp, type)
  PROVE  /\ p \in Positions(s, n)
         /\ EntryAt(s, n, p).inode \in Inodes
  <1>1. p \in Positions(s, n) /\ BlockAt(s, n, p[1])[p[2]].inode # 0
    BY DEF reserch_file, First
  <1> QED BY <1>1, EntryAtType, SizesAssumption DEF EntryAt, Inodes

\* A free slot is a position of the directory.
LEMMA FreeSlotType ==
  ASSUME NEW s, NEW n, NEW p \in FreeSlot(s, n)
  PROVE  p \in Positions(s, n)
BY DEF FreeSlot, First

\* The entries the handlers build.
LEMMA EntryConstructors ==
  /\ Empty \in Entries
  /\ Text \in Entries
  /\ \A tmp \in 0 .. InodeCount, name \in Arguments :
        /\ NewEntry(tmp, DIR, name) \in Entries
        /\ NewEntry(tmp, FILE, name) \in Entries
BY SizesAssumption DEF Empty, Text, NewEntry, Entries, Arguments, DIR, FILE

\* The first block of a new directory.
LEMMA NewDirectoryType ==
  ASSUME NEW tmp \in 0 .. InodeCount, NEW n \in Inodes
  PROVE  NewDirectory(tmp, n) \in [Slots -> Entries]
  <1>1. [inode |-> tmp, file_type |-> DIR, name |-> "."] \in Entries
    BY DEF Entries, Arguments, DIR
  <1>2. [inode |-> n, file_type |-> DIR, name |-> ".."] \in Entries
    BY SizesAssumption DEF Entries, Arguments, DIR, Inodes
  <1> QED BY <1>1, <1>2, EntryConstructors DEF NewDirectory

\* dir_prepare, with inode 0 and block 0 included.
LEMMA DirPrepareType ==
  ASSUME NEW s \in FileSystems, NEW tmp \in 0 .. InodeCount, NEW type, NEW n \in Inodes
  PROVE  dir_prepare(s, tmp, type, n) \in FileSystems
  <1>1. CASE type = DIR
    <2> DEFINE b == next_block(s)
    <2>1. b \in Blocks BY NextBlockType
    <2>2. update_dir(alloc_block(s), b, NewDirectory(tmp, n)) \in FileSystems
      BY <2>1, AllocBlockType, NewDirectoryType, UpdateDirType
    <2>3. [i_mode |-> {"r", "w"}, i_size |-> 2, i_block |-> <<b>>] \in InodeRecords
      BY <2>1 DEF InodeRecords, ModeBits
    <2> QED BY <1>1, <2>2, <2>3, UpdateInodeType DEF dir_prepare
  <1>2. CASE type # DIR
    <2>1. [i_mode |-> ModeBits, i_size |-> 0, i_block |-> <<>>] \in InodeRecords
      BY DEF InodeRecords
    <2> QED BY <1>2, <2>1, UpdateInodeType DEF dir_prepare
  <1> QED BY <1>1, <1>2

\* What next_inode returns can be stored in an entry.
LEMMA NextInodeRange ==
  ASSUME NEW s \in FileSystems
  PROVE  next_inode(s) \in 0 .. InodeCount
BY NextInodeType, SizesAssumption DEF Inodes

\* mkdir and cat when a slot is free.
LEMMA FillSlotType ==
  ASSUME NEW s \in FileSystems, NEW n \in Inodes, NEW name \in Arguments,
         NEW type \in {FILE, DIR}, NEW p \in Positions(s, n),
         NEW to \in 1 .. Len(Area(s, n).i_block)
  PROVE  FillSlot(s, n, name, type, p, to) \in FileSystems
  <1> DEFINE tmpno == next_inode(s)
             content == [BlockAt(s, n, p[1]) EXCEPT ![p[2]] = NewEntry(tmpno, type, name)]
             s1 == update_dir(get_inode(s), Area(s, n).i_block[to], content)
             area == [Area(s, n) EXCEPT !.i_size = @ + 1]
             s2 == update_inode_entry(s1, n, area)
             s3 == IF to = p[1] THEN s2 ELSE fault(s2, {"lastblock"})
  <1>1. tmpno \in 0 .. InodeCount BY NextInodeRange
  <1>2. content \in [Slots -> Entries]
    <2>1. NewEntry(tmpno, type, name) \in Entries BY <1>1, EntryConstructors
    <2> QED BY <2>1, EntryAtType, BlockAtType
  <1>3. s1 \in FileSystems BY <1>2, GetInodeType, BlockAtType, UpdateDirType
  <1>4. area \in InodeRecords BY AreaType DEF InodeRecords
  <1>5. n \in 0 .. InodeCount BY SizesAssumption DEF Inodes
  <1>6. s2 \in FileSystems BY <1>3, <1>4, <1>5, UpdateInodeType
  <1>7. s3 \in FileSystems BY <1>6, FaultType DEF Faults
  <1> HIDE DEF s3
  <1>8. stamp(s3, content, {0, 1}) \in FileSystems BY <1>7, StampType
  <1> QED BY <1>1, <1>8, DirPrepareType DEF FillSlot, s3

\* mkdir and cat when every block is full.
LEMMA AppendBlockType ==
  ASSUME NEW s \in FileSystems, NEW n \in Inodes, NEW name \in Arguments,
         NEW type \in {FILE, DIR}
  PROVE  AppendBlock(s, n, name, type) \in FileSystems
  <1> DEFINE b == next_block(s)
             s1 == alloc_block(s)
             tmpno == next_inode(s1)
             content == [k \in Slots |->
                            IF k = 0 THEN NewEntry(tmpno, type, name) ELSE Empty]
             s2 == update_dir(get_inode(s1), b, content)
             area == [Area(s, n) EXCEPT !.i_size = @ + 1, !.i_block = Append(@, b)]
             s3 == update_inode_entry(s2, n, area)
  <1>1. b \in Blocks BY NextBlockType
  <1>2. s1 \in FileSystems BY AllocBlockType
  <1> HIDE DEF s1, b
  <1>3. tmpno \in 0 .. InodeCount BY <1>2, NextInodeRange
  <1>4. content \in [Slots -> Entries] BY <1>3, EntryConstructors
  <1>5. s2 \in FileSystems BY <1>1, <1>2, <1>4, GetInodeType, UpdateDirType
  <1>6. area \in InodeRecords
    <2>1. Append(Area(s, n).i_block, b) \in Seq(Blocks) BY <1>1, AreaType
    <2>2. Area(s, n).i_size + 1 \in Int BY AreaType
    <2> QED BY <2>1, <2>2, AreaType DEF InodeRecords
  <1>7. n \in 0 .. InodeCount BY SizesAssumption DEF Inodes
  <1>8. s3 \in FileSystems BY <1>5, <1>6, <1>7, UpdateInodeType
  <1> QED BY <1>3, <1>8, DirPrepareType DEF AppendBlock, s1, b

\* Removing an entry.
LEMMA ClearSlotType ==
  ASSUME NEW s \in FileSystems, NEW n \in Inodes, NEW p \in Positions(s, n)
  PROVE  ClearSlot(s, n, p) \in FileSystems
  <1>1. [BlockAt(s, n, p[1]) EXCEPT ![p[2]] = Empty] \in [Slots -> Entries]
    BY EntryAtType, BlockAtType, EntryConstructors
  <1> QED BY <1>1, EntryAtType, BlockAtType, UpdateDirType DEF ClearSlot

\* Giving back an empty block.
LEMMA SweptType ==
  ASSUME NEW s \in FileSystems, NEW n \in Inodes
  PROVE  Swept(s, n) \in FileSystems
  <1> DEFINE area == [Area(s, n) EXCEPT !.i_size = Area(s, n).i_size - 1]
             kept == SubSeq(area.i_block, 1, 1)
                        \o SubSeq(area.i_block, 3, Len(area.i_block))
  <1>1. area \in InodeRecords /\ area.i_block \in Seq(Blocks)
    BY AreaType DEF InodeRecords
  <1>2. n \in 0 .. InodeCount BY SizesAssumption DEF Inodes
  <1> HIDE DEF area
  <1>3. CASE Len(area.i_block) > 1
    <2>1. kept \in Seq(Blocks) BY <1>1, <1>3
    <2>2. [area EXCEPT !.i_block = kept] \in InodeRecords
      BY <1>1, <2>1 DEF InodeRecords
    <2> HIDE DEF kept
    <2>3. update_inode_entry(remove_block(s, area.i_block[2]), n,
               [area EXCEPT !.i_block = kept]) \in FileSystems
      BY <1>2, <2>2, RemoveType, UpdateInodeType
    <2> QED BY <1>3, <2>3 DEF Swept, SweptTo, area, kept
  <1>4. CASE ~ (Len(area.i_block) > 1)
    BY <1>1, <1>2, <1>4, UpdateInodeType DEF Swept, SweptTo, area
  <1> QED BY <1>3, <1>4

\* Giving back the blocks of a file.
LEMMA RemoveBlocksType ==
  ASSUME NEW s \in FileSystems, NEW area, area.i_block \in Seq(Blocks)
  PROVE  remove_blocks(s, area) \in FileSystems
  <1>1. s.block_bitmap \ BlocksOf(area) \in SUBSET Blocks BY DEF FileSystems
  <1>2. s.bg_free_blocks_count + Len(area.i_block) \in Nat BY DEF FileSystems
  <1> QED BY <1>1, <1>2 DEF remove_blocks, FileSystems

\* The disk as initialize_disk clears it.
LEMMA ZeroedDiskType == ZeroedDisk \in FileSystems
  <1>1. BlockCount \in Nat /\ InodeCount \in Nat BY SizesAssumption
  <1>2. [n \in Inodes |-> [i_mode |-> {}, i_size |-> 0, i_block |-> <<>>]]
           \in [Inodes -> InodeRecords]
    BY DEF InodeRecords
  <1>3. [b \in Blocks |-> [k \in Slots |-> Empty]] \in [Blocks -> [Slots -> Entries]]
    BY EntryConstructors
  <1>4. 1 \in Inodes BY ConstantFacts DEF Root
  <1> QED BY <1>1, <1>2, <1>3, <1>4, ConstantFacts DEF ZeroedDisk, FileSystems

\* The disk with its root: get_inode finds inode 1 on an empty disk.
LEMMA InitializeDiskType == initialize_disk \in FileSystems
  <1> DEFINE b == next_block(ZeroedDisk)
             s1 == alloc_block(ZeroedDisk)
             n == next_inode(s1)
             root == [i_mode |-> {"r", "w"}, i_size |-> 2, i_block |-> <<b>>]
  <1>1. b \in Blocks BY ZeroedDiskType, NextBlockType
  <1>2. s1 \in FileSystems BY ZeroedDiskType, AllocBlockType
  <1>3. root \in InodeRecords BY <1>1 DEF InodeRecords, ModeBits
  <1>4. s1.inode_bitmap = {} /\ s1.last_alloc_inode = 1
             /\ s1.bg_free_inodes_count = InodeCount
    BY DEF ZeroedDisk, alloc_block, fault
  <1> HIDE DEF b, s1, root
  <1>5. n # 0
    <2>1. n = FirstClear(InodeBits(s1), 0, InodeCount) + 1
      BY <1>4, SizesAssumption DEF next_inode, Inodes
    <2>2. 0 \in Clear(InodeBits(s1), InodeCount)
      BY <1>4, SizesAssumption DEF Clear, InodeBits
    <2>3. FirstClear(InodeBits(s1), 0, InodeCount) \in Clear(InodeBits(s1), InodeCount)
      BY <2>2, FirstClearIsClear, SizesAssumption
    <2> QED BY <2>1, <2>3, SizesAssumption DEF Clear
  <1>6. n \in Inodes /\ n \in 0 .. InodeCount
    BY <1>2, <1>5, NextInodeType, NextInodeRange
  <1> HIDE DEF n
  <1>7. update_inode_entry(get_inode(s1), n, root) \in FileSystems
    BY <1>2, <1>3, <1>6, GetInodeType, UpdateInodeType
  <1>8. NewDirectory(n, n) \in [Slots -> Entries] BY <1>6, NewDirectoryType
  <1>9. update_dir(update_inode_entry(get_inode(s1), n, root), b, NewDirectory(n, n))
           \in FileSystems
    BY <1>1, <1>7, <1>8, UpdateDirType
  <1> QED BY <1>9 DEF initialize_disk, b, s1, n, root

\* The empty open table.
LEMMA NoFilesOpenType == NoFilesOpen \in [0 .. OpenSlots - 1 -> 0 .. InodeCount]
BY SizesAssumption DEF NoFilesOpen

\* The locals when no write_file is in progress.
LEMMA NoCallType == NoCall \in Calls
BY ConstantFacts DEF NoCall, Calls

\* The initial state.
LEMMA InitType == Init => TypeOK
BY InitializeDiskType, NoFilesOpenType, NoCallType, ConstantFacts DEF Init, TypeOK

\* Opening and closing a file.
LEMMA WithSlotsType ==
  ASSUME TypeOK, NEW slots, NEW n \in 0 .. InodeCount
  PROVE  WithSlots(slots, n) \in [0 .. OpenSlots - 1 -> 0 .. InodeCount]
BY DEF TypeOK, WithSlots

\* Starting the program on a given disk.
LEMMA InitializeMemoryType ==
  ASSUME TypeOK, NEW disk \in FileSystems, initialize_memory(disk)
  PROVE  TypeOK'
  <1>1. fs' \in FileSystems
    BY ConstantFacts DEF initialize_memory, FileSystems, Root
  <1> QED BY <1>1, NoFilesOpenType, ConstantFacts DEF initialize_memory, TypeOK

\* What mkdir and cat have in common.
LEMMA AddType ==
  ASSUME TypeOK, NEW tmp \in Arguments, NEW type \in {FILE, DIR}, NEW to,
         \A p \in Positions(fs, current_dir) :
             to[p[1]] \in 1 .. Len(Area(fs, current_dir).i_block),
         Add(tmp, type, to)
  PROVE  TypeOK'
  <1>1. fs \in FileSystems /\ current_dir \in Inodes BY DEF TypeOK
  <1>2. fs' \in FileSystems
    <2>1. ASSUME NEW p \in FreeSlot(fs, current_dir),
                 fs' = FillSlot(fs, current_dir, tmp, type, p, to[p[1]])
          PROVE  fs' \in FileSystems
      BY <1>1, <2>1, FreeSlotType, FillSlotType
    <2>2. CASE fs' = AppendBlock(fs, current_dir, tmp, type)
      BY <1>1, <2>2, AppendBlockType
    <2>3. CASE fs' = IF Partial(fs, current_dir) THEN fs ELSE alloc_block(fs)
      BY <1>1, <2>3, AllocBlockType
    <2>4. CASE fs' = fault(fs, {"noslot"})
      BY <1>1, <2>4, FaultType DEF Faults
    <2> QED BY <2>1, <2>2, <2>3, <2>4 DEF Add
  <1>3. mode' \in {"prompt", "write", "hung"} BY DEF Add, TypeOK
  <1> QED BY <1>2, <1>3 DEF Add, TypeOK

\* mkdir writes to the last block of the directory.
LEMMA MkdirType ==
  ASSUME TypeOK, NEW tmp \in Names, mkdir(tmp)
  PROVE  TypeOK'
  <1> DEFINE last == Len(Area(fs, current_dir).i_block)
             to == [i \in 1 .. last |-> last]
  <1>1. fs \in FileSystems /\ current_dir \in Inodes BY DEF TypeOK
  <1>2. last \in Nat BY <1>1, AreaType
  <1>3. \A p \in Positions(fs, current_dir) : p[1] \in 1 .. last BY <1>1, EntryAtType
  <1>4. \A p \in Positions(fs, current_dir) : to[p[1]] \in 1 .. last BY <1>2, <1>3
  <1>5. tmp \in Arguments BY DEF Arguments
  <1>6. Add(tmp, DIR, to) BY DEF mkdir
  <1> HIDE DEF to
  <1> QED BY <1>4, <1>5, <1>6, AddType

\* cat writes to the block it read.
LEMMA CatType ==
  ASSUME TypeOK, NEW tmp \in FileNames, cat(tmp)
  PROVE  TypeOK'
  <1> DEFINE last == Len(Area(fs, current_dir).i_block)
             to == [i \in 1 .. last |-> i]
  <1>1. fs \in FileSystems /\ current_dir \in Inodes BY DEF TypeOK
  <1>2. \A p \in Positions(fs, current_dir) : to[p[1]] \in 1 .. last
    BY <1>1, EntryAtType
  <1>3. tmp \in Arguments BY SizesAssumption DEF Arguments
  <1>4. Add(tmp, FILE, to) BY DEF cat
  <1> HIDE DEF to
  <1> QED BY <1>2, <1>3, <1>4, AddType

\* The positions of a directory depend on the inode table only.
LEMMA PositionsKept ==
  ASSUME NEW s \in FileSystems, NEW t \in FileSystems, NEW n \in Inodes,
         t.inode_table = s.inode_table
  PROVE  Positions(t, n) = Positions(s, n)
BY DEF Positions, Area

\* rmdir, whether its sweep ends or hangs.
LEMMA RmdirType ==
  ASSUME TypeOK, NEW tmp \in Names, rmdir(tmp)
  PROVE  TypeOK'
  <1>1. fs \in FileSystems /\ current_dir \in Inodes BY DEF TypeOK
  <1>2. PICK p \in reserch_file(fs, current_dir, tmp, DIR) :
         LET child == EntryAt(fs, current_dir, p).inode
             s1 == remove_block(fs, Area(fs, child).i_block[1])
             s2 == ClearSlot(remove_inode(s1, child), current_dir, p)
             last == IF Len(Area(fs, current_dir).i_block) > 1 THEN 2 ELSE p[1]
         IN \/ fs' = s2 /\ mode' = "hung"
            \/ /\ fs' = stamp(Swept(s2, current_dir),
                              BlockAt(s2, current_dir, last), {p[1] - 1})
               /\ UNCHANGED mode
    BY DEF rmdir
  <1> DEFINE child == EntryAt(fs, current_dir, p).inode
             s1 == remove_block(fs, Area(fs, child).i_block[1])
             s0 == remove_inode(s1, child)
             s2 == ClearSlot(s0, current_dir, p)
  <1>3. s1 \in FileSystems BY <1>1, RemoveType
  <1>4. s0 \in FileSystems BY <1>3, RemoveType
  <1>5. s0.inode_table = fs.inode_table
    BY <1>1 DEF remove_inode, remove_block, FileSystems
  <1>6. p \in Positions(s0, current_dir) BY <1>1, <1>4, <1>5, FoundType, PositionsKept
  <1>7. s2 \in FileSystems BY <1>1, <1>4, <1>6, ClearSlotType
  <1>8. fs' = s2 \/ \E content, slots : fs' = stamp(Swept(s2, current_dir), content, slots)
    BY <1>2
  <1> HIDE DEF s2
  <1>9. fs' \in FileSystems BY <1>1, <1>7, <1>8, SweptType, StampType
  <1>10. mode' \in {"prompt", "write", "hung"} BY <1>2 DEF TypeOK
  <1> QED BY <1>9, <1>10 DEF rmdir, TypeOK

\* del, whether its sweep ends or hangs.
LEMMA DelType ==
  ASSUME TypeOK, NEW tmp, del(tmp)
  PROVE  TypeOK'
  <1>1. fs \in FileSystems /\ current_dir \in Inodes BY DEF TypeOK
  <1>2. PICK p \in reserch_file(fs, current_dir, tmp, FILE) :
         LET file == EntryAt(fs, current_dir, p).inode
             s1 == stamp(fs, BlockAt(fs, current_dir, p[1]), {0, 1})
             s2 == ClearSlot(remove_blocks(s1, Area(fs, file)), current_dir, p)
         IN /\ fopen_table' = WithSlots(FirstOpen(file), 0)
            /\ \/ fs' = s2 /\ mode' = "hung"
               \/ fs' = Swept(s2, current_dir) /\ UNCHANGED mode
    BY DEF del
  <1> DEFINE file == EntryAt(fs, current_dir, p).inode
             s1 == stamp(fs, BlockAt(fs, current_dir, p[1]), {0, 1})
             s0 == remove_blocks(s1, Area(fs, file))
             s2 == ClearSlot(s0, current_dir, p)
  <1>3. file \in Inodes BY <1>1, FoundType
  <1>4. s1 \in FileSystems BY <1>1, StampType
  <1>5. s0 \in FileSystems BY <1>1, <1>3, <1>4, AreaType, RemoveBlocksType
  <1>6. s0.inode_table = fs.inode_table
    BY <1>1, <1>4 DEF remove_blocks, stamp, fault, FileSystems
  <1>7. p \in Positions(s0, current_dir) BY <1>1, <1>5, <1>6, FoundType, PositionsKept
  <1>8. s2 \in FileSystems BY <1>1, <1>5, <1>7, ClearSlotType
  <1> HIDE DEF s2
  <1>9. fs' \in FileSystems BY <1>1, <1>2, <1>8, SweptType DEF s2
  <1>10. fopen_table' \in [0 .. OpenSlots - 1 -> 0 .. InodeCount]
    BY <1>2, WithSlotsType, SizesAssumption
  <1>11. mode' \in {"prompt", "write", "hung"} BY <1>2 DEF TypeOK
  <1> QED BY <1>9, <1>10, <1>11 DEF del, TypeOK

\* cd, and the path in the prompt.
LEMMA CdType ==
  ASSUME TypeOK, NEW tmp \in Arguments, cd(tmp)
  PROVE  TypeOK'
  <1>1. fs \in FileSystems /\ current_dir \in Inodes /\ current_path \in Seq(Names)
    BY DEF TypeOK
  <1>2. current_dir' \in Inodes BY <1>1, FoundType DEF cd
  <1>3. SubSeq(current_path, 1, Len(current_path) - 1) \in Seq(Names) BY <1>1
  <1>4. tmp \notin {".", ".."} => Append(current_path, tmp) \in Seq(Names)
    BY <1>1 DEF Arguments
  <1>5. current_path' \in {current_path, SubSeq(current_path, 1, Len(current_path) - 1)}
            \/ (tmp \notin {".", ".."} /\ current_path' = Append(current_path, tmp))
    BY DEF cd
  <1>6. current_path' \in Seq(Names) BY <1>1, <1>3, <1>4, <1>5
  <1> QED BY <1>2, <1>6 DEF cd, TypeOK

\* attrib.
LEMMA AttribType ==
  ASSUME TypeOK, NEW tmp, NEW attr, attrib(tmp, attr)
  PROVE  TypeOK'
  <1>1. fs \in FileSystems /\ current_dir \in Inodes BY DEF TypeOK
  <1>2. PICK type \in {FILE, DIR} : \E p \in reserch_file(fs, current_dir, tmp, type) :
          LET n == EntryAt(fs, current_dir, p).inode IN
          fs' = update_inode_entry(fs, n,
                    [Area(fs, n) EXCEPT !.i_mode = NewMode(@, attr)])
    BY DEF attrib
  <1>3. PICK p \in reserch_file(fs, current_dir, tmp, type) :
          LET n == EntryAt(fs, current_dir, p).inode IN
          fs' = update_inode_entry(fs, n,
                    [Area(fs, n) EXCEPT !.i_mode = NewMode(@, attr)])
    BY <1>2
  <1> DEFINE n == EntryAt(fs, current_dir, p).inode
  <1>4. n \in Inodes BY <1>1, FoundType
  <1>5. NewMode(Area(fs, n).i_mode, attr) \in SUBSET ModeBits
    BY <1>1, <1>4, AreaType DEF NewMode, ModeBits
  <1>6. [Area(fs, n) EXCEPT !.i_mode = NewMode(Area(fs, n).i_mode, attr)] \in InodeRecords
    BY <1>1, <1>4, <1>5, AreaType DEF InodeRecords
  <1>7. n \in 0 .. InodeCount BY <1>4, SizesAssumption DEF Inodes
  <1>8. fs' \in FileSystems BY <1>1, <1>3, <1>6, <1>7, UpdateInodeType
  <1> QED BY <1>8 DEF attrib, TypeOK

\* open_file, past the end of the table included.
LEMMA OpenFileType ==
  ASSUME TypeOK, NEW tmp, open_file(tmp)
  PROVE  TypeOK'
  <1>1. fs \in FileSystems /\ current_dir \in Inodes BY DEF TypeOK
  <1>2. PICK p \in reserch_file(fs, current_dir, tmp, FILE) :
          LET n == EntryAt(fs, current_dir, p).inode IN
          /\ fopen_table' = WithSlots(FirstOpen(0), n)
          /\ fs' = IF FirstOpen(0) = {} THEN fault(fs, {"openslot"}) ELSE fs
    BY DEF open_file
  <1>3. EntryAt(fs, current_dir, p).inode \in 0 .. InodeCount
    BY <1>1, FoundType, SizesAssumption DEF Inodes
  <1>4. fopen_table' \in [0 .. OpenSlots - 1 -> 0 .. InodeCount]
    BY <1>2, <1>3, WithSlotsType
  <1>5. fs' \in FileSystems BY <1>1, <1>2, FaultType DEF Faults
  <1> QED BY <1>4, <1>5 DEF open_file, TypeOK

\* close_file.
LEMMA CloseFileType ==
  ASSUME TypeOK, NEW tmp, close_file(tmp)
  PROVE  TypeOK'
  <1>1. \E slots : fopen_table' = WithSlots(slots, 0) BY DEF close_file
  <1>2. fopen_table' \in [0 .. OpenSlots - 1 -> 0 .. InodeCount]
    BY <1>1, WithSlotsType, SizesAssumption
  <1> QED BY <1>2 DEF close_file, TypeOK

\* The four parts of write_file.
LEMMA WriteBeginType ==
  ASSUME TypeOK, NEW tmp, NEW text \in Texts, WriteBegin(tmp, text)
  PROVE  TypeOK'
  <1>1. fs \in FileSystems /\ current_dir \in Inodes BY DEF TypeOK
  <1>2. PICK p \in reserch_file(fs, current_dir, tmp, FILE) :
          LET n == EntryAt(fs, current_dir, p).inode IN
          call' = [inode |-> n,
                   i_block |-> Area(fs, n).i_block,
                   length |-> Length(text),
                   block |-> Area(fs, current_dir).i_block[p[1]]]
    BY DEF WriteBegin
  <1>3. EntryAt(fs, current_dir, p).inode \in Inodes /\ p \in Positions(fs, current_dir)
    BY <1>1, FoundType
  <1>4. Area(fs, current_dir).i_block[p[1]] \in Blocks
    BY <1>1, <1>3, EntryAtType, BlockAtType
  <1>5. MaxSize \in Nat BY SizesAssumption DEF MaxSize
  <1>6. Length(text) \in Nat BY <1>5, SizesAssumption DEF Length
  <1>7. call' \in Calls BY <1>1, <1>2, <1>3, <1>4, <1>6, AreaType DEF Calls
  <1> QED BY <1>7 DEF WriteBegin, TypeOK

\* One block more.
LEMMA WriteGrowType ==
  ASSUME TypeOK, WriteGrow
  PROVE  TypeOK'
  <1>1. fs \in FileSystems /\ call \in Calls BY DEF TypeOK
  <1>2. Append(call.i_block, next_block(fs)) \in Seq(Blocks)
    BY <1>1, NextBlockType DEF Calls
  <1>3. call' \in Calls BY <1>1, <1>2 DEF WriteGrow, Calls
  <1>4. fs' \in FileSystems BY <1>1, AllocBlockType DEF WriteGrow
  <1> QED BY <1>3, <1>4 DEF WriteGrow, TypeOK

\* One block less.
LEMMA WriteShrinkType ==
  ASSUME TypeOK, WriteShrink
  PROVE  TypeOK'
  <1>1. fs \in FileSystems /\ call \in Calls BY DEF TypeOK
  <1>2. SubSeq(call.i_block, 1, Len(call.i_block) - 1) \in Seq(Blocks)
    BY <1>1 DEF Calls
  <1>3. call' \in Calls BY <1>1, <1>2 DEF WriteShrink, Calls
  <1>4. fs' \in FileSystems BY <1>1, RemoveType DEF WriteShrink
  <1> QED BY <1>3, <1>4 DEF WriteShrink, TypeOK

\* The text and the inode are written.
LEMMA WriteEndType ==
  ASSUME TypeOK, WriteEnd
  PROVE  TypeOK'
  <1> DEFINE size == IF call.i_block = <<>> THEN Area(fs, call.inode).i_size
                                             ELSE call.length
             s1 == stamp(fs, fs.data[call.block], {0, 1})
             texts == [b \in Blocks |-> IF b \in BlocksOf(call)
                                         THEN [k \in Slots |-> Text]
                                         ELSE s1.data[b]]
             s2 == [s1 EXCEPT !.data = texts]
             area == [Area(fs, call.inode) EXCEPT !.i_size = size,
                                                  !.i_block = call.i_block]
  <1>1. /\ fs \in FileSystems
        /\ call.inode \in Inodes /\ call.i_block \in Seq(Blocks) /\ call.length \in Nat
    BY DEF TypeOK, Calls
  <1>2. s1 \in FileSystems BY <1>1, StampType
  <1> HIDE DEF s1
  <1>3. texts \in [Blocks -> [Slots -> Entries]]
    BY <1>2, EntryConstructors DEF FileSystems
  <1> HIDE DEF texts
  <1>4. s2 \in FileSystems BY <1>2, <1>3 DEF FileSystems
  <1>5. size \in Int BY <1>1, AreaType
  <1> HIDE DEF s2, size
  <1>6. area \in InodeRecords BY <1>1, <1>5, AreaType DEF InodeRecords
  <1>7. call.inode \in 0 .. InodeCount BY <1>1, SizesAssumption DEF Inodes
  <1>8. FinishWrite(size) BY DEF WriteEnd, size
  <1>9. fs' = update_inode_entry(s2, call.inode, area)
    BY <1>8 DEF FinishWrite, s2, texts, s1
  <1>10. fs' \in FileSystems BY <1>4, <1>6, <1>7, <1>9, UpdateInodeType
  <1> QED BY <1>8, <1>10, NoCallType DEF FinishWrite, TypeOK

\* format and the two ways to start again.
LEMMA StartType ==
  ASSUME TypeOK, format \/ Restart \/ KillHung
  PROVE  TypeOK'
  <1>1. fs \in FileSystems /\ fault(fs, {"killed"}) \in FileSystems
    BY FaultType DEF TypeOK, Faults
  <1> QED BY <1>1, InitializeDiskType, InitializeMemoryType DEF format, Restart, KillHung

\* Every step.
LEMMA NextType ==
  ASSUME TypeOK, [Next]_vars
  PROVE  TypeOK'
  <1>1. CASE Next
    <2>1. ASSUME NEW tmp \in Arguments, cd(tmp) PROVE TypeOK' BY <2>1, CdType
    <2>2. ASSUME NEW tmp \in Arguments, NEW attr \in Attributes, attrib(tmp, attr)
          PROVE  TypeOK'
      BY <2>2, AttribType
    <2>3. ASSUME NEW tmp \in Names, mkdir(tmp) PROVE TypeOK' BY <2>3, MkdirType
    <2>4. ASSUME NEW tmp \in Names, rmdir(tmp) PROVE TypeOK' BY <2>4, RmdirType
    <2>5. ASSUME NEW tmp \in FileNames, cat(tmp) PROVE TypeOK' BY <2>5, CatType
    <2>6. ASSUME NEW tmp \in FileNames, del(tmp) PROVE TypeOK' BY <2>6, DelType
    <2>7. ASSUME NEW tmp \in FileNames, open_file(tmp) PROVE TypeOK'
      BY <2>7, OpenFileType
    <2>8. ASSUME NEW tmp \in FileNames, close_file(tmp) PROVE TypeOK'
      BY <2>8, CloseFileType
    <2>9. ASSUME NEW tmp \in FileNames, NEW text \in Texts, WriteBegin(tmp, text)
          PROVE  TypeOK'
      BY <2>9, WriteBeginType
    <2>10. CASE WriteGrow BY <2>10, WriteGrowType
    <2>11. CASE WriteShrink BY <2>11, WriteShrinkType
    <2>12. CASE WriteEnd BY <2>12, WriteEndType
    <2>13. CASE format \/ Restart \/ KillHung BY <2>13, StartType
    <2> QED BY <1>1, <2>1, <2>2, <2>3, <2>4, <2>5, <2>6, <2>7, <2>8, <2>9, <2>10,
               <2>11, <2>12, <2>13 DEF Next
  <1>2. CASE UNCHANGED vars BY <1>2 DEF vars, TypeOK
  <1> QED BY <1>1, <1>2

(* Every number the handlers store stays in its range, for any sizes of    *)
(* the disk: inode numbers, block numbers and directory entries, with the  *)
(* failed searches and allocations that the code goes on from included.    *)
THEOREM TypeCorrect == Spec => []TypeOK
  <1>1. Init => TypeOK BY InitType
  <1>2. TypeOK /\ [Next]_vars => TypeOK' BY NextType
  <1> QED BY <1>1, <1>2, PTL DEF Spec
-----------------------------------------------------------------------------
(***************************************************************************)
(* The tree on the disk of Ext2, said without paths: which entries a set D *)
(* of directories and a set F of files must have between them. up gives    *)
(* each directory its parent and path its path; a step changes one entry,  *)
(* so that this Shape is easy to carry along, and it implies what the      *)
(* invariants of Ext2Props say of the inodes that the root reaches.        *)
(*                                                                         *)
(* Beside the Shape, Stored says what else the disk keeps of those inodes: *)
(* their sizes, their blocks and the counts. The lemmas say what each      *)
(* operator of Ext2 does to the two.                                       *)
(***************************************************************************)

Dots == {<<1, 0>>, <<1, 1>>}   \* where a directory has "." and ".."

Used(s, n) == {p \in Positions(s, n) : EntryAt(s, n, p).inode # 0}

(* The inodes of the tree are marked. *)
Marked(s, D, F) ==
    /\ Root \in D
    /\ D \subseteq s.inode_bitmap
    /\ F \subseteq s.inode_bitmap
    /\ D \cap F = {}

(* No path is longer than the directories marked so far can make it. *)
Pathed(s, D, up, path) ==
    /\ up \in [D -> D] /\ up[Root] = Root
    /\ path \in [D -> Seq(Names)] /\ path[Root] = <<>>
    /\ \A d \in D : Len(path[d]) < Cardinality(s.inode_bitmap)

Dotted(s, D, up) ==
    \A d \in D :
        /\ Dots \subseteq Used(s, d)
        /\ EntryAt(s, d, <<1, 0>>) = NewEntry(d, DIR, ".")
        /\ EntryAt(s, d, <<1, 1>>) = NewEntry(up[d], DIR, "..")

(* What directory d may hold behind its dots. *)
ChildDir(e, d, D, up, path) ==
    /\ e.file_type = DIR
    /\ e.name \in Names
    /\ e.inode \in D \ {Root}
    /\ up[e.inode] = d
    /\ path[e.inode] = Append(path[d], e.name)

ChildFile(e, F) == e.file_type = FILE /\ e.inode \in F /\ e.name \in FileNames

Closed(s, D, F, up, path) ==
    \A d \in D : \A p \in Used(s, d) \ Dots :
        \/ ChildDir(EntryAt(s, d, p), d, D, up, path)
        \/ ChildFile(EntryAt(s, d, p), F)

(* Every inode of the tree but the root has a name, and one only. *)
HasName(s, D, F, up) ==
    /\ \A n \in D \ {Root} : \E p \in Used(s, up[n]) \ Dots : EntryAt(s, up[n], p).inode = n
    /\ \A n \in F : \E d \in D : \E p \in Used(s, d) \ Dots : EntryAt(s, d, p).inode = n

OneName(s, D) ==
    \A d, e \in D : \A p \in Used(s, d) \ Dots, q \in Used(s, e) \ Dots :
        EntryAt(s, d, p).inode = EntryAt(s, e, q).inode => d = e /\ p = q

(* No name is in a directory twice. *)
Distinct(s, D) ==
    \A d \in D : \A p, q \in Used(s, d) :
        /\ EntryAt(s, d, p).name = EntryAt(s, d, q).name
        /\ EntryAt(s, d, p).file_type = EntryAt(s, d, q).file_type
        => p = q

Shape(s, D, F, up, path) ==
    /\ Marked(s, D, F)
    /\ Pathed(s, D, up, path)
    /\ Dotted(s, D, up)
    /\ Closed(s, D, F, up, path)
    /\ HasName(s, D, F, up)
    /\ OneName(s, D)
    /\ Distinct(s, D)
-----------------------------------------------------------------------------
(* Induction over Nat, for a set: the library's theorems need an operator. *)
LEMMA InductionOnSet ==
  ASSUME NEW S, 0 \in S, \A k \in Nat : k \in S => k + 1 \in S
  PROVE  Nat \subseteq S
  <1> DEFINE Bad == Nat \ S
  <1> SUFFICES ASSUME Bad # {} PROVE FALSE OBVIOUS
  <1>1. PICK m \in Bad : \A k \in Bad : m <= k BY NatSetHasMinimum
  <1>2. m - 1 \in Nat /\ m - 1 \notin Bad BY <1>1
  <1>3. m - 1 + 1 \in S BY <1>2
  <1> QED BY <1>1, <1>2, <1>3

(* What DirPaths collects from one depth to the next. *)
Deeper(s, depth, above) ==
    above \cup Named(s, {x \in above : Len(x[1]) = depth - 1}, DIR)

Reaches(s, k, f) ==
    f = [depth \in 0 .. k |->
            IF depth = 0 THEN {<<<<>>, Root>>} ELSE Deeper(s, depth, f[depth - 1])]

(* The recursion of DirPaths has a solution up to every depth.             *)
LEMMA ReachesExists ==
  ASSUME NEW s, NEW k \in Nat
  PROVE  \E f : Reaches(s, k, f)
  <1> DEFINE Good == {j \in Nat : \E f : Reaches(s, j, f)}
  <1>1. 0 \in Good
    <2> DEFINE f == [depth \in 0 .. 0 |-> {<<<<>>, Root>>}]
    <2>1. f = [depth \in 0 .. 0 |->
            IF depth = 0 THEN {<<<<>>, Root>>} ELSE Deeper(s, depth, f[depth - 1])]
      OBVIOUS
    <2> QED BY <2>1 DEF Reaches
  <1>2. ASSUME NEW j \in Nat, j \in Good PROVE j + 1 \in Good
    <2>1. PICK f : Reaches(s, j, f) BY <1>2
    <2> DEFINE g == [depth \in 0 .. j + 1 |->
                        IF depth = j + 1 THEN Deeper(s, j + 1, f[j]) ELSE f[depth]]
    <2>2. ASSUME NEW depth \in 0 .. j + 1
          PROVE  g[depth] = IF depth = 0 THEN {<<<<>>, Root>>}
                                         ELSE Deeper(s, depth, g[depth - 1])
      <3>1. CASE depth = j + 1 BY <3>1
      <3>2. CASE depth # j + 1
        <4>1. depth \in 0 .. j /\ g[depth] = f[depth] BY <3>2
        <4>2. depth # 0 => depth - 1 \in 0 .. j + 1 /\ g[depth - 1] = f[depth - 1] BY <4>1
        <4> HIDE DEF g
        <4> QED BY <4>1, <4>2, <2>1 DEF Reaches
      <3> QED BY <3>1, <3>2
    <2>3. Reaches(s, j + 1, g) BY <2>2 DEF Reaches
    <2> QED BY <2>3
  <1> QED BY <1>1, <1>2, InductionOnSet

(* DirPaths is the last value of such a solution.                          *)
LEMMA DirPathsUnfold ==
  ASSUME NEW s
  PROVE  \E f : Reaches(s, InodeCount, f) /\ DirPaths(s) = f[InodeCount - 1]
  <1> DEFINE f == CHOOSE f : Reaches(s, InodeCount, f)
  <1>1. Reaches(s, InodeCount, f) BY ReachesExists, SizesAssumption
  <1>2. DirPaths(s) = f[InodeCount - 1] BY DEF DirPaths, Reaches, Deeper
  <1> QED BY <1>1, <1>2

(* The elements of Named. *)
LEMMA NamedElements ==
  ASSUME NEW s, NEW from, NEW type, NEW y
  PROVE  y \in Named(s, from, type) <=>
            \E x \in from : \E p \in Used(s, x[2]) :
                /\ EntryAt(s, x[2], p).file_type = type
                /\ type = DIR => EntryAt(s, x[2], p).name \notin {".", ".."}
                /\ y = <<Append(x[1], EntryAt(s, x[2], p).name), EntryAt(s, x[2], p).inode>>
  <1> DEFINE Of(x) == {<<Append(x[1], EntryAt(s, x[2], p).name), EntryAt(s, x[2], p).inode>> :
                          p \in {q \in Positions(s, x[2]) :
                                    LET e == EntryAt(s, x[2], q) IN
                                    /\ e.inode # 0
                                    /\ e.file_type = type
                                    /\ type = DIR => e.name \notin {".", ".."}}}
  <1>1. Named(s, from, type) = UNION {Of(x) : x \in from} BY DEF Named
  <1>2. \A x \in from : y \in Of(x) <=>
            \E p \in Used(s, x[2]) :
                /\ EntryAt(s, x[2], p).file_type = type
                /\ type = DIR => EntryAt(s, x[2], p).name \notin {".", ".."}
                /\ y = <<Append(x[1], EntryAt(s, x[2], p).name), EntryAt(s, x[2], p).inode>>
    BY DEF Used
  <1> HIDE DEF Of
  <1>3. y \in Named(s, from, type) <=> \E x \in from : y \in Of(x) BY <1>1
  <1> QED BY <1>2, <1>3

(* An entry of a directory in from is in Named. *)
LEMMA NamedMember ==
  ASSUME NEW s, NEW from, NEW type, NEW x \in from, NEW p \in Used(s, x[2]),
         EntryAt(s, x[2], p).file_type = type,
         type = DIR => EntryAt(s, x[2], p).name \notin {".", ".."}
  PROVE  <<Append(x[1], EntryAt(s, x[2], p).name), EntryAt(s, x[2], p).inode>>
            \in Named(s, from, type)
  <1> DEFINE y == <<Append(x[1], EntryAt(s, x[2], p).name), EntryAt(s, x[2], p).inode>>
             Of(z) == {<<Append(z[1], EntryAt(s, z[2], q).name), EntryAt(s, z[2], q).inode>> :
                          q \in {r \in Positions(s, z[2]) :
                                    LET e == EntryAt(s, z[2], r) IN
                                    /\ e.inode # 0
                                    /\ e.file_type = type
                                    /\ type = DIR => e.name \notin {".", ".."}}}
  <1>1. Named(s, from, type) = UNION {Of(z) : z \in from} BY DEF Named
  <1>2. y \in Of(x) BY DEF Used
  <1> HIDE DEF y, Of
  <1>3. y \in Named(s, from, type) BY <1>1, <1>2
  <1> QED BY <1>3 DEF y

(* An entry that is neither "." nor ".." is a child. *)
LEMMA EntryKinds ==
  ASSUME NEW s, NEW D, NEW F, NEW up, NEW path, Shape(s, D, F, up, path),
         NEW d \in D, NEW p \in Used(s, d)
  PROVE  /\ p = <<1, 0>> => EntryAt(s, d, p) = NewEntry(d, DIR, ".")
         /\ p = <<1, 1>> => EntryAt(s, d, p) = NewEntry(up[d], DIR, "..")
         /\ EntryAt(s, d, p).file_type = DIR /\ EntryAt(s, d, p).name \notin {".", ".."}
               => p \notin Dots /\ ChildDir(EntryAt(s, d, p), d, D, up, path)
         /\ EntryAt(s, d, p).file_type = DIR /\ EntryAt(s, d, p).name = "."
               => p = <<1, 0>>
         /\ EntryAt(s, d, p).file_type = DIR /\ EntryAt(s, d, p).name = ".."
               => p = <<1, 1>>
         /\ EntryAt(s, d, p).file_type = FILE
               => p \notin Dots /\ ChildFile(EntryAt(s, d, p), F)
  <1>1. /\ p = <<1, 0>> => EntryAt(s, d, p) = NewEntry(d, DIR, ".")
        /\ p = <<1, 1>> => EntryAt(s, d, p) = NewEntry(up[d], DIR, "..")
    BY DEF Shape, Dotted
  <1>2. p \notin Dots => \/ ChildDir(EntryAt(s, d, p), d, D, up, path)
                        \/ ChildFile(EntryAt(s, d, p), F)
    BY DEF Shape, Closed
  <1>3. "." \notin Names /\ ".." \notin Names /\ "." # ".." BY SizesAssumption
  <1>4. DIR # FILE BY DEF DIR, FILE
  <1>5. p \in Dots => p = <<1, 0>> \/ p = <<1, 1>> BY DEF Dots
  <1>6. /\ ChildDir(EntryAt(s, d, p), d, D, up, path)
              => EntryAt(s, d, p).file_type = DIR /\ EntryAt(s, d, p).name \in Names
        /\ ChildFile(EntryAt(s, d, p), F) => EntryAt(s, d, p).file_type = FILE
    BY DEF ChildDir, ChildFile
  <1>7. /\ p = <<1, 0>> => EntryAt(s, d, p).file_type = DIR /\ EntryAt(s, d, p).name = "."
        /\ p = <<1, 1>> => EntryAt(s, d, p).file_type = DIR /\ EntryAt(s, d, p).name = ".."
    BY <1>1 DEF NewEntry
  <1>8. p \in Dots => EntryAt(s, d, p).file_type = DIR /\ EntryAt(s, d, p).name \in {".", ".."}
    BY <1>5, <1>7
  <1>9. EntryAt(s, d, p).file_type = DIR /\ EntryAt(s, d, p).name = "." => p = <<1, 0>>
    BY <1>2, <1>3, <1>4, <1>5, <1>6, <1>7
  <1>10. EntryAt(s, d, p).file_type = DIR /\ EntryAt(s, d, p).name = ".." => p = <<1, 1>>
    BY <1>2, <1>3, <1>4, <1>5, <1>6, <1>7
  <1> HIDE DEF Dots
  <1> QED BY <1>1, <1>2, <1>3, <1>4, <1>6, <1>8, <1>9, <1>10

(* What is enough of Shape to say what the root reaches.                   *)

Directs(e) == e.file_type = DIR /\ e.name \notin {".", ".."}

Rooted(s, D, F, path) ==
    /\ Root \in D
    /\ path \in [D -> Seq(Names)] /\ path[Root] = <<>>
    /\ \A d \in D : Len(path[d]) < Cardinality(s.inode_bitmap)
    /\ \A d \in D : \A p \in Used(s, d) :
         /\ Directs(EntryAt(s, d, p)) =>
               /\ EntryAt(s, d, p).name \in Names
               /\ EntryAt(s, d, p).inode \in D
               /\ path[EntryAt(s, d, p).inode] = Append(path[d], EntryAt(s, d, p).name)
         /\ EntryAt(s, d, p).file_type = FILE => EntryAt(s, d, p).inode \in F
    /\ \A n \in D \ {Root} : \E d \in D : \E p \in Used(s, d) :
          Directs(EntryAt(s, d, p)) /\ EntryAt(s, d, p).inode = n
    /\ \A n \in F : \E d \in D : \E p \in Used(s, d) :
          EntryAt(s, d, p).file_type = FILE /\ EntryAt(s, d, p).inode = n

(* What the root reaches in k steps. *)
LEMMA ReachedAt ==
  ASSUME NEW s, NEW D, NEW F, NEW path, Rooted(s, D, F, path),
         NEW f, Reaches(s, InodeCount, f)
  PROVE  \A k \in 0 .. InodeCount :
            f[k] = {<<path[d], d>> : d \in {e \in D : Len(path[e]) <= k}}
  <1> DEFINE At(k) == {<<path[d], d>> : d \in {e \in D : Len(path[e]) <= k}}
             Good == {k \in Nat : k <= InodeCount => f[k] = At(k)}
  <1>1. InodeCount \in Nat BY SizesAssumption
  <1>2. /\ \A d \in D : path[d] \in Seq(Names) /\ Len(path[d]) \in Nat
        /\ Root \in D /\ path[Root] = <<>>
    BY DEF Rooted
  <1>3. ASSUME NEW c \in D \ {Root}
        PROVE  \E d \in D : \E p \in Used(s, d) :
                  /\ EntryAt(s, d, p).inode = c
                  /\ Directs(EntryAt(s, d, p))
                  /\ EntryAt(s, d, p).name \in Names
                  /\ path[c] = Append(path[d], EntryAt(s, d, p).name)
    <2>1. PICK d \in D : \E p \in Used(s, d) :
              Directs(EntryAt(s, d, p)) /\ EntryAt(s, d, p).inode = c
      BY DEF Rooted
    <2>2. PICK p \in Used(s, d) : Directs(EntryAt(s, d, p)) /\ EntryAt(s, d, p).inode = c
      BY <2>1
    <2>3. /\ EntryAt(s, d, p).name \in Names
          /\ path[c] = Append(path[d], EntryAt(s, d, p).name)
      BY <2>2 DEF Rooted
    <2> QED BY <2>2, <2>3
  <1>4. \A d \in D : Len(path[d]) = 0 => d = Root
    <2> SUFFICES ASSUME NEW d \in D, d # Root PROVE Len(path[d]) # 0 OBVIOUS
    <2>1. PICK e \in D : \E name \in Names : path[d] = Append(path[e], name) BY <1>3
    <2>2. path[e] \in Seq(Names) /\ Len(path[e]) \in Nat BY <2>1, <1>2
    <2> QED BY <2>1, <2>2
  <1>5. 0 \in Good
    <2>1. f[0] = {<<<<>>, Root>>} BY <1>1 DEF Reaches
    <2>2. {e \in D : Len(path[e]) <= 0} = {Root} BY <1>2, <1>4
    <2> QED BY <2>1, <2>2, <1>2
  <1>6. ASSUME NEW k \in Nat, k \in Good PROVE k + 1 \in Good
    <2> SUFFICES ASSUME k + 1 <= InodeCount PROVE f[k + 1] = At(k + 1) OBVIOUS
    <2>1. f[k] = At(k) BY <1>1, <1>6
    <2>2. f[k + 1] = Deeper(s, k + 1, f[k])
      <3>1. k + 1 \in 0 .. InodeCount /\ k + 1 # 0 /\ (k + 1) - 1 = k BY <1>1
      <3>2. \A j \in 0 .. InodeCount : j # 0 => f[j] = Deeper(s, j, f[j - 1])
        BY DEF Reaches
      <3> QED BY <3>1, <3>2
    <2> DEFINE from == {x \in At(k) : Len(x[1]) = k}
    <2>3. f[k + 1] = At(k) \cup Named(s, from, DIR) BY <2>1, <2>2 DEF Deeper
    <2>4. ASSUME NEW y, y \in Named(s, from, DIR) PROVE y \in At(k + 1)
      <3>1. PICK x \in from : \E p \in Used(s, x[2]) :
                /\ EntryAt(s, x[2], p).file_type = DIR
                /\ EntryAt(s, x[2], p).name \notin {".", ".."}
                /\ y = <<Append(x[1], EntryAt(s, x[2], p).name), EntryAt(s, x[2], p).inode>>
        <4> HIDE DEF from
        <4> QED BY <2>4, NamedElements
      <3>2. PICK d \in D : x = <<path[d], d>> /\ Len(path[d]) = k
        <4>1. x \in At(k) /\ Len(x[1]) = k OBVIOUS
        <4>2. PICK d \in D : x = <<path[d], d>> BY <4>1
        <4> QED BY <4>1, <4>2
      <3>3. PICK p \in Used(s, d) :
                /\ EntryAt(s, d, p).file_type = DIR
                /\ EntryAt(s, d, p).name \notin {".", ".."}
                /\ y = <<Append(path[d], EntryAt(s, d, p).name), EntryAt(s, d, p).inode>>
        BY <3>1, <3>2
      <3> DEFINE c == EntryAt(s, d, p).inode
      <3>5. c \in D /\ path[c] = Append(path[d], EntryAt(s, d, p).name)
                    /\ EntryAt(s, d, p).name \in Names
        BY <3>3 DEF Rooted, Directs
      <3>6. Len(path[c]) = k + 1 BY <3>2, <3>5, <1>2
      <3>7. y = <<path[c], c>> BY <3>3, <3>5
      <3> QED BY <3>5, <3>6, <3>7
    <2>5. ASSUME NEW y \in At(k + 1) PROVE y \in At(k) \/ y \in Named(s, from, DIR)
      <3>1. PICK c \in D : y = <<path[c], c>> /\ Len(path[c]) <= k + 1 OBVIOUS
      <3>2. CASE Len(path[c]) <= k BY <3>1, <3>2
      <3>3. CASE Len(path[c]) = k + 1
        <4>1. c # Root BY <3>3, <1>2
        <4>2. PICK d \in D : \E p \in Used(s, d) :
                  /\ EntryAt(s, d, p).inode = c
                  /\ Directs(EntryAt(s, d, p))
                  /\ EntryAt(s, d, p).name \in Names
                  /\ path[c] = Append(path[d], EntryAt(s, d, p).name)
          BY <4>1, <1>3
        <4>3. PICK p \in Used(s, d) :
                  /\ EntryAt(s, d, p).inode = c
                  /\ Directs(EntryAt(s, d, p))
                  /\ EntryAt(s, d, p).name \in Names
                  /\ path[c] = Append(path[d], EntryAt(s, d, p).name)
          BY <4>2
        <4>4. path[d] \in Seq(Names) BY <1>2
        <4>5. Len(path[d]) = k BY <3>3, <4>3, <4>4
        <4> DEFINE x == <<path[d], d>>
        <4>6. x \in from BY <4>4, <4>5
        <4>7. x[1] = path[d] /\ x[2] = d OBVIOUS
        <4>8. y = <<Append(x[1], EntryAt(s, x[2], p).name), EntryAt(s, x[2], p).inode>>
          BY <3>1, <4>3, <4>7
        <4> HIDE DEF x
        <4> QED BY <4>3, <4>6, <4>7, <4>8, NamedElements DEF Directs
      <3> QED BY <3>1, <3>2, <3>3, <1>2
    <2>6. At(k) \subseteq At(k + 1) BY <1>2
    <2> HIDE DEF At, from
    <2> QED BY <2>3, <2>4, <2>5, <2>6
  <1> HIDE DEF Good
  <1>7. Nat \subseteq Good BY <1>5, <1>6, InductionOnSet
  <1> USE DEF Good
  <1> QED BY <1>1, <1>7

(* The root reaches exactly D and F, by the paths of path. *)
LEMMA RootedReaches ==
  ASSUME NEW s \in FileSystems, NEW D, NEW F, NEW path, Rooted(s, D, F, path)
  PROVE  /\ DirPaths(s) = {<<path[d], d>> : d \in D}
         /\ LiveDirs(s) = D
         /\ LiveFiles(s) = F
  <1>1. PICK f : Reaches(s, InodeCount, f) /\ DirPaths(s) = f[InodeCount - 1]
    BY DirPathsUnfold
  <1>2. InodeCount \in Nat \ {0} BY SizesAssumption
  <1>3. \A d \in D : Len(path[d]) \in Nat /\ Len(path[d]) <= InodeCount - 1
    <2>1. Cardinality(s.inode_bitmap) \in Nat /\ Cardinality(s.inode_bitmap) <= InodeCount
      <3>1. s.inode_bitmap \in SUBSET Inodes BY DEF FileSystems
      <3>2. IsFiniteSet(Inodes) /\ Cardinality(Inodes) = InodeCount
        BY <1>2, FS_Interval DEF Inodes
      <3> QED BY <3>1, <3>2, FS_Subset, FS_CardinalityType
    <2> QED BY <1>2, <2>1 DEF Rooted
  <1>4. f[InodeCount - 1] = {<<path[d], d>> : d \in {e \in D : Len(path[e]) <= InodeCount - 1}}
    BY <1>1, <1>2, ReachedAt
  <1>5. {e \in D : Len(path[e]) <= InodeCount - 1} = D BY <1>3
  <1>6. DirPaths(s) = {<<path[d], d>> : d \in D} BY <1>1, <1>4, <1>5
  <1>7. LiveDirs(s) = D
    <2>1. \A x \in DirPaths(s) : x[2] \in D BY <1>6
    <2>2. \A d \in D : <<path[d], d>> \in DirPaths(s) /\ <<path[d], d>>[2] = d BY <1>6
    <2> QED BY <2>1, <2>2 DEF LiveDirs
  <1>8. ASSUME NEW n \in LiveFiles(s) PROVE n \in F
    <2>1. PICK y \in Named(s, DirPaths(s), FILE) : n = y[2] BY DEF LiveFiles, FilePaths
    <2>2. PICK x \in DirPaths(s) : \E p \in Used(s, x[2]) :
                /\ EntryAt(s, x[2], p).file_type = FILE
                /\ y = <<Append(x[1], EntryAt(s, x[2], p).name), EntryAt(s, x[2], p).inode>>
      BY <2>1, NamedElements
    <2>3. x[2] \in D BY <1>6
    <2> QED BY <2>1, <2>2, <2>3 DEF Rooted
  <1>9. ASSUME NEW n \in F PROVE n \in LiveFiles(s)
    <2>1. PICK d \in D : \E p \in Used(s, d) :
              EntryAt(s, d, p).file_type = FILE /\ EntryAt(s, d, p).inode = n
      BY DEF Rooted
    <2>2. PICK p \in Used(s, d) :
              EntryAt(s, d, p).file_type = FILE /\ EntryAt(s, d, p).inode = n
      BY <2>1
    <2> DEFINE x == <<path[d], d>>
               y == <<Append(x[1], EntryAt(s, x[2], p).name), EntryAt(s, x[2], p).inode>>
    <2>5. x \in DirPaths(s) /\ x[2] = d BY <1>6
    <2>6. EntryAt(s, x[2], p).file_type = FILE /\ p \in Used(s, x[2])
      BY <2>2, <2>5
    <2>7. y[2] = n BY <2>2
    <2> HIDE DEF x
    <2>8. y \in Named(s, DirPaths(s), FILE)
      <3>1. FILE # DIR BY DEF FILE, DIR
      <3> QED BY <2>5, <2>6, <3>1, NamedElements
    <2> QED BY <2>7, <2>8 DEF LiveFiles, FilePaths
  <1> QED BY <1>6, <1>7, <1>8, <1>9

\* What the root reaches in a tree of this shape.
LEMMA ShapeReaches ==
  ASSUME NEW s \in FileSystems, NEW D, NEW F, NEW up, NEW path, Shape(s, D, F, up, path)
  PROVE  /\ DirPaths(s) = {<<path[d], d>> : d \in D}
         /\ LiveDirs(s) = D
         /\ LiveFiles(s) = F
  <1>1. ASSUME NEW d \in D, NEW p \in Used(s, d)
        PROVE  /\ Directs(EntryAt(s, d, p)) =>
                     /\ EntryAt(s, d, p).name \in Names
                     /\ EntryAt(s, d, p).inode \in D
                     /\ path[EntryAt(s, d, p).inode] = Append(path[d], EntryAt(s, d, p).name)
               /\ EntryAt(s, d, p).file_type = FILE => EntryAt(s, d, p).inode \in F
    BY EntryKinds DEF Directs, ChildDir, ChildFile
  <1>2. ASSUME NEW d \in D, NEW p \in Used(s, d) \ Dots
        PROVE  \/ Directs(EntryAt(s, d, p)) /\ EntryAt(s, d, p).inode \in D
               \/ EntryAt(s, d, p).file_type = FILE /\ EntryAt(s, d, p).inode \in F
    BY SizesAssumption DEF Shape, Closed, ChildDir, ChildFile, Directs
  <1>3. D \cap F = {} /\ up \in [D -> D]
    BY DEF Shape, Marked, Pathed
  <1>4. \A n \in D \ {Root} : \E d \in D : \E p \in Used(s, d) :
           Directs(EntryAt(s, d, p)) /\ EntryAt(s, d, p).inode = n
    BY <1>2, <1>3 DEF Shape, HasName
  <1>5. \A n \in F : \E d \in D : \E p \in Used(s, d) :
           EntryAt(s, d, p).file_type = FILE /\ EntryAt(s, d, p).inode = n
    BY <1>2, <1>3 DEF Shape, HasName
  <1>6. Rooted(s, D, F, path)
    BY <1>1, <1>4, <1>5 DEF Rooted, Shape, Marked, Pathed
  <1> QED BY <1>6, RootedReaches
-----------------------------------------------------------------------------
(* What a command may do to the entries of a directory. *)

SameEntries(s, t, d) ==
    /\ Used(t, d) = Used(s, d)
    /\ \A p \in Used(s, d) : EntryAt(t, d, p) = EntryAt(s, d, p)

Gains(s, t, d, p, e) ==
    /\ p \notin Used(s, d)
    /\ Used(t, d) = Used(s, d) \cup {p}
    /\ EntryAt(t, d, p) = e
    /\ \A q \in Used(s, d) : EntryAt(t, d, q) = EntryAt(s, d, q)

Loses(s, t, d, p) ==
    /\ p \in Used(s, d)
    /\ Used(t, d) = Used(s, d) \ {p}
    /\ \A q \in Used(s, d) \ {p} : EntryAt(t, d, q) = EntryAt(s, d, q)

(* "." and ".." are the first two slots of the first block.                *)
LEMMA DotsTwo == <<1, 0>> \in Dots /\ <<1, 1>> \in Dots
BY DEF Dots

(* Shape speaks of the entries of D and of the inode bitmap only. *)
LEMMA ShapeSame ==
  ASSUME NEW s, NEW t, NEW D, NEW F, NEW up, NEW path, Shape(s, D, F, up, path),
         t.inode_bitmap = s.inode_bitmap, \A d \in D : SameEntries(s, t, d)
  PROVE  Shape(t, D, F, up, path)
  <1>0. \A d \in D : up[d] \in D BY DEF Shape, Pathed
  <1>1. Marked(t, D, F) BY DEF Shape, Marked
  <1>2. Pathed(t, D, up, path) BY DEF Shape, Pathed
  <1>3. Dotted(t, D, up) BY DotsTwo DEF Shape, Dotted, SameEntries
  <1>4. Closed(t, D, F, up, path) BY DEF Shape, Closed, SameEntries
  <1>5. HasName(t, D, F, up)
    <2>1. \A n \in D \ {Root} : \E p \in Used(t, up[n]) \ Dots : EntryAt(t, up[n], p).inode = n
      BY <1>0 DEF Shape, HasName, SameEntries
    <2>2. \A n \in F : \E d \in D : \E p \in Used(t, d) \ Dots : EntryAt(t, d, p).inode = n
      BY DEF Shape, HasName, SameEntries
    <2> QED BY <2>1, <2>2 DEF HasName
  <1>6. OneName(t, D) BY DEF Shape, OneName, SameEntries
  <1>7. Distinct(t, D) BY DEF Shape, Distinct, SameEntries
  <1> QED BY <1>1, <1>2, <1>3, <1>4, <1>5, <1>6, <1>7 DEF Shape

(* up and path with one directory more, or less. *)
Extended(f, D, m, value) == [d \in D \cup {m} |-> IF d = m THEN value ELSE f[d]]
Without(f, D, c) == [d \in D \ {c} |-> f[d]]

(* An entry that leads outside D and F is in neither of them yet. *)
LEMMA FreshEntry ==
  ASSUME NEW s, NEW D, NEW F, NEW up, NEW path, Shape(s, D, F, up, path),
         NEW m, m \notin D \cup F, NEW d \in D, NEW p \in Used(s, d) \ Dots
  PROVE  EntryAt(s, d, p).inode # m
BY DEF Shape, Closed, ChildDir, ChildFile

(* A file is created: cat. *)
LEMMA ShapeAddFile ==
  ASSUME NEW s, NEW t, NEW D, NEW F, NEW up, NEW path, Shape(s, D, F, up, path),
         NEW n \in D, NEW p, NEW m, NEW name \in FileNames,
         IsFiniteSet(s.inode_bitmap), m \notin s.inode_bitmap,
         t.inode_bitmap = s.inode_bitmap \cup {m},
         Gains(s, t, n, p, NewEntry(m, FILE, name)),
         \A q \in Used(s, n) : EntryAt(s, n, q).file_type = FILE
                                    => EntryAt(s, n, q).name # name,
         \A d \in D \ {n} : SameEntries(s, t, d)
  PROVE  Shape(t, D, F \cup {m}, up, path)
  <1> DEFINE e == NewEntry(m, FILE, name)
  <1>1. e.inode = m /\ e.file_type = FILE /\ e.name = name BY DEF NewEntry
  <1>2. m \notin D \cup F BY DEF Shape, Marked
  <1>3. \A d \in D : up[d] \in D BY DEF Shape, Pathed
  <1>4. p \notin Dots BY DEF Shape, Dotted, Gains
  <1>5. \A d \in D : /\ Used(s, d) \subseteq Used(t, d)
                    /\ \A q \in Used(s, d) : EntryAt(t, d, q) = EntryAt(s, d, q)
    BY DEF Gains, SameEntries
  <1>5a. ASSUME NEW d \in D, NEW q, q \in Used(t, d), q \notin Used(s, d)
         PROVE  d = n /\ q = p
    <2>1. d = n BY <1>5a DEF SameEntries
    <2> QED BY <1>5a, <2>1 DEF Gains
  <1>6. p \in Used(t, n) /\ EntryAt(t, n, p) = e /\ p \notin Used(s, n) BY DEF Gains
  <1> HIDE DEF e
  <1>7. Marked(t, D, F \cup {m}) BY <1>2 DEF Shape, Marked
  <1>8. Pathed(t, D, up, path)
    <2>1. Cardinality(t.inode_bitmap) = Cardinality(s.inode_bitmap) + 1 BY FS_AddElement
    <2>2. Cardinality(s.inode_bitmap) \in Nat BY FS_CardinalityType
    <2>3. \A d \in D : Len(path[d]) \in Nat BY DEF Shape, Pathed
    <2> QED BY <2>1, <2>2, <2>3 DEF Shape, Pathed
  <1>9. Dotted(t, D, up) BY <1>5, DotsTwo DEF Shape, Dotted
  <1>10. Closed(t, D, F \cup {m}, up, path)
    <2> SUFFICES ASSUME NEW d \in D, NEW q \in Used(t, d) \ Dots
                 PROVE  \/ ChildDir(EntryAt(t, d, q), d, D, up, path)
                        \/ ChildFile(EntryAt(t, d, q), F \cup {m})
      BY DEF Closed
    <2>1. CASE q \in Used(s, d)
      BY <2>1, <1>5 DEF Shape, Closed, ChildFile
    <2>2. CASE d = n /\ q = p
      BY <2>2, <1>1, <1>6 DEF ChildFile
    <2> QED BY <2>1, <2>2, <1>5a
  <1>11. HasName(t, D, F \cup {m}, up)
    <2>1. ASSUME NEW c \in D \ {Root}
          PROVE  \E q \in Used(t, up[c]) \ Dots : EntryAt(t, up[c], q).inode = c
      <3>1. PICK q \in Used(s, up[c]) \ Dots : EntryAt(s, up[c], q).inode = c
        BY DEF Shape, HasName
      <3> QED BY <3>1, <1>3, <1>5
    <2>2. ASSUME NEW f \in F \cup {m}
          PROVE  \E d \in D : \E q \in Used(t, d) \ Dots : EntryAt(t, d, q).inode = f
      <3>1. CASE f = m BY <3>1, <1>1, <1>4, <1>6
      <3>2. CASE f \in F
        <4>1. PICK d \in D : \E q \in Used(s, d) \ Dots : EntryAt(s, d, q).inode = f
          BY <3>2 DEF Shape, HasName
        <4> QED BY <4>1, <1>5
      <3> QED BY <3>1, <3>2
    <2> QED BY <2>1, <2>2 DEF HasName
  <1>12. OneName(t, D)
    <2> SUFFICES ASSUME NEW d \in D, NEW c \in D, NEW q \in Used(t, d) \ Dots,
                        NEW r \in Used(t, c) \ Dots,
                        EntryAt(t, d, q).inode = EntryAt(t, c, r).inode
                 PROVE  d = c /\ q = r
      BY DEF OneName
    <2>1. CASE q \in Used(s, d) /\ r \in Used(s, c)
      BY <2>1, <1>5 DEF Shape, OneName
    <2>2. CASE q \in Used(s, d) /\ r \notin Used(s, c)
      BY <2>2, <1>1, <1>2, <1>5, <1>5a, <1>6, FreshEntry
    <2>3. CASE q \notin Used(s, d) /\ r \in Used(s, c)
      BY <2>3, <1>1, <1>2, <1>5, <1>5a, <1>6, FreshEntry
    <2>4. CASE q \notin Used(s, d) /\ r \notin Used(s, c) BY <2>4, <1>5a
    <2> QED BY <2>1, <2>2, <2>3, <2>4
  <1>13. Distinct(t, D)
    <2> SUFFICES ASSUME NEW d \in D, NEW q \in Used(t, d), NEW r \in Used(t, d),
                        EntryAt(t, d, q).name = EntryAt(t, d, r).name,
                        EntryAt(t, d, q).file_type = EntryAt(t, d, r).file_type
                 PROVE  q = r
      BY DEF Distinct
    <2>1. CASE q \in Used(s, d) /\ r \in Used(s, d)
      BY <2>1, <1>5 DEF Shape, Distinct
    <2>2. CASE q \in Used(s, d) /\ r \notin Used(s, d)
      BY <2>2, <1>1, <1>5, <1>5a, <1>6
    <2>3. CASE q \notin Used(s, d) /\ r \in Used(s, d)
      BY <2>3, <1>1, <1>5, <1>5a, <1>6
    <2>4. CASE q \notin Used(s, d) /\ r \notin Used(s, d) BY <2>4, <1>5a
    <2> QED BY <2>1, <2>2, <2>3, <2>4
  <1> QED BY <1>7, <1>8, <1>9, <1>10, <1>11, <1>12, <1>13 DEF Shape

(* A directory is created: mkdir. *)
LEMMA ShapeAddDir ==
  ASSUME NEW s, NEW t, NEW D, NEW F, NEW up, NEW path, Shape(s, D, F, up, path),
         NEW n \in D, NEW p, NEW m, NEW name \in Names,
         IsFiniteSet(s.inode_bitmap), m \notin s.inode_bitmap,
         t.inode_bitmap = s.inode_bitmap \cup {m},
         Gains(s, t, n, p, NewEntry(m, DIR, name)),
         \A q \in Used(s, n) : EntryAt(s, n, q).file_type = DIR
                                    => EntryAt(s, n, q).name # name,
         \A d \in D \ {n} : SameEntries(s, t, d),
         Used(t, m) = Dots,
         EntryAt(t, m, <<1, 0>>) = NewEntry(m, DIR, "."),
         EntryAt(t, m, <<1, 1>>) = NewEntry(n, DIR, "..")
  PROVE  Shape(t, D \cup {m}, F, Extended(up, D, m, n),
               Extended(path, D, m, Append(path[n], name)))
  <1> DEFINE e == NewEntry(m, DIR, name)
             up1 == Extended(up, D, m, n)
             path1 == Extended(path, D, m, Append(path[n], name))
             D1 == D \cup {m}
  <1>1. e.inode = m /\ e.file_type = DIR /\ e.name = name BY DEF NewEntry
  <1>2. m \notin D \cup F /\ m # Root BY DEF Shape, Marked
  <1>3. /\ \A d \in D : up[d] \in D /\ up1[d] = up[d] /\ path1[d] = path[d]
        /\ up1[m] = n /\ path1[m] = Append(path[n], name)
        /\ up1 \in [D1 -> D]
    BY <1>2 DEF Shape, Pathed, Extended
  <1>4. p \notin Dots BY DEF Shape, Dotted, Gains
  <1>5. \A d \in D : /\ Used(s, d) \subseteq Used(t, d)
                    /\ \A q \in Used(s, d) : EntryAt(t, d, q) = EntryAt(s, d, q)
    BY DEF Gains, SameEntries
  <1>5a. ASSUME NEW d \in D, NEW q, q \in Used(t, d), q \notin Used(s, d)
         PROVE  d = n /\ q = p
    <2>1. d = n BY <1>5a DEF SameEntries
    <2> QED BY <1>5a, <2>1 DEF Gains
  <1>6. p \in Used(t, n) /\ EntryAt(t, n, p) = e /\ p \notin Used(s, n) BY DEF Gains
  <1>7. Marked(t, D1, F) BY <1>2 DEF Shape, Marked
  <1>8. Pathed(t, D1, up1, path1)
    <2>1. Cardinality(t.inode_bitmap) = Cardinality(s.inode_bitmap) + 1 BY FS_AddElement
    <2>2. Cardinality(s.inode_bitmap) \in Nat BY FS_CardinalityType
    <2>3. \A d \in D : path[d] \in Seq(Names) /\ Len(path[d]) \in Nat
                        /\ Len(path[d]) < Cardinality(s.inode_bitmap)
      BY DEF Shape, Pathed
    <2>4. Append(path[n], name) \in Seq(Names) /\ Len(Append(path[n], name)) = Len(path[n]) + 1
      BY <2>3
    <2>5. path1 \in [D1 -> Seq(Names)] BY <2>3, <2>4 DEF Extended
    <2>6. \A d \in D1 : Len(path1[d]) < Cardinality(t.inode_bitmap)
      BY <1>3, <2>1, <2>2, <2>3, <2>4
    <2>7. Root \in D /\ up[Root] = Root /\ path[Root] = <<>> BY DEF Shape, Marked, Pathed
    <2> QED BY <1>3, <2>5, <2>6, <2>7 DEF Pathed
  <1> HIDE DEF e, up1, path1
  <1>9. Dotted(t, D1, up1) BY <1>3, <1>5, DotsTwo DEF Shape, Dotted
  <1>10. Closed(t, D1, F, up1, path1)
    <2> SUFFICES ASSUME NEW d \in D1, NEW q \in Used(t, d) \ Dots
                 PROVE  \/ ChildDir(EntryAt(t, d, q), d, D1, up1, path1)
                        \/ ChildFile(EntryAt(t, d, q), F)
      BY DEF Closed
    <2>1. d \in D OBVIOUS
    <2>2. CASE q \in Used(s, d)
      <3>1. EntryAt(t, d, q) = EntryAt(s, d, q) BY <2>1, <2>2, <1>5
      <3>2. \/ ChildDir(EntryAt(s, d, q), d, D, up, path)
            \/ ChildFile(EntryAt(s, d, q), F)
        BY <2>1, <2>2 DEF Shape, Closed
      <3>3. ChildDir(EntryAt(s, d, q), d, D, up, path)
               => ChildDir(EntryAt(s, d, q), d, D1, up1, path1)
        BY <1>3, <2>1 DEF ChildDir
      <3> QED BY <3>1, <3>2, <3>3
    <2>3. CASE d = n /\ q = p
      BY <2>3, <1>1, <1>2, <1>3, <1>6 DEF ChildDir
    <2> QED BY <2>1, <2>2, <2>3, <1>5a
  <1>11. HasName(t, D1, F, up1)
    <2>1. ASSUME NEW c \in D1 \ {Root}
          PROVE  \E q \in Used(t, up1[c]) \ Dots : EntryAt(t, up1[c], q).inode = c
      <3>1. CASE c = m BY <3>1, <1>1, <1>3, <1>4, <1>6
      <3>2. CASE c # m
        <4>1. c \in D \ {Root} /\ up1[c] = up[c] BY <3>2, <1>3
        <4>2. PICK q \in Used(s, up[c]) \ Dots : EntryAt(s, up[c], q).inode = c
          BY <4>1 DEF Shape, HasName
        <4> QED BY <4>1, <4>2, <1>3, <1>5
      <3> QED BY <3>1, <3>2
    <2>2. ASSUME NEW f \in F
          PROVE  \E d \in D1 : \E q \in Used(t, d) \ Dots : EntryAt(t, d, q).inode = f
      <3>1. PICK d \in D : \E q \in Used(s, d) \ Dots : EntryAt(s, d, q).inode = f
        BY DEF Shape, HasName
      <3> QED BY <3>1, <1>5
    <2> QED BY <2>1, <2>2 DEF HasName
  <1>12. OneName(t, D1)
    <2> SUFFICES ASSUME NEW d \in D, NEW c \in D, NEW q \in Used(t, d) \ Dots,
                        NEW r \in Used(t, c) \ Dots,
                        EntryAt(t, d, q).inode = EntryAt(t, c, r).inode
                 PROVE  d = c /\ q = r
      BY DEF OneName
    <2>1. CASE q \in Used(s, d) /\ r \in Used(s, c)
      BY <2>1, <1>5 DEF Shape, OneName
    <2>2. CASE q \in Used(s, d) /\ r \notin Used(s, c)
      BY <2>2, <1>1, <1>2, <1>5, <1>5a, <1>6, FreshEntry
    <2>3. CASE q \notin Used(s, d) /\ r \in Used(s, c)
      BY <2>3, <1>1, <1>2, <1>5, <1>5a, <1>6, FreshEntry
    <2>4. CASE q \notin Used(s, d) /\ r \notin Used(s, c) BY <2>4, <1>5a
    <2> QED BY <2>1, <2>2, <2>3, <2>4
  <1>13. Distinct(t, D1)
    <2> SUFFICES ASSUME NEW d \in D1, NEW q \in Used(t, d), NEW r \in Used(t, d),
                        EntryAt(t, d, q).name = EntryAt(t, d, r).name,
                        EntryAt(t, d, q).file_type = EntryAt(t, d, r).file_type
                 PROVE  q = r
      BY DEF Distinct
    <2>0. CASE d = m
      <3>1. q \in {<<1, 0>>, <<1, 1>>} /\ r \in {<<1, 0>>, <<1, 1>>} BY <2>0 DEF Dots
      <3>2. EntryAt(t, d, <<1, 0>>).name = "." /\ EntryAt(t, d, <<1, 1>>).name = ".."
        BY <2>0 DEF NewEntry
      <3>3. CASE q = <<1, 0>> BY <3>1, <3>2, <3>3
      <3>4. CASE q = <<1, 1>> BY <3>1, <3>2, <3>4
      <3> QED BY <3>1, <3>3, <3>4
    <2>1. CASE d \in D /\ q \in Used(s, d) /\ r \in Used(s, d)
      BY <2>1, <1>5 DEF Shape, Distinct
    <2>2. CASE d \in D /\ q \in Used(s, d) /\ r \notin Used(s, d)
      BY <2>2, <1>1, <1>5, <1>5a, <1>6
    <2>3. CASE d \in D /\ q \notin Used(s, d) /\ r \in Used(s, d)
      BY <2>3, <1>1, <1>5, <1>5a, <1>6
    <2>4. CASE d \in D /\ q \notin Used(s, d) /\ r \notin Used(s, d) BY <2>4, <1>5a
    <2> QED BY <2>0, <2>1, <2>2, <2>3, <2>4
  <1> QED BY <1>7, <1>8, <1>9, <1>10, <1>11, <1>12, <1>13 DEF Shape, up1, path1

(* A file is removed: del. *)
LEMMA ShapeRemoveFile ==
  ASSUME NEW s, NEW t, NEW D, NEW F, NEW up, NEW path, Shape(s, D, F, up, path),
         NEW n \in D, NEW p, Loses(s, t, n, p), EntryAt(s, n, p).file_type = FILE,
         t.inode_bitmap = s.inode_bitmap,
         \A d \in D \ {n} : SameEntries(s, t, d)
  PROVE  /\ EntryAt(s, n, p).inode \in F
         /\ Shape(t, D, F \ {EntryAt(s, n, p).inode}, up, path)
  <1> DEFINE f == EntryAt(s, n, p).inode
  <1>1. p \in Used(s, n) BY DEF Loses
  <1>2. p \notin Dots /\ ChildFile(EntryAt(s, n, p), F) BY <1>1, EntryKinds
  <1>3. f \in F BY <1>2 DEF ChildFile
  <1>4. \A d \in D : up[d] \in D BY DEF Shape, Pathed
  <1>5. \A d \in D : /\ Used(t, d) \subseteq Used(s, d)
                    /\ \A q \in Used(t, d) : EntryAt(t, d, q) = EntryAt(s, d, q)
    BY DEF Loses, SameEntries
  <1>6. ASSUME NEW d \in D, NEW q, q \in Used(s, d), q \notin Used(t, d)
        PROVE  d = n /\ q = p
    <2>1. d = n BY <1>6 DEF SameEntries
    <2> QED BY <1>6, <2>1 DEF Loses
  <1>7. \A d \in D : \A q \in Used(t, d) \ Dots : EntryAt(t, d, q).inode # f
    <2> SUFFICES ASSUME NEW d \in D, NEW q \in Used(t, d) \ Dots, EntryAt(t, d, q).inode = f
                 PROVE  FALSE
      OBVIOUS
    <2>1. q \in Used(s, d) /\ EntryAt(s, d, q).inode = f BY <1>5
    <2>2. d = n /\ q = p BY <1>1, <1>2, <2>1 DEF Shape, OneName
    <2> QED BY <2>2 DEF Loses
  <1> HIDE DEF f
  <1>8. Marked(t, D, F \ {f}) BY DEF Shape, Marked
  <1>9. Pathed(t, D, up, path) BY DEF Shape, Pathed
  <1>10. Dotted(t, D, up)
    <2>1. \A d \in D : Dots \subseteq Used(t, d) BY <1>2, <1>6 DEF Shape, Dotted
    <2> QED BY <1>5, <2>1, DotsTwo DEF Shape, Dotted
  <1>11. Closed(t, D, F \ {f}, up, path)
    <2> SUFFICES ASSUME NEW d \in D, NEW q \in Used(t, d) \ Dots
                 PROVE  \/ ChildDir(EntryAt(t, d, q), d, D, up, path)
                        \/ ChildFile(EntryAt(t, d, q), F \ {f})
      BY DEF Closed
    <2>1. q \in Used(s, d) /\ EntryAt(t, d, q) = EntryAt(s, d, q) BY <1>5
    <2>2. \/ ChildDir(EntryAt(s, d, q), d, D, up, path)
          \/ ChildFile(EntryAt(s, d, q), F)
      BY <2>1 DEF Shape, Closed
    <2> QED BY <2>1, <2>2, <1>7 DEF ChildFile
  <1>12. HasName(t, D, F \ {f}, up)
    <2>1. ASSUME NEW c \in D \ {Root}
          PROVE  \E q \in Used(t, up[c]) \ Dots : EntryAt(t, up[c], q).inode = c
      <3>1. PICK q \in Used(s, up[c]) \ Dots : EntryAt(s, up[c], q).inode = c
        BY DEF Shape, HasName
      <3>2. c # f BY <1>3 DEF Shape, Marked
      <3>3. q \in Used(t, up[c]) BY <3>1, <3>2, <1>4, <1>6 DEF f
      <3> QED BY <3>1, <3>3, <1>4, <1>5
    <2>2. ASSUME NEW g \in F \ {f}
          PROVE  \E d \in D : \E q \in Used(t, d) \ Dots : EntryAt(t, d, q).inode = g
      <3>1. PICK d \in D : \E q \in Used(s, d) \ Dots : EntryAt(s, d, q).inode = g
        BY DEF Shape, HasName
      <3>2. PICK q \in Used(s, d) \ Dots : EntryAt(s, d, q).inode = g BY <3>1
      <3>3. q \in Used(t, d) BY <3>2, <1>6 DEF f
      <3> QED BY <3>2, <3>3, <1>5
    <2> QED BY <2>1, <2>2 DEF HasName
  <1>13. OneName(t, D) BY <1>5 DEF Shape, OneName
  <1>14. Distinct(t, D) BY <1>5 DEF Shape, Distinct
  <1> QED BY <1>3, <1>8, <1>9, <1>10, <1>11, <1>12, <1>13, <1>14 DEF Shape, f

(* A directory is not its own parent, and an empty one is nobody's. *)
LEMMA ChildIsOther ==
  ASSUME NEW s, NEW D, NEW F, NEW up, NEW path, Shape(s, D, F, up, path),
         NEW d \in D \ {Root}
  PROVE  /\ up[d] \in D /\ up[d] # d
         /\ \E p \in Used(s, up[d]) \ Dots :
               /\ EntryAt(s, up[d], p).inode = d
               /\ ChildDir(EntryAt(s, up[d], p), up[d], D, up, path)
  <1>1. up[d] \in D /\ path[up[d]] \in Seq(Names) BY DEF Shape, Pathed
  <1>2. PICK p \in Used(s, up[d]) \ Dots : EntryAt(s, up[d], p).inode = d
    BY DEF Shape, HasName
  <1>3. ~ChildFile(EntryAt(s, up[d], p), F) BY <1>2 DEF ChildFile, Shape, Marked
  <1>4. ChildDir(EntryAt(s, up[d], p), up[d], D, up, path)
    BY <1>1, <1>2, <1>3 DEF Shape, Closed
  <1>5. path[d] = Append(path[up[d]], EntryAt(s, up[d], p).name) BY <1>2, <1>4 DEF ChildDir
  <1>6. path[d] # path[up[d]] BY <1>1, <1>5
  <1> QED BY <1>1, <1>2, <1>4, <1>6

(* An empty directory is removed: rmdir. *)
LEMMA ShapeRemoveDir ==
  ASSUME NEW s, NEW t, NEW D, NEW F, NEW up, NEW path, Shape(s, D, F, up, path),
         NEW n \in D, NEW p, Loses(s, t, n, p), NEW c, c = EntryAt(s, n, p).inode,
         ChildDir(EntryAt(s, n, p), n, D, up, path), p \notin Dots,
         Used(s, c) = Dots,
         t.inode_bitmap = s.inode_bitmap,
         \A d \in D \ {n, c} : SameEntries(s, t, d)
  PROVE  /\ c \in D \ {Root, n}
         /\ \A d \in D : up[d] # c
         /\ Shape(t, D \ {c}, F, Without(up, D, c), Without(path, D, c))
  <1> DEFINE D1 == D \ {c}
             up1 == Without(up, D, c)
             path1 == Without(path, D, c)
  <1>1. p \in Used(s, n) BY DEF Loses
  <1>2. c \in D \ {Root} /\ up[c] = n BY DEF ChildDir
  <1>3. c # n BY <1>2, ChildIsOther
  <1>4. \A d \in D : up[d] # c
    <2> SUFFICES ASSUME NEW d \in D, up[d] = c PROVE FALSE OBVIOUS
    <2>1. d # Root BY <1>2 DEF Shape, Pathed
    <2>2. \E q \in Used(s, c) \ Dots : TRUE BY <2>1, ChildIsOther
    <2> QED BY <2>2
  <1>5. \A d \in D1 : /\ Used(t, d) \subseteq Used(s, d)
                     /\ \A q \in Used(t, d) : EntryAt(t, d, q) = EntryAt(s, d, q)
    BY DEF Loses, SameEntries
  <1>6. ASSUME NEW d \in D1, NEW q, q \in Used(s, d), q \notin Used(t, d)
        PROVE  d = n /\ q = p
    <2>1. d = n BY <1>6 DEF SameEntries
    <2> QED BY <1>6, <2>1 DEF Loses
  <1>7. \A d \in D1 : \A q \in Used(t, d) \ Dots : EntryAt(t, d, q).inode # c
    <2> SUFFICES ASSUME NEW d \in D1, NEW q \in Used(t, d) \ Dots, EntryAt(t, d, q).inode = c
                 PROVE  FALSE
      OBVIOUS
    <2>1. q \in Used(s, d) /\ EntryAt(s, d, q).inode = c BY <1>5
    <2>2. d = n /\ q = p BY <1>1, <2>1 DEF Shape, OneName
    <2> QED BY <2>2 DEF Loses
  <1>8. /\ \A d \in D1 : up[d] \in D1 /\ up1[d] = up[d] /\ path1[d] = path[d]
        /\ up1 \in [D1 -> D1] /\ path1 \in [D1 -> Seq(Names)]
    BY <1>4 DEF Shape, Pathed, Without
  <1>9. Marked(t, D1, F) BY <1>2 DEF Shape, Marked
  <1>10. Pathed(t, D1, up1, path1) BY <1>2, <1>8 DEF Shape, Pathed, Marked
  <1> HIDE DEF up1, path1
  <1>11. Dotted(t, D1, up1)
    <2>1. \A d \in D1 : Dots \subseteq Used(t, d) BY <1>6 DEF Shape, Dotted
    <2> QED BY <1>5, <1>8, <2>1, DotsTwo DEF Shape, Dotted
  <1>12. Closed(t, D1, F, up1, path1)
    <2> SUFFICES ASSUME NEW d \in D1, NEW q \in Used(t, d) \ Dots
                 PROVE  \/ ChildDir(EntryAt(t, d, q), d, D1, up1, path1)
                        \/ ChildFile(EntryAt(t, d, q), F)
      BY DEF Closed
    <2>1. q \in Used(s, d) /\ EntryAt(t, d, q) = EntryAt(s, d, q) BY <1>5
    <2>2. \/ ChildDir(EntryAt(s, d, q), d, D, up, path)
          \/ ChildFile(EntryAt(s, d, q), F)
      BY <2>1 DEF Shape, Closed
    <2>3. EntryAt(s, d, q).inode # c BY <2>1, <1>7
    <2> QED BY <2>1, <2>2, <2>3, <1>8 DEF ChildDir
  <1>13. HasName(t, D1, F, up1)
    <2>1. ASSUME NEW e \in D1 \ {Root}
          PROVE  \E q \in Used(t, up1[e]) \ Dots : EntryAt(t, up1[e], q).inode = e
      <3>1. PICK q \in Used(s, up[e]) \ Dots : EntryAt(s, up[e], q).inode = e
        BY DEF Shape, HasName
      <3>2. q \in Used(t, up[e]) BY <3>1, <1>6, <1>8
      <3> QED BY <3>1, <3>2, <1>5, <1>8
    <2>2. ASSUME NEW g \in F
          PROVE  \E d \in D1 : \E q \in Used(t, d) \ Dots : EntryAt(t, d, q).inode = g
      <3>1. PICK d \in D : \E q \in Used(s, d) \ Dots : EntryAt(s, d, q).inode = g
        BY DEF Shape, HasName
      <3>2. PICK q \in Used(s, d) \ Dots : EntryAt(s, d, q).inode = g BY <3>1
      <3>3. d \in D1 BY <3>2
      <3>4. g # c BY <1>2 DEF Shape, Marked
      <3>5. q \in Used(t, d) BY <3>2, <3>3, <3>4, <1>6
      <3> QED BY <3>2, <3>3, <3>5, <1>5
    <2> QED BY <2>1, <2>2 DEF HasName
  <1>14. OneName(t, D1) BY <1>5 DEF Shape, OneName
  <1>15. Distinct(t, D1) BY <1>5 DEF Shape, Distinct
  <1> QED BY <1>2, <1>3, <1>4, <1>9, <1>10, <1>11, <1>12, <1>13, <1>14, <1>15
          DEF Shape, up1, path1
-----------------------------------------------------------------------------
(***************************************************************************)
(* What the disk keeps of the inodes of the tree beside their entries, and *)
(* what the operators of Ext2 do to it.                                    *)
(***************************************************************************)

(* Who has which blocks: l[n] is the list of inode n, for n in N. *)
Owned(bitmap, free, N, l) ==
    /\ bitmap \subseteq Blocks
    /\ \A n \in N : l[n] \in Seq(Blocks) /\ Len(l[n]) <= MaxBlocks
    /\ \A n \in N : \A i \in 1 .. Len(l[n]) : l[n][i] \in bitmap
    /\ \A n, m \in N : \A i \in 1 .. Len(l[n]), j \in 1 .. Len(l[m]) :
          l[n][i] = l[m][j] => n = m /\ i = j
    /\ free = BlockCount - Cardinality(bitmap)

(* No block is marked without an owner. *)
Exact(bitmap, N, l) ==
    \A b \in bitmap : \E n \in N : \E i \in 1 .. Len(l[n]) : l[n][i] = b

(* Sets of blocks are finite. *)
LEMMA BlocksFinite ==
  ASSUME NEW B \in SUBSET Blocks
  PROVE  IsFiniteSet(B) /\ Cardinality(B) \in Nat
  <1>1. BlockCount - 1 \in Int BY SizesAssumption
  <1>2. IsFiniteSet(Blocks) BY <1>1, FS_Interval DEF Blocks
  <1> QED BY <1>2, FS_Subset, FS_CardinalityType

(* An inode takes a free block: alloc_block for a directory or a file. *)
LEMMA OwnedTake ==
  ASSUME NEW B, NEW free, NEW N, NEW l, Owned(B, free, N, l),
         NEW n \in N, NEW b \in Blocks, b \notin B, Len(l[n]) < MaxBlocks,
         NEW k, k[n] = Append(l[n], b), \A m \in N \ {n} : k[m] = l[m]
  PROVE  /\ Owned(B \cup {b}, free - 1, N, k)
         /\ Exact(B, N, l) => Exact(B \cup {b}, N, k)
  <1>1. /\ \A m \in N : l[m] \in Seq(Blocks) /\ Len(l[m]) \in Nat /\ Len(l[m]) <= MaxBlocks
        /\ \A m \in N : \A i \in 1 .. Len(l[m]) : l[m][i] \in B
        /\ \A m, o \in N : \A i \in 1 .. Len(l[m]), j \in 1 .. Len(l[o]) :
              l[m][i] = l[o][j] => m = o /\ i = j
        /\ B \subseteq Blocks
    BY DEF Owned
  <1>2. /\ k[n] \in Seq(Blocks) /\ Len(k[n]) = Len(l[n]) + 1
        /\ \A i \in 1 .. Len(l[n]) : k[n][i] = l[n][i]
        /\ k[n][Len(l[n]) + 1] = b
    BY <1>1
  <1>3. ASSUME NEW m \in N PROVE k[m] \in Seq(Blocks) /\ Len(k[m]) <= MaxBlocks
    <2>1. CASE m = n
      <3>1. Len(l[n]) + 1 <= MaxBlocks BY <1>1, ConstantFacts
      <3> QED BY <2>1, <3>1, <1>2
    <2>2. CASE m # n BY <2>2, <1>1
    <2> QED BY <2>1, <2>2
  <1>4. ASSUME NEW m \in N, NEW i \in 1 .. Len(k[m])
        PROVE  \/ i \in 1 .. Len(l[m]) /\ k[m][i] = l[m][i]
               \/ m = n /\ i = Len(l[n]) + 1 /\ k[m][i] = b
    <2>1. CASE m = n BY <2>1, <1>1, <1>2
    <2>2. CASE m # n BY <2>2
    <2> QED BY <2>1, <2>2
  <1>5. \A m \in N : \A i \in 1 .. Len(k[m]) : k[m][i] \in B \cup {b} BY <1>1, <1>4
  <1>6. ASSUME NEW m \in N, NEW o \in N, NEW i \in 1 .. Len(k[m]), NEW j \in 1 .. Len(k[o]),
               k[m][i] = k[o][j]
        PROVE  m = o /\ i = j
    BY <1>1, <1>4, <1>6, SMTT(60)
  <1>7. free - 1 = BlockCount - Cardinality(B \cup {b})
    <2>1. IsFiniteSet(B) /\ Cardinality(B) \in Nat BY <1>1, BlocksFinite
    <2>2. Cardinality(B \cup {b}) = Cardinality(B) + 1 BY <2>1, FS_AddElement
    <2> QED BY <2>1, <2>2, SizesAssumption DEF Owned
  <1>8. Owned(B \cup {b}, free - 1, N, k) BY <1>1, <1>3, <1>5, <1>6, <1>7 DEF Owned
  <1>9. ASSUME Exact(B, N, l) PROVE Exact(B \cup {b}, N, k)
    <2> SUFFICES ASSUME NEW c \in B \cup {b}
                 PROVE  \E m \in N : \E i \in 1 .. Len(k[m]) : k[m][i] = c
      BY DEF Exact
    <2>1. CASE c = b
      <3>1. Len(l[n]) + 1 \in 1 .. Len(k[n]) BY <1>1, <1>2
      <3> QED BY <2>1, <3>1, <1>2
    <2>2. CASE c \in B
      <3>1. PICK m \in N : \E i \in 1 .. Len(l[m]) : l[m][i] = c BY <2>2, <1>9 DEF Exact
      <3>2. PICK i \in 1 .. Len(l[m]) : l[m][i] = c BY <3>1
      <3>3. i \in 1 .. Len(k[m]) /\ k[m][i] = c BY <3>2, <1>1, <1>2
      <3> QED BY <3>3
    <2> QED BY <2>1, <2>2
  <1> QED BY <1>8, <1>9

(* alloc_block marks a block and the command never comes back with it. *)
LEMMA OwnedLose ==
  ASSUME NEW B, NEW free, NEW N, NEW l, Owned(B, free, N, l), NEW b \in Blocks, b \notin B
  PROVE  Owned(B \cup {b}, free - 1, N, l)
  <1>1. B \subseteq Blocks BY DEF Owned
  <1>2. IsFiniteSet(B) /\ Cardinality(B) \in Nat BY <1>1, BlocksFinite
  <1>3. Cardinality(B \cup {b}) = Cardinality(B) + 1 BY <1>2, FS_AddElement
  <1>4. free - 1 = BlockCount - Cardinality(B \cup {b})
    BY <1>2, <1>3, SizesAssumption DEF Owned
  <1> QED BY <1>1, <1>4 DEF Owned

(* An inode without blocks joins the tree. *)
LEMMA OwnedJoin ==
  ASSUME NEW B, NEW free, NEW N, NEW l, Owned(B, free, N, l), NEW m, m \notin N,
         NEW k, k[m] = <<>>, \A n \in N : k[n] = l[n]
  PROVE  /\ Owned(B, free, N \cup {m}, k)
         /\ Exact(B, N, l) => Exact(B, N \cup {m}, k)
  <1>1. k[m] \in Seq(Blocks) /\ Len(k[m]) = 0 BY SizesAssumption
  <1>2. ASSUME NEW n \in N \cup {m} PROVE k[n] \in Seq(Blocks) /\ Len(k[n]) <= MaxBlocks
    <2>1. CASE n = m
      <3>1. 0 <= MaxBlocks BY ConstantFacts
      <3> QED BY <2>1, <3>1, <1>1
    <2>2. CASE n \in N BY <2>2 DEF Owned
    <2> QED BY <2>1, <2>2
  <1>3. \A n \in N \cup {m} : \A i \in 1 .. Len(k[n]) : n \in N /\ i \in 1 .. Len(l[n]) /\ k[n][i] = l[n][i]
    BY <1>1
  <1>4. Owned(B, free, N \cup {m}, k)
    <2>1. \A n \in N \cup {m} : \A i \in 1 .. Len(k[n]) : k[n][i] \in B
      BY <1>3 DEF Owned
    <2>2. ASSUME NEW n \in N \cup {m}, NEW o \in N \cup {m},
                 NEW i \in 1 .. Len(k[n]), NEW j \in 1 .. Len(k[o]), k[n][i] = k[o][j]
          PROVE  n = o /\ i = j
      <3>1. /\ n \in N /\ i \in 1 .. Len(l[n]) /\ k[n][i] = l[n][i]
            /\ o \in N /\ j \in 1 .. Len(l[o]) /\ k[o][j] = l[o][j]
        BY <1>3
      <3>2. l[n][i] = l[o][j] BY <2>2, <3>1
      <3> QED BY <3>1, <3>2 DEF Owned
    <2> QED BY <1>2, <2>1, <2>2 DEF Owned
  <1>5. Exact(B, N, l) => Exact(B, N \cup {m}, k) BY DEF Exact
  <1> QED BY <1>4, <1>5

(* A file gives back its last block: remove_block in write_file. *)
LEMMA OwnedGive ==
  ASSUME NEW B, NEW free, NEW N, NEW l, Owned(B, free, N, l),
         NEW n \in N, Len(l[n]) > 0,
         NEW k, k[n] = SubSeq(l[n], 1, Len(l[n]) - 1), \A m \in N \ {n} : k[m] = l[m]
  PROVE  /\ Owned(B \ {l[n][Len(l[n])]}, free + 1, N, k)
         /\ Exact(B, N, l) => Exact(B \ {l[n][Len(l[n])]}, N, k)
  <1> DEFINE last == Len(l[n])
             b == l[n][last]
  <1>1. /\ \A m \in N : l[m] \in Seq(Blocks) /\ Len(l[m]) \in Nat /\ Len(l[m]) <= MaxBlocks
        /\ \A m \in N : \A i \in 1 .. Len(l[m]) : l[m][i] \in B
        /\ \A m, o \in N : \A i \in 1 .. Len(l[m]), j \in 1 .. Len(l[o]) :
              l[m][i] = l[o][j] => m = o /\ i = j
        /\ B \subseteq Blocks
    BY DEF Owned
  <1>2. last \in 1 .. Len(l[n]) /\ b \in B BY <1>1
  <1>3. /\ k[n] \in Seq(Blocks) /\ Len(k[n]) = last - 1
        /\ \A i \in 1 .. last - 1 : k[n][i] = l[n][i]
    BY <1>1
  <1>4. ASSUME NEW m \in N PROVE k[m] \in Seq(Blocks) /\ Len(k[m]) <= MaxBlocks
    <2>1. CASE m = n
      <3>1. last - 1 <= MaxBlocks BY <1>1, ConstantFacts
      <3> QED BY <2>1, <3>1, <1>3
    <2>2. CASE m # n BY <2>2, <1>1
    <2> QED BY <2>1, <2>2
  <1>5. ASSUME NEW m \in N, NEW i \in 1 .. Len(k[m])
        PROVE  i \in 1 .. Len(l[m]) /\ k[m][i] = l[m][i] /\ l[m][i] # b
    <2>1. CASE m = n
      <3>1. i \in 1 .. Len(l[m]) /\ i # last /\ k[m][i] = l[m][i] BY <2>1, <1>1, <1>3
      <3> QED BY <2>1, <3>1, <1>1, <1>2
    <2>2. CASE m # n BY <2>2, <1>1, <1>2
    <2> QED BY <2>1, <2>2
  <1>6. free + 1 = BlockCount - Cardinality(B \ {b})
    <2>1. IsFiniteSet(B) /\ Cardinality(B) \in Nat BY <1>1, BlocksFinite
    <2>2. Cardinality(B \ {b}) = Cardinality(B) - 1 BY <1>2, <2>1, FS_RemoveElement
    <2> QED BY <2>1, <2>2, SizesAssumption DEF Owned
  <1> HIDE DEF b
  <1>7. Owned(B \ {b}, free + 1, N, k)
    <2>1. \A m \in N : \A i \in 1 .. Len(k[m]) : k[m][i] \in B \ {b} BY <1>1, <1>5, SMTT(60)
    <2>2. ASSUME NEW m \in N, NEW o \in N,
                 NEW i \in 1 .. Len(k[m]), NEW j \in 1 .. Len(k[o]), k[m][i] = k[o][j]
          PROVE  m = o /\ i = j
      BY <1>1, <1>5, <2>2
    <2> QED BY <1>1, <1>4, <1>6, <2>1, <2>2 DEF Owned
  <1>8. ASSUME Exact(B, N, l), NEW c \in B \ {b}
        PROVE  \E m \in N : \E i \in 1 .. Len(k[m]) : k[m][i] = c
    <2>1. PICK m \in N : \E i \in 1 .. Len(l[m]) : l[m][i] = c BY <1>8 DEF Exact
    <2>2. PICK i \in 1 .. Len(l[m]) : l[m][i] = c BY <2>1
    <2>3. m = n => i # last BY <2>2, <1>8 DEF b
    <2>4. i \in 1 .. Len(k[m]) /\ k[m][i] = c BY <2>2, <2>3, <1>1, <1>3, SMTT(60)
    <2> QED BY <2>4
  <1>9. Exact(B, N, l) => Exact(B \ {b}, N, k) BY <1>8 DEF Exact
  <1> QED BY <1>7, <1>9 DEF b

(* A list without repetitions has as many elements as places. *)
LEMMA ListCardinality ==
  ASSUME NEW q \in Seq(Blocks), \A i, j \in 1 .. Len(q) : q[i] = q[j] => i = j
  PROVE  /\ IsFiniteSet({q[i] : i \in 1 .. Len(q)})
         /\ Cardinality({q[i] : i \in 1 .. Len(q)}) = Len(q)
  <1> DEFINE R == {q[i] : i \in 1 .. Len(q)}
  <1>1. Len(q) \in Nat OBVIOUS
  <1>2. IsFiniteSet(1 .. Len(q)) /\ Cardinality(1 .. Len(q)) = Len(q)
    <2>1. 1 \in Int /\ Len(q) \in Int BY <1>1
    <2>2. /\ IsFiniteSet(1 .. Len(q))
          /\ Cardinality(1 .. Len(q)) = IF 1 > Len(q) THEN 0 ELSE Len(q) - 1 + 1
      BY <2>1, FS_Interval
    <2> QED BY <1>1, <2>2
  <1>3. ExistsBijection(1 .. Len(q), R)
    <2> DEFINE f == [i \in 1 .. Len(q) |-> q[i]]
    <2>1. f \in Bijection(1 .. Len(q), R)
      BY DEF Bijection, Injection, Surjection, IsInjective
    <2> QED BY <2>1 DEF ExistsBijection
  <1> QED BY <1>2, <1>3, FS_Bijection

(* An inode leaves the tree with all its blocks: rmdir and del. *)
LEMMA OwnedLeave ==
  ASSUME NEW B, NEW free, NEW N, NEW l, Owned(B, free, N, l), NEW n \in N,
         NEW k, \A m \in N \ {n} : k[m] = l[m],
         NEW R, R = {l[n][i] : i \in 1 .. Len(l[n])}
  PROVE  /\ Owned(B \ R, free + Len(l[n]), N \ {n}, k)
         /\ Exact(B, N, l) => Exact(B \ R, N \ {n}, k)
  <1>1. /\ \A m \in N : l[m] \in Seq(Blocks) /\ Len(l[m]) \in Nat /\ Len(l[m]) <= MaxBlocks
        /\ \A m \in N : \A i \in 1 .. Len(l[m]) : l[m][i] \in B
        /\ \A m, o \in N : \A i \in 1 .. Len(l[m]), j \in 1 .. Len(l[o]) :
              l[m][i] = l[o][j] => m = o /\ i = j
        /\ B \subseteq Blocks
    BY DEF Owned
  <1>2. IsFiniteSet(R) /\ Cardinality(R) = Len(l[n])
    <2>1. l[n] \in Seq(Blocks) /\ \A i, j \in 1 .. Len(l[n]) : l[n][i] = l[n][j] => i = j
      BY <1>1
    <2> QED BY <2>1, ListCardinality, Zenon
  <1>3. free + Len(l[n]) = BlockCount - Cardinality(B \ R)
    <2>1. IsFiniteSet(B) /\ Cardinality(B) \in Nat BY <1>1, BlocksFinite
    <2>2. B \cap R = R BY <1>1
    <2>3. Cardinality(B \ R) = Cardinality(B) - Cardinality(R)
      <3>1. Cardinality(B \ R) = Cardinality(B) - Cardinality(B \cap R)
        BY <2>1, FS_Difference, Zenon
      <3> QED BY <2>2, <3>1
    <2> QED BY <1>1, <1>2, <2>1, <2>3, SizesAssumption DEF Owned
  <1>4. \A m \in N \ {n} : \A i \in 1 .. Len(l[m]) : l[m][i] \notin R BY <1>1
  <1>5. Owned(B \ R, free + Len(l[n]), N \ {n}, k)
    BY <1>1, <1>3, <1>4 DEF Owned
  <1>6. ASSUME Exact(B, N, l), NEW c \in B \ R
        PROVE  \E m \in N \ {n} : \E i \in 1 .. Len(k[m]) : k[m][i] = c
    <2>1. PICK m \in N : \E i \in 1 .. Len(l[m]) : l[m][i] = c BY <1>6 DEF Exact
    <2> QED BY <2>1
  <1> QED BY <1>5, <1>6 DEF Exact
-----------------------------------------------------------------------------
(* What the inodes D and F store: the blocks they own, and the sizes.      *)

Lists(s) == [n \in Inodes |-> Area(s, n).i_block]

(* The entries of directory d against its size.  A second block is never   *)
(* empty: the sweep of rmdir and del does not come back from one.          *)
DirSized(s, d, clean) ==
    /\ Cardinality(Used(s, d)) <= Area(s, d).i_size
    /\ clean => Cardinality(Used(s, d)) = Area(s, d).i_size
    /\ Area(s, d).i_size <= Len(Area(s, d).i_block) * EntriesPerBlock
    /\ Len(Area(s, d).i_block) > 1 => \E k \in Slots : <<2, k>> \in Used(s, d)

FileSized(s, f) ==
    Area(s, f).i_block # <<>> =>
        need_blocks(Area(s, f).i_size) = Len(Area(s, f).i_block)

Stored(s, D, F, l, clean) ==
    /\ D \subseteq Inodes /\ F \subseteq Inodes /\ D \cap F = {}
    /\ \A d \in D : l[d] = Area(s, d).i_block
    /\ \A d \in D : DirSized(s, d, clean)
    /\ \A f \in F : FileSized(s, f)
    /\ Owned(s.block_bitmap, s.bg_free_blocks_count, D \cup F, l)
    /\ clean => Exact(s.block_bitmap, D \cup F, l)

(* The slots of a directory are finitely many. *)
LEMMA PositionsFinite ==
  ASSUME NEW s \in FileSystems, NEW n \in Inodes
  PROVE  /\ IsFiniteSet(Positions(s, n))
         /\ Cardinality(Positions(s, n)) = Len(Area(s, n).i_block) * EntriesPerBlock
         /\ IsFiniteSet(Used(s, n))
         /\ Cardinality(Used(s, n)) \in Nat
  <1> DEFINE last == Len(Area(s, n).i_block)
  <1>1. last \in Nat /\ EntriesPerBlock \in Nat BY AreaType, ConstantFacts
  <1> HIDE DEF last
  <1>2. IsFiniteSet(1 .. last) /\ Cardinality(1 .. last) = last
    <2>1. 1 \in Int /\ last \in Int BY <1>1
    <2>2. /\ IsFiniteSet(1 .. last)
          /\ Cardinality(1 .. last) = IF 1 > last THEN 0 ELSE last - 1 + 1
      BY <2>1, FS_Interval
    <2> QED BY <1>1, <2>2
  <1>3. IsFiniteSet(Slots) /\ Cardinality(Slots) = EntriesPerBlock
    <2>1. 0 \in Int /\ EntriesPerBlock - 1 \in Int BY <1>1
    <2>2. /\ IsFiniteSet(0 .. EntriesPerBlock - 1)
          /\ Cardinality(0 .. EntriesPerBlock - 1)
                = IF 0 > EntriesPerBlock - 1 THEN 0 ELSE EntriesPerBlock - 1 - 0 + 1
      BY <2>1, FS_Interval
    <2> QED BY <1>1, <2>2 DEF Slots
  <1>4. /\ IsFiniteSet(Positions(s, n))
        /\ Cardinality(Positions(s, n)) = last * EntriesPerBlock
    BY <1>2, <1>3, FS_Product DEF Positions, last
  <1>5. Used(s, n) \in SUBSET Positions(s, n) BY DEF Used
  <1> QED BY <1>4, <1>5, FS_Subset, FS_CardinalityType DEF last

(* A directory whose blocks stay as they are keeps its entries. *)
LEMMA EntriesSame ==
  ASSUME NEW s, NEW t, NEW d,
         Area(t, d).i_block = Area(s, d).i_block,
         \A i \in 1 .. Len(Area(s, d).i_block) :
             t.data[Area(s, d).i_block[i]] = s.data[Area(s, d).i_block[i]]
  PROVE  /\ Positions(t, d) = Positions(s, d)
         /\ \A p \in Positions(s, d) : EntryAt(t, d, p) = EntryAt(s, d, p)
         /\ SameEntries(s, t, d)
  <1>1. Positions(t, d) = Positions(s, d) BY DEF Positions
  <1>2. ASSUME NEW p \in Positions(s, d) PROVE EntryAt(t, d, p) = EntryAt(s, d, p)
    <2>1. p[1] \in 1 .. Len(Area(s, d).i_block) BY DEF Positions
    <2> QED BY <2>1 DEF EntryAt, BlockAt
  <1>3. Used(t, d) = Used(s, d) BY <1>1, <1>2 DEF Used
  <1>4. \A p \in Used(s, d) : p \in Positions(s, d) BY DEF Used
  <1> QED BY <1>1, <1>2, <1>3, <1>4 DEF SameEntries

(* A directory that keeps its entries and its inode keeps its size right. *)
LEMMA DirSizedSame ==
  ASSUME NEW s, NEW t, NEW d, NEW clean, DirSized(s, d, clean),
         SameEntries(s, t, d), Area(t, d).i_size = Area(s, d).i_size,
         Area(t, d).i_block = Area(s, d).i_block
  PROVE  DirSized(t, d, clean)
BY DEF DirSized, SameEntries

(* Blocks of a directory are marked, and no other inode has them. *)
LEMMA BlocksApart ==
  ASSUME NEW s, NEW D, NEW F, NEW l, NEW clean, Stored(s, D, F, l, clean),
         NEW d \in D, NEW i \in 1 .. Len(Area(s, d).i_block)
  PROVE  /\ Area(s, d).i_block[i] \in s.block_bitmap
         /\ Area(s, d).i_block[i] \in Blocks
         /\ \A n \in D \cup F : \A j \in 1 .. Len(l[n]) :
                l[n][j] = Area(s, d).i_block[i] => n = d /\ j = i
  <1>1. l[d] = Area(s, d).i_block BY DEF Stored
  <1> QED BY <1>1 DEF Stored, Owned

(* One slot of directory n is written: every other entry of the tree stays. *)
OneSlot(s, t, D, n, p, e) ==
    /\ Positions(t, n) = Positions(s, n)
    /\ \A q \in Positions(s, n) :
          EntryAt(t, n, q) = IF q = p THEN e ELSE EntryAt(s, n, q)
    /\ \A d \in D \ {n} : SameEntries(s, t, d)

(* No block of directory n belongs to another directory of D, or to n twice. *)
Apart(s, D, n) ==
    \A d \in D : \A i \in 1 .. Len(Area(s, n).i_block), j \in 1 .. Len(Area(s, d).i_block) :
        Area(s, d).i_block[j] = Area(s, n).i_block[i] => d = n /\ j = i

(* Writing one slot through update_dir changes that entry and no other.    *)
LEMMA SlotSet ==
  ASSUME NEW s \in FileSystems, NEW t, NEW D \in SUBSET Inodes, NEW n \in D,
         Apart(s, D, n), NEW p \in Positions(s, n), NEW e,
         \A k \in Inodes : Area(t, k).i_block = Area(s, k).i_block,
         t.data = [s.data EXCEPT ![Area(s, n).i_block[p[1]]] =
                       [BlockAt(s, n, p[1]) EXCEPT ![p[2]] = e]]
  PROVE  OneSlot(s, t, D, n, p, e)
  <1> DEFINE blk == Area(s, n).i_block
  <1>1. n \in Inodes /\ D \subseteq Inodes OBVIOUS
  <1>2. p[1] \in 1 .. Len(blk) /\ p[2] \in Slots /\ p = <<p[1], p[2]>> BY DEF Positions
  <1>3. blk \in Seq(Blocks) /\ BlockAt(s, n, p[1]) \in [Slots -> Entries]
    BY <1>1, <1>2, AreaType, BlockAtType
  <1>4. s.data \in [Blocks -> [Slots -> Entries]] /\ blk[p[1]] \in Blocks
    BY <1>2, <1>3 DEF FileSystems
  <1>5. ASSUME NEW d \in D \ {n} PROVE SameEntries(s, t, d)
    <2>1. ASSUME NEW i \in 1 .. Len(Area(s, d).i_block)
          PROVE  t.data[Area(s, d).i_block[i]] = s.data[Area(s, d).i_block[i]]
      <3>1. Area(s, d).i_block[i] # blk[p[1]] /\ Area(s, d).i_block[i] \in Blocks
        <4>1. Area(s, d).i_block[i] \in Blocks BY <1>1, BlockAtType
        <4> QED BY <4>1, <1>2 DEF Apart
      <3> QED BY <3>1, <1>4
    <2> QED BY <2>1, <1>1, EntriesSame
  <1>6. Positions(t, n) = Positions(s, n) BY <1>1 DEF Positions
  <1>7. ASSUME NEW q \in Positions(s, n)
        PROVE  EntryAt(t, n, q) = IF q = p THEN e ELSE EntryAt(s, n, q)
    <2>1. q[1] \in 1 .. Len(blk) /\ q[2] \in Slots /\ q = <<q[1], q[2]>> BY DEF Positions
    <2>2. EntryAt(t, n, q) = t.data[blk[q[1]]][q[2]] BY <1>1 DEF EntryAt, BlockAt
    <2>3. EntryAt(s, n, q) = s.data[blk[q[1]]][q[2]] BY DEF EntryAt, BlockAt
    <2>4. CASE q[1] = p[1]
      <3>1. t.data[blk[q[1]]] = [BlockAt(s, n, p[1]) EXCEPT ![p[2]] = e]
        BY <2>4, <1>4
      <3>2. BlockAt(s, n, p[1]) = s.data[blk[q[1]]] BY <2>4 DEF BlockAt
      <3>3. q = p <=> q[2] = p[2] BY <2>1, <2>4, <1>2
      <3> HIDE DEF blk
      <3> QED BY <2>1, <2>2, <2>3, <3>1, <3>2, <3>3, <1>3
    <2>5. CASE q[1] # p[1]
      <3>1. blk[q[1]] # blk[p[1]] /\ blk[q[1]] \in Blocks
        <4>1. blk[q[1]] \in Blocks BY <1>1, <2>1, BlockAtType
        <4> QED BY <4>1, <2>1, <2>5, <1>2 DEF Apart
      <3>2. t.data[blk[q[1]]] = s.data[blk[q[1]]] BY <3>1, <1>4
      <3>3. q # p BY <2>5
      <3> QED BY <2>2, <2>3, <3>2, <3>3
    <2> QED BY <2>4, <2>5
  <1> QED BY <1>5, <1>6, <1>7 DEF OneSlot

\* The same on a disk whose lists are Stored.
LEMMA SlotWritten ==
  ASSUME NEW s \in FileSystems, NEW t, NEW D, NEW F, NEW clean,
         Stored(s, D, F, Lists(s), clean), NEW n \in D,
         NEW p \in Positions(s, n), NEW e,
         \A k \in Inodes : Area(t, k).i_block = Area(s, k).i_block,
         t.data = [s.data EXCEPT ![Area(s, n).i_block[p[1]]] =
                       [BlockAt(s, n, p[1]) EXCEPT ![p[2]] = e]]
  PROVE  OneSlot(s, t, D, n, p, e)
  <1>1. n \in Inodes /\ D \in SUBSET Inodes BY DEF Stored
  <1>2. Apart(s, D, n)
    <2> SUFFICES ASSUME NEW d \in D, NEW i \in 1 .. Len(Area(s, n).i_block),
                        NEW j \in 1 .. Len(Area(s, d).i_block),
                        Area(s, d).i_block[j] = Area(s, n).i_block[i]
                 PROVE  d = n /\ j = i
      BY DEF Apart
    <2>1. Lists(s)[d] = Area(s, d).i_block BY <1>1 DEF Lists
    <2> QED BY <2>1, BlocksApart
  <1> QED BY <1>1, <1>2, SlotSet

(* Less is claimed after a command that did not end. *)
LEMMA StoredWeaker ==
  ASSUME NEW s, NEW D, NEW F, NEW l, NEW clean, Stored(s, D, F, l, clean),
         NEW c, c => clean
  PROVE  Stored(s, D, F, l, c)
  <1>1. \A d \in D : DirSized(s, d, c) BY DEF Stored, DirSized
  <1> QED BY <1>1 DEF Stored

(* An entry is put into a free slot: cat, or mkdir in the last block. *)
LEMMA StoredFill ==
  ASSUME NEW s \in FileSystems, NEW u \in FileSystems, NEW D, NEW F, NEW clean,
         Stored(s, D, F, Lists(s), clean), NEW n \in D,
         NEW p \in Positions(s, n), EntryAt(s, n, p).inode = 0,
         NEW e, e.inode # 0,
         Area(u, n).i_block = Area(s, n).i_block,
         Area(u, n).i_size = Area(s, n).i_size + 1,
         \A k \in Inodes \ {n} : Area(u, k) = Area(s, k),
         u.block_bitmap = s.block_bitmap,
         u.bg_free_blocks_count = s.bg_free_blocks_count,
         u.data = [s.data EXCEPT ![Area(s, n).i_block[p[1]]] =
                       [BlockAt(s, n, p[1]) EXCEPT ![p[2]] = e]],
         Partial(s, n)
  PROVE  /\ Gains(s, u, n, p, e)
         /\ \A d \in D \ {n} : SameEntries(s, u, d)
         /\ Stored(u, D, F, Lists(u), clean)
  <1> DEFINE blk == Area(s, n).i_block
  <1>1. n \in Inodes /\ D \subseteq Inodes /\ F \subseteq Inodes BY DEF Stored
  <1>2. /\ \A k \in Inodes : Area(u, k).i_block = Area(s, k).i_block
        /\ Lists(u) = Lists(s)
    BY DEF Lists
  <1>3. blk \in Seq(Blocks) BY <1>1, AreaType
  <1>4. /\ Positions(u, n) = Positions(s, n)
        /\ \A q \in Positions(s, n) :
              EntryAt(u, n, q) = IF q = p THEN e ELSE EntryAt(s, n, q)
        /\ \A d \in D \ {n} : SameEntries(s, u, d)
    <2>1. OneSlot(s, u, D, n, p, e) BY <1>2, SlotWritten
    <2> QED BY <2>1 DEF OneSlot
  <1>5. \A d \in D \ {n} : SameEntries(s, u, d) BY <1>4
  <1>8. Gains(s, u, n, p, e) BY <1>4 DEF Gains, Used
  <1>9. DirSized(u, n, clean)
    <2>1. DirSized(s, n, clean) BY DEF Stored
    <2>2. /\ IsFiniteSet(Used(s, n)) /\ Cardinality(Used(s, n)) \in Nat
      BY <1>1, PositionsFinite
    <2>3. Cardinality(Used(u, n)) = Cardinality(Used(s, n)) + 1
      BY <2>2, <1>8, FS_AddElement DEF Gains
    <2>4. Area(s, n).i_size < Len(blk) * EntriesPerBlock
      <3>1. Len(blk) * EntriesPerBlock \in Int BY <1>3, ConstantFacts
      <3>2. Area(s, n).i_size \in Int BY <1>1, AreaType
      <3> QED BY <2>1, <3>1, <3>2 DEF Partial, DirSized
    <2>5. Area(u, n).i_size <= Len(blk) * EntriesPerBlock
      <3>1. Len(blk) * EntriesPerBlock \in Int BY <1>3, ConstantFacts
      <3>2. Area(s, n).i_size \in Int BY <1>1, AreaType
      <3> QED BY <2>4, <3>1, <3>2
    <2>6. Area(s, n).i_size \in Int BY <1>1, AreaType
    <2>7. /\ Cardinality(Used(u, n)) <= Area(u, n).i_size
          /\ clean => Cardinality(Used(u, n)) = Area(u, n).i_size
      BY <2>1, <2>2, <2>3, <2>6 DEF DirSized
    <2>8. Len(blk) > 1 => \E k \in Slots : <<2, k>> \in Used(u, n)
      BY <2>1, <1>8 DEF DirSized, Gains
    <2> QED BY <2>5, <2>7, <2>8 DEF DirSized
  <1>10. \A d \in D : DirSized(u, d, clean)
    <2>1. \A d \in D \ {n} : DirSized(u, d, clean)
      BY <1>1, <1>5, DirSizedSame DEF Stored
    <2> QED BY <2>1, <1>9
  <1>11. \A f \in F : FileSized(u, f)
    <2>1. \A f \in F : Area(u, f) = Area(s, f) BY <1>1 DEF Stored
    <2> QED BY <2>1 DEF Stored, FileSized
  <1> QED BY <1>1, <1>2, <1>5, <1>8, <1>10, <1>11 DEF Stored, Lists

(* Directory n gains a block b, which holds entry e and nothing else.      *)
GetsBlock(s, u, D, n, b, e) ==
    /\ \A d \in D : \A i \in 1 .. Len(Area(s, d).i_block) : Area(s, d).i_block[i] # b
    /\ Area(u, n).i_block = Append(Area(s, n).i_block, b)
    /\ \A k \in Inodes \ {n} : Area(u, k) = Area(s, k)
    /\ \A k \in Slots : u.data[b][k] = IF k = 0 THEN e ELSE Empty
    /\ \A c \in Blocks \ {b} : u.data[c] = s.data[c]

\* The entry of the new block is the only one the directory gains.
LEMMA BlockAdded ==
  ASSUME NEW s \in FileSystems, NEW u, NEW D \in SUBSET Inodes, NEW n \in D,
         NEW b \in Blocks, NEW e, e.inode # 0, GetsBlock(s, u, D, n, b, e)
  PROVE  /\ Gains(s, u, n, <<Len(Area(s, n).i_block) + 1, 0>>, e)
         /\ \A d \in D \ {n} : SameEntries(s, u, d)
  <1> USE DEF GetsBlock
  <1> DEFINE blk == Area(s, n).i_block
             last == Len(blk)
             p == <<last + 1, 0>>
  <1>1. n \in Inodes /\ D \subseteq Inodes OBVIOUS
  <1>2. blk \in Seq(Blocks) /\ last \in Nat BY <1>1, AreaType
  <1>3. /\ Len(Area(u, n).i_block) = last + 1
        /\ \A i \in 1 .. last : Area(u, n).i_block[i] = blk[i]
        /\ Area(u, n).i_block[last + 1] = b
    BY <1>2
  <1>5. ASSUME NEW d \in D, NEW i \in 1 .. Len(Area(s, d).i_block)
        PROVE  u.data[Area(s, d).i_block[i]] = s.data[Area(s, d).i_block[i]]
    <2>1. Area(s, d).i_block[i] # b /\ Area(s, d).i_block[i] \in Blocks
      BY <1>1, BlockAtType
    <2> QED BY <2>1
  <1>6. \A d \in D \ {n} : SameEntries(s, u, d) BY <1>1, <1>5, EntriesSame
  <1>7. Positions(u, n) = Positions(s, n) \cup ({last + 1} \X Slots)
    BY <1>2, <1>3 DEF Positions
  <1>8. ASSUME NEW q \in Positions(s, n)
        PROVE  q # p /\ EntryAt(u, n, q) = EntryAt(s, n, q)
    <2>1. q[1] \in 1 .. last BY DEF Positions
    <2>2. q # p BY <2>1, <1>2
    <2>3. Area(u, n).i_block[q[1]] = blk[q[1]] /\ u.data[blk[q[1]]] = s.data[blk[q[1]]]
      BY <2>1, <1>3, <1>5
    <2> QED BY <2>2, <2>3 DEF EntryAt, BlockAt
  <1>9. ASSUME NEW q \in {last + 1} \X Slots
        PROVE  /\ EntryAt(u, n, q) = IF q = p THEN e ELSE Empty
               /\ q \notin Positions(s, n)
    <2>1. q[1] = last + 1 /\ q[2] \in Slots /\ q = <<q[1], q[2]>> OBVIOUS
    <2>2. EntryAt(u, n, q) = u.data[b][q[2]] BY <2>1, <1>3 DEF EntryAt, BlockAt
    <2>3. q = p <=> q[2] = 0 BY <2>1
    <2>4. last + 1 \notin 1 .. last BY <1>2
    <2>5. q \notin Positions(s, n) BY <2>1, <2>4 DEF Positions
    <2> HIDE DEF p, last
    <2> QED BY <2>1, <2>2, <2>3, <2>5
  <1>10. p \in {last + 1} \X Slots BY ConstantFacts
  <1> HIDE DEF p
  <1>11. Used(u, n) = Used(s, n) \cup {p}
    <2>1. Empty.inode = 0 BY DEF Empty
    <2>2. \A q \in Positions(s, n) : q \in Used(u, n) <=> q \in Used(s, n)
      BY <1>7, <1>8 DEF Used
    <2>3. \A q \in {last + 1} \X Slots : q \in Used(u, n) <=> q = p
      BY <2>1, <1>7, <1>9 DEF Used
    <2>4. Used(u, n) \subseteq Positions(u, n) /\ Used(s, n) \subseteq Positions(s, n)
      BY DEF Used
    <2> HIDE DEF last
    <2> QED BY <2>2, <2>3, <2>4, <1>7, <1>10
  <1>12. Gains(s, u, n, p, e)
    <2>1. \A q \in Used(s, n) : q \in Positions(s, n) BY DEF Used
    <2> QED BY <2>1, <1>8, <1>9, <1>10, <1>11 DEF Gains
  <1> QED BY <1>6, <1>12 DEF p

(* Every block is full and one more is added, with the entry in its first slot. *)
LEMMA StoredAppend ==
  ASSUME NEW s \in FileSystems, NEW u \in FileSystems, NEW D, NEW F, NEW clean,
         Stored(s, D, F, Lists(s), clean), NEW n \in D,
         NEW e, e.inode # 0, NEW b \in Blocks, b \notin s.block_bitmap,
         Area(u, n).i_block = Append(Area(s, n).i_block, b),
         Area(u, n).i_size = Area(s, n).i_size + 1,
         \A k \in Inodes \ {n} : Area(u, k) = Area(s, k),
         u.block_bitmap = s.block_bitmap \cup {b},
         u.bg_free_blocks_count = s.bg_free_blocks_count - 1,
         u.data = [s.data EXCEPT ![b] = [k \in Slots |-> IF k = 0 THEN e ELSE Empty]],
         ~ Partial(s, n), HasRoom(s, n)
  PROVE  /\ \E p : Gains(s, u, n, p, e)
         /\ \A d \in D \ {n} : SameEntries(s, u, d)
         /\ Stored(u, D, F, Lists(u), clean)
  <1> DEFINE blk == Area(s, n).i_block
             last == Len(blk)
             p == <<last + 1, 0>>
  <1>1. n \in Inodes /\ D \subseteq Inodes /\ F \subseteq Inodes BY DEF Stored
  <1>2. blk \in Seq(Blocks) /\ last \in Nat BY <1>1, AreaType
  <1>3. /\ Len(Area(u, n).i_block) = last + 1
        /\ \A i \in 1 .. last : Area(u, n).i_block[i] = blk[i]
        /\ Area(u, n).i_block[last + 1] = b
    BY <1>2
  <1>6. /\ Gains(s, u, n, p, e)
        /\ \A d \in D \ {n} : SameEntries(s, u, d)
    <2>1. \A d \in D : \A i \in 1 .. Len(Area(s, d).i_block) : Area(s, d).i_block[i] # b
      BY BlocksApart
    <2>2. D \in SUBSET Inodes BY <1>1
    <2>3. /\ Gains(s, u, n, <<Len(Area(s, n).i_block) + 1, 0>>, e)
          /\ \A d \in D \ {n} : SameEntries(s, u, d)
      <3>1. GetsBlock(s, u, D, n, b, e)
        BY <2>1 DEF GetsBlock, FileSystems
      <3> QED BY <2>2, <3>1, BlockAdded
    <2> QED BY <2>3
  <1> HIDE DEF p
  <1>11. Used(u, n) = Used(s, n) \cup {p} BY <1>6 DEF Gains
  <1>12. Gains(s, u, n, p, e) BY <1>6
  <1>13. DirSized(u, n, clean)
    <2>1. DirSized(s, n, clean) BY DEF Stored
    <2>2. /\ IsFiniteSet(Used(s, n)) /\ Cardinality(Used(s, n)) \in Nat
      BY <1>1, PositionsFinite
    <2>3. Cardinality(Used(u, n)) = Cardinality(Used(s, n)) + 1
      BY <2>2, <1>12, FS_AddElement DEF Gains
    <2>4. Area(s, n).i_size = last * EntriesPerBlock BY DEF Partial
    <2>5. (last + 1) * EntriesPerBlock = last * EntriesPerBlock + EntriesPerBlock
      BY <1>2, ConstantFacts
    <2>6. last * EntriesPerBlock \in Int BY <1>2, ConstantFacts
    <2>7. EntriesPerBlock >= 2 /\ EntriesPerBlock \in Nat BY SizesAssumption
    <2>8. /\ Area(u, n).i_size <= (last + 1) * EntriesPerBlock
          /\ Area(s, n).i_size \in Int
      BY <2>4, <2>5, <2>6, <2>7
    <2>9. /\ Cardinality(Used(u, n)) <= Area(u, n).i_size
          /\ clean => Cardinality(Used(u, n)) = Area(u, n).i_size
      BY <2>1, <2>2, <2>3, <2>8 DEF DirSized
    <2>10. last + 1 > 1 => \E k \in Slots : <<2, k>> \in Used(u, n)
      <3>1. CASE last = 1
        <4>1. p = <<2, 0>> BY <3>1 DEF p
        <4> QED BY <4>1, <1>11, ConstantFacts
      <3>2. CASE last > 1
        <4>1. \E k \in Slots : <<2, k>> \in Used(s, n) BY <2>1, <3>2 DEF DirSized
        <4> QED BY <4>1, <1>11
      <3>3. last \in Nat BY <1>2
      <3> HIDE DEF last
      <3> QED BY <3>1, <3>2, <3>3
    <2> HIDE DEF last
    <2> QED BY <2>8, <2>9, <2>10, <1>3 DEF DirSized
  <1>14. \A d \in D : DirSized(u, d, clean)
    <2>1. \A d \in D \ {n} : DirSized(u, d, clean)
      BY <1>1, <1>6, DirSizedSame DEF Stored
    <2> QED BY <2>1, <1>13
  <1>15. \A f \in F : FileSized(u, f)
    <2>1. \A f \in F : Area(u, f) = Area(s, f) BY <1>1 DEF Stored
    <2> QED BY <2>1 DEF Stored, FileSized
  <1>16. last < MaxBlocks
    <2>1. last <= MaxBlocks
      <3>1. Lists(s)[n] = blk BY <1>1 DEF Lists
      <3> QED BY <3>1 DEF Stored, Owned
    <2>2. last # MaxBlocks BY DEF Partial, HasRoom, MaxSize
    <2> QED BY <2>1, <2>2, <1>2, ConstantFacts
  <1>17. /\ Owned(u.block_bitmap, u.bg_free_blocks_count, D \cup F, Lists(u))
         /\ clean => Exact(u.block_bitmap, D \cup F, Lists(u))
    <2>1. /\ Lists(s)[n] = blk /\ Lists(u)[n] = Append(Lists(s)[n], b)
          /\ \A k \in Inodes \ {n} : Lists(u)[k] = Lists(s)[k]
      BY <1>1 DEF Lists
    <2>2. Len(Lists(s)[n]) < MaxBlocks BY <2>1, <1>16
    <2>3. \A k \in (D \cup F) \ {n} : Lists(u)[k] = Lists(s)[k] BY <2>1, <1>1
    <2> HIDE DEF blk, last
    <2>4. /\ Owned(s.block_bitmap, s.bg_free_blocks_count, D \cup F, Lists(s))
          /\ clean => Exact(s.block_bitmap, D \cup F, Lists(s))
      BY DEF Stored
    <2>5. n \in D \cup F OBVIOUS
    <2>6. /\ Owned(s.block_bitmap \cup {b}, s.bg_free_blocks_count - 1, D \cup F, Lists(u))
          /\ Exact(s.block_bitmap, D \cup F, Lists(s))
                => Exact(s.block_bitmap \cup {b}, D \cup F, Lists(u))
      BY <2>1, <2>2, <2>3, <2>4, <2>5, OwnedTake
    <2> QED BY <2>4, <2>6
  <1>18. \A d \in D : Lists(u)[d] = Area(u, d).i_block BY <1>1 DEF Lists
  <1>19. D \cap F = {} BY DEF Stored
  <1> QED BY <1>1, <1>6, <1>12, <1>14, <1>15, <1>17, <1>18, <1>19 DEF Stored

(* dir_prepare for a file: an inode without blocks joins. *)
LEMMA StoredNewFile ==
  ASSUME NEW u \in FileSystems, NEW t \in FileSystems, NEW D, NEW F, NEW clean,
         Stored(u, D, F, Lists(u), clean), NEW m \in Inodes \ (D \cup F),
         Area(t, m).i_block = <<>>,
         \A k \in Inodes \ {m} : Area(t, k) = Area(u, k),
         t.data = u.data, t.block_bitmap = u.block_bitmap,
         t.bg_free_blocks_count = u.bg_free_blocks_count
  PROVE  /\ \A d \in D : SameEntries(u, t, d)
         /\ Stored(t, D, F \cup {m}, Lists(t), clean)
  <1>1. /\ D \subseteq Inodes /\ F \subseteq Inodes /\ D \cap F = {}
        /\ \A k \in D \cup F : k \in Inodes \ {m}
    BY DEF Stored
  <1>2. \A k \in D \cup F : Area(t, k) = Area(u, k) BY <1>1
  <1>3. \A d \in D : SameEntries(u, t, d) BY <1>2, EntriesSame
  <1>4. \A d \in D : DirSized(t, d, clean) BY <1>2, <1>3, DirSizedSame DEF Stored
  <1>5. \A f \in F \cup {m} : FileSized(t, f) BY <1>2 DEF Stored, FileSized
  <1>6. /\ Owned(t.block_bitmap, t.bg_free_blocks_count, (D \cup F) \cup {m}, Lists(t))
        /\ clean => Exact(t.block_bitmap, (D \cup F) \cup {m}, Lists(t))
    <2>1. Lists(t)[m] = <<>> /\ \A k \in D \cup F : Lists(t)[k] = Lists(u)[k]
      BY <1>1, <1>2 DEF Lists
    <2>2. /\ Owned(t.block_bitmap, t.bg_free_blocks_count, D \cup F, Lists(u))
          /\ clean => Exact(t.block_bitmap, D \cup F, Lists(u))
      BY DEF Stored
    <2> QED BY <2>1, <2>2, OwnedJoin
  <1>7. (D \cup F) \cup {m} = D \cup (F \cup {m}) OBVIOUS
  <1>8. \A d \in D : Lists(t)[d] = Area(t, d).i_block BY <1>1 DEF Lists
  <1> QED BY <1>1, <1>3, <1>4, <1>5, <1>6, <1>7, <1>8 DEF Stored

(* A new directory has its two dots, and nothing else. *)
LEMMA DotsMade ==
  ASSUME NEW t, NEW m \in Inodes, NEW n \in Inodes, NEW b,
         Area(t, m).i_block = <<b>>, t.data[b] = NewDirectory(m, n)
  PROVE  /\ Used(t, m) = Dots
         /\ EntryAt(t, m, <<1, 0>>) = NewEntry(m, DIR, ".")
         /\ EntryAt(t, m, <<1, 1>>) = NewEntry(n, DIR, "..")
         /\ Cardinality(Dots) = 2
  <1>1. Positions(t, m) = {1} \X Slots
    <2>1. Len(<<b>>) = 1 OBVIOUS
    <2>2. 1 .. 1 = {1} OBVIOUS
    <2> QED BY <2>1, <2>2 DEF Positions
  <1>2. ASSUME NEW k \in Slots PROVE EntryAt(t, m, <<1, k>>) = NewDirectory(m, n)[k]
    <2>1. Area(t, m).i_block[1] = b BY DEF Area
    <2> QED BY <2>1 DEF EntryAt, BlockAt
  <1>3. /\ EntryAt(t, m, <<1, 0>>) = NewEntry(m, DIR, ".")
        /\ EntryAt(t, m, <<1, 1>>) = NewEntry(n, DIR, "..")
        /\ \A k \in Slots \ {0, 1} : EntryAt(t, m, <<1, k>>) = Empty
    BY <1>2, ConstantFacts DEF NewDirectory, NewEntry
  <1>4. Used(t, m) = Dots
    <2>1. m # 0 /\ n # 0 /\ Empty.inode = 0 BY DEF Inodes, Empty
    <2>2. ASSUME NEW k \in Slots
          PROVE  EntryAt(t, m, <<1, k>>).inode # 0 <=> k \in {0, 1}
      BY <2>1, <1>3, <2>2 DEF NewEntry
    <2>3. \A p \in {1} \X Slots : \E k \in Slots : p = <<1, k>> OBVIOUS
    <2>4. \A k \in Slots : <<1, k>> \in {1} \X Slots OBVIOUS
    <2>5. \A k \in Slots : <<1, k>> \in Dots <=> k \in {0, 1} BY DEF Dots
    <2>6. \A p \in Dots : \E k \in Slots : p = <<1, k>> BY ConstantFacts DEF Dots
    <2>7. \A p : p \in Used(t, m) <=> p \in {1} \X Slots /\ EntryAt(t, m, p).inode # 0
      BY <1>1 DEF Used
    <2>8. ASSUME NEW p PROVE p \in Used(t, m) <=> p \in Dots
      BY <2>2, <2>3, <2>4, <2>5, <2>6, <2>7
    <2> QED BY <2>8
  <1>5. Cardinality(Dots) = 2
    <2>1. <<1, 0>> # <<1, 1>> /\ Dots = {<<1, 0>>} \cup {<<1, 1>>} BY DEF Dots
    <2>2. IsFiniteSet({<<1, 0>>}) /\ Cardinality({<<1, 0>>}) = 1 BY FS_Singleton
    <2>3. Cardinality({<<1, 0>>} \cup {<<1, 1>>}) = Cardinality({<<1, 0>>}) + 1
      BY <2>1, <2>2, FS_AddElement
    <2> QED BY <2>1, <2>2, <2>3
  <1> QED BY <1>3, <1>4, <1>5

(* dir_prepare for a directory: an inode with one block that holds the dots. *)
LEMMA StoredNewDir ==
  ASSUME NEW u \in FileSystems, NEW t \in FileSystems, NEW D, NEW F, NEW clean,
         Stored(u, D, F, Lists(u), clean), NEW m \in Inodes \ (D \cup F),
         NEW n \in Inodes, NEW b \in Blocks, b \notin u.block_bitmap,
         Area(t, m).i_block = <<b>>, Area(t, m).i_size = 2,
         \A k \in Inodes \ {m} : Area(t, k) = Area(u, k),
         t.data = [u.data EXCEPT ![b] = NewDirectory(m, n)],
         t.block_bitmap = u.block_bitmap \cup {b},
         t.bg_free_blocks_count = u.bg_free_blocks_count - 1
  PROVE  /\ \A d \in D : SameEntries(u, t, d)
         /\ Used(t, m) = Dots
         /\ EntryAt(t, m, <<1, 0>>) = NewEntry(m, DIR, ".")
         /\ EntryAt(t, m, <<1, 1>>) = NewEntry(n, DIR, "..")
         /\ Stored(t, D \cup {m}, F, Lists(t), clean)
  <1>1. /\ D \subseteq Inodes /\ F \subseteq Inodes /\ D \cap F = {}
        /\ \A k \in D \cup F : k \in Inodes \ {m}
    BY DEF Stored
  <1>2. \A k \in D \cup F : Area(t, k) = Area(u, k) BY <1>1
  <1>3. /\ u.data \in [Blocks -> [Slots -> Entries]]
        /\ t.data[b] = NewDirectory(m, n)
        /\ \A c \in Blocks \ {b} : t.data[c] = u.data[c]
    BY DEF FileSystems
  <1>4. ASSUME NEW d \in D PROVE SameEntries(u, t, d)
    <2>1. \A i \in 1 .. Len(Area(u, d).i_block) :
              t.data[Area(u, d).i_block[i]] = u.data[Area(u, d).i_block[i]]
      BY <1>3, BlocksApart
    <2> QED BY <2>1, <1>2, EntriesSame
  <1>5. /\ Used(t, m) = Dots
        /\ EntryAt(t, m, <<1, 0>>) = NewEntry(m, DIR, ".")
        /\ EntryAt(t, m, <<1, 1>>) = NewEntry(n, DIR, "..")
        /\ Cardinality(Dots) = 2
    BY <1>3, DotsMade
  <1>9. DirSized(t, m, clean)
    <2>2. Len(Area(t, m).i_block) = 1 OBVIOUS
    <2>3. 2 <= 1 * EntriesPerBlock /\ ~ (1 > 1) BY SizesAssumption
    <2> QED BY <1>5, <2>2, <2>3 DEF DirSized
  <1>10. \A d \in D \cup {m} : DirSized(t, d, clean)
    <2>1. \A d \in D : DirSized(t, d, clean) BY <1>2, <1>4, DirSizedSame DEF Stored
    <2> QED BY <2>1, <1>9
  <1>11. \A f \in F : FileSized(t, f) BY <1>2 DEF Stored, FileSized
  <1>12. /\ Owned(t.block_bitmap, t.bg_free_blocks_count, (D \cup F) \cup {m}, Lists(t))
         /\ clean => Exact(t.block_bitmap, (D \cup F) \cup {m}, Lists(t))
    <2> DEFINE k == [j \in Inodes |-> IF j = m THEN <<>> ELSE Area(u, j).i_block]
    <2>1. k[m] = <<>> /\ \A j \in D \cup F : k[j] = Lists(u)[j]
      BY <1>1 DEF Lists
    <2>2. /\ Lists(t)[m] = Append(k[m], b)
          /\ \A j \in ((D \cup F) \cup {m}) \ {m} : Lists(t)[j] = k[j]
      <3>1. Append(<<>>, b) = <<b>> OBVIOUS
      <3> QED BY <3>1, <1>1 DEF Lists
    <2>3. Len(k[m]) < MaxBlocks BY <2>1, SizesAssumption
    <2> HIDE DEF k
    <2>4. /\ Owned(u.block_bitmap, u.bg_free_blocks_count, D \cup F, Lists(u))
          /\ clean => Exact(u.block_bitmap, D \cup F, Lists(u))
      BY DEF Stored
    <2>5. /\ Owned(u.block_bitmap, u.bg_free_blocks_count, (D \cup F) \cup {m}, k)
          /\ clean => Exact(u.block_bitmap, (D \cup F) \cup {m}, k)
      <3>1. m \notin D \cup F OBVIOUS
      <3> HIDE DEF Lists
      <3>2. Owned(u.block_bitmap, u.bg_free_blocks_count, D \cup F, Lists(u)) BY <2>4
      <3>3. /\ Owned(u.block_bitmap, u.bg_free_blocks_count, (D \cup F) \cup {m}, k)
            /\ Exact(u.block_bitmap, D \cup F, Lists(u))
                  => Exact(u.block_bitmap, (D \cup F) \cup {m}, k)
        BY <3>1, <3>2, <2>1, OwnedJoin, Zenon
      <3> QED BY <3>3, <2>4
    <2>6. m \in (D \cup F) \cup {m} OBVIOUS
    <2>7. /\ Owned(u.block_bitmap \cup {b}, u.bg_free_blocks_count - 1,
                   (D \cup F) \cup {m}, Lists(t))
          /\ Exact(u.block_bitmap, (D \cup F) \cup {m}, k)
                => Exact(u.block_bitmap \cup {b}, (D \cup F) \cup {m}, Lists(t))
      BY <2>2, <2>3, <2>5, <2>6, OwnedTake
    <2> QED BY <2>5, <2>7
  <1>13. (D \cup F) \cup {m} = (D \cup {m}) \cup F /\ (D \cup {m}) \cap F = {} BY <1>1
  <1>14. \A d \in D \cup {m} : Lists(t)[d] = Area(t, d).i_block BY <1>1 DEF Lists
  <1> QED BY <1>1, <1>4, <1>5, <1>10, <1>11, <1>12, <1>13, <1>14 DEF Stored

(* The entry of child c is cleared, and its blocks are given back. *)
Cleared(s, t, D, F, n, p, c, clean) ==
    /\ Loses(s, t, n, p)
    /\ \A d \in D \ {n} : SameEntries(s, t, d)
    /\ Stored(t, D \ {c}, F \ {c}, Lists(t), clean)

(* Stored survives when an inode and its blocks leave the tree with their  *)
(* entry.                                                                  *)
LEMMA StoredRemove ==
  ASSUME NEW s \in FileSystems, NEW t \in FileSystems, NEW D, NEW F,
         NEW clean, NEW c2 \in BOOLEAN,
         Stored(s, D, F, Lists(s), clean), NEW n \in D,
         NEW p \in Used(s, n), NEW c \in (D \cup F) \ {n},
         Area(t, n).i_block = Area(s, n).i_block,
         \/ Area(t, n).i_size = Area(s, n).i_size - 1 /\ (c2 => clean)
         \/ Area(t, n).i_size = Area(s, n).i_size /\ ~c2,
         Len(Area(s, n).i_block) > 1 => \E k \in Slots : <<2, k>> \in Used(s, n) \ {p},
         \A k \in Inodes \ {n} : Area(t, k) = Area(s, k),
         t.block_bitmap = s.block_bitmap \ BlocksOf(Area(s, c)),
         t.bg_free_blocks_count = s.bg_free_blocks_count + Len(Area(s, c).i_block),
         t.data = [s.data EXCEPT ![Area(s, n).i_block[p[1]]] =
                       [BlockAt(s, n, p[1]) EXCEPT ![p[2]] = Empty]]
  PROVE  Cleared(s, t, D, F, n, p, c, c2)
  <1> DEFINE blk == Area(s, n).i_block
  <1>1. n \in Inodes /\ D \subseteq Inodes /\ F \subseteq Inodes /\ D \cap F = {}
    BY DEF Stored
  <1>2. \A k \in Inodes : Area(t, k).i_block = Area(s, k).i_block
    BY <1>1
  <1>3. p \in Positions(s, n) BY DEF Used
  <1>4. blk \in Seq(Blocks) BY <1>1, AreaType
  <1>5. /\ Positions(t, n) = Positions(s, n)
        /\ \A q \in Positions(s, n) :
              EntryAt(t, n, q) = IF q = p THEN Empty ELSE EntryAt(s, n, q)
        /\ \A d \in D \ {n} : SameEntries(s, t, d)
    <2>1. OneSlot(s, t, D, n, p, Empty) BY <1>2, <1>3, SlotWritten
    <2> QED BY <2>1 DEF OneSlot
  <1>6. \A d \in D \ {n} : SameEntries(s, t, d) BY <1>5
  <1>9. Loses(s, t, n, p)
    <2>1. Empty.inode = 0 BY DEF Empty
    <2> QED BY <2>1, <1>5 DEF Loses, Used
  <1>10. DirSized(t, n, c2)
    <2>1. DirSized(s, n, clean) BY DEF Stored
    <2>2. IsFiniteSet(Used(s, n)) /\ Cardinality(Used(s, n)) \in Nat
      BY <1>1, PositionsFinite
    <2>3. Cardinality(Used(t, n)) = Cardinality(Used(s, n)) - 1
      <3>1. p \in Used(s, n) /\ Used(t, n) = Used(s, n) \ {p} BY <1>9 DEF Loses
      <3>2. Cardinality(Used(s, n) \ {p})
               = IF p \in Used(s, n) THEN Cardinality(Used(s, n)) - 1
                                      ELSE Cardinality(Used(s, n))
        BY <2>2, FS_RemoveElement
      <3> QED BY <3>1, <3>2
    <2>4. Area(s, n).i_size \in Int /\ Len(blk) * EntriesPerBlock \in Int
      BY <1>1, <1>4, AreaType, ConstantFacts
    <2>5. /\ Cardinality(Used(s, n)) <= Area(s, n).i_size
          /\ clean => Cardinality(Used(s, n)) = Area(s, n).i_size
          /\ Area(s, n).i_size <= Len(blk) * EntriesPerBlock
      BY <2>1 DEF DirSized
    <2>6. /\ Cardinality(Used(t, n)) <= Area(t, n).i_size
          /\ c2 => Cardinality(Used(t, n)) = Area(t, n).i_size
          /\ Area(t, n).i_size <= Len(blk) * EntriesPerBlock
      BY <2>2, <2>3, <2>4, <2>5
    <2>7. Len(blk) > 1 => \E k \in Slots : <<2, k>> \in Used(t, n) BY <1>9 DEF Loses
    <2> QED BY <2>6, <2>7 DEF DirSized
  <1>11. ASSUME NEW d \in D PROVE DirSized(t, d, c2)
    <2>1. CASE d = n BY <2>1, <1>10
    <2>2. CASE d # n
      <3>1. DirSized(s, d, c2) BY DEF Stored, DirSized
      <3> QED BY <3>1, <2>2, <1>1, <1>6, DirSizedSame
    <2> QED BY <2>1, <2>2
  <1>12. \A f \in F : FileSized(t, f)
    <2>1. \A f \in F : Area(t, f) = Area(s, f) BY <1>1
    <2> QED BY <2>1 DEF Stored, FileSized
  <1>13. /\ Owned(t.block_bitmap, t.bg_free_blocks_count, (D \cup F) \ {c}, Lists(t))
         /\ c2 => Exact(t.block_bitmap, (D \cup F) \ {c}, Lists(t))
    <2>1. Lists(t) = Lists(s) BY <1>2 DEF Lists
    <2>2. c \in Inodes /\ Lists(s)[c] = Area(s, c).i_block BY <1>1 DEF Lists
    <2>3. BlocksOf(Area(s, c)) = {Lists(s)[c][i] : i \in 1 .. Len(Lists(s)[c])}
      BY <2>2 DEF BlocksOf
    <2>4. /\ Owned(s.block_bitmap, s.bg_free_blocks_count, D \cup F, Lists(s))
          /\ c2 => Exact(s.block_bitmap, D \cup F, Lists(s))
      BY DEF Stored
    <2>5. c \in D \cup F /\ \A k \in (D \cup F) \ {c} : Lists(t)[k] = Lists(s)[k]
      BY <2>1
    <2> DEFINE R == BlocksOf(Area(s, c))
    <2>6. R = {Lists(s)[c][i] : i \in 1 .. Len(Lists(s)[c])} BY <2>3
    <2> HIDE DEF R
    <2>7. /\ Owned(s.block_bitmap \ R, s.bg_free_blocks_count + Len(Lists(s)[c]),
                   (D \cup F) \ {c}, Lists(t))
          /\ Exact(s.block_bitmap, D \cup F, Lists(s))
                => Exact(s.block_bitmap \ R, (D \cup F) \ {c}, Lists(t))
      BY <2>4, <2>5, <2>6, OwnedLeave
    <2> QED BY <2>2, <2>4, <2>7 DEF R
  <1>14. (D \cup F) \ {c} = (D \ {c}) \cup (F \ {c}) OBVIOUS
  <1>15. \A d \in D \ {c} : Lists(t)[d] = Area(t, d).i_block BY <1>1 DEF Lists
  <1> QED BY <1>1, <1>6, <1>9, <1>11, <1>12, <1>13, <1>14, <1>15 DEF Stored, Cleared
-----------------------------------------------------------------------------
(* What the operators return when no fault is recorded.                    *)

Calm(s) == s.faults \subseteq {"killed"}

(* alloc_block without a fault marks one clear block and counts it.        *)
LEMMA AllocCalm ==
  ASSUME NEW s \in FileSystems, NEW t, t = alloc_block(s), Calm(t),
         NEW b, b = next_block(s)
  PROVE  /\ Calm(s)
         /\ b \in Blocks /\ b \notin s.block_bitmap
         /\ t \in FileSystems
         /\ t.block_bitmap = s.block_bitmap \cup {b}
         /\ t.bg_free_blocks_count = s.bg_free_blocks_count - 1
         /\ t.inode_bitmap = s.inode_bitmap
         /\ t.inode_table = s.inode_table
         /\ t.data = s.data
         /\ t.faults = s.faults
  <1>1. s.bg_free_blocks_count # 0 /\ s.block_bitmap # Blocks
    BY DEF alloc_block, fault, Calm, FileSystems
  <1>2. b \in Blocks /\ b \notin s.block_bitmap BY <1>1, NextBlockType
  <1>3. t = [s EXCEPT !.block_bitmap = @ \cup {b},
                      !.last_alloc_block = b,
                      !.bg_free_blocks_count = @ - 1]
    BY <1>1 DEF alloc_block
  <1>4. t \in FileSystems BY AllocBlockType
  <1> QED BY <1>2, <1>3, <1>4 DEF FileSystems, Calm

(* get_inode without a fault marks one clear inode.                        *)
LEMMA InodeCalm ==
  ASSUME NEW s \in FileSystems, NEW t, t = get_inode(s), Calm(t),
         NEW m, m = next_inode(s)
  PROVE  /\ Calm(s)
         /\ m \in Inodes /\ m \notin s.inode_bitmap
         /\ t \in FileSystems
         /\ t.inode_bitmap = s.inode_bitmap \cup {m}
         /\ t.block_bitmap = s.block_bitmap
         /\ t.bg_free_blocks_count = s.bg_free_blocks_count
         /\ t.inode_table = s.inode_table
         /\ t.data = s.data
         /\ t.faults = s.faults
  <1>1. m # 0 BY DEF get_inode, fault, Calm, FileSystems
  <1>2. m \in Inodes /\ m \notin s.inode_bitmap BY <1>1, NextInodeType
  <1>3. t = [s EXCEPT !.inode_bitmap = @ \cup {m},
                      !.last_alloc_inode = m,
                      !.bg_free_inodes_count = @ - 1]
    BY <1>1 DEF get_inode
  <1>4. t \in FileSystems BY GetInodeType
  <1> QED BY <1>2, <1>3, <1>4 DEF FileSystems, Calm

(* The times a search writes go to the entries it passed; without a fault  *)
(* nothing the model keeps changes.                                        *)
LEMMA StampCalm ==
  ASSUME NEW s \in FileSystems, NEW content, NEW slots, Calm(stamp(s, content, slots))
  PROVE  /\ stamp(s, content, slots) = s
         /\ Calm(s)
         /\ \A k \in slots : content[k].inode # 0
BY DEF stamp, fault, Calm, FileSystems

(* An inode other than 0 is written to the table. *)
LEMMA UpdateInodeResult ==
  ASSUME NEW s \in FileSystems, NEW n \in Inodes, NEW area \in InodeRecords,
         NEW t, t = update_inode_entry(s, n, area)
  PROVE  /\ t \in FileSystems
         /\ Area(t, n) = area
         /\ \A k \in Inodes \ {n} : Area(t, k) = Area(s, k)
         /\ t.inode_bitmap = s.inode_bitmap
         /\ t.block_bitmap = s.block_bitmap
         /\ t.bg_free_blocks_count = s.bg_free_blocks_count
         /\ t.data = s.data
         /\ t.faults = s.faults
  <1>1. n # 0 /\ n \in 0 .. InodeCount BY SizesAssumption DEF Inodes
  <1>2. t = [s EXCEPT !.inode_table[n] = area] BY <1>1 DEF update_inode_entry
  <1>3. t \in FileSystems BY <1>1, UpdateInodeType
  <1> QED BY <1>2, <1>3 DEF FileSystems, Area

(* update_dir writes one block and no inode.                               *)
LEMMA UpdateDirResult ==
  ASSUME NEW s \in FileSystems, NEW b \in Blocks, NEW content \in [Slots -> Entries],
         NEW t, t = update_dir(s, b, content)
  PROVE  /\ t \in FileSystems
         /\ t.data = [s.data EXCEPT ![b] = content]
         /\ t.inode_table = s.inode_table
         /\ t.inode_bitmap = s.inode_bitmap
         /\ t.block_bitmap = s.block_bitmap
         /\ t.bg_free_blocks_count = s.bg_free_blocks_count
         /\ t.faults = s.faults
BY UpdateDirType DEF update_dir, FileSystems

NewFile(u, t, m) ==
    /\ t \in FileSystems
    /\ t.inode_bitmap = u.inode_bitmap
    /\ Area(t, m).i_block = <<>> /\ Area(t, m).i_size = 0
    /\ \A k \in Inodes \ {m} : Area(t, k) = Area(u, k)
    /\ t.data = u.data
    /\ t.block_bitmap = u.block_bitmap
    /\ t.bg_free_blocks_count = u.bg_free_blocks_count

(* dir_prepare for a file: an inode with no block.                         *)
LEMMA NewFileResult ==
  ASSUME NEW u \in FileSystems, NEW m \in Inodes, NEW n \in Inodes,
         NEW t, t = dir_prepare(u, m, FILE, n)
  PROVE  NewFile(u, t, m)
  <1> DEFINE area == [i_mode |-> ModeBits, i_size |-> 0, i_block |-> <<>>]
  <1>1. area \in InodeRecords BY DEF InodeRecords
  <1>2. t = update_inode_entry(u, m, area) BY DEF dir_prepare, FILE, DIR
  <1>3. area.i_block = <<>> /\ area.i_size = 0 OBVIOUS
  <1> HIDE DEF area
  <1> QED BY <1>1, <1>2, <1>3, UpdateInodeResult DEF NewFile

(* dir_prepare for a directory: one block with "." and "..".               *)
LEMMA NewDirResult ==
  ASSUME NEW u \in FileSystems, NEW m \in Inodes, NEW n \in Inodes,
         NEW t, t = dir_prepare(u, m, DIR, n), Calm(t),
         NEW b, b = next_block(u)
  PROVE  /\ t \in FileSystems
         /\ Calm(u)
         /\ t.inode_bitmap = u.inode_bitmap
         /\ b \in Blocks /\ b \notin u.block_bitmap
         /\ Area(t, m).i_block = <<b>> /\ Area(t, m).i_size = 2
         /\ \A k \in Inodes \ {m} : Area(t, k) = Area(u, k)
         /\ t.data = [u.data EXCEPT ![b] = NewDirectory(m, n)]
         /\ t.block_bitmap = u.block_bitmap \cup {b}
         /\ t.bg_free_blocks_count = u.bg_free_blocks_count - 1
  <1> DEFINE area == [i_mode |-> {"r", "w"}, i_size |-> 2, i_block |-> <<b>>]
             u1 == alloc_block(u)
             u2 == update_dir(u1, b, NewDirectory(m, n))
  <1>1. b \in Blocks BY NextBlockType
  <1>2. area \in InodeRecords BY <1>1 DEF InodeRecords, ModeBits
  <1>3. t = update_inode_entry(u2, m, area) BY DEF dir_prepare
  <1>4. area.i_block = <<b>> /\ area.i_size = 2 OBVIOUS
  <1>5. m \in 0 .. InodeCount BY SizesAssumption DEF Inodes
  <1>6. NewDirectory(m, n) \in [Slots -> Entries] BY <1>5, NewDirectoryType
  <1>7. u1 \in FileSystems BY AllocBlockType
  <1> HIDE DEF area
  <1>8. /\ u2 \in FileSystems
        /\ u2.data = [u1.data EXCEPT ![b] = NewDirectory(m, n)]
        /\ u2.inode_table = u1.inode_table
        /\ u2.inode_bitmap = u1.inode_bitmap
        /\ u2.block_bitmap = u1.block_bitmap
        /\ u2.bg_free_blocks_count = u1.bg_free_blocks_count
        /\ u2.faults = u1.faults
    <2> HIDE DEF u1
    <2> QED BY <1>1, <1>6, <1>7, UpdateDirResult
  <1> HIDE DEF u2
  <1>9. /\ t \in FileSystems
        /\ Area(t, m) = area
        /\ \A k \in Inodes \ {m} : Area(t, k) = Area(u2, k)
        /\ t.inode_bitmap = u2.inode_bitmap
        /\ t.block_bitmap = u2.block_bitmap
        /\ t.bg_free_blocks_count = u2.bg_free_blocks_count
        /\ t.data = u2.data
        /\ t.faults = u2.faults
    BY <1>2, <1>3, <1>8, UpdateInodeResult
  <1>10. Calm(u1) BY <1>8, <1>9 DEF Calm
  <1>11. /\ Calm(u)
         /\ b \in Blocks /\ b \notin u.block_bitmap
         /\ u1.block_bitmap = u.block_bitmap \cup {b}
         /\ u1.bg_free_blocks_count = u.bg_free_blocks_count - 1
         /\ u1.inode_bitmap = u.inode_bitmap
         /\ u1.inode_table = u.inode_table
         /\ u1.data = u.data
    BY <1>10, AllocCalm
  <1>12. \A k \in Inodes \ {m} : Area(t, k) = Area(u, k) BY <1>8, <1>9, <1>11 DEF Area
  <1> QED BY <1>4, <1>8, <1>9, <1>11, <1>12

(* A recorded fault stays recorded, whatever inode number is prepared. *)
LEMMA DirPrepareFaults ==
  ASSUME NEW u \in FileSystems, NEW m \in 0 .. InodeCount, NEW type, NEW n \in Inodes,
         Calm(dir_prepare(u, m, type, n))
  PROVE  Calm(u)
  <1>1. u.faults \subseteq alloc_block(u).faults BY DEF alloc_block, fault, FileSystems
  <1>2. ASSUME NEW s \in FileSystems, NEW area \in InodeRecords
        PROVE  update_inode_entry(s, m, area).faults = s.faults
    BY DEF update_inode_entry, FileSystems
  <1>3. CASE type = DIR
    <2> DEFINE b == next_block(u)
               u1 == alloc_block(u)
               u2 == update_dir(u1, b, NewDirectory(m, n))
               area == [i_mode |-> {"r", "w"}, i_size |-> 2, i_block |-> <<b>>]
    <2>1. b \in Blocks BY NextBlockType
    <2>2. area \in InodeRecords BY <2>1 DEF InodeRecords, ModeBits
    <2>3. dir_prepare(u, m, type, n) = update_inode_entry(u2, m, area)
      BY <1>3 DEF dir_prepare
    <2>4. u1 \in FileSystems /\ u.faults \subseteq u1.faults BY <1>1, AllocBlockType
    <2>5. NewDirectory(m, n) \in [Slots -> Entries] BY NewDirectoryType
    <2> HIDE DEF u1, b, area
    <2>6. u2 \in FileSystems /\ u2.faults = u1.faults
      <3>1. u2 = [u1 EXCEPT !.data[b] = NewDirectory(m, n)] BY DEF update_dir
      <3> QED BY <2>1, <2>4, <2>5, <3>1, UpdateDirType DEF FileSystems
    <2> HIDE DEF u2
    <2> QED BY <1>2, <2>2, <2>3, <2>4, <2>6 DEF Calm
  <1>4. CASE type # DIR
    <2> DEFINE area == [i_mode |-> ModeBits, i_size |-> 0, i_block |-> <<>>]
    <2>1. area \in InodeRecords BY DEF InodeRecords
    <2>2. dir_prepare(u, m, type, n) = update_inode_entry(u, m, area)
      BY <1>4 DEF dir_prepare
    <2> HIDE DEF area
    <2> QED BY <1>2, <2>1, <2>2 DEF Calm
  <1> QED BY <1>3, <1>4

(* mkdir and cat when a slot is free: directory n gets the entry at p (u),  *)
(* and then the new inode m is prepared (t).                                *)
Filled(s, u, t, n, p, m, type, name) ==
    /\ m \notin s.inode_bitmap
    /\ t = dir_prepare(u, m, type, n)
    /\ Calm(u)
    /\ u.inode_bitmap = s.inode_bitmap \cup {m}
    /\ Area(u, n).i_block = Area(s, n).i_block
    /\ Area(u, n).i_size = Area(s, n).i_size + 1
    /\ \A k \in Inodes \ {n} : Area(u, k) = Area(s, k)
    /\ u.block_bitmap = s.block_bitmap
    /\ u.bg_free_blocks_count = s.bg_free_blocks_count
    /\ u.data = [s.data EXCEPT ![Area(s, n).i_block[p[1]]] =
                     [BlockAt(s, n, p[1]) EXCEPT ![p[2]] = NewEntry(m, type, name)]]

(* Filling a free slot, without a fault: the entry is in the block it was  *)
(* read from.                                                              *)
LEMMA FillResult ==
  ASSUME NEW s \in FileSystems, NEW n \in Inodes, NEW name \in Arguments,
         NEW type \in {FILE, DIR}, NEW p \in FreeSlot(s, n),
         NEW to \in 1 .. Len(Area(s, n).i_block),
         NEW t, t = FillSlot(s, n, name, type, p, to), Calm(t)
  PROVE  /\ to = p[1]
         /\ \E m \in Inodes : \E u \in FileSystems : Filled(s, u, t, n, p, m, type, name)
  <1> DEFINE m == next_inode(s)
             content == [BlockAt(s, n, p[1]) EXCEPT ![p[2]] = NewEntry(m, type, name)]
             s0 == get_inode(s)
             s1 == update_dir(s0, Area(s, n).i_block[to], content)
             area == [Area(s, n) EXCEPT !.i_size = @ + 1]
             u == update_inode_entry(s1, n, area)
             s3 == IF to = p[1] THEN u ELSE fault(u, {"lastblock"})
             s4 == stamp(s3, content, {0, 1})
  <1>1. p \in Positions(s, n) /\ m \in 0 .. InodeCount BY FreeSlotType, NextInodeRange
  <1>2. content \in [Slots -> Entries]
    <2>1. NewEntry(m, type, name) \in Entries BY <1>1, EntryConstructors
    <2> QED BY <1>1, <2>1, EntryAtType, BlockAtType
  <1>3. Area(s, n).i_block[to] \in Blocks BY BlockAtType
  <1>4. area \in InodeRecords BY AreaType DEF InodeRecords
  <1>5. area.i_size = Area(s, n).i_size + 1 /\ area.i_block = Area(s, n).i_block
    BY AreaType DEF InodeRecords
  <1>6. s0 \in FileSystems BY GetInodeType
  <1>7. t = dir_prepare(s4, m, type, n) BY DEF FillSlot
  <1> HIDE DEF s0, area, content
  <1>8. /\ s1 \in FileSystems
        /\ s1.data = [s0.data EXCEPT ![Area(s, n).i_block[to]] = content]
        /\ s1.inode_table = s0.inode_table
        /\ s1.inode_bitmap = s0.inode_bitmap
        /\ s1.block_bitmap = s0.block_bitmap
        /\ s1.bg_free_blocks_count = s0.bg_free_blocks_count
        /\ s1.faults = s0.faults
    BY <1>2, <1>3, <1>6, UpdateDirResult
  <1> HIDE DEF s1
  <1>9. /\ u \in FileSystems
        /\ Area(u, n) = area
        /\ \A k \in Inodes \ {n} : Area(u, k) = Area(s1, k)
        /\ u.inode_bitmap = s1.inode_bitmap
        /\ u.block_bitmap = s1.block_bitmap
        /\ u.bg_free_blocks_count = s1.bg_free_blocks_count
        /\ u.data = s1.data
        /\ u.faults = s1.faults
    BY <1>4, <1>8, UpdateInodeResult
  <1> HIDE DEF u
  <1>10. s3 \in FileSystems BY <1>9, FaultType DEF Faults
  <1> HIDE DEF s3
  <1>11. s4 \in FileSystems BY <1>10, StampType
  <1>12. Calm(s4) BY <1>1, <1>7, <1>11, DirPrepareFaults
  <1>13. s4 = s3 /\ Calm(s3) BY <1>10, <1>12, StampCalm
  <1>14. to = p[1] /\ s3 = u
    BY <1>9, <1>13 DEF s3, fault, Calm, FileSystems
  <1>15. Calm(u) /\ Calm(s0) BY <1>8, <1>9, <1>13, <1>14 DEF Calm
  <1>16. /\ m \in Inodes /\ m \notin s.inode_bitmap
         /\ s0.inode_bitmap = s.inode_bitmap \cup {m}
         /\ s0.block_bitmap = s.block_bitmap
         /\ s0.bg_free_blocks_count = s.bg_free_blocks_count
         /\ s0.inode_table = s.inode_table
         /\ s0.data = s.data
    BY <1>15, InodeCalm DEF s0
  <1>17. t = dir_prepare(u, m, type, n) BY <1>7, <1>13, <1>14
  <1>18. \A k \in Inodes \ {n} : Area(u, k) = Area(s, k) BY <1>8, <1>9, <1>16 DEF Area
  <1>19. u.data = [s.data EXCEPT ![Area(s, n).i_block[p[1]]] = content]
    BY <1>8, <1>9, <1>14, <1>16
  <1> HIDE DEF m, s4
  <1>20. /\ Area(u, n).i_block = Area(s, n).i_block
         /\ Area(u, n).i_size = Area(s, n).i_size + 1
         /\ u.inode_bitmap = s.inode_bitmap \cup {m}
         /\ u.block_bitmap = s.block_bitmap
         /\ u.bg_free_blocks_count = s.bg_free_blocks_count
    BY <1>5, <1>8, <1>9, <1>16
  <1>21. Filled(s, u, t, n, p, m, type, name)
    BY <1>15, <1>16, <1>17, <1>18, <1>19, <1>20 DEF Filled, content
  <1> QED BY <1>9, <1>14, <1>16, <1>21

(* mkdir and cat when every block is full: block b is added. *)
Appended(s, u, t, n, b, m, type, name) ==
    /\ m \notin s.inode_bitmap
    /\ b \notin s.block_bitmap
    /\ t = dir_prepare(u, m, type, n)
    /\ Calm(u)
    /\ u.inode_bitmap = s.inode_bitmap \cup {m}
    /\ Area(u, n).i_block = Append(Area(s, n).i_block, b)
    /\ Area(u, n).i_size = Area(s, n).i_size + 1
    /\ \A k \in Inodes \ {n} : Area(u, k) = Area(s, k)
    /\ u.block_bitmap = s.block_bitmap \cup {b}
    /\ u.bg_free_blocks_count = s.bg_free_blocks_count - 1
    /\ u.data = [s.data EXCEPT ![b] =
                     [k \in Slots |-> IF k = 0 THEN NewEntry(m, type, name) ELSE Empty]]

(* Adding a block, without a fault: the entry is its first one.            *)
LEMMA AppendResult ==
  ASSUME NEW s \in FileSystems, NEW n \in Inodes, NEW name \in Arguments,
         NEW type \in {FILE, DIR},
         NEW t, t = AppendBlock(s, n, name, type), Calm(t)
  PROVE  \E m \in Inodes : \E u \in FileSystems : \E b \in Blocks :
            Appended(s, u, t, n, b, m, type, name)
  <1> DEFINE b == next_block(s)
             s1 == alloc_block(s)
             m == next_inode(s1)
             content == [k \in Slots |->
                            IF k = 0 THEN NewEntry(m, type, name) ELSE Empty]
             s0 == get_inode(s1)
             s2 == update_dir(s0, b, content)
             area == [Area(s, n) EXCEPT !.i_size = @ + 1, !.i_block = Append(@, b)]
             u == update_inode_entry(s2, n, area)
  <1>1. b \in Blocks /\ s1 \in FileSystems BY NextBlockType, AllocBlockType
  <1>2. t = dir_prepare(u, m, type, n) BY DEF AppendBlock
  <1> HIDE DEF s1, b
  <1>3. m \in 0 .. InodeCount BY <1>1, NextInodeRange
  <1>4. content \in [Slots -> Entries] BY <1>3, EntryConstructors
  <1>5. s0 \in FileSystems BY <1>1, GetInodeType
  <1>6. /\ area \in InodeRecords
        /\ area.i_size = Area(s, n).i_size + 1
        /\ area.i_block = Append(Area(s, n).i_block, b)
    <2>1. Append(Area(s, n).i_block, b) \in Seq(Blocks) BY <1>1, AreaType
    <2>2. Area(s, n).i_size + 1 \in Int BY AreaType
    <2> QED BY <2>1, <2>2, AreaType DEF InodeRecords
  <1> HIDE DEF s0, area, content
  <1>7. /\ s2 \in FileSystems
        /\ s2.data = [s0.data EXCEPT ![b] = content]
        /\ s2.inode_table = s0.inode_table
        /\ s2.inode_bitmap = s0.inode_bitmap
        /\ s2.block_bitmap = s0.block_bitmap
        /\ s2.bg_free_blocks_count = s0.bg_free_blocks_count
        /\ s2.faults = s0.faults
    BY <1>1, <1>4, <1>5, UpdateDirResult
  <1> HIDE DEF s2
  <1>8. /\ u \in FileSystems
        /\ Area(u, n) = area
        /\ \A k \in Inodes \ {n} : Area(u, k) = Area(s2, k)
        /\ u.inode_bitmap = s2.inode_bitmap
        /\ u.block_bitmap = s2.block_bitmap
        /\ u.bg_free_blocks_count = s2.bg_free_blocks_count
        /\ u.data = s2.data
        /\ u.faults = s2.faults
    BY <1>6, <1>7, UpdateInodeResult
  <1> HIDE DEF u
  <1>9. Calm(u) /\ Calm(s0)
    <2>1. Calm(u) BY <1>2, <1>3, <1>8, DirPrepareFaults
    <2> QED BY <2>1, <1>7, <1>8 DEF Calm
  <1>10. /\ Calm(s1)
         /\ m \in Inodes /\ m \notin s1.inode_bitmap
         /\ s0.inode_bitmap = s1.inode_bitmap \cup {m}
         /\ s0.block_bitmap = s1.block_bitmap
         /\ s0.bg_free_blocks_count = s1.bg_free_blocks_count
         /\ s0.inode_table = s1.inode_table
         /\ s0.data = s1.data
    BY <1>1, <1>9, InodeCalm DEF s0
  <1>11. /\ b \notin s.block_bitmap
         /\ s1.block_bitmap = s.block_bitmap \cup {b}
         /\ s1.bg_free_blocks_count = s.bg_free_blocks_count - 1
         /\ s1.inode_bitmap = s.inode_bitmap
         /\ s1.inode_table = s.inode_table
         /\ s1.data = s.data
    BY <1>10, AllocCalm DEF s1, b
  <1> HIDE DEF m
  <1>12. \A k \in Inodes \ {n} : Area(u, k) = Area(s, k) BY <1>7, <1>8, <1>10, <1>11 DEF Area
  <1>13. u.data = [s.data EXCEPT ![b] = content] BY <1>7, <1>8, <1>10, <1>11
  <1>14. /\ Area(u, n).i_block = Append(Area(s, n).i_block, b)
         /\ Area(u, n).i_size = Area(s, n).i_size + 1
         /\ u.inode_bitmap = s.inode_bitmap \cup {m}
         /\ u.block_bitmap = s.block_bitmap \cup {b}
         /\ u.bg_free_blocks_count = s.bg_free_blocks_count - 1
    BY <1>6, <1>7, <1>8, <1>10, <1>11
  <1>15. u.data = [s.data EXCEPT ![b] =
                     [k \in Slots |-> IF k = 0 THEN NewEntry(m, type, name) ELSE Empty]]
    BY <1>13 DEF content
  <1>16. m \notin s.inode_bitmap BY <1>10, <1>11
  <1>17. Appended(s, u, t, n, b, m, type, name)
    BY <1>2, <1>9, <1>11, <1>12, <1>14, <1>15, <1>16 DEF Appended
  <1>18. m \in Inodes BY <1>10
  <1>19. u \in FileSystems BY <1>8
  <1> QED BY <1>1, <1>17, <1>18, <1>19
-----------------------------------------------------------------------------
(* mkdir and cat, on the disk s. *)

(* Either way directory n has the entry at p in u, before m is prepared. *)
Entered(s, u, t, n, p, m, type, name, D, F, clean) ==
    /\ m \notin s.inode_bitmap
    /\ t = dir_prepare(u, m, type, n)
    /\ u.inode_bitmap = s.inode_bitmap \cup {m}
    /\ Gains(s, u, n, p, NewEntry(m, type, name))
    /\ \A d \in D \ {n} : SameEntries(s, u, d)
    /\ Stored(u, D, F, Lists(u), clean)

(* Whichever way a name is added, the tree gains one entry.                *)
LEMMA EnteredExists ==
  ASSUME NEW s \in FileSystems, NEW D, NEW F, NEW clean,
         Stored(s, D, F, Lists(s), clean),
         NEW n \in D, NEW name \in Arguments, NEW type \in {FILE, DIR},
         HasRoom(s, n), NEW t, Calm(t),
         \/ /\ Partial(s, n)
            /\ \E p \in FreeSlot(s, n) : \E to \in 1 .. Len(Area(s, n).i_block) :
                  t = FillSlot(s, n, name, type, p, to)
         \/ ~ Partial(s, n) /\ t = AppendBlock(s, n, name, type)
  PROVE  \E m \in Inodes : \E u \in FileSystems : \E p :
            Entered(s, u, t, n, p, m, type, name, D, F, clean)
  <1>1. n \in Inodes BY DEF Stored
  <1>2. ASSUME NEW m \in Inodes
        PROVE  NewEntry(m, type, name).inode # 0
    BY DEF NewEntry, Inodes
  <1>3. CASE /\ Partial(s, n)
             /\ \E p \in FreeSlot(s, n) : \E to \in 1 .. Len(Area(s, n).i_block) :
                   t = FillSlot(s, n, name, type, p, to)
    <2>1. PICK p \in FreeSlot(s, n) : \E to \in 1 .. Len(Area(s, n).i_block) :
                   t = FillSlot(s, n, name, type, p, to)
      BY <1>3
    <2>2. \E m \in Inodes : \E u \in FileSystems : Filled(s, u, t, n, p, m, type, name)
      BY <1>1, <2>1, FillResult
    <2>3. PICK m \in Inodes : \E u \in FileSystems : Filled(s, u, t, n, p, m, type, name)
      BY <2>2
    <2>4. PICK u \in FileSystems : Filled(s, u, t, n, p, m, type, name) BY <2>3
    <2>5. p \in Positions(s, n) /\ EntryAt(s, n, p).inode = 0
      BY DEF FreeSlot, First, EntryAt
    <2> DEFINE e == NewEntry(m, type, name)
    <2>6. e.inode # 0 BY <1>2
    <2> HIDE DEF e
    <2>7. /\ m \notin s.inode_bitmap
          /\ t = dir_prepare(u, m, type, n)
          /\ u.inode_bitmap = s.inode_bitmap \cup {m}
          /\ Area(u, n).i_block = Area(s, n).i_block
          /\ Area(u, n).i_size = Area(s, n).i_size + 1
          /\ \A k \in Inodes \ {n} : Area(u, k) = Area(s, k)
          /\ u.block_bitmap = s.block_bitmap
          /\ u.bg_free_blocks_count = s.bg_free_blocks_count
          /\ u.data = [s.data EXCEPT ![Area(s, n).i_block[p[1]]] =
                           [BlockAt(s, n, p[1]) EXCEPT ![p[2]] = e]]
      BY <2>4 DEF Filled, e
    <2>8. /\ Gains(s, u, n, p, e)
          /\ \A d \in D \ {n} : SameEntries(s, u, d)
          /\ Stored(u, D, F, Lists(u), clean)
      BY <1>3, <2>5, <2>6, <2>7, StoredFill
    <2>9. Entered(s, u, t, n, p, m, type, name, D, F, clean)
      BY <2>7, <2>8 DEF Entered, e
    <2> QED BY <2>9
  <1>4. CASE ~ Partial(s, n) /\ t = AppendBlock(s, n, name, type)
    <2>1. PICK m \in Inodes : \E u \in FileSystems : \E b \in Blocks :
             Appended(s, u, t, n, b, m, type, name)
      BY <1>1, <1>4, AppendResult
    <2>2. PICK u \in FileSystems : \E b \in Blocks : Appended(s, u, t, n, b, m, type, name)
      BY <2>1
    <2>3. PICK b \in Blocks : Appended(s, u, t, n, b, m, type, name) BY <2>2
    <2> DEFINE e == NewEntry(m, type, name)
    <2>4. e.inode # 0 BY <1>2
    <2> HIDE DEF e
    <2>5. /\ m \notin s.inode_bitmap
          /\ b \notin s.block_bitmap
          /\ t = dir_prepare(u, m, type, n)
          /\ u.inode_bitmap = s.inode_bitmap \cup {m}
          /\ Area(u, n).i_block = Append(Area(s, n).i_block, b)
          /\ Area(u, n).i_size = Area(s, n).i_size + 1
          /\ \A k \in Inodes \ {n} : Area(u, k) = Area(s, k)
          /\ u.block_bitmap = s.block_bitmap \cup {b}
          /\ u.bg_free_blocks_count = s.bg_free_blocks_count - 1
          /\ u.data = [s.data EXCEPT ![b] = [k \in Slots |-> IF k = 0 THEN e ELSE Empty]]
      BY <2>3 DEF Appended, e
    <2>6. /\ \E p : Gains(s, u, n, p, e)
          /\ \A d \in D \ {n} : SameEntries(s, u, d)
          /\ Stored(u, D, F, Lists(u), clean)
      BY <1>4, <2>4, <2>5, StoredAppend
    <2>7. PICK p : Gains(s, u, n, p, e) BY <2>6
    <2>8. Entered(s, u, t, n, p, m, type, name, D, F, clean)
      BY <2>5, <2>6, <2>7 DEF Entered, e
    <2> QED BY <2>8
  <1> QED BY <1>3, <1>4

(* The two steps together. *)
LEMMA GainsThenSame ==
  ASSUME NEW s, NEW u, NEW t, NEW n, NEW p, NEW e, NEW D, n \in D,
         Gains(s, u, n, p, e), \A d \in D \ {n} : SameEntries(s, u, d),
         \A d \in D : SameEntries(u, t, d)
  PROVE  Gains(s, t, n, p, e) /\ \A d \in D \ {n} : SameEntries(s, t, d)
BY DEF Gains, SameEntries

(* The disk with the new file, or the new directory, in the tree. *)
WithFile(s, t, D, F, up, path, n, p, m, name, clean) ==
    /\ t \in FileSystems /\ m \notin D \cup F
    /\ Gains(s, t, n, p, NewEntry(m, FILE, name))
    /\ \A d \in D \ {n} : SameEntries(s, t, d)
    /\ Shape(t, D, F \cup {m}, up, path)
    /\ Stored(t, D, F \cup {m}, Lists(t), clean)

WithDir(s, t, D, F, up, path, n, p, m, name, clean) ==
    /\ t \in FileSystems /\ m \notin D \cup F
    /\ Gains(s, t, n, p, NewEntry(m, DIR, name))
    /\ \A d \in D \ {n} : SameEntries(s, t, d)
    /\ Used(t, m) = Dots
    /\ Shape(t, D \cup {m}, F, Extended(up, D, m, n),
             Extended(path, D, m, Append(path[n], name)))
    /\ Stored(t, D \cup {m}, F, Lists(t), clean)

(* cat: Entered, and the inode of the file prepared. *)
LEMMA FileAdded ==
  ASSUME NEW s \in FileSystems, NEW D, NEW F, NEW up, NEW path, NEW clean,
         Shape(s, D, F, up, path),
         NEW n \in D, NEW name \in FileNames, NEW m \in Inodes, NEW u \in FileSystems,
         NEW t, NEW p, Entered(s, u, t, n, p, m, FILE, name, D, F, clean),
         \A q \in Used(s, n) : EntryAt(s, n, q).file_type = FILE
                                    => EntryAt(s, n, q).name # name
  PROVE  WithFile(s, t, D, F, up, path, n, p, m, name, clean)
  <1>1. /\ m \notin s.inode_bitmap
        /\ t = dir_prepare(u, m, FILE, n)
        /\ u.inode_bitmap = s.inode_bitmap \cup {m}
        /\ Gains(s, u, n, p, NewEntry(m, FILE, name))
        /\ \A d \in D \ {n} : SameEntries(s, u, d)
        /\ Stored(u, D, F, Lists(u), clean)
    BY DEF Entered
  <1>2. m \in Inodes \ (D \cup F) BY <1>1 DEF Shape, Marked
  <1>3. n \in Inodes BY <1>1 DEF Stored
  <1>4. /\ t \in FileSystems
        /\ t.inode_bitmap = u.inode_bitmap
        /\ Area(t, m).i_block = <<>>
        /\ \A k \in Inodes \ {m} : Area(t, k) = Area(u, k)
        /\ t.data = u.data /\ t.block_bitmap = u.block_bitmap
        /\ t.bg_free_blocks_count = u.bg_free_blocks_count
    <2>1. t = dir_prepare(u, m, FILE, n) BY <1>1
    <2>2. NewFile(u, t, m) BY <2>1, <1>3, NewFileResult
    <2> QED BY <2>2 DEF NewFile
  <1>5. /\ \A d \in D : SameEntries(u, t, d)
        /\ Stored(t, D, F \cup {m}, Lists(t), clean)
    BY <1>1, <1>2, <1>4, StoredNewFile
  <1>6. /\ Gains(s, t, n, p, NewEntry(m, FILE, name))
        /\ \A d \in D \ {n} : SameEntries(s, t, d)
    BY <1>1, <1>5, GainsThenSame
  <1>7. t.inode_bitmap = s.inode_bitmap \cup {m} BY <1>1, <1>4
  <1>8. IsFiniteSet(s.inode_bitmap)
    <2>1. s.inode_bitmap \in SUBSET Inodes BY DEF FileSystems
    <2>2. 1 \in Int /\ InodeCount \in Int BY SizesAssumption
    <2>3. IsFiniteSet(Inodes) BY <2>2, FS_Interval DEF Inodes
    <2> QED BY <2>1, <2>3, FS_Subset
  <1>9. Shape(t, D, F \cup {m}, up, path) BY <1>1, <1>6, <1>7, <1>8, ShapeAddFile
  <1> QED BY <1>2, <1>4, <1>5, <1>6, <1>9 DEF WithFile

(* mkdir: Entered, and the inode and the block of the directory prepared. *)
LEMMA DirAdded ==
  ASSUME NEW s \in FileSystems, NEW D, NEW F, NEW up, NEW path, NEW clean,
         Shape(s, D, F, up, path),
         NEW n \in D, NEW name \in Names, NEW m \in Inodes, NEW u \in FileSystems,
         NEW t, Calm(t), NEW p, Entered(s, u, t, n, p, m, DIR, name, D, F, clean),
         \A q \in Used(s, n) : EntryAt(s, n, q).file_type = DIR
                                    => EntryAt(s, n, q).name # name
  PROVE  WithDir(s, t, D, F, up, path, n, p, m, name, clean)
  <1>1. /\ m \notin s.inode_bitmap
        /\ t = dir_prepare(u, m, DIR, n)
        /\ u.inode_bitmap = s.inode_bitmap \cup {m}
        /\ Gains(s, u, n, p, NewEntry(m, DIR, name))
        /\ \A d \in D \ {n} : SameEntries(s, u, d)
        /\ Stored(u, D, F, Lists(u), clean)
    BY DEF Entered
  <1>2. m \in Inodes \ (D \cup F) BY <1>1 DEF Shape, Marked
  <1>3. n \in Inodes BY <1>1 DEF Stored
  <1> DEFINE b == next_block(u)
  <1>4. /\ t \in FileSystems
        /\ t.inode_bitmap = u.inode_bitmap
        /\ b \in Blocks /\ b \notin u.block_bitmap
        /\ Area(t, m).i_block = <<b>> /\ Area(t, m).i_size = 2
        /\ \A k \in Inodes \ {m} : Area(t, k) = Area(u, k)
        /\ t.data = [u.data EXCEPT ![b] = NewDirectory(m, n)]
        /\ t.block_bitmap = u.block_bitmap \cup {b}
        /\ t.bg_free_blocks_count = u.bg_free_blocks_count - 1
    BY <1>1, <1>3, NewDirResult
  <1> HIDE DEF b
  <1>5. /\ \A d \in D : SameEntries(u, t, d)
        /\ Used(t, m) = Dots
        /\ EntryAt(t, m, <<1, 0>>) = NewEntry(m, DIR, ".")
        /\ EntryAt(t, m, <<1, 1>>) = NewEntry(n, DIR, "..")
        /\ Stored(t, D \cup {m}, F, Lists(t), clean)
    <2>1. Stored(u, D, F, Lists(u), clean) BY <1>1
    <2> QED BY <2>1, <1>2, <1>3, <1>4, StoredNewDir, Zenon
  <1>6. /\ Gains(s, t, n, p, NewEntry(m, DIR, name))
        /\ \A d \in D \ {n} : SameEntries(s, t, d)
    BY <1>1, <1>5, GainsThenSame
  <1>7. t.inode_bitmap = s.inode_bitmap \cup {m} BY <1>1, <1>4
  <1>8. IsFiniteSet(s.inode_bitmap)
    <2>1. s.inode_bitmap \in SUBSET Inodes BY DEF FileSystems
    <2>2. 1 \in Int /\ InodeCount \in Int BY SizesAssumption
    <2>3. IsFiniteSet(Inodes) BY <2>2, FS_Interval DEF Inodes
    <2> QED BY <2>1, <2>3, FS_Subset
  <1>9. Shape(t, D \cup {m}, F, Extended(up, D, m, n),
              Extended(path, D, m, Append(path[n], name)))
    <2>1. m \notin s.inode_bitmap BY <1>1
    <2> QED BY <2>1, <1>5, <1>6, <1>7, <1>8, ShapeAddDir
  <1> QED BY <1>2, <1>4, <1>5, <1>6, <1>9 DEF WithDir
-----------------------------------------------------------------------------
(* What reserch_file finds, and that it finds what is there. *)

(* A search that has a position to find returns one.                       *)
LEMMA FirstExists ==
  ASSUME NEW last, NEW T \in SUBSET ((1 .. last) \X Slots), T # {}
  PROVE  First(T) # {}
  <1>1. \A p \in T : p[1] \in Nat /\ p[2] \in Nat /\ p = <<p[1], p[2]>> BY DEF Slots
  <1> DEFINE rows == {p[1] : p \in T}
  <1>2. rows \in SUBSET Nat /\ rows # {} BY <1>1
  <1>3. PICK i \in rows : \A j \in rows : i <= j BY <1>2, NatSetHasMinimum
  <1> DEFINE cols == {p[2] : p \in {q \in T : q[1] = i}}
  <1>4. cols \in SUBSET Nat /\ cols # {} BY <1>1
  <1>5. PICK k \in cols : \A j \in cols : k <= j
    <2> HIDE DEF cols
    <2> QED BY <1>4, NatSetHasMinimum
  <1>6. PICK p \in T : p[1] = i /\ p[2] = k OBVIOUS
  <1>7. ASSUME NEW q \in T PROVE p[1] < q[1] \/ (p[1] = q[1] /\ p[2] <= q[2])
    <2>1. i <= q[1] BY <1>3
    <2>2. q[1] = i => k <= q[2] BY <1>5
    <2> QED BY <1>1, <1>6, <2>1, <2>2
  <1> QED BY <1>6, <1>7 DEF First

(* reserch_file returns an entry in use, of that type and that name.       *)
LEMMA SearchFound ==
  ASSUME NEW s, NEW n, NEW tmp, NEW type, NEW p \in reserch_file(s, n, tmp, type)
  PROVE  /\ p \in Used(s, n)
         /\ EntryAt(s, n, p).file_type = type
         /\ EntryAt(s, n, p).name = tmp
BY DEF reserch_file, First, Used, EntryAt

(* It returns nothing only when no entry has both.                         *)
LEMMA SearchFailed ==
  ASSUME NEW s, NEW n, NEW tmp, NEW type, reserch_file(s, n, tmp, type) = {}
  PROVE  \A q \in Used(s, n) : EntryAt(s, n, q).file_type = type
                                  => EntryAt(s, n, q).name # tmp
  <1> DEFINE T == {p \in Positions(s, n) :
                      LET e == BlockAt(s, n, p[1])[p[2]] IN
                      e.inode # 0 /\ e.file_type = type /\ e.name = tmp}
  <1>1. T \in SUBSET ((1 .. Len(Area(s, n).i_block)) \X Slots) BY DEF Positions
  <1>2. First(T) = {} BY DEF reserch_file
  <1>3. T = {}
    <2> HIDE DEF T
    <2> QED BY <1>1, <1>2, FirstExists
  <1> QED BY <1>3 DEF Used, EntryAt
=============================================================================
