--------------------------- MODULE Ext2CrashProofs ---------------------------
(***************************************************************************)
(* What a disk keeps when the program dies between two writes, however     *)
(* often it does.                                                          *)
(***************************************************************************)
EXTENDS Ext2Crash, Ext2SafetyProofs

(* The cuts are file systems. *)

\* alloc_block and get_inode with only the bitmap written, and a whole.
LEMMA AllocationCutsType ==
  ASSUME NEW s \in FileSystems
  PROVE  /\ AllocCuts(s) \subseteq FileSystems
         /\ InodeCuts(s) \subseteq FileSystems
<1>1. s.block_bitmap \cup {next_block(s)} \in SUBSET Blocks
  BY NextBlockType DEF FileSystems
<1>2. MarkBlock(s) \in FileSystems
  BY <1>1 DEF MarkBlock, FileSystems
<1>3. AllocCuts(s) \subseteq FileSystems
  BY <1>2, AllocBlockType DEF AllocCuts
<1>4. CASE next_inode(s) # 0
  <2>1. s.inode_bitmap \cup {next_inode(s)} \in SUBSET Inodes
    BY <1>4, NextInodeType DEF FileSystems
  <2>2. [s EXCEPT !.inode_bitmap = @ \cup {next_inode(s)}] \in FileSystems
    BY <2>1 DEF FileSystems
  <2> QED BY <1>3, <2>2, GetInodeType DEF InodeCuts
<1> QED BY <1>3, <1>4 DEF InodeCuts

\* remove_block with only the bitmap written, and as a whole.
LEMMA RemoveCutsType ==
  ASSUME NEW s \in FileSystems, NEW b
  PROVE  RemoveCuts(s, b) \subseteq FileSystems
<1>1. s.block_bitmap \ {b} \in SUBSET Blocks
  BY DEF FileSystems
<1>2. [s EXCEPT !.block_bitmap = @ \ {b}] \in FileSystems
  BY <1>1 DEF FileSystems
<1> QED BY <1>2, RemoveType DEF RemoveCuts

\* dir_prepare, up to its last write.
LEMMA PrepareCutsType ==
  ASSUME NEW s \in FileSystems, NEW tmp \in 0 .. InodeCount, NEW type, NEW n \in Inodes
  PROVE  PrepareCuts(s, tmp, type, n) \subseteq FileSystems
<1>1. update_dir(alloc_block(s), next_block(s), NewDirectory(tmp, n)) \in FileSystems
  BY AllocBlockType, NextBlockType, NewDirectoryType, UpdateDirType
<1> QED BY <1>1, AllocationCutsType DEF PrepareCuts

\* A new entry in a free slot.
LEMMA FillCutsType ==
  ASSUME NEW s \in FileSystems, NEW n \in Inodes, NEW name \in Arguments,
         NEW type \in {FILE, DIR}, NEW p \in Positions(s, n), NEW to
  PROVE  FillCuts(s, n, name, type, p, to) \subseteq FileSystems
<1> DEFINE tmpno == next_inode(s)
           content == [BlockAt(s, n, p[1]) EXCEPT ![p[2]] = NewEntry(tmpno, type, name)]
           s1 == update_dir(get_inode(s), Area(s, n).i_block[to], content)
           s2 == update_inode_entry(s1, n, Grown(s, n))
<1>1. CASE to # p[1]
  BY <1>1 DEF FillCuts
<1>2. CASE to = p[1]
  <2>1. tmpno \in 0 .. InodeCount
    BY NextInodeRange
  <2>2. content \in [Slots -> Entries]
    <3>1. NewEntry(tmpno, type, name) \in Entries
      BY <2>1, EntryConstructors
    <3> QED BY <3>1, EntryAtType, BlockAtType
  <2>3. s1 \in FileSystems
    BY <1>2, <2>2, GetInodeType, BlockAtType, EntryAtType, UpdateDirType
  <2>4. Grown(s, n) \in InodeRecords
    BY AreaType DEF InodeRecords, Grown
  <2>5. n \in 0 .. InodeCount
    BY SizesAssumption DEF Inodes
  <2> HIDE DEF s1
  <2>6. s2 \in FileSystems
    BY <2>3, <2>4, <2>5, UpdateInodeType
  <2> HIDE DEF s2
  <2>7. InodeCuts(s) \cup {s1, s2} \cup PrepareCuts(s2, tmpno, type, n) \subseteq FileSystems
    BY <2>1, <2>3, <2>6, AllocationCutsType, PrepareCutsType
  <2>8. FillCuts(s, n, name, type, p, to)
            = InodeCuts(s) \cup {s1, s2} \cup PrepareCuts(s2, tmpno, type, n)
    BY <1>2 DEF FillCuts, s1, s2
  <2> QED BY <2>7, <2>8
<1> QED BY <1>1, <1>2

\* A new block with the new entry.
LEMMA AppendCutsType ==
  ASSUME NEW s \in FileSystems, NEW n \in Inodes, NEW name \in Arguments,
         NEW type \in {FILE, DIR}
  PROVE  AppendCuts(s, n, name, type) \subseteq FileSystems
<1> DEFINE b == next_block(s)
           s1 == alloc_block(s)
           tmpno == next_inode(s1)
           content == [k \in Slots |->
                          IF k = 0 THEN NewEntry(tmpno, type, name) ELSE Empty]
           s2 == update_dir(get_inode(s1), b, content)
           area == [Grown(s, n) EXCEPT !.i_block = Append(@, b)]
           s3 == update_inode_entry(s2, n, area)
<1>1. b \in Blocks /\ s1 \in FileSystems
  BY NextBlockType, AllocBlockType
<1>2. area \in InodeRecords
  <2>1. Append(Area(s, n).i_block, b) \in Seq(Blocks)
    BY <1>1, AreaType
  <2>2. Area(s, n).i_size + 1 \in Int
    BY AreaType
  <2> QED BY <2>1, <2>2, AreaType DEF InodeRecords, Grown
<1> HIDE DEF s1, b, area
<1>3. tmpno \in 0 .. InodeCount
  BY <1>1, NextInodeRange
<1>4. content \in [Slots -> Entries]
  BY <1>3, EntryConstructors
<1>5. s2 \in FileSystems
  BY <1>1, <1>4, GetInodeType, UpdateDirType
<1>6. n \in 0 .. InodeCount
  BY SizesAssumption DEF Inodes
<1> HIDE DEF s2
<1>7. s3 \in FileSystems
  BY <1>2, <1>5, <1>6, UpdateInodeType
<1> HIDE DEF s3
<1>8. AllocCuts(s) \cup InodeCuts(s1) \cup {s2, s3} \cup PrepareCuts(s3, tmpno, type, n)
         \subseteq FileSystems
  BY <1>1, <1>3, <1>5, <1>7, AllocationCutsType, PrepareCutsType
<1>9. AppendCuts(s, n, name, type)
         = AllocCuts(s) \cup InodeCuts(s1) \cup {s2, s3} \cup PrepareCuts(s3, tmpno, type, n)
  BY DEF AppendCuts, s1, s2, s3, b, area
<1> QED BY <1>8, <1>9

\* mkdir and cat.
LEMMA AddCutsType ==
  ASSUME NEW s \in FileSystems, NEW n \in Inodes, NEW name \in Arguments,
         NEW type \in {FILE, DIR}
  PROVE  AddCuts(s, n, name, type) \subseteq FileSystems
<1>1. CASE ~Partial(s, n)
  BY <1>1, AppendCutsType DEF AddCuts
<1>2. CASE Partial(s, n)
  <2>1. ASSUME NEW p \in FreeSlot(s, n), NEW to
        PROVE  FillCuts(s, n, name, type, p, to) \subseteq FileSystems
    BY FreeSlotType, FillCutsType
  <2> QED BY <1>2, <2>1 DEF AddCuts
<1> QED BY <1>1, <1>2

\* The sweep at the end of rmdir and del.
LEMMA SweepCutsType ==
  ASSUME NEW s \in FileSystems, NEW n
  PROVE  SweepCuts(s, n) \subseteq FileSystems
BY RemoveCutsType DEF SweepCuts

\* rmdir.
LEMMA RmdirCutsType ==
  ASSUME NEW s \in FileSystems, NEW n \in Inodes, NEW p \in Positions(s, n)
  PROVE  RmdirCuts(s, n, p) \subseteq FileSystems
<1> DEFINE child == EntryAt(s, n, p).inode
           b == Area(s, child).i_block[1]
           s0 == remove_block(s, b)
           s1 == remove_inode(s0, child)
           s2 == ClearSlot(s1, n, p)
<1>1. s0 \in FileSystems
  BY RemoveType
<1>2. s1 \in FileSystems /\ s1.inode_table = s.inode_table
  <2>1. s0.inode_table = s.inode_table
    BY DEF remove_block, FileSystems
  <2> HIDE DEF s0
  <2>2. s1 \in FileSystems
    BY <1>1, RemoveType
  <2>3. s1.inode_table = s0.inode_table
    BY <1>1 DEF remove_inode, FileSystems
  <2> QED BY <2>1, <2>2, <2>3
<1> HIDE DEF s1, b
<1>3. s2 \in FileSystems
  BY <1>2, PositionsKept, ClearSlotType
<1> HIDE DEF s2
<1>4. RemoveCuts(s, b) \cup {s1, s2} \cup SweepCuts(s2, n) \subseteq FileSystems
  BY <1>2, <1>3, RemoveCutsType, SweepCutsType
<1>5. RmdirCuts(s, n, p) = RemoveCuts(s, b) \cup {s1, s2} \cup SweepCuts(s2, n)
  BY DEF RmdirCuts, s1, s2, b
<1> QED BY <1>4, <1>5

\* del.
LEMMA DelCutsType ==
  ASSUME NEW s \in FileSystems, NEW n \in Inodes, NEW p \in Positions(s, n),
         EntryAt(s, n, p).inode # 0
  PROVE  DelCuts(s, n, p) \subseteq FileSystems
<1> DEFINE area == Area(s, EntryAt(s, n, p).inode)
           freed(k) == remove_blocks(s, [area EXCEPT !.i_block = SubSeq(@, 1, k)])
           gone == remove_blocks(s, area)
           cleared == ClearSlot(gone, n, p)
<1>1. area.i_block \in Seq(Blocks) /\ area \in InodeRecords
  BY EntryAtType, AreaType, SizesAssumption DEF Inodes
<1>2. gone \in FileSystems /\ gone.inode_table = s.inode_table
  BY <1>1, RemoveBlocksType DEF remove_blocks, FileSystems
<1> HIDE DEF area
<1>3. ASSUME NEW k \in 1 .. Len(area.i_block)
      PROVE  freed(k - 1) \in FileSystems
  <2> DEFINE shorter == [area EXCEPT !.i_block = SubSeq(@, 1, k - 1)]
  <2>1. shorter.i_block = SubSeq(area.i_block, 1, k - 1)
    BY <1>1 DEF InodeRecords
  <2>2. SubSeq(area.i_block, 1, k - 1) \in Seq(Blocks)
    BY <1>1
  <2> HIDE DEF shorter
  <2>3. remove_blocks(s, shorter) \in FileSystems
    BY <2>1, <2>2, RemoveBlocksType
  <2> QED BY <2>3 DEF shorter
<1> HIDE DEF gone
<1>4. cleared \in FileSystems
  BY <1>2, PositionsKept, ClearSlotType
<1> HIDE DEF freed, cleared
<1>5. (UNION {RemoveCuts(freed(k - 1), area.i_block[k]) : k \in 1 .. Len(area.i_block)})
          \cup {cleared} \cup SweepCuts(cleared, n) \subseteq FileSystems
  <2> DEFINE part(k) == RemoveCuts(freed(k - 1), area.i_block[k])
  <2>1. \A k \in 1 .. Len(area.i_block) : part(k) \subseteq FileSystems
    BY <1>3, RemoveCutsType
  <2>2. SweepCuts(cleared, n) \subseteq FileSystems
    BY <1>4, SweepCutsType
  <2> HIDE DEF part
  <2> DEFINE parts == UNION {part(k) : k \in 1 .. Len(area.i_block)}
  <2>3. parts \subseteq FileSystems
    BY <2>1
  <2> HIDE DEF parts
  <2>4. parts \cup {cleared} \cup SweepCuts(cleared, n) \subseteq FileSystems
    BY <1>4, <2>2, <2>3
  <2> QED BY <2>4 DEF part, parts
<1>6. DelCuts(s, n, p)
         = (UNION {RemoveCuts(freed(k - 1), area.i_block[k]) : k \in 1 .. Len(area.i_block)})
              \cup {cleared} \cup SweepCuts(cleared, n)
  BY DEF DelCuts, freed, cleared, gone, area
<1> QED BY <1>5, <1>6

\* write_file.
LEMMA WriteCutsType ==
  ASSUME NEW s \in FileSystems
  PROVE  WriteCuts(s) \subseteq FileSystems
BY AllocationCutsType, RemoveCutsType DEF WriteCuts
-----------------------------------------------------------------------------
\* A crash is a start on one of the cuts.
LEMMA DieAtType ==
  ASSUME CrashTypeOK, NEW disks \in SUBSET FileSystems, DieAt(disks)
  PROVE  CrashTypeOK'
<1>1. PICK disk \in disks : /\ initialize_memory(fault(disk, {"killed"}))
                            /\ torn' = (TornInodes(disk) # {})
  BY DEF DieAt
<1>2. fault(disk, {"killed"}) \in FileSystems
  BY FaultType DEF Faults
<1>3. TypeOK'
  BY <1>1, <1>2, InitializeMemoryType DEF CrashTypeOK
<1>4. crashes' \in 0 .. MaxCrashes
  BY MaxCrashesAssumption DEF DieAt, CrashTypeOK
<1> QED BY <1>1, <1>3, <1>4 DEF CrashTypeOK

\* Every step of a behaviour with crashes keeps the types.
LEMMA CrashNextType ==
  ASSUME CrashTypeOK, [CrashNext]_crashVars
  PROVE  CrashTypeOK'
<1>0. TypeOK /\ fs \in FileSystems /\ current_dir \in Inodes
  BY DEF CrashTypeOK, TypeOK
<1>1. CASE Next /\ UNCHANGED <<crashes, torn>>
  BY <1>0, <1>1, NextType DEF CrashTypeOK
<1>2. CASE format /\ torn' = FALSE /\ UNCHANGED crashes
  BY <1>0, <1>2, StartType DEF CrashTypeOK
<1>3. ASSUME NEW tmp \in Arguments, NEW type \in {FILE, DIR}, CrashAdding(tmp, type)
      PROVE  CrashTypeOK'
  BY <1>0, <1>3, AddCutsType, DieAtType DEF CrashAdding
<1>4. ASSUME NEW tmp \in Names, CrashInRmdir(tmp)
      PROVE  CrashTypeOK'
  BY <1>0, <1>4, FoundType, RmdirCutsType, DieAtType DEF CrashInRmdir
<1>5. ASSUME NEW tmp \in FileNames, CrashInDel(tmp)
      PROVE  CrashTypeOK'
  <2>1. PICK p \in reserch_file(fs, current_dir, tmp, FILE) :
           DieAt(DelCuts(stamp(fs, BlockAt(fs, current_dir, p[1]), {0, 1}), current_dir, p))
    BY <1>5 DEF CrashInDel
  <2> DEFINE s == stamp(fs, BlockAt(fs, current_dir, p[1]), {0, 1})
  <2>2. /\ s \in FileSystems /\ s.inode_table = fs.inode_table /\ s.data = fs.data
    BY <1>0, StampType DEF stamp, fault, FileSystems
  <2>3. p \in Positions(fs, current_dir) /\ EntryAt(fs, current_dir, p).inode # 0
    BY <1>0, FoundType, SizesAssumption DEF Inodes
  <2>4. p \in Positions(s, current_dir) /\ EntryAt(s, current_dir, p).inode # 0
    BY <1>0, <2>2, <2>3, PositionsKept DEF EntryAt, BlockAt, Area
  <2> QED BY <1>0, <2>1, <2>2, <2>4, DelCutsType, DieAtType
<1>6. CASE CrashInWrite
  BY <1>0, <1>6, WriteCutsType, DieAtType DEF CrashInWrite
<1>7. CASE UNCHANGED crashVars
  BY <1>0, <1>7, NextType DEF crashVars, CrashTypeOK
<1>8. Names \subseteq Arguments /\ FileNames \subseteq Arguments
  BY SizesAssumption DEF Arguments
<1> QED BY <1>1, <1>2, <1>3, <1>4, <1>5, <1>6, <1>7, <1>8 DEF CrashNext

(* Numbers stay in their ranges on every disk a crash can leave, and in    *)
(* every command that goes on from one.                                    *)
THEOREM CrashTypeCorrect == CrashSpec => []CrashTypeOK
<1>1. CrashInit => CrashTypeOK
  <2>1. 0 \in 0 .. MaxCrashes
    BY MaxCrashesAssumption
  <2> QED BY <2>1, InitType DEF CrashInit, CrashTypeOK
<1>2. CrashTypeOK /\ [CrashNext]_crashVars => CrashTypeOK'
  BY CrashNextType
<1> QED BY <1>1, <1>2, PTL DEF CrashSpec
-----------------------------------------------------------------------------
(* The tree that a crash leaves.  It is weaker than Shape: a directory     *)
(* whose inode was never written has no entries, "." and ".." included,    *)
(* and may get others in their place.                                      *)

\* The name of a file or a directory.
Proper(e) == e.file_type = FILE \/ Directs(e)

\* Where directory d has the names of files and directories.
NamesIn(s, d) == {p \in Used(s, d) : Proper(EntryAt(s, d, p))}

\* The paths of the directories.
Ways(s, D, path) ==
    /\ path \in [D -> Seq(Names)] /\ path[Root] = <<>>
    /\ \A d \in D : Len(path[d]) < Cardinality(s.inode_bitmap)
    /\ \A d, e \in D : path[d] = path[e] => d = e

\* The name of a directory.
DirLink(e, d, D, path) ==
    /\ e.file_type = DIR
    /\ e.name \in Names
    /\ e.inode \in D \ {Root}
    /\ path[e.inode] = Append(path[d], e.name)

\* "." is the directory itself.
DotLink(e, d) == e = NewEntry(d, DIR, ".")

\* Directory u is the one above d.
Above(d, u, D, path) ==
    /\ u \in D
    /\ IF d = Root THEN u = Root ELSE \E x \in Names : path[d] = Append(path[u], x)

\* ".." is the directory above.
UpLink(s, d, p, D, path) ==
    /\ EntryAt(s, d, p).file_type = DIR
    /\ EntryAt(s, d, p).name = ".."
    /\ p = <<1, 1>>
    /\ <<1, 0>> \in Used(s, d) /\ EntryAt(s, d, <<1, 0>>).inode = d
    /\ Above(d, EntryAt(s, d, p).inode, D, path)

\* Every entry is one of these.
Leads(s, D, F, path) ==
    \A d \in D : \A p \in Used(s, d) :
        \/ ChildFile(EntryAt(s, d, p), F)
        \/ DirLink(EntryAt(s, d, p), d, D, path)
        \/ DotLink(EntryAt(s, d, p), d)
        \/ UpLink(s, d, p, D, path)

\* Everything but the root has a name.
HasNames(s, D, F) ==
    \A n \in (D \ {Root}) \cup F : \E d \in D : \E p \in NamesIn(s, d) :
        EntryAt(s, d, p).inode = n

\* Nothing has two.
OneNames(s, D) ==
    \A d, e \in D : \A p \in NamesIn(s, d), q \in NamesIn(s, e) :
        EntryAt(s, d, p).inode = EntryAt(s, e, q).inode => d = e /\ p = q

\* The tree of directories D and files F.
Linked(s, D, F, path) ==
    /\ Marked(s, D, F)
    /\ Ways(s, D, path)
    /\ Leads(s, D, F, path)
    /\ HasNames(s, D, F)
    /\ OneNames(s, D)
    /\ Distinct(s, D)

(* The name of an entry tells what it is.                                  *)
LEMMA LinkKinds ==
  ASSUME NEW s, NEW D, NEW F, NEW path, Linked(s, D, F, path),
         NEW d \in D, NEW p \in Used(s, d)
  PROVE  /\ EntryAt(s, d, p).file_type = FILE => ChildFile(EntryAt(s, d, p), F)
         /\ Directs(EntryAt(s, d, p)) => DirLink(EntryAt(s, d, p), d, D, path)
         /\ EntryAt(s, d, p).file_type = DIR => EntryAt(s, d, p).inode \in D
         /\ EntryAt(s, d, p).file_type \in {FILE, DIR}
         /\ ChildFile(EntryAt(s, d, p), F) => Proper(EntryAt(s, d, p))
         /\ DirLink(EntryAt(s, d, p), d, D, path) => Directs(EntryAt(s, d, p))
         /\ DotLink(EntryAt(s, d, p), d) => ~Proper(EntryAt(s, d, p))
         /\ UpLink(s, d, p, D, path) => ~Proper(EntryAt(s, d, p))
<1> DEFINE e == EntryAt(s, d, p)
<1>1. \/ ChildFile(e, F) \/ DirLink(e, d, D, path) \/ DotLink(e, d)
      \/ UpLink(s, d, p, D, path)
  BY DEF Linked, Leads
<1>2. "." \notin Names /\ ".." \notin Names /\ FILE # DIR
  BY SizesAssumption DEF FILE, DIR
<1>3. ChildFile(e, F) => e.file_type = FILE
  BY DEF ChildFile
<1>4. DirLink(e, d, D, path) => e.file_type = DIR /\ e.name \in Names /\ e.inode \in D
  BY DEF DirLink
<1>5. DotLink(e, d) => e.file_type = DIR /\ e.name = "." /\ e.inode = d
  BY DEF DotLink, NewEntry
<1>6. UpLink(s, d, p, D, path) => e.file_type = DIR /\ e.name = ".." /\ e.inode \in D
  BY DEF UpLink, Above
<1> HIDE DEF e
<1>7. /\ e.file_type = FILE => ChildFile(e, F)
      /\ Directs(e) => DirLink(e, d, D, path)
      /\ e.file_type = DIR => e.inode \in D
      /\ e.file_type \in {FILE, DIR}
  BY <1>1, <1>2, <1>3, <1>4, <1>5, <1>6 DEF Directs
<1>8. /\ ChildFile(e, F) => Proper(e)
      /\ DirLink(e, d, D, path) => Directs(e)
      /\ DotLink(e, d) => ~Proper(e)
      /\ UpLink(s, d, p, D, path) => ~Proper(e)
  BY <1>2, <1>3, <1>4, <1>5, <1>6 DEF Directs, Proper
<1> QED BY <1>7, <1>8 DEF e

(* Linked says what the root reaches.                                      *)
LEMMA LinkedReaches ==
  ASSUME NEW s \in FileSystems, NEW D, NEW F, NEW path, Linked(s, D, F, path)
  PROVE  /\ DirPaths(s) = {<<path[d], d>> : d \in D}
         /\ LiveDirs(s) = D
         /\ LiveFiles(s) = F
<1>1. ASSUME NEW d \in D, NEW p \in Used(s, d)
      PROVE  /\ Directs(EntryAt(s, d, p)) =>
                   /\ EntryAt(s, d, p).name \in Names
                   /\ EntryAt(s, d, p).inode \in D
                   /\ path[EntryAt(s, d, p).inode] = Append(path[d], EntryAt(s, d, p).name)
             /\ EntryAt(s, d, p).file_type = FILE => EntryAt(s, d, p).inode \in F
  BY LinkKinds DEF DirLink, ChildFile
<1>2. D \cap F = {}
  BY DEF Linked, Marked
<1>3. ASSUME NEW n \in D \ {Root}
      PROVE  \E d \in D : \E p \in Used(s, d) :
                Directs(EntryAt(s, d, p)) /\ EntryAt(s, d, p).inode = n
  <2>1. PICK d \in D : \E p \in NamesIn(s, d) : EntryAt(s, d, p).inode = n
    BY DEF Linked, HasNames
  <2>2. PICK p \in NamesIn(s, d) : EntryAt(s, d, p).inode = n
    BY <2>1
  <2> QED BY <1>1, <1>2, <2>2 DEF NamesIn, Proper
<1>4. ASSUME NEW n \in F
      PROVE  \E d \in D : \E p \in Used(s, d) :
                EntryAt(s, d, p).file_type = FILE /\ EntryAt(s, d, p).inode = n
  <2>1. PICK d \in D : \E p \in NamesIn(s, d) : EntryAt(s, d, p).inode = n
    BY DEF Linked, HasNames
  <2>2. PICK p \in NamesIn(s, d) : EntryAt(s, d, p).inode = n
    BY <2>1
  <2> QED BY <1>1, <1>2, <2>2 DEF NamesIn, Proper
<1>5. Rooted(s, D, F, path)
  BY <1>1, <1>3, <1>4 DEF Rooted, Linked, Marked, Ways
<1> QED BY <1>5, RootedReaches
-----------------------------------------------------------------------------
(* What the steps do to a linked tree. *)

(* The entries of d stay, in other slots perhaps: g tells where each was.  *)
MovedBy(s, t, d, g) ==
    /\ g \in [Used(t, d) -> Used(s, d)]
    /\ \A q, r \in Used(t, d) : g[q] = g[r] => q = r
    /\ \A p \in Used(s, d) : \E q \in Used(t, d) : g[q] = p
    /\ \A q \in Used(t, d) : EntryAt(t, d, q) = EntryAt(s, d, g[q])
    /\ \A q \in Used(t, d) : g[q] = <<1, 1>> => q = <<1, 1>>
    /\ <<1, 0>> \in Used(s, d) =>
          /\ <<1, 0>> \in Used(t, d)
          /\ EntryAt(t, d, <<1, 0>>) = EntryAt(s, d, <<1, 0>>)

\* The entries of d stay.
Moved(s, t, d) == \E g : MovedBy(s, t, d, g)

\* Entries that stay where they are have moved nowhere.
LEMMA SameIsMoved ==
  ASSUME NEW s, NEW t, NEW d, SameEntries(s, t, d)
  PROVE  Moved(s, t, d)
<1> DEFINE g == [q \in Used(t, d) |-> q]
<1>1. MovedBy(s, t, d, g)
  BY DEF SameEntries, MovedBy
<1> QED BY <1>1 DEF Moved

\* Marks are only added, and paths may become longer for it.
LEMMA WaysLonger ==
  ASSUME NEW s, NEW t, NEW D, NEW path, Ways(s, D, path),
         IsFiniteSet(t.inode_bitmap), s.inode_bitmap \subseteq t.inode_bitmap
  PROVE  Ways(t, D, path)
<1>1. /\ Cardinality(s.inode_bitmap) \in Nat /\ Cardinality(t.inode_bitmap) \in Nat
      /\ Cardinality(s.inode_bitmap) <= Cardinality(t.inode_bitmap)
  BY FS_Subset, FS_CardinalityType
<1>2. ASSUME NEW d \in D
      PROVE  Len(path[d]) < Cardinality(t.inode_bitmap)
  <2>1. Len(path[d]) < Cardinality(s.inode_bitmap) /\ path[d] \in Seq(Names)
    BY DEF Ways
  <2>2. Len(path[d]) \in Nat
    BY <2>1
  <2> QED BY <1>1, <2>1, <2>2
<1> QED BY <1>2 DEF Ways

\* A tree stays linked when entries only move within their directories.
LEMMA LinkedMoved ==
  ASSUME NEW s, NEW t, NEW D, NEW F, NEW path, Linked(s, D, F, path),
         IsFiniteSet(t.inode_bitmap), s.inode_bitmap \subseteq t.inode_bitmap,
         \A d \in D : Moved(s, t, d)
  PROVE  Linked(t, D, F, path)
<1>1. Marked(t, D, F)
  BY DEF Linked, Marked
<1>2. Ways(t, D, path)
  BY WaysLonger DEF Linked
<1>3. ASSUME NEW d \in D, NEW q \in Used(t, d)
      PROVE  \/ ChildFile(EntryAt(t, d, q), F)
             \/ DirLink(EntryAt(t, d, q), d, D, path)
             \/ DotLink(EntryAt(t, d, q), d)
             \/ UpLink(t, d, q, D, path)
  <2>1. PICK g : MovedBy(s, t, d, g)
    BY DEF Moved
  <2>2. g[q] \in Used(s, d) /\ EntryAt(t, d, q) = EntryAt(s, d, g[q])
    BY <2>1 DEF MovedBy
  <2>3. UpLink(s, d, g[q], D, path) => UpLink(t, d, q, D, path)
    BY <2>1, <2>2 DEF UpLink, MovedBy
  <2> QED BY <2>2, <2>3 DEF Linked, Leads
<1>4. ASSUME NEW n \in (D \ {Root}) \cup F
      PROVE  \E d \in D : \E q \in NamesIn(t, d) : EntryAt(t, d, q).inode = n
  <2>1. PICK d \in D : \E p \in NamesIn(s, d) : EntryAt(s, d, p).inode = n
    BY DEF Linked, HasNames
  <2>2. PICK p \in NamesIn(s, d) : EntryAt(s, d, p).inode = n
    BY <2>1
  <2>3. PICK g : MovedBy(s, t, d, g)
    BY DEF Moved
  <2>4. PICK q \in Used(t, d) : g[q] = p
    BY <2>2, <2>3 DEF NamesIn, MovedBy
  <2>5. EntryAt(t, d, q) = EntryAt(s, d, p)
    BY <2>3, <2>4 DEF MovedBy
  <2> QED BY <2>2, <2>4, <2>5 DEF NamesIn
<1>5. ASSUME NEW d \in D, NEW e \in D, NEW p \in NamesIn(t, d), NEW q \in NamesIn(t, e),
             EntryAt(t, d, p).inode = EntryAt(t, e, q).inode
      PROVE  d = e /\ p = q
  <2>1. PICK g : MovedBy(s, t, d, g)
    BY DEF Moved
  <2>2. PICK h : MovedBy(s, t, e, h)
    BY DEF Moved
  <2>3. g[p] \in NamesIn(s, d) /\ EntryAt(t, d, p) = EntryAt(s, d, g[p])
    BY <2>1 DEF NamesIn, MovedBy
  <2>4. h[q] \in NamesIn(s, e) /\ EntryAt(t, e, q) = EntryAt(s, e, h[q])
    BY <2>2 DEF NamesIn, MovedBy
  <2>5. d = e /\ g[p] = h[q]
    BY <1>5, <2>3, <2>4 DEF Linked, OneNames
  <2>6. p \in Used(t, d) /\ q \in Used(t, d) /\ q \in Used(t, e)
    BY <2>5 DEF NamesIn
  <2>7. h[q] \in Used(s, d) /\ EntryAt(s, d, h[q]).inode = EntryAt(s, d, g[q]).inode
    BY <2>1, <2>2, <2>5, <2>6 DEF MovedBy
  <2>8. g[q] \in NamesIn(s, d)
    BY <2>1, <2>2, <2>4, <2>5, <2>6 DEF MovedBy, NamesIn
  <2>9. g[q] = h[q]
    BY <2>4, <2>5, <2>7, <2>8 DEF Linked, OneNames
  <2> QED BY <2>1, <2>5, <2>6, <2>9 DEF MovedBy
<1>6. Distinct(t, D)
  <2> SUFFICES ASSUME NEW d \in D, NEW p \in Used(t, d), NEW q \in Used(t, d),
                      EntryAt(t, d, p).name = EntryAt(t, d, q).name,
                      EntryAt(t, d, p).file_type = EntryAt(t, d, q).file_type
               PROVE  p = q
    BY DEF Distinct
  <2>1. PICK g : MovedBy(s, t, d, g)
    BY DEF Moved
  <2>2. /\ g[p] \in Used(s, d) /\ EntryAt(t, d, p) = EntryAt(s, d, g[p])
        /\ g[q] \in Used(s, d) /\ EntryAt(t, d, q) = EntryAt(s, d, g[q])
    BY <2>1 DEF MovedBy
  <2>3. g[p] = g[q]
    BY <2>2 DEF Linked, Distinct
  <2> QED BY <2>1, <2>3 DEF MovedBy
<1> QED BY <1>1, <1>2, <1>3, <1>4, <1>5, <1>6 DEF Linked, Leads, HasNames, OneNames

\* Directory n gains entry e, the only name of inode m.
LEMMA LinkedGains ==
  ASSUME NEW s, NEW t, NEW D, NEW F, NEW path, Linked(s, D, F, path),
         NEW n \in D, NEW p, NEW e, Gains(s, t, n, p, e),
         \A d \in D \ {n} : SameEntries(s, t, d),
         NEW m, m \notin D \cup F, e.inode = m,
         \A q \in Used(s, n) : EntryAt(s, n, q).file_type = e.file_type
                                  => EntryAt(s, n, q).name # e.name,
         NEW D2, NEW F2, NEW path2, D \subseteq D2, F \subseteq F2,
         D2 \cup F2 = D \cup F \cup {m},
         Marked(t, D2, F2), Ways(t, D2, path2), \A d \in D : path2[d] = path[d],
         ChildFile(e, F2) \/ DirLink(e, n, D2, path2),
         \A d \in D2 \ D : Used(t, d) = {}
  PROVE  Linked(t, D2, F2, path2)
<1>1. \A d \in D : /\ Used(s, d) \subseteq Used(t, d)
                  /\ \A q \in Used(s, d) : EntryAt(t, d, q) = EntryAt(s, d, q)
  BY DEF Gains, SameEntries
<1>2. ASSUME NEW d \in D2, NEW q \in Used(t, d), d \notin D \/ q \notin Used(s, d)
      PROVE  d = n /\ q = p
  <2>1. d \in D
    OBVIOUS
  <2>2. d = n
    BY <1>2, <2>1 DEF SameEntries
  <2> QED BY <1>2, <2>1, <2>2 DEF Gains
<1>3. p \in Used(t, n) /\ EntryAt(t, n, p) = e /\ p \notin Used(s, n)
  BY DEF Gains
<1>4. Proper(e)
  BY SizesAssumption DEF ChildFile, DirLink, Proper, Directs
<1>5. Leads(t, D2, F2, path2)
  <2> SUFFICES ASSUME NEW d \in D2, NEW q \in Used(t, d)
               PROVE  \/ ChildFile(EntryAt(t, d, q), F2)
                      \/ DirLink(EntryAt(t, d, q), d, D2, path2)
                      \/ DotLink(EntryAt(t, d, q), d)
                      \/ UpLink(t, d, q, D2, path2)
    BY DEF Leads
  <2>1. CASE d = n /\ q = p
    BY <2>1, <1>3
  <2>2. CASE d \in D /\ q \in Used(s, d)
    <3>1. EntryAt(t, d, q) = EntryAt(s, d, q)
      BY <2>2, <1>1
    <3>2. ChildFile(EntryAt(s, d, q), F) => ChildFile(EntryAt(t, d, q), F2)
      BY <3>1 DEF ChildFile
    <3>3. DirLink(EntryAt(s, d, q), d, D, path) => DirLink(EntryAt(t, d, q), d, D2, path2)
      BY <2>2, <3>1 DEF DirLink
    <3>4. UpLink(s, d, q, D, path) => UpLink(t, d, q, D2, path2)
      BY <2>2, <3>1, <1>1 DEF UpLink, Above
    <3> QED BY <2>2, <3>1, <3>2, <3>3, <3>4 DEF Linked, Leads
  <2> QED BY <2>1, <2>2, <1>2
<1>6. HasNames(t, D2, F2)
  <2> SUFFICES ASSUME NEW x \in (D2 \ {Root}) \cup F2
               PROVE  \E d \in D2 : \E q \in NamesIn(t, d) : EntryAt(t, d, q).inode = x
    BY DEF HasNames
  <2>1. CASE x = m
    BY <2>1, <1>3, <1>4 DEF NamesIn
  <2>2. CASE x # m
    <3>1. x \in (D \ {Root}) \cup F
      BY <2>2 DEF Marked
    <3>2. PICK d \in D : \E q \in NamesIn(s, d) : EntryAt(s, d, q).inode = x
      BY <3>1 DEF Linked, HasNames
    <3>3. PICK q \in NamesIn(s, d) : EntryAt(s, d, q).inode = x
      BY <3>2
    <3> QED BY <3>3, <1>1 DEF NamesIn
  <2> QED BY <2>1, <2>2
<1>7. ASSUME NEW d \in D, NEW q \in NamesIn(s, d)
      PROVE  EntryAt(s, d, q).inode # m
  <2>1. q \in Used(s, d) /\ Proper(EntryAt(s, d, q))
    BY DEF NamesIn
  <2>2. ChildFile(EntryAt(s, d, q), F) \/ DirLink(EntryAt(s, d, q), d, D, path)
    BY <2>1, LinkKinds DEF Proper
  <2> QED BY <2>2 DEF ChildFile, DirLink
<1>8. OneNames(t, D2)
  <2> SUFFICES ASSUME NEW d \in D2, NEW c \in D2,
                      NEW q \in NamesIn(t, d), NEW r \in NamesIn(t, c),
                      EntryAt(t, d, q).inode = EntryAt(t, c, r).inode
               PROVE  d = c /\ q = r
    BY DEF OneNames
  <2>1. q \in Used(t, d) /\ r \in Used(t, c)
    BY DEF NamesIn
  <2>2. ASSUME d \in D, q \in Used(s, d)
        PROVE  q \in NamesIn(s, d) /\ EntryAt(t, d, q) = EntryAt(s, d, q)
    BY <2>2, <1>1 DEF NamesIn
  <2>3. ASSUME c \in D, r \in Used(s, c)
        PROVE  r \in NamesIn(s, c) /\ EntryAt(t, c, r) = EntryAt(s, c, r)
    BY <2>3, <1>1 DEF NamesIn
  <2>4. CASE (d \in D /\ q \in Used(s, d)) /\ (c \in D /\ r \in Used(s, c))
    BY <2>2, <2>3, <2>4 DEF Linked, OneNames
  <2>5. CASE (d \in D /\ q \in Used(s, d)) /\ ~(c \in D /\ r \in Used(s, c))
    BY <2>1, <2>2, <2>5, <1>2, <1>3, <1>7
  <2>6. CASE ~(d \in D /\ q \in Used(s, d)) /\ (c \in D /\ r \in Used(s, c))
    BY <2>1, <2>3, <2>6, <1>2, <1>3, <1>7
  <2>7. CASE ~(d \in D /\ q \in Used(s, d)) /\ ~(c \in D /\ r \in Used(s, c))
    BY <2>1, <2>7, <1>2
  <2> QED BY <2>4, <2>5, <2>6, <2>7
<1>9. Distinct(t, D2)
  <2> SUFFICES ASSUME NEW d \in D2, NEW q \in Used(t, d), NEW r \in Used(t, d),
                      EntryAt(t, d, q).name = EntryAt(t, d, r).name,
                      EntryAt(t, d, q).file_type = EntryAt(t, d, r).file_type
               PROVE  q = r
    BY DEF Distinct
  <2>0. d \in D
    OBVIOUS
  <2>1. CASE q \in Used(s, d) /\ r \in Used(s, d)
    BY <2>0, <2>1, <1>1 DEF Linked, Distinct
  <2>2. CASE q \in Used(s, d) /\ r \notin Used(s, d)
    BY <2>0, <2>2, <1>1, <1>2, <1>3
  <2>3. CASE q \notin Used(s, d) /\ r \in Used(s, d)
    BY <2>0, <2>3, <1>1, <1>2, <1>3
  <2>4. CASE q \notin Used(s, d) /\ r \notin Used(s, d)
    BY <2>0, <2>4, <1>2
  <2> QED BY <2>1, <2>2, <2>3, <2>4
<1> QED BY <1>5, <1>6, <1>8, <1>9 DEF Linked

\* The tree with the new file or the new directory m in it.
NewDirs(D, m, type) == IF type = DIR THEN D \cup {m} ELSE D
NewFiles(F, m, type) == IF type = FILE THEN F \cup {m} ELSE F
NewPath(path, D, n, m, type, name) ==
    IF type = DIR THEN Extended(path, D, m, Append(path[n], name)) ELSE path

\* A name added to directory n adds one file or one empty directory to the
\* tree.
LEMMA LinkedAdd ==
  ASSUME NEW s, NEW t, NEW D, NEW F, NEW path, Linked(s, D, F, path),
         NEW n \in D, NEW p, NEW m, NEW type \in {FILE, DIR}, NEW name,
         type = FILE => name \in FileNames,
         type = DIR => name \in Names,
         IsFiniteSet(s.inode_bitmap), m \notin s.inode_bitmap,
         t.inode_bitmap = s.inode_bitmap \cup {m},
         Gains(s, t, n, p, NewEntry(m, type, name)),
         \A q \in Used(s, n) : EntryAt(s, n, q).file_type = type
                                    => EntryAt(s, n, q).name # name,
         \A d \in D \ {n} : SameEntries(s, t, d),
         Used(t, m) = {}
  PROVE  Linked(t, NewDirs(D, m, type), NewFiles(F, m, type),
                NewPath(path, D, n, m, type, name))
<1> DEFINE e == NewEntry(m, type, name)
           D2 == NewDirs(D, m, type)
           F2 == NewFiles(F, m, type)
           path2 == NewPath(path, D, n, m, type, name)
<1>0. FILE # DIR
  BY DEF FILE, DIR
<1>1. e.inode = m /\ e.file_type = type /\ e.name = name
  BY DEF NewEntry
<1>2. m \notin D \cup F /\ m # Root
  BY DEF Linked, Marked
<1>3. /\ D \subseteq D2 /\ F \subseteq F2 /\ D2 \cup F2 = D \cup F \cup {m}
      /\ D2 \subseteq D \cup {m}
      /\ \A d \in D : path2[d] = path[d]
      /\ type = DIR => path2[m] = Append(path[n], name) /\ m \in D2
      /\ type = FILE => m \in F2
  BY <1>0, <1>2 DEF NewDirs, NewFiles, NewPath, Extended
<1>4. Marked(t, D2, F2)
  BY <1>0, <1>2 DEF Linked, Marked, NewDirs, NewFiles
<1>5. Ways(t, D2, path2)
  <2>0. IsFiniteSet(t.inode_bitmap)
    BY FS_AddElement
  <2>1. Ways(t, D, path)
    BY <2>0, WaysLonger DEF Linked
  <2>2. CASE type = FILE
    BY <1>0, <2>1, <2>2 DEF NewDirs, NewPath
  <2>3. CASE type = DIR
    <3>1. /\ Cardinality(t.inode_bitmap) = Cardinality(s.inode_bitmap) + 1
          /\ Cardinality(s.inode_bitmap) \in Nat
      BY FS_AddElement, FS_CardinalityType
    <3>2. \A d \in D : path[d] \in Seq(Names) /\ Len(path[d]) \in Nat
                        /\ Len(path[d]) < Cardinality(s.inode_bitmap)
      BY DEF Linked, Ways
    <3>3. /\ name \in Names
          /\ Append(path[n], name) \in Seq(Names)
          /\ Len(Append(path[n], name)) = Len(path[n]) + 1
      BY <2>3, <3>2
    <3>4. D2 = D \cup {m} /\ path2 = Extended(path, D, m, Append(path[n], name))
      BY <2>3 DEF NewDirs, NewPath
    <3>5. path2 \in [D2 -> Seq(Names)]
      BY <3>2, <3>3, <3>4 DEF Extended
    <3>6. \A d \in D2 : Len(path2[d]) < Cardinality(t.inode_bitmap)
      BY <1>3, <2>3, <3>1, <3>2, <3>3
    <3>7. ASSUME NEW d \in D PROVE path[d] # Append(path[n], name)
      <4> SUFFICES ASSUME path[d] = Append(path[n], name) PROVE FALSE
        OBVIOUS
      <4>1. d # Root
        BY <3>2, <3>3 DEF Linked, Ways
      <4>2. PICK c \in D : \E q \in NamesIn(s, c) : EntryAt(s, c, q).inode = d
        BY <4>1 DEF Linked, HasNames
      <4>3. PICK q \in NamesIn(s, c) : EntryAt(s, c, q).inode = d
        BY <4>2
      <4>4. q \in Used(s, c) /\ DirLink(EntryAt(s, c, q), c, D, path)
        <5>1. q \in Used(s, c) /\ Proper(EntryAt(s, c, q)) /\ d \notin F
          BY DEF NamesIn, Linked, Marked
        <5> QED BY <4>3, <5>1, LinkKinds DEF Proper, ChildFile
      <4> DEFINE x == EntryAt(s, c, q).name
      <4>5. x \in Names /\ Append(path[n], name) = Append(path[c], x)
        BY <4>3, <4>4 DEF DirLink
      <4> HIDE DEF x
      <4>6. path[n] = path[c] /\ name = x
        BY <3>2, <3>3, <4>5, AppendInjective
      <4>7. n = c /\ name = EntryAt(s, c, q).name
        BY <4>6 DEF Linked, Ways, x
      <4> QED BY <2>3, <4>4, <4>6, <4>7 DEF DirLink
    <3>8. \A d, c \in D2 : path2[d] = path2[c] => d = c
      <4>1. path2[m] = Append(path[n], name) /\ \A d \in D : path2[d] = path[d]
        BY <1>3, <2>3
      <4>2. \A d, c \in D : path[d] = path[c] => d = c
        BY DEF Linked, Ways
      <4> QED BY <3>4, <3>7, <4>1, <4>2
    <3> QED BY <1>2, <1>3, <3>5, <3>6, <3>8 DEF Linked, Marked, Ways
  <2> QED BY <2>2, <2>3
<1>6. ChildFile(e, F2) \/ DirLink(e, n, D2, path2)
  BY <1>0, <1>1, <1>2, <1>3 DEF ChildFile, DirLink
<1>7. \A d \in D2 \ D : Used(t, d) = {}
  BY <1>3
<1> HIDE DEF e, D2, F2, path2
<1>8. Gains(s, t, n, p, e)
  BY DEF e
<1>9. Linked(t, D2, F2, path2)
  BY <1>1, <1>2, <1>3, <1>4, <1>5, <1>6, <1>7, <1>8, LinkedGains
<1> QED BY <1>9 DEF D2, F2, path2

\* The new directory m gets its block, with "." and "..".
LEMMA LinkedPrepared ==
  ASSUME NEW s, NEW t, NEW D, NEW F, NEW path, Linked(s, D, F, path),
         NEW m \in D \ {Root}, NEW n \in D, NEW x \in Names, path[m] = Append(path[n], x),
         t.inode_bitmap = s.inode_bitmap,
         \A d \in D \ {m} : SameEntries(s, t, d),
         Used(s, m) = {}, Used(t, m) = Dots,
         EntryAt(t, m, <<1, 0>>) = NewEntry(m, DIR, "."),
         EntryAt(t, m, <<1, 1>>) = NewEntry(n, DIR, "..")
  PROVE  Linked(t, D, F, path)
<1>1. Marked(t, D, F) /\ Ways(t, D, path)
  BY DEF Linked, Marked, Ways
<1>2. /\ \A q \in Used(t, m) : q = <<1, 0>> \/ q = <<1, 1>>
      /\ <<1, 0>> \in Used(t, m)
  BY DEF Dots
<1>3. NamesIn(t, m) = {} /\ NamesIn(s, m) = {}
  <2>1. DIR # FILE
    BY DEF FILE, DIR
  <2>2. ASSUME NEW q \in Used(t, m)
        PROVE  /\ EntryAt(t, m, q).file_type = DIR
               /\ EntryAt(t, m, q).name \in {".", ".."}
    <3>1. CASE q = <<1, 0>>
      BY <3>1 DEF NewEntry
    <3>2. CASE q = <<1, 1>>
      BY <3>2 DEF NewEntry
    <3> QED BY <1>2, <3>1, <3>2
  <2> QED BY <2>1, <2>2 DEF NamesIn, Proper, Directs
<1>4. \A d \in D : NamesIn(t, d) = NamesIn(s, d)
  BY <1>3 DEF SameEntries, NamesIn
<1>5. \A d \in D : \A q \in NamesIn(s, d) : EntryAt(t, d, q) = EntryAt(s, d, q)
  BY <1>3 DEF SameEntries, NamesIn
<1>6. Leads(t, D, F, path)
  <2> SUFFICES ASSUME NEW d \in D, NEW q \in Used(t, d)
               PROVE  \/ ChildFile(EntryAt(t, d, q), F)
                      \/ DirLink(EntryAt(t, d, q), d, D, path)
                      \/ DotLink(EntryAt(t, d, q), d)
                      \/ UpLink(t, d, q, D, path)
    BY DEF Leads
  <2>1. CASE d = m /\ q = <<1, 0>>
    BY <2>1 DEF DotLink
  <2>2. CASE d = m /\ q = <<1, 1>>
    BY <2>2, <1>2 DEF UpLink, Above, NewEntry
  <2>3. CASE d # m
    <3>1. q \in Used(s, d) /\ EntryAt(t, d, q) = EntryAt(s, d, q)
      BY <2>3 DEF SameEntries
    <3>2. UpLink(s, d, q, D, path) => UpLink(t, d, q, D, path)
      BY <2>3 DEF SameEntries, UpLink
    <3> QED BY <3>1, <3>2 DEF Linked, Leads
  <2> QED BY <2>1, <2>2, <2>3, <1>2
<1>7. HasNames(t, D, F)
  BY <1>4, <1>5 DEF Linked, HasNames
<1>8. OneNames(t, D)
  BY <1>4, <1>5 DEF Linked, OneNames
<1>9. Distinct(t, D)
  <2> SUFFICES ASSUME NEW d \in D, NEW q \in Used(t, d), NEW r \in Used(t, d),
                      EntryAt(t, d, q).name = EntryAt(t, d, r).name,
                      EntryAt(t, d, q).file_type = EntryAt(t, d, r).file_type
               PROVE  q = r
    BY DEF Distinct
  <2>1. CASE d = m
    <3>1. EntryAt(t, m, <<1, 0>>).name = "." /\ EntryAt(t, m, <<1, 1>>).name = ".."
      BY DEF NewEntry
    <3>2. "." # ".."
      OBVIOUS
    <3>3. CASE q = <<1, 0>>
      BY <2>1, <3>1, <3>2, <3>3, <1>2
    <3>4. CASE q = <<1, 1>>
      BY <2>1, <3>1, <3>2, <3>4, <1>2
    <3> QED BY <2>1, <3>3, <3>4, <1>2
  <2>2. CASE d # m
    BY <2>2 DEF SameEntries, Linked, Distinct
  <2> QED BY <2>1, <2>2
<1> QED BY <1>1, <1>6, <1>7, <1>8, <1>9 DEF Linked

\* The files that the directories of E name.
NamedBy(s, E, F) == {f \in F : \E d \in E : \E q \in NamesIn(s, d) : EntryAt(s, d, q).inode = f}

\* Directory n loses a name, and with it what only that name led to: the
\* directories of E stay.
LEMMA LinkedLess ==
  ASSUME NEW s, NEW t, NEW D, NEW F, NEW path, Linked(s, D, F, path),
         NEW n, NEW p, Loses(s, t, n, p),
         \A d \in D \ {n} : SameEntries(s, t, d),
         t.inode_bitmap = s.inode_bitmap,
         EntryAt(s, n, p).file_type = FILE \/ Directs(EntryAt(s, n, p)),
         NEW E \in SUBSET D, Root \in E, n \in E,
         \A d \in E : \A q \in Used(t, d) :
             Directs(EntryAt(t, d, q)) => EntryAt(t, d, q).inode \in E,
         \A x \in E \ {Root} : \E d \in E : \E q \in NamesIn(t, d) : EntryAt(t, d, q).inode = x,
         \A d \in E : \A u \in D : \A x \in Names : path[d] = Append(path[u], x) => u \in E
  PROVE  Linked(t, E, NamedBy(t, E, F), [d \in E |-> path[d]])
<1> DEFINE G == NamedBy(t, E, F)
           way == [d \in E |-> path[d]]
<1>0. G \in SUBSET F /\ \A d \in E : way[d] = path[d]
  BY DEF NamedBy
<1>1. Marked(t, E, G) /\ Ways(t, E, way)
  <2>1. Marked(t, E, G)
    BY <1>0 DEF Linked, Marked
  <2>2. way \in [E -> Seq(Names)]
    BY DEF Linked, Ways
  <2> QED BY <1>0, <2>1, <2>2 DEF Linked, Ways
<1>2. ASSUME NEW d \in E
      PROVE  /\ Used(t, d) \subseteq Used(s, d)
             /\ \A q \in Used(t, d) : EntryAt(t, d, q) = EntryAt(s, d, q)
             /\ NamesIn(t, d) \subseteq NamesIn(s, d)
             /\ \A q \in Used(s, d) : ~Proper(EntryAt(s, d, q)) => q \in Used(t, d)
  <2>1. CASE d = n
    BY <2>1 DEF Loses, NamesIn, Proper
  <2>2. CASE d # n
    BY <2>2 DEF SameEntries, NamesIn
  <2> QED BY <2>1, <2>2
<1> HIDE DEF way
<1>3. Leads(t, E, G, way)
  <2> SUFFICES ASSUME NEW d \in E, NEW q \in Used(t, d)
               PROVE  \/ ChildFile(EntryAt(t, d, q), G)
                      \/ DirLink(EntryAt(t, d, q), d, E, way)
                      \/ DotLink(EntryAt(t, d, q), d)
                      \/ UpLink(t, d, q, E, way)
    BY DEF Leads
  <2>1. q \in Used(s, d) /\ EntryAt(t, d, q) = EntryAt(s, d, q)
    BY <1>2
  <2>2. ChildFile(EntryAt(s, d, q), F) => ChildFile(EntryAt(t, d, q), G)
    BY <2>1 DEF ChildFile, NamedBy, NamesIn, Proper
  <2>3. DirLink(EntryAt(s, d, q), d, D, path) => DirLink(EntryAt(t, d, q), d, E, way)
    <3> SUFFICES ASSUME DirLink(EntryAt(s, d, q), d, D, path)
                 PROVE  DirLink(EntryAt(t, d, q), d, E, way)
      OBVIOUS
    <3>1. EntryAt(t, d, q).inode \in E
      BY <2>1, LinkKinds
    <3> QED BY <3>1, <2>1, <1>0 DEF DirLink
  <2>4. UpLink(s, d, q, D, path) => UpLink(t, d, q, E, way)
    <3> SUFFICES ASSUME UpLink(s, d, q, D, path) PROVE UpLink(t, d, q, E, way)
      OBVIOUS
    <3>1. Above(d, EntryAt(s, d, q).inode, E, way)
      BY <1>0 DEF UpLink, Above
    <3>2. <<1, 0>> \in Used(s, d) /\ EntryAt(s, d, <<1, 0>>).inode = d
      BY DEF UpLink
    <3>3. <<1, 0>> \in Used(t, d)
      <4> SUFFICES ASSUME Proper(EntryAt(s, d, <<1, 0>>)) PROVE FALSE
        BY <3>2, <1>2
      <4>1. DirLink(EntryAt(s, d, <<1, 0>>), d, D, path)
        <5>1. d \notin F
          BY DEF Linked, Marked
        <5> QED BY <3>2, <5>1, LinkKinds DEF Proper, ChildFile
      <4>2. path[d] = Append(path[d], EntryAt(s, d, <<1, 0>>).name)
        BY <4>1, <3>2 DEF DirLink
      <4>3. path[d] \in Seq(Names) /\ EntryAt(s, d, <<1, 0>>).name \in Names
        BY <4>1 DEF Linked, Ways, DirLink
      <4>4. Len(Append(path[d], EntryAt(s, d, <<1, 0>>).name)) = Len(path[d]) + 1
            /\ Len(path[d]) \in Nat
        BY <4>3
      <4> QED BY <4>2, <4>4
    <3>4. EntryAt(t, d, <<1, 0>>) = EntryAt(s, d, <<1, 0>>)
      BY <3>3, <1>2
    <3> QED BY <3>1, <3>2, <3>3, <3>4, <2>1 DEF UpLink
  <2> QED BY <2>1, <2>2, <2>3, <2>4 DEF Linked, Leads
<1>4. HasNames(t, E, G)
  BY DEF HasNames, NamedBy
<1>5. OneNames(t, E)
  <2> SUFFICES ASSUME NEW d \in E, NEW c \in E, NEW q \in NamesIn(t, d), NEW r \in NamesIn(t, c),
                      EntryAt(t, d, q).inode = EntryAt(t, c, r).inode
               PROVE  d = c /\ q = r
    BY DEF OneNames
  <2>1. /\ q \in NamesIn(s, d) /\ EntryAt(t, d, q) = EntryAt(s, d, q)
        /\ r \in NamesIn(s, c) /\ EntryAt(t, c, r) = EntryAt(s, c, r)
    BY <1>2 DEF NamesIn
  <2> QED BY <2>1 DEF Linked, OneNames
<1>6. Distinct(t, E)
  BY <1>2 DEF Linked, Distinct
<1> QED BY <1>1, <1>3, <1>4, <1>5, <1>6 DEF Linked, way

\* Directory n loses the name of file c.
LEMMA LinkedLoseFile ==
  ASSUME NEW s, NEW t, NEW D, NEW F, NEW path, Linked(s, D, F, path),
         NEW n \in D, NEW p, Loses(s, t, n, p),
         \A d \in D \ {n} : SameEntries(s, t, d),
         t.inode_bitmap = s.inode_bitmap,
         EntryAt(s, n, p).file_type = FILE,
         NEW c, c = EntryAt(s, n, p).inode
  PROVE  c \in F /\ Linked(t, D, F \ {c}, path)
<1>1. p \in Used(s, n) /\ p \in NamesIn(s, n) /\ p \notin Used(t, n)
  BY DEF Loses, NamesIn, Proper
<1>2. c \in F
  BY <1>1, LinkKinds DEF ChildFile
<1>3. \A d \in D : /\ Used(t, d) \subseteq Used(s, d)
                  /\ \A q \in Used(t, d) : EntryAt(t, d, q) = EntryAt(s, d, q)
  BY DEF Loses, SameEntries
<1>3a. ASSUME NEW d \in D, NEW q \in Used(s, d), d # n \/ q # p
       PROVE  q \in Used(t, d)
  BY <1>3a DEF Loses, SameEntries
<1>4. ASSUME NEW x \in (D \ {Root}) \cup F, x # c
      PROVE  \E d \in D : \E q \in NamesIn(t, d) : EntryAt(t, d, q).inode = x
  <2>1. PICK d \in D : \E q \in NamesIn(s, d) : EntryAt(s, d, q).inode = x
    BY DEF Linked, HasNames
  <2>2. PICK q \in NamesIn(s, d) : EntryAt(s, d, q).inode = x
    BY <2>1
  <2>2a. q \in Used(s, d) /\ (d # n \/ q # p)
    BY <1>4, <2>2 DEF NamesIn
  <2>3. q \in Used(t, d)
    BY <1>3a, <2>2a
  <2> QED BY <1>3, <2>2, <2>3 DEF NamesIn
<1>5. ASSUME NEW d \in D, NEW q \in NamesIn(t, d)
      PROVE  EntryAt(t, d, q).inode # c
  <2>1. q \in NamesIn(s, d) /\ EntryAt(t, d, q) = EntryAt(s, d, q) /\ q \in Used(t, d)
    BY <1>3 DEF NamesIn
  <2>2. EntryAt(s, d, q).inode = c => d = n /\ q = p
    BY <1>1, <2>1 DEF Linked, OneNames
  <2> QED BY <1>1, <2>1, <2>2
<1>6. NamedBy(t, D, F) = F \ {c}
  BY <1>4, <1>5 DEF NamedBy
<1>7. c \notin D
  BY <1>2 DEF Linked, Marked
<1>8. ASSUME NEW d \in D, NEW q \in Used(t, d), Directs(EntryAt(t, d, q))
      PROVE  EntryAt(t, d, q).inode \in D
  BY <1>3, <1>8, LinkKinds DEF DirLink
<1>9. Root \in D /\ [d \in D |-> path[d]] = path
  BY DEF Linked, Marked, Ways
<1>10. \A x \in D \ {Root} : \E d \in D : \E q \in NamesIn(t, d) : EntryAt(t, d, q).inode = x
  BY <1>4, <1>7
<1>11. Linked(t, D, NamedBy(t, D, F), [d \in D |-> path[d]])
  BY <1>8, <1>9, <1>10, LinkedLess
<1> QED BY <1>2, <1>6, <1>9, <1>11

(* rmdir looks at the size only: what the directory still held goes with   *)
(* it, whole subtrees if need be.                                          *)
Under(a, b) == Len(a) <= Len(b) /\ \A i \in 1 .. Len(a) : a[i] = b[i]

\* The directories that stay when c goes.
Kept(D, path, c) == {d \in D : ~Under(path[c], path[d])}

\* A path one name longer is under the same paths, and under itself.
LEMMA UnderAppend ==
  ASSUME NEW a \in Seq(Names), NEW b \in Seq(Names), NEW x \in Names
  PROVE  /\ Under(a, b) => Under(a, Append(b, x))
         /\ Under(a, Append(b, x)) => Under(a, b) \/ a = Append(b, x)
         /\ ~Under(Append(a, x), a)
         /\ Under(a, a)
<1>1. /\ Append(b, x) \in Seq(Names) /\ Len(Append(b, x)) = Len(b) + 1
      /\ \A i \in 1 .. Len(b) : Append(b, x)[i] = b[i]
      /\ Len(a) \in Nat /\ Len(b) \in Nat /\ Len(Append(a, x)) = Len(a) + 1
  OBVIOUS
<1>2. Under(a, b) => Under(a, Append(b, x))
  BY <1>1 DEF Under
<1>3. ASSUME Under(a, Append(b, x)), ~Under(a, b)
      PROVE  a = Append(b, x)
  <2>1. Len(a) <= Len(b) + 1 /\ \A i \in 1 .. Len(a) : a[i] = Append(b, x)[i]
    BY <1>1, <1>3 DEF Under
  <2>2. ~(Len(a) <= Len(b))
    BY <1>1, <1>3, <2>1 DEF Under
  <2>3. Len(a) = Len(Append(b, x))
    BY <1>1, <2>1, <2>2
  <2> QED BY <1>1, <2>1, <2>3
<1> QED BY <1>1, <1>2, <1>3 DEF Under

\* Without its name, the directory at p takes along everything under it.
LEMMA LinkedLoseDir ==
  ASSUME NEW s, NEW t, NEW D, NEW F, NEW path, Linked(s, D, F, path),
         NEW n \in D, NEW p, Loses(s, t, n, p),
         \A d \in D \ {n} : SameEntries(s, t, d),
         t.inode_bitmap = s.inode_bitmap,
         Directs(EntryAt(s, n, p)),
         NEW c, c = EntryAt(s, n, p).inode,
         NEW E, E = Kept(D, path, c)
  PROVE  /\ c \in D \ {Root, n}
         /\ n \in E /\ c \notin E
         /\ Linked(t, E, NamedBy(t, E, F), [d \in E |-> path[d]])
<1>1. p \in Used(s, n) /\ p \in NamesIn(s, n) /\ p \notin Used(t, n)
  BY DEF Loses, NamesIn, Proper
<1>2. DirLink(EntryAt(s, n, p), n, D, path)
  BY <1>1, LinkKinds
<1>3. /\ c \in D \ {Root} /\ EntryAt(s, n, p).name \in Names
      /\ path[c] = Append(path[n], EntryAt(s, n, p).name)
  BY <1>2 DEF DirLink
<1>4. /\ \A d \in D : path[d] \in Seq(Names)
      /\ \A d, e \in D : path[d] = path[e] => d = e
      /\ path[Root] = <<>> /\ Root \in D
  BY DEF Linked, Ways, Marked
<1>5. \A d \in D : /\ Used(t, d) \subseteq Used(s, d)
                  /\ \A q \in Used(t, d) : EntryAt(t, d, q) = EntryAt(s, d, q)
  BY DEF Loses, SameEntries
<1>5a. ASSUME NEW d \in D, NEW q \in Used(s, d), d # n \/ q # p
       PROVE  q \in Used(t, d)
  BY <1>5a DEF Loses, SameEntries
<1>6. n \in E /\ c \notin E /\ c # n
  <2> PICK x : x = EntryAt(s, n, p).name
    OBVIOUS
  <2>0. /\ path[n] \in Seq(Names) /\ path[c] \in Seq(Names)
        /\ x \in Names /\ path[c] = Append(path[n], x)
    <3>1. c \in D /\ x \in Names /\ path[c] = Append(path[n], x)
      BY <1>3
    <3>2. \A d \in D : path[d] \in Seq(Names)
      BY <1>4
    <3> QED BY <3>1, <3>2
  <2>1. ~Under(Append(path[n], x), path[n]) /\ Under(path[c], path[c])
    BY <2>0, UnderAppend
  <2> QED BY <1>3, <2>0, <2>1 DEF Kept
<1>7. Root \in E
  <2>1. Len(path[c]) > 0
    <3>1. PICK a \in Seq(Names), x \in Names : path[c] = Append(a, x)
      BY <1>3, <1>4
    <3>2. Len(Append(a, x)) = Len(a) + 1 /\ Len(a) \in Nat
      OBVIOUS
    <3>3. Len(Append(a, x)) > 0
      BY <3>2
    <3> QED BY <3>1, <3>2, <3>3
  <2>2. ~Under(path[c], path[Root])
    BY <1>4, <2>1 DEF Under
  <2> QED BY <1>4, <2>2 DEF Kept
<1>8. ASSUME NEW d \in E, NEW q \in Used(t, d), Directs(EntryAt(t, d, q))
      PROVE  EntryAt(t, d, q).inode \in E
  <2> DEFINE x == EntryAt(t, d, q).inode
  <2>1. d \in D /\ q \in Used(s, d) /\ EntryAt(t, d, q) = EntryAt(s, d, q)
    BY <1>5 DEF Kept
  <2>2. DirLink(EntryAt(s, d, q), d, D, path)
    BY <1>8, <2>1, LinkKinds
  <2>3. x \in D /\ EntryAt(s, d, q).name \in Names /\ path[x] = Append(path[d], EntryAt(s, d, q).name)
    BY <2>1, <2>2 DEF DirLink
  <2>4. x # c
    <3> SUFFICES ASSUME x = c PROVE FALSE
      OBVIOUS
    <3>1. q \in NamesIn(s, d)
      BY <1>8, <2>1 DEF NamesIn, Proper
    <3>2. EntryAt(s, d, q).inode = EntryAt(s, n, p).inode
      BY <2>1
    <3>3. d = n /\ q = p
      BY <1>1, <2>1, <3>1, <3>2 DEF Linked, OneNames
    <3> QED BY <1>1, <3>3
  <2> HIDE DEF x
  <2> DEFINE y == EntryAt(s, d, q).name
  <2>5. ~Under(path[c], path[d])
    BY DEF Kept
  <2>6. /\ path[d] \in Seq(Names) /\ path[c] \in Seq(Names)
        /\ y \in Names /\ path[x] = Append(path[d], y) /\ path[x] # path[c]
    BY <1>3, <1>4, <2>1, <2>3, <2>4
  <2> HIDE DEF y
  <2>7. ~Under(path[c], path[x])
    BY <2>5, <2>6, UnderAppend
  <2> QED BY <2>3, <2>7 DEF Kept, x
<1>9. ASSUME NEW x \in E \ {Root}
      PROVE  \E d \in E : \E q \in NamesIn(t, d) : EntryAt(t, d, q).inode = x
  <2>1. x \in D /\ x # c /\ ~Under(path[c], path[x])
    BY <1>6 DEF Kept
  <2>2. PICK d \in D : \E q \in NamesIn(s, d) : EntryAt(s, d, q).inode = x
    BY <2>1 DEF Linked, HasNames
  <2>3. PICK q \in NamesIn(s, d) : EntryAt(s, d, q).inode = x
    BY <2>2
  <2>4. q \in Used(s, d) /\ Proper(EntryAt(s, d, q)) /\ x \notin F
    BY <2>1 DEF NamesIn, Linked, Marked
  <2>5. DirLink(EntryAt(s, d, q), d, D, path)
    BY <2>3, <2>4, LinkKinds DEF Proper, ChildFile
  <2>6. path[x] = Append(path[d], EntryAt(s, d, q).name) /\ EntryAt(s, d, q).name \in Names
    BY <2>3, <2>5 DEF DirLink
  <2> DEFINE y == EntryAt(s, d, q).name
  <2>6a. /\ path[d] \in Seq(Names) /\ path[c] \in Seq(Names)
         /\ y \in Names /\ path[x] = Append(path[d], y)
    BY <1>3, <1>4, <2>6
  <2> HIDE DEF y
  <2>7. ~Under(path[c], path[d])
    BY <2>1, <2>6a, UnderAppend
  <2>7a. d # n \/ q # p
    BY <2>1, <2>3
  <2>8. q \in Used(t, d)
    BY <1>5a, <2>4, <2>7a
  <2> QED BY <1>5, <2>3, <2>7, <2>8 DEF Kept, NamesIn
<1>10. ASSUME NEW d \in E, NEW u \in D, NEW x \in Names, path[d] = Append(path[u], x)
       PROVE  u \in E
  <2>1. d \in D /\ ~Under(path[c], path[d])
    BY DEF Kept
  <2>2. ~Under(path[c], path[u])
    <3>1. path[u] \in Seq(Names) /\ path[c] \in Seq(Names)
      BY <1>3, <1>4
    <3> QED BY <3>1, <1>10, <2>1, UnderAppend
  <2> QED BY <2>2 DEF Kept
<1>11. E \in SUBSET D
  BY DEF Kept
<1>12. Linked(t, E, NamedBy(t, E, F), [d \in E |-> path[d]])
  BY <1>6, <1>7, <1>8, <1>9, <1>10, <1>11, LinkedLess
<1> QED BY <1>3, <1>6, <1>12
-----------------------------------------------------------------------------
(* The paths of a linked tree, with their types.                           *)

\* y is the path of a directory, or of a file that one of them names.
OnPath(s, D, path, y) ==
    \/ \E d \in D : y = <<path[d], DIR>>
    \/ \E d \in D : \E p \in Used(s, d) :
          /\ EntryAt(s, d, p).file_type = FILE
          /\ y = <<Append(path[d], EntryAt(s, d, p).name), FILE>>

\* FilePaths follows the entries of type FILE.
LEMMA FilesLinked ==
  ASSUME NEW s \in FileSystems, NEW D, NEW F, NEW path, Linked(s, D, F, path), NEW y
  PROVE  y \in FilePaths(s) <=>
            \E d \in D : \E p \in Used(s, d) :
                /\ EntryAt(s, d, p).file_type = FILE
                /\ y = <<Append(path[d], EntryAt(s, d, p).name), EntryAt(s, d, p).inode>>
<1>1. PICK from : from = DirPaths(s)
  OBVIOUS
<1>2. from = {<<path[d], d>> : d \in D}
  BY <1>1, LinkedReaches
<1>3. FILE # DIR
  BY DEF FILE, DIR
<1>4. FilePaths(s) = Named(s, from, FILE)
  BY <1>1 DEF FilePaths
<1>5. ASSUME y \in Named(s, from, FILE)
      PROVE  \E d \in D : \E p \in Used(s, d) :
                /\ EntryAt(s, d, p).file_type = FILE
                /\ y = <<Append(path[d], EntryAt(s, d, p).name), EntryAt(s, d, p).inode>>
  <2>1. PICK x \in from : \E p \in Used(s, x[2]) :
              /\ EntryAt(s, x[2], p).file_type = FILE
              /\ y = <<Append(x[1], EntryAt(s, x[2], p).name), EntryAt(s, x[2], p).inode>>
    BY <1>5, NamedElements
  <2>2. PICK d \in D : x = <<path[d], d>>
    BY <1>2
  <2>3. x[1] = path[d] /\ x[2] = d
    BY <2>2
  <2> QED BY <2>1, <2>3
<1>6. ASSUME NEW d \in D, NEW p \in Used(s, d), EntryAt(s, d, p).file_type = FILE,
             y = <<Append(path[d], EntryAt(s, d, p).name), EntryAt(s, d, p).inode>>
      PROVE  y \in Named(s, from, FILE)
  <2>1. PICK x : x = <<path[d], d>>
    OBVIOUS
  <2>2. x \in from /\ x[1] = path[d] /\ x[2] = d
    BY <2>1, <1>2
  <2>3. /\ EntryAt(s, x[2], p).file_type = FILE
        /\ FILE = DIR => EntryAt(s, x[2], p).name \notin {".", ".."}
        /\ y = <<Append(x[1], EntryAt(s, x[2], p).name), EntryAt(s, x[2], p).inode>>
        /\ p \in Used(s, x[2])
    BY <2>2, <1>3, <1>6
  <2> QED BY <2>2, <2>3, NamedMember
<1> QED BY <1>4, <1>5, <1>6

\* The paths of the runs are these.
LEMMA PathsLinked ==
  ASSUME NEW s \in FileSystems, NEW D, NEW F, NEW path, Linked(s, D, F, path), NEW y
  PROVE  y \in TypedPaths(s) <=> OnPath(s, D, path, y)
<1>1. y \in TypedPaths(s) <=> \/ \E x \in DirPaths(s) : y = <<x[1], DIR>>
                              \/ \E x \in FilePaths(s) : y = <<x[1], FILE>>
  BY DEF TypedPaths
<1>2. (\E x \in DirPaths(s) : y = <<x[1], DIR>>) <=> \E d \in D : y = <<path[d], DIR>>
  <2>1. DirPaths(s) = {<<path[d], d>> : d \in D}
    BY LinkedReaches
  <2>2. \A d : <<path[d], d>>[1] = path[d]
    OBVIOUS
  <2>3. ASSUME NEW x \in DirPaths(s), y = <<x[1], DIR>>
        PROVE  \E d \in D : y = <<path[d], DIR>>
    BY <2>1, <2>3
  <2>4. ASSUME NEW d \in D, y = <<path[d], DIR>>
        PROVE  \E x \in DirPaths(s) : y = <<x[1], DIR>>
    <3>1. PICK x : x = <<path[d], d>>
      OBVIOUS
    <3>2. x \in DirPaths(s) /\ x[1] = path[d]
      BY <2>1, <3>1
    <3> QED BY <2>4, <3>2
  <2> QED BY <2>3, <2>4
<1>3. ASSUME NEW x \in FilePaths(s), y = <<x[1], FILE>>
      PROVE  \E d \in D : \E p \in Used(s, d) :
                /\ EntryAt(s, d, p).file_type = FILE
                /\ y = <<Append(path[d], EntryAt(s, d, p).name), FILE>>
  <2>1. PICK d \in D : \E p \in Used(s, d) :
                /\ EntryAt(s, d, p).file_type = FILE
                /\ x = <<Append(path[d], EntryAt(s, d, p).name), EntryAt(s, d, p).inode>>
    BY FilesLinked
  <2>2. PICK p \in Used(s, d) :
                /\ EntryAt(s, d, p).file_type = FILE
                /\ x = <<Append(path[d], EntryAt(s, d, p).name), EntryAt(s, d, p).inode>>
    BY <2>1
  <2>3. x[1] = Append(path[d], EntryAt(s, d, p).name)
    BY <2>2
  <2> QED BY <1>3, <2>2, <2>3
<1>4. ASSUME NEW d \in D, NEW p \in Used(s, d), EntryAt(s, d, p).file_type = FILE,
             y = <<Append(path[d], EntryAt(s, d, p).name), FILE>>
      PROVE  \E x \in FilePaths(s) : y = <<x[1], FILE>>
  <2>1. PICK x : x = <<Append(path[d], EntryAt(s, d, p).name), EntryAt(s, d, p).inode>>
    OBVIOUS
  <2>2. x[1] = Append(path[d], EntryAt(s, d, p).name)
    BY <2>1
  <2>3. x \in FilePaths(s)
    BY <1>4, <2>1, FilesLinked
  <2> QED BY <1>4, <2>2, <2>3
<1> QED BY <1>1, <1>2, <1>3, <1>4 DEF OnPath

\* Entries that stay, in other slots perhaps, keep the paths.
LEMMA PathsMoved ==
  ASSUME NEW s \in FileSystems, NEW t \in FileSystems, NEW D, NEW F, NEW path,
         Linked(s, D, F, path), s.inode_bitmap \subseteq t.inode_bitmap,
         \A d \in D : Moved(s, t, d)
  PROVE  TypedPaths(t) = TypedPaths(s)
<1>1. Linked(t, D, F, path)
  BY BitmapFinite, LinkedMoved
<1>2. ASSUME NEW y, OnPath(t, D, path, y)
      PROVE  OnPath(s, D, path, y)
  <2>1. ASSUME NEW d \in D, NEW p \in Used(t, d), EntryAt(t, d, p).file_type = FILE,
               y = <<Append(path[d], EntryAt(t, d, p).name), FILE>>
        PROVE  OnPath(s, D, path, y)
    <3>1. PICK g : MovedBy(s, t, d, g)
      BY DEF Moved
    <3>2. g[p] \in Used(s, d) /\ EntryAt(t, d, p) = EntryAt(s, d, g[p])
      BY <3>1 DEF MovedBy
    <3> QED BY <2>1, <3>2 DEF OnPath
  <2> QED BY <1>2, <2>1 DEF OnPath
<1>3. ASSUME NEW y, OnPath(s, D, path, y)
      PROVE  OnPath(t, D, path, y)
  <2>1. ASSUME NEW d \in D, NEW p \in Used(s, d), EntryAt(s, d, p).file_type = FILE,
               y = <<Append(path[d], EntryAt(s, d, p).name), FILE>>
        PROVE  OnPath(t, D, path, y)
    <3>1. PICK g : MovedBy(s, t, d, g)
      BY DEF Moved
    <3>2. PICK q \in Used(t, d) : g[q] = p
      BY <3>1 DEF MovedBy
    <3>3. EntryAt(t, d, q) = EntryAt(s, d, p)
      BY <3>1, <3>2 DEF MovedBy
    <3> QED BY <2>1, <3>3 DEF OnPath
  <2> QED BY <1>3, <2>1 DEF OnPath
<1> QED BY <1>1, <1>2, <1>3, PathsLinked

\* A disk with the same inodes and blocks has the same paths.
LEMMA PathsSame ==
  ASSUME NEW s \in FileSystems, NEW t \in FileSystems, NEW D, NEW F, NEW path,
         Linked(s, D, F, path), s.inode_bitmap \subseteq t.inode_bitmap,
         t.inode_table = s.inode_table, t.data = s.data
  PROVE  TypedPaths(t) = TypedPaths(s)
<1>1. \A d \in D : Moved(s, t, d)
  BY EntriesSame, SameIsMoved DEF Area
<1> QED BY <1>1, PathsMoved

\* The path a name in directory n would have, with its type.
PathTo(path, n, type, name) == <<Append(path[n], name), type>>

\* Path x is added.
AddsPath(s, t, x) == TypedPaths(t) = TypedPaths(s) \cup {x}

\* Directory n gains a name, of a file or of a new directory without entries.
LEMMA PathsGained ==
  ASSUME NEW s \in FileSystems, NEW t \in FileSystems, NEW D, NEW F, NEW path,
         Linked(s, D, F, path),
         NEW n \in D, NEW p, NEW m, NEW type \in {FILE, DIR}, NEW name,
         Gains(s, t, n, p, NewEntry(m, type, name)),
         \A d \in D \ {n} : SameEntries(s, t, d),
         m \notin D, Used(t, m) = {},
         Linked(t, NewDirs(D, m, type), NewFiles(F, m, type),
                NewPath(path, D, n, m, type, name))
  PROVE  AddsPath(s, t, PathTo(path, n, type, name))
<1> DEFINE e == NewEntry(m, type, name)
           E == NewDirs(D, m, type)
           G == NewFiles(F, m, type)
           way == NewPath(path, D, n, m, type, name)
           x == PathTo(path, n, type, name)
<1>0. FILE # DIR
  BY DEF FILE, DIR
<1>1. e.file_type = type /\ e.name = name
  BY DEF NewEntry
<1>2. /\ D \subseteq E /\ E \subseteq D \cup {m}
      /\ \A d \in D : way[d] = path[d]
      /\ type = DIR => m \in E /\ way[m] = Append(path[n], name)
      /\ type = FILE => E = D
  BY <1>0 DEF NewDirs, NewPath, Extended
<1> HIDE DEF e, E, G, way, x
<1>3. Linked(t, E, G, way)
  BY DEF E, G, way
<1>4. \A d \in D : /\ Used(s, d) \subseteq Used(t, d)
                  /\ \A q \in Used(s, d) : EntryAt(t, d, q) = EntryAt(s, d, q)
  BY DEF Gains, SameEntries
<1>4a. ASSUME NEW d \in D, NEW q \in Used(t, d), d # n \/ q # p
       PROVE  q \in Used(s, d)
  BY <1>4a DEF Gains, SameEntries
<1>5. p \in Used(t, n) /\ EntryAt(t, n, p) = e
  BY DEF Gains, e
<1>6. ASSUME NEW y, OnPath(s, D, path, y)
      PROVE  OnPath(t, E, way, y)
  <2>1. ASSUME NEW d \in D, y = <<path[d], DIR>>
        PROVE  OnPath(t, E, way, y)
    BY <1>2, <2>1 DEF OnPath
  <2>2. ASSUME NEW d \in D, NEW q \in Used(s, d), EntryAt(s, d, q).file_type = FILE,
               y = <<Append(path[d], EntryAt(s, d, q).name), FILE>>
        PROVE  OnPath(t, E, way, y)
    <3>1. d \in E /\ q \in Used(t, d) /\ EntryAt(t, d, q) = EntryAt(s, d, q) /\ way[d] = path[d]
      BY <1>2, <1>4
    <3> QED BY <2>2, <3>1 DEF OnPath
  <2> QED BY <1>6, <2>1, <2>2 DEF OnPath
<1>7. OnPath(t, E, way, x)
  <2>1. CASE type = DIR
    BY <1>2, <2>1 DEF OnPath, x, PathTo
  <2>2. CASE type = FILE
    <3>1. n \in E /\ way[n] = path[n]
      BY <1>2
    <3>2. x = <<Append(way[n], EntryAt(t, n, p).name), FILE>> /\ EntryAt(t, n, p).file_type = FILE
      BY <1>1, <1>5, <2>2, <3>1 DEF x, PathTo
    <3> QED BY <1>5, <3>1, <3>2 DEF OnPath
  <2> QED BY <2>1, <2>2
<1>8. ASSUME NEW y, OnPath(t, E, way, y)
      PROVE  OnPath(s, D, path, y) \/ y = x
  <2>1. ASSUME NEW d \in E, y = <<way[d], DIR>>
        PROVE  OnPath(s, D, path, y) \/ y = x
    <3>1. CASE d \in D
      BY <1>2, <2>1, <3>1 DEF OnPath
    <3>2. CASE d \notin D
      BY <1>2, <2>1, <3>2 DEF x, PathTo
    <3> QED BY <3>1, <3>2
  <2>2. ASSUME NEW d \in E, NEW q \in Used(t, d), EntryAt(t, d, q).file_type = FILE,
               y = <<Append(way[d], EntryAt(t, d, q).name), FILE>>
        PROVE  OnPath(s, D, path, y) \/ y = x
    <3>1. d \in D
      BY <1>2
    <3>2. CASE q \in Used(s, d)
      <4>1. EntryAt(t, d, q) = EntryAt(s, d, q) /\ way[d] = path[d]
        BY <1>2, <1>4, <3>1, <3>2
      <4> QED BY <2>2, <3>1, <3>2, <4>1 DEF OnPath
    <3>3. CASE d = n /\ q = p
      <4>1. way[n] = path[n]
        BY <1>2
      <4> QED BY <1>1, <1>5, <2>2, <3>3, <4>1 DEF x, PathTo
    <3> QED BY <1>4a, <3>1, <3>2, <3>3
  <2> QED BY <1>8, <2>1, <2>2 DEF OnPath
<1>9. \A y : y \in TypedPaths(t) <=> OnPath(t, E, way, y)
  BY <1>3, PathsLinked
<1>10. \A y : y \in TypedPaths(s) <=> OnPath(s, D, path, y)
  BY PathsLinked
<1>11. TypedPaths(t) = TypedPaths(s) \cup {x}
  BY <1>6, <1>7, <1>8, <1>9, <1>10
<1> QED BY <1>11 DEF x, AddsPath

\* What is longer than a, and has a in front, is below a.
LEMMA BelowUnder ==
  ASSUME NEW S, NEW a \in Seq(S), NEW z \in Seq(S)
  PROVE  (Len(z) > Len(a) /\ SubSeq(z, 1, Len(a)) = a) <=> (Len(z) > Len(a) /\ Under(a, z))
<1>1. Len(a) \in Nat /\ Len(z) \in Nat
  OBVIOUS
<1>2. ASSUME Len(z) > Len(a)
      PROVE  SubSeq(z, 1, Len(a)) = a <=> Under(a, z)
  <2> DEFINE w == SubSeq(z, 1, Len(a))
  <2>1. \A i \in 1 .. Len(a) : z[i] \in S
    BY <1>1, <1>2, ElementOfSeq
  <2>2. w \in Seq(S) /\ Len(w) = Len(a) /\ \A i \in 1 .. Len(a) : w[i] = z[i]
    BY <1>1, <2>1, SubSeqProperties
  <2> HIDE DEF w
  <2>3. w = a <=> \A i \in 1 .. Len(a) : w[i] = a[i]
    BY <2>2, SeqEqual
  <2> QED BY <1>1, <1>2, <2>2, <2>3 DEF Under, w
<1> QED BY <1>2

\* A path under a is a, or longer.
LEMMA UnderLonger ==
  ASSUME NEW S, NEW a \in Seq(S), NEW z \in Seq(S)
  PROVE  Under(a, z) <=> z = a \/ (Len(z) > Len(a) /\ Under(a, z))
<1>1. Len(a) \in Nat /\ Len(z) \in Nat
  OBVIOUS
<1>2. ASSUME Under(a, z), ~(Len(z) > Len(a))
      PROVE  z = a
  <2>1. Len(z) = Len(a) /\ \A i \in 1 .. Len(z) : z[i] = a[i]
    BY <1>1, <1>2 DEF Under
  <2> QED BY <2>1, SeqEqual
<1>3. Under(a, a)
  BY <1>1 DEF Under
<1> QED BY <1>2, <1>3

\* A path is strictly under a when the path without its last name is under a.
LEMMA UnderStep ==
  ASSUME NEW S, NEW a \in Seq(S), NEW b \in Seq(S), NEW x \in S
  PROVE  (Len(Append(b, x)) > Len(a) /\ Under(a, Append(b, x))) <=> Under(a, b)
<1>1. /\ Len(Append(b, x)) = Len(b) + 1
      /\ \A i \in 1 .. Len(b) : Append(b, x)[i] = b[i]
      /\ Len(a) \in Nat /\ Len(b) \in Nat
  OBVIOUS
<1> QED BY <1>1 DEF Under

\* What stays of the paths when x goes.
PathsWithout(x, before) ==
    IF x[2] = FILE THEN before \ {x} ELSE before \ ({x} \cup Below(x[1], before))

\* Directory n loses the name of a file.
LEMMA PathsLoseFile ==
  ASSUME NEW s \in FileSystems, NEW t \in FileSystems, NEW D, NEW F, NEW path,
         Linked(s, D, F, path),
         NEW n \in D, NEW p, Loses(s, t, n, p),
         \A d \in D \ {n} : SameEntries(s, t, d),
         EntryAt(s, n, p).file_type = FILE,
         NEW G, Linked(t, D, G, path),
         NEW x, x = PathTo(path, n, FILE, EntryAt(s, n, p).name)
  PROVE  TypedPaths(t) = TypedPaths(s) \ {x}
<1>0. FILE # DIR
  BY DEF FILE, DIR
<1>1. \A d \in D : /\ Used(t, d) \subseteq Used(s, d)
                  /\ \A q \in Used(t, d) : EntryAt(t, d, q) = EntryAt(s, d, q)
  BY DEF Loses, SameEntries
<1>1a. ASSUME NEW d \in D, NEW q \in Used(s, d), d # n \/ q # p
       PROVE  q \in Used(t, d)
  BY <1>1a DEF Loses, SameEntries
<1>2. p \in Used(s, n) /\ p \notin Used(t, n)
  BY DEF Loses
<1>3. ASSUME NEW d \in D, NEW q \in Used(s, d), EntryAt(s, d, q).file_type = FILE,
             x = <<Append(path[d], EntryAt(s, d, q).name), FILE>>
      PROVE  d = n /\ q = p
  <2> DEFINE a == EntryAt(s, n, p).name
             b == EntryAt(s, d, q).name
             S == Names \cup FileNames
  <2>1. Append(path[n], a) = Append(path[d], b)
    <3>1. x[1] = Append(path[d], b)
      BY <1>3
    <3>2. x[1] = Append(path[n], a)
      BY DEF PathTo
    <3> QED BY <3>1, <3>2
  <2>2. ChildFile(EntryAt(s, n, p), F) /\ ChildFile(EntryAt(s, d, q), F)
    BY <1>2, <1>3, LinkKinds
  <2>3. a \in S /\ b \in S
    BY <2>2 DEF ChildFile
  <2>4. path[n] \in Seq(S) /\ path[d] \in Seq(S)
    <3>1. path[n] \in Seq(Names) /\ path[d] \in Seq(Names)
      BY DEF Linked, Ways
    <3> QED BY <3>1
  <2> HIDE DEF a, b, S
  <2>5. path[n] = path[d] /\ a = b
    BY <2>1, <2>3, <2>4, AppendInjective
  <2>6. n = d
    BY <2>5 DEF Linked, Ways
  <2> QED BY <1>2, <1>3, <2>5, <2>6 DEF Linked, Distinct, a, b
<1>4. ASSUME NEW y, OnPath(t, D, path, y)
      PROVE  OnPath(s, D, path, y) /\ y # x
  <2>1. ASSUME NEW d \in D, y = <<path[d], DIR>>
        PROVE  OnPath(s, D, path, y) /\ y # x
    <3>1. x[2] = FILE /\ y[2] = DIR
      BY <2>1 DEF PathTo
    <3> QED BY <1>0, <2>1, <3>1 DEF OnPath
  <2>2. ASSUME NEW d \in D, NEW q \in Used(t, d), EntryAt(t, d, q).file_type = FILE,
               y = <<Append(path[d], EntryAt(t, d, q).name), FILE>>
        PROVE  OnPath(s, D, path, y) /\ y # x
    <3>1. q \in Used(s, d) /\ EntryAt(t, d, q) = EntryAt(s, d, q)
      BY <1>1
    <3>2. y # x
      BY <1>2, <1>3, <2>2, <3>1
    <3> QED BY <2>2, <3>1, <3>2 DEF OnPath
  <2> QED BY <1>4, <2>1, <2>2 DEF OnPath
<1>5. ASSUME NEW y, OnPath(s, D, path, y), y # x
      PROVE  OnPath(t, D, path, y)
  <2>1. ASSUME NEW d \in D, NEW q \in Used(s, d), EntryAt(s, d, q).file_type = FILE,
               y = <<Append(path[d], EntryAt(s, d, q).name), FILE>>
        PROVE  OnPath(t, D, path, y)
    <3>1. d # n \/ q # p
      BY <1>5, <2>1 DEF PathTo
    <3>2. q \in Used(t, d)
      BY <1>1a, <3>1
    <3>3. EntryAt(t, d, q) = EntryAt(s, d, q)
      BY <1>1, <3>2
    <3> QED BY <2>1, <3>2, <3>3 DEF OnPath
  <2> QED BY <1>5, <2>1 DEF OnPath
<1>6. \A y : y \in TypedPaths(t) <=> OnPath(t, D, path, y)
  BY PathsLinked
<1>7. \A y : y \in TypedPaths(s) <=> OnPath(s, D, path, y)
  BY PathsLinked
<1> QED BY <1>4, <1>5, <1>6, <1>7

\* Directory n loses the name of a directory, and what was below goes along.
LEMMA PathsLoseDir ==
  ASSUME NEW s \in FileSystems, NEW t \in FileSystems, NEW D, NEW F, NEW path,
         Linked(s, D, F, path),
         NEW n \in D, NEW p, Loses(s, t, n, p),
         \A d \in D \ {n} : SameEntries(s, t, d),
         Directs(EntryAt(s, n, p)),
         NEW c, c = EntryAt(s, n, p).inode,
         NEW E, E = Kept(D, path, c),
         NEW G, Linked(t, E, G, [d \in E |-> path[d]]),
         NEW x, x = PathTo(path, n, DIR, EntryAt(s, n, p).name)
  PROVE  TypedPaths(t) = TypedPaths(s) \ ({x} \cup Below(x[1], TypedPaths(s)))
<1> DEFINE S == Names \cup FileNames
           way == [d \in E |-> path[d]]
           before == TypedPaths(s)
<1>0. FILE # DIR
  BY DEF FILE, DIR
<1>1. \A d \in D : /\ Used(t, d) \subseteq Used(s, d)
                  /\ \A q \in Used(t, d) : EntryAt(t, d, q) = EntryAt(s, d, q)
  BY DEF Loses, SameEntries
<1>1a. ASSUME NEW d \in D, NEW q \in Used(s, d), d # n \/ q # p
       PROVE  q \in Used(t, d)
  BY <1>1a DEF Loses, SameEntries
<1>2. /\ p \in Used(s, n) /\ EntryAt(s, n, p).file_type = DIR
      /\ DirLink(EntryAt(s, n, p), n, D, path)
  BY LinkKinds DEF Loses, Directs
<1>3. c \in D /\ x = <<path[c], DIR>> /\ x[1] = path[c]
  BY <1>2 DEF DirLink, PathTo
<1>4. /\ \A d \in D : path[d] \in Seq(Names) /\ path[d] \in Seq(S) /\ Len(path[d]) \in Nat
      /\ \A d, e \in D : path[d] = path[e] => d = e
  BY DEF Linked, Ways
<1>5. /\ E \subseteq D
      /\ \A d \in D : d \in E <=> ~Under(path[c], path[d])
      /\ \A d \in E : way[d] = path[d]
  BY DEF Kept
<1> HIDE DEF way, S
<1>6. \A y : y \in Below(path[c], before) <=>
              y \in before /\ Len(y[1]) > Len(path[c]) /\ SubSeq(y[1], 1, Len(path[c])) = path[c]
  BY DEF Below
<1>7. ASSUME NEW d \in D, NEW y, y = <<path[d], DIR>>, y \in before
      PROVE  d \in E <=> y \notin {x} \cup Below(x[1], before)
  <2>1. y[1] = path[d] /\ y[2] = DIR
    BY <1>7
  <2>2. y \in Below(path[c], before) <=> Len(path[d]) > Len(path[c]) /\ Under(path[c], path[d])
    <3>1. (Len(path[d]) > Len(path[c]) /\ SubSeq(path[d], 1, Len(path[c])) = path[c])
             <=> Len(path[d]) > Len(path[c]) /\ Under(path[c], path[d])
      BY <1>3, <1>4, BelowUnder
    <3> QED BY <1>6, <1>7, <2>1, <3>1
  <2>3. y = x <=> path[d] = path[c]
    BY <1>3, <1>7
  <2>4. Under(path[c], path[d]) <=>
            path[d] = path[c] \/ (Len(path[d]) > Len(path[c]) /\ Under(path[c], path[d]))
    BY <1>3, <1>4, UnderLonger
  <2> QED BY <1>3, <1>5, <2>2, <2>3, <2>4
<1>8. ASSUME NEW d \in D, NEW q \in Used(s, d), EntryAt(s, d, q).file_type = FILE,
             NEW y, y = <<Append(path[d], EntryAt(s, d, q).name), FILE>>, y \in before
      PROVE  d \in E <=> y \notin {x} \cup Below(x[1], before)
  <2> DEFINE b == EntryAt(s, d, q).name
             z == Append(path[d], b)
  <2>1. y[1] = z /\ y[2] = FILE /\ y # x
    <3>1. y[1] = z /\ y[2] = FILE /\ x[2] = DIR
      BY <1>3, <1>8
    <3> QED BY <1>0, <3>1
  <2>2. b \in S
    <3>1. ChildFile(EntryAt(s, d, q), F)
      BY <1>8, LinkKinds
    <3> QED BY <3>1 DEF ChildFile, S
  <2>3. path[d] \in Seq(S) /\ path[c] \in Seq(S)
    BY <1>3, <1>4
  <2> HIDE DEF b
  <2>4. z \in Seq(S)
    BY <2>2, <2>3
  <2>5. y \in Below(path[c], before) <=> Len(z) > Len(path[c]) /\ Under(path[c], z)
    <3>1. (Len(z) > Len(path[c]) /\ SubSeq(z, 1, Len(path[c])) = path[c])
             <=> Len(z) > Len(path[c]) /\ Under(path[c], z)
      <4> HIDE DEF z
      <4> QED BY <2>3, <2>4, BelowUnder
    <3> QED BY <1>6, <1>8, <2>1, <3>1
  <2>6. Len(z) > Len(path[c]) /\ Under(path[c], z) <=> Under(path[c], path[d])
    BY <2>2, <2>3, UnderStep
  <2> QED BY <1>3, <1>5, <2>1, <2>5, <2>6
<1>9. ASSUME NEW y, OnPath(t, E, way, y)
      PROVE  OnPath(s, D, path, y) /\ y \notin {x} \cup Below(x[1], before)
  <2>1. ASSUME NEW d \in E, y = <<way[d], DIR>>
        PROVE  OnPath(s, D, path, y) /\ y \notin {x} \cup Below(x[1], before)
    <3>1. d \in D /\ y = <<path[d], DIR>>
      BY <1>5, <2>1
    <3>2. OnPath(s, D, path, y)
      BY <3>1 DEF OnPath
    <3>3. y \in before
      BY <3>2, PathsLinked
    <3> QED BY <1>7, <3>1, <3>2, <3>3
  <2>2. ASSUME NEW d \in E, NEW q \in Used(t, d), EntryAt(t, d, q).file_type = FILE,
               y = <<Append(way[d], EntryAt(t, d, q).name), FILE>>
        PROVE  OnPath(s, D, path, y) /\ y \notin {x} \cup Below(x[1], before)
    <3>1. d \in D /\ q \in Used(s, d) /\ EntryAt(t, d, q) = EntryAt(s, d, q)
      BY <1>1, <1>5
    <3>2. EntryAt(s, d, q).file_type = FILE /\ y = <<Append(path[d], EntryAt(s, d, q).name), FILE>>
      BY <1>5, <2>2, <3>1
    <3>3. OnPath(s, D, path, y)
      BY <3>1, <3>2 DEF OnPath
    <3>4. y \in before
      BY <3>3, PathsLinked
    <3> QED BY <1>8, <3>1, <3>2, <3>3, <3>4
  <2> QED BY <1>9, <2>1, <2>2 DEF OnPath
<1>10. ASSUME NEW y, OnPath(s, D, path, y), y \notin {x} \cup Below(x[1], before)
       PROVE  OnPath(t, E, way, y)
  <2>0. y \in before
    BY <1>10, PathsLinked
  <2>1. ASSUME NEW d \in D, y = <<path[d], DIR>>
        PROVE  OnPath(t, E, way, y)
    <3>1. d \in E
      BY <1>7, <1>10, <2>0, <2>1
    <3> QED BY <1>5, <2>1, <3>1 DEF OnPath
  <2>2. ASSUME NEW d \in D, NEW q \in Used(s, d), EntryAt(s, d, q).file_type = FILE,
               y = <<Append(path[d], EntryAt(s, d, q).name), FILE>>
        PROVE  OnPath(t, E, way, y)
    <3>1. d \in E
      BY <1>8, <1>10, <2>0, <2>2
    <3>2. d # n \/ q # p
      BY <1>0, <1>2, <2>2
    <3>3. q \in Used(t, d)
      BY <1>1a, <3>2
    <3>4. EntryAt(t, d, q) = EntryAt(s, d, q) /\ way[d] = path[d]
      BY <1>1, <1>5, <3>1, <3>3
    <3> QED BY <2>2, <3>1, <3>3, <3>4 DEF OnPath
  <2> QED BY <1>10, <2>1, <2>2 DEF OnPath
<1>11. \A y : y \in TypedPaths(t) <=> OnPath(t, E, way, y)
  BY PathsLinked DEF way
<1>12. \A y : y \in before <=> OnPath(s, D, path, y)
  BY PathsLinked
<1> HIDE DEF before
<1>13. TypedPaths(t) = before \ ({x} \cup Below(x[1], before))
  BY <1>9, <1>10, <1>11, <1>12
<1> QED BY <1>13 DEF before
-----------------------------------------------------------------------------
(* What the disk keeps of the inodes of a linked tree, after k crashes: as *)
(* Stored, but with a margin of k in the free count and in the sizes.      *)

Held(s, N, l) == Owned(s.block_bitmap, BlockCount - Cardinality(s.block_bitmap), N, l)

\* How far the free count exceeds the clear bits.
Extra(s) == s.bg_free_blocks_count - (BlockCount - Cardinality(s.block_bitmap))

\* An inode whose bit is clear was never written.
Blank(s) ==
    \A n \in Inodes \ s.inode_bitmap : Area(s, n).i_block = <<>> /\ Area(s, n).i_size = 0

\* The size of directory d counts its entries, up to k.
Near(s, d, k) ==
    /\ Cardinality(Used(s, d)) <= Area(s, d).i_size + k
    /\ Area(s, d).i_block = <<>> => Area(s, d).i_size = 0

\* The disk agrees with the tree, and with the blocks that l gives its inodes.
Sound(s, D, F, l, k) ==
    /\ Blank(s)
    /\ \A d \in D : l[d] = Area(s, d).i_block
    /\ \A d \in D : Near(s, d, k)
    /\ Held(s, D \cup F, l)
    /\ Extra(s) \in 0 .. k

\* The disk outside of write_file.
Good(s, D, F, path, k) ==
    /\ s \in FileSystems
    /\ Linked(s, D, F, path)
    /\ Sound(s, D, F, Lists(s), k)

\* What the proofs use of a good disk.
LEMMA GoodFacts ==
  ASSUME NEW s, NEW D, NEW F, NEW path, NEW k, Good(s, D, F, path, k)
  PROVE  /\ s \in FileSystems
         /\ D \in SUBSET Inodes /\ F \in SUBSET Inodes /\ D \cap F = {} /\ Root \in D
         /\ IsFiniteSet(s.inode_bitmap)
         /\ s.block_bitmap \in SUBSET Blocks
         /\ \A n \in D \cup F : \A i \in 1 .. Len(Area(s, n).i_block) :
                Area(s, n).i_block[i] \in s.block_bitmap
         /\ \A n, m \in D \cup F :
                \A i \in 1 .. Len(Area(s, n).i_block), j \in 1 .. Len(Area(s, m).i_block) :
                    Area(s, n).i_block[i] = Area(s, m).i_block[j] => n = m /\ i = j
         /\ \A n \in D : Apart(s, D, n)
<1>1. /\ s \in FileSystems /\ s.inode_bitmap \in SUBSET Inodes
      /\ s.block_bitmap \in SUBSET Blocks
  BY DEF Good, FileSystems
<1>2. D \in SUBSET Inodes /\ F \in SUBSET Inodes /\ D \cap F = {} /\ Root \in D
  BY <1>1 DEF Good, Linked, Marked
<1>3. IsFiniteSet(s.inode_bitmap)
  <2>1. IsFiniteSet(Inodes)
    BY FS_Interval, SizesAssumption DEF Inodes
  <2> QED BY <1>1, <2>1, FS_Subset
<1>4. \A n \in D \cup F : Lists(s)[n] = Area(s, n).i_block
  BY <1>2 DEF Lists
<1>5. Held(s, D \cup F, Lists(s))
  BY DEF Good, Sound
<1>6. /\ \A n \in D \cup F : \A i \in 1 .. Len(Lists(s)[n]) : Lists(s)[n][i] \in s.block_bitmap
      /\ \A n, m \in D \cup F : \A i \in 1 .. Len(Lists(s)[n]), j \in 1 .. Len(Lists(s)[m]) :
             Lists(s)[n][i] = Lists(s)[m][j] => n = m /\ i = j
  BY <1>5 DEF Held, Owned
<1>7. \A n \in D \cup F : \A i \in 1 .. Len(Area(s, n).i_block) :
          Area(s, n).i_block[i] \in s.block_bitmap
  BY <1>4, <1>6
<1>8. ASSUME NEW n \in D \cup F, NEW m \in D \cup F,
             NEW i \in 1 .. Len(Area(s, n).i_block), NEW j \in 1 .. Len(Area(s, m).i_block),
             Area(s, n).i_block[i] = Area(s, m).i_block[j]
      PROVE  n = m /\ i = j
  <2>1. Lists(s)[n] = Area(s, n).i_block /\ Lists(s)[m] = Area(s, m).i_block
    BY <1>4
  <2> QED BY <1>6, <1>8, <2>1
<1>9. \A n \in D : Apart(s, D, n)
  BY <1>8 DEF Apart
<1> QED BY <1>1, <1>2, <1>3, <1>7, <1>8, <1>9

\* Marking one block, and giving one back.
LEMMA MarkOne ==
  ASSUME NEW B \in SUBSET Blocks, NEW b \in Blocks
  PROVE  /\ b \notin B => Cardinality(B \cup {b}) = Cardinality(B) + 1
         /\ b \in B => Cardinality(B \ {b}) = Cardinality(B) - 1
         /\ Cardinality(B) \in Nat
<1>1. IsFiniteSet(B) /\ Cardinality(B) \in Nat
  BY BlocksFinite
<1> QED BY <1>1, FS_AddElement, FS_RemoveElement

(* The step is beside the tree: marks are added, blocks nobody owns are    *)
(* written, and of the inodes only the modes change.                       *)
Aside(s, t) ==
    /\ t \in FileSystems
    /\ \A n \in Inodes : /\ Area(t, n).i_block = Area(s, n).i_block
                        /\ Area(t, n).i_size = Area(s, n).i_size
    /\ \A b \in s.block_bitmap : t.data[b] = s.data[b]
    /\ s.inode_bitmap \subseteq t.inode_bitmap
    /\ s.block_bitmap \subseteq t.block_bitmap

\* A step beside the tree changes no directory of the tree.
LEMMA AsideSame ==
  ASSUME NEW s, NEW t, NEW D, NEW F, NEW path, NEW k, Good(s, D, F, path, k), Aside(s, t),
         NEW d \in D
  PROVE  SameEntries(s, t, d)
<1>1. d \in Inodes /\ \A i \in 1 .. Len(Area(s, d).i_block) : Area(s, d).i_block[i] \in s.block_bitmap
  BY GoodFacts
<1>2. /\ Area(t, d).i_block = Area(s, d).i_block
      /\ \A i \in 1 .. Len(Area(s, d).i_block) :
            t.data[Area(s, d).i_block[i]] = s.data[Area(s, d).i_block[i]]
  BY <1>1 DEF Aside
<1> QED BY <1>2, EntriesSame

\* Fewer owners, or more marks.
LEMMA OwnedSub ==
  ASSUME NEW B, NEW free, NEW N, NEW l, Owned(B, free, N, l),
         NEW C \in SUBSET Blocks, NEW M \in SUBSET N, NEW g, \A n \in M : g[n] = l[n],
         \A n \in M : \A i \in 1 .. Len(l[n]) : l[n][i] \in C
  PROVE  Owned(C, BlockCount - Cardinality(C), M, g)
<1>1. /\ \A n \in M : g[n] \in Seq(Blocks) /\ Len(g[n]) <= MaxBlocks
      /\ \A n \in M : \A i \in 1 .. Len(g[n]) : g[n][i] \in C
  BY DEF Owned
<1>2. ASSUME NEW n \in M, NEW m \in M, NEW i \in 1 .. Len(g[n]), NEW j \in 1 .. Len(g[m]),
             g[n][i] = g[m][j]
      PROVE  n = m /\ i = j
  <2>1. g[n] = l[n] /\ g[m] = l[m] /\ n \in N /\ m \in N
    OBVIOUS
  <2> QED BY <1>2, <2>1 DEF Owned
<1> QED BY <1>1, <1>2 DEF Owned

\* A step beside the tree leaves a good disk good.
LEMMA GoodAside ==
  ASSUME NEW s, NEW t, NEW D, NEW F, NEW path, NEW k \in Nat, Good(s, D, F, path, k),
         Aside(s, t), NEW k2 \in Nat, k <= k2, Extra(t) \in 0 .. k2
  PROVE  Good(t, D, F, path, k2) /\ TypedPaths(t) = TypedPaths(s)
<1>1. /\ s \in FileSystems /\ D \in SUBSET Inodes /\ F \in SUBSET Inodes
      /\ t \in FileSystems
  BY GoodFacts DEF Aside
<1>2. \A d \in D : SameEntries(s, t, d)
  BY AsideSame
<1>3. Linked(t, D, F, path)
  <2>1. t.inode_bitmap \in SUBSET Inodes /\ IsFiniteSet(Inodes)
    BY <1>1, FS_Interval, SizesAssumption DEF Inodes, FileSystems
  <2>2. IsFiniteSet(t.inode_bitmap) /\ s.inode_bitmap \subseteq t.inode_bitmap
    BY <2>1, FS_Subset DEF Aside
  <2>3. \A d \in D : Moved(s, t, d)
    BY <1>2, SameIsMoved
  <2> QED BY <2>2, <2>3, LinkedMoved DEF Good
<1>4. Lists(t) = Lists(s)
  BY DEF Aside, Lists
<1>5. Blank(t)
  BY DEF Good, Sound, Blank, Aside
<1>6. ASSUME NEW d \in D
      PROVE  Near(t, d, k2)
  <2>1. Near(s, d, k)
    BY DEF Good, Sound
  <2>2. /\ Area(t, d).i_block = Area(s, d).i_block
        /\ Area(t, d).i_size = Area(s, d).i_size /\ Area(s, d).i_size \in Int
    BY <1>1, AreaType DEF Aside
  <2>3. Used(t, d) = Used(s, d) /\ Cardinality(Used(s, d)) \in Nat
    BY <1>1, <1>2, PositionsFinite DEF SameEntries
  <2> QED BY <2>1, <2>2, <2>3 DEF Near
<1>7. Held(t, D \cup F, Lists(t))
  <2>1. Held(s, D \cup F, Lists(s)) /\ s.block_bitmap \subseteq t.block_bitmap
    BY DEF Good, Sound, Aside
  <2>2. t.block_bitmap \in SUBSET Blocks
    BY <1>1 DEF FileSystems
  <2>3. \A n \in D \cup F : \A i \in 1 .. Len(Lists(s)[n]) : Lists(s)[n][i] \in t.block_bitmap
    BY <2>1 DEF Held, Owned
  <2> QED BY <1>4, <2>1, <2>2, <2>3, OwnedSub DEF Held
<1>8. \A d \in D : Lists(t)[d] = Area(t, d).i_block
  BY <1>1 DEF Lists
<1>9. TypedPaths(t) = TypedPaths(s)
  <2>1. \A d \in D : Moved(s, t, d)
    BY <1>2, SameIsMoved
  <2> QED BY <1>1, <2>1, PathsMoved DEF Good, Aside
<1> QED BY <1>1, <1>3, <1>5, <1>6, <1>7, <1>8, <1>9 DEF Good, Sound

(* The free count runs ahead of the bitmap when a death falls between the  *)
(* two writes of alloc_block.                                              *)
LEMMA AllocGood ==
  ASSUME NEW s, NEW D, NEW F, NEW path, NEW k \in Nat, Good(s, D, F, path, k)
  PROVE  /\ Calm(alloc_block(s)) =>
                /\ Good(alloc_block(s), D, F, path, k)
                /\ TypedPaths(alloc_block(s)) = TypedPaths(s)
         /\ \A t \in AllocCuts(s) : Calm(t) =>
                /\ Good(t, D, F, path, k + 1)
                /\ TypedPaths(t) = TypedPaths(s)
<1> DEFINE u == alloc_block(s)
           b == next_block(s)
<1>0. s \in FileSystems /\ s.block_bitmap \in SUBSET Blocks /\ Extra(s) \in 0 .. k
      /\ s.bg_free_blocks_count \in Nat
  BY GoodFacts DEF Good, Sound, FileSystems
<1>1. ASSUME Calm(u)
      PROVE  /\ Good(u, D, F, path, k) /\ Good(u, D, F, path, k + 1)
             /\ Good(MarkBlock(s), D, F, path, k + 1)
             /\ TypedPaths(u) = TypedPaths(s) /\ TypedPaths(MarkBlock(s)) = TypedPaths(s)
  <2>1. /\ b \in Blocks /\ b \notin s.block_bitmap
        /\ u \in FileSystems
        /\ u.block_bitmap = s.block_bitmap \cup {b}
        /\ u.bg_free_blocks_count = s.bg_free_blocks_count - 1
        /\ u.inode_bitmap = s.inode_bitmap
        /\ u.inode_table = s.inode_table
        /\ u.data = s.data
    BY <1>0, <1>1, AllocCalm
  <2> HIDE DEF u, b
  <2>2. /\ Cardinality(s.block_bitmap \cup {b}) = Cardinality(s.block_bitmap) + 1
        /\ Cardinality(s.block_bitmap) \in Nat
    BY <1>0, <2>1, MarkOne
  <2>3. BlockCount \in Nat
    BY SizesAssumption
  <2>4. Extra(u) = Extra(s)
    BY <1>0, <2>1, <2>2, <2>3 DEF Extra
  <2>5. Aside(s, u)
    BY <2>1 DEF Aside, Area
  <2>6. Good(u, D, F, path, k) /\ TypedPaths(u) = TypedPaths(s)
    BY <1>0, <2>4, <2>5, GoodAside
  <2>7. Extra(u) \in 0 .. k + 1 /\ k <= k + 1 /\ k + 1 \in Nat
    BY <1>0, <2>4
  <2>8. Good(u, D, F, path, k + 1)
    BY <2>5, <2>7, GoodAside
  <2> DEFINE v == MarkBlock(s)
  <2>9. /\ v.block_bitmap = s.block_bitmap \cup {b}
        /\ v.bg_free_blocks_count = s.bg_free_blocks_count
        /\ v.inode_bitmap = s.inode_bitmap
        /\ v.inode_table = s.inode_table
        /\ v.data = s.data
        /\ v \in FileSystems
    <3>1. s.block_bitmap \cup {b} \in SUBSET Blocks
      BY <1>0, <2>1
    <3> QED BY <1>0, <3>1 DEF MarkBlock, FileSystems, b
  <2> HIDE DEF v
  <2>10. Extra(v) = Extra(s) + 1
    BY <1>0, <2>2, <2>3, <2>9 DEF Extra
  <2>11. Aside(s, v)
    BY <2>9 DEF Aside, Area
  <2>12. Good(v, D, F, path, k + 1) /\ TypedPaths(v) = TypedPaths(s)
    BY <1>0, <2>7, <2>10, <2>11, GoodAside
  <2> QED BY <2>6, <2>8, <2>12 DEF v
<1>2. ASSUME NEW t \in AllocCuts(s), Calm(t)
      PROVE  Good(t, D, F, path, k + 1) /\ TypedPaths(t) = TypedPaths(s)
  <2>1. u.faults = s.faults /\ t \in {MarkBlock(s), u}
    BY DEF AllocCuts
  <2>2. MarkBlock(s).faults = s.faults
    BY <1>0 DEF MarkBlock, FileSystems
  <2>3. Calm(u)
    BY <1>2, <2>1, <2>2 DEF Calm
  <2> QED BY <1>1, <2>1, <2>3
<1> QED BY <1>1, <1>2

\* Neither get_inode nor a cut of it changes the tree.
LEMMA InodeGood ==
  ASSUME NEW s, NEW D, NEW F, NEW path, NEW k \in Nat, Good(s, D, F, path, k)
  PROVE  /\ Calm(get_inode(s)) => Good(get_inode(s), D, F, path, k)
         /\ \A t \in InodeCuts(s) :
                Good(t, D, F, path, k) /\ TypedPaths(t) = TypedPaths(s)
<1>0. s \in FileSystems /\ Extra(s) \in 0 .. k /\ s.inode_bitmap \in SUBSET Inodes
  BY GoodFacts DEF Good, Sound, FileSystems
<1>1. ASSUME next_inode(s) # 0,
             NEW t \in {[s EXCEPT !.inode_bitmap = @ \cup {next_inode(s)}], get_inode(s)}
      PROVE  Good(t, D, F, path, k) /\ TypedPaths(t) = TypedPaths(s)
  <2>1. /\ t.inode_bitmap = s.inode_bitmap \cup {next_inode(s)}
        /\ t.block_bitmap = s.block_bitmap
        /\ t.bg_free_blocks_count = s.bg_free_blocks_count
        /\ t.inode_table = s.inode_table
        /\ t.data = s.data
    BY <1>0, <1>1 DEF get_inode, FileSystems
  <2>2. t \in FileSystems
    <3>1. t \in InodeCuts(s)
      BY <1>1 DEF InodeCuts
    <3> QED BY <1>0, <3>1, AllocationCutsType
  <2>3. Aside(s, t) /\ Extra(t) = Extra(s)
    BY <2>1, <2>2 DEF Aside, Area, Extra
  <2> QED BY <1>0, <2>3, GoodAside
<1>2. Calm(get_inode(s)) => next_inode(s) # 0
  BY <1>0 DEF get_inode, fault, Calm, FileSystems
<1> QED BY <1>1, <1>2 DEF InodeCuts
-----------------------------------------------------------------------------
(* mkdir and cat: directory n gains a name at p, for an inode m that was   *)
(* clear.                                                                  *)
Joins(s, u, D, n, p, m, type, name) ==
    /\ u \in FileSystems
    /\ m \in Inodes \ s.inode_bitmap
    /\ u.inode_bitmap = s.inode_bitmap \cup {m}
    /\ Gains(s, u, n, p, NewEntry(m, type, name))
    /\ \A d \in D \ {n} : SameEntries(s, u, d)
    /\ \A x \in Inodes \ {n} : Area(u, x) = Area(s, x)
    /\ Area(u, n).i_block # <<>>
    /\ Extra(u) = Extra(s)

\* A name the command accepts.
Nameable(type, name) == (type = FILE => name \in FileNames) /\ (type = DIR => name \in Names)

\* reserch_file finds no entry of the name and type.
NotThere(s, n, type, name) ==
    \A q \in Used(s, n) : EntryAt(s, n, q).file_type = type => EntryAt(s, n, q).name # name

\* The disk with the new name is good, with one crash more where the size
\* was not written yet.
LEMMA GoodJoined ==
  ASSUME NEW s, NEW D, NEW F, NEW path, NEW k \in Nat, Good(s, D, F, path, k),
         NEW n \in D, NEW type \in {FILE, DIR}, NEW name, Nameable(type, name),
         NotThere(s, n, type, name),
         NEW u, NEW p, NEW m, Joins(s, u, D, n, p, m, type, name),
         Held(u, D \cup F, Lists(u)),
         NEW k2 \in Nat, k <= k2, Area(s, n).i_size + k + 1 <= Area(u, n).i_size + k2
  PROVE  /\ Good(u, NewDirs(D, m, type), NewFiles(F, m, type),
                 NewPath(path, D, n, m, type, name), k2)
         /\ AddsPath(s, u, PathTo(path, n, type, name))
<1> DEFINE E == NewDirs(D, m, type)
           G == NewFiles(F, m, type)
<1>0. /\ s \in FileSystems /\ u \in FileSystems /\ n \in Inodes /\ m \in Inodes /\ m # n
      /\ D \subseteq s.inode_bitmap /\ F \subseteq s.inode_bitmap
      /\ D \in SUBSET Inodes /\ F \in SUBSET Inodes
      /\ IsFiniteSet(s.inode_bitmap) /\ m \notin s.inode_bitmap
  BY GoodFacts DEF Joins, Good, Linked, Marked
<1>1. Area(s, m).i_block = <<>> /\ Area(s, m).i_size = 0
  BY <1>0 DEF Good, Sound, Blank
<1>2. Area(u, m).i_block = <<>> /\ Area(u, m).i_size = 0 /\ Used(u, m) = {}
  <2>1. Area(u, m) = Area(s, m)
    BY <1>0 DEF Joins
  <2>2. Positions(u, m) = {}
    BY <1>1, <2>1 DEF Positions
  <2> QED BY <1>1, <2>1, <2>2 DEF Used
<1>3. Linked(u, E, G, NewPath(path, D, n, m, type, name))
  BY <1>0, <1>2, LinkedAdd DEF Joins, Good, Nameable, NotThere
<1>4. Blank(u)
  <2>1. ASSUME NEW x \in Inodes \ u.inode_bitmap
        PROVE  Area(u, x).i_block = <<>> /\ Area(u, x).i_size = 0
    <3>1. x \notin s.inode_bitmap /\ x # n
      BY <1>0, <2>1 DEF Joins
    <3>2. Area(u, x) = Area(s, x)
      BY <2>1, <3>1 DEF Joins
    <3> QED BY <2>1, <3>1, <3>2 DEF Good, Sound, Blank
  <2> QED BY <2>1 DEF Blank
<1>5. ASSUME NEW d \in E
      PROVE  Near(u, d, k2)
  <2>1. CASE d = m
    <3>1. Cardinality(Used(u, m)) = 0
      BY <1>2, FS_EmptySet
    <3>2. Near(u, m, k2)
      BY <1>2, <3>1 DEF Near
    <3> QED BY <2>1, <3>2
  <2>2. CASE d = n
    <3>1. Near(s, n, k)
      BY DEF Good, Sound
    <3>2. Used(u, n) = Used(s, n) \cup {p} /\ p \notin Used(s, n)
      BY DEF Joins, Gains
    <3>3. IsFiniteSet(Used(s, n)) /\ Cardinality(Used(s, n)) \in Nat
      BY <1>0, PositionsFinite
    <3>4. Cardinality(Used(u, n)) = Cardinality(Used(s, n)) + 1
      BY <3>2, <3>3, FS_AddElement
    <3>5. Area(s, n).i_size \in Int /\ Area(u, n).i_size \in Int
      BY <1>0, AreaType
    <3>6. Area(u, n).i_block # <<>>
      BY DEF Joins
    <3> QED BY <2>2, <3>1, <3>3, <3>4, <3>5, <3>6 DEF Near
  <2>3. CASE d # m /\ d # n
    <3>1. d \in D /\ d \in Inodes
      BY <1>0, <2>3 DEF NewDirs
    <3>2. Near(s, d, k) /\ Area(u, d) = Area(s, d) /\ Used(u, d) = Used(s, d)
      BY <2>3, <3>1 DEF Good, Sound, Joins, SameEntries
    <3>3. Area(s, d).i_size \in Int /\ Cardinality(Used(s, d)) \in Nat
      BY <1>0, <3>1, AreaType, PositionsFinite
    <3> QED BY <3>2, <3>3 DEF Near
  <2> QED BY <2>1, <2>2, <2>3
<1>6. Held(u, E \cup G, Lists(u))
  <2>1. E \cup G = (D \cup F) \cup {m}
    BY DEF NewDirs, NewFiles, FILE, DIR
  <2>2. Lists(u)[m] = <<>>
    BY <1>0, <1>2 DEF Lists
  <2>3. m \notin D \cup F
    BY <1>0
  <2> QED BY <2>1, <2>2, <2>3, OwnedJoin DEF Held
<1>7. E \subseteq Inodes
  BY <1>0 DEF NewDirs
<1>8. \A d \in E : Lists(u)[d] = Area(u, d).i_block
  BY <1>7 DEF Lists
<1>9. Extra(u) \in 0 .. k2
  BY DEF Joins, Good, Sound
<1>10. AddsPath(s, u, PathTo(path, n, type, name))
  <2>1. m \notin D
    BY <1>0
  <2>2. /\ Linked(s, D, F, path)
        /\ Gains(s, u, n, p, NewEntry(m, type, name))
        /\ \A d \in D \ {n} : SameEntries(s, u, d)
    BY DEF Joins, Good
  <2> QED BY <1>0, <1>2, <1>3, <2>1, <2>2, PathsGained
<1> QED BY <1>0, <1>3, <1>4, <1>5, <1>6, <1>8, <1>9, <1>10 DEF Good, Sound

\* Into a free slot: the block with the entry is written, then the size.
Fills(s, u, n, p, m, type, name) ==
    /\ u \in FileSystems
    /\ m \in Inodes \ s.inode_bitmap
    /\ u.inode_bitmap = s.inode_bitmap \cup {m}
    /\ Area(u, n).i_block = Area(s, n).i_block
    /\ \A x \in Inodes \ {n} : Area(u, x) = Area(s, x)
    /\ u.block_bitmap = s.block_bitmap
    /\ u.bg_free_blocks_count = s.bg_free_blocks_count
    /\ u.data = [s.data EXCEPT ![Area(s, n).i_block[p[1]]] =
                     [BlockAt(s, n, p[1]) EXCEPT ![p[2]] = NewEntry(m, type, name)]]

\* A name in a free slot leaves the disk good.
LEMMA GoodFilled ==
  ASSUME NEW s, NEW D, NEW F, NEW path, NEW k \in Nat, Good(s, D, F, path, k),
         NEW n \in D, NEW type \in {FILE, DIR}, NEW name, Nameable(type, name),
         NotThere(s, n, type, name),
         NEW p \in FreeSlot(s, n), NEW u, NEW m, Fills(s, u, n, p, m, type, name),
         NEW k2 \in Nat, k <= k2, Area(s, n).i_size + k + 1 <= Area(u, n).i_size + k2
  PROVE  /\ Good(u, NewDirs(D, m, type), NewFiles(F, m, type),
                 NewPath(path, D, n, m, type, name), k2)
         /\ AddsPath(s, u, PathTo(path, n, type, name))
<1> DEFINE e == NewEntry(m, type, name)
<1>0. /\ s \in FileSystems /\ u \in FileSystems /\ n \in Inodes
      /\ D \in SUBSET Inodes /\ F \in SUBSET Inodes /\ Apart(s, D, n)
  BY GoodFacts DEF Fills
<1>1. p \in Positions(s, n) /\ EntryAt(s, n, p).inode = 0
  BY DEF FreeSlot, First, EntryAt
<1>2. \A x \in Inodes : Area(u, x).i_block = Area(s, x).i_block
  BY DEF Fills
<1>3. OneSlot(s, u, D, n, p, e)
  BY <1>0, <1>1, <1>2, SlotSet DEF Fills
<1>4. e.inode # 0
  BY SizesAssumption DEF Fills, NewEntry, Inodes
<1> HIDE DEF e
<1>5. Gains(s, u, n, p, e)
  <2>1. Used(u, n) = Used(s, n) \cup {p}
    BY <1>1, <1>3, <1>4 DEF OneSlot, Used
  <2> QED BY <1>1, <1>3, <2>1 DEF OneSlot, Gains, Used
<1>6. Area(s, n).i_block # <<>>
  BY <1>1 DEF Positions
<1>7. Joins(s, u, D, n, p, m, type, name)
  BY <1>0, <1>3, <1>5, <1>6 DEF Joins, Fills, OneSlot, Extra, e
<1>8. Held(u, D \cup F, Lists(u))
  <2>1. Lists(u) = Lists(s)
    BY <1>2 DEF Lists
  <2> QED BY <2>1 DEF Fills, Good, Sound, Held
<1>9. Good(u, NewDirs(D, m, type), NewFiles(F, m, type),
           NewPath(path, D, n, m, type, name), k2)
  BY <1>7, <1>8, GoodJoined
<1>10. AddsPath(s, u, PathTo(path, n, type, name))
  BY <1>7, <1>8, GoodJoined
<1> QED BY <1>9, <1>10

\* Into a new block: the block is marked and written, then the inode.
Appends(s, u, n, b, m, type, name) ==
    /\ u \in FileSystems
    /\ m \in Inodes \ s.inode_bitmap
    /\ u.inode_bitmap = s.inode_bitmap \cup {m}
    /\ b \in Blocks \ s.block_bitmap
    /\ Area(u, n).i_block = Append(Area(s, n).i_block, b)
    /\ Area(u, n).i_size = Area(s, n).i_size + 1
    /\ \A x \in Inodes \ {n} : Area(u, x) = Area(s, x)
    /\ u.block_bitmap = s.block_bitmap \cup {b}
    /\ u.bg_free_blocks_count = s.bg_free_blocks_count - 1
    /\ u.data = [s.data EXCEPT ![b] =
                     [j \in Slots |-> IF j = 0 THEN NewEntry(m, type, name) ELSE Empty]]

\* A name in a new block leaves the disk good.
LEMMA GoodAppended ==
  ASSUME NEW s, NEW D, NEW F, NEW path, NEW k \in Nat, Good(s, D, F, path, k),
         NEW n \in D, NEW type \in {FILE, DIR}, NEW name, Nameable(type, name),
         NotThere(s, n, type, name), ~Partial(s, n), HasRoom(s, n),
         NEW u, NEW b, NEW m, Appends(s, u, n, b, m, type, name)
  PROVE  /\ Good(u, NewDirs(D, m, type), NewFiles(F, m, type),
                 NewPath(path, D, n, m, type, name), k)
         /\ AddsPath(s, u, PathTo(path, n, type, name))
<1> DEFINE e == NewEntry(m, type, name)
           p == <<Len(Area(s, n).i_block) + 1, 0>>
<1>0. /\ s \in FileSystems /\ u \in FileSystems /\ n \in Inodes
      /\ D \in SUBSET Inodes /\ F \in SUBSET Inodes
      /\ b \in Blocks /\ b \notin s.block_bitmap
      /\ s.block_bitmap \in SUBSET Blocks
  BY GoodFacts DEF Appends
<1>1. e.inode # 0
  BY SizesAssumption DEF Appends, NewEntry, Inodes
<1> HIDE DEF e
<1>2. GetsBlock(s, u, D, n, b, e)
  <2>1. \A d \in D : \A i \in 1 .. Len(Area(s, d).i_block) : Area(s, d).i_block[i] # b
    BY <1>0, GoodFacts
  <2>2. s.data \in [Blocks -> [Slots -> Entries]]
    BY <1>0 DEF FileSystems
  <2>3. \A c \in Blocks \ {b} : u.data[c] = s.data[c]
    BY <2>2 DEF Appends
  <2>4. \A j \in Slots : u.data[b][j] = IF j = 0 THEN e ELSE Empty
    BY <1>0, <2>2 DEF Appends, e
  <2> QED BY <2>1, <2>3, <2>4 DEF GetsBlock, Appends
<1>3. Gains(s, u, n, p, e) /\ \A d \in D \ {n} : SameEntries(s, u, d)
  BY <1>0, <1>1, <1>2, BlockAdded
<1> HIDE DEF p
<1>4. /\ Cardinality(u.block_bitmap) = Cardinality(s.block_bitmap) + 1
      /\ Cardinality(s.block_bitmap) \in Nat
  BY <1>0, MarkOne DEF Appends
<1>5. Extra(u) = Extra(s)
  <2>1. s.bg_free_blocks_count \in Nat /\ BlockCount \in Nat
    BY <1>0, SizesAssumption DEF FileSystems
  <2>2. u.bg_free_blocks_count = s.bg_free_blocks_count - 1
    BY DEF Appends
  <2> QED BY <1>4, <2>1, <2>2 DEF Extra
<1>6. Area(s, n).i_block \in Seq(Blocks) /\ Len(Area(s, n).i_block) \in Nat
  BY <1>0, AreaType
<1>7. Area(u, n).i_block # <<>>
  BY <1>6 DEF Appends
<1>8. Joins(s, u, D, n, p, m, type, name)
  BY <1>0, <1>3, <1>5, <1>7 DEF Joins, Appends, e
<1>9. Held(u, D \cup F, Lists(u))
  <2>1. Held(s, D \cup F, Lists(s))
    BY DEF Good, Sound
  <2>2. /\ Lists(s)[n] = Area(s, n).i_block
        /\ Lists(u)[n] = Append(Lists(s)[n], b)
        /\ \A x \in (D \cup F) \ {n} : Lists(u)[x] = Lists(s)[x]
    BY <1>0 DEF Lists, Appends
  <2>3. Len(Lists(s)[n]) < MaxBlocks
    <3>1. Len(Lists(s)[n]) <= MaxBlocks
      BY <2>1 DEF Held, Owned
    <3>2. Len(Area(s, n).i_block) # MaxBlocks
      BY DEF Partial, HasRoom, MaxSize
    <3>3. MaxBlocks \in Nat
      BY ConstantFacts
    <3> QED BY <1>6, <2>2, <3>1, <3>2, <3>3
  <2>4. Owned(s.block_bitmap \cup {b}, (BlockCount - Cardinality(s.block_bitmap)) - 1,
              D \cup F, Lists(u))
    BY <1>0, <2>1, <2>2, <2>3, OwnedTake DEF Held
  <2>5. BlockCount - Cardinality(u.block_bitmap)
           = (BlockCount - Cardinality(s.block_bitmap)) - 1
    BY <1>4, SizesAssumption
  <2>6. u.block_bitmap = s.block_bitmap \cup {b}
    BY DEF Appends
  <2> QED BY <2>4, <2>5, <2>6 DEF Held
<1>10. Area(s, n).i_size + k + 1 <= Area(u, n).i_size + k
  <2>1. Area(s, n).i_size \in Int
    BY <1>0, AreaType
  <2>2. Area(u, n).i_size = Area(s, n).i_size + 1
    BY DEF Appends
  <2> QED BY <2>1, <2>2
<1>11. k <= k
  OBVIOUS
<1>12. Good(u, NewDirs(D, m, type), NewFiles(F, m, type),
            NewPath(path, D, n, m, type, name), k)
  BY <1>8, <1>9, <1>10, <1>11, GoodJoined
<1>13. AddsPath(s, u, PathTo(path, n, type, name))
  BY <1>8, <1>9, <1>10, <1>11, GoodJoined
<1> QED BY <1>12, <1>13

\* dir_prepare of a file m, whose inode was never written.
LEMMA GoodNewFile ==
  ASSUME NEW u, NEW D, NEW F, NEW path, NEW k \in Nat, Good(u, D, F, path, k),
         NEW m \in Inodes, NEW n \in D, Area(u, m).i_block = <<>>, Area(u, m).i_size = 0,
         NEW t, t = dir_prepare(u, m, FILE, n)
  PROVE  Good(t, D, F, path, k)
<1>1. u \in FileSystems /\ n \in Inodes
  BY GoodFacts
<1>2. NewFile(u, t, m)
  BY <1>1, NewFileResult
<1>3. Aside(u, t) /\ Extra(t) = Extra(u)
  BY <1>2 DEF NewFile, Aside, Extra
<1>4. Extra(u) \in 0 .. k
  BY DEF Good, Sound
<1>5. k <= k
  OBVIOUS
<1> QED BY <1>3, <1>4, <1>5, GoodAside

\* dir_prepare of a directory m.
LEMMA GoodNewDir ==
  ASSUME NEW u, NEW D, NEW F, NEW path, NEW k \in Nat, Good(u, D, F, path, k),
         NEW m \in D, NEW n \in D, Area(u, m).i_block = <<>>,
         NEW x \in Names, path[m] = Append(path[n], x),
         NEW t, t = dir_prepare(u, m, DIR, n), Calm(t)
  PROVE  Good(t, D, F, path, k)
<1> DEFINE b == next_block(u)
<1>0. /\ u \in FileSystems /\ D \in SUBSET Inodes /\ F \in SUBSET Inodes
      /\ m \in Inodes /\ n \in Inodes
      /\ u.block_bitmap \in SUBSET Blocks
  BY GoodFacts
<1>1. /\ t \in FileSystems
      /\ t.inode_bitmap = u.inode_bitmap
      /\ b \in Blocks /\ b \notin u.block_bitmap
      /\ Area(t, m).i_block = <<b>> /\ Area(t, m).i_size = 2
      /\ \A j \in Inodes \ {m} : Area(t, j) = Area(u, j)
      /\ t.data = [u.data EXCEPT ![b] = NewDirectory(m, n)]
      /\ t.block_bitmap = u.block_bitmap \cup {b}
      /\ t.bg_free_blocks_count = u.bg_free_blocks_count - 1
  BY <1>0, NewDirResult
<1> HIDE DEF b
<1>2. /\ t.data[b] = NewDirectory(m, n)
      /\ \A c \in Blocks \ {b} : t.data[c] = u.data[c]
  BY <1>0, <1>1 DEF FileSystems
<1>3. /\ Used(t, m) = Dots
      /\ EntryAt(t, m, <<1, 0>>) = NewEntry(m, DIR, ".")
      /\ EntryAt(t, m, <<1, 1>>) = NewEntry(n, DIR, "..")
      /\ Cardinality(Dots) = 2
  <2>1. m \in Inodes /\ n \in Inodes
    BY <1>0
  <2>2. Area(t, m).i_block = <<b>> /\ t.data[b] = NewDirectory(m, n)
    BY <1>1, <1>2
  <2> QED BY <2>1, <2>2, DotsMade
<1>4. ASSUME NEW d \in D \ {m}
      PROVE  SameEntries(u, t, d) /\ Area(t, d) = Area(u, d)
  <2>1. d \in Inodes \ {m}
    BY <1>0
  <2>2. \A i \in 1 .. Len(Area(u, d).i_block) : Area(u, d).i_block[i] \in u.block_bitmap
    BY GoodFacts
  <2>3. \A i \in 1 .. Len(Area(u, d).i_block) :
            t.data[Area(u, d).i_block[i]] = u.data[Area(u, d).i_block[i]]
    BY <1>0, <1>1, <1>2, <2>2
  <2>4. Area(t, d) = Area(u, d)
    BY <1>1, <2>1
  <2> QED BY <2>3, <2>4, EntriesSame
<1>5. m # Root
  <2>1. path \in [D -> Seq(Names)] /\ path[Root] = <<>>
    BY DEF Good, Linked, Ways
  <2>2. Append(path[n], x) # <<>>
    BY <2>1, EmptySeq
  <2> QED BY <2>1, <2>2
<1>6. Linked(t, D, F, path)
  <2>1. Used(u, m) = {}
    BY DEF Used, Positions
  <2> QED BY <1>1, <1>3, <1>4, <1>5, <2>1, LinkedPrepared DEF Good
<1>7. Blank(t)
  <2>1. m \in u.inode_bitmap
    BY DEF Good, Linked, Marked
  <2>2. ASSUME NEW j \in Inodes \ t.inode_bitmap
        PROVE  Area(t, j).i_block = <<>> /\ Area(t, j).i_size = 0
    <3>1. j # m /\ j \notin u.inode_bitmap
      BY <1>1, <2>1
    <3> QED BY <1>1, <3>1 DEF Good, Sound, Blank
  <2> QED BY <2>2 DEF Blank
<1>8. ASSUME NEW d \in D
      PROVE  Near(t, d, k)
  <2>1. CASE d = m
    <3>1. Near(t, m, k)
      BY <1>1, <1>3 DEF Near
    <3> QED BY <2>1, <3>1
  <2>2. CASE d # m
    <3>1. Near(u, d, k)
      BY DEF Good, Sound
    <3>2. Area(t, d) = Area(u, d) /\ Used(t, d) = Used(u, d)
      BY <1>4, <2>2 DEF SameEntries
    <3> QED BY <3>1, <3>2 DEF Near
  <2> QED BY <2>1, <2>2
<1>9. /\ Cardinality(t.block_bitmap) = Cardinality(u.block_bitmap) + 1
      /\ Cardinality(u.block_bitmap) \in Nat
  BY <1>0, <1>1, MarkOne
<1>10. Held(t, D \cup F, Lists(t))
  <2>1. Held(u, D \cup F, Lists(u))
    BY DEF Good, Sound
  <2>2. /\ Lists(u)[m] = <<>> /\ Lists(t)[m] = <<b>>
        /\ \A j \in (D \cup F) \ {m} : Lists(t)[j] = Lists(u)[j]
        /\ m \in D \cup F
    BY <1>0, <1>1 DEF Lists
  <2>3. Lists(t)[m] = Append(Lists(u)[m], b) /\ Len(Lists(u)[m]) < MaxBlocks
    BY <2>2, SizesAssumption
  <2>4. Owned(u.block_bitmap \cup {b}, (BlockCount - Cardinality(u.block_bitmap)) - 1,
              D \cup F, Lists(t))
    <3>1. Owned(u.block_bitmap, BlockCount - Cardinality(u.block_bitmap), D \cup F, Lists(u))
      BY <2>1 DEF Held
    <3>2. b \in Blocks /\ b \notin u.block_bitmap
      BY <1>1
    <3>3. PICK free : free = BlockCount - Cardinality(u.block_bitmap)
      OBVIOUS
    <3>4. PICK N : N = D \cup F
      OBVIOUS
    <3>5. PICK l : l = Lists(u)
      OBVIOUS
    <3>6. PICK g : g = Lists(t)
      OBVIOUS
    <3>7. Owned(u.block_bitmap, free, N, l) /\ m \in N
      BY <2>2, <3>1, <3>3, <3>4, <3>5
    <3>8. /\ Len(l[m]) < MaxBlocks /\ g[m] = Append(l[m], b)
          /\ \A j \in N \ {m} : g[j] = l[j]
      BY <2>2, <2>3, <3>4, <3>5, <3>6
    <3>9. Owned(u.block_bitmap \cup {b}, free - 1, N, g)
      BY <3>2, <3>7, <3>8, OwnedTake
    <3> QED BY <3>3, <3>4, <3>6, <3>9
  <2>5. BlockCount - Cardinality(t.block_bitmap)
           = (BlockCount - Cardinality(u.block_bitmap)) - 1
    BY <1>9, SizesAssumption
  <2> QED BY <1>1, <2>4, <2>5 DEF Held
<1>11. Extra(t) = Extra(u)
  <2>1. u.bg_free_blocks_count \in Nat /\ BlockCount \in Nat
    BY <1>0, SizesAssumption DEF FileSystems
  <2> QED BY <1>1, <1>9, <2>1 DEF Extra
<1>12. \A d \in D : Lists(t)[d] = Area(t, d).i_block
  BY <1>0 DEF Lists
<1> QED BY <1>1, <1>6, <1>7, <1>8, <1>10, <1>11, <1>12 DEF Good, Sound

\* A cut of dir_prepare is beside the tree: the new directory does not own
\* its block yet.
LEMMA GoodPrepareCuts ==
  ASSUME NEW u, NEW D, NEW F, NEW path, NEW k \in Nat, Good(u, D, F, path, k),
         NEW m \in 0 .. InodeCount, NEW type, NEW n \in D,
         NEW t \in PrepareCuts(u, m, type, n), Calm(t)
  PROVE  Good(t, D, F, path, k + 1) /\ TypedPaths(t) = TypedPaths(u)
<1> DEFINE b == next_block(u)
           v == alloc_block(u)
           w == update_dir(v, b, NewDirectory(m, n))
<1>0. u \in FileSystems /\ n \in Inodes /\ v \in FileSystems /\ b \in Blocks
      /\ NewDirectory(m, n) \in [Slots -> Entries]
  BY GoodFacts, AllocBlockType, NextBlockType, NewDirectoryType
<1>1. CASE t \in AllocCuts(u)
  BY <1>1, AllocGood
<1>2. CASE t = w
  <2>1. /\ w \in FileSystems
        /\ w.data = [v.data EXCEPT ![b] = NewDirectory(m, n)]
        /\ w.inode_table = v.inode_table
        /\ w.inode_bitmap = v.inode_bitmap
        /\ w.block_bitmap = v.block_bitmap
        /\ w.bg_free_blocks_count = v.bg_free_blocks_count
        /\ w.faults = v.faults
    BY <1>0, UpdateDirResult
  <2>2. Calm(v)
    BY <1>2, <2>1 DEF Calm
  <2>3. /\ b \notin u.block_bitmap
        /\ v.block_bitmap = u.block_bitmap \cup {b}
        /\ v.inode_bitmap = u.inode_bitmap
        /\ v.inode_table = u.inode_table
        /\ v.data = u.data
    BY <1>0, <2>2, AllocCalm
  <2>4. Good(v, D, F, path, k)
    BY <2>2, AllocGood
  <2> HIDE DEF v, w, b
  <2>5. Extra(w) = Extra(v) /\ Extra(v) \in 0 .. k
    BY <2>1, <2>4 DEF Extra, Good, Sound
  <2>6. Aside(u, w)
    <3>1. u.data \in [Blocks -> [Slots -> Entries]] /\ u.block_bitmap \in SUBSET Blocks
      BY <1>0 DEF FileSystems
    <3>2. \A c \in u.block_bitmap : w.data[c] = u.data[c]
      BY <2>1, <2>3, <3>1
    <3> QED BY <2>1, <2>3, <3>2 DEF Aside, Area
  <2>7. k + 1 \in Nat /\ k <= k + 1 /\ Extra(w) \in 0 .. k + 1
    BY <2>5
  <2> QED BY <1>2, <2>6, <2>7, GoodAside
<1>3. t \in AllocCuts(u) \cup {w}
  BY DEF PrepareCuts
<1> QED BY <1>1, <1>2, <1>3

\* The cuts of dir_prepare keep the faults.
LEMMA PrepareCutsFaults ==
  ASSUME NEW u \in FileSystems, NEW m \in 0 .. InodeCount, NEW type, NEW n \in Inodes,
         NEW t \in PrepareCuts(u, m, type, n), Calm(t)
  PROVE  Calm(u)
<1> DEFINE b == next_block(u)
           v == alloc_block(u)
           w == update_dir(v, b, NewDirectory(m, n))
<1>1. v \in FileSystems /\ u.faults \subseteq v.faults
  BY AllocBlockType, OperatorsWorse DEF Worse
<1>2. w.faults = v.faults
  BY <1>1 DEF update_dir, FileSystems
<1>3. MarkBlock(u).faults = u.faults
  BY DEF MarkBlock, FileSystems
<1>4. t \in {MarkBlock(u), v, w}
  BY DEF PrepareCuts, AllocCuts
<1> QED BY <1>1, <1>2, <1>3, <1>4 DEF Calm

\* A good disk, with some tree.
Whole(s, k) == \E D, F, path : Good(s, D, F, path, k)

\* The paths are still those before, or x has been added.
AtMostAdded(before, x, after) == after = before \/ after = before \cup {x}

\* Every cut of mkdir and cat, when a slot is free.
LEMMA FillCutsWhole ==
  ASSUME NEW s, NEW D, NEW F, NEW path, NEW k \in Nat, Good(s, D, F, path, k),
         NEW n \in D, NEW type \in {FILE, DIR}, NEW name \in Arguments, Nameable(type, name),
         NotThere(s, n, type, name), NEW p \in FreeSlot(s, n), NEW to,
         NEW t \in FillCuts(s, n, name, type, p, to), Calm(t)
  PROVE  /\ Whole(t, k + 1)
         /\ AtMostAdded(TypedPaths(s), PathTo(path, n, type, name), TypedPaths(t))
<1> DEFINE m == next_inode(s)
           v == get_inode(s)
           content == [BlockAt(s, n, p[1]) EXCEPT ![p[2]] = NewEntry(m, type, name)]
           s1 == update_dir(v, Area(s, n).i_block[to], content)
           s2 == update_inode_entry(s1, n, Grown(s, n))
<1>0. /\ s \in FileSystems /\ n \in Inodes /\ v \in FileSystems /\ m \in 0 .. InodeCount
      /\ k + 1 \in Nat /\ k <= k + 1
  BY GoodFacts, GetInodeType, NextInodeRange
<1>1. to = p[1]
  BY DEF FillCuts
<1>2. t \in InodeCuts(s) \cup {s1, s2} \cup PrepareCuts(s2, m, type, n)
  BY <1>1 DEF FillCuts
<1>3. p \in Positions(s, n) /\ p[1] \in 1 .. Len(Area(s, n).i_block)
  BY <1>0, FreeSlotType, EntryAtType
<1>4. content \in [Slots -> Entries] /\ Area(s, n).i_block[to] \in Blocks
  <2>1. NewEntry(m, type, name) \in Entries
    BY <1>0, EntryConstructors
  <2> QED BY <1>0, <1>1, <1>3, <2>1, EntryAtType, BlockAtType
<1> HIDE DEF content
<1>5. /\ s1 \in FileSystems
      /\ s1.data = [v.data EXCEPT ![Area(s, n).i_block[to]] = content]
      /\ s1.inode_table = v.inode_table
      /\ s1.inode_bitmap = v.inode_bitmap
      /\ s1.block_bitmap = v.block_bitmap
      /\ s1.bg_free_blocks_count = v.bg_free_blocks_count
      /\ s1.faults = v.faults
  BY <1>0, <1>4, UpdateDirResult
<1>6. Grown(s, n) \in InodeRecords /\ Grown(s, n).i_block = Area(s, n).i_block
      /\ Grown(s, n).i_size = Area(s, n).i_size + 1
  BY <1>0, AreaType DEF InodeRecords, Grown
<1> HIDE DEF s1
<1>7. /\ s2 \in FileSystems
      /\ Area(s2, n) = Grown(s, n)
      /\ \A j \in Inodes \ {n} : Area(s2, j) = Area(s1, j)
      /\ s2.inode_bitmap = s1.inode_bitmap
      /\ s2.block_bitmap = s1.block_bitmap
      /\ s2.bg_free_blocks_count = s1.bg_free_blocks_count
      /\ s2.data = s1.data
      /\ s2.faults = s1.faults
  BY <1>0, <1>5, <1>6, UpdateInodeResult
<1> HIDE DEF s2
<1>8. Calm(v) \/ t \in InodeCuts(s)
  <2>1. CASE t \in {s1, s2}
    BY <1>5, <1>7, <2>1 DEF Calm
  <2>2. CASE t \in PrepareCuts(s2, m, type, n)
    <3>1. Calm(s2)
      BY <1>0, <1>7, <2>2, PrepareCutsFaults
    <3> QED BY <1>5, <1>7, <3>1 DEF Calm
  <2> QED BY <1>2, <2>1, <2>2
<1>9. CASE t \in InodeCuts(s)
  <2>1. Good(t, D, F, path, k) /\ TypedPaths(t) = TypedPaths(s)
    BY <1>9, InodeGood
  <2>2. Aside(t, t) /\ Extra(t) \in 0 .. k + 1
    BY <2>1 DEF Aside, Good, Sound
  <2>3. Good(t, D, F, path, k + 1)
    BY <1>0, <2>1, <2>2, GoodAside
  <2> QED BY <2>1, <2>3 DEF Whole, AtMostAdded
<1>10. CASE Calm(v)
  <2>1. /\ m \in Inodes /\ m \notin s.inode_bitmap
        /\ v.inode_bitmap = s.inode_bitmap \cup {m}
        /\ v.block_bitmap = s.block_bitmap
        /\ v.bg_free_blocks_count = s.bg_free_blocks_count
        /\ v.inode_table = s.inode_table
        /\ v.data = s.data
    BY <1>0, <1>10, InodeCalm
  <2> HIDE DEF m, v
  <2> DEFINE E == NewDirs(D, m, type)
             G == NewFiles(F, m, type)
             way == NewPath(path, D, n, m, type, name)
             x == PathTo(path, n, type, name)
  <2>2. Fills(s, s1, n, p, m, type, name) /\ Area(s1, n) = Area(s, n)
    BY <1>1, <1>5, <2>1 DEF Fills, Area, content
  <2>3. Fills(s, s2, n, p, m, type, name)
    BY <1>6, <1>7, <2>2 DEF Fills
  <2>4. Area(s, n).i_size \in Int
    BY <1>0, AreaType
  <2>5. Good(s1, E, G, way, k + 1) /\ AddsPath(s, s1, x)
    BY <1>0, <2>2, <2>4, GoodFilled
  <2>6. k <= k /\ Area(s, n).i_size + k + 1 <= Area(s2, n).i_size + k
    BY <1>6, <1>7, <2>4
  <2>7. Good(s2, E, G, way, k) /\ AddsPath(s, s2, x)
    BY <2>3, <2>6, GoodFilled
  <2>8. Good(s2, E, G, way, k + 1)
    BY <1>0, <1>6, <1>7, <2>3, <2>4, GoodFilled
  <2>9. n \in E
    BY DEF NewDirs
  <2>10. t \in PrepareCuts(s2, m, type, n) =>
            Good(t, E, G, way, k + 1) /\ TypedPaths(t) = TypedPaths(s2)
    BY <1>0, <2>7, <2>9, GoodPrepareCuts DEF m
  <2>11. t \in {s1, s2} => Good(t, E, G, way, k + 1) /\ AddsPath(s, t, x)
    BY <2>5, <2>7, <2>8
  <2>12. /\ Good(t, E, G, way, k + 1) => Whole(t, k + 1)
         /\ AddsPath(s, t, x) => AtMostAdded(TypedPaths(s), x, TypedPaths(t))
    BY DEF Whole, AtMostAdded, AddsPath
  <2>13. TypedPaths(t) = TypedPaths(s2) => AddsPath(s, t, x)
    BY <2>7 DEF AddsPath
  <2> QED BY <1>2, <1>9, <2>10, <2>11, <2>12, <2>13 DEF m
<1> QED BY <1>8, <1>9, <1>10

\* What is good stays good when more crashes are counted.
LEMMA GoodLater ==
  ASSUME NEW s, NEW D, NEW F, NEW path, NEW k \in Nat, Good(s, D, F, path, k),
         NEW k2 \in Nat, k <= k2
  PROVE  Good(s, D, F, path, k2)
<1>1. Aside(s, s) /\ Extra(s) \in 0 .. k2
  BY DEF Aside, Good, Sound
<1> QED BY <1>1, GoodAside

\* Every cut of mkdir and cat, when every block is full.
LEMMA AppendCutsWhole ==
  ASSUME NEW s, NEW D, NEW F, NEW path, NEW k \in Nat, Good(s, D, F, path, k),
         NEW n \in D, NEW type \in {FILE, DIR}, NEW name \in Arguments, Nameable(type, name),
         NotThere(s, n, type, name), ~Partial(s, n), HasRoom(s, n),
         NEW t \in AppendCuts(s, n, name, type), Calm(t)
  PROVE  /\ Whole(t, k + 1)
         /\ AtMostAdded(TypedPaths(s), PathTo(path, n, type, name), TypedPaths(t))
<1> DEFINE b == next_block(s)
           s1 == alloc_block(s)
           m == next_inode(s1)
           v == get_inode(s1)
           content == [j \in Slots |-> IF j = 0 THEN NewEntry(m, type, name) ELSE Empty]
           s2 == update_dir(v, b, content)
           area == [Grown(s, n) EXCEPT !.i_block = Append(@, b)]
           s3 == update_inode_entry(s2, n, area)
<1>0. /\ s \in FileSystems /\ n \in Inodes /\ b \in Blocks /\ s1 \in FileSystems
      /\ k + 1 \in Nat /\ k <= k + 1
  BY GoodFacts, NextBlockType, AllocBlockType
<1>1. v \in FileSystems /\ m \in 0 .. InodeCount
  BY <1>0, GetInodeType, NextInodeRange
<1>2. t \in AllocCuts(s) \cup InodeCuts(s1) \cup {s2, s3} \cup PrepareCuts(s3, m, type, n)
  BY DEF AppendCuts
<1>3. content \in [Slots -> Entries]
  BY <1>1, EntryConstructors
<1> HIDE DEF content, b
<1>4. /\ s2 \in FileSystems
      /\ s2.data = [v.data EXCEPT ![b] = content]
      /\ s2.inode_table = v.inode_table
      /\ s2.inode_bitmap = v.inode_bitmap
      /\ s2.block_bitmap = v.block_bitmap
      /\ s2.bg_free_blocks_count = v.bg_free_blocks_count
      /\ s2.faults = v.faults
  BY <1>0, <1>1, <1>3, UpdateDirResult
<1>5. /\ area \in InodeRecords
      /\ area.i_block = Append(Area(s, n).i_block, b)
      /\ area.i_size = Area(s, n).i_size + 1
  <2>1. /\ Area(s, n).i_mode \in SUBSET ModeBits
        /\ Area(s, n).i_size + 1 \in Int
        /\ Append(Area(s, n).i_block, b) \in Seq(Blocks)
    BY <1>0, AreaType
  <2>2. Area(s, n) \in InodeRecords
    BY <1>0, AreaType
  <2> QED BY <2>1, <2>2 DEF InodeRecords, Grown
<1> HIDE DEF area, s2
<1>6. /\ s3 \in FileSystems
      /\ Area(s3, n) = area
      /\ \A j \in Inodes \ {n} : Area(s3, j) = Area(s2, j)
      /\ s3.inode_bitmap = s2.inode_bitmap
      /\ s3.block_bitmap = s2.block_bitmap
      /\ s3.bg_free_blocks_count = s2.bg_free_blocks_count
      /\ s3.data = s2.data
      /\ s3.faults = s2.faults
  BY <1>0, <1>4, <1>5, UpdateInodeResult
<1> HIDE DEF s3
<1>7. CASE t \in AllocCuts(s)
  BY <1>7, AllocGood DEF Whole, AtMostAdded
<1>8. ASSUME Calm(s1)
      PROVE  /\ Good(s1, D, F, path, k) /\ TypedPaths(s1) = TypedPaths(s)
             /\ b \notin s.block_bitmap
             /\ s1.block_bitmap = s.block_bitmap \cup {b}
             /\ s1.bg_free_blocks_count = s.bg_free_blocks_count - 1
             /\ s1.inode_bitmap = s.inode_bitmap
             /\ s1.inode_table = s.inode_table
             /\ s1.data = s.data
  BY <1>0, <1>8, AllocCalm, AllocGood DEF b
<1> HIDE DEF s1
<1>9. CASE t \in InodeCuts(s1)
  <2>1. t.faults = s1.faults
    BY <1>0, <1>9 DEF InodeCuts, get_inode, FileSystems
  <2>2. Good(t, D, F, path, k) /\ TypedPaths(t) = TypedPaths(s)
    BY <1>8, <1>9, <2>1, InodeGood DEF Calm
  <2>3. Good(t, D, F, path, k + 1)
    BY <1>0, <2>2, GoodLater
  <2> QED BY <2>2, <2>3 DEF Whole, AtMostAdded
<1>10. CASE t \in {s2, s3} \cup PrepareCuts(s3, m, type, n)
  <2>1. Calm(v)
    <3>1. CASE t \in {s2, s3}
      BY <1>4, <1>6, <3>1 DEF Calm
    <3>2. CASE t \in PrepareCuts(s3, m, type, n)
      <4>1. Calm(s3)
        BY <1>0, <1>1, <1>6, <3>2, PrepareCutsFaults
      <4> QED BY <1>4, <1>6, <4>1 DEF Calm
    <3> QED BY <1>10, <3>1, <3>2
  <2>2. /\ Calm(s1)
        /\ m \in Inodes /\ m \notin s1.inode_bitmap
        /\ v.inode_bitmap = s1.inode_bitmap \cup {m}
        /\ v.block_bitmap = s1.block_bitmap
        /\ v.bg_free_blocks_count = s1.bg_free_blocks_count
        /\ v.inode_table = s1.inode_table
        /\ v.data = s1.data
    BY <1>0, <2>1, InodeCalm
  <2> HIDE DEF m, v
  <2> DEFINE E == NewDirs(D, m, type)
             G == NewFiles(F, m, type)
             way == NewPath(path, D, n, m, type, name)
             x == PathTo(path, n, type, name)
  <2>3. Aside(s, s2) /\ Extra(s2) = Extra(s1) /\ Extra(s1) \in 0 .. k
    <3>1. s.data \in [Blocks -> [Slots -> Entries]] /\ s.block_bitmap \in SUBSET Blocks
      BY <1>0 DEF FileSystems
    <3>2. \A c \in s.block_bitmap : s2.data[c] = s.data[c]
      BY <1>0, <1>4, <1>8, <2>2, <3>1
    <3>3. Aside(s, s2)
      BY <1>4, <1>8, <2>2, <3>2 DEF Aside, Area
    <3>4. Extra(s2) = Extra(s1)
      BY <1>4, <2>2 DEF Extra
    <3> QED BY <1>8, <2>2, <3>3, <3>4 DEF Good, Sound
  <2>4. Good(s2, D, F, path, k + 1) /\ TypedPaths(s2) = TypedPaths(s)
    <3>1. Extra(s2) \in 0 .. k + 1
      BY <2>3
    <3> QED BY <1>0, <2>3, <3>1, GoodAside
  <2>5. Appends(s, s3, n, b, m, type, name)
    <3>1. \A j \in Inodes \ {n} : Area(s3, j) = Area(s, j)
      BY <1>4, <1>6, <1>8, <2>2 DEF Area
    <3>2. s3.data = [s.data EXCEPT ![b] =
                        [j \in Slots |-> IF j = 0 THEN NewEntry(m, type, name) ELSE Empty]]
      BY <1>4, <1>6, <1>8, <2>2 DEF content
    <3> QED BY <1>0, <1>4, <1>5, <1>6, <1>8, <2>2, <3>1, <3>2 DEF Appends
  <2>6. Good(s3, E, G, way, k) /\ AddsPath(s, s3, x)
    BY <2>5, GoodAppended
  <2>7. n \in E
    BY DEF NewDirs
  <2>8. t \in PrepareCuts(s3, m, type, n) =>
            Good(t, E, G, way, k + 1) /\ TypedPaths(t) = TypedPaths(s3)
    BY <1>1, <2>6, <2>7, GoodPrepareCuts
  <2>9. t = s3 => Good(t, E, G, way, k + 1) /\ AddsPath(s, t, x)
    BY <1>0, <2>6, GoodLater
  <2>10. Good(t, E, G, way, k + 1) => Whole(t, k + 1)
    BY DEF Whole
  <2>11. Good(t, D, F, path, k + 1) => Whole(t, k + 1)
    BY DEF Whole
  <2>12. TypedPaths(t) = TypedPaths(s) \/ AddsPath(s, t, x) =>
            AtMostAdded(TypedPaths(s), x, TypedPaths(t))
    BY DEF AtMostAdded, AddsPath
  <2>13. TypedPaths(t) = TypedPaths(s3) => AddsPath(s, t, x)
    BY <2>6 DEF AddsPath
  <2> QED BY <1>10, <2>4, <2>8, <2>9, <2>10, <2>11, <2>12, <2>13
<1> QED BY <1>2, <1>7, <1>9, <1>10

\* Every cut of mkdir and cat leaves a good disk.
LEMMA AddCutsWhole ==
  ASSUME NEW s, NEW D, NEW F, NEW path, NEW k \in Nat, Good(s, D, F, path, k),
         NEW n \in D, NEW type \in {FILE, DIR}, NEW name \in Arguments, Nameable(type, name),
         NotThere(s, n, type, name), HasRoom(s, n),
         NEW t \in AddCuts(s, n, name, type), Calm(t)
  PROVE  /\ Whole(t, k + 1)
         /\ AtMostAdded(TypedPaths(s), PathTo(path, n, type, name), TypedPaths(t))
<1>1. CASE ~Partial(s, n)
  <2>1. t \in AppendCuts(s, n, name, type)
    BY <1>1 DEF AddCuts
  <2> QED BY <1>1, <2>1, AppendCutsWhole
<1>2. CASE Partial(s, n)
  <2>1. PICK p \in FreeSlot(s, n) :
           t \in FillCuts(s, n, name, type, p,
                          IF type = DIR THEN Len(Area(s, n).i_block) ELSE p[1])
    BY <1>2 DEF AddCuts
  <2> QED BY <2>1, FillCutsWhole
<1> QED BY <1>1, <1>2

\* The same with directory n in the tree, by the path at.
WholeAt(s, k, n, at) ==
    \E D, F, path : Good(s, D, F, path, k) /\ n \in D /\ path[n] = at

\* mkdir and cat as a whole.
LEMMA AddWhole ==
  ASSUME NEW s, NEW D, NEW F, NEW path, NEW k \in Nat, Good(s, D, F, path, k),
         NEW n \in D, NEW type \in {FILE, DIR}, NEW name \in Arguments, Nameable(type, name),
         NotThere(s, n, type, name), HasRoom(s, n), NEW t, Calm(t),
         \/ /\ Partial(s, n)
            /\ \E p \in FreeSlot(s, n) : \E to \in 1 .. Len(Area(s, n).i_block) :
                  t = FillSlot(s, n, name, type, p, to)
         \/ ~Partial(s, n) /\ t = AppendBlock(s, n, name, type)
  PROVE  WholeAt(t, k, n, path[n])
<1>0. s \in FileSystems /\ n \in Inodes /\ D \in SUBSET Inodes
  BY GoodFacts
<1>1. ASSUME NEW u, NEW m \in Inodes \ s.inode_bitmap, t = dir_prepare(u, m, type, n),
             \A j \in Inodes \ {n} : Area(u, j) = Area(s, j),
             Good(u, NewDirs(D, m, type), NewFiles(F, m, type),
                  NewPath(path, D, n, m, type, name), k)
      PROVE  WholeAt(t, k, n, path[n])
  <2> DEFINE E == NewDirs(D, m, type)
             G == NewFiles(F, m, type)
             way == NewPath(path, D, n, m, type, name)
  <2>1. m \notin D
    BY <1>1 DEF Good, Linked, Marked
  <2>2. Area(u, m).i_block = <<>> /\ Area(u, m).i_size = 0
    <3>1. Area(u, m) = Area(s, m)
      BY <1>1, <2>1
    <3> QED BY <1>1, <3>1 DEF Good, Sound, Blank
  <2>3. n \in E /\ way[n] = path[n]
    BY <2>1 DEF NewDirs, NewPath, Extended
  <2>4. Good(t, E, G, way, k)
    <3>1. CASE type = FILE
      BY <1>1, <2>2, <2>3, <3>1, GoodNewFile
    <3>2. CASE type = DIR
      <4>1. m \in E /\ way[m] = Append(way[n], name) /\ name \in Names
        BY <2>1, <3>2 DEF NewDirs, NewPath, Extended, Nameable
      <4> HIDE DEF E, G, way
      <4> QED BY <1>1, <2>2, <2>3, <3>2, <4>1, GoodNewDir DEF E, G, way
    <3> QED BY <3>1, <3>2
  <2> HIDE DEF E, G, way
  <2> QED BY <2>3, <2>4 DEF WholeAt
<1>2. CASE Partial(s, n) /\ \E p \in FreeSlot(s, n) : \E to \in 1 .. Len(Area(s, n).i_block) :
               t = FillSlot(s, n, name, type, p, to)
  <2>1. PICK p \in FreeSlot(s, n) : \E to \in 1 .. Len(Area(s, n).i_block) :
               t = FillSlot(s, n, name, type, p, to)
    BY <1>2
  <2>2. PICK m \in Inodes : \E u \in FileSystems : Filled(s, u, t, n, p, m, type, name)
    BY <1>0, <2>1, FillResult
  <2>3. PICK u \in FileSystems : Filled(s, u, t, n, p, m, type, name)
    BY <2>2
  <2>4. Fills(s, u, n, p, m, type, name)
    BY <2>3 DEF Filled, Fills
  <2>5. k <= k /\ Area(s, n).i_size + k + 1 <= Area(u, n).i_size + k
    <3>1. Area(s, n).i_size \in Int /\ Area(u, n).i_size = Area(s, n).i_size + 1
      BY <1>0, <2>3, AreaType DEF Filled
    <3> QED BY <3>1
  <2>6. Good(u, NewDirs(D, m, type), NewFiles(F, m, type),
             NewPath(path, D, n, m, type, name), k)
    BY <2>4, <2>5, GoodFilled
  <2> QED BY <1>1, <2>3, <2>6 DEF Filled
<1>3. CASE ~Partial(s, n) /\ t = AppendBlock(s, n, name, type)
  <2>1. PICK m \in Inodes : \E u \in FileSystems : \E b \in Blocks :
           Appended(s, u, t, n, b, m, type, name)
    BY <1>0, <1>3, AppendResult
  <2>2. PICK u \in FileSystems, b \in Blocks : Appended(s, u, t, n, b, m, type, name)
    BY <2>1
  <2>3. Appends(s, u, n, b, m, type, name)
    BY <2>2 DEF Appended, Appends
  <2>4. Good(u, NewDirs(D, m, type), NewFiles(F, m, type),
             NewPath(path, D, n, m, type, name), k)
    BY <1>3, <2>3, GoodAppended
  <2> QED BY <1>1, <2>2, <2>4 DEF Appended
<1> QED BY <1>2, <1>3
-----------------------------------------------------------------------------
(* rmdir and rm: the entry at p of directory n is cleared, and the blocks  *)
(* of R, which its inode had, are given back.                              *)
Clears(s, t, n, p, R) ==
    /\ t \in FileSystems
    /\ t.inode_table = s.inode_table
    /\ t.inode_bitmap = s.inode_bitmap
    /\ t.block_bitmap = s.block_bitmap \ R
    /\ t.bg_free_blocks_count = s.bg_free_blocks_count + Cardinality(R)
    /\ t.data = [s.data EXCEPT ![Area(s, n).i_block[p[1]]] =
                     [BlockAt(s, n, p[1]) EXCEPT ![p[2]] = Empty]]

\* What stays of the tree when c leaves it by the entry at p of n.
Leaves(s, t, D, F, path, n, p, c, E, G, way) ==
    /\ E \subseteq D /\ G \subseteq F /\ n \in E /\ c \in (D \cup F) \ (E \cup G)
    /\ way[n] = path[n]
    /\ Linked(t, E, G, way)
    /\ Loses(s, t, n, p)
    /\ \A d \in D \ {n} : SameEntries(s, t, d)

\* The path of the entry at p of n.
PathOf(s, path, n, p) == PathTo(path, n, EntryAt(s, n, p).file_type, EntryAt(s, n, p).name)

\* Path x is lost, and what was below it.
LosesPath(s, t, x) == TypedPaths(t) = PathsWithout(x, TypedPaths(s))

\* A tree stays when one of its names goes.
LEMMA LinkedLeaves ==
  ASSUME NEW s, NEW D, NEW F, NEW path, NEW k, Good(s, D, F, path, k),
         NEW n \in D, NEW p \in Used(s, n), Proper(EntryAt(s, n, p)),
         NEW c, c = EntryAt(s, n, p).inode,
         NEW t, NEW R, Clears(s, t, n, p, R)
  PROVE  /\ \E E, G, way : Leaves(s, t, D, F, path, n, p, c, E, G, way)
         /\ LosesPath(s, t, PathOf(s, path, n, p))
<1>0. /\ s \in FileSystems /\ t \in FileSystems /\ n \in Inodes
      /\ D \in SUBSET Inodes /\ F \in SUBSET Inodes /\ D \cap F = {} /\ Apart(s, D, n)
      /\ Linked(s, D, F, path) /\ t.inode_bitmap = s.inode_bitmap
  BY GoodFacts DEF Clears, Good
<1>1. p \in Positions(s, n)
  BY DEF Used
<1>2. \A x \in Inodes : Area(t, x) = Area(s, x)
  BY DEF Clears, Area
<1>3. OneSlot(s, t, D, n, p, Empty)
  BY <1>0, <1>1, <1>2, SlotSet DEF Clears
<1>4. Loses(s, t, n, p) /\ \A d \in D \ {n} : SameEntries(s, t, d)
  <2>1. Empty.inode = 0
    BY DEF Empty
  <2> HIDE DEF Empty
  <2>2. Used(t, n) = Used(s, n) \ {p}
    BY <1>3, <2>1 DEF OneSlot, Used
  <2> QED BY <1>3, <2>2 DEF OneSlot, Loses, Used
<1>5. CASE EntryAt(s, n, p).file_type = FILE
  <2>1. c \in F /\ Linked(t, D, F \ {c}, path)
    BY <1>0, <1>4, <1>5, LinkedLoseFile
  <2>2. Leaves(s, t, D, F, path, n, p, c, D, F \ {c}, path)
    BY <1>0, <1>4, <2>1 DEF Leaves
  <2>3. PICK x : x = PathOf(s, path, n, p)
    OBVIOUS
  <2>4. x = PathTo(path, n, FILE, EntryAt(s, n, p).name) /\ x[2] = FILE
    BY <1>5, <2>3 DEF PathOf, PathTo
  <2>5. TypedPaths(t) = TypedPaths(s) \ {x}
    BY <1>0, <1>4, <1>5, <2>1, <2>4, PathsLoseFile
  <2> QED BY <2>2, <2>3, <2>4, <2>5 DEF LosesPath, PathsWithout
<1>6. CASE Directs(EntryAt(s, n, p))
  <2> DEFINE E == Kept(D, path, c)
             way == [d \in E |-> path[d]]
             G == NamedBy(t, E, F)
  <2>1. E = Kept(D, path, c)
    OBVIOUS
  <2> HIDE DEF E
  <2>2. /\ c \in D \ {Root, n}
        /\ n \in E /\ c \notin E
        /\ Linked(t, E, G, way)
    BY <1>0, <1>4, <1>6, <2>1, LinkedLoseDir
  <2>3. E \subseteq D /\ G \subseteq F /\ way[n] = path[n]
    BY <2>2 DEF E, Kept, NamedBy
  <2>4. c \in (D \cup F) \ (E \cup G)
    BY <1>0, <2>2, <2>3
  <2> HIDE DEF G, way
  <2>5. Leaves(s, t, D, F, path, n, p, c, E, G, way)
    BY <1>4, <2>2, <2>3, <2>4 DEF Leaves
  <2>6. PICK x : x = PathOf(s, path, n, p)
    OBVIOUS
  <2>7. /\ x = PathTo(path, n, DIR, EntryAt(s, n, p).name)
        /\ x[2] # FILE
    BY <1>6, <2>6 DEF PathOf, PathTo, Directs, FILE, DIR
  <2>8. TypedPaths(t) = TypedPaths(s) \ ({x} \cup Below(x[1], TypedPaths(s)))
    BY <1>0, <1>4, <1>6, <2>1, <2>2, <2>7, PathsLoseDir DEF way
  <2> QED BY <2>5, <2>6, <2>7, <2>8 DEF LosesPath, PathsWithout
<1> QED BY <1>5, <1>6 DEF Proper

\* Directory n is there, and its size has one to spare.
Spare(s, D, F, path, k, n, at) ==
    /\ Good(s, D, F, path, k)
    /\ n \in D /\ path[n] = at
    /\ Area(s, n).i_block # <<>>
    /\ Cardinality(Used(s, n)) + 1 <= Area(s, n).i_size + k

\* Once the name is cleared, the disk is good and the directory has one
\* more than it needs in its size.
LEMMA GoodCleared ==
  ASSUME NEW s, NEW D, NEW F, NEW path, NEW k \in Nat, Good(s, D, F, path, k),
         NEW n \in D, NEW p \in Used(s, n), Proper(EntryAt(s, n, p)),
         NEW c, c = EntryAt(s, n, p).inode,
         NEW R \in SUBSET BlocksOf(Area(s, c)), NEW t, Clears(s, t, n, p, R)
  PROVE  /\ \E E, G, way : Spare(t, E, G, way, k, n, path[n])
         /\ LosesPath(s, t, PathOf(s, path, n, p))
<1>0. /\ s \in FileSystems /\ t \in FileSystems /\ n \in Inodes
      /\ D \in SUBSET Inodes /\ F \in SUBSET Inodes
      /\ s.block_bitmap \in SUBSET Blocks
  BY GoodFacts DEF Clears
<1>1. PICK E, G, way : Leaves(s, t, D, F, path, n, p, c, E, G, way)
  BY LinkedLeaves
<1>2. /\ E \subseteq D /\ G \subseteq F /\ n \in E /\ c \in D \cup F /\ c \notin E \cup G
      /\ Used(t, n) = Used(s, n) \ {p}
      /\ \A d \in D \ {n} : Used(t, d) = Used(s, d)
  BY <1>1 DEF Leaves, Loses, SameEntries
<1>3. \A x \in Inodes : Area(t, x) = Area(s, x)
  BY DEF Clears, Area
<1>4. Blank(t)
  BY <1>3 DEF Clears, Good, Sound, Blank
<1>5. Cardinality(Used(t, n)) + 1 <= Area(t, n).i_size + k /\ Cardinality(Used(t, n)) \in Nat
  <2>1. IsFiniteSet(Used(s, n)) /\ Cardinality(Used(s, n)) \in Nat
        /\ Cardinality(Used(t, n)) \in Nat
    BY <1>0, PositionsFinite
  <2>2. Cardinality(Used(t, n)) = Cardinality(Used(s, n)) - 1
    <3>1. PICK S : S = Used(s, n)
      OBVIOUS
    <3>2. Used(t, n) = S \ {p} /\ p \in S /\ IsFiniteSet(S)
      BY <1>2, <2>1, <3>1
    <3> QED BY <3>1, <3>2, FS_RemoveElement
  <2>3. Cardinality(Used(s, n)) <= Area(s, n).i_size + k /\ Area(s, n).i_size \in Int
    BY <1>0, AreaType DEF Good, Sound, Near
  <2> QED BY <1>0, <1>3, <2>1, <2>2, <2>3
<1>6. Area(t, n).i_block # <<>>
  BY <1>0, <1>3 DEF Used, Positions
<1>7. ASSUME NEW d \in E
      PROVE  Near(t, d, k)
  <2>1. CASE d = n
    <3>1. Area(t, n).i_size \in Int
      BY <1>0, AreaType
    <3>2. Near(t, n, k)
      BY <1>5, <1>6, <3>1 DEF Near
    <3> QED BY <2>1, <3>2
  <2>2. CASE d # n
    <3>1. d \in D /\ d \in Inodes
      BY <1>0, <1>2
    <3>2. Near(s, d, k) /\ Area(t, d) = Area(s, d) /\ Used(t, d) = Used(s, d)
      BY <1>2, <1>3, <2>2, <3>1 DEF Good, Sound
    <3> QED BY <3>2 DEF Near
  <2> QED BY <2>1, <2>2
<1>8. R \subseteq s.block_bitmap
  BY <1>2, GoodFacts DEF BlocksOf
<1>9. Held(t, E \cup G, Lists(t))
  <2>1. Held(s, D \cup F, Lists(s))
    BY DEF Good, Sound
  <2>2. E \cup G \in SUBSET (D \cup F) /\ t.block_bitmap \in SUBSET Blocks
    BY <1>0, <1>2 DEF FileSystems
  <2>3. \A x \in E \cup G : Lists(t)[x] = Lists(s)[x]
    BY <1>0, <1>2, <1>3 DEF Lists
  <2>4. ASSUME NEW x \in E \cup G, NEW i \in 1 .. Len(Lists(s)[x])
        PROVE  Lists(s)[x][i] \in t.block_bitmap
    <3>1. x \in D \cup F /\ x # c /\ Lists(s)[x] = Area(s, x).i_block
      BY <1>0, <1>2 DEF Lists
    <3>2. Area(s, x).i_block[i] \in s.block_bitmap
      BY <2>4, <3>1, GoodFacts
    <3>3. Area(s, x).i_block[i] \notin BlocksOf(Area(s, c))
      BY <1>2, <2>4, <3>1, GoodFacts DEF BlocksOf
    <3> QED BY <3>1, <3>2, <3>3 DEF Clears
  <2> QED BY <2>1, <2>2, <2>3, <2>4, OwnedSub DEF Held
<1>10. Extra(t) = Extra(s)
  <2>1. IsFiniteSet(s.block_bitmap) /\ Cardinality(s.block_bitmap) \in Nat
        /\ Cardinality(R) \in Nat
    BY <1>0, <1>8, BlocksFinite
  <2>2. s.block_bitmap \cap R = R
    BY <1>8
  <2>3. Cardinality(s.block_bitmap \ R) = Cardinality(s.block_bitmap) - Cardinality(R)
    <3>1. PICK S : S = s.block_bitmap
      OBVIOUS
    <3>2. IsFiniteSet(S) /\ S \cap R = R
      BY <2>1, <2>2, <3>1
    <3>3. Cardinality(S \ R) = Cardinality(S) - Cardinality(S \cap R)
      BY <3>2, FS_Difference
    <3> QED BY <3>1, <3>2, <3>3
  <2>4. s.bg_free_blocks_count \in Nat /\ BlockCount \in Nat
    BY <1>0, SizesAssumption DEF FileSystems
  <2> QED BY <2>1, <2>3, <2>4 DEF Extra, Clears
<1>11. \A d \in E : Lists(t)[d] = Area(t, d).i_block
  BY <1>0, <1>2 DEF Lists
<1>12. Good(t, E, G, way, k)
  <2>1. Linked(t, E, G, way)
    BY <1>1 DEF Leaves
  <2>2. Extra(s) \in 0 .. k
    BY DEF Good, Sound
  <2> QED BY <1>0, <1>4, <1>7, <1>9, <1>10, <1>11, <2>1, <2>2 DEF Good, Sound
<1>13. way[n] = path[n]
  BY <1>1 DEF Leaves
<1>14. LosesPath(s, t, PathOf(s, path, n, p))
  BY LinkedLeaves
<1> QED BY <1>2, <1>5, <1>6, <1>12, <1>13, <1>14 DEF Spare

(* The sweep.  A list without its second block.                            *)
Skip(i) == IF i = 1 THEN 1 ELSE i + 1

\* List a after the sweep.
WithoutSecond(a) == SubSeq(a, 1, 1) \o SubSeq(a, 3, Len(a))

\* The blocks of a list without its second.
LEMMA SecondGone ==
  ASSUME NEW a \in Seq(Blocks), Len(a) > 1
  PROVE  /\ WithoutSecond(a) \in Seq(Blocks)
         /\ Len(WithoutSecond(a)) = Len(a) - 1
         /\ \A i \in 1 .. Len(a) - 1 : Skip(i) \in 1 .. Len(a) /\ WithoutSecond(a)[i] = a[Skip(i)]
<1> DEFINE x == SubSeq(a, 1, 1)
           y == SubSeq(a, 3, Len(a))
<1>0. Len(a) \in Nat
  OBVIOUS
<1>1. x \in Seq(Blocks) /\ Len(x) = 1 /\ x[1] = a[1]
  BY <1>0, SubSeqProperties
<1>2. y \in Seq(Blocks) /\ Len(y) = Len(a) - 2 /\ \A i \in 1 .. Len(a) - 2 : y[i] = a[i + 2]
  <2>1. \A i \in 3 .. Len(a) : a[i] \in Blocks
    BY <1>0
  <2>2. /\ y \in Seq(Blocks)
        /\ Len(y) = IF 3 <= Len(a) THEN Len(a) - 3 + 1 ELSE 0
        /\ \A i \in 1 .. Len(a) - 3 + 1 : y[i] = a[3 + i - 1]
    BY <1>0, <2>1, SubSeqProperties
  <2> HIDE DEF y
  <2>3. Len(y) = Len(a) - 2
    <3> DEFINE m == Len(a)
    <3>1. m \in Nat /\ m > 1 /\ Len(y) = IF 3 <= m THEN m - 3 + 1 ELSE 0
      BY <1>0, <2>2
    <3> HIDE DEF m
    <3>2. Len(y) = m - 2
      BY <3>1
    <3> QED BY <3>2 DEF m
  <2>4. ASSUME NEW i \in 1 .. Len(a) - 2
        PROVE  y[i] = a[i + 2]
    <3>1. i \in 1 .. Len(a) - 3 + 1 /\ 3 + i - 1 = i + 2
      BY <1>0
    <3> QED BY <2>2, <3>1
  <2> QED BY <2>2, <2>3, <2>4
<1> HIDE DEF x, y
<1>3. /\ x \o y \in Seq(Blocks) /\ Len(x \o y) = Len(a) - 1
      /\ \A i \in 1 .. Len(a) - 1 : (x \o y)[i] = IF i <= 1 THEN x[i] ELSE y[i - 1]
  <2>1. /\ x \o y \in Seq(Blocks)
        /\ Len(x \o y) = Len(x) + Len(y)
        /\ \A i \in 1 .. Len(x) + Len(y) :
               (x \o y)[i] = IF i <= Len(x) THEN x[i] ELSE y[i - Len(x)]
    BY <1>1, <1>2, ConcatProperties
  <2>2. Len(x) = 1 /\ Len(x) + Len(y) = Len(a) - 1
    BY <1>0, <1>1, <1>2
  <2> QED BY <2>1, <2>2
<1>4. ASSUME NEW i \in 1 .. Len(a) - 1
      PROVE  Skip(i) \in 1 .. Len(a) /\ (x \o y)[i] = a[Skip(i)]
  <2>1. CASE i = 1
    BY <1>0, <1>1, <1>3, <2>1 DEF Skip
  <2>2. CASE i # 1
    <3>1. i - 1 \in 1 .. Len(a) - 2 /\ (i - 1) + 2 = i + 1 /\ ~(i <= 1)
      BY <1>0, <2>2
    <3>2. (x \o y)[i] = y[i - 1]
      BY <1>3, <3>1
    <3> QED BY <1>0, <1>2, <2>2, <3>1, <3>2 DEF Skip
  <2> QED BY <2>1, <2>2
<1> QED BY <1>3, <1>4 DEF WithoutSecond, x, y

\* What the sweep does to a directory with a second block.
LEMMA SweptSecond ==
  ASSUME NEW s \in FileSystems, NEW n \in Inodes, NEW a, a = Area(s, n).i_block, Len(a) > 1,
         NEW t, t = Swept(s, n)
  PROVE  /\ t \in FileSystems
         /\ Area(t, n).i_block = WithoutSecond(a)
         /\ Area(t, n).i_size = Area(s, n).i_size - 1
         /\ \A k \in Inodes \ {n} : Area(t, k) = Area(s, k)
         /\ t.inode_bitmap = s.inode_bitmap
         /\ t.block_bitmap = s.block_bitmap \ {a[2]}
         /\ t.bg_free_blocks_count = s.bg_free_blocks_count + 1
         /\ t.data = s.data
         /\ t.faults = s.faults
<1> DEFINE area == [Area(s, n) EXCEPT !.i_size = Area(s, n).i_size - 1]
           left == [area EXCEPT !.i_block = SubSeq(@, 1, 1) \o SubSeq(@, 3, Len(@))]
           u == remove_block(s, area.i_block[2])
<1>1. /\ Area(s, n) \in InodeRecords
      /\ area.i_block = a
      /\ area.i_size = Area(s, n).i_size - 1
      /\ area \in InodeRecords
  BY AreaType DEF InodeRecords
<1>2. WithoutSecond(a) \in Seq(Blocks)
  BY AreaType, SecondGone
<1>3. /\ left.i_block = WithoutSecond(a)
      /\ left.i_size = Area(s, n).i_size - 1
      /\ left \in InodeRecords
  BY <1>1, <1>2 DEF WithoutSecond, InodeRecords
<1>4. u \in FileSystems
  BY RemoveType
<1>5. /\ u.block_bitmap = s.block_bitmap \ {a[2]}
      /\ u.bg_free_blocks_count = s.bg_free_blocks_count + 1
      /\ u.inode_table = s.inode_table
      /\ u.inode_bitmap = s.inode_bitmap
      /\ u.data = s.data
      /\ u.faults = s.faults
  BY <1>1 DEF remove_block, FileSystems
<1>6. t = update_inode_entry(u, n, left)
  BY <1>1 DEF Swept, SweptTo
<1> HIDE DEF area, left, u
<1>7. /\ t \in FileSystems
      /\ Area(t, n) = left
      /\ \A k \in Inodes \ {n} : Area(t, k) = Area(u, k)
      /\ t.inode_bitmap = u.inode_bitmap
      /\ t.block_bitmap = u.block_bitmap
      /\ t.bg_free_blocks_count = u.bg_free_blocks_count
      /\ t.data = u.data
      /\ t.faults = u.faults
  BY <1>3, <1>4, <1>6, UpdateInodeResult
<1> QED BY <1>3, <1>5, <1>7 DEF Area

\* A directory that gives back its empty second block keeps its entries.
LEMMA MovedSecond ==
  ASSUME NEW s \in FileSystems, NEW n \in Inodes, NEW a, a = Area(s, n).i_block, Len(a) > 1,
         ~SweepHangs(s, n),
         NEW t \in FileSystems, Area(t, n).i_block = WithoutSecond(a), t.data = s.data
  PROVE  /\ Moved(s, t, n)
         /\ Cardinality(Used(t, n)) = Cardinality(Used(s, n))
<1> DEFINE g == [q \in Used(t, n) |-> <<Skip(q[1]), q[2]>>]
<1>1. /\ a \in Seq(Blocks) /\ Len(a) \in Nat
      /\ Len(WithoutSecond(a)) = Len(a) - 1
      /\ \A i \in 1 .. Len(a) - 1 : Skip(i) \in 1 .. Len(a) /\ WithoutSecond(a)[i] = a[Skip(i)]
  BY AreaType, SecondGone
<1>2. ASSUME NEW i, NEW j
      PROVE  <<i, j>> \in Used(t, n) <=>
                /\ i \in 1 .. Len(a) - 1 /\ j \in Slots
                /\ EntryAt(s, n, <<Skip(i), j>>).inode # 0
  <2>1. <<i, j>> \in Positions(t, n) <=> i \in 1 .. Len(a) - 1 /\ j \in Slots
    BY <1>1 DEF Positions
  <2>2. ASSUME i \in 1 .. Len(a) - 1
        PROVE  EntryAt(t, n, <<i, j>>) = EntryAt(s, n, <<Skip(i), j>>)
    BY <1>1, <2>2 DEF EntryAt, BlockAt
  <2> QED BY <2>1, <2>2 DEF Used
<1>3. ASSUME NEW i, NEW j
      PROVE  <<i, j>> \in Used(s, n) <=>
                i \in 1 .. Len(a) /\ j \in Slots /\ EntryAt(s, n, <<i, j>>).inode # 0
  BY DEF Used, Positions
<1>4. \A q \in Used(t, n) : q = <<q[1], q[2]>>
  BY DEF Used, Positions
<1>5. \A q \in Used(s, n) : q = <<q[1], q[2]>>
  BY DEF Used, Positions
<1>6. ASSUME NEW q \in Used(t, n)
      PROVE  /\ <<Skip(q[1]), q[2]>> \in Used(s, n)
             /\ q[1] \in 1 .. Len(a) - 1
             /\ EntryAt(t, n, q) = EntryAt(s, n, <<Skip(q[1]), q[2]>>)
  <2>1. <<q[1], q[2]>> \in Used(t, n)
    BY <1>4
  <2>2. /\ q[1] \in 1 .. Len(a) - 1 /\ q[2] \in Slots
        /\ EntryAt(s, n, <<Skip(q[1]), q[2]>>).inode # 0
    BY <1>2, <2>1
  <2>3. Skip(q[1]) \in 1 .. Len(a) /\ WithoutSecond(a)[q[1]] = a[Skip(q[1])]
    BY <1>1, <2>2
  <2>4. EntryAt(t, n, q) = EntryAt(s, n, <<Skip(q[1]), q[2]>>)
    BY <2>3 DEF EntryAt, BlockAt
  <2> QED BY <1>3, <2>2, <2>3, <2>4
<1>7. g \in [Used(t, n) -> Used(s, n)]
  BY <1>6
<1>8. ASSUME NEW p \in Used(s, n)
      PROVE  \E q \in Used(t, n) : g[q] = p
  <2>1. /\ p[1] \in 1 .. Len(a) /\ p[2] \in Slots /\ p = <<p[1], p[2]>>
        /\ EntryAt(s, n, p).inode # 0
    BY <1>3, <1>5
  <2>2. p[1] # 2
    BY <1>1, <2>1 DEF SweepHangs, EntryAt
  <2> DEFINE i == IF p[1] = 1 THEN 1 ELSE p[1] - 1
  <2>3. i \in 1 .. Len(a) - 1 /\ Skip(i) = p[1]
    BY <1>1, <2>1, <2>2 DEF Skip
  <2> HIDE DEF i
  <2>4. <<i, p[2]>> \in Used(t, n)
    BY <1>2, <2>1, <2>3
  <2>5. g[<<i, p[2]>>] = p
    BY <2>1, <2>3, <2>4
  <2> QED BY <2>4, <2>5
<1>9. ASSUME NEW q \in Used(t, n), NEW r \in Used(t, n), g[q] = g[r]
      PROVE  q = r
  <2>1. Skip(q[1]) = Skip(r[1]) /\ q[2] = r[2]
    BY <1>9
  <2>2. q[1] \in Nat \ {0} /\ r[1] \in Nat \ {0}
    <3> DEFINE m == Len(a) - 1
    <3>1. m \in Int
      BY <1>1
    <3>2. q[1] \in 1 .. m
      BY <1>6
    <3>3. r[1] \in 1 .. m
      BY <1>6
    <3> HIDE DEF m
    <3> QED BY <3>1, <3>2, <3>3
  <2> DEFINE x == q[1]
             y == r[1]
  <2> HIDE DEF x, y
  <2>3. x \in Nat \ {0} /\ y \in Nat \ {0} /\ Skip(x) = Skip(y) => x = y
    BY DEF Skip
  <2>4. q[1] = r[1]
    BY <2>1, <2>2, <2>3 DEF x, y
  <2> QED BY <1>4, <2>1, <2>4
<1>10. ASSUME NEW q \in Used(t, n), g[q] = <<1, 1>>
       PROVE  q = <<1, 1>>
  <2>1. Skip(q[1]) = 1 /\ q[2] = 1
    BY <1>10
  <2>2. q[1] \in Nat \ {0}
    <3> DEFINE m == Len(a) - 1
    <3>1. m \in Int
      BY <1>1
    <3>2. q[1] \in 1 .. m
      BY <1>6
    <3> HIDE DEF m
    <3> QED BY <3>1, <3>2
  <2> DEFINE x == q[1]
  <2> HIDE DEF x
  <2>3. x \in Nat \ {0} /\ Skip(x) = 1 => x = 1
    BY DEF Skip
  <2>4. q[1] = 1
    BY <2>1, <2>2, <2>3 DEF x
  <2> QED BY <1>4, <2>1, <2>4
<1>11. ASSUME <<1, 0>> \in Used(s, n)
       PROVE  /\ <<1, 0>> \in Used(t, n)
              /\ EntryAt(t, n, <<1, 0>>) = EntryAt(s, n, <<1, 0>>)
  <2>1. 0 \in Slots /\ EntryAt(s, n, <<1, 0>>).inode # 0 /\ Skip(1) = 1
    BY <1>3, <1>11 DEF Skip
  <2>2. 1 \in 1 .. Len(a) - 1
    BY <1>1
  <2>3. <<1, 0>> \in Used(t, n)
    BY <1>2, <2>1, <2>2
  <2> QED BY <1>6, <2>1, <2>3
<1>12. \A q \in Used(t, n) : EntryAt(t, n, q) = EntryAt(s, n, g[q])
  BY <1>6
<1> HIDE DEF g
<1>13. MovedBy(s, t, n, g)
  BY <1>7, <1>8, <1>9, <1>10, <1>11, <1>12 DEF MovedBy
<1>14. Cardinality(Used(t, n)) = Cardinality(Used(s, n))
  <2>1. IsFiniteSet(Used(t, n))
    BY PositionsFinite
  <2> QED BY <1>7, <1>8, <1>9, <2>1, ImageCardinality
<1> QED BY <1>13, <1>14 DEF Moved

\* An inode gives back its second block.
LEMMA OwnedSecond ==
  ASSUME NEW B \in SUBSET Blocks, NEW free, NEW N, NEW l, Owned(B, free, N, l),
         NEW n \in N, Len(l[n]) > 1,
         NEW g, g[n] = WithoutSecond(l[n]), \A m \in N \ {n} : g[m] = l[m],
         NEW C, C = B \ {l[n][2]}
  PROVE  Owned(C, BlockCount - Cardinality(C), N, g)
<1> DEFINE a == l[n]
<1>1. /\ a \in Seq(Blocks) /\ Len(a) <= MaxBlocks /\ Len(a) \in Nat
      /\ \A i \in 1 .. Len(a) : a[i] \in B
  BY DEF Owned
<1>2. /\ WithoutSecond(a) \in Seq(Blocks)
      /\ Len(WithoutSecond(a)) = Len(a) - 1
      /\ \A i \in 1 .. Len(a) - 1 : Skip(i) \in 1 .. Len(a) /\ WithoutSecond(a)[i] = a[Skip(i)]
  BY <1>1, SecondGone
<1> DEFINE size == Len(a)
<1>3. size \in Nat /\ size > 1 /\ size <= MaxBlocks /\ MaxBlocks \in Nat
  BY <1>1, ConstantFacts
<1>4. Len(g[n]) = size - 1 /\ g[n] = WithoutSecond(a)
  BY <1>2
<1>5. 2 \in 1 .. Len(a)
  <2> HIDE DEF size
  <2>1. 2 \in 1 .. size
    BY <1>3
  <2> QED BY <2>1 DEF size
\* Where each block of the new lists was.
<1> DEFINE at(m, i) == IF m = n THEN Skip(i) ELSE i
<1>6. ASSUME NEW m \in N, NEW i \in 1 .. Len(g[m])
      PROVE  /\ at(m, i) \in 1 .. Len(l[m])
             /\ g[m][i] = l[m][at(m, i)]
             /\ m = n => at(m, i) # 2
  <2>1. CASE m = n
    <3>1. i \in 1 .. size - 1
      BY <1>4, <2>1
    <3>2. Skip(i) # 2
      <4> HIDE DEF size
      <4> QED BY <1>3, <3>1 DEF Skip
    <3>3. Skip(i) \in 1 .. Len(a) /\ WithoutSecond(a)[i] = a[Skip(i)]
      BY <1>2, <3>1
    <3> QED BY <1>4, <2>1, <3>2, <3>3
  <2>2. CASE m # n
    BY <2>2
  <2> QED BY <2>1, <2>2
<1>7. ASSUME NEW i \in 1 .. size - 1, NEW j \in 1 .. size - 1, Skip(i) = Skip(j)
      PROVE  i = j
  <2> HIDE DEF size
  <2> QED BY <1>3, <1>7 DEF Skip
<1>8. \A x, y \in N : \A i \in 1 .. Len(l[x]), j \in 1 .. Len(l[y]) :
          l[x][i] = l[y][j] => x = y /\ i = j
  BY DEF Owned
<1>9. \A m \in N : g[m] \in Seq(Blocks) /\ Len(g[m]) <= MaxBlocks
  <2>1. g[n] \in Seq(Blocks)
    BY <1>2, <1>4
  <2>2. Len(g[n]) <= MaxBlocks
    <3> HIDE DEF size
    <3> QED BY <1>3, <1>4
  <2>3. \A m \in N \ {n} : g[m] \in Seq(Blocks) /\ Len(g[m]) <= MaxBlocks
    BY DEF Owned
  <2> QED BY <2>1, <2>2, <2>3
<1>10. ASSUME NEW m \in N, NEW i \in 1 .. Len(g[m])
       PROVE  g[m][i] \in C
  <2>1. /\ at(m, i) \in 1 .. Len(l[m])
        /\ g[m][i] = l[m][at(m, i)]
        /\ m = n => at(m, i) # 2
    BY <1>6
  <2> DEFINE x == at(m, i)
  <2> HIDE DEF at
  <2>2. l[m][x] \in B
    BY <2>1 DEF Owned
  <2>3. l[m][x] # l[n][2]
    BY <1>5, <1>8, <2>1
  <2> QED BY <2>1, <2>2, <2>3
<1>11. ASSUME NEW x \in N, NEW y \in N, NEW i \in 1 .. Len(g[x]), NEW j \in 1 .. Len(g[y]),
              g[x][i] = g[y][j]
       PROVE  x = y /\ i = j
  <2>1. x = y /\ at(x, i) = at(y, j)
    <3>1. at(x, i) \in 1 .. Len(l[x]) /\ g[x][i] = l[x][at(x, i)]
      BY <1>6
    <3>2. at(y, j) \in 1 .. Len(l[y]) /\ g[y][j] = l[y][at(y, j)]
      BY <1>6
    <3>3. l[x][at(x, i)] = l[y][at(y, j)]
      BY <1>11, <3>1, <3>2
    <3> HIDE DEF at
    <3> QED BY <1>8, <3>1, <3>2, <3>3
  <2>2. CASE x = n
    <3>1. i \in 1 .. size - 1 /\ j \in 1 .. size - 1
      BY <1>4, <2>1, <2>2
    <3>2. Skip(i) = Skip(j)
      BY <2>1, <2>2
    <3> QED BY <1>7, <2>1, <3>1, <3>2
  <2>3. CASE x # n
    BY <2>1, <2>3
  <2> QED BY <2>2, <2>3
<1>12. C \subseteq Blocks
  OBVIOUS
<1> QED BY <1>9, <1>10, <1>11, <1>12 DEF Owned

\* The sweep, when the size of the directory has one to spare.
LEMMA SweptGood ==
  ASSUME NEW s, NEW D, NEW F, NEW path, NEW k \in Nat, NEW n, NEW at,
         Spare(s, D, F, path, k, n, at), ~SweepHangs(s, n), NEW t, t = Swept(s, n)
  PROVE  Good(t, D, F, path, k)
<1>0. Good(s, D, F, path, k)
  BY DEF Spare
<1>1. /\ s \in FileSystems /\ D \in SUBSET Inodes /\ F \in SUBSET Inodes /\ D \cap F = {}
      /\ IsFiniteSet(s.inode_bitmap) /\ s.block_bitmap \in SUBSET Blocks
  BY <1>0, GoodFacts
<1>2. /\ n \in D /\ n \in Inodes
      /\ Area(s, n).i_block # <<>>
      /\ Cardinality(Used(s, n)) + 1 <= Area(s, n).i_size + k
  BY <1>1 DEF Spare
<1>3. Linked(s, D, F, path) /\ Sound(s, D, F, Lists(s), k)
  BY <1>0 DEF Good
<1>4. n \in s.inode_bitmap
  BY <1>2, <1>3 DEF Linked, Marked
<1> DEFINE a == Area(s, n).i_block
<1>5. /\ a \in Seq(Blocks) /\ Len(a) \in Nat /\ Area(s, n).i_size \in Int
      /\ Cardinality(Used(s, n)) \in Nat
  BY <1>1, <1>2, AreaType, PositionsFinite
<1>6. /\ t \in FileSystems
      /\ Area(t, n).i_size = Area(s, n).i_size - 1
      /\ \A x \in Inodes \ {n} : Area(t, x) = Area(s, x)
      /\ t.inode_bitmap = s.inode_bitmap
      /\ t.data = s.data
  <2>1. CASE Len(a) > 1
    BY <1>1, <1>2, <2>1, SweptSecond
  <2>2. CASE Len(a) <= 1
    BY <1>1, <1>2, <2>2, SweptResult
  <2> QED BY <1>5, <2>1, <2>2
<1>7. ASSUME NEW d \in D \ {n}
      PROVE  SameEntries(s, t, d)
  BY <1>1, <1>6, EntriesSame
<1>8. /\ Moved(s, t, n)
      /\ Cardinality(Used(t, n)) = Cardinality(Used(s, n))
      /\ Area(t, n).i_block # <<>>
      /\ Held(t, D \cup F, Lists(t))
      /\ Extra(t) = Extra(s)
  <2>1. CASE Len(a) > 1
    <3>1. /\ Area(t, n).i_block = WithoutSecond(a)
          /\ t.block_bitmap = s.block_bitmap \ {a[2]}
          /\ t.bg_free_blocks_count = s.bg_free_blocks_count + 1
      BY <1>1, <1>2, <2>1, SweptSecond
    <3>2. /\ Moved(s, t, n)
          /\ Cardinality(Used(t, n)) = Cardinality(Used(s, n))
      BY <1>1, <1>2, <1>6, <2>1, <3>1, MovedSecond
    <3>3. Area(t, n).i_block # <<>>
      <4>1. Len(WithoutSecond(a)) = Len(a) - 1
        BY <1>5, <2>1, SecondGone
      <4> DEFINE m == Len(a)
      <4>2. m \in Nat /\ m > 1 /\ Len(WithoutSecond(a)) = m - 1
        BY <1>5, <2>1, <4>1
      <4> HIDE DEF m
      <4>3. Len(WithoutSecond(a)) # 0
        BY <4>2
      <4>4. Len(<<>>) = 0
        OBVIOUS
      <4> QED BY <3>1, <4>3, <4>4
    <3>4. Held(t, D \cup F, Lists(t))
      <4>1. Owned(s.block_bitmap, BlockCount - Cardinality(s.block_bitmap), D \cup F, Lists(s))
        BY <1>3 DEF Sound, Held
      <4>2. Lists(s)[n] = a /\ Lists(t)[n] = WithoutSecond(Lists(s)[n])
        BY <1>2, <3>1 DEF Lists
      <4>3. \A m \in (D \cup F) \ {n} : Lists(t)[m] = Lists(s)[m]
        BY <1>1, <1>6 DEF Lists
      <4>4. n \in D \cup F /\ Len(Lists(s)[n]) > 1
        BY <1>2, <2>1, <4>2
      <4>5. t.block_bitmap = s.block_bitmap \ {Lists(s)[n][2]}
        BY <3>1, <4>2
      <4> HIDE DEF a
      <4>6. Owned(t.block_bitmap, BlockCount - Cardinality(t.block_bitmap), D \cup F, Lists(t))
        <5> DEFINE N == D \cup F
                   l == Lists(s)
                   g == Lists(t)
                   B == s.block_bitmap
                   C == t.block_bitmap
                   free == BlockCount - Cardinality(B)
        <5>1. /\ B \in SUBSET Blocks /\ Owned(B, free, N, l) /\ n \in N /\ Len(l[n]) > 1
              /\ g[n] = WithoutSecond(l[n]) /\ (\A m \in N \ {n} : g[m] = l[m])
              /\ C = B \ {l[n][2]}
          BY <1>1, <4>1, <4>2, <4>3, <4>4, <4>5
        <5> HIDE DEF N, l, g, B, C, free
        <5>2. Owned(C, BlockCount - Cardinality(C), N, g)
          BY <5>1, OwnedSecond
        <5> QED BY <5>2 DEF N, g, C
      <4> QED BY <4>6 DEF Held
    <3>5. Extra(t) = Extra(s)
      <4>1. 2 \in 1 .. Len(a)
        <5> DEFINE m == Len(a)
        <5>1. m \in Nat /\ m > 1
          BY <1>5, <2>1
        <5> HIDE DEF m
        <5>2. 2 \in 1 .. m
          BY <5>1
        <5> QED BY <5>2 DEF m
      <4>2. a[2] \in s.block_bitmap
        BY <1>0, <1>2, <4>1, GoodFacts
      <4>3. a[2] \in Blocks
        BY <1>1, <4>2
      <4>4. /\ Cardinality(s.block_bitmap \ {a[2]}) = Cardinality(s.block_bitmap) - 1
            /\ Cardinality(s.block_bitmap) \in Nat
        BY <1>1, <4>2, <4>3, MarkOne
      <4>5. s.bg_free_blocks_count \in Nat /\ BlockCount \in Nat
        BY <1>1, SizesAssumption DEF FileSystems
      <4> QED BY <3>1, <4>4, <4>5 DEF Extra
    <3> QED BY <3>2, <3>3, <3>4, <3>5
  <2>2. CASE Len(a) <= 1
    <3>1. /\ Area(t, n).i_block = a
          /\ t.block_bitmap = s.block_bitmap
          /\ t.bg_free_blocks_count = s.bg_free_blocks_count
      BY <1>1, <1>2, <2>2, SweptResult
    <3>2. SameEntries(s, t, n)
      BY <1>1, <1>2, <1>6, <3>1, EntriesSame
    <3>3. Moved(s, t, n) /\ Used(t, n) = Used(s, n)
      BY <3>2, SameIsMoved DEF SameEntries
    <3>4. Lists(t) = Lists(s)
      BY <1>1, <1>6, <3>1 DEF Lists
    <3>5. Held(t, D \cup F, Lists(t)) /\ Extra(t) = Extra(s)
      BY <1>3, <3>1, <3>4 DEF Held, Extra, Sound
    <3> QED BY <1>2, <3>1, <3>3, <3>5
  <2> QED BY <1>5, <2>1, <2>2
<1>9. Linked(t, D, F, path)
  <2>1. \A d \in D : Moved(s, t, d)
    BY <1>7, <1>8, SameIsMoved
  <2> QED BY <1>1, <1>3, <1>6, <2>1, LinkedMoved
<1>10. Blank(t)
  BY <1>3, <1>4, <1>6 DEF Sound, Blank
<1>11. ASSUME NEW d \in D
       PROVE  Near(t, d, k)
  <2>1. CASE d = n
    <3>1. Cardinality(Used(t, n)) <= Area(t, n).i_size + k
      BY <1>2, <1>5, <1>6, <1>8
    <3> QED BY <1>8, <2>1, <3>1 DEF Near
  <2>2. CASE d # n
    <3>1. Near(s, d, k)
      BY <1>3 DEF Sound
    <3>2. Used(t, d) = Used(s, d) /\ Area(t, d) = Area(s, d)
      BY <1>1, <1>6, <1>7, <2>2 DEF SameEntries
    <3> QED BY <3>1, <3>2 DEF Near
  <2> QED BY <2>1, <2>2
<1>12. \A d \in D : Lists(t)[d] = Area(t, d).i_block
  BY <1>1 DEF Lists
<1> QED BY <1>3, <1>6, <1>8, <1>9, <1>10, <1>11, <1>12 DEF Good, Sound

-----------------------------------------------------------------------------
(* What a crash may leave: a good disk, or a tree of which one inode has   *)
(* lost blocks.                                                            *)
Keeps(s, n) == OwnedBlocks(s, n) \subseteq s.block_bitmap

\* Inode c of the tree has lost blocks, and no other.
OnlyTorn(s, D, F, path, c) ==
    /\ s \in FileSystems
    /\ Linked(s, D, F, path)
    /\ c \in D \cup F /\ ~Keeps(s, c)
    /\ \A n \in (D \cup F) \ {c} : Keeps(s, n)

OneTorn(s) == \E D, F, path, c : OnlyTorn(s, D, F, path, c)

\* After a crash.
Left(s, k) == Whole(s, k) \/ OneTorn(s)

\* What the root reaches in a linked tree.
LEMMA LinkedLive ==
  ASSUME NEW s \in FileSystems, NEW D, NEW F, NEW path, Linked(s, D, F, path)
  PROVE  Live(s) = D \cup F
BY LinkedReaches DEF Live

\* Nothing is torn on a good disk.
LEMMA WholeNotTorn ==
  ASSUME NEW s, NEW k, Whole(s, k)
  PROVE  TornInodes(s) = {}
<1>1. PICK D, F, path : Good(s, D, F, path, k)
  BY DEF Whole
<1>2. Live(s) = D \cup F
  BY <1>1, LinkedLive DEF Good
<1>3. \A n \in D \cup F : Keeps(s, n)
  BY <1>1, GoodFacts DEF Keeps, OwnedBlocks, BlocksOf
<1> QED BY <1>2, <1>3 DEF TornInodes, Keeps

\* The inodes that are torn, counted.
LEMMA OneIsTorn ==
  ASSUME NEW s, OneTorn(s)
  PROVE  Cardinality(TornInodes(s)) = 1
<1>1. PICK D, F, path, c : OnlyTorn(s, D, F, path, c)
  BY DEF OneTorn
<1>2. Live(s) = D \cup F
  BY <1>1, LinkedLive DEF OnlyTorn
<1>3. TornInodes(s) = {c}
  BY <1>1, <1>2 DEF TornInodes, OnlyTorn, Keeps
<1> QED BY <1>3, FS_Singleton

\* What was left does not depend on the faults and the hints.
LEMMA LeftAgain ==
  ASSUME NEW s, OneTorn(s), NEW t \in FileSystems,
         t.inode_table = s.inode_table, t.inode_bitmap = s.inode_bitmap,
         t.block_bitmap = s.block_bitmap, t.data = s.data
  PROVE  OneTorn(t)
<1>1. PICK D, F, path, c : OnlyTorn(s, D, F, path, c)
  BY DEF OneTorn
<1>2. \A n : Area(t, n) = Area(s, n)
  BY DEF Area
<1>3. \A d \in D : Moved(s, t, d)
  BY <1>2, EntriesSame, SameIsMoved
<1>4. IsFiniteSet(t.inode_bitmap)
  BY BitmapFinite
<1>5. Linked(t, D, F, path)
  BY <1>1, <1>3, <1>4, LinkedMoved DEF OnlyTorn
<1>6. \A n : Keeps(t, n) <=> Keeps(s, n)
  BY <1>2 DEF Keeps, OwnedBlocks
<1>7. OnlyTorn(t, D, F, path, c)
  BY <1>1, <1>5, <1>6 DEF OnlyTorn
<1> QED BY <1>7 DEF OneTorn

\* Some of the blocks of inode c are given back, and that is all.
Shorter(s, t, c, R) ==
    /\ t \in FileSystems
    /\ t.inode_table = s.inode_table
    /\ t.inode_bitmap = s.inode_bitmap
    /\ t.data = s.data
    /\ R # {} /\ R \subseteq OwnedBlocks(s, c)
    /\ t.block_bitmap = s.block_bitmap \ R

\* No path is lost.
SamePaths(s, t) == TypedPaths(t) = TypedPaths(s)

\* Blocks given back that their inode still has tear that inode alone.
LEMMA ShorterTorn ==
  ASSUME NEW s, NEW D, NEW F, NEW path, NEW k, Good(s, D, F, path, k), NEW c \in D \cup F,
         NEW t, NEW R, Shorter(s, t, c, R)
  PROVE  OneTorn(t) /\ SamePaths(s, t)
<1>1. /\ Linked(s, D, F, path)
      /\ \A n \in D \cup F : \A i \in 1 .. Len(Area(s, n).i_block) :
             Area(s, n).i_block[i] \in s.block_bitmap
      /\ \A n, m \in D \cup F :
             \A i \in 1 .. Len(Area(s, n).i_block), j \in 1 .. Len(Area(s, m).i_block) :
                 Area(s, n).i_block[i] = Area(s, m).i_block[j] => n = m /\ i = j
  BY GoodFacts DEF Good
<1>2. \A n : Area(t, n) = Area(s, n)
  BY DEF Area, Shorter
<1>3. \A d \in D : Moved(s, t, d)
  BY <1>2, EntriesSame, SameIsMoved DEF Shorter
<1>4. IsFiniteSet(t.inode_bitmap)
  BY BitmapFinite DEF Shorter
<1>5. Linked(t, D, F, path)
  BY <1>1, <1>3, <1>4, LinkedMoved DEF Shorter
<1>6. ~Keeps(t, c)
  BY <1>2 DEF Keeps, OwnedBlocks, Shorter
<1>7. ASSUME NEW n \in (D \cup F) \ {c}
      PROVE  Keeps(t, n)
  BY <1>1, <1>2 DEF Keeps, OwnedBlocks, BlocksOf, Shorter
<1>8. OneTorn(t)
  BY <1>5, <1>6, <1>7 DEF OnlyTorn, OneTorn, Shorter
<1>9. SamePaths(s, t)
  BY <1>1, GoodFacts, PathsSame DEF Shorter, SamePaths
<1> QED BY <1>8, <1>9

\* The two writes of remove_block, on a disk that has lost blocks of c already.
LEMMA RemoveCutsTorn ==
  ASSUME NEW s, NEW D, NEW F, NEW path, NEW k, Good(s, D, F, path, k), NEW c \in D \cup F,
         NEW u \in FileSystems, u.inode_table = s.inode_table, u.inode_bitmap = s.inode_bitmap,
         u.data = s.data, NEW R \in SUBSET OwnedBlocks(s, c), u.block_bitmap = s.block_bitmap \ R,
         NEW b \in OwnedBlocks(s, c), NEW t \in RemoveCuts(u, b)
  PROVE  OneTorn(t) /\ SamePaths(s, t)
<1>1. t \in FileSystems
  BY RemoveCutsType
<1>2. /\ t.inode_table = u.inode_table /\ t.inode_bitmap = u.inode_bitmap
      /\ t.data = u.data /\ t.block_bitmap = u.block_bitmap \ {b}
  BY DEF RemoveCuts, remove_block, FileSystems
<1>3. Shorter(s, t, c, R \cup {b})
  BY <1>1, <1>2 DEF Shorter
<1> QED BY <1>3, ShorterTorn

\* The sweep of directory n.
LEMMA SweepCutsTorn ==
  ASSUME NEW s, NEW D, NEW F, NEW path, NEW k, Good(s, D, F, path, k), NEW n \in D,
         NEW t \in SweepCuts(s, n)
  PROVE  OneTorn(t) /\ SamePaths(s, t)
<1>1. s \in FileSystems /\ n \in Inodes
  BY GoodFacts
<1> DEFINE b == Area(s, n).i_block[2]
           m == Len(Area(s, n).i_block)
<1>2. m > 1 /\ t \in RemoveCuts(s, b) /\ m \in Nat
  BY <1>1, AreaType DEF SweepCuts
<1>3. 2 \in 1 .. m
  <2> HIDE DEF m
  <2> QED BY <1>2
<1>4. b \in OwnedBlocks(s, n)
  BY <1>3 DEF OwnedBlocks, BlocksOf
<1>5. {} \in SUBSET OwnedBlocks(s, n) /\ s.block_bitmap = s.block_bitmap \ {} /\ n \in D \cup F
  OBVIOUS
<1> HIDE DEF b, m
<1>6. PICK R : R = {}
  OBVIOUS
<1>7. R \in SUBSET OwnedBlocks(s, n) /\ s.block_bitmap = s.block_bitmap \ R
  BY <1>5, <1>6
<1> QED BY <1>1, <1>2, <1>4, <1>5, <1>7, RemoveCutsTorn

\* Clearing the slot, on a disk where the blocks R of s are given back.
LEMMA ClearedSlot ==
  ASSUME NEW s \in FileSystems, NEW n \in Inodes, NEW p \in Positions(s, n),
         NEW u \in FileSystems, u.inode_table = s.inode_table, u.inode_bitmap = s.inode_bitmap,
         u.data = s.data, NEW R, u.block_bitmap = s.block_bitmap \ R,
         u.bg_free_blocks_count = s.bg_free_blocks_count + Cardinality(R),
         NEW t, t = ClearSlot(u, n, p)
  PROVE  Clears(s, t, n, p, R) /\ t.faults = u.faults
<1>1. /\ \A x : Area(u, x) = Area(s, x)
      /\ \A i : BlockAt(u, n, i) = BlockAt(s, n, i)
  BY DEF Area, BlockAt
<1>2. Positions(u, n) = Positions(s, n)
  BY PositionsKept
<1>3. t \in FileSystems
  BY <1>2, ClearSlotType
<1>4. t = [u EXCEPT !.data[Area(s, n).i_block[p[1]]] = [BlockAt(s, n, p[1]) EXCEPT ![p[2]] = Empty]]
  BY <1>1 DEF ClearSlot, update_dir
<1>5. /\ t.inode_table = u.inode_table
      /\ t.inode_bitmap = u.inode_bitmap
      /\ t.block_bitmap = u.block_bitmap
      /\ t.bg_free_blocks_count = u.bg_free_blocks_count
      /\ t.faults = u.faults
      /\ t.data = [u.data EXCEPT ![Area(s, n).i_block[p[1]]] =
                       [BlockAt(s, n, p[1]) EXCEPT ![p[2]] = Empty]]
  BY <1>4 DEF FileSystems
<1> QED BY <1>3, <1>5 DEF Clears

\* What rmdir takes apart is a directory with a block.
LEMMA RmdirTarget ==
  ASSUME NEW s, NEW D, NEW F, NEW path, NEW k, Good(s, D, F, path, k),
         NEW n \in D, NEW tmp \in Names, NEW p \in reserch_file(s, n, tmp, DIR),
         NEW c, c = EntryAt(s, n, p).inode, Area(s, c).i_size = 2
  PROVE  /\ p \in Used(s, n) /\ p \in Positions(s, n) /\ Proper(EntryAt(s, n, p))
         /\ c \in D
         /\ Area(s, c).i_block[1] \in OwnedBlocks(s, c)
<1>1. /\ p \in Used(s, n)
      /\ EntryAt(s, n, p).file_type = DIR
      /\ EntryAt(s, n, p).name = tmp
  BY SearchFound
<1>2. Directs(EntryAt(s, n, p))
  BY <1>1, SizesAssumption DEF Directs
<1>3. c \in D
  BY <1>1, <1>2, LinkKinds DEF Good
<1>4. s \in FileSystems /\ c \in Inodes
  BY <1>3, GoodFacts
<1>5. Near(s, c, k)
  BY <1>3 DEF Good, Sound
<1>6. Area(s, c).i_block # <<>> /\ Area(s, c).i_block \in Seq(Blocks)
  BY <1>4, <1>5, AreaType DEF Near
<1>7. 1 \in 1 .. Len(Area(s, c).i_block)
  BY <1>6
<1> QED BY <1>1, <1>2, <1>3, <1>7 DEF Proper, Used, OwnedBlocks, BlocksOf

\* The paths are still those before, or x and what was below are lost.
AtMostLost(before, x, after) == after = before \/ after = PathsWithout(x, before)

\* Every cut of rmdir.
LEMMA RmdirCutsLeft ==
  ASSUME NEW s, NEW D, NEW F, NEW path, NEW k \in Nat, Good(s, D, F, path, k),
         NEW n \in D, NEW tmp \in Names, NEW p \in reserch_file(s, n, tmp, DIR),
         Area(s, EntryAt(s, n, p).inode).i_size = 2,
         NEW t \in RmdirCuts(s, n, p)
  PROVE  /\ Left(t, k)
         /\ AtMostLost(TypedPaths(s), PathTo(path, n, DIR, tmp), TypedPaths(t))
<1> DEFINE c == EntryAt(s, n, p).inode
           b == Area(s, c).i_block[1]
           u == remove_block(s, b)
           v == remove_inode(u, c)
           w == ClearSlot(v, n, p)
<1>1. /\ p \in Used(s, n) /\ p \in Positions(s, n) /\ Proper(EntryAt(s, n, p))
      /\ c \in D
      /\ b \in OwnedBlocks(s, c)
  BY RmdirTarget
<1>2. s \in FileSystems /\ n \in Inodes /\ s.block_bitmap \in SUBSET Blocks
  BY GoodFacts
<1>3. b \in Blocks /\ OwnedBlocks(s, c) \subseteq s.block_bitmap
  BY <1>1, <1>2, GoodFacts DEF OwnedBlocks, BlocksOf
<1>4. u \in FileSystems /\ v \in FileSystems
  BY <1>2, RemoveType
<1>5. /\ v.inode_table = s.inode_table /\ v.inode_bitmap = s.inode_bitmap
      /\ v.data = s.data /\ v.block_bitmap = s.block_bitmap \ {b}
      /\ v.bg_free_blocks_count = s.bg_free_blocks_count + 1
  BY <1>2, <1>4 DEF remove_block, remove_inode, FileSystems
<1>6. Cardinality({b}) = 1
  BY FS_Singleton
<1>7. t \in RemoveCuts(s, b) \/ t = v \/ t = w \/ t \in SweepCuts(w, n)
  BY DEF RmdirCuts
<1> HIDE DEF c, b, u, v
<1>8. CASE t \in RemoveCuts(s, b)
  <2>1. {} \in SUBSET OwnedBlocks(s, c) /\ s.block_bitmap = s.block_bitmap \ {} /\ c \in D \cup F
    BY <1>1
  <2>2. PICK R : R = {}
    OBVIOUS
  <2>3. R \in SUBSET OwnedBlocks(s, c) /\ s.block_bitmap = s.block_bitmap \ R
    BY <2>1, <2>2
  <2>4. OneTorn(t) /\ SamePaths(s, t)
    BY <1>1, <1>2, <1>8, <2>1, <2>3, RemoveCutsTorn
  <2> QED BY <2>4 DEF Left, AtMostLost, SamePaths
<1>9. CASE t = v
  <2>1. Shorter(s, v, c, {b})
    BY <1>1, <1>4, <1>5 DEF Shorter
  <2> QED BY <1>1, <1>9, <2>1, ShorterTorn DEF Left, AtMostLost, SamePaths
<1>10. Clears(s, w, n, p, {b})
  BY <1>1, <1>2, <1>4, <1>5, <1>6, ClearedSlot
<1> HIDE DEF w
<1>11. /\ \E E, G, way : Spare(w, E, G, way, k, n, path[n])
       /\ LosesPath(s, w, PathOf(s, path, n, p))
  <2>1. {b} \in SUBSET BlocksOf(Area(s, c))
    BY <1>1 DEF OwnedBlocks
  <2> QED BY <1>1, <1>10, <2>1, GoodCleared DEF c
<1>12. PICK E, G, way : Good(w, E, G, way, k) /\ n \in E
  BY <1>11 DEF Spare
<1>12a. AtMostLost(TypedPaths(s), PathTo(path, n, DIR, tmp), TypedPaths(w))
  <2>1. PathOf(s, path, n, p) = PathTo(path, n, DIR, tmp)
    BY SearchFound DEF PathOf
  <2> QED BY <1>11, <2>1 DEF LosesPath, AtMostLost
<1>13. CASE t = w
  BY <1>12, <1>12a, <1>13 DEF Left, Whole
<1>14. CASE t \in SweepCuts(w, n)
  <2>1. OneTorn(t) /\ SamePaths(w, t)
    BY <1>12, <1>14, SweepCutsTorn
  <2> QED BY <1>12a, <2>1 DEF Left, SamePaths
<1> QED BY <1>7, <1>8, <1>9, <1>13, <1>14

\* What del takes apart is a file.
LEMMA DelTarget ==
  ASSUME NEW s, NEW D, NEW F, NEW path, NEW k, Good(s, D, F, path, k),
         NEW n \in D, NEW tmp, NEW p \in reserch_file(s, n, tmp, FILE),
         NEW c, c = EntryAt(s, n, p).inode
  PROVE  /\ p \in Used(s, n) /\ p \in Positions(s, n) /\ Proper(EntryAt(s, n, p))
         /\ c \in F
<1>1. /\ p \in Used(s, n)
      /\ EntryAt(s, n, p).file_type = FILE
  BY SearchFound
<1>2. ChildFile(EntryAt(s, n, p), F)
  BY <1>1, LinkKinds DEF Good
<1> QED BY <1>1, <1>2 DEF Proper, Used, ChildFile

\* All the blocks of a file are given back.
LEMMA BlocksGiven ==
  ASSUME NEW s, NEW D, NEW F, NEW path, NEW k, Good(s, D, F, path, k), NEW c \in D \cup F,
         NEW u, u = remove_blocks(s, Area(s, c))
  PROVE  /\ u \in FileSystems
         /\ u.inode_table = s.inode_table /\ u.inode_bitmap = s.inode_bitmap
         /\ u.data = s.data /\ u.block_bitmap = s.block_bitmap \ OwnedBlocks(s, c)
         /\ u.bg_free_blocks_count = s.bg_free_blocks_count + Cardinality(OwnedBlocks(s, c))
         /\ u.faults = s.faults
<1>1. s \in FileSystems /\ c \in Inodes
  BY GoodFacts
<1>2. Area(s, c).i_block \in Seq(Blocks)
  BY <1>1, AreaType
<1>3. u \in FileSystems
  BY <1>1, <1>2, RemoveBlocksType
<1>4. Cardinality(OwnedBlocks(s, c)) = Len(Area(s, c).i_block)
  <2> DEFINE q == Area(s, c).i_block
  <2>1. \A i, j \in 1 .. Len(q) : q[i] = q[j] => i = j
    BY GoodFacts
  <2> HIDE DEF q
  <2>2. q \in Seq(Blocks)
    BY <1>2 DEF q
  <2>3. Cardinality({q[i] : i \in 1 .. Len(q)}) = Len(q)
    BY <2>1, <2>2, ListCardinality
  <2> QED BY <2>3 DEF q, OwnedBlocks, BlocksOf
<1> QED BY <1>1, <1>3, <1>4 DEF remove_blocks, FileSystems, OwnedBlocks

\* The first blocks of a list.
LEMMA FrontOf ==
  ASSUME NEW a \in Seq(Blocks), NEW x \in Nat, 1 .. x \subseteq 1 .. Len(a),
         NEW q, q = SubSeq(a, 1, x)
  PROVE  q \in Seq(Blocks) /\ Len(q) = x /\ \A j \in 1 .. x : q[j] = a[j]
<1>1. \A i \in 1 .. x : a[i] \in Blocks
  BY ElementOfSeq
<1>2. 1 \in Int /\ x \in Int /\ x - 1 + 1 = x /\ (IF 1 <= x THEN x - 1 + 1 ELSE 0) = x
  OBVIOUS
<1>3. /\ q \in Seq(Blocks) /\ Len(q) = IF 1 <= x THEN x - 1 + 1 ELSE 0
      /\ \A i \in 1 .. x - 1 + 1 : q[i] = a[1 + i - 1]
  BY <1>1, <1>2, SubSeqProperties
<1>4. \A i \in 1 .. x : 1 + i - 1 = i
  OBVIOUS
<1> QED BY <1>2, <1>3, <1>4

\* Every cut of del.
LEMMA DelCutsLeft ==
  ASSUME NEW s, NEW D, NEW F, NEW path, NEW k \in Nat, Good(s, D, F, path, k),
         NEW n \in D, NEW tmp, NEW p \in reserch_file(s, n, tmp, FILE),
         NEW t \in DelCuts(s, n, p)
  PROVE  /\ Left(t, k)
         /\ AtMostLost(TypedPaths(s), PathTo(path, n, FILE, tmp), TypedPaths(t))
<1> DEFINE c == EntryAt(s, n, p).inode
           area == Area(s, c)
           freed(i) == remove_blocks(s, [area EXCEPT !.i_block = SubSeq(@, 1, i)])
           v == remove_blocks(s, area)
           w == ClearSlot(v, n, p)
<1>1. /\ p \in Used(s, n) /\ p \in Positions(s, n) /\ Proper(EntryAt(s, n, p))
      /\ c \in F
  BY DelTarget
<1>2. s \in FileSystems /\ n \in Inodes /\ s.block_bitmap \in SUBSET Blocks /\ c \in Inodes
  BY <1>1, GoodFacts
<1>3. \/ \E i \in 1 .. Len(area.i_block) : t \in RemoveCuts(freed(i - 1), area.i_block[i])
      \/ t = w
      \/ t \in SweepCuts(w, n)
  BY DEF DelCuts
<1>4. CASE \E i \in 1 .. Len(area.i_block) : t \in RemoveCuts(freed(i - 1), area.i_block[i])
  <2>1. PICK i \in 1 .. Len(area.i_block) : t \in RemoveCuts(freed(i - 1), area.i_block[i])
    BY <1>4
  <2> DEFINE a == area.i_block
             front == SubSeq(a, 1, i - 1)
             short == [area EXCEPT !.i_block = front]
  <2>2. area \in InodeRecords /\ a \in Seq(Blocks) /\ Len(a) \in Nat
    BY <1>2, AreaType
  <2>3. /\ front \in Seq(Blocks) /\ \A j \in 1 .. Len(front) : j \in 1 .. Len(a) /\ front[j] = a[j]
    <3> DEFINE m == Len(a)
    <3>1. m \in Nat /\ i \in 1 .. m
      BY <2>2
    <3>2. i - 1 \in 0 .. m /\ 1 .. (i - 1) \subseteq 1 .. m
      <4> HIDE DEF m
      <4> QED BY <3>1
    <3>3. front \in Seq(Blocks) /\ Len(front) = i - 1 /\ \A j \in 1 .. i - 1 : front[j] = a[j]
      <4> HIDE DEF area
      <4> QED BY <2>2, <3>2, FrontOf
    <3> QED BY <3>2, <3>3
  <2>4. short.i_block = front
    BY <2>2 DEF InodeRecords
  <2>5. freed(i - 1) = remove_blocks(s, short)
    OBVIOUS
  <2>6. freed(i - 1) \in FileSystems
    BY <1>2, <2>3, <2>4, <2>5, RemoveBlocksType
  <2>7. /\ freed(i - 1).inode_table = s.inode_table
        /\ freed(i - 1).inode_bitmap = s.inode_bitmap
        /\ freed(i - 1).data = s.data
        /\ freed(i - 1).block_bitmap = s.block_bitmap \ BlocksOf(short)
    BY <1>2, <2>5, <2>6 DEF remove_blocks, FileSystems
  <2>8. BlocksOf(short) \in SUBSET OwnedBlocks(s, c)
    BY <2>3, <2>4 DEF BlocksOf, OwnedBlocks
  <2>9. a[i] \in OwnedBlocks(s, c) /\ c \in D \cup F
    BY <1>1 DEF BlocksOf, OwnedBlocks
  <2>10. t \in RemoveCuts(freed(i - 1), a[i])
    BY <2>1
  <2> HIDE DEF freed, short, a, c, area
  <2>11. PICK u : u = freed(i - 1)
    OBVIOUS
  <2>12. PICK R : R = BlocksOf(short)
    OBVIOUS
  <2>13. OneTorn(t) /\ SamePaths(s, t)
    <3>1. /\ u \in FileSystems
          /\ u.inode_table = s.inode_table /\ u.inode_bitmap = s.inode_bitmap
          /\ u.data = s.data /\ u.block_bitmap = s.block_bitmap \ R
          /\ R \in SUBSET OwnedBlocks(s, c)
          /\ t \in RemoveCuts(u, a[i])
      BY <2>6, <2>7, <2>8, <2>10, <2>11, <2>12
    <3> QED BY <2>9, <3>1, RemoveCutsTorn
  <2> QED BY <2>13 DEF Left, AtMostLost, SamePaths
<1>5. Clears(s, w, n, p, OwnedBlocks(s, c))
  <2>1. /\ v \in FileSystems
        /\ v.inode_table = s.inode_table /\ v.inode_bitmap = s.inode_bitmap
        /\ v.data = s.data /\ v.block_bitmap = s.block_bitmap \ OwnedBlocks(s, c)
        /\ v.bg_free_blocks_count = s.bg_free_blocks_count + Cardinality(OwnedBlocks(s, c))
    BY <1>1, BlocksGiven
  <2> HIDE DEF v, c
  <2> QED BY <1>1, <1>2, <2>1, ClearedSlot
<1> HIDE DEF w
<1>6. /\ \E E, G, way : Spare(w, E, G, way, k, n, path[n])
      /\ LosesPath(s, w, PathOf(s, path, n, p))
  <2>1. OwnedBlocks(s, c) \in SUBSET BlocksOf(Area(s, c))
    BY DEF OwnedBlocks
  <2> QED BY <1>1, <1>5, <2>1, GoodCleared DEF c
<1>7. PICK E, G, way : Good(w, E, G, way, k) /\ n \in E
  BY <1>6 DEF Spare
<1>7a. AtMostLost(TypedPaths(s), PathTo(path, n, FILE, tmp), TypedPaths(w))
  <2>1. PathOf(s, path, n, p) = PathTo(path, n, FILE, tmp)
    BY SearchFound DEF PathOf
  <2> QED BY <1>6, <2>1 DEF LosesPath, AtMostLost
<1>8. CASE t = w
  BY <1>7, <1>7a, <1>8 DEF Left, Whole
<1>9. CASE t \in SweepCuts(w, n)
  <2>1. OneTorn(t) /\ SamePaths(w, t)
    BY <1>7, <1>9, SweepCutsTorn
  <2> QED BY <1>7a, <2>1 DEF Left, SamePaths
<1> QED BY <1>3, <1>4, <1>8, <1>9

\* After the entry is cleared the command sweeps, or hangs in the sweep.
LEMMA SweepWhole ==
  ASSUME NEW s, NEW E, NEW G, NEW way, NEW k \in Nat, NEW n, NEW at,
         Spare(s, E, G, way, k, n, at), NEW t,
         \/ SweepHangs(s, n) /\ t = s
         \/ ~SweepHangs(s, n) /\ t = Swept(s, n)
  PROVE  WholeAt(t, k, n, at)
<1>1. Good(t, E, G, way, k)
  BY SweptGood DEF Spare
<1> QED BY <1>1 DEF WholeAt, Spare

\* rmdir as a whole.
LEMMA RmdirWhole ==
  ASSUME NEW s, NEW D, NEW F, NEW path, NEW k \in Nat, Good(s, D, F, path, k),
         NEW n \in D, NEW tmp \in Names, NEW p \in reserch_file(s, n, tmp, DIR),
         NEW c, c = EntryAt(s, n, p).inode, Area(s, c).i_size = 2,
         NEW w, w = ClearSlot(remove_inode(remove_block(s, Area(s, c).i_block[1]), c), n, p),
         NEW t, Calm(t), NEW last,
         \/ SweepHangs(w, n) /\ t = w
         \/ ~SweepHangs(w, n) /\ t = stamp(Swept(w, n), BlockAt(w, n, last), {p[1] - 1})
  PROVE  WholeAt(t, k, n, path[n])
<1> DEFINE b == Area(s, c).i_block[1]
           u == remove_block(s, b)
           v == remove_inode(u, c)
<1>1. /\ p \in Used(s, n) /\ p \in Positions(s, n) /\ Proper(EntryAt(s, n, p))
      /\ c \in D
      /\ b \in OwnedBlocks(s, c)
  BY RmdirTarget
<1>2. s \in FileSystems /\ n \in Inodes /\ s.block_bitmap \in SUBSET Blocks
  BY GoodFacts
<1>3. u \in FileSystems /\ v \in FileSystems
  BY <1>2, RemoveType
<1>4. /\ v.inode_table = s.inode_table /\ v.inode_bitmap = s.inode_bitmap
      /\ v.data = s.data /\ v.block_bitmap = s.block_bitmap \ {b}
      /\ v.bg_free_blocks_count = s.bg_free_blocks_count + 1
  BY <1>2, <1>3 DEF remove_block, remove_inode, FileSystems
<1>5. Cardinality({b}) = 1
  BY FS_Singleton
<1>6. w = ClearSlot(v, n, p)
  OBVIOUS
<1> HIDE DEF b, u, v
<1>7. Clears(s, w, n, p, {b})
  BY <1>1, <1>2, <1>3, <1>4, <1>5, <1>6, ClearedSlot
<1>8. PICK E, G, way : Spare(w, E, G, way, k, n, path[n])
  <2>1. {b} \in SUBSET BlocksOf(Area(s, c))
    BY <1>1 DEF OwnedBlocks
  <2> QED BY <1>1, <1>7, <2>1, GoodCleared
<1>9. w \in FileSystems
  BY <1>7 DEF Clears
<1>10. CASE SweepHangs(w, n) /\ t = w
  BY <1>8, <1>10, SweepWhole
<1>11. CASE ~SweepHangs(w, n) /\ t = stamp(Swept(w, n), BlockAt(w, n, last), {p[1] - 1})
  <2>1. Swept(w, n) \in FileSystems
    BY <1>2, <1>9, SweptType
  <2>2. t = Swept(w, n)
    BY <1>11, <2>1, StampCalm
  <2> QED BY <1>8, <1>11, <2>2, SweepWhole
<1> QED BY <1>10, <1>11

\* del as a whole.
LEMMA DelWhole ==
  ASSUME NEW s, NEW D, NEW F, NEW path, NEW k \in Nat, Good(s, D, F, path, k),
         NEW n \in D, NEW tmp, NEW p \in reserch_file(s, n, tmp, FILE),
         NEW c, c = EntryAt(s, n, p).inode,
         NEW w, w = ClearSlot(remove_blocks(s, Area(s, c)), n, p),
         NEW t,
         \/ SweepHangs(w, n) /\ t = w
         \/ ~SweepHangs(w, n) /\ t = Swept(w, n)
  PROVE  WholeAt(t, k, n, path[n])
<1> DEFINE v == remove_blocks(s, Area(s, c))
<1>1. /\ p \in Used(s, n) /\ p \in Positions(s, n) /\ Proper(EntryAt(s, n, p))
      /\ c \in F
  BY DelTarget
<1>2. s \in FileSystems /\ n \in Inodes
  BY GoodFacts
<1>3. /\ v \in FileSystems
      /\ v.inode_table = s.inode_table /\ v.inode_bitmap = s.inode_bitmap
      /\ v.data = s.data /\ v.block_bitmap = s.block_bitmap \ OwnedBlocks(s, c)
      /\ v.bg_free_blocks_count = s.bg_free_blocks_count + Cardinality(OwnedBlocks(s, c))
  BY <1>1, BlocksGiven
<1>4. w = ClearSlot(v, n, p)
  OBVIOUS
<1> HIDE DEF v
<1>5. Clears(s, w, n, p, OwnedBlocks(s, c))
  BY <1>1, <1>2, <1>3, <1>4, ClearedSlot
<1>6. PICK E, G, way : Spare(w, E, G, way, k, n, path[n])
  <2>1. OwnedBlocks(s, c) \in SUBSET BlocksOf(Area(s, c))
    BY DEF OwnedBlocks
  <2> QED BY <1>1, <1>5, <2>1, GoodCleared
<1> QED BY <1>6, SweepWhole

-----------------------------------------------------------------------------
(* write_file.  The list q that the call has for file c is the one of the  *)
(* inode a, with blocks added that the inode does not own yet, or without  *)
(* the last ones, which the bitmap calls free while the inode still has    *)
(* them.                                                                   *)
With(s, c, q) == [n \in Inodes |-> IF n = c THEN q ELSE Area(s, n).i_block]

\* List q of the call against list a of the inode.
Follows(s, a, q, need) ==
    /\ Len(a) < Len(q) => Len(q) <= need
    /\ Len(q) < Len(a) => need <= Len(q)
    /\ \A i \in 1 .. Len(q) : i <= Len(a) => q[i] = a[i]
    /\ \A i \in 1 .. Len(a) : i > Len(q) => a[i] \notin s.block_bitmap

\* The disk in the middle of a write_file of need blocks.
Mid(s, D, F, path, k, c, q, need) ==
    /\ s \in FileSystems
    /\ Linked(s, D, F, path)
    /\ D \in SUBSET Inodes /\ F \in SUBSET Inodes
    /\ c \in F
    /\ Sound(s, D, F, With(s, c, q), k)
    /\ Follows(s, Area(s, c).i_block, q, need)

\* The sets in the middle of write_file.
LEMMA MidSets ==
  ASSUME NEW s, NEW D, NEW F, NEW path, NEW k, NEW c, NEW q, NEW need,
         Mid(s, D, F, path, k, c, q, need)
  PROVE  /\ s \in FileSystems
         /\ D \in SUBSET Inodes /\ F \in SUBSET Inodes /\ D \cap F = {}
         /\ c \in F /\ c \in Inodes /\ c \notin D
         /\ s.block_bitmap \in SUBSET Blocks
<1>1. /\ s \in FileSystems
      /\ D \in SUBSET Inodes /\ F \in SUBSET Inodes /\ D \cap F = {}
      /\ c \in F /\ c \in Inodes /\ c \notin D
  BY DEF Mid, Linked, Marked
<1>2. s.block_bitmap \in SUBSET Blocks
  BY <1>1 DEF FileSystems
<1> QED BY <1>1, <1>2

\* The owners of the blocks in the middle of write_file.
LEMMA MidOwned ==
  ASSUME NEW s, NEW D, NEW F, NEW path, NEW k, NEW c, NEW q, NEW need,
         Mid(s, D, F, path, k, c, q, need)
  PROVE  Owned(s.block_bitmap, BlockCount - Cardinality(s.block_bitmap), D \cup F, With(s, c, q))
BY DEF Mid, Sound, Held

\* The list of the call and the list of the inode.
LEMMA MidLists ==
  ASSUME NEW s, NEW D, NEW F, NEW path, NEW k, NEW c, NEW q, NEW need,
         Mid(s, D, F, path, k, c, q, need)
  PROVE  /\ q \in Seq(Blocks) /\ Len(q) \in Nat /\ Len(q) <= MaxBlocks
         /\ Area(s, c).i_block \in Seq(Blocks) /\ Len(Area(s, c).i_block) \in Nat
         /\ \A i \in 1 .. Len(q) : q[i] \in s.block_bitmap
<1>1. s \in FileSystems /\ c \in F /\ c \in Inodes
  BY MidSets
<1>2. Owned(s.block_bitmap, BlockCount - Cardinality(s.block_bitmap), D \cup F, With(s, c, q))
  BY MidOwned
<1>3. With(s, c, q)[c] = q /\ c \in D \cup F
  BY <1>1 DEF With
<1>4. q \in Seq(Blocks) /\ Len(q) <= MaxBlocks /\ \A i \in 1 .. Len(q) : q[i] \in s.block_bitmap
  BY <1>2, <1>3 DEF Owned
<1>5. Len(q) \in Nat
  BY <1>4
<1>6. Area(s, c).i_block \in Seq(Blocks) /\ Len(Area(s, c).i_block) \in Nat
  BY <1>1, AreaType
<1> QED BY <1>4, <1>5, <1>6

\* The call starts with the list of the inode.
LEMMA MidBegin ==
  ASSUME NEW s, NEW D, NEW F, NEW path, NEW k, Good(s, D, F, path, k), NEW c \in F,
         NEW q, q = Area(s, c).i_block, NEW need
  PROVE  Mid(s, D, F, path, k, c, q, need)
<1>1. /\ s \in FileSystems /\ D \in SUBSET Inodes /\ F \in SUBSET Inodes
      /\ Linked(s, D, F, path) /\ Sound(s, D, F, Lists(s), k)
  BY GoodFacts DEF Good
<1>2. With(s, c, q) = Lists(s)
  BY DEF With, Lists
<1>3. Len(q) \in Nat
  BY <1>1, AreaType
<1>4. Follows(s, q, q, need)
  BY <1>3 DEF Follows
<1> QED BY <1>1, <1>2, <1>4 DEF Mid

\* As long as the call has no fewer blocks than the inode, a death is harmless.
LEMMA MidWhole ==
  ASSUME NEW s, NEW D, NEW F, NEW path, NEW k, NEW c, NEW q, NEW need,
         Mid(s, D, F, path, k, c, q, need), Len(Area(s, c).i_block) <= Len(q)
  PROVE  Good(s, D, F, path, k)
<1>0. /\ c \in F /\ c \in Inodes /\ c \notin D /\ D \in SUBSET Inodes /\ F \in SUBSET Inodes
      /\ q \in Seq(Blocks) /\ Len(q) \in Nat /\ Len(q) <= MaxBlocks
      /\ Area(s, c).i_block \in Seq(Blocks) /\ Len(Area(s, c).i_block) \in Nat
      /\ Owned(s.block_bitmap, BlockCount - Cardinality(s.block_bitmap), D \cup F, With(s, c, q))
  <2>1. /\ c \in F /\ c \in Inodes /\ c \notin D
        /\ D \in SUBSET Inodes /\ F \in SUBSET Inodes
    BY MidSets
  <2>2. /\ q \in Seq(Blocks) /\ Len(q) \in Nat /\ Len(q) <= MaxBlocks
        /\ Area(s, c).i_block \in Seq(Blocks) /\ Len(Area(s, c).i_block) \in Nat
    BY MidLists
  <2> QED BY <2>1, <2>2, MidOwned
<1> DEFINE l == With(s, c, q)
           g == Lists(s)
           N == D \cup F
           B == s.block_bitmap
           free == BlockCount - Cardinality(B)
<1>1. /\ c \in F /\ c \in Inodes /\ c \notin D /\ D \in SUBSET Inodes /\ F \in SUBSET Inodes
      /\ q \in Seq(Blocks) /\ Len(q) \in Nat /\ Len(q) <= MaxBlocks
      /\ Area(s, c).i_block \in Seq(Blocks) /\ Len(Area(s, c).i_block) \in Nat
      /\ Owned(B, free, N, l)
  BY <1>0
<1>2. ASSUME NEW n \in N, NEW i \in 1 .. Len(g[n])
      PROVE  i \in 1 .. Len(l[n]) /\ g[n][i] = l[n][i]
  <2>1. CASE n = c
    <3>1. l[n] = q /\ g[n] = Area(s, c).i_block
      BY <1>1, <2>1 DEF With, Lists
    <3> DEFINE x == Len(q)
               y == Len(Area(s, c).i_block)
    <3>2. x \in Nat /\ y \in Nat /\ y <= x /\ i \in 1 .. y
      BY <1>1, <3>1
    <3> HIDE DEF x, y
    <3>3. i \in 1 .. x /\ i <= y
      BY <3>2
    <3>4. i \in 1 .. Len(q) /\ i <= Len(Area(s, c).i_block)
      BY <3>3 DEF x, y
    <3>5. q[i] = Area(s, c).i_block[i]
      BY <3>4 DEF Mid, Follows
    <3> QED BY <3>1, <3>4, <3>5
  <2>2. CASE n # c
    BY <1>1, <2>2 DEF With, Lists
  <2> QED BY <2>1, <2>2
<1>3. ASSUME NEW n \in N
      PROVE  g[n] \in Seq(Blocks) /\ Len(g[n]) <= MaxBlocks
  <2>1. CASE n = c
    <3>1. g[n] = Area(s, c).i_block
      BY <1>1, <2>1 DEF Lists
    <3> DEFINE x == Len(q)
               y == Len(Area(s, c).i_block)
    <3>2. x \in Nat /\ y \in Nat /\ y <= x /\ x <= MaxBlocks /\ MaxBlocks \in Nat
      BY <1>1, ConstantFacts
    <3> HIDE DEF x, y
    <3>3. y <= MaxBlocks
      BY <3>2
    <3> QED BY <1>1, <3>1, <3>3 DEF y
  <2>2. CASE n # c
    <3>1. g[n] = l[n]
      BY <1>1, <2>2 DEF With, Lists
    <3> QED BY <1>1, <3>1 DEF Owned
  <2> QED BY <2>1, <2>2
<1>4. Owned(B, free, N, g)
  <2> HIDE DEF g, l, N, B, free
  <2>1. \A n \in N : \A i \in 1 .. Len(g[n]) : g[n][i] \in B
    BY <1>1, <1>2 DEF Owned
  <2>2. \A n, m \in N : \A i \in 1 .. Len(g[n]), j \in 1 .. Len(g[m]) :
            g[n][i] = g[m][j] => n = m /\ i = j
    BY <1>1, <1>2 DEF Owned
  <2> QED BY <1>1, <1>3, <2>1, <2>2 DEF Owned
<1>5. Sound(s, D, F, l, k)
  BY DEF Mid
<1>6. \A d \in D : g[d] = Area(s, d).i_block
  BY <1>1 DEF Lists
<1>7. Sound(s, D, F, g, k)
  BY <1>4, <1>5, <1>6 DEF Sound, Held
<1> QED BY <1>7 DEF Good, Mid

\* A block of the call alone was given back, or the inode has one that was: a
\* death tears the inode of the file, and no other.
Gives(s, u, q, R) ==
    /\ u \in FileSystems
    /\ u.inode_table = s.inode_table /\ u.inode_bitmap = s.inode_bitmap
    /\ u.data = s.data
    /\ R \subseteq {q[i] : i \in 1 .. Len(q)}
    /\ u.block_bitmap = s.block_bitmap \ R

\* A block given back from the list of the call tears its inode alone.
LEMMA MidTorn ==
  ASSUME NEW s, NEW D, NEW F, NEW path, NEW k, NEW c, NEW q, NEW need,
         Mid(s, D, F, path, k, c, q, need),
         NEW u, NEW R, Gives(s, u, q, R), ~Keeps(u, c)
  PROVE  OneTorn(u) /\ TypedPaths(u) = TypedPaths(s)
<1>1. /\ c \in F /\ c \in Inodes /\ c \notin D /\ D \in SUBSET Inodes /\ F \in SUBSET Inodes
      /\ Owned(s.block_bitmap, BlockCount - Cardinality(s.block_bitmap), D \cup F, With(s, c, q))
  <2>1. /\ c \in F /\ c \in Inodes /\ c \notin D
        /\ D \in SUBSET Inodes /\ F \in SUBSET Inodes
    BY MidSets
  <2> QED BY <2>1, MidOwned
<1>2. \A n : Area(u, n) = Area(s, n)
  BY DEF Area, Gives
<1>3. \A d \in D : Moved(s, u, d)
  BY <1>2, EntriesSame, SameIsMoved DEF Gives
<1>4. IsFiniteSet(u.inode_bitmap)
  BY BitmapFinite DEF Gives
<1>5. Linked(u, D, F, path)
  BY <1>3, <1>4, LinkedMoved DEF Mid, Gives
<1>6. ASSUME NEW n \in (D \cup F) \ {c}, NEW i \in 1 .. Len(Area(s, n).i_block)
      PROVE  Area(s, n).i_block[i] \in u.block_bitmap
  <2> DEFINE l == With(s, c, q)
  <2>1. l[n] = Area(s, n).i_block /\ l[c] = q
    BY <1>1 DEF With
  <2>2. Area(s, n).i_block[i] \in s.block_bitmap
    BY <1>1, <2>1 DEF Owned
  <2>3. \A j \in 1 .. Len(q) : Area(s, n).i_block[i] # q[j]
    <3>1. \A x, y \in D \cup F : \A a \in 1 .. Len(l[x]), b \in 1 .. Len(l[y]) :
              l[x][a] = l[y][b] => x = y /\ a = b
      BY <1>1 DEF Owned
    <3>2. n \in D \cup F /\ c \in D \cup F /\ n # c
      BY <1>1
    <3> HIDE DEF l
    <3> QED BY <2>1, <3>1, <3>2
  <2> QED BY <2>2, <2>3 DEF Gives
<1>7. \A n \in (D \cup F) \ {c} : Keeps(u, n)
  BY <1>2, <1>6 DEF Keeps, OwnedBlocks, BlocksOf
<1>8. TypedPaths(u) = TypedPaths(s)
  BY PathsSame DEF Mid, Gives
<1> QED BY <1>1, <1>5, <1>7, <1>8 DEF OnlyTorn, OneTorn, Gives

\* The call takes a block or gives one back: the tree and the inodes stay.
LEMMA MidStep ==
  ASSUME NEW s, NEW D, NEW F, NEW path, NEW k, NEW c, NEW q, NEW need,
         Mid(s, D, F, path, k, c, q, need),
         NEW t \in FileSystems, t.inode_table = s.inode_table, t.inode_bitmap = s.inode_bitmap,
         t.data = s.data, NEW r, Follows(t, Area(s, c).i_block, r, need),
         Held(t, D \cup F, With(t, c, r)), Extra(t) = Extra(s)
  PROVE  Mid(t, D, F, path, k, c, r, need)
<1>1. \A n : Area(t, n) = Area(s, n)
  BY DEF Area
<1>2. \A d \in D : SameEntries(s, t, d)
  BY <1>1, EntriesSame
<1>3. IsFiniteSet(t.inode_bitmap)
  BY BitmapFinite
<1>4. \A d \in D : Moved(s, t, d)
  BY <1>2, SameIsMoved
<1>5. Linked(t, D, F, path)
  BY <1>3, <1>4, LinkedMoved DEF Mid
<1>6. D \in SUBSET Inodes /\ c \notin D
  BY MidSets
<1>7. \A d \in D : With(t, c, r)[d] = Area(t, d).i_block
  BY <1>6 DEF With
<1>8. \A d \in D : Near(t, d, k)
  BY <1>1, <1>2 DEF Mid, Sound, Near, SameEntries
<1>9. Blank(t)
  BY <1>1 DEF Mid, Sound, Blank
<1>10. Extra(t) \in 0 .. k
  BY DEF Mid, Sound
<1>11. Sound(t, D, F, With(t, c, r), k)
  BY <1>7, <1>8, <1>9, <1>10 DEF Sound
<1> QED BY <1>1, <1>5, <1>11 DEF Mid

\* One block more.
LEMMA MidGrow ==
  ASSUME NEW s, NEW D, NEW F, NEW path, NEW k, NEW c, NEW q, NEW need \in Nat,
         Mid(s, D, F, path, k, c, q, need), Len(q) < need, need <= MaxBlocks,
         NEW t, t = alloc_block(s), Calm(t),
         NEW r, r = Append(q, next_block(s))
  PROVE  Mid(t, D, F, path, k, c, r, need)
<1>1. /\ s \in FileSystems /\ c \in D \cup F /\ c \in Inodes
      /\ s.block_bitmap \in SUBSET Blocks
      /\ D \in SUBSET Inodes /\ F \in SUBSET Inodes
  BY MidSets
<1>2. /\ q \in Seq(Blocks) /\ Len(q) \in Nat
      /\ Area(s, c).i_block \in Seq(Blocks) /\ Len(Area(s, c).i_block) \in Nat
  BY MidLists
<1> DEFINE b == next_block(s)
           B == s.block_bitmap
<1>3. /\ b \in Blocks /\ b \notin B
      /\ t \in FileSystems
      /\ t.block_bitmap = B \cup {b}
      /\ t.bg_free_blocks_count = s.bg_free_blocks_count - 1
      /\ t.inode_bitmap = s.inode_bitmap
      /\ t.inode_table = s.inode_table
      /\ t.data = s.data
  BY <1>1, AllocCalm
<1>4. r = Append(q, b)
  OBVIOUS
<1> HIDE DEF b
<1>5. Cardinality(B \cup {b}) = Cardinality(B) + 1 /\ Cardinality(B) \in Nat
  BY <1>1, <1>3, MarkOne
<1>6. s.bg_free_blocks_count \in Nat /\ BlockCount \in Nat /\ MaxBlocks \in Nat
  BY <1>1, SizesAssumption, ConstantFacts DEF FileSystems
<1>7. Extra(t) = Extra(s)
  BY <1>3, <1>5, <1>6 DEF Extra
<1>8. Held(t, D \cup F, With(t, c, r))
  <2> DEFINE N == D \cup F
             l == With(s, c, q)
             g == With(t, c, r)
             free == BlockCount - Cardinality(B)
  <2>1. Owned(B, free, N, l)
    BY MidOwned
  <2>2. l[c] = q /\ g[c] = Append(l[c], b) /\ c \in N
    BY <1>1, <1>4 DEF With
  <2>3. \A m \in N \ {c} : g[m] = l[m]
    BY <1>1, <1>3 DEF With, Area
  <2>4. Len(l[c]) < MaxBlocks
    <3> DEFINE x == Len(q)
    <3>1. x \in Nat /\ x < need
      BY <1>2
    <3> HIDE DEF x
    <3>2. x < MaxBlocks
      BY <1>6, <3>1
    <3> QED BY <2>2, <3>2 DEF x
  <2>5. free - 1 = BlockCount - Cardinality(B \cup {b})
    BY <1>5, <1>6
  <2> HIDE DEF N, l, g, free
  <2>6. Owned(B \cup {b}, free - 1, N, g)
    <3> HIDE DEF B
    <3>1. /\ c \in N /\ b \in Blocks /\ b \notin B /\ Len(l[c]) < MaxBlocks
          /\ g[c] = Append(l[c], b)
      BY <1>3, <2>2, <2>4
    <3> QED BY <2>1, <2>3, <3>1, OwnedTake
  <2> QED BY <1>3, <2>5, <2>6 DEF Held, N, g
<1>9. Follows(t, Area(s, c).i_block, r, need)
  <2> DEFINE a == Area(s, c).i_block
             x == Len(q)
             y == Len(a)
  <2>1. x \in Nat /\ y \in Nat /\ x < need
    BY <1>2
  <2>2. x < y => need <= x
    BY DEF Mid, Follows
  <2>3. \A i \in 1 .. x : i <= y => q[i] = a[i]
    BY DEF Mid, Follows
  <2>4. Len(r) = x + 1 /\ \A i \in 1 .. x : r[i] = q[i]
    BY <1>2, <1>3, <1>4
  <2> HIDE DEF a, x
  <2>5. y <= x
    <3> HIDE DEF y
    <3> QED BY <2>1, <2>2
  <2>6. \A i \in 1 .. x + 1 : i <= y => r[i] = a[i]
    <3> HIDE DEF y
    <3>1. \A i \in 1 .. x + 1 : i <= y => i \in 1 .. x
      BY <2>1, <2>5
    <3> QED BY <2>3, <2>4, <3>1
  <2>7. y < Len(r) => Len(r) <= need
    <3> HIDE DEF y
    <3> QED BY <2>1, <2>4
  <2>8. ~(Len(r) < y) /\ \A i \in 1 .. y : ~(i > Len(r))
    <3> HIDE DEF y
    <3> QED BY <2>1, <2>4, <2>5
  <2> QED BY <2>4, <2>6, <2>7, <2>8 DEF Follows, a
<1> HIDE DEF B
<1> QED BY <1>3, <1>7, <1>8, <1>9, MidStep

\* One block less.
LEMMA MidShrink ==
  ASSUME NEW s, NEW D, NEW F, NEW path, NEW k, NEW c, NEW q, NEW need \in Nat,
         Mid(s, D, F, path, k, c, q, need), Len(q) > need,
         NEW t, t = remove_block(s, q[Len(q)]),
         NEW r, r = SubSeq(q, 1, Len(q) - 1)
  PROVE  Mid(t, D, F, path, k, c, r, need)
<1>1. /\ s \in FileSystems /\ c \in D \cup F /\ c \in Inodes
      /\ s.block_bitmap \in SUBSET Blocks
      /\ D \in SUBSET Inodes /\ F \in SUBSET Inodes
  BY MidSets
<1>2. /\ q \in Seq(Blocks) /\ Len(q) \in Nat
      /\ Area(s, c).i_block \in Seq(Blocks) /\ Len(Area(s, c).i_block) \in Nat
      /\ \A i \in 1 .. Len(q) : q[i] \in s.block_bitmap
  BY MidLists
<1> DEFINE x == Len(q)
           b == q[x]
           B == s.block_bitmap
<1>3. /\ x \in Nat /\ x > 0 /\ x \in 1 .. x
      /\ x - 1 \in Nat /\ 1 .. x - 1 \subseteq 1 .. x
  <2>1. x \in Nat /\ x > need
    BY <1>2
  <2> HIDE DEF x
  <2> QED BY <2>1
<1>4. b \in B /\ b \in Blocks
  BY <1>1, <1>2, <1>3
<1>5. t \in FileSystems
  BY <1>1, RemoveType
<1>6. /\ t.block_bitmap = B \ {b}
      /\ t.bg_free_blocks_count = s.bg_free_blocks_count + 1
      /\ t.inode_bitmap = s.inode_bitmap
      /\ t.inode_table = s.inode_table
      /\ t.data = s.data
  BY <1>1, <1>5 DEF remove_block, FileSystems
<1>7. Len(r) = x - 1 /\ \A i \in 1 .. x - 1 : r[i] = q[i]
  <2>1. r = SubSeq(q, 1, x - 1)
    OBVIOUS
  <2>2. x - 1 \in Nat /\ 1 .. x - 1 \subseteq 1 .. Len(q)
    BY <1>3
  <2> HIDE DEF x
  <2> QED BY <1>2, <2>1, <2>2, FrontOf
<1>8. Cardinality(B \ {b}) = Cardinality(B) - 1 /\ Cardinality(B) \in Nat
  BY <1>1, <1>4, MarkOne
<1>9. s.bg_free_blocks_count \in Nat /\ BlockCount \in Nat
  BY <1>1, SizesAssumption DEF FileSystems
<1>10. Extra(t) = Extra(s)
  BY <1>6, <1>8, <1>9 DEF Extra
<1>11. Held(t, D \cup F, With(t, c, r))
  <2> DEFINE N == D \cup F
             l == With(s, c, q)
             g == With(t, c, r)
             free == BlockCount - Cardinality(B)
  <2>1. Owned(B, free, N, l)
    BY MidOwned
  <2>2. /\ l[c] = q /\ g[c] = SubSeq(l[c], 1, Len(l[c]) - 1) /\ c \in N
        /\ l[c][Len(l[c])] = b
    BY <1>1 DEF With
  <2>3. \A m \in N \ {c} : g[m] = l[m]
    BY <1>1, <1>6 DEF With, Area
  <2>4. Len(l[c]) > 0
    BY <1>3, <2>2
  <2>5. free + 1 = BlockCount - Cardinality(B \ {b})
    BY <1>8, <1>9
  <2> HIDE DEF N, l, g, free, b
  <2>6. Owned(B \ {b}, free + 1, N, g)
    BY <2>1, <2>2, <2>3, <2>4, OwnedGive
  <2> QED BY <1>6, <2>5, <2>6 DEF Held, N, g
<1>12. Follows(t, Area(s, c).i_block, r, need)
  <2> DEFINE a == Area(s, c).i_block
             y == Len(a)
  <2>1. x \in Nat /\ y \in Nat /\ x > need
    BY <1>2
  <2>2. /\ y < x => x <= need
        /\ \A i \in 1 .. x : i <= y => q[i] = a[i]
        /\ \A i \in 1 .. y : i > x => a[i] \notin B
    BY DEF Mid, Follows
  <2> HIDE DEF a
  <2>3. x <= y
    <3> HIDE DEF x, y
    <3> QED BY <2>1, <2>2
  <2>4. q[x] = a[x]
    BY <1>3, <2>2, <2>3
  <2>5. \A i \in 1 .. Len(r) : i <= y => r[i] = a[i]
    BY <1>3, <1>7, <2>2
  <2>6. ASSUME NEW i \in 1 .. y, i > Len(r)
        PROVE  a[i] \notin B \ {b}
    <3>1. i > x \/ i = x
      <4>1. i \in Nat /\ i > x - 1
        <5> HIDE DEF x, y
        <5> QED BY <1>7, <2>1, <2>6
      <4> HIDE DEF x
      <4> QED BY <1>3, <4>1
    <3>2. CASE i > x
      BY <2>2, <3>2
    <3>3. CASE i = x
      BY <2>4, <3>3
    <3> QED BY <3>1, <3>2, <3>3
  <2>7. (y < Len(r) => Len(r) <= need) /\ (Len(r) < y => need <= Len(r))
    <3> HIDE DEF x, y
    <3> QED BY <1>7, <2>1, <2>3
  <2> QED BY <1>6, <2>5, <2>6, <2>7 DEF Follows, a
<1> HIDE DEF B, b
<1> QED BY <1>5, <1>6, <1>10, <1>11, <1>12, MidStep

\* The call fills its blocks and stores its list.
Ends(s, t, c, q) ==
    /\ t \in FileSystems
    /\ Area(t, c).i_block = q
    /\ \A n \in Inodes \ {c} : Area(t, n) = Area(s, n)
    /\ t.inode_bitmap = s.inode_bitmap
    /\ t.block_bitmap = s.block_bitmap
    /\ t.bg_free_blocks_count = s.bg_free_blocks_count
    /\ \A b \in Blocks \ {q[i] : i \in 1 .. Len(q)} : t.data[b] = s.data[b]

\* The end of write_file leaves a good disk.
LEMMA MidEnd ==
  ASSUME NEW s, NEW D, NEW F, NEW path, NEW k, NEW c, NEW q, NEW need,
         Mid(s, D, F, path, k, c, q, need), NEW t, Ends(s, t, c, q)
  PROVE  Good(t, D, F, path, k)
<1>1. /\ s \in FileSystems /\ t \in FileSystems /\ c \in D \cup F /\ c \in Inodes /\ c \notin D
      /\ D \in SUBSET Inodes /\ F \in SUBSET Inodes
  BY MidSets DEF Ends
<1>2. Owned(s.block_bitmap, BlockCount - Cardinality(s.block_bitmap), D \cup F, With(s, c, q))
  BY MidOwned
<1>3. Lists(t) = With(s, c, q)
  BY <1>1 DEF Lists, With, Ends
<1>4. ASSUME NEW d \in D
      PROVE  SameEntries(s, t, d)
  <2>1. Area(t, d) = Area(s, d) /\ d \in Inodes /\ d # c
    BY <1>1 DEF Ends
  <2>2. ASSUME NEW i \in 1 .. Len(Area(s, d).i_block)
        PROVE  t.data[Area(s, d).i_block[i]] = s.data[Area(s, d).i_block[i]]
    <3> DEFINE l == With(s, c, q)
    <3>1. l[d] = Area(s, d).i_block /\ l[c] = q
      BY <1>1, <2>1 DEF With
    <3>2. \A x, y \in D \cup F : \A a \in 1 .. Len(l[x]), b \in 1 .. Len(l[y]) :
              l[x][a] = l[y][b] => x = y /\ a = b
      BY <1>2 DEF Owned
    <3> HIDE DEF l
    <3>3. \A j \in 1 .. Len(q) : Area(s, d).i_block[i] # q[j]
      BY <1>1, <2>1, <3>1, <3>2
    <3>4. Area(s, d).i_block[i] \in Blocks
      BY <1>1, <2>1, BlockAtType
    <3> QED BY <3>3, <3>4 DEF Ends
  <2> QED BY <2>1, <2>2, EntriesSame
<1>5. Linked(t, D, F, path)
  <2>1. IsFiniteSet(t.inode_bitmap)
    BY <1>1, BitmapFinite
  <2>2. \A d \in D : Moved(s, t, d)
    BY <1>4, SameIsMoved
  <2> QED BY <2>1, <2>2, LinkedMoved DEF Mid, Ends
<1>6. c \in s.inode_bitmap
  BY <1>1 DEF Mid, Linked, Marked
<1>7. Blank(t)
  BY <1>6 DEF Mid, Sound, Blank, Ends
<1>8. \A d \in D : Near(t, d, k)
  BY <1>1, <1>4 DEF Mid, Sound, Near, SameEntries, Ends
<1>9. \A d \in D : Lists(t)[d] = Area(t, d).i_block
  BY <1>1 DEF Lists
<1>10. Held(t, D \cup F, Lists(t))
  BY <1>2, <1>3 DEF Held, Ends
<1>11. Extra(t) \in 0 .. k
  BY DEF Mid, Sound, Extra, Ends
<1> QED BY <1>1, <1>5, <1>7, <1>8, <1>9, <1>10, <1>11 DEF Good, Sound

\* What a death in the middle of write_file leaves.
CallCuts(s, q, need) ==
    {s} \cup
    (CASE Len(q) < need -> AllocCuts(s)
       [] Len(q) > need -> RemoveCuts(s, q[Len(q)])
       [] OTHER -> {})

\* A write that takes no block away is harmless.
LEMMA CallCutsWhole ==
  ASSUME NEW s, NEW D, NEW F, NEW path, NEW k \in Nat, NEW c, NEW q, NEW need \in Nat,
         Mid(s, D, F, path, k, c, q, need),
         Len(Area(s, c).i_block) <= Len(q), Len(q) <= need,
         NEW t \in CallCuts(s, q, need), Calm(t)
  PROVE  Whole(t, k + 1) /\ TypedPaths(t) = TypedPaths(s)
<1>1. Good(s, D, F, path, k)
  BY MidWhole
<1>2. k + 1 \in Nat /\ k <= k + 1
  OBVIOUS
<1>3. Len(q) \in Nat
  BY MidLists
<1>4. t = s \/ t \in AllocCuts(s)
  BY <1>3 DEF CallCuts
<1>5. CASE t = s
  BY <1>1, <1>2, <1>5, GoodLater DEF Whole
<1>6. CASE t \in AllocCuts(s)
  BY <1>1, <1>6, AllocGood DEF Whole
<1> QED BY <1>4, <1>5, <1>6

\* Any other write tears the inode of the file at most.
LEMMA CallCutsLeft ==
  ASSUME NEW s, NEW D, NEW F, NEW path, NEW k \in Nat, NEW c, NEW q, NEW need \in Nat,
         Mid(s, D, F, path, k, c, q, need),
         NEW t \in CallCuts(s, q, need), Calm(t)
  PROVE  Left(t, k + 1) /\ TypedPaths(t) = TypedPaths(s)
<1> DEFINE x == Len(q)
           a == Area(s, c).i_block
           y == Len(a)
<1>1. /\ x \in Nat /\ y \in Nat
      /\ q \in Seq(Blocks) /\ a \in Seq(Blocks)
      /\ \A i \in 1 .. x : q[i] \in s.block_bitmap
  BY MidLists
<1>2. s \in FileSystems /\ c \in Inodes
  BY MidSets
<1>3. /\ y < x => x <= need
      /\ x < y => need <= x
      /\ \A i \in 1 .. x : i <= y => q[i] = a[i]
      /\ \A i \in 1 .. y : i > x => a[i] \notin s.block_bitmap
  BY DEF Mid, Follows
<1>4. CASE y <= x /\ x <= need
  BY <1>4, CallCutsWhole DEF Left
<1>5. CASE x > need
  <2>1. x <= y /\ x \in 1 .. x /\ x \in 1 .. y
    <3> HIDE DEF x, y
    <3> QED BY <1>1, <1>3, <1>5
  <2> DEFINE b == q[x]
  <2>2. b = a[x] /\ b \in {q[i] : i \in 1 .. Len(q)} /\ b \in OwnedBlocks(s, c)
    BY <1>3, <2>1 DEF OwnedBlocks, BlocksOf
  <2>3. t = s \/ t \in RemoveCuts(s, b)
    BY <1>1, <1>5 DEF CallCuts
  <2>4. CASE t \in RemoveCuts(s, b)
    <3>1. t \in FileSystems
      BY <1>2, <2>4, RemoveCutsType
    <3>2. /\ t.inode_table = s.inode_table /\ t.inode_bitmap = s.inode_bitmap
          /\ t.data = s.data /\ t.block_bitmap = s.block_bitmap \ {b}
      BY <1>2, <2>4 DEF RemoveCuts, remove_block, FileSystems
    <3>3. Gives(s, t, q, {b})
      BY <2>2, <3>1, <3>2 DEF Gives
    <3>4. ~Keeps(t, c)
      BY <2>2, <3>2 DEF Keeps, OwnedBlocks, Area
    <3> HIDE DEF b
    <3> QED BY <3>3, <3>4, MidTorn DEF Left
  <2>5. CASE t = s /\ x < y
    <3>1. x + 1 \in 1 .. y /\ x + 1 > x
      <4> HIDE DEF x, y
      <4> QED BY <1>1, <2>5
    <3>2. a[x + 1] \notin s.block_bitmap
      <4> HIDE DEF x, y
      <4> QED BY <1>3, <3>1
    <3>3. ~Keeps(t, c)
      BY <2>5, <3>1, <3>2 DEF Keeps, OwnedBlocks, BlocksOf
    <3>4. Gives(s, t, q, {})
      BY <1>2, <2>5 DEF Gives
    <3> QED BY <3>3, <3>4, MidTorn DEF Left
  <2>6. CASE t = s /\ x = y
    <3>1. Len(Area(s, c).i_block) <= Len(q)
      BY <1>1, <2>6
    <3>2. Good(s, D, F, path, k)
      BY <3>1, MidWhole
    <3>3. k + 1 \in Nat /\ k <= k + 1
      OBVIOUS
    <3> QED BY <2>6, <3>2, <3>3, GoodLater DEF Left, Whole
  <2>7. x < y \/ x = y
    <3> HIDE DEF x, y
    <3> QED BY <1>1, <2>1
  <2> QED BY <2>3, <2>4, <2>5, <2>6, <2>7
<1>6. CASE x < y /\ x <= need
  <2>1. need = x
    <3> HIDE DEF x, y
    <3> QED BY <1>1, <1>3, <1>6
  <2>2. t = s
    BY <1>1, <2>1 DEF CallCuts
  <2>3. x + 1 \in 1 .. y /\ x + 1 > x
    <3> HIDE DEF x, y
    <3> QED BY <1>1, <1>6
  <2>4. a[x + 1] \notin s.block_bitmap
    <3> HIDE DEF x, y
    <3> QED BY <1>3, <2>3
  <2>5. ~Keeps(t, c)
    BY <2>2, <2>3, <2>4 DEF Keeps, OwnedBlocks, BlocksOf
  <2>6. Gives(s, t, q, {})
    BY <1>2, <2>2 DEF Gives
  <2> QED BY <2>5, <2>6, MidTorn DEF Left
<1> HIDE DEF x, y
<1> QED BY <1>1, <1>4, <1>5, <1>6

-----------------------------------------------------------------------------
(* The steps of the program between two crashes.  At rest the disk is good *)
(* and the prompt names a directory of its tree.                           *)
AtRest(k) == WholeAt(fs, k, current_dir, current_path)

\* In write_file.
InCall(k) ==
    /\ call.length <= MaxSize
    /\ \E D, F, path :
         /\ Mid(fs, D, F, path, k, call.inode, call.i_block, need_blocks(call.length))
         /\ Here(D, path)

Surviving(k) == IF mode = "write" THEN InCall(k) ELSE AtRest(k)

\* A step beside the tree leaves a good disk good.
LEMMA WholeAside ==
  ASSUME NEW s, NEW k \in Nat, NEW n, NEW at, WholeAt(s, k, n, at),
         NEW t, Aside(s, t), Extra(t) \in 0 .. k
  PROVE  WholeAt(t, k, n, at)
<1>1. PICK D, F, path : Good(s, D, F, path, k) /\ n \in D /\ path[n] = at
  BY DEF WholeAt
<1>2. Good(t, D, F, path, k)
  BY <1>1, GoodAside
<1> QED BY <1>1, <1>2 DEF WholeAt

\* The free count of a good disk.
LEMMA WholeExtra ==
  ASSUME NEW s, NEW k, NEW n, NEW at, WholeAt(s, k, n, at)
  PROVE  s \in FileSystems /\ Extra(s) \in 0 .. k
BY DEF WholeAt, Good, Sound

\* mkdir and cat.
LEMMA AddSurvives ==
  ASSUME TypeOK, NEW k \in Nat, AtRest(k), NEW tmp \in Arguments, NEW type \in {FILE, DIR},
         Nameable(type, tmp), NEW to,
         \A p \in Positions(fs, current_dir) :
             to[p[1]] \in 1 .. Len(Area(fs, current_dir).i_block),
         Add(tmp, type, to), Followed'
  PROVE  Surviving(k)'
<1>1. PICK D, F, path : /\ Good(fs, D, F, path, k)
                        /\ current_dir \in D /\ path[current_dir] = current_path
  BY DEF AtRest, WholeAt
<1>2. /\ mode = "prompt" /\ reserch_file(fs, current_dir, tmp, type) = {}
      /\ HasRoom(fs, current_dir) /\ UNCHANGED <<current_dir, current_path>>
  BY DEF Add, Prompt
<1>3. fs \in FileSystems /\ current_dir \in Inodes
  BY DEF TypeOK
<1>4. NotThere(fs, current_dir, type, tmp)
  BY <1>2, <1>3, SearchFailed DEF NotThere
<1>5. CASE mode' = "prompt" /\ WholeAt(fs', k, current_dir, current_path)
  BY <1>2, <1>5 DEF Surviving, AtRest
<1>6. CASE /\ ~Spins(fs) /\ Partial(fs, current_dir)
           /\ \E p \in FreeSlot(fs, current_dir) :
                fs' = FillSlot(fs, current_dir, tmp, type, p, to[p[1]])
           /\ UNCHANGED mode
  <2>1. \E p \in FreeSlot(fs, current_dir) : \E x \in 1 .. Len(Area(fs, current_dir).i_block) :
           fs' = FillSlot(fs, current_dir, tmp, type, p, x)
    BY <1>6, FreeSlotType
  <2>2. WholeAt(fs', k, current_dir, path[current_dir])
    BY <1>1, <1>2, <1>4, <1>6, <2>1, AddWhole DEF Followed, Calm
  <2> QED BY <1>1, <1>2, <1>5, <1>6, <2>2
<1>7. CASE fs' = fault(fs, {"noslot"})
  <2>1. "noslot" \in fault(fs, {"noslot"}).faults
    BY <1>3 DEF fault, FileSystems
  <2> QED BY <1>7, <2>1 DEF Followed
<1>8. CASE /\ ~Partial(fs, current_dir)
           /\ fs' = AppendBlock(fs, current_dir, tmp, type)
           /\ UNCHANGED mode
  <2>1. WholeAt(fs', k, current_dir, path[current_dir])
    BY <1>1, <1>2, <1>4, <1>8, AddWhole DEF Followed, Calm
  <2> QED BY <1>1, <1>2, <1>5, <1>8, <2>1
<1>9. CASE /\ fs' = IF Partial(fs, current_dir) THEN fs ELSE alloc_block(fs)
           /\ mode' = "hung"
  <2>1. Good(fs', D, F, path, k)
    BY <1>1, <1>9, AllocGood DEF Followed, Calm
  <2>2. WholeAt(fs', k, current_dir, current_path)
    BY <1>1, <2>1 DEF WholeAt
  <2> QED BY <1>2, <1>9, <2>2 DEF Surviving, AtRest
<1> QED BY <1>6, <1>7, <1>8, <1>9 DEF Add

\* A step that leaves the disk and the place alone.
LEMMA SameSurvives ==
  ASSUME NEW k \in Nat, AtRest(k), mode' # "write",
         UNCHANGED <<fs, current_dir, current_path>>
  PROVE  Surviving(k)'
<1>1. AtRest(k)'
  BY DEF AtRest
<1> QED BY <1>1 DEF Surviving

\* rmdir.
LEMMA RmdirSurvives ==
  ASSUME TypeOK, NEW k \in Nat, AtRest(k), NEW tmp \in Names, rmdir(tmp), Followed'
  PROVE  Surviving(k)'
<1>1. PICK D, F, path : /\ Good(fs, D, F, path, k)
                        /\ current_dir \in D /\ path[current_dir] = current_path
  BY DEF AtRest, WholeAt
<1>2. PICK p \in reserch_file(fs, current_dir, tmp, DIR) :
         LET child == EntryAt(fs, current_dir, p).inode
             s1 == remove_block(fs, Area(fs, child).i_block[1])
             s2 == ClearSlot(remove_inode(s1, child), current_dir, p)
             last == IF Len(Area(fs, current_dir).i_block) > 1 THEN 2 ELSE p[1]
         IN /\ Area(fs, child).i_size = 2
            /\ IF SweepHangs(s2, current_dir)
                 THEN fs' = s2 /\ mode' = "hung"
                 ELSE /\ fs' = stamp(Swept(s2, current_dir),
                                     BlockAt(s2, current_dir, last), {p[1] - 1})
                      /\ UNCHANGED mode
  BY DEF rmdir
<1> DEFINE child == EntryAt(fs, current_dir, p).inode
           s2 == ClearSlot(remove_inode(remove_block(fs, Area(fs, child).i_block[1]), child),
                           current_dir, p)
           last == IF Len(Area(fs, current_dir).i_block) > 1 THEN 2 ELSE p[1]
<1>3. /\ Area(fs, child).i_size = 2
      /\ mode' # "write"
      /\ \/ SweepHangs(s2, current_dir) /\ fs' = s2
         \/ /\ ~SweepHangs(s2, current_dir)
            /\ fs' = stamp(Swept(s2, current_dir), BlockAt(s2, current_dir, last), {p[1] - 1})
  BY <1>2 DEF rmdir, Prompt
<1>4. UNCHANGED <<current_dir, current_path>>
  BY DEF rmdir
<1>5. PICK w : w = s2
  OBVIOUS
<1>6. WholeAt(fs', k, current_dir, path[current_dir])
  <2>1. Calm(fs')
    BY DEF Followed, Calm
  <2>2. \/ SweepHangs(w, current_dir) /\ fs' = w
        \/ /\ ~SweepHangs(w, current_dir)
           /\ fs' = stamp(Swept(w, current_dir), BlockAt(w, current_dir, last), {p[1] - 1})
    BY <1>3, <1>5
  <2>3. PICK at : at = last
    OBVIOUS
  <2>4. \/ SweepHangs(w, current_dir) /\ fs' = w
        \/ /\ ~SweepHangs(w, current_dir)
           /\ fs' = stamp(Swept(w, current_dir), BlockAt(w, current_dir, at), {p[1] - 1})
    BY <2>2, <2>3
  <2>5. PICK c : c = EntryAt(fs, current_dir, p).inode
    OBVIOUS
  <2>6. /\ Area(fs, c).i_size = 2
        /\ w = ClearSlot(remove_inode(remove_block(fs, Area(fs, c).i_block[1]), c),
                         current_dir, p)
    BY <1>3, <1>5, <2>5
  <2> HIDE DEF s2, last, child
  <2> QED BY <1>1, <2>1, <2>4, <2>5, <2>6, RmdirWhole
<1>7. AtRest(k)'
  BY <1>1, <1>4, <1>6 DEF AtRest
<1> QED BY <1>3, <1>7 DEF Surviving

\* del.
LEMMA DelSurvives ==
  ASSUME TypeOK, NEW k \in Nat, AtRest(k), NEW tmp, del(tmp), Followed'
  PROVE  Surviving(k)'
<1>1. PICK D, F, path : /\ Good(fs, D, F, path, k)
                        /\ current_dir \in D /\ path[current_dir] = current_path
  BY DEF AtRest, WholeAt
<1>0. fs \in FileSystems /\ current_dir \in Inodes
  BY DEF TypeOK
<1>2. PICK p \in reserch_file(fs, current_dir, tmp, FILE) :
         LET file == EntryAt(fs, current_dir, p).inode
             s1 == stamp(fs, BlockAt(fs, current_dir, p[1]), {0, 1})
             s2 == ClearSlot(remove_blocks(s1, Area(fs, file)), current_dir, p)
         IN IF SweepHangs(s2, current_dir)
              THEN fs' = s2 /\ mode' = "hung"
              ELSE fs' = Swept(s2, current_dir) /\ UNCHANGED mode
  BY DEF del
<1>3. PICK c : c = EntryAt(fs, current_dir, p).inode
  OBVIOUS
<1>4. PICK s1 : s1 = stamp(fs, BlockAt(fs, current_dir, p[1]), {0, 1})
  OBVIOUS
<1>5. PICK w : w = ClearSlot(remove_blocks(s1, Area(fs, c)), current_dir, p)
  OBVIOUS
<1>6. /\ mode' # "write"
      /\ \/ SweepHangs(w, current_dir) /\ fs' = w
         \/ ~SweepHangs(w, current_dir) /\ fs' = Swept(w, current_dir)
  BY <1>2, <1>3, <1>4, <1>5 DEF del, Prompt
<1>7. UNCHANGED <<current_dir, current_path>>
  BY DEF del
<1>8. s1 = fs
  <2>1. s1 \in FileSystems /\ w.faults = s1.faults /\ w \in FileSystems
    <3>1. /\ s1 \in FileSystems /\ s1.inode_table = fs.inode_table
      BY <1>0, <1>4, StampType DEF stamp, fault, FileSystems
    <3>2. c \in Inodes /\ p \in Positions(fs, current_dir)
      BY <1>0, <1>3, FoundType
    <3>3. Area(fs, c).i_block \in Seq(Blocks)
      BY <1>0, <3>2, AreaType
    <3>4. PICK v : v = remove_blocks(s1, Area(fs, c))
      OBVIOUS
    <3>5. v \in FileSystems /\ v.inode_table = fs.inode_table /\ v.faults = s1.faults
      BY <3>1, <3>3, <3>4, RemoveBlocksType DEF remove_blocks, FileSystems
    <3>6. p \in Positions(v, current_dir)
      BY <1>0, <3>2, <3>5, PositionsKept
    <3>7. w \in FileSystems
      BY <1>0, <1>5, <3>4, <3>5, <3>6, ClearSlotType
    <3>8. w.faults = v.faults
      BY <1>5, <3>4, <3>5 DEF ClearSlot, update_dir, FileSystems
    <3> QED BY <3>1, <3>5, <3>7, <3>8
  <2>2. (fs').faults = w.faults
    BY <1>0, <1>6, <2>1, SweptFaults
  <2>3. Calm(s1)
    BY <2>1, <2>2 DEF Followed, Calm
  <2> QED BY <1>0, <1>4, <2>3, StampCalm
<1>9. WholeAt(fs', k, current_dir, path[current_dir])
  BY <1>1, <1>3, <1>5, <1>6, <1>8, DelWhole
<1>10. AtRest(k)'
  BY <1>1, <1>7, <1>9 DEF AtRest
<1> QED BY <1>6, <1>10 DEF Surviving

\* The mode of an inode is beside the tree.
LEMMA AttribSurvives ==
  ASSUME TypeOK, NEW k \in Nat, AtRest(k), NEW tmp, NEW attr, attrib(tmp, attr)
  PROVE  Surviving(k)'
<1>1. fs \in FileSystems /\ current_dir \in Inodes
  BY DEF TypeOK
<1>0. PICK type \in {FILE, DIR} : \E p \in reserch_file(fs, current_dir, tmp, type) :
        LET n == EntryAt(fs, current_dir, p).inode IN
        fs' = update_inode_entry(fs, n, [Area(fs, n) EXCEPT !.i_mode = NewMode(@, attr)])
  BY DEF attrib
<1>2. PICK p \in reserch_file(fs, current_dir, tmp, type) :
        LET n == EntryAt(fs, current_dir, p).inode IN
        fs' = update_inode_entry(fs, n, [Area(fs, n) EXCEPT !.i_mode = NewMode(@, attr)])
  BY <1>0
<1> DEFINE n == EntryAt(fs, current_dir, p).inode
           area == [Area(fs, n) EXCEPT !.i_mode = NewMode(Area(fs, n).i_mode, attr)]
<1>3. n \in Inodes
  BY <1>1, FoundType
<1>4. NewMode(Area(fs, n).i_mode, attr) \in SUBSET ModeBits
  BY <1>1, <1>3, AreaType DEF NewMode, ModeBits
<1>5. /\ area \in InodeRecords
      /\ area.i_block = Area(fs, n).i_block
      /\ area.i_size = Area(fs, n).i_size
  BY <1>1, <1>3, <1>4, AreaType DEF InodeRecords
<1>6. fs' = update_inode_entry(fs, n, area)
  BY <1>2
<1> HIDE DEF n, area
<1>7. /\ Area(fs', n) = area
      /\ \A j \in Inodes \ {n} : Area(fs', j) = Area(fs, j)
      /\ fs' \in FileSystems
      /\ (fs').inode_bitmap = fs.inode_bitmap
      /\ (fs').block_bitmap = fs.block_bitmap
      /\ (fs').bg_free_blocks_count = fs.bg_free_blocks_count
      /\ (fs').data = fs.data
  BY <1>1, <1>3, <1>5, <1>6, UpdateInodeResult
<1>8. ASSUME NEW j \in Inodes
      PROVE  /\ Area(fs', j).i_block = Area(fs, j).i_block
             /\ Area(fs', j).i_size = Area(fs, j).i_size
  <2>1. CASE j = n
    BY <2>1, <1>5, <1>7
  <2>2. CASE j # n
    BY <2>2, <1>7
  <2> QED BY <2>1, <2>2
<1>9. Aside(fs, fs')
  BY <1>7, <1>8 DEF Aside
<1>10. Extra(fs') \in 0 .. k
  BY <1>7, WholeExtra DEF AtRest, Extra
<1>11. mode' # "write" /\ UNCHANGED <<current_dir, current_path>>
  BY DEF attrib, Prompt
<1>12. WholeAt(fs', k, current_dir, current_path)
  BY <1>9, <1>10, WholeAside DEF AtRest
<1> QED BY <1>11, <1>12 DEF Surviving, AtRest

\* open and close leave the disk alone.
LEMMA OpenSurvives ==
  ASSUME TypeOK, NEW k \in Nat, AtRest(k), NEW tmp,
         (open_file(tmp) /\ Followed') \/ close_file(tmp)
  PROVE  Surviving(k)'
<1>1. CASE open_file(tmp) /\ Followed'
  <2>1. "openslot" \in fault(fs, {"openslot"}).faults
    BY DEF TypeOK, fault, FileSystems
  <2>2. fs' = fs /\ mode' # "write" /\ UNCHANGED <<current_dir, current_path>>
    BY <1>1, <2>1 DEF Followed, open_file, Prompt
  <2> QED BY <2>2, SameSurvives
<1>2. CASE close_file(tmp)
  <2>1. fs' = fs /\ mode' # "write" /\ UNCHANGED <<current_dir, current_path>>
    BY <1>2 DEF close_file, Prompt
  <2> QED BY <2>1, SameSurvives
<1> QED BY <1>1, <1>2

\* cd follows the names, "." and "..".
LEMMA CdSurvives ==
  ASSUME TypeOK, NEW k \in Nat, AtRest(k), NEW tmp \in Arguments, cd(tmp)
  PROVE  Surviving(k)'
<1>1. PICK D, F, path : /\ Good(fs, D, F, path, k)
                        /\ current_dir \in D /\ path[current_dir] = current_path
  BY DEF AtRest, WholeAt
<1>2. Linked(fs, D, F, path) /\ Ways(fs, D, path)
  BY <1>1 DEF Good, Linked
<1>3. mode' # "write" /\ UNCHANGED fs
  BY DEF cd, Prompt
<1>4. PICK p \in reserch_file(fs, current_dir, tmp, DIR) :
         /\ current_dir' = EntryAt(fs, current_dir, p).inode
         /\ current_path' =
              CASE tmp = "." -> current_path
                [] tmp = ".." ->
                     IF EntryAt(fs, current_dir, <<p[1], p[2] - 1>>).inode = Root
                       THEN current_path
                       ELSE SubSeq(current_path, 1, Len(current_path) - 1)
                [] OTHER -> Append(current_path, tmp)
  BY DEF cd
<1>5. PICK e : e = EntryAt(fs, current_dir, p)
  OBVIOUS
<1>6. p \in Used(fs, current_dir) /\ e.file_type = DIR /\ e.name = tmp
  BY <1>5, SearchFound
<1>7. e.inode \in D
  BY <1>1, <1>2, <1>5, <1>6, LinkKinds
<1>8. \/ ChildFile(e, F)
      \/ DirLink(e, current_dir, D, path)
      \/ DotLink(e, current_dir)
      \/ UpLink(fs, current_dir, p, D, path)
  BY <1>1, <1>2, <1>5, <1>6 DEF Linked, Leads
<1>9. ~ChildFile(e, F)
  BY <1>6 DEF ChildFile, FILE, DIR
<1>10. path[e.inode] = current_path'
  <2>1. CASE tmp = "."
    <3>1. DotLink(e, current_dir)
      BY <1>6, <1>8, <1>9, <1>5, <2>1, SizesAssumption DEF DirLink, UpLink
    <3>2. e.inode = current_dir
      BY <3>1 DEF DotLink, NewEntry
    <3> QED BY <1>1, <1>4, <2>1, <3>2
  <2>2. CASE tmp = ".."
    <3>1. UpLink(fs, current_dir, p, D, path)
      BY <1>6, <1>8, <1>9, <2>2, SizesAssumption DEF DirLink, DotLink, NewEntry
    <3>2. p = <<1, 1>> /\ EntryAt(fs, current_dir, <<1, 0>>).inode = current_dir
          /\ Above(current_dir, e.inode, D, path)
      BY <1>5, <3>1 DEF UpLink
    <3>3. <<p[1], p[2] - 1>> = <<1, 0>>
      BY <3>2
    <3>4. current_path' = IF current_dir = Root THEN current_path
                          ELSE SubSeq(current_path, 1, Len(current_path) - 1)
      <4>1. current_path' = IF EntryAt(fs, current_dir, <<p[1], p[2] - 1>>).inode = Root
                              THEN current_path
                              ELSE SubSeq(current_path, 1, Len(current_path) - 1)
        BY <1>4, <2>2
      <4> QED BY <3>2, <3>3, <4>1
    <3>5. CASE current_dir = Root
      BY <1>1, <3>2, <3>4, <3>5 DEF Above
    <3>6. CASE current_dir # Root
      <4>1. PICK x \in Names : path[current_dir] = Append(path[e.inode], x)
        BY <3>2, <3>6 DEF Above
      <4>2. path[e.inode] \in Seq(Names)
        BY <1>2, <1>7 DEF Ways
      <4>3. \A q \in Seq(Names) : SubSeq(Append(q, x), 1, Len(Append(q, x)) - 1) = q
        BY FrontOfAppend
      <4>4. SubSeq(path[current_dir], 1, Len(path[current_dir]) - 1) = path[e.inode]
        BY <4>1, <4>2, <4>3
      <4> QED BY <1>1, <3>4, <3>6, <4>4
    <3> QED BY <3>5, <3>6
  <2>3. CASE tmp \notin {".", ".."}
    <3>1. DirLink(e, current_dir, D, path)
      BY <1>5, <1>6, <1>8, <1>9, <2>3 DEF DotLink, UpLink, NewEntry
    <3>2. current_path' = Append(current_path, tmp)
      BY <1>4, <2>3
    <3> QED BY <1>1, <1>6, <3>1, <3>2 DEF DirLink
  <2> QED BY <2>1, <2>2, <2>3
<1>11. Good(fs', D, F, path, k)
  BY <1>1, <1>3
<1>12. WholeAt(fs', k, current_dir', current_path')
  BY <1>4, <1>5, <1>7, <1>10, <1>11 DEF WholeAt
<1> QED BY <1>3, <1>12 DEF Surviving, AtRest

\* write_file starts with the blocks the file has.
LEMMA WriteBeginSurvives ==
  ASSUME TypeOK, NEW k \in Nat, AtRest(k), NEW tmp, NEW text \in Texts, WriteBegin(tmp, text)
  PROVE  Surviving(k)'
<1>1. PICK D, F, path : /\ Good(fs, D, F, path, k)
                        /\ current_dir \in D /\ path[current_dir] = current_path
  BY DEF AtRest, WholeAt
<1>2. PICK p \in reserch_file(fs, current_dir, tmp, FILE) :
        LET n == EntryAt(fs, current_dir, p).inode IN
        call' = [inode |-> n,
                 i_block |-> Area(fs, n).i_block,
                 length |-> Length(text),
                 block |-> Area(fs, current_dir).i_block[p[1]]]
  BY DEF WriteBegin
<1>3. PICK n : n = EntryAt(fs, current_dir, p).inode
  OBVIOUS
<1>4. /\ call'.inode = n
      /\ call'.i_block = Area(fs, n).i_block
      /\ call'.length = Length(text)
  BY <1>2, <1>3
<1>5. mode' = "write" /\ UNCHANGED <<fs, current_dir, current_path>>
  BY DEF WriteBegin
<1>6. n \in F
  BY <1>1, <1>3, DelTarget
<1>7. Length(text) <= MaxSize
  <2>1. MaxSize \in Nat /\ text \in Nat
    BY SizesAssumption, ConstantFacts DEF MaxSize
  <2> QED BY <2>1 DEF Length
<1>8. Mid(fs, D, F, path, k, n, call'.i_block, need_blocks(call'.length))
  BY <1>1, <1>4, <1>6, MidBegin
<1>9. Mid(fs', D, F, path, k, call'.inode, call'.i_block, need_blocks(call'.length))
  BY <1>4, <1>5, <1>8
<1>10. Here(D, path)'
  BY <1>1, <1>5 DEF Here
<1>11. InCall(k)'
  BY <1>4, <1>7, <1>9, <1>10 DEF InCall
<1> QED BY <1>5, <1>11 DEF Surviving

\* What the call has.
LEMMA CallFacts ==
  ASSUME TypeOK, NEW k, InCall(k)
  PROVE  /\ call.inode \in Inodes /\ call.i_block \in Seq(Blocks) /\ call.length \in Nat
         /\ need_blocks(call.length) \in Nat /\ need_blocks(call.length) <= MaxBlocks
         /\ Len(call.i_block) \in Nat
<1>1. call.inode \in Inodes /\ call.i_block \in Seq(Blocks) /\ call.length \in Nat
  BY DEF TypeOK, Calls
<1>2. call.length <= MaxSize
  BY DEF InCall
<1> QED BY <1>1, <1>2, NeedBlocksFit

\* write_file takes a block.
LEMMA WriteGrowSurvives ==
  ASSUME TypeOK, NEW k \in Nat, InCall(k), WriteGrow, Followed'
  PROVE  Surviving(k)'
<1>1. /\ mode' = "write"
      /\ Len(call.i_block) < need_blocks(call.length)
      /\ fs' = alloc_block(fs)
      /\ call' = [call EXCEPT !.i_block = Append(@, next_block(fs))]
      /\ UNCHANGED <<current_dir, current_path>>
  BY DEF WriteGrow
<1>2. PICK D, F, path :
         /\ Mid(fs, D, F, path, k, call.inode, call.i_block, need_blocks(call.length))
         /\ Here(D, path)
  BY DEF InCall
<1>3. /\ call'.inode = call.inode /\ call'.length = call.length
      /\ call'.i_block = Append(call.i_block, next_block(fs))
  BY <1>1 DEF TypeOK, Calls
<1>4. PICK need : need = need_blocks(call.length)
  OBVIOUS
<1>5. need \in Nat /\ need <= MaxBlocks
  BY <1>4, CallFacts
<1>6. Mid(fs', D, F, path, k, call.inode, call'.i_block, need)
  BY <1>1, <1>2, <1>3, <1>4, <1>5, MidGrow DEF Followed, Calm
<1>7. Mid(fs', D, F, path, k, call'.inode, call'.i_block, need_blocks(call'.length))
  BY <1>3, <1>4, <1>6
<1>8. Here(D, path)'
  BY <1>1, <1>2 DEF Here
<1>9. InCall(k)'
  BY <1>3, <1>7, <1>8 DEF InCall
<1> QED BY <1>1, <1>9 DEF Surviving

\* write_file gives one back.
LEMMA WriteShrinkSurvives ==
  ASSUME TypeOK, NEW k \in Nat, InCall(k), WriteShrink
  PROVE  Surviving(k)'
<1>1. /\ mode' = "write"
      /\ Len(call.i_block) > need_blocks(call.length)
      /\ fs' = remove_block(fs, call.i_block[Len(call.i_block)])
      /\ call' = [call EXCEPT !.i_block = SubSeq(@, 1, Len(@) - 1)]
      /\ UNCHANGED <<current_dir, current_path>>
  BY DEF WriteShrink
<1>2. PICK D, F, path :
         /\ Mid(fs, D, F, path, k, call.inode, call.i_block, need_blocks(call.length))
         /\ Here(D, path)
  BY DEF InCall
<1>3. /\ call'.inode = call.inode /\ call'.length = call.length
      /\ call'.i_block = SubSeq(call.i_block, 1, Len(call.i_block) - 1)
  BY <1>1 DEF TypeOK, Calls
<1>4. PICK need : need = need_blocks(call.length)
  OBVIOUS
<1>5. need \in Nat /\ need <= MaxBlocks
  BY <1>4, CallFacts
<1>6. Mid(fs', D, F, path, k, call.inode, call'.i_block, need)
  BY <1>1, <1>2, <1>3, <1>4, <1>5, MidShrink
<1>7. Mid(fs', D, F, path, k, call'.inode, call'.i_block, need_blocks(call'.length))
  BY <1>3, <1>4, <1>6
<1>8. Here(D, path)'
  BY <1>1, <1>2 DEF Here
<1>9. InCall(k)'
  BY <1>3, <1>7, <1>8 DEF InCall
<1> QED BY <1>1, <1>9 DEF Surviving

\* The blocks are filled and the inode is written.
LEMMA WriteEndSurvives ==
  ASSUME TypeOK, NEW k \in Nat, InCall(k), WriteEnd, Followed'
  PROVE  Surviving(k)'
<1>1. PICK D, F, path :
         /\ Mid(fs, D, F, path, k, call.inode, call.i_block, need_blocks(call.length))
         /\ Here(D, path)
  BY DEF InCall
<1>2. PICK f : f = call.inode
  OBVIOUS
<1>3. PICK size : size = IF call.i_block = <<>> THEN Area(fs, f).i_size ELSE call.length
  OBVIOUS
<1>4. FinishWrite(size)
  BY <1>2, <1>3 DEF WriteEnd
<1>5. mode' = "prompt" /\ UNCHANGED <<current_dir, current_path>>
  BY <1>4 DEF FinishWrite
<1>6. fs \in FileSystems /\ f \in Inodes /\ call.i_block \in Seq(Blocks) /\ call.length \in Nat
  BY <1>2 DEF TypeOK, Calls
<1> DEFINE s1 == stamp(fs, fs.data[call.block], {0, 1})
           data2 == [b \in Blocks |-> IF b \in BlocksOf(call)
                                        THEN [j \in Slots |-> Text]
                                        ELSE s1.data[b]]
           s2 == [s1 EXCEPT !.data = data2]
           area == [Area(fs, f) EXCEPT !.i_size = size, !.i_block = call.i_block]
<1>7. fs' = update_inode_entry(s2, f, area)
  BY <1>2, <1>4 DEF FinishWrite
<1>8. area \in InodeRecords /\ area.i_block = call.i_block
  <2>1. Area(fs, f) \in InodeRecords /\ Area(fs, f).i_size \in Int
    BY <1>6, AreaType
  <2>2. size \in Int
    BY <1>3, <1>6, <2>1
  <2> QED BY <2>1, <2>2, <1>6 DEF InodeRecords
<1>9. s1 \in FileSystems
  BY <1>6, StampType
<1>10. Text \in Entries
  BY EntryConstructors
<1>11. /\ s2 \in FileSystems
       /\ s2.data = data2
       /\ s2.inode_table = s1.inode_table
       /\ s2.inode_bitmap = s1.inode_bitmap
       /\ s2.block_bitmap = s1.block_bitmap
       /\ s2.bg_free_blocks_count = s1.bg_free_blocks_count
       /\ s2.faults = s1.faults
  <2> HIDE DEF s1
  <2>1. data2 \in [Blocks -> [Slots -> Entries]]
    BY <1>9, <1>10 DEF FileSystems
  <2> HIDE DEF data2
  <2> QED BY <1>9, <2>1 DEF FileSystems
<1> HIDE DEF s1, s2, area
<1>12. /\ fs' \in FileSystems
       /\ Area(fs', f) = area
       /\ \A j \in Inodes \ {f} : Area(fs', j) = Area(s2, j)
       /\ (fs').inode_bitmap = s2.inode_bitmap
       /\ (fs').block_bitmap = s2.block_bitmap
       /\ (fs').bg_free_blocks_count = s2.bg_free_blocks_count
       /\ (fs').data = s2.data
       /\ (fs').faults = s2.faults
  BY <1>6, <1>7, <1>8, <1>11, UpdateInodeResult
<1>13. s1 = fs
  <2>1. Calm(s1)
    BY <1>11, <1>12 DEF Followed, Calm
  <2> QED BY <2>1, <1>6, StampCalm DEF s1
<1>14. Ends(fs, fs', f, call.i_block)
  <2>1. /\ \A j \in Inodes \ {f} : Area(fs', j) = Area(fs, j)
        /\ (fs').inode_bitmap = fs.inode_bitmap
        /\ (fs').block_bitmap = fs.block_bitmap
        /\ (fs').bg_free_blocks_count = fs.bg_free_blocks_count
        /\ \A b \in Blocks \ BlocksOf(call) : (fs').data[b] = fs.data[b]
    BY <1>11, <1>12, <1>13 DEF Area
  <2>2. BlocksOf(call) = {call.i_block[i] : i \in 1 .. Len(call.i_block)}
    BY DEF BlocksOf
  <2> HIDE DEF data2
  <2> QED BY <1>8, <1>12, <2>1, <2>2 DEF Ends
<1>15. Good(fs', D, F, path, k)
  BY <1>1, <1>2, <1>14, MidEnd
<1>16. WholeAt(fs', k, current_dir, current_path)
  BY <1>1, <1>15 DEF WholeAt, Here
<1> QED BY <1>5, <1>16 DEF Surviving, AtRest

-----------------------------------------------------------------------------
(* The program is started: on a new disk, on the old one, or on what a     *)
(* crash has left.                                                         *)
SameDisk(s, t) ==
    /\ s \in FileSystems /\ t \in FileSystems
    /\ t.inode_table = s.inode_table
    /\ t.inode_bitmap = s.inode_bitmap
    /\ t.block_bitmap = s.block_bitmap
    /\ t.bg_free_blocks_count = s.bg_free_blocks_count
    /\ t.data = s.data

\* A start on a disk with the fault f added.
LEMMA StartDisk ==
  ASSUME NEW s \in FileSystems, NEW f \in SUBSET Faults, initialize_memory(fault(s, f))
  PROVE  /\ SameDisk(s, fs')
         /\ current_dir' = Root /\ current_path' = <<>> /\ mode' = "prompt"
<1>1. PICK u : u = fault(s, f)
  OBVIOUS
<1>2. u \in FileSystems /\ SameDisk(s, u)
  BY <1>1, FaultType DEF fault, FileSystems, SameDisk
<1>3. /\ fs' = [u EXCEPT !.last_alloc_block = 0, !.last_alloc_inode = 1]
      /\ current_dir' = Root /\ current_path' = <<>> /\ mode' = "prompt"
  BY <1>1 DEF initialize_memory
<1>4. 0 \in Blocks /\ 1 \in Inodes
  BY ConstantFacts DEF Root
<1>5. /\ fs' \in FileSystems
      /\ (fs').inode_table = u.inode_table
      /\ (fs').inode_bitmap = u.inode_bitmap
      /\ (fs').block_bitmap = u.block_bitmap
      /\ (fs').bg_free_blocks_count = u.bg_free_blocks_count
      /\ (fs').data = u.data
  BY <1>2, <1>3, <1>4 DEF FileSystems
<1>6. SameDisk(s, fs')
  BY <1>2, <1>5 DEF SameDisk
<1> QED BY <1>3, <1>6

\* On a good disk the program is at rest in the root.
LEMMA StartSurvives ==
  ASSUME NEW s, NEW k \in Nat, Whole(s, k), SameDisk(s, fs'),
         current_dir' = Root, current_path' = <<>>, mode' = "prompt"
  PROVE  Surviving(k)'
<1>1. PICK D, F, path : Good(s, D, F, path, k)
  BY DEF Whole
<1>2. Root \in D /\ path[Root] = <<>>
  BY <1>1 DEF Good, Linked, Marked, Ways
<1>3. Aside(s, fs')
  BY DEF SameDisk, Aside, Area
<1>4. Extra(fs') \in 0 .. k
  BY <1>1 DEF SameDisk, Extra, Good, Sound
<1>5. Good(fs', D, F, path, k)
  BY <1>1, <1>3, <1>4, GoodAside
<1>6. WholeAt(fs', k, current_dir', current_path')
  BY <1>2, <1>5 DEF WholeAt
<1> QED BY <1>6 DEF Surviving, AtRest

\* quit, or a command that is killed because it does not return.
LEMMA RestartSurvives ==
  ASSUME TypeOK, NEW k \in Nat, AtRest(k), Restart \/ KillHung
  PROVE  Surviving(k)'
<1>1. Whole(fs, k)
  BY DEF AtRest, WholeAt, Whole
<1>2. fs \in FileSystems
  BY DEF TypeOK
<1>3. fault(fs, {}) = fs
  BY <1>2 DEF fault, FileSystems
<1>4. \E f \in SUBSET Faults : initialize_memory(fault(fs, f))
  BY <1>3 DEF Restart, KillHung, Faults
<1>5. PICK f \in SUBSET Faults : initialize_memory(fault(fs, f))
  BY <1>4
<1> QED BY <1>1, <1>2, <1>5, StartDisk, StartSurvives

\* A new disk has a tree of one directory.
LEMMA RootGood ==
  ASSUME NEW s, OnlyRoot(s), NEW k \in Nat
  PROVE  Whole(s, k)
<1> DEFINE path == [d \in {Root} |-> <<>>]
<1>1. /\ s \in FileSystems /\ Used(s, Root) = Dots
      /\ Shape(s, {Root}, {}, [d \in {Root} |-> Root], path)
      /\ Stored(s, {Root}, {}, Lists(s), TRUE)
  BY DEF OnlyRoot
<1>2. /\ Marked(s, {Root}, {}) /\ Distinct(s, {Root})
      /\ EntryAt(s, Root, <<1, 0>>) = NewEntry(Root, DIR, ".")
      /\ EntryAt(s, Root, <<1, 1>>) = NewEntry(Root, DIR, "..")
  BY <1>1 DEF Shape, Dotted
<1>3. Ways(s, {Root}, path)
  BY <1>1 DEF Shape, Pathed, Ways
<1>4. Leads(s, {Root}, {}, path)
  <2>1. DotLink(EntryAt(s, Root, <<1, 0>>), Root)
    BY <1>2 DEF DotLink
  <2>2. UpLink(s, Root, <<1, 1>>, {Root}, path)
    BY <1>1, <1>2 DEF UpLink, Above, NewEntry, Dots
  <2> QED BY <1>1, <2>1, <2>2 DEF Leads, Dots
<1>5. NamesIn(s, Root) = {}
  BY <1>1, <1>2 DEF NamesIn, Proper, Directs, NewEntry, Dots, FILE, DIR
<1>6. HasNames(s, {Root}, {}) /\ OneNames(s, {Root})
  BY <1>5 DEF HasNames, OneNames
<1>7. Linked(s, {Root}, {}, path)
  BY <1>2, <1>3, <1>4, <1>6 DEF Linked
<1>8. Blank(s)
  BY <1>2 DEF Blank, OnlyRoot, Marked
<1>9. Near(s, Root, k)
  <2>1. Cardinality(Used(s, Root)) = Area(s, Root).i_size
    BY <1>1 DEF Stored, DirSized
  <2>2. Area(s, Root).i_block # <<>>
    <3>1. <<1, 0>> \in Positions(s, Root)
      BY <1>1, DotsTwo DEF Used
    <3>2. 1 \in 1 .. Len(Area(s, Root).i_block)
      BY <3>1 DEF Positions
    <3>3. Len(<<>>) = 0
      OBVIOUS
    <3> QED BY <3>2, <3>3
  <2>3. Area(s, Root).i_size \in Int
    BY <1>1, AreaType, ConstantFacts
  <2> QED BY <2>1, <2>2, <2>3 DEF Near
<1>10. Held(s, {Root} \cup {}, Lists(s)) /\ Extra(s) = 0
  <2>1. Owned(s.block_bitmap, s.bg_free_blocks_count, {Root} \cup {}, Lists(s))
    BY <1>1 DEF Stored
  <2>2. s.bg_free_blocks_count = BlockCount - Cardinality(s.block_bitmap)
        /\ s.bg_free_blocks_count \in Nat
    BY <1>1, <2>1 DEF Owned, FileSystems
  <2> QED BY <2>1, <2>2 DEF Held, Extra
<1>11. \A d \in {Root} : Lists(s)[d] = Area(s, d).i_block
  BY ConstantFacts DEF Lists
<1>12. Sound(s, {Root}, {}, Lists(s), k)
  BY <1>8, <1>9, <1>10, <1>11 DEF Sound
<1> QED BY <1>1, <1>7, <1>12 DEF Good, Whole

\* format.
LEMMA FormatSurvives ==
  ASSUME NEW k \in Nat, format
  PROVE  Surviving(k)'
<1>1. PICK s : s = initialize_disk
  OBVIOUS
<1>2. OnlyRoot(s) /\ s \in FileSystems
  BY <1>1, FormattedDisk DEF OnlyRoot
<1>3. fault(s, {}) = s
  BY <1>2 DEF fault, FileSystems
<1>4. initialize_memory(fault(s, {}))
  BY <1>1, <1>3 DEF format
<1> QED BY <1>2, <1>4, RootGood, StartDisk, StartSurvives

\* The first disk.
LEMMA InitSurvives ==
  ASSUME Init, NEW k \in Nat
  PROVE  Surviving(k)
<1>1. OnlyRoot(fs) /\ current_dir = Root /\ current_path = <<>> /\ mode = "prompt"
  BY FormattedDisk DEF Init
<1>2. PICK D, F, path : Good(fs, D, F, path, k)
  BY <1>1, RootGood DEF Whole
<1>3. Root \in D /\ path[Root] = <<>>
  BY <1>2 DEF Good, Linked, Marked, Ways
<1> QED BY <1>1, <1>2, <1>3 DEF Surviving, AtRest, WholeAt

-----------------------------------------------------------------------------
(* The inductive invariant: outside a tear the disk is good up to the      *)
(* margin of the crashes so far, and after one it is a linked tree in      *)
(* which one inode has lost blocks.                                        *)
CrashOrdered ==
    /\ Followed /\ ~torn => Surviving(crashes)
    /\ torn => mode = "prompt" /\ OneTorn(fs)

\* A crash that leaves one of the disks.
LEMMA DieAtSurvives ==
  ASSUME CrashTypeOK, NEW disks, \A d \in disks : Calm(d) => Left(d, crashes + 1),
         DieAt(disks)
  PROVE  CrashOrdered'
<1>1. PICK k : k = crashes + 1
  OBVIOUS
<1>2. k \in Nat /\ crashes' = k
  BY <1>1, MaxCrashesAssumption DEF CrashTypeOK, DieAt
<1>3. PICK d \in disks : /\ Calm(d)
                         /\ initialize_memory(fault(d, {"killed"}))
                         /\ torn' = (TornInodes(d) # {})
  BY DEF DieAt, Calm
<1>4. Left(d, k)
  BY <1>1, <1>3
<1>5. d \in FileSystems
  BY <1>4 DEF Left, Whole, Good, OneTorn, OnlyTorn
<1>6. {"killed"} \in SUBSET Faults
  BY DEF Faults
<1>7. /\ SameDisk(d, fs')
      /\ current_dir' = Root /\ current_path' = <<>> /\ mode' = "prompt"
  BY <1>3, <1>5, <1>6, StartDisk
<1>8. CASE Whole(d, k)
  <2>1. ~torn'
    BY <1>3, <1>8, WholeNotTorn
  <2>2. Surviving(k)'
    BY <1>2, <1>7, <1>8, StartSurvives
  <2>3. Surviving(crashes)'
    BY <1>2, <2>2 DEF Surviving, AtRest, InCall
  <2> QED BY <2>1, <2>3 DEF CrashOrdered
<1>9. CASE OneTorn(d)
  <2>1. torn'
    <3>1. Cardinality(TornInodes(d)) = 1
      BY <1>9, OneIsTorn
    <3>2. TornInodes(d) # {}
      BY <3>1, FS_EmptySet
    <3> QED BY <1>3, <3>2
  <2>2. OneTorn(fs')
    BY <1>7, <1>9, LeftAgain DEF SameDisk
  <2> QED BY <1>7, <2>1, <2>2 DEF CrashOrdered
<1> QED BY <1>4, <1>8, <1>9 DEF Left

\* One more crash allows more.
LEMMA LeftLater ==
  ASSUME NEW s, NEW k \in Nat, Left(s, k)
  PROVE  Left(s, k + 1)
<1>1. CASE Whole(s, k)
  <2>1. PICK D, F, path : Good(s, D, F, path, k)
    BY <1>1 DEF Whole
  <2>2. Good(s, D, F, path, k + 1)
    BY <2>1, GoodLater
  <2> QED BY <2>2 DEF Whole, Left
<1> QED BY <1>1 DEF Left

\* The cuts of del have the faults of the disk del found.
LEMMA DelCutsFaults ==
  ASSUME NEW s \in FileSystems, NEW n \in Inodes, NEW p \in Positions(s, n),
         EntryAt(s, n, p).inode # 0, NEW t \in DelCuts(s, n, p)
  PROVE  t.faults = s.faults
<1> DEFINE area == Area(s, EntryAt(s, n, p).inode)
           short(k) == [area EXCEPT !.i_block = SubSeq(@, 1, k)]
           gone == remove_blocks(s, area)
           cleared == ClearSlot(gone, n, p)
<1>1. area \in InodeRecords /\ area.i_block \in Seq(Blocks)
  BY EntryAtType, AreaType, SizesAssumption DEF Inodes
<1>2. gone \in FileSystems /\ gone.faults = s.faults /\ gone.inode_table = s.inode_table
  BY <1>1, RemoveBlocksType DEF remove_blocks, FileSystems
<1>3. p \in Positions(gone, n)
  BY <1>2, PositionsKept
<1> HIDE DEF gone, area
<1>4. cleared \in FileSystems /\ cleared.faults = s.faults
  BY <1>2, <1>3, ClearSlotType DEF ClearSlot, update_dir, FileSystems
<1>5. ASSUME NEW u \in FileSystems, NEW b, NEW v \in RemoveCuts(u, b)
      PROVE  v.faults = u.faults
  BY <1>5 DEF RemoveCuts, remove_block, FileSystems
<1> HIDE DEF cleared
<1>6. CASE t \in SweepCuts(cleared, n)
  BY <1>4, <1>5, <1>6 DEF SweepCuts
<1>7. ASSUME NEW k \in 1 .. Len(area.i_block),
             t \in RemoveCuts(remove_blocks(s, short(k - 1)), area.i_block[k])
      PROVE  t.faults = s.faults
  <2>1. short(k - 1).i_block = SubSeq(area.i_block, 1, k - 1)
    BY <1>1 DEF InodeRecords
  <2>2. SubSeq(area.i_block, 1, k - 1) \in Seq(Blocks)
    BY <1>1
  <2> HIDE DEF short
  <2>3. PICK a : a = short(k - 1)
    OBVIOUS
  <2>4. a.i_block \in Seq(Blocks)
    BY <2>1, <2>2, <2>3
  <2>5. PICK u : u = remove_blocks(s, a)
    OBVIOUS
  <2>6. u \in FileSystems
    BY <2>4, <2>5, RemoveBlocksType
  <2>7. u.faults = s.faults
    BY <2>5 DEF remove_blocks, FileSystems
  <2> QED BY <1>5, <1>7, <2>3, <2>5, <2>6, <2>7
<1>8. DelCuts(s, n, p)
         = (UNION {RemoveCuts(remove_blocks(s, short(k - 1)), area.i_block[k]) :
                      k \in 1 .. Len(area.i_block)})
              \cup {cleared} \cup SweepCuts(cleared, n)
  BY DEF DelCuts, area, gone, cleared
<1> HIDE DEF short
<1> QED BY <1>4, <1>6, <1>7, <1>8

\* A crash in mkdir or cat.
LEMMA CrashAddingSurvives ==
  ASSUME CrashTypeOK, CrashOrdered, NEW tmp \in Arguments, NEW type \in {FILE, DIR},
         Nameable(type, tmp), CrashAdding(tmp, type)
  PROVE  CrashOrdered'
<1>1. PICK k : k = crashes
  OBVIOUS
<1>2. k \in Nat
  BY <1>1, MaxCrashesAssumption DEF CrashTypeOK
<1>3. AtRest(k)
  BY <1>1 DEF CrashOrdered, CrashAdding, DieAt, Prompt, Surviving
<1>4. PICK D, F, path : Good(fs, D, F, path, k) /\ current_dir \in D
  BY <1>3 DEF AtRest, WholeAt
<1>5. NotThere(fs, current_dir, type, tmp)
  BY SearchFailed DEF CrashAdding, NotThere
<1>6. ASSUME NEW d \in AddCuts(fs, current_dir, tmp, type), Calm(d)
      PROVE  Left(d, k + 1)
  BY <1>2, <1>4, <1>5, <1>6, AddCutsWhole DEF CrashAdding, Left
<1>7. DieAt(AddCuts(fs, current_dir, tmp, type))
  BY DEF CrashAdding
<1> QED BY <1>1, <1>6, <1>7, DieAtSurvives

\* A crash in rmdir.
LEMMA CrashInRmdirSurvives ==
  ASSUME CrashTypeOK, CrashOrdered, NEW tmp \in Names, CrashInRmdir(tmp)
  PROVE  CrashOrdered'
<1>1. PICK k : k = crashes
  OBVIOUS
<1>2. k \in Nat
  BY <1>1, MaxCrashesAssumption DEF CrashTypeOK
<1>3. AtRest(k)
  BY <1>1 DEF CrashOrdered, CrashInRmdir, DieAt, Prompt, Surviving
<1>4. PICK D, F, path : Good(fs, D, F, path, k) /\ current_dir \in D
  BY <1>3 DEF AtRest, WholeAt
<1>5. PICK p \in reserch_file(fs, current_dir, tmp, DIR) :
         /\ Area(fs, EntryAt(fs, current_dir, p).inode).i_size = 2
         /\ DieAt(RmdirCuts(fs, current_dir, p))
  BY DEF CrashInRmdir
<1>6. ASSUME NEW d \in RmdirCuts(fs, current_dir, p)
      PROVE  Left(d, k + 1)
  <2>1. Left(d, k)
    BY <1>2, <1>4, <1>5, RmdirCutsLeft
  <2> QED BY <1>2, <2>1, LeftLater
<1> QED BY <1>1, <1>5, <1>6, DieAtSurvives

\* A crash in del.
LEMMA CrashInDelSurvives ==
  ASSUME CrashTypeOK, CrashOrdered, NEW tmp, CrashInDel(tmp)
  PROVE  CrashOrdered'
<1>0. fs \in FileSystems /\ current_dir \in Inodes
  BY DEF CrashTypeOK, TypeOK
<1>1. PICK k : k = crashes
  OBVIOUS
<1>2. k \in Nat
  BY <1>1, MaxCrashesAssumption DEF CrashTypeOK
<1>3. AtRest(k)
  BY <1>1 DEF CrashOrdered, CrashInDel, DieAt, Prompt, Surviving
<1>4. PICK D, F, path : Good(fs, D, F, path, k) /\ current_dir \in D
  BY <1>3 DEF AtRest, WholeAt
<1>5. PICK p \in reserch_file(fs, current_dir, tmp, FILE) :
         DieAt(DelCuts(stamp(fs, BlockAt(fs, current_dir, p[1]), {0, 1}), current_dir, p))
  BY DEF CrashInDel
<1>6. PICK s : s = stamp(fs, BlockAt(fs, current_dir, p[1]), {0, 1})
  OBVIOUS
<1>7. /\ s \in FileSystems /\ s.inode_table = fs.inode_table /\ s.data = fs.data
  BY <1>0, <1>6, StampType DEF stamp, fault, FileSystems
<1>8. p \in Positions(fs, current_dir) /\ EntryAt(fs, current_dir, p).inode # 0
  BY <1>0, FoundType, SizesAssumption DEF Inodes
<1>9. p \in Positions(s, current_dir) /\ EntryAt(s, current_dir, p).inode # 0
  BY <1>0, <1>7, <1>8, PositionsKept DEF EntryAt, BlockAt, Area
<1>10. ASSUME NEW d \in DelCuts(s, current_dir, p), Calm(d)
       PROVE  Left(d, k + 1)
  <2>1. d.faults = s.faults
    BY <1>0, <1>7, <1>9, DelCutsFaults
  <2>2. s = fs
    BY <1>0, <1>6, <1>10, <2>1, StampCalm DEF Calm
  <2>3. Left(d, k)
    BY <1>2, <1>4, <1>5, <2>2, DelCutsLeft
  <2> QED BY <1>2, <2>3, LeftLater
<1>11. DieAt(DelCuts(s, current_dir, p))
  BY <1>5, <1>6
<1> QED BY <1>1, <1>10, <1>11, DieAtSurvives

\* A crash in write_file.
LEMMA CrashInWriteSurvives ==
  ASSUME CrashTypeOK, CrashOrdered, CrashInWrite
  PROVE  CrashOrdered'
<1>1. PICK k : k = crashes
  OBVIOUS
<1>2. k \in Nat /\ TypeOK
  BY <1>1, MaxCrashesAssumption DEF CrashTypeOK
<1>3. InCall(k)
  BY <1>1 DEF CrashOrdered, CrashInWrite, DieAt, Surviving
<1>4. PICK need : need = need_blocks(call.length)
  OBVIOUS
<1>5. need \in Nat
  BY <1>2, <1>3, <1>4, CallFacts
<1>6. PICK D, F, path : Mid(fs, D, F, path, k, call.inode, call.i_block, need)
  BY <1>3, <1>4 DEF InCall
<1>7. WriteCuts(fs) = CallCuts(fs, call.i_block, need)
  BY <1>4 DEF WriteCuts, CallCuts
<1>8. ASSUME NEW d \in CallCuts(fs, call.i_block, need), Calm(d)
      PROVE  Left(d, k + 1)
  BY <1>2, <1>5, <1>6, <1>8, CallCutsLeft
<1>9. DieAt(CallCuts(fs, call.i_block, need))
  BY <1>7 DEF CrashInWrite
<1> QED BY <1>1, <1>8, <1>9, DieAtSurvives

\* A step of the program.
LEMMA NextSurvives ==
  ASSUME TypeOK, NEW k \in Nat, Next, Followed', Followed => Surviving(k)
  PROVE  Surviving(k)'
<1>1. CASE format
  BY <1>1, FormatSurvives
<1>2. CASE ~format
  <2>1. Followed
    BY <1>2, StillFollowed
  <2>2. Surviving(k)
    BY <2>1
  <2>3. Prompt => AtRest(k)
    BY <2>2 DEF Prompt, Surviving
  <2>4. mode = "write" => InCall(k)
    BY <2>2 DEF Surviving
  <2>5. ASSUME NEW tmp \in Arguments, cd(tmp)
        PROVE  Surviving(k)'
    BY <2>3, <2>5, CdSurvives DEF cd
  <2>6. ASSUME NEW tmp, NEW attr, attrib(tmp, attr)
        PROVE  Surviving(k)'
    BY <2>3, <2>6, AttribSurvives DEF attrib
  <2>7. ASSUME NEW tmp \in Names, mkdir(tmp)
        PROVE  Surviving(k)'
    <3> DEFINE last == Len(Area(fs, current_dir).i_block)
    <3>1. PICK to : to = [i \in 1 .. last |-> last]
      OBVIOUS
    <3>2. Add(tmp, DIR, to)
      BY <2>7, <3>1 DEF mkdir
    <3>3. \A p \in Positions(fs, current_dir) : to[p[1]] \in 1 .. last
      <4>1. fs \in FileSystems /\ current_dir \in Inodes
        BY DEF TypeOK
      <4>2. last \in Nat
        BY <4>1, AreaType
      <4> QED BY <3>1, <4>1, <4>2, EntryAtType
    <3>4. tmp \in Arguments /\ Nameable(DIR, tmp)
      BY DEF Arguments, Nameable, FILE, DIR
    <3>5. AtRest(k)
      BY <2>3, <3>2 DEF Add
    <3> QED BY <3>2, <3>3, <3>4, <3>5, AddSurvives
  <2>8. ASSUME NEW tmp \in FileNames, cat(tmp)
        PROVE  Surviving(k)'
    <3> DEFINE last == Len(Area(fs, current_dir).i_block)
    <3>1. PICK to : to = [i \in 1 .. last |-> i]
      OBVIOUS
    <3>2. Add(tmp, FILE, to)
      BY <2>8, <3>1 DEF cat
    <3>3. \A p \in Positions(fs, current_dir) : to[p[1]] \in 1 .. last
      BY <3>1 DEF Positions
    <3>4. tmp \in Arguments /\ Nameable(FILE, tmp)
      BY SizesAssumption DEF Arguments, Nameable, FILE, DIR
    <3>5. AtRest(k)
      BY <2>3, <3>2 DEF Add
    <3> QED BY <3>2, <3>3, <3>4, <3>5, AddSurvives
  <2>9. ASSUME NEW tmp \in Names, rmdir(tmp)
        PROVE  Surviving(k)'
    BY <2>3, <2>9, RmdirSurvives DEF rmdir
  <2>10. ASSUME NEW tmp, del(tmp)
         PROVE  Surviving(k)'
    BY <2>3, <2>10, DelSurvives DEF del
  <2>11. ASSUME NEW tmp, open_file(tmp) \/ close_file(tmp)
         PROVE  Surviving(k)'
    BY <2>3, <2>11, OpenSurvives DEF open_file, close_file
  <2>12. ASSUME NEW tmp, NEW text \in Texts, WriteBegin(tmp, text)
         PROVE  Surviving(k)'
    BY <2>3, <2>12, WriteBeginSurvives DEF WriteBegin
  <2>13. CASE WriteGrow
    BY <2>4, <2>13, WriteGrowSurvives DEF WriteGrow
  <2>14. CASE WriteShrink
    BY <2>4, <2>14, WriteShrinkSurvives DEF WriteShrink
  <2>15. CASE WriteEnd
    BY <2>4, <2>15, WriteEndSurvives DEF WriteEnd, FinishWrite
  <2>16. CASE Restart \/ KillHung
    BY <2>2, <2>16, RestartSurvives DEF Restart, KillHung, Prompt, Surviving
  <2> QED BY <1>2, <2>5, <2>6, <2>7, <2>8, <2>9, <2>10, <2>11, <2>12, <2>13, <2>14, <2>15,
             <2>16 DEF Next
<1> QED BY <1>1, <1>2

\* Every step keeps the invariant.
LEMMA CrashNextSurvives ==
  ASSUME CrashTypeOK, CrashOrdered, [CrashNext]_crashVars
  PROVE  CrashOrdered'
<1>1. TypeOK /\ crashes \in Nat
  BY MaxCrashesAssumption DEF CrashTypeOK
<1>2. CASE ~torn /\ Next /\ UNCHANGED <<crashes, torn>>
  <2>1. PICK k : k = crashes
    OBVIOUS
  <2>2. Followed' => Surviving(k)'
    BY <1>1, <1>2, <2>1, NextSurvives DEF CrashOrdered
  <2>3. Surviving(k)' <=> Surviving(crashes)'
    BY <1>2, <2>1 DEF Surviving, AtRest, InCall
  <2> QED BY <1>2, <2>2, <2>3 DEF CrashOrdered
<1>3. CASE format /\ torn' = FALSE /\ UNCHANGED crashes
  <2>1. PICK k : k = crashes
    OBVIOUS
  <2>2. Surviving(k)'
    BY <1>1, <1>3, <2>1, FormatSurvives
  <2>3. Surviving(crashes)'
    BY <1>3, <2>1, <2>2 DEF Surviving, AtRest, InCall
  <2> QED BY <1>3, <2>3 DEF CrashOrdered
<1>4. ASSUME NEW tmp \in Names, CrashAdding(tmp, DIR)
      PROVE  CrashOrdered'
  BY <1>4, CrashAddingSurvives DEF Nameable, Arguments, FILE, DIR
<1>5. ASSUME NEW tmp \in FileNames, CrashAdding(tmp, FILE)
      PROVE  CrashOrdered'
  BY <1>5, CrashAddingSurvives, SizesAssumption DEF Nameable, Arguments, FILE, DIR
<1>6. ASSUME NEW tmp \in Names, CrashInRmdir(tmp)
      PROVE  CrashOrdered'
  BY <1>6, CrashInRmdirSurvives
<1>7. ASSUME NEW tmp \in FileNames, CrashInDel(tmp)
      PROVE  CrashOrdered'
  BY <1>7, CrashInDelSurvives
<1>8. CASE CrashInWrite
  BY <1>8, CrashInWriteSurvives
<1>9. CASE UNCHANGED crashVars
  BY <1>9 DEF crashVars, vars, CrashOrdered, Followed, Surviving, AtRest, InCall, Here
<1> QED BY <1>2, <1>3, <1>4, <1>5, <1>6, <1>7, <1>8, <1>9 DEF CrashNext

(* After any number of crashes, in any cut of any command, the disk is     *)
(* good up to the margin, or one inode is torn.                            *)
THEOREM CrashOrderKept == CrashSpec => []CrashOrdered
<1>1. CrashInit => CrashOrdered
  BY InitSurvives DEF CrashInit, CrashOrdered
<1>2. CrashTypeOK /\ CrashOrdered /\ [CrashNext]_crashVars => CrashOrdered'
  BY CrashNextSurvives
<1>3. CrashSpec => []CrashTypeOK
  BY CrashTypeCorrect
<1> QED BY <1>1, <1>2, <1>3, PTL DEF CrashSpec

-----------------------------------------------------------------------------
(* What the runs check of a disk that crashes have left.                   *)

\* The invariant in either mode, with the lists of BlockList.
LEMMA CrashSound ==
  ASSUME CrashTypeOK, CrashOrdered, Followed, ~torn
  PROVE  \E D \in SUBSET Inodes, F \in SUBSET Inodes : \E path :
             Linked(fs, D, F, path) /\ Sound(fs, D, F, BlockLists, crashes)
<1>1. Surviving(crashes)
  BY DEF CrashOrdered
<1>2. CASE mode = "write"
  <2>1. InCall(crashes)
    BY <1>1, <1>2 DEF Surviving
  <2>2. PICK D, F, path :
            Mid(fs, D, F, path, crashes, call.inode, call.i_block, need_blocks(call.length))
    BY <2>1 DEF InCall
  <2>3. BlockLists = With(fs, call.inode, call.i_block)
    BY <1>2 DEF BlockLists, BlockList, With
  <2>4. D \in SUBSET Inodes /\ F \in SUBSET Inodes
    BY <2>2 DEF Mid
  <2>5. Linked(fs, D, F, path) /\ Sound(fs, D, F, BlockLists, crashes)
    BY <2>2, <2>3 DEF Mid
  <2> QED BY <2>4, <2>5
<1>3. CASE mode # "write"
  <2>1. PICK D, F, path : Good(fs, D, F, path, crashes)
    BY <1>1, <1>3 DEF Surviving, AtRest, WholeAt
  <2>2. BlockLists = Lists(fs)
    BY <1>3 DEF BlockLists, BlockList, Lists
  <2>3. D \in SUBSET Inodes /\ F \in SUBSET Inodes
    BY <2>1, GoodFacts
  <2>4. Linked(fs, D, F, path) /\ Sound(fs, D, F, BlockLists, crashes)
    BY <2>1, <2>2 DEF Good
  <2> QED BY <2>3, <2>4
<1> QED BY <1>2, <1>3

\* The blocks of the tree have one owner each and are marked.
LEMMA OwnershipSurvivesHolds == CrashTypeOK /\ CrashOrdered => OwnershipSurvives
<1> DEFINE owners == UNION {{<<n, i>> : i \in 1 .. Len(BlockList(n))} : n \in Live(fs)}
           owned == {BlockList(o[1])[o[2]] : o \in owners}
<1> SUFFICES ASSUME CrashTypeOK, CrashOrdered, Followed, ~torn
             PROVE  /\ Cardinality(owned) = Cardinality(owners)
                    /\ owned \subseteq fs.block_bitmap
                    /\ fs.bg_free_blocks_count - (BlockCount - Cardinality(fs.block_bitmap))
                           \in 0 .. crashes
  BY DEF OwnershipSurvives
<1>1. PICK D \in SUBSET Inodes, F \in SUBSET Inodes : \E path :
          Linked(fs, D, F, path) /\ Sound(fs, D, F, BlockLists, crashes)
  BY CrashSound
<1>2. PICK path : Linked(fs, D, F, path) /\ Sound(fs, D, F, BlockLists, crashes)
  BY <1>1
<1>3. PICK N : N = D \cup F
  OBVIOUS
<1>4. fs \in FileSystems
  BY DEF CrashTypeOK, TypeOK
<1>5. Live(fs) = N /\ N \subseteq Inodes
  BY <1>1, <1>2, <1>3, <1>4, LinkedLive
<1>6. Owned(fs.block_bitmap, BlockCount - Cardinality(fs.block_bitmap), N, BlockLists)
  BY <1>2, <1>3 DEF Sound, Held
<1>7. fs.bg_free_blocks_count - (BlockCount - Cardinality(fs.block_bitmap)) \in 0 .. crashes
  BY <1>2 DEF Sound, Extra
<1>8. \A n \in N : BlockLists[n] = BlockList(n)
  BY <1>5 DEF BlockLists
<1> DEFINE l == [n \in N |-> BlockList(n)]
<1>9. /\ \A n \in N : l[n] \in Seq(Blocks) /\ Len(l[n]) <= MaxBlocks
      /\ \A n \in N : \A i \in 1 .. Len(l[n]) : l[n][i] \in fs.block_bitmap
      /\ \A n, m \in N : \A i \in 1 .. Len(l[n]), j \in 1 .. Len(l[m]) :
            l[n][i] = l[m][j] => n = m /\ i = j
  <2>1. \A n \in N : l[n] = BlockLists[n]
    BY <1>8
  <2> HIDE DEF l
  <2> QED BY <2>1, <1>6 DEF Owned
<1>10. /\ \A n \in N, i \in Nat : i \in 1 .. Len(l[n]) => <<n, i>> \in owners
       /\ \A o \in owners : \E n \in N : \E i \in 1 .. Len(l[n]) : o = <<n, i>>
  <2>1. \A n \in N : l[n] = BlockList(n)
    OBVIOUS
  <2> HIDE DEF l
  <2> QED BY <2>1, <1>5
<1> DEFINE f == [o \in owners |-> l[o[1]][o[2]]]
<1>11. /\ f \in [owners -> owned]
       /\ \A z \in owned : \E o \in owners : f[o] = z
  <2>1. \A o \in owners : o[1] \in N
    BY <1>10
  <2>2. \A o \in owners : l[o[1]][o[2]] = BlockList(o[1])[o[2]]
    BY <2>1
  <2> HIDE DEF l, owners
  <2> QED BY <2>2
<1> HIDE DEF l, owners, owned
<1>12. \A x, y \in owners : f[x] = f[y] => x = y
  <2>1. ASSUME NEW x \in owners, NEW y \in owners, f[x] = f[y]
        PROVE  x = y
    <3>1. PICK n \in N : \E i \in 1 .. Len(l[n]) : x = <<n, i>>
      BY <1>10
    <3>2. PICK i \in 1 .. Len(l[n]) : x = <<n, i>>
      BY <3>1
    <3>3. PICK m \in N : \E j \in 1 .. Len(l[m]) : y = <<m, j>>
      BY <1>10
    <3>4. PICK j \in 1 .. Len(l[m]) : y = <<m, j>>
      BY <3>3
    <3>5. l[n][i] = l[m][j]
      BY <2>1, <3>2, <3>4
    <3> QED BY <3>2, <3>4, <3>5, <1>9
  <2> QED BY <2>1
<1>13. IsFiniteSet(owners)
  <2>1. IsFiniteSet(Inodes) /\ IsFiniteSet(1 .. MaxBlocks)
    BY SizesAssumption, ConstantFacts, FS_Interval DEF Inodes
  <2>2. IsFiniteSet(Inodes \X (1 .. MaxBlocks))
    BY <2>1, FS_Product
  <2>3. ASSUME NEW o \in owners
        PROVE  o \in Inodes \X (1 .. MaxBlocks)
    <3>1. PICK n \in N : \E i \in 1 .. Len(l[n]) : o = <<n, i>>
      BY <1>10
    <3>2. PICK i \in 1 .. Len(l[n]) : o = <<n, i>>
      BY <3>1
    <3>3. Len(l[n]) \in Nat /\ Len(l[n]) <= MaxBlocks /\ MaxBlocks \in Nat
      BY <1>9, ConstantFacts
    <3>4. i \in 1 .. MaxBlocks
      BY <3>3
    <3> QED BY <3>2, <3>4, <1>5
  <2> QED BY <2>2, <2>3, FS_Subset
<1>14. Cardinality(owned) = Cardinality(owners)
  <2> HIDE DEF f
  <2> QED BY <1>11, <1>12, <1>13, ImageCardinality
<1>15. ASSUME NEW z \in owned
       PROVE  z \in fs.block_bitmap
  <2>1. PICK o \in owners : f[o] = z
    BY <1>11
  <2>2. PICK n \in N : \E i \in 1 .. Len(l[n]) : o = <<n, i>>
    BY <1>10
  <2> QED BY <2>1, <2>2, <1>9
<1> QED BY <1>7, <1>14, <1>15

(* However often the program dies, no block of the tree gets a second      *)
(* owner or goes unmarked, and the free count is never too low and too     *)
(* high by no more than the number of crashes, as long as no crash tore an *)
(* inode.                                                                  *)
THEOREM OwnershipOutlivesCrashes == CrashSpec => []OwnershipSurvives
BY OwnershipSurvivesHolds, CrashTypeCorrect, CrashOrderKept, PTL

\* The sizes of the directories keep their margin.
LEMMA SizesSurviveHolds == CrashTypeOK /\ CrashOrdered => SizesSurvive
<1> SUFFICES ASSUME CrashTypeOK, CrashOrdered, Followed, ~torn, NEW n \in LiveDirs(fs)
             PROVE  CountEntries(fs, n) <= Area(fs, n).i_size + crashes
  BY DEF SizesSurvive
<1>1. PICK D \in SUBSET Inodes, F \in SUBSET Inodes : \E path :
          Linked(fs, D, F, path) /\ Sound(fs, D, F, BlockLists, crashes)
  BY CrashSound
<1>2. PICK path : Linked(fs, D, F, path) /\ Sound(fs, D, F, BlockLists, crashes)
  BY <1>1
<1>3. fs \in FileSystems
  BY DEF CrashTypeOK, TypeOK
<1>4. n \in D
  BY <1>2, <1>3, LinkedReaches
<1>5. Near(fs, n, crashes)
  BY <1>2, <1>4 DEF Sound
<1>6. CountEntries(fs, n) = Cardinality(Used(fs, n))
  BY DEF CountEntries, Used
<1> QED BY <1>5, <1>6 DEF Near

(* However often the program dies, a directory has at most one entry more  *)
(* for each crash than its size says.                                      *)
THEOREM SizesOutliveCrashes == CrashSpec => []SizesSurvive
BY SizesSurviveHolds, CrashTypeCorrect, CrashOrderKept, PTL

(* A crash that tears tears one inode: the file that del or write_file was *)
(* shortening, the directory that rmdir was removing, or the directory     *)
(* that lost its second block.                                             *)
THEOREM TearsAreOneInode == CrashSpec => []TearIsOneInode
<1>1. CrashOrdered => TearIsOneInode
  BY OneIsTorn DEF CrashOrdered, TearIsOneInode
<1> QED BY <1>1, CrashOrderKept, PTL

\* Torn or not, the tree is linked.
LEMMA MarkedSurvivesHolds == CrashTypeOK /\ CrashOrdered => LiveInodesMarked
<1> SUFFICES ASSUME CrashTypeOK, CrashOrdered, Followed
             PROVE  Live(fs) \subseteq fs.inode_bitmap
  BY DEF LiveInodesMarked
<1>1. fs \in FileSystems
  BY DEF CrashTypeOK, TypeOK
<1>2. ASSUME NEW D, NEW F, NEW path, Linked(fs, D, F, path)
      PROVE  Live(fs) \subseteq fs.inode_bitmap
  BY <1>1, <1>2, LinkedLive DEF Linked, Marked
<1>3. CASE torn
  <2>1. PICK D, F, path, c : OnlyTorn(fs, D, F, path, c)
    BY <1>3 DEF CrashOrdered, OneTorn
  <2> QED BY <1>2, <2>1 DEF OnlyTorn
<1>4. CASE ~torn
  <2>1. PICK D \in SUBSET Inodes, F \in SUBSET Inodes : \E path :
            Linked(fs, D, F, path) /\ Sound(fs, D, F, BlockLists, crashes)
    BY <1>4, CrashSound
  <2> QED BY <1>2, <2>1
<1> QED BY <1>3, <1>4

(* No crash, not even one that tears, makes the tree reach an inode that   *)
(* get_inode may give away again.                                          *)
THEOREM MarkedOutlivesCrashes == CrashSpec => []LiveInodesMarked
BY MarkedSurvivesHolds, CrashTypeCorrect, CrashOrderKept, PTL

\* A death in mkdir or cat tears nothing.
LEMMA AddingTearsNothing ==
  ASSUME CrashTypeOK, CrashOrdered, NEW tmp \in Arguments, NEW type \in {FILE, DIR},
         Nameable(type, tmp), CrashAdding(tmp, type)
  PROVE  ~torn'
<1>1. PICK k : k = crashes
  OBVIOUS
<1>2. k \in Nat /\ k + 1 \in Nat
  BY <1>1, MaxCrashesAssumption DEF CrashTypeOK
<1>3. AtRest(k)
  BY <1>1 DEF CrashOrdered, CrashAdding, DieAt, Prompt, Surviving
<1>4. PICK D, F, path : Good(fs, D, F, path, k) /\ current_dir \in D
  BY <1>3 DEF AtRest, WholeAt
<1>5. NotThere(fs, current_dir, type, tmp)
  BY SearchFailed DEF CrashAdding, NotThere
<1>6. PICK d \in AddCuts(fs, current_dir, tmp, type) :
          Calm(d) /\ torn' = (TornInodes(d) # {})
  BY DEF CrashAdding, DieAt, Calm
<1>7. Whole(d, k + 1)
  BY <1>2, <1>4, <1>5, <1>6, AddCutsWhole DEF CrashAdding
<1> QED BY <1>6, <1>7, WholeNotTorn

\* A death in write_file tears nothing while no block was taken away.
LEMMA GrowingTearsNothing ==
  ASSUME CrashTypeOK, CrashOrdered, CrashInWrite,
         Len(call.i_block) >= Len(Area(fs, call.inode).i_block),
         need_blocks(call.length) >= Len(call.i_block)
  PROVE  ~torn'
<1>1. PICK k : k = crashes
  OBVIOUS
<1>2. k \in Nat /\ TypeOK
  BY <1>1, MaxCrashesAssumption DEF CrashTypeOK
<1>3. InCall(k)
  BY <1>1 DEF CrashOrdered, CrashInWrite, DieAt, Surviving
<1>4. PICK need : need = need_blocks(call.length)
  OBVIOUS
<1>5. need \in Nat
  BY <1>2, <1>3, <1>4, CallFacts
<1>6. PICK D, F, path : Mid(fs, D, F, path, k, call.inode, call.i_block, need)
  BY <1>3, <1>4 DEF InCall
<1>7. WriteCuts(fs) = CallCuts(fs, call.i_block, need)
  BY <1>4 DEF WriteCuts, CallCuts
<1>8. PICK d \in CallCuts(fs, call.i_block, need) :
          Calm(d) /\ torn' = (TornInodes(d) # {})
  BY <1>7 DEF CrashInWrite, DieAt, Calm
<1>9. /\ Len(Area(fs, call.inode).i_block) \in Nat /\ Len(call.i_block) \in Nat
  BY <1>6, MidLists
<1>10. Len(Area(fs, call.inode).i_block) <= Len(call.i_block) /\ Len(call.i_block) <= need
  BY <1>4, <1>5, <1>9
<1>11. Whole(d, k + 1)
  BY <1>2, <1>5, <1>6, <1>8, <1>10, CallCutsWhole
<1> QED BY <1>8, <1>11, WholeNotTorn

(* A death while a name is added, or while a file is written that needs no *)
(* fewer blocks than before, never tears: alloc_block marks a block before *)
(* an inode is written that owns it.                                       *)
THEOREM GrowthIsSafe == CrashSpec => GrowthNeverTears
<1>1. CrashTypeOK /\ CrashOrdered /\ [CrashNext]_crashVars =>
        [/\ \A tmp \in Names : CrashAdding(tmp, DIR) => ~torn'
         /\ \A tmp \in FileNames : CrashAdding(tmp, FILE) => ~torn'
         /\ CrashInWrite /\ Len(call.i_block) >= Len(Area(fs, call.inode).i_block)
                /\ need_blocks(call.length) >= Len(call.i_block)
            => ~torn']_crashVars
  <2> SUFFICES ASSUME CrashTypeOK, CrashOrdered
               PROVE  /\ \A tmp \in Names : CrashAdding(tmp, DIR) => ~torn'
                      /\ \A tmp \in FileNames : CrashAdding(tmp, FILE) => ~torn'
                      /\ CrashInWrite
                            /\ Len(call.i_block) >= Len(Area(fs, call.inode).i_block)
                            /\ need_blocks(call.length) >= Len(call.i_block)
                         => ~torn'
    OBVIOUS
  <2>1. ASSUME NEW tmp \in Names, CrashAdding(tmp, DIR)
        PROVE  ~torn'
    BY <2>1, AddingTearsNothing DEF Nameable, Arguments, FILE, DIR
  <2>2. ASSUME NEW tmp \in FileNames, CrashAdding(tmp, FILE)
        PROVE  ~torn'
    BY <2>2, AddingTearsNothing, SizesAssumption DEF Nameable, Arguments, FILE, DIR
  <2> QED BY <2>1, <2>2, GrowingTearsNothing
<1> QED BY <1>1, CrashTypeCorrect, CrashOrderKept, PTL DEF CrashSpec, GrowthNeverTears

\* The program finds the paths that the crash has left.
LEMMA DieAtPaths ==
  ASSUME NEW k, NEW disks, \A d \in disks : Calm(d) => Left(d, k), DieAt(disks)
  PROVE  \E d \in disks : Calm(d) /\ TypedPaths(fs') = TypedPaths(d)
<1>1. PICK d \in disks : Calm(d) /\ initialize_memory(fault(d, {"killed"}))
  BY DEF DieAt, Calm
<1>2. Left(d, k)
  BY <1>1
<1>3. d \in FileSystems /\ \E D, F, path : Linked(d, D, F, path)
  BY <1>2 DEF Left, Whole, Good, OneTorn, OnlyTorn
<1>4. PICK D, F, path : Linked(d, D, F, path)
  BY <1>3
<1>5. SameDisk(d, fs')
  BY <1>1, <1>3, StartDisk DEF Faults
<1>6. PICK t : t = fs'
  OBVIOUS
<1>7. TypedPaths(t) = TypedPaths(d)
  BY <1>3, <1>4, <1>5, <1>6, PathsSame DEF SameDisk
<1> QED BY <1>1, <1>6, <1>7

\* A death in mkdir or cat adds the name or does not.
LEMMA AddingIsWhole ==
  ASSUME CrashTypeOK, CrashOrdered, NEW tmp \in Arguments, NEW type \in {FILE, DIR},
         Nameable(type, tmp), CrashAdding(tmp, type)
  PROVE  AtMostAdded(TypedPaths(fs), <<Append(current_path, tmp), type>>, TypedPaths(fs'))
<1>1. PICK k : k = crashes
  OBVIOUS
<1>2. k \in Nat
  BY <1>1, MaxCrashesAssumption DEF CrashTypeOK
<1>3. AtRest(k)
  BY <1>1 DEF CrashOrdered, CrashAdding, DieAt, Prompt, Surviving
<1>4. PICK D, F, path : /\ Good(fs, D, F, path, k)
                        /\ current_dir \in D /\ path[current_dir] = current_path
  BY <1>3 DEF AtRest, WholeAt
<1>5. NotThere(fs, current_dir, type, tmp)
  BY SearchFailed DEF CrashAdding, NotThere
<1>6. ASSUME NEW d \in AddCuts(fs, current_dir, tmp, type), Calm(d)
      PROVE  /\ Left(d, k + 1)
             /\ AtMostAdded(TypedPaths(fs), PathTo(path, current_dir, type, tmp), TypedPaths(d))
  BY <1>2, <1>4, <1>5, <1>6, AddCutsWhole DEF CrashAdding, Left
<1>7. PICK d \in AddCuts(fs, current_dir, tmp, type) :
          Calm(d) /\ TypedPaths(fs') = TypedPaths(d)
  BY <1>6, DieAtPaths DEF CrashAdding
<1> QED BY <1>4, <1>6, <1>7 DEF PathTo

\* A death in rmdir removes the directory, with what is below, or does not.
LEMMA RmdirIsWhole ==
  ASSUME CrashTypeOK, CrashOrdered, NEW tmp \in Names, CrashInRmdir(tmp)
  PROVE  AtMostLost(TypedPaths(fs), <<Append(current_path, tmp), DIR>>, TypedPaths(fs'))
<1>1. PICK k : k = crashes
  OBVIOUS
<1>2. k \in Nat
  BY <1>1, MaxCrashesAssumption DEF CrashTypeOK
<1>3. AtRest(k)
  BY <1>1 DEF CrashOrdered, CrashInRmdir, DieAt, Prompt, Surviving
<1>4. PICK D, F, path : /\ Good(fs, D, F, path, k)
                        /\ current_dir \in D /\ path[current_dir] = current_path
  BY <1>3 DEF AtRest, WholeAt
<1>5. PICK p \in reserch_file(fs, current_dir, tmp, DIR) :
         /\ Area(fs, EntryAt(fs, current_dir, p).inode).i_size = 2
         /\ DieAt(RmdirCuts(fs, current_dir, p))
  BY DEF CrashInRmdir
<1>6. ASSUME NEW d \in RmdirCuts(fs, current_dir, p)
      PROVE  /\ Left(d, k)
             /\ AtMostLost(TypedPaths(fs), PathTo(path, current_dir, DIR, tmp), TypedPaths(d))
  BY <1>2, <1>4, <1>5, RmdirCutsLeft
<1>7. PICK d \in RmdirCuts(fs, current_dir, p) : TypedPaths(fs') = TypedPaths(d)
  BY <1>5, <1>6, DieAtPaths
<1> QED BY <1>4, <1>6, <1>7 DEF PathTo

\* A death in rm removes the file or does not.
LEMMA DelIsWhole ==
  ASSUME CrashTypeOK, CrashOrdered, NEW tmp, CrashInDel(tmp)
  PROVE  AtMostLost(TypedPaths(fs), <<Append(current_path, tmp), FILE>>, TypedPaths(fs'))
<1>0. fs \in FileSystems /\ current_dir \in Inodes
  BY DEF CrashTypeOK, TypeOK
<1>1. PICK k : k = crashes
  OBVIOUS
<1>2. k \in Nat
  BY <1>1, MaxCrashesAssumption DEF CrashTypeOK
<1>3. AtRest(k)
  BY <1>1 DEF CrashOrdered, CrashInDel, DieAt, Prompt, Surviving
<1>4. PICK D, F, path : /\ Good(fs, D, F, path, k)
                        /\ current_dir \in D /\ path[current_dir] = current_path
  BY <1>3 DEF AtRest, WholeAt
<1>5. PICK p \in reserch_file(fs, current_dir, tmp, FILE) :
         DieAt(DelCuts(stamp(fs, BlockAt(fs, current_dir, p[1]), {0, 1}), current_dir, p))
  BY DEF CrashInDel
<1>6. PICK s : s = stamp(fs, BlockAt(fs, current_dir, p[1]), {0, 1})
  OBVIOUS
<1>7. s \in FileSystems /\ s.inode_table = fs.inode_table /\ s.data = fs.data
  BY <1>0, <1>6, StampType DEF stamp, fault, FileSystems
<1>8. p \in Positions(fs, current_dir) /\ EntryAt(fs, current_dir, p).inode # 0
  BY <1>0, FoundType, SizesAssumption DEF Inodes
<1>9. p \in Positions(s, current_dir) /\ EntryAt(s, current_dir, p).inode # 0
  BY <1>0, <1>7, <1>8, PositionsKept DEF EntryAt, BlockAt, Area
<1>10. ASSUME NEW d \in DelCuts(s, current_dir, p), Calm(d)
       PROVE  /\ Left(d, k)
              /\ AtMostLost(TypedPaths(fs), PathTo(path, current_dir, FILE, tmp), TypedPaths(d))
  <2>1. d.faults = s.faults
    BY <1>0, <1>7, <1>9, DelCutsFaults
  <2>2. s = fs
    BY <1>0, <1>6, <1>10, <2>1, StampCalm DEF Calm
  <2> QED BY <1>2, <1>4, <1>5, <2>2, DelCutsLeft
<1>11. DieAt(DelCuts(s, current_dir, p))
  BY <1>5, <1>6
<1>12. PICK d \in DelCuts(s, current_dir, p) : Calm(d) /\ TypedPaths(fs') = TypedPaths(d)
  BY <1>10, <1>11, DieAtPaths
<1> QED BY <1>4, <1>10, <1>12 DEF PathTo

\* A death in write_file keeps every path.
LEMMA WriteKeepsPaths ==
  ASSUME CrashTypeOK, CrashOrdered, CrashInWrite
  PROVE  TypedPaths(fs') = TypedPaths(fs)
<1>1. PICK k : k = crashes
  OBVIOUS
<1>2. k \in Nat /\ TypeOK
  BY <1>1, MaxCrashesAssumption DEF CrashTypeOK
<1>3. InCall(k)
  BY <1>1 DEF CrashOrdered, CrashInWrite, DieAt, Surviving
<1>4. PICK need : need = need_blocks(call.length)
  OBVIOUS
<1>5. need \in Nat
  BY <1>2, <1>3, <1>4, CallFacts
<1>6. PICK D, F, path : Mid(fs, D, F, path, k, call.inode, call.i_block, need)
  BY <1>3, <1>4 DEF InCall
<1>7. WriteCuts(fs) = CallCuts(fs, call.i_block, need)
  BY <1>4 DEF WriteCuts, CallCuts
<1>8. ASSUME NEW d \in CallCuts(fs, call.i_block, need), Calm(d)
      PROVE  Left(d, k + 1) /\ TypedPaths(d) = TypedPaths(fs)
  BY <1>2, <1>5, <1>6, <1>8, CallCutsLeft
<1>9. PICK d \in CallCuts(fs, call.i_block, need) : Calm(d) /\ TypedPaths(fs') = TypedPaths(d)
  BY <1>7, <1>8, DieAtPaths DEF CrashInWrite
<1> QED BY <1>8, <1>9

(* A death in the middle of a command leaves the names of before or the    *)
(* names of after: every command makes its name appear or disappear in one *)
(* write.  The two are the same for write_file.                            *)
THEOREM CrashesAreAllOrNothing == CrashSpec => CrashIsAllOrNothing
<1> DEFINE here(tmp) == Append(current_path, tmp)
           before == TypedPaths(fs)
           Whatever ==
             /\ \A tmp \in Names :
                  CrashAdding(tmp, DIR) =>
                      TypedPaths(fs') \in {before, before \cup {<<here(tmp), DIR>>}}
             /\ \A tmp \in FileNames :
                  CrashAdding(tmp, FILE) =>
                      TypedPaths(fs') \in {before, before \cup {<<here(tmp), FILE>>}}
             /\ \A tmp \in Names :
                  CrashInRmdir(tmp) =>
                      TypedPaths(fs') \in
                          {before, before \ ({<<here(tmp), DIR>>} \cup Below(here(tmp), before))}
             /\ \A tmp \in FileNames :
                  CrashInDel(tmp) =>
                      TypedPaths(fs') \in {before, before \ {<<here(tmp), FILE>>}}
             /\ CrashInWrite => TypedPaths(fs') = before
<1>0. FILE # DIR
  BY DEF FILE, DIR
<1>1. ASSUME CrashTypeOK, CrashOrdered
      PROVE  Whatever
  <2>1. ASSUME NEW tmp \in Names, CrashAdding(tmp, DIR)
        PROVE  TypedPaths(fs') \in {before, before \cup {<<here(tmp), DIR>>}}
    <3>1. AtMostAdded(before, <<here(tmp), DIR>>, TypedPaths(fs'))
      BY <1>0, <1>1, <2>1, AddingIsWhole DEF Nameable, Arguments
    <3> QED BY <3>1 DEF AtMostAdded
  <2>2. ASSUME NEW tmp \in FileNames, CrashAdding(tmp, FILE)
        PROVE  TypedPaths(fs') \in {before, before \cup {<<here(tmp), FILE>>}}
    <3>1. AtMostAdded(before, <<here(tmp), FILE>>, TypedPaths(fs'))
      BY <1>0, <1>1, <2>2, AddingIsWhole, SizesAssumption DEF Nameable, Arguments
    <3> QED BY <3>1 DEF AtMostAdded
  <2>3. ASSUME NEW tmp \in Names, CrashInRmdir(tmp)
        PROVE  TypedPaths(fs') \in
                   {before, before \ ({<<here(tmp), DIR>>} \cup Below(here(tmp), before))}
    <3>1. PICK x : x = <<here(tmp), DIR>>
      OBVIOUS
    <3>2. AtMostLost(before, x, TypedPaths(fs'))
      BY <1>1, <2>3, <3>1, RmdirIsWhole
    <3>3. x[1] = here(tmp) /\ x[2] # FILE
      BY <1>0, <3>1
    <3> QED BY <3>1, <3>2, <3>3 DEF AtMostLost, PathsWithout
  <2>4. ASSUME NEW tmp \in FileNames, CrashInDel(tmp)
        PROVE  TypedPaths(fs') \in {before, before \ {<<here(tmp), FILE>>}}
    <3>1. PICK x : x = <<here(tmp), FILE>>
      OBVIOUS
    <3>2. AtMostLost(before, x, TypedPaths(fs'))
      BY <1>1, <2>4, <3>1, DelIsWhole
    <3>3. x[2] = FILE
      BY <3>1
    <3> QED BY <3>1, <3>2, <3>3 DEF AtMostLost, PathsWithout
  <2> QED BY <1>1, <2>1, <2>2, <2>3, <2>4, WriteKeepsPaths
<1> HIDE DEF Whatever
<1>2. CrashTypeOK /\ CrashOrdered /\ [CrashNext]_crashVars => [Whatever]_crashVars
  BY <1>1
<1>3. CrashSpec => [][Whatever]_crashVars
  BY <1>2, CrashTypeCorrect, CrashOrderKept, PTL DEF CrashSpec
<1> QED BY <1>3 DEF CrashIsAllOrNothing, Whatever
=============================================================================
