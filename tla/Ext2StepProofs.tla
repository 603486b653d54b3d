--------------------------- MODULE Ext2StepProofs ---------------------------
(***************************************************************************)
(* Every step of Ext2 leaves a disk that is in order: InOrder, the         *)
(* inductive invariant of the file system, is carried through each         *)
(* command, through the blocks of write_file one by one, through format    *)
(* and through a restart.                                                  *)
(*                                                                         *)
(* Ordered, at the end, says that there are a tree and lists of blocks for *)
(* which the disk is in order.                                             *)
(***************************************************************************)
EXTENDS Ext2Proofs, SequenceTheorems

(* rmdir and del up to the sweep: the entry at p of n is cleared, and the  *)
(* blocks of inode c are given back.                                       *)
Unlinked(s, t, n, p, c) ==
    /\ t \in FileSystems
    /\ t.inode_table = s.inode_table
    /\ t.inode_bitmap = s.inode_bitmap
    /\ t.block_bitmap = s.block_bitmap \ BlocksOf(Area(s, c))
    /\ t.bg_free_blocks_count = s.bg_free_blocks_count + Len(Area(s, c).i_block)
    /\ t.data = [s.data EXCEPT ![Area(s, n).i_block[p[1]]] =
                     [BlockAt(s, n, p[1]) EXCEPT ![p[2]] = Empty]]
    /\ t.faults = s.faults

(* What is left of the disk s once the step that removes c has ended. *)
Removed(s, t, D, F, n, p, c, clean) ==
    /\ t \in FileSystems
    /\ t.inode_bitmap = s.inode_bitmap
    /\ t.faults = s.faults
    /\ Cleared(s, t, D, F, n, p, c, clean)

(* Swept in a directory of one block: only the size changes. *)
LEMMA SweptResult ==
  ASSUME NEW s \in FileSystems, NEW n \in Inodes, Len(Area(s, n).i_block) <= 1,
         NEW t, t = Swept(s, n)
  PROVE  /\ t \in FileSystems
         /\ Area(t, n).i_block = Area(s, n).i_block
         /\ Area(t, n).i_size = Area(s, n).i_size - 1
         /\ \A k \in Inodes \ {n} : Area(t, k) = Area(s, k)
         /\ t.inode_bitmap = s.inode_bitmap
         /\ t.block_bitmap = s.block_bitmap
         /\ t.bg_free_blocks_count = s.bg_free_blocks_count
         /\ t.data = s.data
         /\ t.faults = s.faults
  <1> DEFINE area == [Area(s, n) EXCEPT !.i_size = Area(s, n).i_size - 1]
  <1>1. /\ area \in InodeRecords
        /\ area.i_block = Area(s, n).i_block
        /\ area.i_size = Area(s, n).i_size - 1
    BY AreaType DEF InodeRecords
  <1>2. ~ (Len(area.i_block) > 1) BY <1>1, AreaType
  <1>3. t = update_inode_entry(s, n, area) BY <1>2 DEF Swept, SweptTo
  <1> HIDE DEF area
  <1> QED BY <1>1, <1>3, UpdateInodeResult

(* Either way the sweep goes, the disk stays in order without c. *)
LEMMA SweepRemoves ==
  ASSUME NEW s \in FileSystems, NEW u, NEW D, NEW F, NEW clean,
         Stored(s, D, F, Lists(s), clean), NEW n \in D,
         NEW p \in Used(s, n), NEW c \in (D \cup F) \ {n},
         Unlinked(s, u, n, p, c), NEW c2 \in BOOLEAN, NEW t,
         \/ SweepHangs(u, n) /\ t = u /\ ~c2
         \/ Len(Area(s, n).i_block) <= 1 /\ t = Swept(u, n) /\ (c2 => clean)
  PROVE  Removed(s, t, D, F, n, p, c, c2)
  <1>1. /\ u \in FileSystems
        /\ u.inode_table = s.inode_table
        /\ u.inode_bitmap = s.inode_bitmap
        /\ u.block_bitmap = s.block_bitmap \ BlocksOf(Area(s, c))
        /\ u.bg_free_blocks_count = s.bg_free_blocks_count + Len(Area(s, c).i_block)
        /\ u.data = [s.data EXCEPT ![Area(s, n).i_block[p[1]]] =
                         [BlockAt(s, n, p[1]) EXCEPT ![p[2]] = Empty]]
    BY DEF Unlinked
  <1>2. n \in Inodes /\ p \in Positions(s, n) BY DEF Stored, Used
  <1>3. \A k : Area(u, k) = Area(s, k) BY <1>1 DEF Area
  <1>4. OneSlot(s, u, D, n, p, Empty)
    <2>1. \A k \in Inodes : Area(u, k).i_block = Area(s, k).i_block BY <1>3
    <2> QED BY <1>1, <1>2, <2>1, SlotWritten
  <1>5. CASE SweepHangs(u, n) /\ t = u /\ ~c2
    <2>1. \E k \in Slots : <<2, k>> \in Used(s, n) \ {p}
      <3>1. /\ Len(Area(s, n).i_block) > 1
            /\ \E k \in Slots : BlockAt(u, n, 2)[k].inode # 0
        BY <1>3, <1>5 DEF SweepHangs
      <3>2. PICK k \in Slots : BlockAt(u, n, 2)[k].inode # 0 BY <3>1
      <3>3. <<2, k>> \in Positions(s, n)
        <4>1. 2 \in 1 .. Len(Area(s, n).i_block) BY <3>1, <1>2, AreaType
        <4> QED BY <4>1 DEF Positions
      <3>4. EntryAt(u, n, <<2, k>>).inode # 0 BY <3>2 DEF EntryAt
      <3>5. Empty.inode = 0 BY DEF Empty
      <3>6. EntryAt(u, n, <<2, k>>) = IF <<2, k>> = p THEN Empty ELSE EntryAt(s, n, <<2, k>>)
        BY <3>3, <1>4 DEF OneSlot
      <3>7. <<2, k>> # p /\ EntryAt(s, n, <<2, k>>).inode # 0 BY <3>4, <3>5, <3>6
      <3> QED BY <3>3, <3>7 DEF Used
    <2>2. Cleared(s, u, D, F, n, p, c, c2)
      <3>1. /\ Area(u, n).i_block = Area(s, n).i_block
            /\ Area(u, n).i_size = Area(s, n).i_size
            /\ \A k \in Inodes \ {n} : Area(u, k) = Area(s, k)
        BY <1>3
      <3>2. \/ Area(u, n).i_size = Area(s, n).i_size - 1 /\ (c2 => clean)
            \/ Area(u, n).i_size = Area(s, n).i_size /\ ~c2
        BY <3>1, <1>5
      <3>3. u \in FileSystems BY <1>1
      <3> QED BY <1>1, <2>1, <3>1, <3>2, <3>3, StoredRemove, SMTT(60)
    <2>3. u.faults = s.faults BY DEF Unlinked
    <2> QED BY <1>1, <1>5, <2>2, <2>3 DEF Removed
  <1>6. CASE Len(Area(s, n).i_block) <= 1 /\ t = Swept(u, n) /\ (c2 => clean)
    <2>1. /\ t \in FileSystems
          /\ Area(t, n).i_block = Area(u, n).i_block
          /\ Area(t, n).i_size = Area(u, n).i_size - 1
          /\ \A k \in Inodes \ {n} : Area(t, k) = Area(u, k)
          /\ t.inode_bitmap = u.inode_bitmap
          /\ t.block_bitmap = u.block_bitmap
          /\ t.bg_free_blocks_count = u.bg_free_blocks_count
          /\ t.data = u.data
          /\ t.faults = u.faults
      <3>1. Len(Area(u, n).i_block) <= 1 BY <1>3, <1>6
      <3> QED BY <1>1, <1>2, <1>6, <3>1, SweptResult
    <2>2. /\ Area(t, n).i_block = Area(s, n).i_block
          /\ Area(t, n).i_size = Area(s, n).i_size - 1
          /\ \A k \in Inodes \ {n} : Area(t, k) = Area(s, k)
      BY <2>1, <1>3
    <2>3. /\ t.inode_bitmap = s.inode_bitmap
          /\ t.block_bitmap = s.block_bitmap \ BlocksOf(Area(s, c))
          /\ t.bg_free_blocks_count = s.bg_free_blocks_count + Len(Area(s, c).i_block)
          /\ t.data = [s.data EXCEPT ![Area(s, n).i_block[p[1]]] =
                           [BlockAt(s, n, p[1]) EXCEPT ![p[2]] = Empty]]
      BY <2>1, <1>1
    <2>4. ~ (Len(Area(s, n).i_block) > 1) BY <1>6, <1>2, AreaType
    <2>5. Cleared(s, t, D, F, n, p, c, c2)
      BY <1>6, <2>1, <2>2, <2>3, <2>4, StoredRemove
    <2>6. t.faults = s.faults BY <2>1 DEF Unlinked
    <2> QED BY <2>1, <2>3, <2>5, <2>6 DEF Removed
  <1> QED BY <1>5, <1>6

(* A directory of size 2 holds its dots and nothing else, in one block. *)
LEMMA EmptyDirectory ==
  ASSUME NEW s \in FileSystems, NEW D, NEW F, NEW up, NEW path, NEW clean,
         Shape(s, D, F, up, path), Stored(s, D, F, Lists(s), clean),
         NEW c \in D, Area(s, c).i_size = 2
  PROVE  /\ Used(s, c) = Dots
         /\ Len(Area(s, c).i_block) = 1
         /\ BlocksOf(Area(s, c)) = {Area(s, c).i_block[1]}
  <1>1. c \in Inodes /\ DirSized(s, c, clean) BY DEF Stored
  <1>2. Dots \subseteq Used(s, c) BY DEF Shape, Dotted
  <1>3. IsFiniteSet(Used(s, c)) /\ Cardinality(Used(s, c)) \in Nat BY <1>1, PositionsFinite
  <1>4. Cardinality(Used(s, c)) <= 2 BY <1>1 DEF DirSized
  <1>5. Cardinality(Dots) = 2
    <2>1. <<1, 0>> # <<1, 1>> /\ Dots = {<<1, 0>>} \cup {<<1, 1>>} BY DEF Dots
    <2>2. IsFiniteSet({<<1, 0>>}) /\ Cardinality({<<1, 0>>}) = 1 BY FS_Singleton
    <2>3. Cardinality({<<1, 0>>} \cup {<<1, 1>>}) = Cardinality({<<1, 0>>}) + 1
      BY <2>1, <2>2, FS_AddElement
    <2> QED BY <2>1, <2>2, <2>3
  <1>6. Used(s, c) = Dots
    <2>1. Cardinality(Dots) <= Cardinality(Used(s, c)) BY <1>2, <1>3, FS_Subset
    <2>2. Cardinality(Used(s, c)) = Cardinality(Dots) BY <2>1, <1>3, <1>4, <1>5
    <2> QED BY <2>2, <1>2, <1>3, FS_Subset
  <1>7. Len(Area(s, c).i_block) = 1
    <2>1. Len(Area(s, c).i_block) \in Nat BY <1>1, AreaType
    <2>2. <<1, 0>> \in Positions(s, c) BY <1>2, DotsTwo DEF Used
    <2>3. 1 \in 1 .. Len(Area(s, c).i_block) BY <2>2 DEF Positions
    <2>4. \A k \in Slots : <<2, k>> \notin Dots BY DEF Dots
    <2>5. ~ (Len(Area(s, c).i_block) > 1) BY <2>4, <1>1, <1>6 DEF DirSized
    <2>6. \A l \in Nat : 1 \in 1 .. l /\ ~ (l > 1) => l = 1 OBVIOUS
    <2> QED BY <2>1, <2>3, <2>5, <2>6
  <1>8. BlocksOf(Area(s, c)) = {Area(s, c).i_block[1]} BY <1>7 DEF BlocksOf
  <1> QED BY <1>6, <1>7, <1>8

(* ClearSlot, after some blocks of inode c were given back. *)
LEMMA ClearedResult ==
  ASSUME NEW s \in FileSystems, NEW v \in FileSystems, NEW n \in Inodes,
         NEW p \in Positions(s, n), NEW c,
         v.inode_table = s.inode_table,
         v.inode_bitmap = s.inode_bitmap,
         v.block_bitmap = s.block_bitmap \ BlocksOf(Area(s, c)),
         v.bg_free_blocks_count = s.bg_free_blocks_count + Len(Area(s, c).i_block),
         v.data = s.data,
         v.faults = s.faults,
         NEW u, u = ClearSlot(v, n, p)
  PROVE  Unlinked(s, u, n, p, c)
  <1> DEFINE b == Area(s, n).i_block[p[1]]
             content == [BlockAt(s, n, p[1]) EXCEPT ![p[2]] = Empty]
  <1>1. Area(v, n) = Area(s, n) /\ BlockAt(v, n, p[1]) = BlockAt(s, n, p[1])
    BY DEF Area, BlockAt
  <1>2. u = update_dir(v, b, content) BY <1>1 DEF ClearSlot
  <1>3. b \in Blocks /\ content \in [Slots -> Entries]
    BY EntryAtType, BlockAtType, EntryConstructors
  <1> HIDE DEF b, content
  <1>4. /\ u \in FileSystems
        /\ u.data = [v.data EXCEPT ![b] = content]
        /\ u.inode_table = v.inode_table
        /\ u.inode_bitmap = v.inode_bitmap
        /\ u.block_bitmap = v.block_bitmap
        /\ u.bg_free_blocks_count = v.bg_free_blocks_count
        /\ u.faults = v.faults
    BY <1>2, <1>3, UpdateDirResult
  <1>5. u.data = [s.data EXCEPT ![b] = content] BY <1>4
  <1> QED BY <1>4, <1>5 DEF Unlinked, b, content

(* The place of a block in i_block is also the place of a slot. *)
LEMMA ShortLists ==
  ASSUME NEW s \in FileSystems, NEW D, NEW F, NEW clean,
         Stored(s, D, F, Lists(s), clean), NEW n \in D, NEW p \in Positions(s, n)
  PROVE  p[1] - 1 \in Slots
  <1>1. n \in Inodes BY DEF Stored
  <1>2. Lists(s)[n] = Area(s, n).i_block BY <1>1 DEF Lists
  <1>3. Len(Area(s, n).i_block) <= MaxBlocks BY <1>2 DEF Stored, Owned
  <1>4. p[1] \in 1 .. Len(Area(s, n).i_block) /\ Len(Area(s, n).i_block) \in Nat
    BY <1>1, EntryAtType, AreaType
  <1>5. MaxBlocks <= EntriesPerBlock /\ MaxBlocks \in Nat /\ EntriesPerBlock \in Nat
    BY SizesAssumption
  <1> DEFINE last == Len(Area(s, n).i_block)
  <1> HIDE DEF last
  <1>6. last <= MaxBlocks /\ last \in Nat /\ p[1] \in 1 .. last BY <1>3, <1>4 DEF last
  <1> QED BY <1>5, <1>6 DEF Slots

(* An empty directory has left the tree. *)
DirGone(s, t, D, F, up, path, n, p, c, clean) ==
    /\ c \in D \ {Root, n}
    /\ p \notin Dots
    /\ \A d \in D : up[d] # c
    /\ Removed(s, t, D, F, n, p, c, clean)
    /\ Shape(t, D \ {c}, F, Without(up, D, c), Without(path, D, c))
    /\ Stored(t, D \ {c}, F, Lists(t), clean)

(* rmdir of a directory that holds only its dots leaves the Shape of the   *)
(* others.                                                                 *)
LEMMA RmdirShape ==
  ASSUME NEW s, NEW t, NEW D, NEW F, NEW up, NEW path, NEW clean,
         Shape(s, D, F, up, path), NEW n \in D, NEW p \in Used(s, n), NEW c,
         c = EntryAt(s, n, p).inode, ChildDir(EntryAt(s, n, p), n, D, up, path),
         p \notin Dots, Used(s, c) = Dots, Removed(s, t, D, F, n, p, c, clean)
  PROVE  DirGone(s, t, D, F, up, path, n, p, c, clean)
  <1>1. /\ t.inode_bitmap = s.inode_bitmap
        /\ Loses(s, t, n, p)
        /\ \A d \in D \ {n} : SameEntries(s, t, d)
        /\ Stored(t, D \ {c}, F \ {c}, Lists(t), clean)
    BY DEF Removed, Cleared
  <1>2. /\ c \in D \ {Root, n}
        /\ \A d \in D : up[d] # c
        /\ Shape(t, D \ {c}, F, Without(up, D, c), Without(path, D, c))
    <2>1. t.inode_bitmap = s.inode_bitmap /\ Loses(s, t, n, p) BY <1>1
    <2>2. \A d \in D \ {n, c} : SameEntries(s, t, d) BY <1>1
    <2> QED BY <2>1, <2>2, ShapeRemoveDir, SMTT(60)
  <1>3. F \ {c} = F BY <1>2 DEF Shape, Marked
  <1>4. Stored(t, D \ {c}, F, Lists(t), clean) BY <1>1, <1>3
  <1> QED BY <1>2, <1>4 DEF DirGone

(* rmdir on the disk s.  A directory of two blocks or more cannot lose an  *)
(* entry in a step that ends without a fault: either the second block      *)
(* holds an entry and the sweep hangs, or it is empty and the time stamp   *)
(* that follows the sweep is written to inode 0.                           *)
RmdirDisk(s, u, t, n, p, c, clean, c2) ==
    /\ c = EntryAt(s, n, p).inode
    /\ Area(s, c).i_size = 2
    /\ u = ClearSlot(remove_inode(remove_block(s, Area(s, c).i_block[1]), c), n, p)
    /\ \/ SweepHangs(u, n) /\ t = u /\ ~c2
       \/ /\ ~ SweepHangs(u, n)
          /\ t = stamp(Swept(u, n),
                       BlockAt(u, n, IF Len(Area(s, n).i_block) > 1 THEN 2 ELSE p[1]),
                       {p[1] - 1})
          /\ c2 => clean

(* The disk rmdir leaves is one with the directory gone, sweep included.   *)
LEMMA RmdirResult ==
  ASSUME NEW s \in FileSystems, NEW D, NEW F, NEW up, NEW path, NEW clean,
         Shape(s, D, F, up, path), Stored(s, D, F, Lists(s), clean),
         NEW n \in D, NEW tmp \in Names, NEW p \in reserch_file(s, n, tmp, DIR),
         NEW c, NEW c2 \in BOOLEAN, NEW t, Calm(t), NEW u,
         RmdirDisk(s, u, t, n, p, c, clean, c2)
  PROVE  DirGone(s, t, D, F, up, path, n, p, c, c2)
  <1> DEFINE last == IF Len(Area(s, n).i_block) > 1 THEN 2 ELSE p[1]
  <1>0. /\ c = EntryAt(s, n, p).inode
        /\ Area(s, c).i_size = 2
        /\ u = ClearSlot(remove_inode(remove_block(s, Area(s, c).i_block[1]), c), n, p)
        /\ \/ SweepHangs(u, n) /\ t = u /\ ~c2
           \/ /\ ~ SweepHangs(u, n)
              /\ t = stamp(Swept(u, n), BlockAt(u, n, last), {p[1] - 1})
              /\ c2 => clean
    BY DEF RmdirDisk
  <1>1. /\ p \in Used(s, n)
        /\ EntryAt(s, n, p).file_type = DIR
        /\ EntryAt(s, n, p).name = tmp
    BY SearchFound
  <1>2. tmp \notin {".", ".."} BY SizesAssumption
  <1>3. p \notin Dots /\ ChildDir(EntryAt(s, n, p), n, D, up, path)
    BY <1>1, <1>2, EntryKinds
  <1>4. c \in D \ {Root} /\ up[c] = n BY <1>0, <1>3 DEF ChildDir
  <1>5. c # n BY <1>4, ChildIsOther
  <1>6. /\ Used(s, c) = Dots
        /\ Len(Area(s, c).i_block) = 1
        /\ BlocksOf(Area(s, c)) = {Area(s, c).i_block[1]}
    BY <1>0, <1>4, EmptyDirectory
  <1>7. n \in Inodes /\ p \in Positions(s, n) BY <1>1 DEF Stored, Used
  <1>8. Unlinked(s, u, n, p, c)
    <2> DEFINE v == remove_inode(remove_block(s, Area(s, c).i_block[1]), c)
    <2>1. /\ v \in FileSystems
          /\ v.inode_table = s.inode_table
          /\ v.inode_bitmap = s.inode_bitmap
          /\ v.block_bitmap = s.block_bitmap \ {Area(s, c).i_block[1]}
          /\ v.bg_free_blocks_count = s.bg_free_blocks_count + 1
          /\ v.data = s.data
          /\ v.faults = s.faults
      <3>1. v \in FileSystems BY RemoveType
      <3> QED BY <3>1 DEF remove_inode, remove_block, FileSystems
    <2> HIDE DEF v
    <2>2. u = ClearSlot(v, n, p) BY <1>0 DEF v
    <2> QED BY <2>1, <2>2, <1>6, <1>7, ClearedResult
  <1>9. CASE SweepHangs(u, n) /\ t = u /\ ~c2
    <2>1. Removed(s, t, D, F, n, p, c, c2)
      BY <1>1, <1>4, <1>5, <1>8, <1>9, SweepRemoves
    <2> QED BY <2>1, <1>0, <1>1, <1>3, <1>4, <1>5, <1>6, RmdirShape
  <1>10. CASE /\ ~ SweepHangs(u, n)
              /\ t = stamp(Swept(u, n), BlockAt(u, n, last), {p[1] - 1})
              /\ c2 => clean
    <2>1. u \in FileSystems BY <1>8 DEF Unlinked
    <2>2. Swept(u, n) \in FileSystems BY <2>1, <1>7, SweptType
    <2>3. /\ t = Swept(u, n)
          /\ BlockAt(u, n, last)[p[1] - 1].inode # 0
      BY <1>10, <2>2, StampCalm
    <2>4. Area(u, n) = Area(s, n) BY <1>8 DEF Unlinked, Area
    <2>5. p[1] - 1 \in Slots BY <1>7, ShortLists
    <2>6. ~ (Len(Area(s, n).i_block) > 1)
      BY <1>10, <2>3, <2>4, <2>5 DEF SweepHangs
    <2>7. Len(Area(s, n).i_block) <= 1 BY <2>6, <1>7, AreaType
    <2>8. Removed(s, t, D, F, n, p, c, c2)
      <3>1. c \in (D \cup F) \ {n} BY <1>4, <1>5
      <3> QED BY <1>1, <1>8, <1>10, <2>3, <2>7, <3>1, SweepRemoves
    <2> QED BY <2>8, <1>0, <1>1, <1>3, <1>4, <1>5, <1>6, RmdirShape
  <1> QED BY <1>0, <1>9, <1>10

(* A file has left the tree. *)
FileGone(s, t, D, F, up, path, n, p, c, clean) ==
    /\ c \in F
    /\ p \notin Dots
    /\ Removed(s, t, D, F, n, p, c, clean)
    /\ Shape(t, D, F \ {c}, up, path)
    /\ Stored(t, D, F \ {c}, Lists(t), clean)

(* The sweep records no fault. *)
LEMMA SweptFaults ==
  ASSUME NEW s \in FileSystems, NEW n \in Inodes
  PROVE  Swept(s, n).faults = s.faults
  <1>1. n # 0 BY DEF Inodes
  <1>2. ASSUME NEW v \in FileSystems, NEW area
        PROVE  update_inode_entry(v, n, area).faults = v.faults
    BY <1>1 DEF update_inode_entry, FileSystems
  <1>3. ASSUME NEW b
        PROVE  remove_block(s, b) \in FileSystems /\ remove_block(s, b).faults = s.faults
    BY RemoveType DEF remove_block, FileSystems
  <1> DEFINE area == [Area(s, n) EXCEPT !.i_size = Area(s, n).i_size - 1]
             cut == [area EXCEPT !.i_block =
                        SubSeq(area.i_block, 1, 1) \o SubSeq(area.i_block, 3, Len(area.i_block))]
  <1>4. Swept(s, n) = IF Len(area.i_block) > 1
                        THEN update_inode_entry(remove_block(s, area.i_block[2]), n, cut)
                        ELSE update_inode_entry(s, n, area)
    BY DEF Swept, SweptTo
  <1> HIDE DEF area, cut
  <1> QED BY <1>2, <1>3, <1>4

(* del on the disk s.  Here too a directory of two blocks or more loses an *)
(* entry only in a step that hangs: the block that held it has its first   *)
(* two slots in use, so if that is the second block, one entry stays.      *)
LEMMA DelResult ==
  ASSUME NEW s \in FileSystems, NEW D, NEW F, NEW up, NEW path, NEW clean,
         Shape(s, D, F, up, path), Stored(s, D, F, Lists(s), clean),
         NEW n \in D, NEW tmp, NEW p \in reserch_file(s, n, tmp, FILE),
         NEW c, c = EntryAt(s, n, p).inode,
         NEW u, u = ClearSlot(remove_blocks(stamp(s, BlockAt(s, n, p[1]), {0, 1}),
                                            Area(s, c)), n, p),
         NEW c2 \in BOOLEAN, NEW t, Calm(t),
         \/ SweepHangs(u, n) /\ t = u /\ ~c2
         \/ ~ SweepHangs(u, n) /\ t = Swept(u, n) /\ (c2 => clean)
  PROVE  FileGone(s, t, D, F, up, path, n, p, c, c2)
  <1>1. /\ p \in Used(s, n)
        /\ EntryAt(s, n, p).file_type = FILE
    BY SearchFound
  <1>2. p \notin Dots /\ c \in F BY <1>1, EntryKinds DEF ChildFile
  <1>3. c \in (D \cup F) \ {n} BY <1>2 DEF Stored
  <1>4. n \in Inodes /\ c \in Inodes /\ p \in Positions(s, n) BY <1>1, <1>2 DEF Stored, Used
  <1> DEFINE s1 == stamp(s, BlockAt(s, n, p[1]), {0, 1})
             v == remove_blocks(s1, Area(s, c))
  <1>5. s1 \in FileSystems BY StampType
  <1>6. /\ v \in FileSystems
        /\ v.inode_table = s1.inode_table
        /\ v.inode_bitmap = s1.inode_bitmap
        /\ v.block_bitmap = s1.block_bitmap \ BlocksOf(Area(s, c))
        /\ v.bg_free_blocks_count = s1.bg_free_blocks_count + Len(Area(s, c).i_block)
        /\ v.data = s1.data
        /\ v.faults = s1.faults
    <2> HIDE DEF s1
    <2>1. v \in FileSystems BY <1>4, <1>5, AreaType, RemoveBlocksType
    <2> QED BY <1>5, <2>1 DEF remove_blocks, FileSystems
  <1>7. u = ClearSlot(v, n, p) OBVIOUS
  <1> HIDE DEF v
  <1>8. s1 = s /\ \A k \in {0, 1} : BlockAt(s, n, p[1])[k].inode # 0
    <2>1. s1.inode_table = s.inode_table BY DEF s1, stamp, fault, FileSystems
    <2> HIDE DEF s1
    <2>2. Positions(v, n) = Positions(s, n) BY <1>6, <2>1 DEF Positions, Area
    <2>3. u \in FileSystems BY <1>4, <1>6, <1>7, <2>2, ClearSlotType
    <2>4. u.faults = v.faults
      BY <1>6, <1>7 DEF ClearSlot, update_dir, FileSystems
    <2>5. t.faults = u.faults
      <3>1. CASE t = u BY <3>1
      <3>2. CASE t = Swept(u, n) BY <3>2, <2>3, <1>4, SweptFaults
      <3> QED BY <3>1, <3>2
    <2>6. Calm(s1) BY <2>4, <2>5, <1>6 DEF Calm
    <2> QED BY <2>6, StampCalm DEF s1
  <1>9. Unlinked(s, u, n, p, c)
    <2>1. /\ v.inode_table = s.inode_table
          /\ v.inode_bitmap = s.inode_bitmap
          /\ v.block_bitmap = s.block_bitmap \ BlocksOf(Area(s, c))
          /\ v.bg_free_blocks_count = s.bg_free_blocks_count + Len(Area(s, c).i_block)
          /\ v.data = s.data
          /\ v.faults = s.faults
          /\ v \in FileSystems
      BY <1>6, <1>8
    <2> QED BY <2>1, <1>4, <1>7, ClearedResult
  <1>10. Removed(s, t, D, F, n, p, c, c2)
    <2>1. CASE SweepHangs(u, n) /\ t = u /\ ~c2
      BY <2>1, <1>1, <1>3, <1>9, SweepRemoves
    <2>2. CASE ~ SweepHangs(u, n) /\ t = Swept(u, n) /\ (c2 => clean)
      <3>1. Len(Area(s, n).i_block) <= 1
        <4>1. SUFFICES ASSUME Len(Area(s, n).i_block) > 1 PROVE FALSE
          BY <1>4, AreaType
        <4>2. DirSized(s, n, clean) BY DEF Stored
        <4>3. PICK k \in Slots : <<2, k>> \in Used(s, n) BY <4>1, <4>2 DEF DirSized
        <4>4. Area(u, n) = Area(s, n) BY <1>9 DEF Unlinked, Area
        <4>5. \A j \in Slots : BlockAt(u, n, 2)[j].inode = 0
          BY <4>1, <4>4, <2>2 DEF SweepHangs
        <4>6. OneSlot(s, u, D, n, p, Empty)
          <5>1. \A j \in Inodes : Area(u, j).i_block = Area(s, j).i_block
            BY <1>9 DEF Unlinked, Area
          <5>2. u.data = [s.data EXCEPT ![Area(s, n).i_block[p[1]]] =
                              [BlockAt(s, n, p[1]) EXCEPT ![p[2]] = Empty]]
            BY <1>9 DEF Unlinked
          <5> QED BY <5>1, <5>2, <1>4, SlotWritten
        <4>7. ASSUME NEW j \in Slots, <<2, j>> \in Used(s, n) PROVE p = <<2, j>>
          <5>1. <<2, j>> \in Positions(s, n) /\ EntryAt(s, n, <<2, j>>).inode # 0
            BY <4>7 DEF Used
          <5>2. EntryAt(u, n, <<2, j>>).inode = 0 BY <4>5 DEF EntryAt
          <5>3. EntryAt(u, n, <<2, j>>) =
                   IF <<2, j>> = p THEN Empty ELSE EntryAt(s, n, <<2, j>>)
            BY <5>1, <4>6 DEF OneSlot
          <5> QED BY <5>1, <5>2, <5>3
        <4>8. p = <<2, k>> BY <4>3, <4>7
        <4>9. \A j \in {0, 1} : <<2, j>> \in Used(s, n)
          <5>1. 2 \in 1 .. Len(Area(s, n).i_block) /\ {0, 1} \subseteq Slots
            BY <4>1, <1>4, AreaType, ConstantFacts
          <5>2. \A j \in {0, 1} : EntryAt(s, n, <<2, j>>).inode # 0
            BY <4>8, <1>8 DEF EntryAt
          <5> QED BY <5>1, <5>2 DEF Used, Positions
        <4>10. p = <<2, 0>> /\ p = <<2, 1>> BY <4>7, <4>9, ConstantFacts
        <4> QED BY <4>10
      <3> QED BY <3>1, <2>2, <1>1, <1>3, <1>9, SweepRemoves
    <2> QED BY <2>1, <2>2
  <1>11. /\ t.inode_bitmap = s.inode_bitmap
         /\ Loses(s, t, n, p)
         /\ \A d \in D \ {n} : SameEntries(s, t, d)
         /\ Stored(t, D \ {c}, F \ {c}, Lists(t), c2)
    BY <1>10 DEF Removed, Cleared
  <1>12. Shape(t, D, F \ {c}, up, path) BY <1>1, <1>11, ShapeRemoveFile
  <1>13. D \ {c} = D BY <1>2 DEF Stored
  <1>14. Stored(t, D, F \ {c}, Lists(t), c2) BY <1>11, <1>13
  <1> QED BY <1>2, <1>10, <1>12, <1>14 DEF FileGone
-----------------------------------------------------------------------------
(* A recorded fault stays recorded until the disk is formatted. *)

Worse(s, t) == t \in FileSystems /\ s.faults \subseteq t.faults

(* Each operator that writes the disk keeps the faults it finds.           *)
LEMMA OperatorsWorse ==
  ASSUME NEW s \in FileSystems
  PROVE  /\ \A f \in SUBSET Faults : Worse(s, fault(s, f))
         /\ Worse(s, alloc_block(s))
         /\ Worse(s, get_inode(s))
         /\ \A b \in Blocks : \A content \in [Slots -> Entries] :
                Worse(s, update_dir(s, b, content))
         /\ \A n \in 0 .. InodeCount : \A area \in InodeRecords :
                Worse(s, update_inode_entry(s, n, area))
         /\ \A content, slots : Worse(s, stamp(s, content, slots))
  <1>1. ASSUME NEW f \in SUBSET Faults PROVE Worse(s, fault(s, f))
    BY FaultType DEF Worse, fault, FileSystems
  <1>2. Worse(s, alloc_block(s))
    BY AllocBlockType DEF Worse, alloc_block, fault, FileSystems
  <1>3. Worse(s, get_inode(s))
    BY GetInodeType DEF Worse, get_inode, fault, FileSystems
  <1>4. ASSUME NEW b \in Blocks, NEW content \in [Slots -> Entries]
        PROVE  Worse(s, update_dir(s, b, content))
    BY UpdateDirType DEF Worse, update_dir, FileSystems
  <1>5. ASSUME NEW n \in 0 .. InodeCount, NEW area \in InodeRecords
        PROVE  Worse(s, update_inode_entry(s, n, area))
    BY UpdateInodeType DEF Worse, update_inode_entry, FileSystems
  <1>6. ASSUME NEW content, NEW slots PROVE Worse(s, stamp(s, content, slots))
    BY StampType DEF Worse, stamp, fault, FileSystems
  <1> QED BY <1>1, <1>2, <1>3, <1>4, <1>5, <1>6

(* Faults add up over the calls of a command.                              *)
LEMMA WorseTransitive ==
  ASSUME NEW s, NEW t, NEW u, Worse(s, t), Worse(t, u)
  PROVE  Worse(s, u)
BY DEF Worse

(* dir_prepare keeps the faults it finds.                                  *)
LEMMA DirPrepareWorse ==
  ASSUME NEW s \in FileSystems, NEW m \in 0 .. InodeCount, NEW type, NEW n \in Inodes
  PROVE  Worse(s, dir_prepare(s, m, type, n))
  <1>1. CASE type = DIR
    <2> DEFINE b == next_block(s)
               s1 == alloc_block(s)
               s2 == update_dir(s1, b, NewDirectory(m, n))
               area == [i_mode |-> {"r", "w"}, i_size |-> 2, i_block |-> <<b>>]
    <2>1. b \in Blocks BY NextBlockType
    <2>2. area \in InodeRecords BY <2>1 DEF InodeRecords, ModeBits
    <2>3. dir_prepare(s, m, type, n) = update_inode_entry(s2, m, area)
      BY <1>1 DEF dir_prepare
    <2>4. NewDirectory(m, n) \in [Slots -> Entries] BY NewDirectoryType
    <2>5. Worse(s, s1) BY OperatorsWorse
    <2>6. Worse(s1, s2) BY <2>1, <2>4, <2>5, OperatorsWorse DEF Worse
    <2> HIDE DEF s1, s2, b, area
    <2>7. Worse(s2, update_inode_entry(s2, m, area)) BY <2>2, <2>6, OperatorsWorse DEF Worse
    <2> QED BY <2>3, <2>5, <2>6, <2>7, WorseTransitive
  <1>2. CASE type # DIR
    <2> DEFINE area == [i_mode |-> ModeBits, i_size |-> 0, i_block |-> <<>>]
    <2>1. area \in InodeRecords BY DEF InodeRecords
    <2>2. dir_prepare(s, m, type, n) = update_inode_entry(s, m, area)
      BY <1>2 DEF dir_prepare
    <2> HIDE DEF area
    <2> QED BY <2>1, <2>2, OperatorsWorse
  <1> QED BY <1>1, <1>2

(* So does filling a free slot.                                            *)
LEMMA FillSlotWorse ==
  ASSUME NEW s \in FileSystems, NEW n \in Inodes, NEW name \in Arguments,
         NEW type \in {FILE, DIR}, NEW p \in Positions(s, n),
         NEW to \in 1 .. Len(Area(s, n).i_block)
  PROVE  Worse(s, FillSlot(s, n, name, type, p, to))
  <1> DEFINE m == next_inode(s)
             content == [BlockAt(s, n, p[1]) EXCEPT ![p[2]] = NewEntry(m, type, name)]
             s0 == get_inode(s)
             s1 == update_dir(s0, Area(s, n).i_block[to], content)
             area == [Area(s, n) EXCEPT !.i_size = @ + 1]
             s2 == update_inode_entry(s1, n, area)
             s3 == IF to = p[1] THEN s2 ELSE fault(s2, {"lastblock"})
             s4 == stamp(s3, content, {0, 1})
  <1>1. m \in 0 .. InodeCount BY NextInodeRange
  <1>2. content \in [Slots -> Entries]
    <2>1. NewEntry(m, type, name) \in Entries BY <1>1, EntryConstructors
    <2> QED BY <1>1, <2>1, EntryAtType, BlockAtType
  <1>3. Area(s, n).i_block[to] \in Blocks BY BlockAtType
  <1>4. area \in InodeRecords BY AreaType DEF InodeRecords
  <1>5. n \in 0 .. InodeCount BY SizesAssumption DEF Inodes
  <1>6. FillSlot(s, n, name, type, p, to) = dir_prepare(s4, m, type, n) BY DEF FillSlot
  <1>7. Worse(s, s0) BY OperatorsWorse
  <1> HIDE DEF s0, area, content
  <1>8. Worse(s0, s1) BY <1>2, <1>3, <1>7, OperatorsWorse DEF Worse
  <1> HIDE DEF s1
  <1>9. Worse(s1, s2) BY <1>4, <1>5, <1>8, OperatorsWorse DEF Worse
  <1> HIDE DEF s2
  <1>10. Worse(s2, s3)
    <2>1. {"lastblock"} \in SUBSET Faults BY DEF Faults
    <2>2. Worse(s2, fault(s2, {"lastblock"})) BY <1>9, <2>1, OperatorsWorse DEF Worse
    <2> QED BY <1>9, <2>2 DEF Worse
  <1> HIDE DEF s3
  <1>11. Worse(s3, s4) BY <1>10, OperatorsWorse DEF Worse
  <1> HIDE DEF s4
  <1>12. Worse(s4, dir_prepare(s4, m, type, n)) BY <1>1, <1>11, DirPrepareWorse DEF Worse
  <1> QED BY <1>6, <1>7, <1>8, <1>9, <1>10, <1>11, <1>12, WorseTransitive

(* So does adding a block to the directory.                                *)
LEMMA AppendBlockWorse ==
  ASSUME NEW s \in FileSystems, NEW n \in Inodes, NEW name \in Arguments,
         NEW type \in {FILE, DIR}
  PROVE  Worse(s, AppendBlock(s, n, name, type))
  <1> DEFINE b == next_block(s)
             s1 == alloc_block(s)
             m == next_inode(s1)
             content == [k \in Slots |->
                            IF k = 0 THEN NewEntry(m, type, name) ELSE Empty]
             s0 == get_inode(s1)
             s2 == update_dir(s0, b, content)
             area == [Area(s, n) EXCEPT !.i_size = @ + 1, !.i_block = Append(@, b)]
             s3 == update_inode_entry(s2, n, area)
  <1>1. b \in Blocks BY NextBlockType
  <1>2. AppendBlock(s, n, name, type) = dir_prepare(s3, m, type, n) BY DEF AppendBlock
  <1>3. Worse(s, s1) BY OperatorsWorse
  <1>4. area \in InodeRecords
    <2>1. Append(Area(s, n).i_block, b) \in Seq(Blocks) BY <1>1, AreaType
    <2>2. Area(s, n).i_size + 1 \in Int BY AreaType
    <2> QED BY <2>1, <2>2, AreaType DEF InodeRecords
  <1> HIDE DEF s1, area
  <1>5. m \in 0 .. InodeCount BY <1>3, NextInodeRange DEF Worse
  <1>6. content \in [Slots -> Entries] BY <1>5, EntryConstructors
  <1>7. n \in 0 .. InodeCount BY SizesAssumption DEF Inodes
  <1>8. Worse(s1, s0) BY <1>3, OperatorsWorse DEF Worse
  <1> HIDE DEF s0, content
  <1>9. Worse(s0, s2) BY <1>1, <1>6, <1>8, OperatorsWorse DEF Worse
  <1> HIDE DEF s2
  <1>10. Worse(s2, s3) BY <1>4, <1>7, <1>9, OperatorsWorse DEF Worse
  <1> HIDE DEF s3, m
  <1>11. Worse(s3, dir_prepare(s3, m, type, n)) BY <1>5, <1>10, DirPrepareWorse DEF Worse
  <1> QED BY <1>2, <1>3, <1>8, <1>9, <1>10, <1>11, WorseTransitive
-----------------------------------------------------------------------------
(* The inductive invariant. *)

BlockLists == [n \in Inodes |-> BlockList(n)]

OpenNames(F) ==
    \A q \in 0 .. OpenSlots - 2 :
        fopen_table[q] # 0 =>
            /\ fopen_table[q] \in F
            /\ \A r \in 0 .. OpenSlots - 2 : fopen_table[r] = fopen_table[q] => r = q

Writing(F) == mode = "write" => call.inode \in F /\ call.length <= MaxSize

Here(D, path) == current_dir \in D /\ current_path = path[current_dir]

InOrder(D, F, up, path) ==
    /\ Shape(fs, D, F, up, path)
    /\ Stored(fs, D, F, BlockLists, Clean)
    /\ OpenNames(F)
    /\ Writing(F)
    /\ Here(D, path)

Ordered == Followed => \E D, F, up, path : InOrder(D, F, up, path)

(* Outside write_file the lists of blocks are those of the inode table. *)
LEMMA ListsOfTable ==
  /\ mode # "write" => BlockLists = Lists(fs)
  /\ mode' # "write" => BlockLists' = Lists(fs')
BY DEF BlockLists, BlockList, Lists, Area

(* What a command finds. *)
Ready(D, F, up, path) ==
    /\ fs \in FileSystems
    /\ Shape(fs, D, F, up, path)
    /\ Stored(fs, D, F, Lists(fs), fs.faults = {})
    /\ OpenNames(F)
    /\ Here(D, path)
    /\ D \subseteq Inodes /\ F \subseteq Inodes

(* At the prompt the order of the disk is what a command starts from.      *)
LEMMA PromptReady ==
  ASSUME TypeOK, Prompt, NEW D, NEW F, NEW up, NEW path, InOrder(D, F, up, path)
  PROVE  Ready(D, F, up, path)
  <1>1. mode = "prompt" BY DEF Prompt
  <1>2. Stored(fs, D, F, Lists(fs), Clean) BY <1>1, ListsOfTable DEF InOrder
  <1>3. (fs.faults = {}) => Clean BY <1>1 DEF Clean
  <1>4. Stored(fs, D, F, Lists(fs), fs.faults = {}) BY <1>2, <1>3, StoredWeaker
  <1>5. D \subseteq Inodes /\ F \subseteq Inodes BY <1>2 DEF Stored
  <1> QED BY <1>4, <1>5 DEF InOrder, Ready, TypeOK

(* A command that has ended leaves order when Shape and Stored hold for    *)
(* its disk.                                                               *)
LEMMA OrderedAgain ==
  ASSUME mode' # "write", NEW D, NEW F, NEW up, NEW path,
         Shape(fs', D, F, up, path), NEW c, Stored(fs', D, F, Lists(fs'), c),
         Clean' => c, OpenNames(F)', Here(D, path)'
  PROVE  InOrder(D, F, up, path)'
  <1>1. Stored(fs', D, F, BlockLists', c) BY ListsOfTable
  <1>2. Stored(fs', D, F, BlockLists', Clean') BY <1>1, StoredWeaker
  <1> QED BY <1>2 DEF InOrder, Writing

(* A step that leaves the blocks, their lists and the entries alone. *)
LEMMA StoredSame ==
  ASSUME NEW s, NEW t, NEW D, NEW F, NEW l, NEW k, NEW clean, NEW c,
         Stored(s, D, F, l, clean), c => clean,
         \A n \in D \cup F : /\ Area(t, n).i_block = Area(s, n).i_block
                            /\ Area(t, n).i_size = Area(s, n).i_size
                            /\ k[n] = l[n],
         t.data = s.data,
         t.block_bitmap = s.block_bitmap,
         t.bg_free_blocks_count = s.bg_free_blocks_count
  PROVE  /\ \A d \in D : SameEntries(s, t, d)
         /\ Stored(t, D, F, k, c)
  <1>1. \A d \in D : SameEntries(s, t, d) BY EntriesSame
  <1>2. Stored(s, D, F, l, c) BY StoredWeaker
  <1>3. \A d \in D : DirSized(t, d, c) BY <1>1, <1>2, DirSizedSame DEF Stored
  <1>4. \A f \in F : FileSized(t, f) BY DEF Stored, FileSized
  <1>5. /\ Owned(t.block_bitmap, t.bg_free_blocks_count, D \cup F, k)
        /\ c => Exact(t.block_bitmap, D \cup F, k)
    BY <1>2 DEF Stored, Owned, Exact
  <1> QED BY <1>1, <1>2, <1>3, <1>4, <1>5 DEF Stored
-----------------------------------------------------------------------------
(* What a step does to the tree; n is the current directory. *)

StaysSame(D, F, up, path) ==
    /\ InOrder(D, F, up, path)'
    /\ \A d \in D : SameEntries(fs, fs', d)
    /\ \/ current_dir' \in {current_dir, Root, up[current_dir]}
       \/ current_dir' \in D \ {Root} /\ up[current_dir'] = current_dir

MakesFile(D, F, up, path, n, m, p, name) ==
    /\ name \in FileNames
    /\ m \in Inodes \ fs.inode_bitmap
    /\ \A q \in Used(fs, n) : EntryAt(fs, n, q).file_type = FILE
                                  => EntryAt(fs, n, q).name # name
    /\ Gains(fs, fs', n, p, NewEntry(m, FILE, name))
    /\ \A d \in D \ {n} : SameEntries(fs, fs', d)
    /\ InOrder(D, F \cup {m}, up, path)'

MakesDir(D, F, up, path, n, m, p, name) ==
    /\ name \in Names
    /\ m \in Inodes \ fs.inode_bitmap
    /\ \A q \in Used(fs, n) : EntryAt(fs, n, q).file_type = DIR
                                  => EntryAt(fs, n, q).name # name
    /\ Gains(fs, fs', n, p, NewEntry(m, DIR, name))
    /\ \A d \in D \ {n} : SameEntries(fs, fs', d)
    /\ Used(fs', m) = Dots
    /\ InOrder(D \cup {m}, F, Extended(up, D, m, n),
               Extended(path, D, m, Append(path[n], name)))'

LosesFile(D, F, up, path, n, c, p) ==
    /\ Loses(fs, fs', n, p)
    /\ p \notin Dots
    /\ EntryAt(fs, n, p).file_type = FILE
    /\ EntryAt(fs, n, p).inode = c
    /\ \A d \in D \ {n} : SameEntries(fs, fs', d)
    /\ InOrder(D, F \ {c}, up, path)'

LosesDir(D, F, up, path, n, c, p) ==
    /\ Loses(fs, fs', n, p)
    /\ p \notin Dots
    /\ EntryAt(fs, n, p).file_type = DIR
    /\ EntryAt(fs, n, p).inode = c
    /\ Used(fs, c) = Dots
    /\ \A d \in D \ {n} : SameEntries(fs, fs', d)
    /\ InOrder(D \ {c}, F, Without(up, D, c), Without(path, D, c))'

Changes(D, F, up, path) ==
    /\ UNCHANGED current_dir
    /\ \E n : n = current_dir /\
          \/ \E m, p, name : MakesFile(D, F, up, path, n, m, p, name)
          \/ \E m, p, name : MakesDir(D, F, up, path, n, m, p, name)
          \/ \E c, p : LosesFile(D, F, up, path, n, c, p)
          \/ \E c, p : LosesDir(D, F, up, path, n, c, p)

TreeStep(D, F, up, path) == StaysSame(D, F, up, path) \/ Changes(D, F, up, path)
-----------------------------------------------------------------------------
(* mkdir and cat. *)

(* get_inode never returns, after alloc_block or before it. *)
LEMMA StoredLose ==
  ASSUME NEW s \in FileSystems, NEW D, NEW F, NEW up, NEW path, NEW clean,
         Shape(s, D, F, up, path), Stored(s, D, F, Lists(s), clean),
         NEW t, t = alloc_block(s), Calm(t)
  PROVE  /\ Shape(t, D, F, up, path)
         /\ Stored(t, D, F, Lists(t), FALSE)
         /\ \A d \in D : SameEntries(s, t, d)
  <1> DEFINE b == next_block(s)
  <1>1. /\ b \in Blocks /\ b \notin s.block_bitmap
        /\ t.block_bitmap = s.block_bitmap \cup {b}
        /\ t.bg_free_blocks_count = s.bg_free_blocks_count - 1
        /\ t.inode_bitmap = s.inode_bitmap
        /\ t.inode_table = s.inode_table
        /\ t.data = s.data
    BY AllocCalm
  <1> HIDE DEF b
  <1>2. \A n : Area(t, n) = Area(s, n) BY <1>1 DEF Area
  <1>3. Lists(t) = Lists(s) BY <1>2 DEF Lists
  <1>4. \A d \in D : SameEntries(s, t, d)
    <2> TAKE d \in D
    <2>1. Area(t, d).i_block = Area(s, d).i_block BY <1>2
    <2> QED BY <1>1, <2>1, EntriesSame
  <1>5. Shape(t, D, F, up, path) BY <1>1, <1>4, ShapeSame
  <1>6. Stored(s, D, F, Lists(s), FALSE) BY StoredWeaker
  <1>7. \A d \in D : DirSized(t, d, FALSE)
    <2> TAKE d \in D
    <2>1. Area(t, d).i_block = Area(s, d).i_block /\ Area(t, d).i_size = Area(s, d).i_size
      BY <1>2
    <2>2. DirSized(s, d, FALSE) BY <1>6 DEF Stored
    <2> QED BY <1>4, <2>1, <2>2, DirSizedSame
  <1>8. \A f \in F : FileSized(t, f) BY <1>2, <1>6 DEF Stored, FileSized
  <1>9. Owned(t.block_bitmap, t.bg_free_blocks_count, D \cup F, Lists(t))
    <2>1. Owned(s.block_bitmap, s.bg_free_blocks_count, D \cup F, Lists(s))
      BY <1>6 DEF Stored
    <2> QED BY <2>1, <1>1, <1>3, OwnedLose
  <1>10. \A d \in D : Lists(t)[d] = Area(t, d).i_block BY <1>2, <1>3, <1>6 DEF Stored
  <1>11. D \subseteq Inodes /\ F \subseteq Inodes /\ D \cap F = {} BY <1>6 DEF Stored
  <1> QED BY <1>4, <1>5, <1>7, <1>8, <1>9, <1>10, <1>11 DEF Stored

(* A command that leaves its directory and the open table alone. *)
LEMMA HereAgain ==
  ASSUME NEW D, NEW F, NEW up, NEW path, Ready(D, F, up, path),
         UNCHANGED <<current_dir, current_path, fopen_table>>
  PROVE  /\ OpenNames(F)'
         /\ Here(D, path)'
         /\ \A G : F \subseteq G => OpenNames(G)'
         /\ \A E, way : current_dir \in E /\ way[current_dir] = path[current_dir]
               => Here(E, way)'
BY DEF Ready, OpenNames, Here

(* mkdir and cat: a name, an inode and, for a directory, a block with its  *)
(* dots.                                                                   *)
LEMMA AddOrdered ==
  ASSUME TypeOK, NEW D, NEW F, NEW up, NEW path, Ready(D, F, up, path),
         NEW name \in Arguments, NEW type \in {FILE, DIR},
         type = FILE => name \in FileNames, type = DIR => name \in Names,
         NEW to,
         \A p \in Positions(fs, current_dir) :
             to[p[1]] \in 1 .. Len(Area(fs, current_dir).i_block),
         Add(name, type, to), Followed'
  PROVE  TreeStep(D, F, up, path)
  <1> DEFINE clean == fs.faults = {}
  <1>0. PICK n : n = current_dir OBVIOUS
  <1>1. /\ fs \in FileSystems
        /\ Shape(fs, D, F, up, path)
        /\ Stored(fs, D, F, Lists(fs), clean)
        /\ n \in D /\ n \in Inodes
        /\ Calm(fs')
    BY <1>0 DEF Ready, Here, Followed, Calm
  <1>2. /\ reserch_file(fs, n, name, type) = {}
        /\ HasRoom(fs, n)
        /\ mode = "prompt"
        /\ UNCHANGED <<current_dir, current_path, fopen_table>>
    BY <1>0 DEF Add, Prompt
  <1>3. \A q \in Used(fs, n) : EntryAt(fs, n, q).file_type = type
                                  => EntryAt(fs, n, q).name # name
    BY <1>2, SearchFailed
  <1>4. CASE Spins(fs)
    <2>1. /\ fs' = IF Partial(fs, n) THEN fs ELSE alloc_block(fs)
          /\ mode' = "hung"
      BY <1>0, <1>4 DEF Add
    <2>2. /\ Shape(fs', D, F, up, path)
          /\ Stored(fs', D, F, Lists(fs'), FALSE)
          /\ \A d \in D : SameEntries(fs, fs', d)
      <3>1. CASE fs' = fs
        <4>1. Stored(fs, D, F, Lists(fs), FALSE) BY <1>1, StoredWeaker
        <4> QED BY <3>1, <4>1, <1>1 DEF SameEntries
      <3>2. CASE fs' = alloc_block(fs) BY <3>2, <1>1, StoredLose
      <3> QED BY <2>1, <3>1, <3>2
    <2>3. ~ Clean' /\ mode' # "write" BY <2>1 DEF Clean
    <2>4. InOrder(D, F, up, path)' BY <1>2, <2>2, <2>3, HereAgain, OrderedAgain
    <2> QED BY <1>2, <2>2, <2>4 DEF TreeStep, StaysSame
  <1>5. CASE ~ Spins(fs)
    <2>1. /\ UNCHANGED mode
          /\ \/ /\ Partial(fs, n)
                /\ \E p \in FreeSlot(fs, n) :
                      fs' = FillSlot(fs, n, name, type, p, to[p[1]])
             \/ Partial(fs, n) /\ FreeSlot(fs, n) = {} /\ fs' = fault(fs, {"noslot"})
             \/ ~ Partial(fs, n) /\ fs' = AppendBlock(fs, n, name, type)
      BY <1>0, <1>5 DEF Add
    <2>2. fs' # fault(fs, {"noslot"})
      <3>1. "noslot" \in fault(fs, {"noslot"}).faults BY <1>1 DEF fault, FileSystems
      <3> QED BY <3>1, <1>1 DEF Calm
    <2>3. /\ \/ /\ Partial(fs, n)
                /\ \E p \in FreeSlot(fs, n) : \E k \in 1 .. Len(Area(fs, n).i_block) :
                      fs' = FillSlot(fs, n, name, type, p, k)
             \/ ~ Partial(fs, n) /\ fs' = AppendBlock(fs, n, name, type)
      BY <1>0, <2>1, <2>2, FreeSlotType
    <2>4. Worse(fs, fs') BY <1>1, <2>3, FreeSlotType, FillSlotWorse, AppendBlockWorse
    <2>5. Clean' => clean BY <2>4 DEF Worse, Clean
    <2>6. mode' # "write" BY <1>2, <2>1
    <2> HIDE DEF clean
    <2>7. \E m \in Inodes : \E u \in FileSystems : \E p :
             Entered(fs, u, fs', n, p, m, type, name, D, F, clean)
      BY <1>1, <1>2, <2>3, EnteredExists
    <2>8. PICK m \in Inodes : \E u \in FileSystems : \E p :
             Entered(fs, u, fs', n, p, m, type, name, D, F, clean)
      BY <2>7
    <2>9. PICK u \in FileSystems : \E p :
             Entered(fs, u, fs', n, p, m, type, name, D, F, clean)
      BY <2>8
    <2>10. PICK p : Entered(fs, u, fs', n, p, m, type, name, D, F, clean) BY <2>9
    <2>11. m \in Inodes \ fs.inode_bitmap BY <2>10 DEF Entered
    <2>12. CASE type = FILE
      <3>1. /\ Gains(fs, fs', n, p, NewEntry(m, FILE, name))
            /\ \A d \in D \ {n} : SameEntries(fs, fs', d)
            /\ Shape(fs', D, F \cup {m}, up, path)
            /\ Stored(fs', D, F \cup {m}, Lists(fs'), clean)
        <4>1. Entered(fs, u, fs', n, p, m, FILE, name, D, F, clean) BY <2>10, <2>12
        <4>2. \A q \in Used(fs, n) : EntryAt(fs, n, q).file_type = FILE
                                        => EntryAt(fs, n, q).name # name
          BY <1>3, <2>12
        <4>3. name \in FileNames BY <2>12
        <4>4. WithFile(fs, fs', D, F, up, path, n, p, m, name, clean)
          BY <1>1, <4>1, <4>2, <4>3, FileAdded
        <4> QED BY <4>4 DEF WithFile
      <3>2. OpenNames(F \cup {m})' /\ Here(D, path)' BY <1>2, HereAgain
      <3>3. InOrder(D, F \cup {m}, up, path)'
        BY <2>5, <2>6, <3>1, <3>2, OrderedAgain
      <3>4. MakesFile(D, F, up, path, n, m, p, name)
        BY <1>3, <2>11, <2>12, <3>1, <3>3 DEF MakesFile
      <3> QED BY <1>0, <1>2, <3>4 DEF TreeStep, Changes
    <2>13. CASE type = DIR
      <3> DEFINE up2 == Extended(up, D, m, n)
                 path2 == Extended(path, D, m, Append(path[n], name))
      <3>1. /\ Gains(fs, fs', n, p, NewEntry(m, DIR, name))
            /\ \A d \in D \ {n} : SameEntries(fs, fs', d)
            /\ Used(fs', m) = Dots
            /\ m \notin D \cup F
            /\ Shape(fs', D \cup {m}, F, up2, path2)
            /\ Stored(fs', D \cup {m}, F, Lists(fs'), clean)
        <4>1. Entered(fs, u, fs', n, p, m, DIR, name, D, F, clean) BY <2>10, <2>13
        <4>2. \A q \in Used(fs, n) : EntryAt(fs, n, q).file_type = DIR
                                        => EntryAt(fs, n, q).name # name
          BY <1>3, <2>13
        <4>3. name \in Names BY <2>13
        <4>4. WithDir(fs, fs', D, F, up, path, n, p, m, name, clean)
          BY <1>1, <4>1, <4>2, <4>3, DirAdded
        <4> QED BY <4>4 DEF WithDir
      <3>2. path2[n] = path[n] BY <1>1, <3>1 DEF Extended
      <3> HIDE DEF up2, path2
      <3>3. OpenNames(F)' /\ Here(D \cup {m}, path2)'
        <4>1. OpenNames(F)' BY <1>2, HereAgain
        <4>2. n \in D \cup {m} /\ current_path = path2[n] BY <1>0, <1>1, <3>2 DEF Ready, Here
        <4> QED BY <4>1, <4>2, <1>0, <1>2 DEF Here
      <3>4. InOrder(D \cup {m}, F, up2, path2)'
        <4> DEFINE D2 == D \cup {m}
        <4>1. /\ Shape(fs', D2, F, up2, path2)
              /\ Stored(fs', D2, F, Lists(fs'), clean)
              /\ OpenNames(F)' /\ Here(D2, path2)'
          BY <3>1, <3>3
        <4> HIDE DEF D2
        <4>2. InOrder(D2, F, up2, path2)' BY <4>1, <2>5, <2>6, OrderedAgain
        <4> QED BY <4>2 DEF D2
      <3>5. MakesDir(D, F, up, path, n, m, p, name)
        BY <1>3, <2>11, <2>13, <3>1, <3>4 DEF MakesDir, up2, path2
      <3> QED BY <1>0, <1>2, <3>5 DEF TreeStep, Changes
    <2> QED BY <2>12, <2>13
  <1> QED BY <1>4, <1>5

(* mkdir adds a directory of the chosen name.                              *)
LEMMA MkdirOrdered ==
  ASSUME TypeOK, NEW D, NEW F, NEW up, NEW path, Ready(D, F, up, path),
         NEW tmp \in Names, mkdir(tmp), Followed'
  PROVE  TreeStep(D, F, up, path)
  <1> DEFINE last == Len(Area(fs, current_dir).i_block)
             to == [i \in 1 .. last |-> last]
  <1>1. fs \in FileSystems /\ current_dir \in Inodes BY DEF TypeOK
  <1>2. last \in Nat BY <1>1, AreaType
  <1>3. \A p \in Positions(fs, current_dir) : p[1] \in 1 .. last BY <1>1, EntryAtType
  <1>4. \A p \in Positions(fs, current_dir) : to[p[1]] \in 1 .. last BY <1>2, <1>3
  <1>5. tmp \in Arguments BY DEF Arguments
  <1>6. Add(tmp, DIR, to) BY DEF mkdir
  <1>7. DIR # FILE BY DEF DIR, FILE
  <1> HIDE DEF to
  <1> QED BY <1>4, <1>5, <1>6, <1>7, AddOrdered

(* cat adds a file of the chosen name.                                     *)
LEMMA CatOrdered ==
  ASSUME TypeOK, NEW D, NEW F, NEW up, NEW path, Ready(D, F, up, path),
         NEW tmp \in FileNames, cat(tmp), Followed'
  PROVE  TreeStep(D, F, up, path)
  <1> DEFINE last == Len(Area(fs, current_dir).i_block)
             to == [i \in 1 .. last |-> i]
  <1>1. fs \in FileSystems /\ current_dir \in Inodes BY DEF TypeOK
  <1>2. \A p \in Positions(fs, current_dir) : to[p[1]] \in 1 .. last
    BY <1>1, EntryAtType
  <1>3. tmp \in Arguments BY SizesAssumption DEF Arguments
  <1>4. Add(tmp, FILE, to) BY DEF cat
  <1>5. DIR # FILE BY DEF DIR, FILE
  <1> HIDE DEF to
  <1> QED BY <1>2, <1>3, <1>4, <1>5, AddOrdered
-----------------------------------------------------------------------------
(* rmdir and del. *)

(* rmdir takes an empty directory out of the tree, with its block.         *)
LEMMA RmdirOrdered ==
  ASSUME TypeOK, NEW D, NEW F, NEW up, NEW path, Ready(D, F, up, path),
         NEW tmp \in Names, rmdir(tmp), Followed'
  PROVE  TreeStep(D, F, up, path)
  <1>0. PICK n : n = current_dir OBVIOUS
  <1>1. /\ fs \in FileSystems
        /\ Shape(fs, D, F, up, path)
        /\ Stored(fs, D, F, Lists(fs), fs.faults = {})
        /\ n \in D /\ current_path = path[n]
        /\ Calm(fs')
    BY <1>0 DEF Ready, Here, Followed, Calm
  <1>2. PICK p \in reserch_file(fs, n, tmp, DIR) :
         LET child == EntryAt(fs, n, p).inode
             s1 == remove_block(fs, Area(fs, child).i_block[1])
             s2 == ClearSlot(remove_inode(s1, child), n, p)
             last == IF Len(Area(fs, n).i_block) > 1 THEN 2 ELSE p[1]
         IN /\ Area(fs, child).i_size = 2
            /\ IF SweepHangs(s2, n)
                 THEN fs' = s2 /\ mode' = "hung"
                 ELSE /\ fs' = stamp(Swept(s2, n), BlockAt(s2, n, last), {p[1] - 1})
                      /\ UNCHANGED mode
    BY <1>0 DEF rmdir
  <1>3. PICK c : c = EntryAt(fs, n, p).inode OBVIOUS
  <1>4. PICK u : u = ClearSlot(remove_inode(remove_block(fs, Area(fs, c).i_block[1]), c), n, p)
    OBVIOUS
  <1>5. /\ mode = "prompt"
        /\ UNCHANGED <<current_dir, current_path, fopen_table>>
    BY DEF rmdir, Prompt
  <1> DEFINE over == fs.faults = {} /\ ~ SweepHangs(u, n)
  <1>6. over \in BOOLEAN OBVIOUS
  <1>7. /\ Area(fs, c).i_size = 2
        /\ \/ SweepHangs(u, n) /\ fs' = u /\ ~ over
           \/ /\ ~ SweepHangs(u, n)
              /\ fs' = stamp(Swept(u, n),
                             BlockAt(u, n, IF Len(Area(fs, n).i_block) > 1 THEN 2 ELSE p[1]),
                             {p[1] - 1})
              /\ over => fs.faults = {}
    BY <1>2, <1>3, <1>4
  <1>8. SweepHangs(u, n) => mode' = "hung" BY <1>2, <1>3, <1>4
  <1>9. mode' # "write" BY <1>2, <1>5
  <1>10. (fs').faults = {} /\ mode' # "hung" => (fs').faults = {} /\ ~ SweepHangs(u, n)
    BY <1>8
  <1> HIDE DEF over
  <1>11. DirGone(fs, fs', D, F, up, path, n, p, c, over)
    <2>1. RmdirDisk(fs, u, fs', n, p, c, fs.faults = {}, over)
      BY <1>3, <1>4, <1>7 DEF RmdirDisk
    <2> QED BY <1>1, <1>6, <2>1, RmdirResult
  <1>12. /\ c \in D \ {Root, n}
         /\ p \notin Dots
         /\ Loses(fs, fs', n, p)
         /\ \A d \in D \ {n} : SameEntries(fs, fs', d)
         /\ (fs').faults = fs.faults
         /\ Shape(fs', D \ {c}, F, Without(up, D, c), Without(path, D, c))
         /\ Stored(fs', D \ {c}, F, Lists(fs'), over)
    BY <1>11 DEF DirGone, Removed, Cleared
  <1>13. Clean' => over BY <1>10, <1>12 DEF Clean, over
  <1>14. InOrder(D \ {c}, F, Without(up, D, c), Without(path, D, c))'
    <2> DEFINE D2 == D \ {c}
               up2 == Without(up, D, c)
               path2 == Without(path, D, c)
    <2>1. n \in D2 /\ path2[n] = path[n] BY <1>1, <1>12 DEF Without
    <2>2. Shape(fs', D2, F, up2, path2) /\ Stored(fs', D2, F, Lists(fs'), over) BY <1>12
    <2> HIDE DEF D2, up2, path2
    <2>3. Here(D2, path2)' BY <2>1, <1>0, <1>1, <1>5 DEF Here
    <2>4. OpenNames(F)' BY <1>5, HereAgain
    <2>5. InOrder(D2, F, up2, path2)' BY <2>2, <2>3, <2>4, <1>9, <1>13, OrderedAgain
    <2> QED BY <2>5 DEF D2, up2, path2
  <1>15. Used(fs, c) = Dots BY <1>1, <1>7, <1>12, EmptyDirectory
  <1>16. EntryAt(fs, n, p).file_type = DIR BY SearchFound
  <1>17. LosesDir(D, F, up, path, n, c, p)
    BY <1>3, <1>12, <1>14, <1>15, <1>16 DEF LosesDir
  <1> QED BY <1>0, <1>5, <1>17 DEF TreeStep, Changes

(* del closes the file: its first slot of the open table is the only one   *)
(* before the last slot.                                                   *)
LEMMA ClosedNames ==
  ASSUME TypeOK, NEW F, OpenNames(F), NEW c \in F, F \subseteq Inodes,
         fopen_table' = WithSlots(FirstOpen(c), 0)
  PROVE  OpenNames(F \ {c})' /\ OpenNames(F)'
  <1>1. fopen_table \in [0 .. OpenSlots - 1 -> 0 .. InodeCount] BY DEF TypeOK
  <1>2. OpenSlots \in Nat BY ConstantFacts
  <1>3. \A q \in 0 .. OpenSlots - 2 : q \in 0 .. OpenSlots - 1 BY <1>2
  <1>4. \A q \in 0 .. OpenSlots - 1 :
           fopen_table'[q] = IF q \in FirstOpen(c) THEN 0 ELSE fopen_table[q]
    BY <1>1 DEF WithSlots
  <1>5. ASSUME NEW q \in 0 .. OpenSlots - 2, fopen_table[q] = c
        PROVE  q \in FirstOpen(c)
    <2>1. c # 0 BY DEF Inodes
    <2>2. ASSUME NEW r \in 0 .. OpenSlots - 1, r < q PROVE fopen_table[r] # c
      <3>1. r \in 0 .. OpenSlots - 2 /\ r # q BY <2>2, <1>2
      <3> QED BY <3>1, <2>1, <1>5 DEF OpenNames
    <2> QED BY <2>2, <1>1, <1>3, <1>5 DEF FirstOpen
  <1>6. ASSUME NEW q \in 0 .. OpenSlots - 2, fopen_table'[q] # 0
        PROVE  /\ fopen_table'[q] = fopen_table[q]
               /\ fopen_table[q] # 0 /\ fopen_table[q] # c
    BY <1>3, <1>4, <1>5, <1>6
  <1>7. ASSUME NEW q \in 0 .. OpenSlots - 2, fopen_table'[q] # 0
        PROVE  /\ fopen_table'[q] \in F \ {c}
               /\ \A r \in 0 .. OpenSlots - 2 : fopen_table'[r] = fopen_table'[q] => r = q
    BY <1>6, <1>7 DEF OpenNames
  <1> QED BY <1>7 DEF OpenNames

(* del takes a file out of the tree, with all its blocks.                  *)
LEMMA DelOrdered ==
  ASSUME TypeOK, NEW D, NEW F, NEW up, NEW path, Ready(D, F, up, path),
         NEW tmp, del(tmp), Followed'
  PROVE  TreeStep(D, F, up, path)
  <1>0. PICK n : n = current_dir OBVIOUS
  <1>1. /\ fs \in FileSystems
        /\ Shape(fs, D, F, up, path)
        /\ Stored(fs, D, F, Lists(fs), fs.faults = {})
        /\ n \in D /\ current_path = path[n]
        /\ Calm(fs')
        /\ OpenNames(F) /\ F \subseteq Inodes
    BY <1>0 DEF Ready, Here, Followed, Calm
  <1>2. PICK p \in reserch_file(fs, n, tmp, FILE) :
         LET file == EntryAt(fs, n, p).inode
             s1 == stamp(fs, BlockAt(fs, n, p[1]), {0, 1})
             s2 == ClearSlot(remove_blocks(s1, Area(fs, file)), n, p)
         IN /\ fopen_table' = WithSlots(FirstOpen(file), 0)
            /\ IF SweepHangs(s2, n)
                 THEN fs' = s2 /\ mode' = "hung"
                 ELSE fs' = Swept(s2, n) /\ UNCHANGED mode
    BY <1>0 DEF del
  <1>3. PICK c : c = EntryAt(fs, n, p).inode OBVIOUS
  <1>4. PICK u : u = ClearSlot(remove_blocks(stamp(fs, BlockAt(fs, n, p[1]), {0, 1}),
                                             Area(fs, c)), n, p)
    OBVIOUS
  <1>5. /\ mode = "prompt"
        /\ UNCHANGED <<current_dir, current_path>>
        /\ fopen_table' = WithSlots(FirstOpen(c), 0)
    BY <1>2, <1>3 DEF del, Prompt
  <1> DEFINE over == fs.faults = {} /\ ~ SweepHangs(u, n)
  <1>6. over \in BOOLEAN OBVIOUS
  <1>7. \/ SweepHangs(u, n) /\ fs' = u /\ ~ over
        \/ ~ SweepHangs(u, n) /\ fs' = Swept(u, n) /\ (over => fs.faults = {})
    BY <1>2, <1>3, <1>4
  <1>8. SweepHangs(u, n) => mode' = "hung" BY <1>2, <1>3, <1>4
  <1>9. mode' # "write" BY <1>2, <1>5
  <1>10. (fs').faults = {} /\ mode' # "hung" => (fs').faults = {} /\ ~ SweepHangs(u, n)
    BY <1>8
  <1> HIDE DEF over
  <1>11. FileGone(fs, fs', D, F, up, path, n, p, c, over)
    BY <1>1, <1>3, <1>4, <1>6, <1>7, DelResult
  <1>12. /\ c \in F
         /\ p \notin Dots
         /\ Loses(fs, fs', n, p)
         /\ \A d \in D \ {n} : SameEntries(fs, fs', d)
         /\ (fs').faults = fs.faults
         /\ Shape(fs', D, F \ {c}, up, path)
         /\ Stored(fs', D, F \ {c}, Lists(fs'), over)
    BY <1>11 DEF FileGone, Removed, Cleared
  <1>13. Clean' => over BY <1>10, <1>12 DEF Clean, over
  <1>14. InOrder(D, F \ {c}, up, path)'
    <2>1. Here(D, path)' BY <1>0, <1>1, <1>5 DEF Here
    <2>2. OpenNames(F \ {c})' BY <1>1, <1>5, <1>12, ClosedNames
    <2> DEFINE F2 == F \ {c}
    <2>3. Shape(fs', D, F2, up, path) /\ Stored(fs', D, F2, Lists(fs'), over) /\ OpenNames(F2)'
      BY <2>2, <1>12
    <2> HIDE DEF F2
    <2>4. InOrder(D, F2, up, path)' BY <2>1, <2>3, <1>9, <1>13, OrderedAgain
    <2> QED BY <2>4 DEF F2
  <1>15. EntryAt(fs, n, p).file_type = FILE BY SearchFound
  <1>16. LosesFile(D, F, up, path, n, c, p)
    BY <1>3, <1>12, <1>14, <1>15 DEF LosesFile
  <1> QED BY <1>0, <1>5, <1>16 DEF TreeStep, Changes
-----------------------------------------------------------------------------
(* The commands that leave the tree alone, up to the current directory. *)

(* A disk that differs only in attributes and times, or not at all, is in  *)
(* order still.                                                            *)
LEMMA PlainStep ==
  ASSUME NEW D, NEW F, NEW up, NEW path, NEW clean,
         Shape(fs, D, F, up, path), Stored(fs, D, F, Lists(fs), clean),
         \A k \in Inodes : /\ Area(fs', k).i_block = Area(fs, k).i_block
                          /\ Area(fs', k).i_size = Area(fs, k).i_size,
         (fs').data = fs.data,
         (fs').inode_bitmap = fs.inode_bitmap,
         (fs').block_bitmap = fs.block_bitmap,
         (fs').bg_free_blocks_count = fs.bg_free_blocks_count,
         mode' # "write", Clean' => clean, OpenNames(F)', Here(D, path)',
         \/ current_dir' \in {current_dir, Root, up[current_dir]}
         \/ current_dir' \in D \ {Root} /\ up[current_dir'] = current_dir
  PROVE  TreeStep(D, F, up, path)
  <1>1. D \subseteq Inodes /\ F \subseteq Inodes BY DEF Stored
  <1>2. Lists(fs') = Lists(fs) BY DEF Lists
  <1>3. /\ \A d \in D : SameEntries(fs, fs', d)
        /\ Stored(fs', D, F, Lists(fs'), clean)
    BY <1>1, <1>2, StoredSame
  <1>4. Shape(fs', D, F, up, path) BY <1>3, ShapeSame
  <1>5. InOrder(D, F, up, path)' BY <1>3, <1>4, OrderedAgain
  <1> QED BY <1>3, <1>5 DEF TreeStep, StaysSame

(* What Append adds, SubSeq takes off. *)
LEMMA FrontOfAppend ==
  ASSUME NEW S, NEW q \in Seq(S), NEW x
  PROVE  SubSeq(Append(q, x), 1, Len(Append(q, x)) - 1) = q
  <1>1. q \in Seq(S \cup {x}) /\ x \in S \cup {x} OBVIOUS
  <1>2. Append(q, x) \in Seq(S \cup {x}) /\ Len(Append(q, x)) = Len(q) + 1
    BY <1>1, AppendProperties
  <1> QED BY <1>1, <1>2, SubSeqProperties, AppendProperties

(* cd moves along one entry, to a child or back by "..".                   *)
LEMMA CdOrdered ==
  ASSUME TypeOK, NEW D, NEW F, NEW up, NEW path, Ready(D, F, up, path),
         NEW tmp \in Arguments, cd(tmp)
  PROVE  TreeStep(D, F, up, path)
  <1>0. PICK n : n = current_dir OBVIOUS
  <1>1. /\ Shape(fs, D, F, up, path)
        /\ Stored(fs, D, F, Lists(fs), fs.faults = {})
        /\ n \in D /\ current_path = path[n]
        /\ OpenNames(F)
    BY <1>0 DEF Ready, Here
  <1>2. /\ mode = "prompt"
        /\ UNCHANGED <<fs, fopen_table, mode>>
    BY DEF cd, Prompt
  <1>3. PICK p \in reserch_file(fs, n, tmp, DIR) :
         /\ current_dir' = EntryAt(fs, n, p).inode
         /\ current_path' =
              CASE tmp = "." -> current_path
                [] tmp = ".." ->
                     IF EntryAt(fs, n, <<p[1], p[2] - 1>>).inode = Root
                       THEN current_path
                       ELSE SubSeq(current_path, 1, Len(current_path) - 1)
                [] OTHER -> Append(current_path, tmp)
    BY <1>0 DEF cd
  <1>4. p \in Used(fs, n) /\ EntryAt(fs, n, p).file_type = DIR /\ EntryAt(fs, n, p).name = tmp
    BY SearchFound
  <1>5. /\ Here(D, path)'
        /\ \/ current_dir' \in {n, Root, up[n]}
           \/ current_dir' \in D \ {Root} /\ up[current_dir'] = n
    <2>1. CASE tmp = "."
      <3>1. EntryAt(fs, n, p).inode = n BY <2>1, <1>1, <1>4, EntryKinds DEF NewEntry
      <3>2. current_dir' = n /\ current_path' = current_path BY <3>1, <2>1, <1>3
      <3> QED BY <3>2, <1>1 DEF Here
    <2>2. CASE tmp = ".."
      <3>1. p = <<1, 1>> BY <2>2, <1>1, <1>4, EntryKinds
      <3>2. EntryAt(fs, n, p).inode = up[n] BY <3>1, <1>1, <1>4, EntryKinds DEF NewEntry
      <3>3. <<p[1], p[2] - 1>> = <<1, 0>> BY <3>1
      <3>4. EntryAt(fs, n, <<1, 0>>).inode = n
        <4>1. EntryAt(fs, n, <<1, 0>>) = NewEntry(n, DIR, ".") BY <1>1 DEF Shape, Dotted
        <4> QED BY <4>1 DEF NewEntry
      <3>5. current_path' = IF n = Root THEN current_path
                              ELSE SubSeq(current_path, 1, Len(current_path) - 1)
        <4>1. current_path' = IF EntryAt(fs, n, <<p[1], p[2] - 1>>).inode = Root
                                THEN current_path
                                ELSE SubSeq(current_path, 1, Len(current_path) - 1)
          BY <2>2, <1>3
        <4> QED BY <4>1, <3>3, <3>4
      <3>6. current_dir' = up[n] BY <3>2, <1>3
      <3>7. CASE n = Root
        <4>1. up[n] = Root BY <3>7, <1>1 DEF Shape, Pathed
        <4> QED BY <4>1, <3>5, <3>6, <3>7, <1>1 DEF Here
      <3>8. CASE n # Root
        <4>1. /\ up[n] \in D
              /\ \E q \in Used(fs, up[n]) \ Dots :
                    /\ EntryAt(fs, up[n], q).inode = n
                    /\ ChildDir(EntryAt(fs, up[n], q), up[n], D, up, path)
          BY <3>8, <1>1, ChildIsOther
        <4>2. PICK name : path[n] = Append(path[up[n]], name) BY <4>1 DEF ChildDir
        <4>3. path[up[n]] \in Seq(Names) BY <4>1, <1>1 DEF Shape, Pathed
        <4>4. SubSeq(path[n], 1, Len(path[n]) - 1) = path[up[n]]
          <5>1. \A q \in Seq(Names) :
                   SubSeq(Append(q, name), 1, Len(Append(q, name)) - 1) = q
            BY FrontOfAppend
          <5> QED BY <5>1, <4>2, <4>3
        <4> QED BY <4>1, <4>4, <3>5, <3>6, <3>8, <1>1 DEF Here
      <3> QED BY <3>7, <3>8
    <2>3. CASE tmp \notin {".", ".."}
      <3>1. ChildDir(EntryAt(fs, n, p), n, D, up, path) BY <2>3, <1>1, <1>4, EntryKinds
      <3>2. current_path' = Append(current_path, tmp) BY <2>3, <1>3
      <3> QED BY <3>1, <3>2, <1>1, <1>3, <1>4 DEF ChildDir, Here
    <2> QED BY <2>1, <2>2, <2>3
  <1>6. OpenNames(F)' BY <1>1, <1>2 DEF OpenNames
  <1>7. fs' = fs /\ mode' # "write" /\ (Clean' => fs.faults = {}) BY <1>2 DEF Clean
  <1> QED BY <1>0, <1>1, <1>5, <1>6, <1>7, PlainStep

(* attrib changes the mode of a file or of a directory only.               *)
LEMMA AttribOrdered ==
  ASSUME TypeOK, NEW D, NEW F, NEW up, NEW path, Ready(D, F, up, path),
         NEW tmp, NEW attr, attrib(tmp, attr)
  PROVE  TreeStep(D, F, up, path)
  <1>1. fs \in FileSystems /\ current_dir \in Inodes BY DEF TypeOK
  <1>2. PICK type \in {FILE, DIR} : \E p \in reserch_file(fs, current_dir, tmp, type) :
          LET n == EntryAt(fs, current_dir, p).inode IN
          fs' = update_inode_entry(fs, n,
                    [Area(fs, n) EXCEPT !.i_mode = NewMode(@, attr)])
    BY DEF attrib
  <1>3. PICK p \in reserch_file(fs, current_dir, tmp, type) :
          LET n == EntryAt(fs, current_dir, p).inode IN
          fs' = update_inode_entry(fs, n,
                    [Area(fs, n) EXCEPT !.i_mode = NewMode(@, attr)])
    BY <1>2
  <1> DEFINE n == EntryAt(fs, current_dir, p).inode
             area == [Area(fs, n) EXCEPT !.i_mode = NewMode(Area(fs, n).i_mode, attr)]
  <1>4. n \in Inodes BY <1>1, FoundType
  <1>5. NewMode(Area(fs, n).i_mode, attr) \in SUBSET ModeBits
    BY <1>1, <1>4, AreaType DEF NewMode, ModeBits
  <1>6. /\ area \in InodeRecords
        /\ area.i_block = Area(fs, n).i_block
        /\ area.i_size = Area(fs, n).i_size
    BY <1>1, <1>4, <1>5, AreaType DEF InodeRecords
  <1>7. fs' = update_inode_entry(fs, n, area) BY <1>3
  <1> HIDE DEF n, area
  <1>8. /\ Area(fs', n) = area
        /\ \A k \in Inodes \ {n} : Area(fs', k) = Area(fs, k)
        /\ (fs').inode_bitmap = fs.inode_bitmap
        /\ (fs').block_bitmap = fs.block_bitmap
        /\ (fs').bg_free_blocks_count = fs.bg_free_blocks_count
        /\ (fs').data = fs.data
        /\ (fs').faults = fs.faults
    BY <1>1, <1>4, <1>6, <1>7, UpdateInodeResult
  <1>9. ASSUME NEW k \in Inodes
        PROVE  /\ Area(fs', k).i_block = Area(fs, k).i_block
               /\ Area(fs', k).i_size = Area(fs, k).i_size
    <2>1. CASE k = n BY <2>1, <1>6, <1>8
    <2>2. CASE k # n BY <2>2, <1>8
    <2> QED BY <2>1, <2>2
  <1>10. /\ mode' # "write"
         /\ UNCHANGED <<current_dir, current_path, fopen_table>>
    BY DEF attrib, Prompt
  <1>11. Clean' => fs.faults = {} BY <1>8 DEF Clean
  <1>12. OpenNames(F)' /\ Here(D, path)' BY <1>10, HereAgain
  <1> QED BY <1>8, <1>9, <1>10, <1>11, <1>12, PlainStep DEF Ready

(* The file that open and close find. *)
LEMMA FoundFile ==
  ASSUME NEW D, NEW F, NEW up, NEW path, Ready(D, F, up, path),
         NEW tmp, NEW p \in reserch_file(fs, current_dir, tmp, FILE)
  PROVE  /\ EntryAt(fs, current_dir, p).inode \in F
         /\ EntryAt(fs, current_dir, p).inode \in Inodes
         /\ EntryAt(fs, current_dir, p).inode # 0
  <1>1. p \in Used(fs, current_dir) /\ EntryAt(fs, current_dir, p).file_type = FILE
    BY SearchFound
  <1>2. EntryAt(fs, current_dir, p).inode \in F
    BY <1>1, EntryKinds DEF Ready, Here, ChildFile
  <1>3. F \subseteq Inodes BY DEF Ready
  <1>4. \A m \in Inodes : m # 0 BY ConstantFacts DEF Inodes
  <1> QED BY <1>2, <1>3, <1>4

(* open enters a file of the tree into fopen_table.                        *)
LEMMA OpenOrdered ==
  ASSUME TypeOK, NEW D, NEW F, NEW up, NEW path, Ready(D, F, up, path),
         NEW tmp, open_file(tmp), Followed'
  PROVE  TreeStep(D, F, up, path)
  <1>1. PICK p \in reserch_file(fs, current_dir, tmp, FILE) :
         LET n == EntryAt(fs, current_dir, p).inode IN
         /\ ~test_fd(n)
         /\ fopen_table' = WithSlots(FirstOpen(0), n)
         /\ fs' = IF FirstOpen(0) = {} THEN fault(fs, {"openslot"}) ELSE fs
    BY DEF open_file
  <1>2. PICK n : n = EntryAt(fs, current_dir, p).inode OBVIOUS
  <1>3. /\ ~test_fd(n)
        /\ fopen_table' = WithSlots(FirstOpen(0), n)
        /\ n \in F /\ n # 0
    BY <1>1, <1>2, FoundFile
  <1>4. fs' = fs
    <2>1. "openslot" \in fault(fs, {"openslot"}).faults BY DEF Ready, fault, FileSystems
    <2>2. fs' # fault(fs, {"openslot"}) BY <2>1 DEF Followed
    <2> QED BY <2>2, <1>1
  <1>5. /\ mode' # "write"
        /\ UNCHANGED <<current_dir, current_path, mode>>
    BY DEF open_file, Prompt
  <1>6. OpenNames(F)'
    <2>1. fopen_table \in [0 .. OpenSlots - 1 -> 0 .. InodeCount] BY DEF TypeOK
    <2>2. OpenSlots \in Nat BY ConstantFacts
    <2>3. \A q \in 0 .. OpenSlots - 2 : q \in 0 .. OpenSlots - 1 BY <2>2
    <2>4. \A q \in 0 .. OpenSlots - 2 :
             fopen_table'[q] = IF q \in FirstOpen(0) THEN n ELSE fopen_table[q]
      BY <1>3, <2>1, <2>3 DEF WithSlots
    <2>5. \A q, r \in 0 .. OpenSlots - 2 : q \in FirstOpen(0) /\ r \in FirstOpen(0) => q = r
      BY <2>1, <2>2, <2>3 DEF FirstOpen
    <2>6. \A q \in 0 .. OpenSlots - 2 : fopen_table[q] # n BY <1>3 DEF test_fd
    <2>7. OpenNames(F) BY DEF Ready
    <2>8. ASSUME NEW q \in 0 .. OpenSlots - 2, fopen_table'[q] # 0
          PROVE  /\ fopen_table'[q] \in F
                 /\ \A r \in 0 .. OpenSlots - 2 : fopen_table'[r] = fopen_table'[q] => r = q
      <3>1. CASE q \in FirstOpen(0)
        <4>1. fopen_table'[q] = n BY <2>4, <3>1
        <4> QED BY <4>1, <3>1, <1>3, <2>4, <2>5, <2>6
      <3>2. CASE q \notin FirstOpen(0)
        <4>1. fopen_table'[q] = fopen_table[q] BY <2>4, <3>2
        <4>2. fopen_table[q] # n BY <2>6
        <4> QED BY <4>1, <4>2, <2>4, <2>7, <2>8 DEF OpenNames
      <3> QED BY <3>1, <3>2
    <2> QED BY <2>8 DEF OpenNames
  <1>7. Here(D, path)' BY <1>5 DEF Ready, Here
  <1>8. Clean' => fs.faults = {} BY <1>4 DEF Clean
  <1> QED BY <1>4, <1>5, <1>6, <1>7, <1>8, PlainStep DEF Ready

(* close takes it out again.                                               *)
LEMMA CloseOrdered ==
  ASSUME TypeOK, NEW D, NEW F, NEW up, NEW path, Ready(D, F, up, path),
         NEW tmp, close_file(tmp)
  PROVE  TreeStep(D, F, up, path)
  <1>1. PICK p \in reserch_file(fs, current_dir, tmp, FILE) :
           fopen_table' = WithSlots(FirstOpen(EntryAt(fs, current_dir, p).inode), 0)
    BY DEF close_file
  <1>2. PICK n : n = EntryAt(fs, current_dir, p).inode OBVIOUS
  <1>3. n \in F BY <1>2, FoundFile
  <1>4. OpenNames(F)'
    <2>1. OpenNames(F) /\ F \subseteq Inodes BY DEF Ready
    <2>2. fopen_table' = WithSlots(FirstOpen(n), 0) BY <1>1, <1>2
    <2> QED BY <2>1, <2>2, <1>3, ClosedNames
  <1>5. /\ mode' # "write" /\ fs' = fs
        /\ UNCHANGED <<current_dir, current_path, mode>>
    BY DEF close_file, Prompt
  <1>6. Here(D, path)' BY <1>5 DEF Ready, Here
  <1>7. Clean' => fs.faults = {} BY <1>5 DEF Clean
  <1> QED BY <1>4, <1>5, <1>6, <1>7, PlainStep DEF Ready
-----------------------------------------------------------------------------
(***************************************************************************)
(* The commands that write: write_file block by block, and what starts the *)
(* program.                                                                *)
(***************************************************************************)

(* The blocks a text needs never outgrow i_block: write_file cuts it. *)
LEMMA NeedBlocksFit ==
  ASSUME NEW length \in Nat, length <= MaxSize
  PROVE  need_blocks(length) \in Nat /\ need_blocks(length) <= MaxBlocks
  <1>1. EntriesPerBlock \in Nat /\ EntriesPerBlock > 0 /\ MaxBlocks \in Nat
    BY SizesAssumption, ConstantFacts
  <1> DEFINE q == (length + EntriesPerBlock - 1) \div EntriesPerBlock
             r == (length + EntriesPerBlock - 1) % EntriesPerBlock
  <1>2. q \in Int /\ r \in 0 .. EntriesPerBlock - 1
        /\ length + EntriesPerBlock - 1 = EntriesPerBlock * q + r
    BY <1>1
  <1> HIDE DEF q, r
  <1>3. length <= EntriesPerBlock * MaxBlocks BY <1>1 DEF MaxSize
  <1>4. EntriesPerBlock * q < EntriesPerBlock * MaxBlocks + EntriesPerBlock
    BY <1>1, <1>2, <1>3
  <1>5. q < MaxBlocks + 1
    <2>1. SUFFICES ASSUME q >= MaxBlocks + 1 PROVE FALSE BY <1>1, <1>2
    <2>2. EntriesPerBlock * q >= EntriesPerBlock * (MaxBlocks + 1) BY <2>1, <1>1, <1>2
    <2> QED BY <2>2, <1>1, <1>2, <1>4
  <1>6. q >= 0
    <2>1. SUFFICES ASSUME q <= -1 PROVE FALSE BY <1>2
    <2>2. EntriesPerBlock * q <= -EntriesPerBlock BY <2>1, <1>1, <1>2
    <2> QED BY <2>2, <1>1, <1>2
  <1> QED BY <1>1, <1>2, <1>5, <1>6 DEF need_blocks, q

(* The lists of blocks while write_file is at work. *)
LEMMA WriteLists ==
  ASSUME TypeOK, mode = "write", NEW D, NEW F, NEW up, NEW path, InOrder(D, F, up, path)
  PROVE  /\ call.inode \in F /\ call.inode \notin D /\ call.inode \in Inodes
         /\ call.length \in Nat /\ call.length <= MaxSize
         /\ BlockLists[call.inode] = call.i_block
         /\ \A m \in Inodes \ {call.inode} : BlockLists[m] = Area(fs, m).i_block
         /\ D \subseteq Inodes /\ F \subseteq Inodes
  <1>1. call.inode \in Inodes /\ call.length \in Nat BY DEF TypeOK, Calls
  <1>2. call.inode \in F /\ call.length <= MaxSize BY DEF InOrder, Writing
  <1>3. D \subseteq Inodes /\ F \subseteq Inodes /\ D \cap F = {} BY DEF InOrder, Stored
  <1> QED BY <1>1, <1>2, <1>3 DEF BlockLists, BlockList

(* One block more or one less for the file that is written. *)
LEMMA WriteStep ==
  ASSUME TypeOK, mode = "write", NEW D, NEW F, NEW up, NEW path, InOrder(D, F, up, path),
         UNCHANGED <<current_dir, current_path, fopen_table, mode>>,
         call'.inode = call.inode, call'.length = call.length,
         (fs').inode_table = fs.inode_table,
         (fs').inode_bitmap = fs.inode_bitmap,
         (fs').data = fs.data,
         (fs').faults = fs.faults,
         Owned((fs').block_bitmap, (fs').bg_free_blocks_count, D \cup F, BlockLists'),
         Exact(fs.block_bitmap, D \cup F, BlockLists)
             => Exact((fs').block_bitmap, D \cup F, BlockLists')
  PROVE  TreeStep(D, F, up, path)
  <1>1. /\ call.inode \notin D
        /\ D \subseteq Inodes
        /\ \A m \in Inodes \ {call.inode} : BlockLists[m] = Area(fs, m).i_block
    BY WriteLists
  <1>2. \A m : Area(fs', m) = Area(fs, m) BY DEF Area
  <1>3. \A d \in D : SameEntries(fs, fs', d) BY <1>2, EntriesSame
  <1>4. Shape(fs', D, F, up, path) BY <1>3, ShapeSame DEF InOrder
  <1>5. Clean' = Clean BY DEF Clean
  <1>6. Stored(fs, D, F, BlockLists, Clean) BY DEF InOrder
  <1>7. \A d \in D : BlockLists'[d] = Area(fs', d).i_block
    BY <1>1 DEF BlockLists, BlockList
  <1>8. \A d \in D : DirSized(fs', d, Clean')
    BY <1>2, <1>3, <1>5, <1>6, DirSizedSame DEF Stored
  <1>9. \A f \in F : FileSized(fs', f) BY <1>2, <1>6 DEF Stored, FileSized
  <1>10. Stored(fs', D, F, BlockLists', Clean')
    BY <1>5, <1>6, <1>7, <1>8, <1>9 DEF Stored
  <1>11. OpenNames(F)' BY DEF InOrder, OpenNames
  <1>12. Writing(F)' BY DEF InOrder, Writing
  <1>13. Here(D, path)' BY DEF InOrder, Here
  <1>14. InOrder(D, F, up, path)' BY <1>4, <1>10, <1>11, <1>12, <1>13 DEF InOrder
  <1> QED BY <1>3, <1>14 DEF TreeStep, StaysSame

(* write_file takes one block more: marked before the inode owns it.       *)
LEMMA WriteGrowOrdered ==
  ASSUME TypeOK, NEW D, NEW F, NEW up, NEW path, InOrder(D, F, up, path),
         WriteGrow, Followed'
  PROVE  TreeStep(D, F, up, path)
  <1>0. PICK b : b = next_block(fs) OBVIOUS
  <1>1. /\ mode = "write"
        /\ Len(call.i_block) < need_blocks(call.length)
        /\ fs' = alloc_block(fs)
        /\ call' = [call EXCEPT !.i_block = Append(@, b)]
        /\ UNCHANGED <<current_dir, current_path, fopen_table, mode>>
    BY <1>0 DEF WriteGrow
  <1>2. fs \in FileSystems /\ call \in Calls BY DEF TypeOK
  <1>3. Calm(fs') BY DEF Followed, Calm
  <1>4. /\ b \in Blocks /\ b \notin fs.block_bitmap
        /\ (fs').block_bitmap = fs.block_bitmap \cup {b}
        /\ (fs').bg_free_blocks_count = fs.bg_free_blocks_count - 1
        /\ (fs').inode_bitmap = fs.inode_bitmap
        /\ (fs').inode_table = fs.inode_table
        /\ (fs').data = fs.data
        /\ (fs').faults = fs.faults
    BY <1>0, <1>1, <1>2, <1>3, AllocCalm
  <1>5. PICK f : f = call.inode OBVIOUS
  <1>6. /\ f \in F /\ f \in Inodes
        /\ call.length \in Nat /\ call.length <= MaxSize
        /\ BlockLists[f] = call.i_block
        /\ D \subseteq Inodes /\ F \subseteq Inodes
        /\ \A m \in Inodes \ {f} : BlockLists[m] = Area(fs, m).i_block
    BY <1>1, <1>5, WriteLists
  <1>7. /\ call'.inode = call.inode /\ call'.length = call.length
        /\ call'.i_block = Append(call.i_block, b)
    BY <1>1, <1>2 DEF Calls
  <1>8. \A m \in Inodes : (BlockLists')[m] = IF m = f THEN Append(BlockLists[f], b)
                                             ELSE BlockLists[m]
    <2>1. (BlockLists')[f] = Append(BlockLists[f], b)
      BY <1>1, <1>5, <1>6, <1>7 DEF BlockLists, BlockList
    <2>2. ASSUME NEW m \in Inodes \ {f} PROVE (BlockLists')[m] = BlockLists[m]
      BY <1>1, <1>4, <1>5, <1>7 DEF BlockLists, BlockList, Area
    <2> QED BY <2>1, <2>2
  <1>9. Len(BlockLists[f]) < MaxBlocks
    <2>1. need_blocks(call.length) \in Nat /\ need_blocks(call.length) <= MaxBlocks
      BY <1>6, NeedBlocksFit
    <2>2. Len(call.i_block) \in Nat BY <1>2 DEF Calls
    <2> QED BY <2>1, <2>2, <1>1, <1>6, ConstantFacts
  <1>10. Owned(fs.block_bitmap, fs.bg_free_blocks_count, D \cup F, BlockLists)
    BY DEF InOrder, Stored
  <1>11. /\ Owned((fs').block_bitmap, (fs').bg_free_blocks_count, D \cup F, BlockLists')
         /\ Exact(fs.block_bitmap, D \cup F, BlockLists)
                => Exact((fs').block_bitmap, D \cup F, BlockLists')
    <2> DEFINE N == D \cup F
               k == BlockLists'
               l == BlockLists
    <2>1. f \in N /\ k[f] = Append(l[f], b) /\ \A m \in N \ {f} : k[m] = l[m]
      BY <1>6, <1>8
    <2>2. Owned(fs.block_bitmap, fs.bg_free_blocks_count, N, l) BY <1>10
    <2>3. Len(l[f]) < MaxBlocks BY <1>9
    <2> HIDE DEF N, k, l
    <2>4. /\ Owned(fs.block_bitmap \cup {b}, fs.bg_free_blocks_count - 1, N, k)
          /\ Exact(fs.block_bitmap, N, l) => Exact(fs.block_bitmap \cup {b}, N, k)
      BY <2>1, <2>2, <2>3, <1>4, OwnedTake
    <2> QED BY <2>4, <1>4 DEF N, k, l
  <1> QED BY <1>1, <1>4, <1>7, <1>11, WriteStep

(* write_file gives its last block back.                                   *)
LEMMA WriteShrinkOrdered ==
  ASSUME TypeOK, NEW D, NEW F, NEW up, NEW path, InOrder(D, F, up, path), WriteShrink
  PROVE  TreeStep(D, F, up, path)
  <1>1. /\ mode = "write"
        /\ Len(call.i_block) > need_blocks(call.length)
        /\ fs' = remove_block(fs, call.i_block[Len(call.i_block)])
        /\ call' = [call EXCEPT !.i_block = SubSeq(@, 1, Len(@) - 1)]
        /\ UNCHANGED <<current_dir, current_path, fopen_table, mode>>
    BY DEF WriteShrink
  <1>2. fs \in FileSystems /\ call \in Calls BY DEF TypeOK
  <1>3. PICK f : f = call.inode OBVIOUS
  <1>4. /\ f \in F /\ f \in Inodes
        /\ call.length \in Nat /\ call.length <= MaxSize
        /\ BlockLists[f] = call.i_block
        /\ D \subseteq Inodes /\ F \subseteq Inodes
        /\ \A m \in Inodes \ {f} : BlockLists[m] = Area(fs, m).i_block
    BY <1>1, <1>3, WriteLists
  <1>5. PICK b : b = call.i_block[Len(call.i_block)] OBVIOUS
  <1>6. /\ (fs').block_bitmap = fs.block_bitmap \ {b}
        /\ (fs').bg_free_blocks_count = fs.bg_free_blocks_count + 1
        /\ (fs').inode_bitmap = fs.inode_bitmap
        /\ (fs').inode_table = fs.inode_table
        /\ (fs').data = fs.data
        /\ (fs').faults = fs.faults
    BY <1>1, <1>2, <1>5 DEF remove_block, FileSystems
  <1>7. /\ call'.inode = call.inode /\ call'.length = call.length
        /\ call'.i_block = SubSeq(call.i_block, 1, Len(call.i_block) - 1)
    BY <1>1, <1>2 DEF Calls
  <1>8. \A m \in Inodes : (BlockLists')[m] =
            IF m = f THEN SubSeq(BlockLists[f], 1, Len(BlockLists[f]) - 1)
                     ELSE BlockLists[m]
    <2>1. (BlockLists')[f] = SubSeq(BlockLists[f], 1, Len(BlockLists[f]) - 1)
      BY <1>1, <1>3, <1>4, <1>7 DEF BlockLists, BlockList
    <2>2. ASSUME NEW m \in Inodes \ {f} PROVE (BlockLists')[m] = BlockLists[m]
      BY <1>1, <1>6, <1>3, <1>7 DEF BlockLists, BlockList, Area
    <2> QED BY <2>1, <2>2
  <1>9. Len(BlockLists[f]) > 0
    <2>1. need_blocks(call.length) \in Nat BY <1>4, NeedBlocksFit
    <2>2. Len(call.i_block) \in Nat BY <1>2 DEF Calls
    <2> QED BY <2>1, <2>2, <1>1, <1>4
  <1>10. Owned(fs.block_bitmap, fs.bg_free_blocks_count, D \cup F, BlockLists)
    BY DEF InOrder, Stored
  <1>11. /\ Owned((fs').block_bitmap, (fs').bg_free_blocks_count, D \cup F, BlockLists')
         /\ Exact(fs.block_bitmap, D \cup F, BlockLists)
                => Exact((fs').block_bitmap, D \cup F, BlockLists')
    <2> DEFINE N == D \cup F
               k == BlockLists'
               l == BlockLists
    <2>1. /\ f \in N /\ k[f] = SubSeq(l[f], 1, Len(l[f]) - 1)
          /\ \A m \in N \ {f} : k[m] = l[m]
      BY <1>4, <1>8
    <2>2. Owned(fs.block_bitmap, fs.bg_free_blocks_count, N, l) BY <1>10
    <2>3. Len(l[f]) > 0 /\ b = l[f][Len(l[f])] BY <1>4, <1>5, <1>9
    <2> HIDE DEF N, k, l
    <2>4. /\ Owned(fs.block_bitmap \ {l[f][Len(l[f])]}, fs.bg_free_blocks_count + 1, N, k)
          /\ Exact(fs.block_bitmap, N, l)
                 => Exact(fs.block_bitmap \ {l[f][Len(l[f])]}, N, k)
      BY <2>1, <2>2, <2>3, OwnedGive
    <2> QED BY <2>3, <2>4, <1>6 DEF N, k, l
  <1> QED BY <1>1, <1>6, <1>7, <1>11, WriteStep

(* write starts with the blocks the file has.                              *)
LEMMA WriteBeginOrdered ==
  ASSUME TypeOK, NEW D, NEW F, NEW up, NEW path, Ready(D, F, up, path),
         NEW tmp, NEW text \in Texts, WriteBegin(tmp, text)
  PROVE  TreeStep(D, F, up, path)
  <1>1. PICK p \in reserch_file(fs, current_dir, tmp, FILE) :
          LET n == EntryAt(fs, current_dir, p).inode IN
          call' = [inode |-> n,
                   i_block |-> Area(fs, n).i_block,
                   length |-> Length(text),
                   block |-> Area(fs, current_dir).i_block[p[1]]]
    BY DEF WriteBegin
  <1>2. PICK n : n = EntryAt(fs, current_dir, p).inode OBVIOUS
  <1>3. /\ call'.inode = n
        /\ call'.i_block = Area(fs, n).i_block
        /\ call'.length = Length(text)
    BY <1>1, <1>2
  <1>4. /\ mode' = "write" /\ fs' = fs
        /\ UNCHANGED <<current_dir, current_path, fopen_table>>
    BY DEF WriteBegin
  <1>5. n \in F BY <1>2, FoundFile
  <1>6. Length(text) <= MaxSize
    <2>1. MaxSize \in Nat /\ text \in Nat BY SizesAssumption, ConstantFacts DEF MaxSize
    <2> QED BY <2>1 DEF Length
  <1>7. BlockLists' = Lists(fs) BY <1>3, <1>4 DEF BlockLists, BlockList, Lists, Area
  <1>8. Clean' <=> fs.faults = {} BY <1>4 DEF Clean
  <1>9. Stored(fs', D, F, BlockLists', Clean')
    <2>1. Stored(fs, D, F, Lists(fs), fs.faults = {}) BY DEF Ready
    <2>2. Stored(fs, D, F, Lists(fs), Clean') BY <2>1, <1>8, StoredWeaker
    <2> QED BY <2>2, <1>4, <1>7
  <1>10. Shape(fs', D, F, up, path) BY <1>4 DEF Ready
  <1>11. OpenNames(F)' /\ Here(D, path)' BY <1>4, HereAgain
  <1>12. Writing(F)' BY <1>3, <1>5, <1>6 DEF Writing
  <1>13. InOrder(D, F, up, path)' BY <1>9, <1>10, <1>11, <1>12 DEF InOrder
  <1>14. \A d \in D : SameEntries(fs, fs', d) BY <1>4 DEF SameEntries
  <1> QED BY <1>4, <1>13, <1>14 DEF TreeStep, StaysSame

(* The inode is written last, with the blocks and the size of the text.    *)
LEMMA WriteEndOrdered ==
  ASSUME TypeOK, NEW D, NEW F, NEW up, NEW path, InOrder(D, F, up, path),
         WriteEnd, Followed'
  PROVE  TreeStep(D, F, up, path)
  <1>1. PICK f : f = call.inode OBVIOUS
  <1>2. PICK size : size = IF call.i_block = <<>> THEN Area(fs, f).i_size ELSE call.length
    OBVIOUS
  <1>3. FinishWrite(size) BY <1>1, <1>2 DEF WriteEnd
  <1>4. /\ mode = "write" /\ mode' = "prompt"
        /\ Len(call.i_block) = need_blocks(call.length)
        /\ UNCHANGED <<current_dir, current_path, fopen_table>>
    BY <1>3 DEF FinishWrite
  <1>5. /\ f \in F /\ f \notin D /\ f \in Inodes
        /\ BlockLists[f] = call.i_block
        /\ D \subseteq Inodes /\ F \subseteq Inodes
        /\ \A m \in Inodes \ {f} : BlockLists[m] = Area(fs, m).i_block
    BY <1>1, <1>4, WriteLists
  <1>6. fs \in FileSystems /\ call.i_block \in Seq(Blocks) /\ call.length \in Nat
    BY DEF TypeOK, Calls
  <1> DEFINE s1 == stamp(fs, fs.data[call.block], {0, 1})
             data2 == [b \in Blocks |-> IF b \in BlocksOf(call)
                                          THEN [k \in Slots |-> Text]
                                          ELSE s1.data[b]]
             s2 == [s1 EXCEPT !.data = data2]
             area == [Area(fs, f) EXCEPT !.i_size = size, !.i_block = call.i_block]
  <1>7. fs' = update_inode_entry(s2, f, area) BY <1>1, <1>3 DEF FinishWrite
  <1>8. /\ area \in InodeRecords
        /\ area.i_block = call.i_block
        /\ area.i_size = size
    <2>1. Area(fs, f) \in InodeRecords /\ Area(fs, f).i_size \in Int
      BY <1>5, <1>6, AreaType
    <2>2. size \in Int BY <1>2, <1>6, <2>1
    <2> QED BY <2>1, <2>2, <1>6 DEF InodeRecords
  <1>9. s1 \in FileSystems BY <1>6, StampType
  <1>10. Text \in Entries BY EntryConstructors
  <1>11. /\ s2 \in FileSystems
         /\ s2.data = data2
         /\ s2.inode_table = s1.inode_table
         /\ s2.inode_bitmap = s1.inode_bitmap
         /\ s2.block_bitmap = s1.block_bitmap
         /\ s2.bg_free_blocks_count = s1.bg_free_blocks_count
         /\ s2.faults = s1.faults
    <2> HIDE DEF s1
    <2>1. data2 \in [Blocks -> [Slots -> Entries]] BY <1>9, <1>10 DEF FileSystems
    <2> HIDE DEF data2
    <2> QED BY <1>9, <2>1 DEF FileSystems
  <1> HIDE DEF s1, s2, area
  <1>12. /\ Area(fs', f) = area
         /\ \A k \in Inodes \ {f} : Area(fs', k) = Area(s2, k)
         /\ (fs').inode_bitmap = s2.inode_bitmap
         /\ (fs').block_bitmap = s2.block_bitmap
         /\ (fs').bg_free_blocks_count = s2.bg_free_blocks_count
         /\ (fs').data = s2.data
         /\ (fs').faults = s2.faults
    BY <1>5, <1>7, <1>8, <1>11, UpdateInodeResult
  <1>13. s1 = fs
    <2>1. Calm(s1) BY <1>11, <1>12 DEF Followed, Calm
    <2> QED BY <2>1, <1>6, StampCalm DEF s1
  <1>14. /\ \A k \in Inodes \ {f} : Area(fs', k) = Area(fs, k)
         /\ (fs').inode_bitmap = fs.inode_bitmap
         /\ (fs').block_bitmap = fs.block_bitmap
         /\ (fs').bg_free_blocks_count = fs.bg_free_blocks_count
         /\ (fs').faults = fs.faults
         /\ \A b \in Blocks \ BlocksOf(call) : (fs').data[b] = fs.data[b]
    BY <1>11, <1>12, <1>13 DEF Area
  <1>15. Stored(fs, D, F, BlockLists, Clean) BY DEF InOrder
  <1>16. ASSUME NEW d \in D PROVE SameEntries(fs, fs', d)
    <2>1. Area(fs', d).i_block = Area(fs, d).i_block BY <1>5, <1>14
    <2>2. ASSUME NEW i \in 1 .. Len(Area(fs, d).i_block)
          PROVE  (fs').data[Area(fs, d).i_block[i]] = fs.data[Area(fs, d).i_block[i]]
      <3>1. /\ Area(fs, d).i_block[i] \in Blocks
            /\ \A n \in D \cup F : \A j \in 1 .. Len(BlockLists[n]) :
                   BlockLists[n][j] = Area(fs, d).i_block[i] => n = d /\ j = i
        BY <1>15, BlocksApart
      <3>2. \A j \in 1 .. Len(call.i_block) : call.i_block[j] # Area(fs, d).i_block[i]
        BY <3>1, <1>5
      <3>3. Area(fs, d).i_block[i] \notin BlocksOf(call) BY <3>2 DEF BlocksOf
      <3> QED BY <3>1, <3>3, <1>14
    <2> QED BY <2>1, <2>2, EntriesSame
  <1>17. Shape(fs', D, F, up, path) BY <1>14, <1>16, ShapeSame DEF InOrder
  <1>18. \A n \in Inodes : Lists(fs')[n] = BlockLists[n]
    BY <1>5, <1>8, <1>12, <1>14 DEF Lists
  <1>19. Stored(fs', D, F, Lists(fs'), Clean)
    <2>1. \A d \in D : Lists(fs')[d] = Area(fs', d).i_block
      BY <1>5 DEF Lists
    <2>2. ASSUME NEW d \in D PROVE DirSized(fs', d, Clean)
      <3>1. Area(fs', d) = Area(fs, d) BY <1>5, <1>14
      <3>2. DirSized(fs, d, Clean) BY <1>15 DEF Stored
      <3> QED BY <3>1, <3>2, <1>16, DirSizedSame
    <2>3. ASSUME NEW g \in F PROVE FileSized(fs', g)
      <3>1. CASE g = f
        <4>1. Area(fs', g).i_block # <<>> => Area(fs', g).i_size = call.length
          BY <3>1, <1>2, <1>8, <1>12
        <4>2. Area(fs', g).i_block = call.i_block BY <3>1, <1>8, <1>12
        <4> QED BY <4>1, <4>2, <1>4 DEF FileSized
      <3>2. CASE g # f
        <4>1. Area(fs', g) = Area(fs, g) BY <3>2, <1>5, <1>14
        <4> QED BY <4>1, <1>15 DEF Stored, FileSized
      <3> QED BY <3>1, <3>2
    <2>4. Owned((fs').block_bitmap, (fs').bg_free_blocks_count, D \cup F, Lists(fs'))
      <3>1. \A n \in D \cup F : Lists(fs')[n] = BlockLists[n] BY <1>5, <1>18
      <3> QED BY <3>1, <1>14, <1>15 DEF Stored, Owned
    <2>5. Clean => Exact((fs').block_bitmap, D \cup F, Lists(fs'))
      <3>1. \A n \in D \cup F : Lists(fs')[n] = BlockLists[n] BY <1>5, <1>18
      <3> QED BY <3>1, <1>14, <1>15 DEF Stored, Exact
    <2> QED BY <2>1, <2>2, <2>3, <2>4, <2>5, <1>15 DEF Stored
  <1>20. Clean' => Clean BY <1>4, <1>14 DEF Clean
  <1>21. OpenNames(F)' /\ Here(D, path)' BY <1>4 DEF InOrder, OpenNames, Here
  <1>22. mode' # "write" BY <1>4
  <1>23. InOrder(D, F, up, path)' BY <1>17, <1>19, <1>20, <1>21, <1>22, OrderedAgain
  <1> QED BY <1>4, <1>16, <1>23 DEF TreeStep, StaysSame
-----------------------------------------------------------------------------
(* The program is started again, or the disk is formatted. *)

(* Only the hints of the allocators change. *)
LEMMA MemoryOrdered ==
  ASSUME TypeOK, NEW D, NEW F, NEW up, NEW path, Shape(fs, D, F, up, path),
         NEW clean, Stored(fs, D, F, Lists(fs), clean),
         NEW disk, initialize_memory(disk), disk \in FileSystems,
         disk.inode_table = fs.inode_table,
         disk.inode_bitmap = fs.inode_bitmap,
         disk.block_bitmap = fs.block_bitmap,
         disk.bg_free_blocks_count = fs.bg_free_blocks_count,
         disk.data = fs.data,
         disk.faults = {} => clean
  PROVE  TreeStep(D, F, up, path)
  <1>1. /\ fs' = [disk EXCEPT !.last_alloc_block = 0, !.last_alloc_inode = 1]
        /\ current_dir' = Root /\ current_path' = <<>>
        /\ fopen_table' = NoFilesOpen /\ mode' = "prompt"
    BY DEF initialize_memory
  <1>2. /\ (fs').inode_table = fs.inode_table
        /\ (fs').inode_bitmap = fs.inode_bitmap
        /\ (fs').block_bitmap = fs.block_bitmap
        /\ (fs').bg_free_blocks_count = fs.bg_free_blocks_count
        /\ (fs').data = fs.data
        /\ (fs').faults = disk.faults
    BY <1>1 DEF FileSystems
  <1>3. \A k \in Inodes : Area(fs', k) = Area(fs, k) BY <1>2 DEF Area
  <1>4. OpenNames(F)'
    <2>1. \A q \in 0 .. OpenSlots - 2 : fopen_table'[q] = 0
      BY <1>1, ConstantFacts DEF NoFilesOpen
    <2> QED BY <2>1 DEF OpenNames
  <1>5. Here(D, path)' BY <1>1 DEF Here, Shape, Marked, Pathed
  <1>6. mode' # "write" /\ (Clean' => clean) BY <1>1, <1>2 DEF Clean
  <1> QED BY <1>1, <1>2, <1>3, <1>4, <1>5, <1>6, PlainStep

(* quit and a new start keep the disk and forget the rest.                 *)
LEMMA RestartOrdered ==
  ASSUME TypeOK, NEW D, NEW F, NEW up, NEW path, Ready(D, F, up, path), Restart
  PROVE  TreeStep(D, F, up, path)
BY MemoryOrdered DEF Restart, Ready

(* A command that never ends is killed; the disk keeps what it had         *)
(* written.                                                                *)
LEMMA KillHungOrdered ==
  ASSUME TypeOK, NEW D, NEW F, NEW up, NEW path, InOrder(D, F, up, path), KillHung
  PROVE  TreeStep(D, F, up, path)
  <1>1. mode = "hung" /\ initialize_memory(fault(fs, {"killed"})) BY DEF KillHung
  <1>2. fs \in FileSystems BY DEF TypeOK
  <1>3. PICK disk : disk = fault(fs, {"killed"}) OBVIOUS
  <1>4. /\ disk \in FileSystems
        /\ disk.inode_table = fs.inode_table
        /\ disk.inode_bitmap = fs.inode_bitmap
        /\ disk.block_bitmap = fs.block_bitmap
        /\ disk.bg_free_blocks_count = fs.bg_free_blocks_count
        /\ disk.data = fs.data
        /\ "killed" \in disk.faults
    <2>1. {"killed"} \in SUBSET Faults BY DEF Faults
    <2>2. disk \in FileSystems BY <1>2, <1>3, <2>1, FaultType
    <2> QED BY <1>2, <1>3, <2>2 DEF fault, FileSystems
  <1>5. Stored(fs, D, F, Lists(fs), FALSE)
    <2>1. Stored(fs, D, F, Lists(fs), Clean) BY <1>1, ListsOfTable DEF InOrder
    <2> QED BY <2>1, StoredWeaker
  <1>6. Shape(fs, D, F, up, path) BY DEF InOrder
  <1>7. ~ (disk.faults = {}) BY <1>4
  <1> QED BY <1>1, <1>3, <1>4, <1>5, <1>6, <1>7, MemoryOrdered

(* A disk with a root directory and nothing else. *)
OnlyRoot(t) ==
    /\ t \in FileSystems
    /\ Shape(t, {Root}, {}, [d \in {Root} |-> Root], [d \in {Root} |-> <<>>])
    /\ Stored(t, {Root}, {}, Lists(t), TRUE)
    /\ Used(t, Root) = Dots
    /\ t.faults = {}
    /\ \A n \in Inodes \ {Root} : Area(t, n).i_block = <<>> /\ Area(t, n).i_size = 0

(* initialize_disk leaves the root, its two dots and its block.            *)
LEMMA FormattedDisk == OnlyRoot(initialize_disk)
  <1>1. PICK u : u = ZeroedDisk OBVIOUS
  <1>2. PICK b : b = next_block(u) OBVIOUS
  <1>3. PICK s1 : s1 = alloc_block(u) OBVIOUS
  <1>4. PICK n : n = next_inode(s1) OBVIOUS
  <1>5. PICK s2 : s2 = get_inode(s1) OBVIOUS
  <1>6. PICK root : root = [i_mode |-> {"r", "w"}, i_size |-> 2, i_block |-> <<b>>] OBVIOUS
  <1>7. PICK s3 : s3 = update_inode_entry(s2, n, root) OBVIOUS
  <1>8. PICK t : t = update_dir(s3, b, NewDirectory(n, n)) OBVIOUS
  <1>9. t = initialize_disk
    BY <1>1, <1>2, <1>3, <1>4, <1>5, <1>6, <1>7, <1>8 DEF initialize_disk
  <1>10. u \in FileSystems BY <1>1, ZeroedDiskType
  <1>11. /\ u.block_bitmap = {} /\ u.inode_bitmap = {} /\ u.faults = {}
         /\ u.bg_free_blocks_count = BlockCount
         /\ u.bg_free_inodes_count = InodeCount
         /\ u.last_alloc_inode = 1
    BY <1>1 DEF ZeroedDisk
  <1>12. /\ InodeCount \in Nat \ {0} /\ InodeCount % ByteBits = 0
         /\ BlockCount \in Nat \ {0}
    BY SizesAssumption
  <1>13. /\ s1 \in FileSystems /\ s1.faults = {} /\ b \in Blocks
         /\ s1.block_bitmap = {b}
         /\ s1.bg_free_blocks_count = BlockCount - 1
         /\ s1.inode_bitmap = {}
         /\ s1.bg_free_inodes_count = InodeCount
         /\ s1.last_alloc_inode = 1
         /\ s1.inode_table = u.inode_table
         /\ s1.data = u.data
    <2>1. b \in Blocks /\ s1 \in FileSystems
      BY <1>2, <1>3, <1>10, NextBlockType, AllocBlockType
    <2>2. u.block_bitmap # Blocks BY <1>11, ConstantFacts
    <2>3. s1 = [u EXCEPT !.block_bitmap = u.block_bitmap \cup {b},
                         !.last_alloc_block = b,
                         !.bg_free_blocks_count = u.bg_free_blocks_count - 1]
      BY <1>2, <1>3, <1>11, <1>12, <2>2 DEF alloc_block
    <2>4. {} \cup {b} = {b} OBVIOUS
    <2> QED BY <2>1, <2>3, <2>4, <1>10, <1>11 DEF FileSystems
  <1>14. n = Root
    <2>1. s1.inode_bitmap # Inodes BY <1>13, ConstantFacts
    <2>2. InodeBits(s1) = {} BY <1>13 DEF InodeBits
    <2>3. n = FirstClear(InodeBits(s1), s1.last_alloc_inode - 1, InodeCount) + 1
      BY <1>4, <1>12, <1>13, <2>1 DEF next_inode
    <2>4. s1.last_alloc_inode - 1 = 0 BY <1>13
    <2>5. n = FirstClear({}, 0, InodeCount) + 1 BY <2>2, <2>3, <2>4
    <2>6. FirstClear({}, 0, InodeCount) = 0 BY <1>12, FirstOfEmpty
    <2> QED BY <2>5, <2>6 DEF Root
  <1>15. /\ s2 \in FileSystems /\ s2.faults = {}
         /\ s2.inode_bitmap = {Root}
         /\ s2.block_bitmap = {b}
         /\ s2.bg_free_blocks_count = BlockCount - 1
         /\ s2.inode_table = u.inode_table
         /\ s2.data = u.data
    <2>1. n # 0 BY <1>14 DEF Root
    <2>2. s2 = [s1 EXCEPT !.inode_bitmap = s1.inode_bitmap \cup {n},
                          !.last_alloc_inode = n,
                          !.bg_free_inodes_count = s1.bg_free_inodes_count - 1]
      BY <1>4, <1>5, <2>1 DEF get_inode
    <2>3. s2 \in FileSystems BY <1>5, <1>13, GetInodeType
    <2>4. {} \cup {Root} = {Root} OBVIOUS
    <2> QED BY <2>2, <2>3, <2>4, <1>13, <1>14 DEF FileSystems
  <1>16. Root \in Inodes BY ConstantFacts
  <1>17. /\ root \in InodeRecords /\ root.i_block = <<b>> /\ root.i_size = 2
    BY <1>6, <1>13 DEF InodeRecords, ModeBits
  <1>18. /\ s3 \in FileSystems
         /\ Area(s3, Root) = root
         /\ \A k \in Inodes \ {Root} : Area(s3, k) = Area(s2, k)
         /\ s3.inode_bitmap = s2.inode_bitmap
         /\ s3.block_bitmap = s2.block_bitmap
         /\ s3.bg_free_blocks_count = s2.bg_free_blocks_count
         /\ s3.data = s2.data
         /\ s3.faults = s2.faults
    BY <1>7, <1>14, <1>15, <1>16, <1>17, UpdateInodeResult
  <1>19. NewDirectory(Root, Root) \in [Slots -> Entries]
    BY <1>16, NewDirectoryType, SizesAssumption DEF Inodes
  <1>20. /\ t \in FileSystems
         /\ t.data = [s3.data EXCEPT ![b] = NewDirectory(Root, Root)]
         /\ t.inode_table = s3.inode_table
         /\ t.inode_bitmap = s3.inode_bitmap
         /\ t.block_bitmap = s3.block_bitmap
         /\ t.bg_free_blocks_count = s3.bg_free_blocks_count
         /\ t.faults = s3.faults
    BY <1>8, <1>13, <1>14, <1>18, <1>19, UpdateDirResult
  <1>21. Stored(u, {}, {}, Lists(u), TRUE)
    <2>1. Cardinality({}) = 0 BY FS_EmptySet
    <2>2. Owned(u.block_bitmap, u.bg_free_blocks_count, {}, Lists(u))
      BY <1>11, <1>12, <2>1 DEF Owned
    <2>3. Exact(u.block_bitmap, {}, Lists(u)) BY <1>11 DEF Exact
    <2>4. {} \cup {} = {} OBVIOUS
    <2> QED BY <2>2, <2>3, <2>4 DEF Stored
  <1>22. /\ Area(t, Root).i_block = <<b>> /\ Area(t, Root).i_size = 2
         /\ \A k \in Inodes \ {Root} : Area(t, k) = Area(u, k)
         /\ t.data = [u.data EXCEPT ![b] = NewDirectory(Root, Root)]
         /\ t.block_bitmap = u.block_bitmap \cup {b}
         /\ t.bg_free_blocks_count = u.bg_free_blocks_count - 1
         /\ t.inode_bitmap = {Root}
         /\ t.faults = {}
    <2>1. \A k : Area(t, k) = Area(s3, k) BY <1>20 DEF Area
    <2>2. \A k : Area(s2, k) = Area(u, k) BY <1>15 DEF Area
    <2>3. {} \cup {b} = {b} OBVIOUS
    <2> QED BY <2>1, <2>2, <2>3, <1>11, <1>15, <1>17, <1>18, <1>20
  <1>23. /\ Used(t, Root) = Dots
         /\ EntryAt(t, Root, <<1, 0>>) = NewEntry(Root, DIR, ".")
         /\ EntryAt(t, Root, <<1, 1>>) = NewEntry(Root, DIR, "..")
         /\ Stored(t, {} \cup {Root}, {}, Lists(t), TRUE)
    <2>1. PICK E : E = {} OBVIOUS
    <2> DEFINE yes == TRUE
    <2>2. Stored(u, E, E, Lists(u), yes) BY <2>1, <1>21
    <2> HIDE DEF yes
    <2>3. Root \in Inodes \ (E \cup E) BY <2>1, <1>16
    <2>4. b \in Blocks /\ b \notin u.block_bitmap BY <1>11, <1>13
    <2>5. /\ Area(t, Root).i_block = <<b>> /\ Area(t, Root).i_size = 2
          /\ \A k \in Inodes \ {Root} : Area(t, k) = Area(u, k)
          /\ t.data = [u.data EXCEPT ![b] = NewDirectory(Root, Root)]
          /\ t.block_bitmap = u.block_bitmap \cup {b}
          /\ t.bg_free_blocks_count = u.bg_free_blocks_count - 1
      BY <1>22
    <2>6. t \in FileSystems BY <1>20
    <2>7. /\ Used(t, Root) = Dots
          /\ EntryAt(t, Root, <<1, 0>>) = NewEntry(Root, DIR, ".")
          /\ EntryAt(t, Root, <<1, 1>>) = NewEntry(Root, DIR, "..")
          /\ Stored(t, E \cup {Root}, E, Lists(t), yes)
      BY <2>2, <2>3, <2>4, <2>5, <2>6, <1>10, <1>16, StoredNewDir, SMTT(60)
    <2> QED BY <2>1, <2>7 DEF yes
  <1>24. Stored(t, {Root}, {}, Lists(t), TRUE)
    <2>1. {} \cup {Root} = {Root} OBVIOUS
    <2> QED BY <2>1, <1>23
  <1> DEFINE up == [d \in {Root} |-> Root]
             path == [d \in {Root} |-> <<>>]
  <1>25. Shape(t, {Root}, {}, up, path)
    <2>1. Marked(t, {Root}, {}) BY <1>22 DEF Marked
    <2>2. Pathed(t, {Root}, up, path)
      <3>1. Cardinality(t.inode_bitmap) = 1 BY <1>22, FS_Singleton
      <3>2. <<>> \in Seq(Names) /\ Len(<<>>) = 0 OBVIOUS
      <3> QED BY <3>1, <3>2 DEF Pathed
    <2>3. Dotted(t, {Root}, up) BY <1>23 DEF Dotted
    <2>4. Used(t, Root) \ Dots = {} BY <1>23
    <2>5. /\ Closed(t, {Root}, {}, up, path)
          /\ HasName(t, {Root}, {}, up)
          /\ OneName(t, {Root})
      BY <2>4 DEF Closed, HasName, OneName
    <2>6. Distinct(t, {Root})
      <3>1. \A p \in Used(t, Root) : p = <<1, 0>> \/ p = <<1, 1>> BY <1>23 DEF Dots
      <3>2. /\ EntryAt(t, Root, <<1, 0>>).name = "."
            /\ EntryAt(t, Root, <<1, 1>>).name = ".."
        BY <1>23 DEF NewEntry
      <3>3. "." # ".." OBVIOUS
      <3>4. \A p, q \in Used(t, Root) :
               EntryAt(t, Root, p).name = EntryAt(t, Root, q).name => p = q
        BY <3>1, <3>2, <3>3
      <3> QED BY <3>4 DEF Distinct
    <2> QED BY <2>1, <2>2, <2>3, <2>5, <2>6 DEF Shape
  <1>26. \A k \in Inodes \ {Root} : Area(t, k).i_block = <<>> /\ Area(t, k).i_size = 0
    BY <1>1, <1>22 DEF ZeroedDisk, Area
  <1>27. OnlyRoot(t) BY <1>20, <1>22, <1>23, <1>24, <1>25, <1>26 DEF OnlyRoot
  <1> QED BY <1>9, <1>27

(* initialize_memory sets the two hints. *)
LEMMA HintsReset ==
  ASSUME NEW s, OnlyRoot(s),
         NEW t, t = [s EXCEPT !.last_alloc_block = 0, !.last_alloc_inode = 1]
  PROVE  OnlyRoot(t)
  <1>1. s \in FileSystems BY DEF OnlyRoot
  <1>2. 0 \in Blocks /\ 1 \in Inodes BY ConstantFacts DEF Root
  <1>3. /\ t \in FileSystems
        /\ t.inode_table = s.inode_table
        /\ t.inode_bitmap = s.inode_bitmap
        /\ t.block_bitmap = s.block_bitmap
        /\ t.bg_free_blocks_count = s.bg_free_blocks_count
        /\ t.data = s.data
        /\ t.faults = s.faults
    BY <1>1, <1>2 DEF FileSystems
  <1>4. \A k : Area(t, k) = Area(s, k) BY <1>3 DEF Area
  <1>5. Lists(t) = Lists(s) BY <1>4 DEF Lists
  <1>6. Stored(s, {Root}, {}, Lists(s), TRUE) BY DEF OnlyRoot
  <1>7. /\ \A d \in {Root} : SameEntries(s, t, d)
        /\ Stored(t, {Root}, {}, Lists(t), TRUE)
    BY <1>3, <1>4, <1>5, <1>6, StoredSame
  <1>8. Shape(t, {Root}, {}, [d \in {Root} |-> Root], [d \in {Root} |-> <<>>])
    BY <1>3, <1>7, ShapeSame DEF OnlyRoot
  <1>9. Used(t, Root) = Dots BY <1>7 DEF SameEntries, OnlyRoot
  <1>10. \A n \in Inodes \ {Root} : Area(t, n).i_block = <<>> /\ Area(t, n).i_size = 0
    BY <1>4 DEF OnlyRoot
  <1> QED BY <1>3, <1>7, <1>8, <1>9, <1>10 DEF OnlyRoot

(* A disk with only the root is in order.                                  *)
LEMMA RootInOrder ==
  /\ OnlyRoot(fs) /\ current_dir = Root /\ current_path = <<>>
  /\ fopen_table = NoFilesOpen /\ mode = "prompt"
  => InOrder({Root}, {}, [d \in {Root} |-> Root], [d \in {Root} |-> <<>>])
  <1> SUFFICES ASSUME OnlyRoot(fs), current_dir = Root, current_path = <<>>,
                      fopen_table = NoFilesOpen, mode = "prompt"
               PROVE  InOrder({Root}, {}, [d \in {Root} |-> Root], [d \in {Root} |-> <<>>])
    OBVIOUS
  <1> DEFINE up == [d \in {Root} |-> Root]
             path == [d \in {Root} |-> <<>>]
  <1>1. Here({Root}, path) BY DEF Here
  <1>2. Stored(fs, {Root}, {}, BlockLists, Clean)
    <2>1. Stored(fs, {Root}, {}, Lists(fs), TRUE) BY DEF OnlyRoot
    <2>2. BlockLists = Lists(fs) BY ListsOfTable
    <2> QED BY <2>1, <2>2, StoredWeaker
  <1>3. OpenNames({})
    <2>1. \A q \in 0 .. OpenSlots - 2 : fopen_table[q] = 0
      BY ConstantFacts DEF NoFilesOpen
    <2> QED BY <2>1 DEF OpenNames
  <1>4. Writing({}) BY DEF Writing
  <1>5. Shape(fs, {Root}, {}, up, path) BY DEF OnlyRoot
  <1> QED BY <1>1, <1>2, <1>3, <1>4, <1>5 DEF InOrder

(* The first start finds a disk in order.                                  *)
LEMMA InitOrdered == Init => Ordered
  <1> SUFFICES ASSUME Init PROVE Ordered OBVIOUS
  <1>1. /\ OnlyRoot(fs) /\ current_dir = Root /\ current_path = <<>>
        /\ fopen_table = NoFilesOpen /\ mode = "prompt"
    BY FormattedDisk DEF Init
  <1>2. InOrder({Root}, {}, [d \in {Root} |-> Root], [d \in {Root} |-> <<>>])
    BY <1>1, RootInOrder
  <1> QED BY <1>2 DEF Ordered

(* format leaves one, whatever the disk was before.                        *)
LEMMA FormatOrdered ==
  ASSUME format
  PROVE  /\ InOrder({Root}, {}, [d \in {Root} |-> Root], [d \in {Root} |-> <<>>])'
         /\ Used(fs', Root) = Dots
         /\ Followed'
         /\ current_path' = <<>>
  <1>1. /\ fs' = [initialize_disk EXCEPT !.last_alloc_block = 0, !.last_alloc_inode = 1]
        /\ (current_dir = Root)' /\ (current_path = <<>>)'
        /\ (fopen_table = NoFilesOpen)' /\ (mode = "prompt")'
    BY DEF format, initialize_memory
  <1>2. OnlyRoot(fs)' BY <1>1, FormattedDisk, HintsReset
  <1>3. Used(fs', Root) = Dots /\ Followed' BY <1>2 DEF OnlyRoot, Followed
  <1>4. InOrder({Root}, {}, [d \in {Root} |-> Root], [d \in {Root} |-> <<>>])'
    BY <1>1, <1>2, RootInOrder, PTL
  <1> QED BY <1>1, <1>3, <1>4
-----------------------------------------------------------------------------
(* Every step but format is a step of the tree. *)

(* No step but format forgets a fault. *)
LEMMA StillFollowed ==
  ASSUME TypeOK, [Next]_vars, ~ format, Followed'
  PROVE  Followed
  <1>1. fs \in FileSystems BY DEF TypeOK
  <1>2. CASE Prompt BY <1>2 DEF Prompt
  <1>3. CASE UNCHANGED vars BY <1>3 DEF vars, Followed
  <1>4. CASE WriteGrow
    <2>1. Worse(fs, alloc_block(fs)) BY <1>1, OperatorsWorse
    <2> QED BY <2>1, <1>4 DEF WriteGrow, Worse, Followed
  <1>5. CASE WriteShrink
    <2>1. (fs').faults = fs.faults
      BY <1>1, <1>5 DEF WriteShrink, remove_block, FileSystems
    <2> QED BY <2>1 DEF Followed
  <1>6. CASE WriteEnd
    <2> DEFINE s1 == stamp(fs, fs.data[call.block], {0, 1})
               data2 == [b \in Blocks |-> IF b \in BlocksOf(call)
                                            THEN [k \in Slots |-> Text]
                                            ELSE s1.data[b]]
               s2 == [s1 EXCEPT !.data = data2]
    <2>1. \E area : fs' = update_inode_entry(s2, call.inode, area)
      BY <1>6 DEF WriteEnd, FinishWrite
    <2>2. s1 \in FileSystems /\ fs.faults \subseteq s1.faults
      BY <1>1, OperatorsWorse DEF Worse
    <2> HIDE DEF s1, data2
    <2>3. s2 = [s1 EXCEPT !.data = data2] OBVIOUS
    <2>4. DOMAIN s2 = DOMAIN s1 /\ s2.faults = s1.faults BY <2>2 DEF FileSystems
    <2>5. "faults" \in DOMAIN s2 /\ "faults" # "inode_table" BY <2>2, <2>4 DEF FileSystems
    <2> HIDE DEF s2
    <2>6. (fs').faults = s2.faults BY <2>1, <2>5 DEF update_inode_entry
    <2> QED BY <2>2, <2>4, <2>6 DEF Followed
  <1>7. CASE KillHung
    <2>1. Worse(fs, fault(fs, {"killed"})) BY <1>1, OperatorsWorse DEF Faults
    <2>2. (fs').faults = fault(fs, {"killed"}).faults
      BY <1>7, <2>1 DEF KillHung, initialize_memory, Worse, FileSystems
    <2> QED BY <2>1, <2>2 DEF Worse, Followed
  <1>8. Next => Prompt \/ WriteGrow \/ WriteShrink \/ WriteEnd \/ KillHung \/ format
    BY DEF Next, cd, attrib, mkdir, rmdir, cat, Add, del, open_file, close_file,
           WriteBegin, Restart
  <1> QED BY <1>2, <1>3, <1>4, <1>5, <1>6, <1>7, <1>8

(* So does a step that changes nothing.                                    *)
LEMMA StutterOrdered ==
  ASSUME NEW D, NEW F, NEW up, NEW path, InOrder(D, F, up, path), UNCHANGED vars
  PROVE  TreeStep(D, F, up, path)
  <1>1. /\ fs' = fs
        /\ UNCHANGED <<current_dir, current_path, fopen_table, mode, call>>
    BY DEF vars
  <1>2. InOrder(D, F, up, path)'
    <2>1. BlockLists' = BlockLists /\ Clean' = Clean
      BY <1>1 DEF BlockLists, BlockList, Clean
    <2> QED BY <2>1, <1>1 DEF InOrder, OpenNames, Writing, Here
  <1>3. \A d \in D : SameEntries(fs, fs', d) BY <1>1 DEF SameEntries
  <1> QED BY <1>1, <1>2, <1>3 DEF TreeStep, StaysSame

(* Every step but format leads from one tree to the next, as TreeStep has  *)
(* it.                                                                     *)
LEMMA NextTree ==
  ASSUME TypeOK, NEW D, NEW F, NEW up, NEW path, InOrder(D, F, up, path),
         [Next]_vars, ~ format, Followed'
  PROVE  TreeStep(D, F, up, path)
  <1>1. Prompt => Ready(D, F, up, path) BY PromptReady
  <1>2. CASE UNCHANGED vars BY <1>2, StutterOrdered
  <1>3. CASE \E tmp \in Arguments : cd(tmp) \/ \E attr \in Attributes : attrib(tmp, attr)
    <2>1. PICK tmp \in Arguments : cd(tmp) \/ \E attr \in Attributes : attrib(tmp, attr)
      BY <1>3
    <2>2. CASE cd(tmp)
      <3>1. Prompt BY <2>2 DEF cd
      <3> QED BY <3>1, <2>2, <1>1, CdOrdered
    <2>3. CASE \E attr \in Attributes : attrib(tmp, attr)
      <3>1. PICK attr \in Attributes : attrib(tmp, attr) BY <2>3
      <3>2. Prompt BY <3>1 DEF attrib
      <3> QED BY <3>1, <3>2, <1>1, AttribOrdered
    <2> QED BY <2>1, <2>2, <2>3
  <1>4. CASE \E tmp \in Names : mkdir(tmp) \/ rmdir(tmp)
    <2>1. PICK tmp \in Names : mkdir(tmp) \/ rmdir(tmp) BY <1>4
    <2>2. CASE mkdir(tmp)
      <3>1. Prompt BY <2>2 DEF mkdir, Add
      <3> QED BY <3>1, <2>2, <1>1, MkdirOrdered
    <2>3. CASE rmdir(tmp)
      <3>1. Prompt BY <2>3 DEF rmdir
      <3> QED BY <3>1, <2>3, <1>1, RmdirOrdered
    <2> QED BY <2>1, <2>2, <2>3
  <1>5. CASE \E tmp \in FileNames :
               \/ cat(tmp)
               \/ del(tmp)
               \/ open_file(tmp)
               \/ close_file(tmp)
               \/ \E text \in Texts : WriteBegin(tmp, text)
    <2>1. PICK tmp \in FileNames :
               \/ cat(tmp)
               \/ del(tmp)
               \/ open_file(tmp)
               \/ close_file(tmp)
               \/ \E text \in Texts : WriteBegin(tmp, text)
      BY <1>5
    <2>2. CASE cat(tmp)
      <3>1. Prompt BY <2>2 DEF cat, Add
      <3> QED BY <3>1, <2>2, <1>1, CatOrdered
    <2>3. CASE del(tmp)
      <3>1. Prompt BY <2>3 DEF del
      <3> QED BY <3>1, <2>3, <1>1, DelOrdered
    <2>4. CASE open_file(tmp)
      <3>1. Prompt BY <2>4 DEF open_file
      <3> QED BY <3>1, <2>4, <1>1, OpenOrdered
    <2>5. CASE close_file(tmp)
      <3>1. Prompt BY <2>5 DEF close_file
      <3> QED BY <3>1, <2>5, <1>1, CloseOrdered
    <2>6. CASE \E text \in Texts : WriteBegin(tmp, text)
      <3>1. PICK text \in Texts : WriteBegin(tmp, text) BY <2>6
      <3>2. Prompt BY <3>1 DEF WriteBegin
      <3> QED BY <3>1, <3>2, <1>1, WriteBeginOrdered
    <2> QED BY <2>1, <2>2, <2>3, <2>4, <2>5, <2>6
  <1>6. CASE WriteGrow BY <1>6, WriteGrowOrdered
  <1>7. CASE WriteShrink BY <1>7, WriteShrinkOrdered
  <1>8. CASE WriteEnd BY <1>8, WriteEndOrdered
  <1>9. CASE Restart
    <2>1. Prompt BY <1>9 DEF Restart
    <2> QED BY <2>1, <1>1, <1>9, RestartOrdered
  <1>10. CASE KillHung BY <1>10, KillHungOrdered
  <1>11. \/ \E tmp \in Arguments : cd(tmp) \/ \E attr \in Attributes : attrib(tmp, attr)
         \/ \E tmp \in Names : mkdir(tmp) \/ rmdir(tmp)
         \/ \E tmp \in FileNames :
              \/ cat(tmp)
              \/ del(tmp)
              \/ open_file(tmp)
              \/ close_file(tmp)
              \/ \E text \in Texts : WriteBegin(tmp, text)
         \/ WriteGrow \/ WriteShrink \/ WriteEnd
         \/ Restart \/ KillHung \/ UNCHANGED vars
    BY Zenon DEF Next
  <1> QED BY <1>2, <1>3, <1>4, <1>5, <1>6, <1>7, <1>8, <1>9, <1>10, <1>11

(* A step of the tree leaves the disk in order. *)
LEMMA TreeStepOrdered ==
  ASSUME NEW D, NEW F, NEW up, NEW path, TreeStep(D, F, up, path)
  PROVE  \E E, G, to, way : InOrder(E, G, to, way)'
BY DEF TreeStep, StaysSame, Changes, MakesFile, MakesDir, LosesFile, LosesDir

(* Order is inductive: every step keeps it.                                *)
LEMMA NextOrdered ==
  ASSUME TypeOK, Ordered, [Next]_vars
  PROVE  Ordered'
  <1> SUFFICES ASSUME Followed' PROVE \E D, F, up, path : InOrder(D, F, up, path)'
    BY DEF Ordered
  <1>1. CASE format BY <1>1, FormatOrdered
  <1>2. CASE ~ format
    <2>1. PICK D, F, up, path : InOrder(D, F, up, path)
      BY <1>2, StillFollowed DEF Ordered
    <2>2. TreeStep(D, F, up, path) BY <1>2, <2>1, NextTree
    <2> QED BY <2>2, TreeStepOrdered
  <1> QED BY <1>1, <1>2

(* The inductive invariant: while no fault is recorded, the disk holds a   *)
(* tree of directories D and files F, and every block its owner.           *)
THEOREM DiskInOrder == Spec => []Ordered
  <1>1. TypeOK /\ Ordered /\ [Next]_vars => Ordered' BY NextOrdered
  <1> QED BY <1>1, InitOrdered, TypeCorrect, PTL DEF Spec
=============================================================================
