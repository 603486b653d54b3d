-------------------------- MODULE Ext2SafetyProofs --------------------------
(***************************************************************************)
(* What follows from the order of the disk: the invariants of Ext2Props,   *)
(* its action properties, and that the disk implements FileTree.           *)
(* The last section has the theorems about the inode bitmap, which need no *)
(* order.                                                                  *)
(***************************************************************************)
EXTENDS Ext2StepProofs

(* The sets of Ext2Props, in terms of the tree. *)
LEMMA LiveSets ==
  ASSUME TypeOK, NEW D, NEW F, NEW up, NEW path, InOrder(D, F, up, path)
  PROVE  /\ fs \in FileSystems
         /\ D \subseteq Inodes /\ F \subseteq Inodes /\ D \cap F = {}
         /\ DirPaths(fs) = {<<path[d], d>> : d \in D}
         /\ LiveDirs(fs) = D
         /\ LiveFiles(fs) = F
         /\ Live(fs) = D \cup F
         /\ \A n \in Inodes : BlockLists[n] = BlockList(n)
  <1>1. fs \in FileSystems /\ Shape(fs, D, F, up, path) BY DEF TypeOK, InOrder
  <1>2. /\ DirPaths(fs) = {<<path[d], d>> : d \in D}
        /\ LiveDirs(fs) = D
        /\ LiveFiles(fs) = F
    BY <1>1, ShapeReaches
  <1>3. Stored(fs, D, F, BlockLists, Clean) BY DEF InOrder
  <1>4. \A n \in Inodes : BlockLists[n] = BlockList(n) BY DEF BlockLists
  <1> QED BY <1>1, <1>2, <1>3, <1>4 DEF Stored, Live

(* A one-to-one image has as many elements. *)
LEMMA ImageCardinality ==
  ASSUME NEW S, IsFiniteSet(S), NEW T, NEW f \in [S -> T],
         \A x, y \in S : f[x] = f[y] => x = y,
         \A z \in T : \E x \in S : f[x] = z
  PROVE  IsFiniteSet(T) /\ Cardinality(T) = Cardinality(S)
  <1>1. f \in Bijection(S, T) BY DEF Bijection, Injection, Surjection, IsInjective
  <1>2. ExistsBijection(S, T) BY <1>1 DEF ExistsBijection
  <1> QED BY <1>2, FS_Bijection

(* Every inode the root reaches has its bit set.                           *)
LEMMA LiveInodesMarkedHolds == TypeOK /\ Ordered => LiveInodesMarked
  <1> SUFFICES ASSUME TypeOK, Ordered, Followed
               PROVE  Live(fs) \subseteq fs.inode_bitmap
    BY DEF LiveInodesMarked
  <1>1. PICK D, F, up, path : InOrder(D, F, up, path) BY DEF Ordered
  <1> QED BY <1>1, LiveSets DEF InOrder, Shape, Marked

(* Every inode in use is marked in the inode bitmap. *)
THEOREM LiveInodesAreMarked == Spec => []LiveInodesMarked
  <1> QED BY LiveInodesMarkedHolds, TypeCorrect, DiskInOrder, PTL

(* The path the prompt shows is the one of current_dir.                    *)
LEMMA PathNamesCurrentDirHolds == TypeOK /\ Ordered => PathNamesCurrentDir
  <1> SUFFICES ASSUME TypeOK, Ordered, Followed
               PROVE  <<current_path, current_dir>> \in DirPaths(fs)
    BY DEF PathNamesCurrentDir
  <1>1. PICK D, F, up, path : InOrder(D, F, up, path) BY DEF Ordered
  <1> QED BY <1>1, LiveSets DEF InOrder, Here

(* The path in the prompt leads from the root to the current directory. *)
THEOREM PromptShowsCurrentDir == Spec => []PathNamesCurrentDir
  <1> QED BY PathNamesCurrentDirHolds, TypeCorrect, DiskInOrder, PTL

(* fopen_table names files of the tree only, each at most once.            *)
LEMMA OpenTableLiveHolds == TypeOK /\ Ordered => OpenTableLive
  <1> SUFFICES ASSUME TypeOK, Ordered, Followed,
                      NEW q \in 0 .. OpenSlots - 2, fopen_table[q] # 0
               PROVE  /\ fopen_table[q] \in LiveFiles(fs)
                      /\ \A r \in 0 .. OpenSlots - 2 :
                           fopen_table[r] = fopen_table[q] => r = q
    BY DEF OpenTableLive
  <1>1. PICK D, F, up, path : InOrder(D, F, up, path) BY DEF Ordered
  <1>2. OpenNames(F) /\ LiveFiles(fs) = F BY <1>1, LiveSets DEF InOrder
  <1> QED BY <1>2 DEF OpenNames

(* A slot of the open table names a live file, and no two slots the same. *)
THEOREM OpenFilesAreLive == Spec => []OpenTableLive
  <1> QED BY OpenTableLiveHolds, TypeCorrect, DiskInOrder, PTL

(* A file owns as many blocks as its size needs; a directory owns one or   *)
(* two.                                                                    *)
LEMMA SizeFitsBlocksHolds == TypeOK /\ Ordered => SizeFitsBlocks
  <1> SUFFICES ASSUME TypeOK, Ordered, Followed
               PROVE  /\ \A n \in Live(fs) : Len(BlockList(n)) <= MaxBlocks
                      /\ mode # "write" =>
                           \A n \in LiveFiles(fs) :
                             Area(fs, n).i_block # <<>> =>
                               need_blocks(Area(fs, n).i_size) = Len(Area(fs, n).i_block)
    BY DEF SizeFitsBlocks
  <1>1. PICK D, F, up, path : InOrder(D, F, up, path) BY DEF Ordered
  <1>2. /\ D \subseteq Inodes /\ F \subseteq Inodes
        /\ Live(fs) = D \cup F /\ LiveFiles(fs) = F
        /\ \A n \in Inodes : BlockLists[n] = BlockList(n)
    BY <1>1, LiveSets
  <1>3. Stored(fs, D, F, BlockLists, Clean) BY <1>1 DEF InOrder
  <1>4. \A n \in D \cup F : Len(BlockLists[n]) <= MaxBlocks BY <1>3 DEF Stored, Owned
  <1>5. \A n \in F : FileSized(fs, n) BY <1>3 DEF Stored
  <1> QED BY <1>2, <1>4, <1>5 DEF FileSized

(* A file has the blocks its size needs, and no list outgrows i_block. *)
THEOREM SizesFitBlocks == Spec => []SizeFitsBlocks
  <1> QED BY SizeFitsBlocksHolds, TypeCorrect, DiskInOrder, PTL

(* i_size of a directory is the number of its entries while no command was *)
(* killed.                                                                 *)
LEMMA SizeCountsEntriesHolds == TypeOK /\ Ordered => SizeCountsEntries
  <1> SUFFICES ASSUME TypeOK, Ordered, Followed, NEW n \in LiveDirs(fs)
               PROVE  /\ CountEntries(fs, n) <= Area(fs, n).i_size
                      /\ Clean => CountEntries(fs, n) = Area(fs, n).i_size
    BY DEF SizeCountsEntries
  <1>1. PICK D, F, up, path : InOrder(D, F, up, path) BY DEF Ordered
  <1>2. n \in D BY <1>1, LiveSets
  <1>3. DirSized(fs, n, Clean) BY <1>1, <1>2 DEF InOrder, Stored
  <1>4. CountEntries(fs, n) = Cardinality(Used(fs, n)) BY DEF CountEntries, Used
  <1> QED BY <1>3, <1>4 DEF DirSized

(* The size of a directory is the number of its entries. *)
THEOREM SizesCountEntries == Spec => []SizeCountsEntries
  <1> QED BY SizeCountsEntriesHolds, TypeCorrect, DiskInOrder, PTL

(* A directory that counts as partly filled has a free slot.               *)
LEMMA PartialHasFreeSlotHolds == TypeOK /\ Ordered => PartialHasFreeSlot
  <1> SUFFICES ASSUME TypeOK, Ordered, Followed, NEW n \in LiveDirs(fs)
               PROVE  /\ Area(fs, n).i_size <= Len(Area(fs, n).i_block) * EntriesPerBlock
                      /\ Partial(fs, n) => FreeSlot(fs, n) # {}
    BY DEF PartialHasFreeSlot
  <1>1. PICK D, F, up, path : InOrder(D, F, up, path) BY DEF Ordered
  <1>2. n \in D /\ n \in Inodes /\ fs \in FileSystems BY <1>1, LiveSets
  <1>3. DirSized(fs, n, Clean) BY <1>1, <1>2 DEF InOrder, Stored
  <1> DEFINE room == Len(Area(fs, n).i_block) * EntriesPerBlock
  <1>4. /\ Cardinality(Used(fs, n)) <= Area(fs, n).i_size
        /\ Area(fs, n).i_size <= room
    BY <1>3 DEF DirSized
  <1>5. /\ IsFiniteSet(Positions(fs, n)) /\ Cardinality(Positions(fs, n)) = room
        /\ Cardinality(Used(fs, n)) \in Nat
    BY <1>2, PositionsFinite
  <1>6. Area(fs, n).i_size \in Int /\ room \in Int
    BY <1>2, AreaType, ConstantFacts
  <1>7. ASSUME Partial(fs, n) PROVE FreeSlot(fs, n) # {}
    <2>1. Area(fs, n).i_size # room BY <1>7 DEF Partial
    <2> HIDE DEF room
    <2>2. Cardinality(Used(fs, n)) # Cardinality(Positions(fs, n))
      BY <2>1, <1>4, <1>5, <1>6
    <2>3. Used(fs, n) # Positions(fs, n) BY <2>2
    <2> DEFINE free == {p \in Positions(fs, n) : BlockAt(fs, n, p[1])[p[2]].inode = 0}
    <2>4. free # {} BY <2>3 DEF Used, EntryAt
    <2>5. free \in SUBSET ((1 .. Len(Area(fs, n).i_block)) \X Slots) BY DEF Positions
    <2>6. FreeSlot(fs, n) = First(free) BY DEF FreeSlot
    <2> HIDE DEF free
    <2> QED BY <2>4, <2>5, <2>6, FirstExists
  <1> QED BY <1>4, <1>7

(* mkdir and touch always find the free slot they look for. *)
THEOREM PartialDirsHaveRoom == Spec => []PartialHasFreeSlot
  <1> QED BY PartialHasFreeSlotHolds, TypeCorrect, DiskInOrder, PTL

(* Every block of the tree has one owner, is marked, and the free count    *)
(* agrees.                                                                 *)
LEMMA BlockOwnershipHolds == TypeOK /\ Ordered => BlockOwnership
  <1> DEFINE owners == UNION {{<<n, i>> : i \in 1 .. Len(BlockList(n))} : n \in Live(fs)}
             owned == {BlockList(o[1])[o[2]] : o \in owners}
  <1> SUFFICES ASSUME TypeOK, Ordered, Followed
               PROVE  /\ Cardinality(owned) = Cardinality(owners)
                      /\ owned \subseteq fs.block_bitmap
                      /\ Clean => owned = fs.block_bitmap
                      /\ fs.bg_free_blocks_count = BlockCount - Cardinality(fs.block_bitmap)
    BY DEF BlockOwnership
  <1>1. PICK D, F, up, path : InOrder(D, F, up, path) BY DEF Ordered
  <1>2. PICK N : N = D \cup F OBVIOUS
  <1>3. /\ N \subseteq Inodes /\ Live(fs) = N
        /\ \A n \in N : BlockLists[n] = BlockList(n)
    BY <1>1, <1>2, LiveSets
  <1>4. /\ Owned(fs.block_bitmap, fs.bg_free_blocks_count, N, BlockLists)
        /\ Clean => Exact(fs.block_bitmap, N, BlockLists)
    BY <1>1, <1>2 DEF InOrder, Stored
  <1> DEFINE l == [n \in N |-> BlockList(n)]
  <1>5. /\ \A n \in N : l[n] \in Seq(Blocks) /\ Len(l[n]) <= MaxBlocks
        /\ \A n \in N : \A i \in 1 .. Len(l[n]) : l[n][i] \in fs.block_bitmap
        /\ \A n, m \in N : \A i \in 1 .. Len(l[n]), j \in 1 .. Len(l[m]) :
              l[n][i] = l[m][j] => n = m /\ i = j
        /\ fs.bg_free_blocks_count = BlockCount - Cardinality(fs.block_bitmap)
        /\ Clean => \A b \in fs.block_bitmap :
                        \E n \in N : \E i \in 1 .. Len(l[n]) : l[n][i] = b
    <2>1. \A n \in N : l[n] = BlockLists[n] BY <1>3
    <2> HIDE DEF l
    <2> QED BY <2>1, <1>4 DEF Owned, Exact
  <1>6. /\ \A n \in N, i \in Nat : i \in 1 .. Len(l[n]) => <<n, i>> \in owners
        /\ \A o \in owners : \E n \in N : \E i \in 1 .. Len(l[n]) : o = <<n, i>>
    <2>1. \A n \in N : l[n] = BlockList(n) OBVIOUS
    <2> HIDE DEF l
    <2> QED BY <2>1, <1>3
  <1> DEFINE f == [o \in owners |-> l[o[1]][o[2]]]
  <1>7. /\ f \in [owners -> owned]
        /\ \A z \in owned : \E o \in owners : f[o] = z
    <2>1. \A o \in owners : o[1] \in N BY <1>6
    <2>2. \A o \in owners : l[o[1]][o[2]] = BlockList(o[1])[o[2]] BY <2>1
    <2> HIDE DEF l, owners
    <2> QED BY <2>2
  <1> HIDE DEF l, owners, owned
  <1>8. \A x, y \in owners : f[x] = f[y] => x = y
    <2>1. ASSUME NEW x \in owners, NEW y \in owners, f[x] = f[y] PROVE x = y
      <3>1. PICK n \in N : \E i \in 1 .. Len(l[n]) : x = <<n, i>> BY <1>6
      <3>2. PICK i \in 1 .. Len(l[n]) : x = <<n, i>> BY <3>1
      <3>3. PICK m \in N : \E j \in 1 .. Len(l[m]) : y = <<m, j>> BY <1>6
      <3>4. PICK j \in 1 .. Len(l[m]) : y = <<m, j>> BY <3>3
      <3>5. l[n][i] = l[m][j] BY <2>1, <3>2, <3>4
      <3> QED BY <3>2, <3>4, <3>5, <1>5
    <2> QED BY <2>1
  <1>9. IsFiniteSet(owners)
    <2>1. IsFiniteSet(Inodes) /\ IsFiniteSet(1 .. MaxBlocks)
      BY SizesAssumption, ConstantFacts, FS_Interval DEF Inodes
    <2>2. IsFiniteSet(Inodes \X (1 .. MaxBlocks)) BY <2>1, FS_Product
    <2>3. owners \subseteq Inodes \X (1 .. MaxBlocks)
      <3>1. ASSUME NEW o \in owners PROVE o \in Inodes \X (1 .. MaxBlocks)
        <4>1. PICK n \in N : \E i \in 1 .. Len(l[n]) : o = <<n, i>> BY <1>6
        <4>2. PICK i \in 1 .. Len(l[n]) : o = <<n, i>> BY <4>1
        <4>3. Len(l[n]) \in Nat /\ Len(l[n]) <= MaxBlocks /\ MaxBlocks \in Nat
          BY <1>5, ConstantFacts
        <4>4. i \in 1 .. MaxBlocks BY <4>3
        <4> QED BY <4>2, <4>4, <1>3
      <3> QED BY <3>1
    <2> QED BY <2>2, <2>3, FS_Subset
  <1>10. Cardinality(owned) = Cardinality(owners)
    <2> HIDE DEF f
    <2> QED BY <1>7, <1>8, <1>9, ImageCardinality
  <1>11. owned \subseteq fs.block_bitmap
    <2>1. ASSUME NEW z \in owned PROVE z \in fs.block_bitmap
      <3>1. PICK o \in owners : f[o] = z BY <1>7
      <3>2. PICK n \in N : \E i \in 1 .. Len(l[n]) : o = <<n, i>> BY <1>6
      <3> QED BY <3>1, <3>2, <1>5
    <2> QED BY <2>1
  <1>12. Clean => fs.block_bitmap \subseteq owned
    <2>1. ASSUME Clean, NEW b \in fs.block_bitmap PROVE b \in owned
      <3>1. PICK n \in N : \E i \in 1 .. Len(l[n]) : l[n][i] = b BY <2>1, <1>5
      <3>2. PICK i \in 1 .. Len(l[n]) : l[n][i] = b BY <3>1
      <3>3. Len(l[n]) \in Nat BY <1>5
      <3>4. <<n, i>> \in owners BY <3>3, <1>6
      <3>5. f[<<n, i>>] = b BY <3>2, <3>4
      <3> QED BY <3>4, <3>5, <1>7
    <2> QED BY <2>1
  <1> QED BY <1>5, <1>10, <1>11, <1>12

(* No block is handed out twice, and the bitmap and its count tell the     *)
(* truth about the blocks in use.                                          *)
THEOREM BlocksAreOwned == Spec => []BlockOwnership
  <1> QED BY BlockOwnershipHolds, TypeCorrect, DiskInOrder, PTL

(* The paths of files: one for each entry of type FILE. *)
LEMMA FileReached ==
  ASSUME NEW s \in FileSystems, NEW D, NEW F, NEW up, NEW path, Shape(s, D, F, up, path),
         NEW y
  PROVE  y \in FilePaths(s) <=>
            \E d \in D : \E p \in Used(s, d) \ Dots :
                /\ EntryAt(s, d, p).file_type = FILE
                /\ y = <<Append(path[d], EntryAt(s, d, p).name), EntryAt(s, d, p).inode>>
  <1>1. DirPaths(s) = {<<path[d], d>> : d \in D} BY ShapeReaches
  <1>2. FILE # DIR BY DEF FILE, DIR
  <1>3. ASSUME y \in FilePaths(s)
        PROVE  \E d \in D : \E p \in Used(s, d) \ Dots :
                  /\ EntryAt(s, d, p).file_type = FILE
                  /\ y = <<Append(path[d], EntryAt(s, d, p).name), EntryAt(s, d, p).inode>>
    <2>1. PICK x \in DirPaths(s) : \E p \in Used(s, x[2]) :
                /\ EntryAt(s, x[2], p).file_type = FILE
                /\ y = <<Append(x[1], EntryAt(s, x[2], p).name), EntryAt(s, x[2], p).inode>>
      <3>1. y \in Named(s, DirPaths(s), FILE) BY <1>3 DEF FilePaths
      <3>2. PICK from : from = DirPaths(s) OBVIOUS
      <3>3. y \in Named(s, from, FILE) BY <3>1, <3>2
      <3> QED BY <3>2, <3>3, NamedElements, SMTT(60)
    <2>2. PICK d \in D : x = <<path[d], d>> BY <1>1
    <2>3. x[1] = path[d] /\ x[2] = d BY <2>2
    <2>4. PICK p \in Used(s, d) :
                /\ EntryAt(s, d, p).file_type = FILE
                /\ y = <<Append(path[d], EntryAt(s, d, p).name), EntryAt(s, d, p).inode>>
      BY <2>1, <2>3
    <2>5. p \notin Dots BY <2>4, EntryKinds
    <2> QED BY <2>4, <2>5
  <1>4. ASSUME NEW d \in D, NEW p \in Used(s, d), EntryAt(s, d, p).file_type = FILE,
               y = <<Append(path[d], EntryAt(s, d, p).name), EntryAt(s, d, p).inode>>
        PROVE  y \in FilePaths(s)
    <2>1. PICK x : x = <<path[d], d>> OBVIOUS
    <2>2. x \in DirPaths(s) /\ x[1] = path[d] /\ x[2] = d BY <2>1, <1>1
    <2>3. PICK from : from = DirPaths(s) OBVIOUS
    <2>4. /\ EntryAt(s, x[2], p).file_type = FILE
          /\ FILE = DIR => EntryAt(s, x[2], p).name \notin {".", ".."}
          /\ y = <<Append(x[1], EntryAt(s, x[2], p).name), EntryAt(s, x[2], p).inode>>
          /\ p \in Used(s, x[2]) /\ x \in from
      BY <2>2, <2>3, <1>2, <1>4
    <2>5. y \in Named(s, from, FILE) BY <2>4, NamedMember
    <2> QED BY <2>3, <2>5 DEF FilePaths
  <1> QED BY <1>3, <1>4

(* Every inode of the tree has one path. *)
LEMMA OnePath ==
  ASSUME NEW s \in FileSystems, NEW D, NEW F, NEW up, NEW path, Shape(s, D, F, up, path),
         NEW paths, paths = DirPaths(s) \cup FilePaths(s)
  PROVE  /\ \A x \in paths : x[2] \in D \cup F
         /\ \A x, y \in paths : x[2] = y[2] => x = y
         /\ \A n \in D \cup F : \E x \in paths : x[2] = n
  <1>1. DirPaths(s) = {<<path[d], d>> : d \in D} BY ShapeReaches
  <1>2. \A x \in DirPaths(s) : x[2] \in D /\ x = <<path[x[2]], x[2]>> BY <1>1
  <1>3. ASSUME NEW x \in FilePaths(s) PROVE x[2] \in F
    <2>1. PICK d \in D : \E p \in Used(s, d) \ Dots :
                /\ EntryAt(s, d, p).file_type = FILE
                /\ x = <<Append(path[d], EntryAt(s, d, p).name), EntryAt(s, d, p).inode>>
      BY FileReached
    <2>2. PICK p \in Used(s, d) \ Dots :
                /\ EntryAt(s, d, p).file_type = FILE
                /\ x = <<Append(path[d], EntryAt(s, d, p).name), EntryAt(s, d, p).inode>>
      BY <2>1
    <2> QED BY <2>2, EntryKinds DEF ChildFile
  <1>4. D \cap F = {} BY DEF Shape, Marked
  <1>5. ASSUME NEW x \in FilePaths(s), NEW y \in FilePaths(s), x[2] = y[2] PROVE x = y
    <2>1. PICK d \in D : \E p \in Used(s, d) \ Dots :
                x = <<Append(path[d], EntryAt(s, d, p).name), EntryAt(s, d, p).inode>>
      BY FileReached
    <2>2. PICK p \in Used(s, d) \ Dots :
                x = <<Append(path[d], EntryAt(s, d, p).name), EntryAt(s, d, p).inode>>
      BY <2>1
    <2>3. PICK e \in D : \E q \in Used(s, e) \ Dots :
                y = <<Append(path[e], EntryAt(s, e, q).name), EntryAt(s, e, q).inode>>
      BY FileReached
    <2>4. PICK q \in Used(s, e) \ Dots :
                y = <<Append(path[e], EntryAt(s, e, q).name), EntryAt(s, e, q).inode>>
      BY <2>3
    <2>5. EntryAt(s, d, p).inode = EntryAt(s, e, q).inode BY <2>2, <2>4, <1>5
    <2>6. d = e /\ p = q BY <2>5 DEF Shape, OneName
    <2> QED BY <2>2, <2>4, <2>6
  <1>6. \A n \in D : \E x \in DirPaths(s) : x[2] = n
    <2>1. \A n \in D : <<path[n], n>> \in DirPaths(s) /\ <<path[n], n>>[2] = n BY <1>1
    <2> QED BY <2>1
  <1>7. \A n \in F : \E x \in FilePaths(s) : x[2] = n
    <2>1. LiveFiles(s) = F BY ShapeReaches
    <2> QED BY <2>1 DEF LiveFiles
  <1> QED BY <1>2, <1>3, <1>4, <1>5, <1>6, <1>7

(* No two entries of a directory have the same name and type. *)
LEMMA NamesDistinct ==
  ASSUME NEW s \in FileSystems, NEW D, NEW F, NEW up, NEW path, Shape(s, D, F, up, path),
         NEW n \in D, n \in Inodes
  PROVE  CountEntries(s, n) =
             Cardinality({<<e.name, e.file_type>> : e \in EntriesOf(s, n)})
  <1> DEFINE T == {<<e.name, e.file_type>> : e \in EntriesOf(s, n)}
             f == [p \in Used(s, n) |->
                      <<EntryAt(s, n, p).name, EntryAt(s, n, p).file_type>>]
  <1>1. EntriesOf(s, n) = {EntryAt(s, n, p) : p \in Used(s, n)} BY DEF EntriesOf, Used
  <1>2. CountEntries(s, n) = Cardinality(Used(s, n)) BY DEF CountEntries, Used
  <1>3. IsFiniteSet(Used(s, n)) BY PositionsFinite
  <1>4. f \in [Used(s, n) -> T] /\ \A z \in T : \E p \in Used(s, n) : f[p] = z
    BY <1>1
  <1>5. \A p, q \in Used(s, n) : f[p] = f[q] => p = q BY DEF Shape, Distinct
  <1> HIDE DEF f, T
  <1>6. Cardinality(T) = Cardinality(Used(s, n)) BY <1>3, <1>4, <1>5, ImageCardinality
  <1> QED BY <1>2, <1>6 DEF T

(* The directories form a tree, and each names its parent in "..".         *)
LEMMA TreeShapeHolds == TypeOK /\ Ordered => TreeShape
  <1> DEFINE paths == DirPaths(fs) \cup FilePaths(fs)
  <1> SUFFICES ASSUME TypeOK, Ordered, Followed
               PROVE  /\ \A x \in DirPaths(fs) :
                           /\ Area(fs, x[2]).i_block # <<>>
                           /\ BlockAt(fs, x[2], 1)[0] = NewEntry(x[2], DIR, ".")
                           /\ \E y \in DirPaths(fs) :
                                /\ BlockAt(fs, x[2], 1)[1] = NewEntry(y[2], DIR, "..")
                                /\ y[1] = (IF x[1] = <<>> THEN <<>>
                                           ELSE SubSeq(x[1], 1, Len(x[1]) - 1))
                      /\ Cardinality(Live(fs)) = Cardinality(paths)
                      /\ \A n \in LiveDirs(fs) :
                           CountEntries(fs, n) =
                               Cardinality({<<e.name, e.file_type>> : e \in EntriesOf(fs, n)})
    BY DEF TreeShape
  <1>1. PICK D, F, up, path : InOrder(D, F, up, path) BY DEF Ordered
  <1>2. /\ fs \in FileSystems
        /\ D \subseteq Inodes /\ F \subseteq Inodes
        /\ DirPaths(fs) = {<<path[d], d>> : d \in D}
        /\ LiveDirs(fs) = D
        /\ Live(fs) = D \cup F
    BY <1>1, LiveSets
  <1>3. Shape(fs, D, F, up, path) BY <1>1 DEF InOrder
  <1>4. /\ up \in [D -> D] /\ up[Root] = Root
        /\ path \in [D -> Seq(Names)] /\ path[Root] = <<>>
    BY <1>3 DEF Shape, Pathed
  <1>5. ASSUME NEW x \in DirPaths(fs)
        PROVE  /\ Area(fs, x[2]).i_block # <<>>
               /\ BlockAt(fs, x[2], 1)[0] = NewEntry(x[2], DIR, ".")
               /\ \E y \in DirPaths(fs) :
                    /\ BlockAt(fs, x[2], 1)[1] = NewEntry(y[2], DIR, "..")
                    /\ y[1] = (IF x[1] = <<>> THEN <<>>
                               ELSE SubSeq(x[1], 1, Len(x[1]) - 1))
    <2>1. PICK d \in D : x = <<path[d], d>> BY <1>2
    <2>2. x[1] = path[d] /\ x[2] = d BY <2>1
    <2>3. /\ Dots \subseteq Used(fs, d)
          /\ EntryAt(fs, d, <<1, 0>>) = NewEntry(d, DIR, ".")
          /\ EntryAt(fs, d, <<1, 1>>) = NewEntry(up[d], DIR, "..")
      BY <1>3 DEF Shape, Dotted
    <2>4. Area(fs, d).i_block # <<>>
      <3>1. <<1, 0>> \in Positions(fs, d) BY <2>3, DotsTwo DEF Used
      <3>2. 1 \in 1 .. Len(Area(fs, d).i_block) BY <3>1 DEF Positions
      <3>3. 1 .. Len(<<>>) = {} OBVIOUS
      <3> QED BY <3>2, <3>3
    <2>5. /\ BlockAt(fs, d, 1)[0] = NewEntry(d, DIR, ".")
          /\ BlockAt(fs, d, 1)[1] = NewEntry(up[d], DIR, "..")
      BY <2>3 DEF EntryAt
    <2>6. PICK y : y = <<path[up[d]], up[d]>> OBVIOUS
    <2>7. y \in DirPaths(fs) /\ y[1] = path[up[d]] /\ y[2] = up[d] BY <2>6, <1>2, <1>4
    <2>8. path[up[d]] = IF path[d] = <<>> THEN <<>>
                        ELSE SubSeq(path[d], 1, Len(path[d]) - 1)
      <3>1. CASE d = Root BY <3>1, <1>4
      <3>2. CASE d # Root
        <4>1. \E q \in Used(fs, up[d]) \ Dots :
                  /\ EntryAt(fs, up[d], q).inode = d
                  /\ ChildDir(EntryAt(fs, up[d], q), up[d], D, up, path)
          BY <3>2, <1>3, ChildIsOther
        <4>2. PICK name \in Names : path[d] = Append(path[up[d]], name)
          BY <4>1 DEF ChildDir
        <4>3. path[up[d]] \in Seq(Names) BY <1>4
        <4>4. \A q \in Seq(Names) :
                 /\ SubSeq(Append(q, name), 1, Len(Append(q, name)) - 1) = q
                 /\ Append(q, name) # <<>>
          BY FrontOfAppend, AppendProperties
        <4> QED BY <4>2, <4>3, <4>4
      <3> QED BY <3>1, <3>2
    <2> QED BY <2>2, <2>4, <2>5, <2>7, <2>8
  <1>6. Cardinality(Live(fs)) = Cardinality(paths)
    <2>1. /\ \A x \in paths : x[2] \in D \cup F
          /\ \A x, y \in paths : x[2] = y[2] => x = y
          /\ \A n \in D \cup F : \E x \in paths : x[2] = n
      <3>1. paths = DirPaths(fs) \cup FilePaths(fs) OBVIOUS
      <3> HIDE DEF paths
      <3> QED BY <3>1, <1>2, <1>3, OnePath
    <2> DEFINE f == [n \in D \cup F |-> CHOOSE x \in paths : x[2] = n]
    <2> HIDE DEF paths
    <2>2. \A n \in D \cup F : f[n] \in paths /\ f[n][2] = n BY <2>1
    <2>3. f \in [D \cup F -> paths] BY <2>2
    <2>4. \A m, n \in D \cup F : f[m] = f[n] => m = n BY <2>2
    <2>5. \A x \in paths : \E n \in D \cup F : f[n] = x BY <2>1, <2>2
    <2>6. IsFiniteSet(D \cup F)
      <3>1. IsFiniteSet(Inodes) BY SizesAssumption, FS_Interval DEF Inodes
      <3>2. D \cup F \subseteq Inodes BY <1>2
      <3> QED BY <3>1, <3>2, FS_Subset
    <2> HIDE DEF f
    <2> DEFINE N == D \cup F
    <2>7. IsFiniteSet(N) /\ f \in [N -> paths]
          /\ (\A m, n \in N : f[m] = f[n] => m = n)
          /\ (\A x \in paths : \E n \in N : f[n] = x)
      BY <2>3, <2>4, <2>5, <2>6
    <2> HIDE DEF N
    <2>8. Cardinality(paths) = Cardinality(N) BY <2>7, ImageCardinality
    <2> QED BY <2>8, <1>2 DEF N
  <1>7. \A n \in LiveDirs(fs) :
           CountEntries(fs, n) =
               Cardinality({<<e.name, e.file_type>> : e \in EntriesOf(fs, n)})
    BY <1>2, <1>3, NamesDistinct
  <1> HIDE DEF paths
  <1> QED BY <1>5, <1>6, <1>7

(* The directories form a tree: every one starts with "." and "..", every  *)
(* inode has one path, and no directory has a name twice.                  *)
THEOREM DirectoriesFormATree == Spec => []TreeShape
  <1> QED BY TreeShapeHolds, TypeCorrect, DiskInOrder, PTL
-----------------------------------------------------------------------------
(* What a step may do to the directories it is not about.                  *)

(* LiveSets, after a step. *)
LEMMA LiveSetsAfter ==
  ASSUME TypeOK', NEW D, NEW F, NEW up, NEW path, InOrder(D, F, up, path)'
  PROVE  /\ fs' \in FileSystems
         /\ Shape(fs', D, F, up, path)
         /\ DirPaths(fs') = {<<path[d], d>> : d \in D}
         /\ LiveDirs(fs') = D
         /\ LiveFiles(fs') = F
         /\ Live(fs') = D \cup F
         /\ current_dir' \in D /\ current_path' = path[current_dir']
  <1>1. fs' \in FileSystems /\ Shape(fs', D, F, up, path) BY DEF TypeOK, InOrder
  <1>2. /\ DirPaths(fs') = {<<path[d], d>> : d \in D}
        /\ LiveDirs(fs') = D
        /\ LiveFiles(fs') = F
    BY <1>1, ShapeReaches
  <1>3. Live(fs') = D \cup F BY <1>2 DEF Live
  <1>4. current_dir' \in D /\ current_path' = path[current_dir'] BY DEF InOrder, Here
  <1> QED BY <1>1, <1>2, <1>3, <1>4

(* One step: the inodes that become live had a clear bit before it.        *)
LEMMA FreshStep ==
  ASSUME TypeOK, TypeOK', Ordered, [Next]_vars, Followed', ~ format
  PROVE  (Live(fs') \ Live(fs)) \cap fs.inode_bitmap = {}
  <1>1. PICK D, F, up, path : InOrder(D, F, up, path)
    BY StillFollowed DEF Ordered
  <1>2. Live(fs) = D \cup F BY <1>1, LiveSets
  <1>3. TreeStep(D, F, up, path) BY <1>1, NextTree
  <1>4. CASE StaysSame(D, F, up, path)
    <2>1. Live(fs') = D \cup F BY <1>4, LiveSetsAfter DEF StaysSame
    <2> QED BY <2>1, <1>2
  <1>5. ASSUME NEW n, NEW m, NEW p, NEW name, MakesFile(D, F, up, path, n, m, p, name)
        PROVE  Live(fs') \subseteq Live(fs) \cup {m} /\ m \notin fs.inode_bitmap
    <2>1. InOrder(D, F \cup {m}, up, path)' /\ m \notin fs.inode_bitmap
      BY <1>5 DEF MakesFile
    <2>2. Live(fs') = D \cup (F \cup {m}) BY <2>1, LiveSetsAfter
    <2> QED BY <2>1, <2>2, <1>2
  <1>6. ASSUME NEW n, NEW m, NEW p, NEW name, MakesDir(D, F, up, path, n, m, p, name)
        PROVE  Live(fs') \subseteq Live(fs) \cup {m} /\ m \notin fs.inode_bitmap
    <2>1. /\ InOrder(D \cup {m}, F, Extended(up, D, m, n),
                     Extended(path, D, m, Append(path[n], name)))'
          /\ m \notin fs.inode_bitmap
      BY <1>6 DEF MakesDir
    <2>2. Live(fs') = (D \cup {m}) \cup F BY <2>1, LiveSetsAfter
    <2> QED BY <2>1, <2>2, <1>2
  <1>7. ASSUME NEW n, NEW c, NEW p, LosesFile(D, F, up, path, n, c, p)
        PROVE  Live(fs') \subseteq Live(fs)
    <2>1. InOrder(D, F \ {c}, up, path)' BY <1>7 DEF LosesFile
    <2>2. Live(fs') = D \cup (F \ {c}) BY <2>1, LiveSetsAfter
    <2> QED BY <2>2, <1>2
  <1>8. ASSUME NEW n, NEW c, NEW p, LosesDir(D, F, up, path, n, c, p)
        PROVE  Live(fs') \subseteq Live(fs)
    <2>1. InOrder(D \ {c}, F, Without(up, D, c), Without(path, D, c))'
      BY <1>8 DEF LosesDir
    <2>2. Live(fs') = (D \ {c}) \cup F BY <2>1, LiveSetsAfter
    <2> QED BY <2>2, <1>2
  <1>9. CASE Changes(D, F, up, path) BY <1>5, <1>6, <1>7, <1>8, <1>9 DEF Changes
  <1> QED BY <1>3, <1>4, <1>9 DEF TreeStep

(* An inode that enters the tree was never in use since the last format. *)
THEOREM FreshInodes == Spec => NewInodesAreFresh
  <1>1. TypeOK /\ TypeOK' /\ Ordered /\ [Next]_vars
          => [Followed' => \/ format
                           \/ (Live(fs') \ Live(fs)) \cap fs.inode_bitmap = {}]_vars
    BY FreshStep
  <1> QED BY <1>1, TypeCorrect, DiskInOrder, PTL DEF Spec, NewInodesAreFresh

(* Only the current directory changes. *)
LEMMA OtherEntries ==
  ASSUME NEW D, NEW F, NEW up, NEW path, TreeStep(D, F, up, path),
         NEW d \in D \ {current_dir}
  PROVE  SameEntries(fs, fs', d)
  <1>1. CASE StaysSame(D, F, up, path) BY <1>1 DEF StaysSame
  <1>2. CASE Changes(D, F, up, path)
    BY <1>2 DEF Changes, MakesFile, MakesDir, LosesFile, LosesDir
  <1> QED BY <1>1, <1>2 DEF TreeStep

(* One step changes the entries of at most the directory it is about.      *)
LEMMA OthersStep ==
  ASSUME TypeOK, Ordered, [Next]_vars, Followed', ~ format,
         NEW n \in (LiveDirs(fs) \cap LiveDirs(fs')) \ {current_dir}
  PROVE  EntriesOf(fs', n) = EntriesOf(fs, n)
  <1>1. PICK D, F, up, path : InOrder(D, F, up, path)
    BY StillFollowed DEF Ordered
  <1>2. n \in D \ {current_dir} BY <1>1, LiveSets
  <1>3. TreeStep(D, F, up, path) BY <1>1, NextTree
  <1>4. SameEntries(fs, fs', n) BY <1>2, <1>3, OtherEntries
  <1>5. \A s : EntriesOf(s, n) = {EntryAt(s, n, p) : p \in Used(s, n)}
    BY DEF EntriesOf, Used
  <1> QED BY <1>4, <1>5 DEF SameEntries

(* A command changes the entries of the current directory only. *)
THEOREM OthersAreKept == Spec => OthersKeepEntries
  <1>1. TypeOK /\ Ordered /\ [Next]_vars
          => [Followed' => \/ format
                           \/ \A n \in (LiveDirs(fs) \cap LiveDirs(fs')) \ {current_dir} :
                                 EntriesOf(fs', n) = EntriesOf(fs, n)]_vars
    BY OthersStep
  <1> QED BY <1>1, TypeCorrect, DiskInOrder, PTL DEF Spec, OthersKeepEntries
-----------------------------------------------------------------------------
(* The refinement: every command maps to a step of FileTree or to none.    *)

(* A directory other than the root has the path of its parent and a name.  *)
LEMMA PathFacts ==
  ASSUME NEW s, NEW D, NEW F, NEW up, NEW path, Shape(s, D, F, up, path)
  PROVE  /\ Root \in D /\ path[Root] = <<>>
         /\ \A d \in D : path[d] \in Seq(Names)
         /\ \A d \in D \ {Root} :
              /\ up[d] \in D \ {d}
              /\ path[d] # <<>>
              /\ Tree!Parent(path[d]) = path[up[d]]
              /\ \E q \in Used(s, up[d]) \ Dots :
                   /\ EntryAt(s, up[d], q).inode = d
                   /\ EntryAt(s, up[d], q).file_type = DIR
                   /\ EntryAt(s, up[d], q).name \in Names
                   /\ path[d] = Append(path[up[d]], EntryAt(s, up[d], q).name)
  <1>1. /\ Root \in D /\ path[Root] = <<>>
        /\ \A d \in D : path[d] \in Seq(Names)
    BY DEF Shape, Pathed, Marked
  <1>2. ASSUME NEW d \in D \ {Root}
        PROVE  /\ up[d] \in D \ {d}
               /\ path[d] # <<>>
               /\ Tree!Parent(path[d]) = path[up[d]]
               /\ \E q \in Used(s, up[d]) \ Dots :
                    /\ EntryAt(s, up[d], q).inode = d
                    /\ EntryAt(s, up[d], q).file_type = DIR
                    /\ EntryAt(s, up[d], q).name \in Names
                    /\ path[d] = Append(path[up[d]], EntryAt(s, up[d], q).name)
    <2>1. /\ up[d] \in D /\ up[d] # d
          /\ \E q \in Used(s, up[d]) \ Dots :
                /\ EntryAt(s, up[d], q).inode = d
                /\ ChildDir(EntryAt(s, up[d], q), up[d], D, up, path)
      BY ChildIsOther
    <2>2. PICK q \in Used(s, up[d]) \ Dots :
                /\ EntryAt(s, up[d], q).inode = d
                /\ ChildDir(EntryAt(s, up[d], q), up[d], D, up, path)
      BY <2>1
    <2>3. PICK name \in Names : name = EntryAt(s, up[d], q).name BY <2>2 DEF ChildDir
    <2>4. path[d] = Append(path[up[d]], name) /\ EntryAt(s, up[d], q).file_type = DIR
      BY <2>2, <2>3 DEF ChildDir
    <2>5. path[up[d]] \in Seq(Names) BY <1>1, <2>1
    <2>6. PICK w \in Seq(Names) : w = path[up[d]] BY <2>5
    <2>7. path[d] = Append(w, name) BY <2>4, <2>6
    <2>8. Append(w, name) # <<>> BY AppendProperties
    <2>9. SubSeq(Append(w, name), 1, Len(Append(w, name)) - 1) = w BY FrontOfAppend
    <2>10. path[d] # <<>> BY <2>7, <2>8
    <2>11. Tree!Parent(path[d]) = path[up[d]] BY <2>6, <2>7, <2>9 DEF Tree!Parent
    <2> QED BY <2>1, <2>2, <2>3, <2>4, <2>10, <2>11
  <1> QED BY <1>1, <1>2

(* No two directories have the same path. *)
LEMMA PathsDiffer ==
  ASSUME NEW s, NEW D, NEW F, NEW up, NEW path, Shape(s, D, F, up, path)
  PROVE  \A d, e \in D : path[d] = path[e] => d = e
  <1> DEFINE Good == {k \in Nat : \A d, e \in D :
                         Len(path[d]) = k /\ path[d] = path[e] => d = e}
  <1>1. /\ Root \in D /\ path[Root] = <<>>
        /\ \A d \in D : path[d] \in Seq(Names)
        /\ \A d \in D \ {Root} :
              /\ up[d] \in D \ {d}
              /\ path[d] # <<>>
              /\ \E q \in Used(s, up[d]) \ Dots :
                   /\ EntryAt(s, up[d], q).inode = d
                   /\ EntryAt(s, up[d], q).file_type = DIR
                   /\ EntryAt(s, up[d], q).name \in Names
                   /\ path[d] = Append(path[up[d]], EntryAt(s, up[d], q).name)
    BY PathFacts
  <1>2. \A d \in D : Len(path[d]) \in Nat /\ (Len(path[d]) = 0 => path[d] = <<>>)
    BY <1>1
  <1>3. 0 \in Good
    <2>1. \A d \in D : Len(path[d]) = 0 => d = Root BY <1>1, <1>2
    <2>2. \A d, e \in D : Len(path[d]) = 0 /\ path[d] = path[e] => d = e BY <2>1
    <2> QED BY <2>2
  <1>4. ASSUME NEW k \in Nat, k \in Good PROVE k + 1 \in Good
    <2>1. ASSUME NEW d \in D, NEW e \in D, Len(path[d]) = k + 1, path[d] = path[e]
          PROVE  d = e
      <3>1. d # Root /\ e # Root BY <2>1, <1>1
      <3>2. PICK q \in Used(s, up[d]) \ Dots :
               /\ EntryAt(s, up[d], q).inode = d
               /\ EntryAt(s, up[d], q).file_type = DIR
               /\ EntryAt(s, up[d], q).name \in Names
               /\ path[d] = Append(path[up[d]], EntryAt(s, up[d], q).name)
        BY <3>1, <1>1
      <3>3. PICK r \in Used(s, up[e]) \ Dots :
               /\ EntryAt(s, up[e], r).inode = e
               /\ EntryAt(s, up[e], r).file_type = DIR
               /\ EntryAt(s, up[e], r).name \in Names
               /\ path[e] = Append(path[up[e]], EntryAt(s, up[e], r).name)
        BY <3>1, <1>1
      <3>4. PICK v \in Seq(Names) : v = path[up[d]] BY <3>1, <1>1
      <3>5. PICK w \in Seq(Names) : w = path[up[e]] BY <3>1, <1>1
      <3>6. PICK x \in Names : x = EntryAt(s, up[d], q).name BY <3>2
      <3>7. PICK y \in Names : y = EntryAt(s, up[e], r).name BY <3>3
      <3>8. Append(v, x) = Append(w, y) /\ path[d] = Append(v, x)
        BY <2>1, <3>2, <3>3, <3>4, <3>5, <3>6, <3>7
      <3>9. v = w /\ x = y BY <3>8, AppendInjective
      <3>10. Len(v) + 1 = k + 1 /\ Len(v) \in Nat BY <2>1, <3>8, AppendProperties
      <3>11. Len(v) = k BY <3>10
      <3>12. up[d] = up[e] BY <1>1, <1>4, <3>1, <3>4, <3>5, <3>9, <3>11
      <3>13. up[d] \in D BY <3>1, <1>1
      <3>14. q = r BY <3>2, <3>3, <3>6, <3>7, <3>9, <3>12, <3>13 DEF Shape, Distinct
      <3> QED BY <3>2, <3>3, <3>12, <3>14
    <2>2. k + 1 \in Nat OBVIOUS
    <2> QED BY <2>1, <2>2
  <1> HIDE DEF Good
  <1>5. Nat \subseteq Good BY <1>3, <1>4, InductionOnSet
  <1> USE DEF Good
  <1> QED BY <1>2, <1>5

(* The path x is that of a file. *)
FileAt(s, D, path, x) ==
    \E d \in D : \E p \in Used(s, d) \ Dots :
        EntryAt(s, d, p).file_type = FILE /\ x = Append(path[d], EntryAt(s, d, p).name)

(* The sets of paths that the tree of FileTree is made of. *)
LEMMA TreePaths ==
  ASSUME NEW s \in FileSystems, NEW D, NEW F, NEW up, NEW path, Shape(s, D, F, up, path)
  PROVE  /\ Paths(DirPaths(s)) = {path[d] : d \in D}
         /\ \A x : x \in Paths(FilePaths(s)) <=> FileAt(s, D, path, x)
  <1>1. Paths(DirPaths(s)) = {path[d] : d \in D}
    <2>1. DirPaths(s) = {<<path[d], d>> : d \in D} BY ShapeReaches
    <2>2. \A x \in DirPaths(s) : x[1] \in {path[d] : d \in D} BY <2>1
    <2>3. \A d \in D : <<path[d], d>> \in DirPaths(s) /\ <<path[d], d>>[1] = path[d] BY <2>1
    <2> QED BY <2>2, <2>3 DEF Paths
  <1>2. ASSUME NEW x, x \in Paths(FilePaths(s)) PROVE FileAt(s, D, path, x)
    <2>1. PICK y \in FilePaths(s) : x = y[1] BY <1>2 DEF Paths
    <2>2. \E d \in D : \E p \in Used(s, d) \ Dots :
              /\ EntryAt(s, d, p).file_type = FILE
              /\ y = <<Append(path[d], EntryAt(s, d, p).name), EntryAt(s, d, p).inode>>
      BY FileReached
    <2> QED BY <2>1, <2>2 DEF FileAt
  <1>3. ASSUME NEW x, FileAt(s, D, path, x) PROVE x \in Paths(FilePaths(s))
    <2>1. PICK d \in D : \E p \in Used(s, d) \ Dots :
              EntryAt(s, d, p).file_type = FILE /\ x = Append(path[d], EntryAt(s, d, p).name)
      BY <1>3 DEF FileAt
    <2>2. PICK p \in Used(s, d) \ Dots :
              EntryAt(s, d, p).file_type = FILE /\ x = Append(path[d], EntryAt(s, d, p).name)
      BY <2>1
    <2>3. PICK y : y = <<Append(path[d], EntryAt(s, d, p).name), EntryAt(s, d, p).inode>>
      OBVIOUS
    <2>4. y \in FilePaths(s) BY <2>2, <2>3, FileReached
    <2>5. y[1] = x BY <2>2, <2>3
    <2> QED BY <2>4, <2>5 DEF Paths
  <1> QED BY <1>1, <1>2, <1>3
-----------------------------------------------------------------------------
(* How the files of the tree change with the entries. *)

(* No entry, no file changes. *)
LEMMA SameFiles ==
  ASSUME NEW s, NEW t, NEW D, NEW path, \A d \in D : SameEntries(s, t, d), NEW x
  PROVE  FileAt(t, D, path, x) <=> FileAt(s, D, path, x)
BY DEF FileAt, SameEntries

(* A new entry for a file is a new file. *)
LEMMA OneMoreFile ==
  ASSUME NEW s, NEW t, NEW D, NEW path, NEW n \in D, NEW p, NEW e, NEW name,
         Dots \subseteq Used(s, n),
         e.file_type = FILE, e.name = name, Gains(s, t, n, p, e),
         \A d \in D \ {n} : SameEntries(s, t, d),
         NEW new, new = Append(path[n], name), NEW x
  PROVE  /\ FileAt(s, D, path, x) => FileAt(t, D, path, x)
         /\ x = new => FileAt(t, D, path, x)
         /\ FileAt(t, D, path, x) /\ x # new => FileAt(s, D, path, x)
  <1>1. /\ p \in Used(t, n) \ Dots
        /\ EntryAt(t, n, p).file_type = FILE /\ EntryAt(t, n, p).name = name
        /\ Used(t, n) = Used(s, n) \cup {p}
        /\ \A q \in Used(s, n) : EntryAt(t, n, q) = EntryAt(s, n, q)
    BY DEF Gains
  <1>2. ASSUME FileAt(s, D, path, x) PROVE FileAt(t, D, path, x)
    BY <1>1, <1>2 DEF FileAt, SameEntries
  <1>3. x = Append(path[n], name) => FileAt(t, D, path, x) BY <1>1 DEF FileAt
  <1>4. ASSUME FileAt(t, D, path, x)
        PROVE  FileAt(s, D, path, x) \/ x = Append(path[n], name)
    <2>1. PICK d \in D : \E q \in Used(t, d) \ Dots :
              EntryAt(t, d, q).file_type = FILE /\ x = Append(path[d], EntryAt(t, d, q).name)
      BY <1>4 DEF FileAt
    <2>2. PICK q \in Used(t, d) \ Dots :
              EntryAt(t, d, q).file_type = FILE /\ x = Append(path[d], EntryAt(t, d, q).name)
      BY <2>1
    <2>3. CASE d = n /\ q = p BY <1>1, <2>2, <2>3
    <2>4. CASE d = n /\ q # p
      <3>1. q \in Used(s, d) \ Dots /\ EntryAt(t, d, q) = EntryAt(s, d, q)
        BY <1>1, <2>2, <2>4
      <3> QED BY <2>2, <3>1 DEF FileAt
    <2>5. CASE d # n BY <2>2, <2>5 DEF FileAt, SameEntries
    <2> QED BY <2>3, <2>4, <2>5
  <1> QED BY <1>2, <1>3, <1>4

(* A new directory holds no file. *)
LEMMA NoMoreFiles ==
  ASSUME NEW s, NEW t, NEW D, NEW path, NEW n \in D, NEW p, NEW m, NEW name, NEW w,
         m \notin D, Used(t, m) = Dots,
         Gains(s, t, n, p, NewEntry(m, DIR, name)),
         \A d \in D \ {n} : SameEntries(s, t, d), NEW x
  PROVE  FileAt(t, D \cup {m}, Extended(path, D, m, w), x) <=> FileAt(s, D, path, x)
  <1>1. /\ EntryAt(t, n, p).file_type # FILE
        /\ Used(t, n) = Used(s, n) \cup {p}
        /\ \A q \in Used(s, n) : EntryAt(t, n, q) = EntryAt(s, n, q)
    BY DEF Gains, NewEntry, DIR, FILE
  <1> DEFINE way == Extended(path, D, m, w)
  <1>2. \A d \in D : way[d] = path[d] BY DEF Extended
  <1> HIDE DEF way
  <1>3. ASSUME FileAt(s, D, path, x) PROVE FileAt(t, D \cup {m}, way, x)
    BY <1>1, <1>2, <1>3 DEF FileAt, SameEntries
  <1>4. ASSUME FileAt(t, D \cup {m}, way, x) PROVE FileAt(s, D, path, x)
    <2>1. PICK d \in D \cup {m} : \E q \in Used(t, d) \ Dots :
              EntryAt(t, d, q).file_type = FILE /\ x = Append(way[d], EntryAt(t, d, q).name)
      BY <1>4 DEF FileAt
    <2>2. PICK q \in Used(t, d) \ Dots :
              EntryAt(t, d, q).file_type = FILE /\ x = Append(way[d], EntryAt(t, d, q).name)
      BY <2>1
    <2>3. d \in D BY <2>2
    <2>4. q \in Used(s, d) /\ EntryAt(t, d, q) = EntryAt(s, d, q)
      BY <1>1, <2>2, <2>3 DEF SameEntries
    <2> QED BY <1>2, <2>2, <2>3, <2>4 DEF FileAt
  <1> QED BY <1>3, <1>4 DEF way

(* An entry for a file that goes is the one file that goes. *)
LEMMA OneFileLess ==
  ASSUME NEW s, NEW t, NEW D, NEW F, NEW up, NEW path, Shape(s, D, F, up, path),
         NEW n \in D, NEW p, p \notin Dots,
         Loses(s, t, n, p), EntryAt(s, n, p).file_type = FILE,
         NEW name \in FileNames, name = EntryAt(s, n, p).name,
         \A d \in D \ {n} : SameEntries(s, t, d),
         NEW old, old = Append(path[n], name), NEW x
  PROVE  FileAt(t, D, path, x) <=> FileAt(s, D, path, x) /\ x # old
  <1>1. /\ p \in Used(s, n)
        /\ Used(t, n) = Used(s, n) \ {p}
        /\ \A q \in Used(s, n) \ {p} : EntryAt(t, n, q) = EntryAt(s, n, q)
    BY DEF Loses
  <1>2. ASSUME FileAt(s, D, path, x), x # Append(path[n], name) PROVE FileAt(t, D, path, x)
    BY <1>1, <1>2 DEF FileAt, SameEntries
  <1>3. ASSUME FileAt(t, D, path, x)
        PROVE  FileAt(s, D, path, x) /\ x # Append(path[n], name)
    <2>1. PICK d \in D : \E q \in Used(t, d) \ Dots :
              EntryAt(t, d, q).file_type = FILE /\ x = Append(path[d], EntryAt(t, d, q).name)
      BY <1>3 DEF FileAt
    <2>2. PICK q \in Used(t, d) \ Dots :
              EntryAt(t, d, q).file_type = FILE /\ x = Append(path[d], EntryAt(t, d, q).name)
      BY <2>1
    <2>3. /\ q \in Used(s, d) \ Dots /\ EntryAt(t, d, q) = EntryAt(s, d, q)
          /\ d = n => q # p
      BY <1>1, <2>2 DEF SameEntries
    <2>4. ASSUME x = Append(path[n], name) PROVE FALSE
      <3>1. PICK v \in Seq(Names) : v = path[d] BY PathFacts
      <3>2. PICK w \in Seq(Names) : w = path[n] BY PathFacts
      <3>3. PICK y \in FileNames : y = EntryAt(s, d, q).name
        BY <2>2, <2>3, EntryKinds DEF ChildFile
      <3>4. Append(v, y) = Append(w, name) BY <2>2, <2>3, <2>4, <3>1, <3>2, <3>3
      <3>5. v = w /\ y = name
        <4>1. v \in Seq(Names \cup FileNames) /\ w \in Seq(Names \cup FileNames)
          OBVIOUS
        <4> QED BY <4>1, <3>4, AppendInjective
      <3>6. d = n BY <3>1, <3>2, <3>5, PathsDiffer
      <3>7. q = p BY <1>1, <2>2, <2>3, <3>3, <3>5, <3>6 DEF Shape, Distinct
      <3> QED BY <2>3, <3>6, <3>7
    <2> QED BY <2>2, <2>3, <2>4 DEF FileAt
  <1> QED BY <1>2, <1>3

(* A directory that goes held no file. *)
LEMMA NoFileLess ==
  ASSUME NEW s, NEW t, NEW D, NEW path, NEW n \in D, NEW p, NEW c, c # n,
         Used(s, c) = Dots, Loses(s, t, n, p), EntryAt(s, n, p).file_type = DIR,
         \A d \in D \ {n, c} : SameEntries(s, t, d), NEW x
  PROVE  FileAt(t, D \ {c}, Without(path, D, c), x) <=> FileAt(s, D, path, x)
  <1>1. /\ Used(t, n) = Used(s, n) \ {p}
        /\ EntryAt(s, n, p).file_type # FILE
        /\ \A q \in Used(s, n) \ {p} : EntryAt(t, n, q) = EntryAt(s, n, q)
    BY DEF Loses, DIR, FILE
  <1> DEFINE way == Without(path, D, c)
  <1>2. \A d \in D \ {c} : way[d] = path[d] BY DEF Without
  <1> HIDE DEF way
  <1>3. ASSUME FileAt(s, D, path, x) PROVE FileAt(t, D \ {c}, way, x)
    <2>1. PICK d \in D : \E q \in Used(s, d) \ Dots :
              EntryAt(s, d, q).file_type = FILE /\ x = Append(path[d], EntryAt(s, d, q).name)
      BY <1>3 DEF FileAt
    <2>2. PICK q \in Used(s, d) \ Dots :
              EntryAt(s, d, q).file_type = FILE /\ x = Append(path[d], EntryAt(s, d, q).name)
      BY <2>1
    <2>3. d \in D \ {c} BY <2>2
    <2>4. q \in Used(t, d) /\ EntryAt(t, d, q) = EntryAt(s, d, q)
      BY <1>1, <2>2, <2>3 DEF SameEntries
    <2> QED BY <1>2, <2>2, <2>3, <2>4 DEF FileAt
  <1>4. ASSUME FileAt(t, D \ {c}, way, x) PROVE FileAt(s, D, path, x)
    BY <1>1, <1>2, <1>4 DEF FileAt, SameEntries
  <1> QED BY <1>3, <1>4 DEF way
-----------------------------------------------------------------------------
(* Every step, in terms of paths. *)

(* What the tree of FileTree is before and after a step. *)
LEMMA Before ==
  ASSUME TypeOK, Followed, NEW D, NEW F, NEW up, NEW path, InOrder(D, F, up, path)
  PROVE  /\ Shape(fs, D, F, up, path)
         /\ current_dir \in D /\ current_path = path[current_dir]
         /\ Paths(DirPaths(fs)) = {path[d] : d \in D}
         /\ \A x : x \in Paths(FilePaths(fs)) <=> FileAt(fs, D, path, x)
  <1>1. fs \in FileSystems /\ Shape(fs, D, F, up, path) BY DEF TypeOK, InOrder
  <1>2. current_dir \in D /\ current_path = path[current_dir] BY DEF InOrder, Here
  <1> QED BY <1>1, <1>2, TreePaths

(* What InOrder says of the disk a step leaves.                            *)
LEMMA After ==
  ASSUME TypeOK', NEW D, NEW F, NEW up, NEW path, InOrder(D, F, up, path)'
  PROVE  /\ current_dir' \in D /\ current_path' = path[current_dir']
         /\ Paths(DirPaths(fs')) = {path[d] : d \in D}
         /\ \A x : x \in Paths(FilePaths(fs')) <=> FileAt(fs', D, path, x)
  <1>1. fs' \in FileSystems /\ Shape(fs', D, F, up, path) BY LiveSetsAfter
  <1>2. current_dir' \in D /\ current_path' = path[current_dir'] BY LiveSetsAfter
  <1> QED BY <1>1, <1>2, TreePaths

(* A set of files is known by its members. *)
LEMMA SameFileSet ==
  ASSUME NEW A, NEW B, \A x : x \in A <=> x \in B
  PROVE  A = B
OBVIOUS

(* The commands that leave the entries alone. *)
LEMMA StaysSameTree ==
  ASSUME TypeOK, TypeOK', Followed, Followed',
         NEW D, NEW F, NEW up, NEW path, InOrder(D, F, up, path),
         StaysSame(D, F, up, path)
  PROVE  [Tree!Next]_Tree!vars
  <1>1. /\ Shape(fs, D, F, up, path)
        /\ current_dir \in D /\ current_path = path[current_dir]
        /\ Paths(DirPaths(fs)) = {path[d] : d \in D}
        /\ \A x : x \in Paths(FilePaths(fs)) <=> FileAt(fs, D, path, x)
    BY Before
  <1>2. /\ current_dir' \in D /\ current_path' = path[current_dir']
        /\ Paths(DirPaths(fs')) = {path[d] : d \in D}
        /\ \A x : x \in Paths(FilePaths(fs')) <=> FileAt(fs', D, path, x)
    BY After DEF StaysSame
  <1>3. Paths(DirPaths(fs')) = Paths(DirPaths(fs)) BY <1>1, <1>2
  <1>4. Paths(FilePaths(fs')) = Paths(FilePaths(fs))
    <2>1. \A x : FileAt(fs', D, path, x) <=> FileAt(fs, D, path, x)
      BY SameFiles DEF StaysSame
    <2>2. \A x : x \in Paths(FilePaths(fs')) <=> x \in Paths(FilePaths(fs))
      BY <1>1, <1>2, <2>1
    <2> QED BY <2>2, SameFileSet
  <1>5. PICK n : n = current_dir OBVIOUS
  <1>6. PICK m : m = current_dir' OBVIOUS
  <1>7. n \in D /\ m \in D /\ current_path = path[n] /\ current_path' = path[m]
    BY <1>1, <1>2, <1>5, <1>6
  <1>8. m \in {n, Root, up[n]} \/ (m \in D \ {Root} /\ up[m] = n)
    BY <1>5, <1>6 DEF StaysSame
  <1>9. CASE m = n \/ (m = up[n] /\ n = Root)
    <2>1. m = n BY <1>9, <1>1 DEF Shape, Pathed
    <2>2. UNCHANGED Tree!vars BY <1>3, <1>4, <1>7, <2>1 DEF Tree!vars, Followed
    <2> QED BY <2>2
  <1>10. CASE m = Root
    <2>1. current_path' = <<>> BY <1>1, <1>7, <1>10, PathFacts
    <2>2. Tree!Login BY <1>3, <1>4, <2>1 DEF Tree!Login, Followed
    <2> QED BY <2>2 DEF Tree!Next
  <1>11. CASE m = up[n] /\ n # Root
    <2>1. current_path # <<>> /\ current_path' = Tree!Parent(current_path)
      BY <1>1, <1>7, <1>11, PathFacts
    <2>2. Tree!Leave BY <1>3, <1>4, <2>1 DEF Tree!Leave, Tree!Parent, Followed
    <2> QED BY <2>2 DEF Tree!Next
  <1>12. CASE m \in D \ {Root} /\ up[m] = n
    <2>1. PICK name \in Names : path[m] = Append(path[n], name)
      <3>1. \E q \in Used(fs, up[m]) \ Dots :
               /\ EntryAt(fs, up[m], q).inode = m
               /\ EntryAt(fs, up[m], q).file_type = DIR
               /\ EntryAt(fs, up[m], q).name \in Names
               /\ path[m] = Append(path[up[m]], EntryAt(fs, up[m], q).name)
        BY <1>1, <1>12, PathFacts
      <3> QED BY <3>1, <1>12
    <2>2. /\ current_path' = Append(current_path, name)
          /\ Append(current_path, name) \in Paths(DirPaths(fs))
      BY <1>1, <1>7, <2>1
    <2>3. Tree!Enter(name) BY <1>3, <1>4, <2>2 DEF Tree!Enter, Followed
    <2> QED BY <2>3 DEF Tree!Next
  <1> QED BY <1>8, <1>9, <1>10, <1>11, <1>12

(* touch. *)
LEMMA MakesFileTree ==
  ASSUME TypeOK, TypeOK', Followed, Followed', UNCHANGED current_dir,
         NEW D, NEW F, NEW up, NEW path, InOrder(D, F, up, path),
         NEW n, n = current_dir, NEW m, NEW p, NEW name,
         MakesFile(D, F, up, path, n, m, p, name)
  PROVE  Tree!Next
  <1>1. /\ Shape(fs, D, F, up, path)
        /\ n \in D /\ current_path = path[n]
        /\ Paths(DirPaths(fs)) = {path[d] : d \in D}
        /\ \A x : x \in Paths(FilePaths(fs)) <=> FileAt(fs, D, path, x)
    BY Before
  <1>2. /\ current_path' = path[n]
        /\ Paths(DirPaths(fs')) = {path[d] : d \in D}
        /\ \A x : x \in Paths(FilePaths(fs')) <=> FileAt(fs', D, path, x)
    BY After DEF MakesFile
  <1>3. /\ name \in FileNames
        /\ \A q \in Used(fs, n) : EntryAt(fs, n, q).file_type = FILE
                                        => EntryAt(fs, n, q).name # name
        /\ Gains(fs, fs', n, p, NewEntry(m, FILE, name))
        /\ \A d \in D \ {n} : SameEntries(fs, fs', d)
    BY DEF MakesFile
  <1>4. PICK new : new = Append(path[n], name) OBVIOUS
  <1>5. Paths(FilePaths(fs')) = Paths(FilePaths(fs)) \cup {new}
    <2>1. Dots \subseteq Used(fs, n) BY <1>1 DEF Shape, Dotted
    <2>2. PICK e : e = NewEntry(m, FILE, name) OBVIOUS
    <2>3. ASSUME NEW x
          PROVE  FileAt(fs', D, path, x)
                    <=> FileAt(fs, D, path, x) \/ x = new
      <3>1. e.file_type = FILE /\ e.name = name BY <2>2 DEF NewEntry
      <3>2. PICK s : s = fs OBVIOUS
      <3>3. PICK t : t = fs' OBVIOUS
      <3>4. n \in D BY <1>1
      <3>5. Dots \subseteq Used(s, n) BY <2>1, <3>2
      <3>6. Gains(s, t, n, p, e) BY <1>3, <2>2, <3>2, <3>3
      <3>7. \A d \in D \ {n} : SameEntries(s, t, d) BY <1>3, <3>2, <3>3
      <3>8. new = Append(path[n], name) BY <1>4
      <3>9. /\ FileAt(s, D, path, x) => FileAt(t, D, path, x)
            /\ x = new => FileAt(t, D, path, x)
            /\ FileAt(t, D, path, x) /\ x # new => FileAt(s, D, path, x)
        BY <3>1, <3>4, <3>5, <3>6, <3>7, <3>8, OneMoreFile
      <3> QED BY <3>2, <3>3, <3>9
    <2>4. \A x : x \in Paths(FilePaths(fs'))
                    <=> x \in Paths(FilePaths(fs)) \cup {new}
      BY <1>1, <1>2, <1>4, <2>3
    <2> QED BY <2>4, SameFileSet
  <1>6. new \notin Paths(FilePaths(fs))
    <2> SUFFICES ASSUME FileAt(fs, D, path, new) PROVE FALSE BY <1>1
    <2>1. PICK d \in D : \E q \in Used(fs, d) \ Dots :
              EntryAt(fs, d, q).file_type = FILE
              /\ new = Append(path[d], EntryAt(fs, d, q).name)
      BY DEF FileAt
    <2>2. PICK q \in Used(fs, d) \ Dots :
              EntryAt(fs, d, q).file_type = FILE
              /\ new = Append(path[d], EntryAt(fs, d, q).name)
      BY <2>1
    <2>3. PICK y \in FileNames : y = EntryAt(fs, d, q).name
      BY <1>1, <2>2, EntryKinds DEF ChildFile
    <2>4. PICK v \in Seq(Names) : v = path[d] BY <1>1, PathFacts
    <2>5. PICK w \in Seq(Names) : w = path[n] BY <1>1, PathFacts
    <2>6. Append(v, y) = Append(w, name) BY <1>4, <2>2, <2>3, <2>4, <2>5
    <2>7. v = w /\ y = name
      <3>1. /\ v \in Seq(Names \cup FileNames) /\ w \in Seq(Names \cup FileNames)
            /\ y \in Names \cup FileNames /\ name \in Names \cup FileNames
        BY <1>3
      <3> QED BY <3>1, <2>6, AppendInjective
    <2>8. d = n
      <3>1. \A d1, e \in D : path[d1] = path[e] => d1 = e BY <1>1, PathsDiffer
      <3> QED BY <3>1, <1>1, <2>4, <2>5, <2>7
    <2> QED BY <1>3, <2>2, <2>3, <2>7, <2>8
  <1>7. Tree!MakeFile(name)
    BY <1>1, <1>2, <1>4, <1>5, <1>6 DEF Tree!MakeFile, Followed
  <1> QED BY <1>3, <1>7 DEF Tree!Next

(* mkdir. *)
LEMMA MakesDirTree ==
  ASSUME TypeOK, TypeOK', Followed, Followed', UNCHANGED current_dir,
         NEW D, NEW F, NEW up, NEW path, InOrder(D, F, up, path),
         NEW n, n = current_dir, NEW m, NEW p, NEW name,
         MakesDir(D, F, up, path, n, m, p, name)
  PROVE  Tree!Next
  <1>1. /\ Shape(fs, D, F, up, path)
        /\ n \in D /\ current_path = path[n]
        /\ Paths(DirPaths(fs)) = {path[d] : d \in D}
        /\ \A x : x \in Paths(FilePaths(fs)) <=> FileAt(fs, D, path, x)
    BY Before
  <1>2. /\ name \in Names /\ m \notin fs.inode_bitmap
        /\ \A q \in Used(fs, n) : EntryAt(fs, n, q).file_type = DIR
                                        => EntryAt(fs, n, q).name # name
        /\ Gains(fs, fs', n, p, NewEntry(m, DIR, name))
        /\ \A d \in D \ {n} : SameEntries(fs, fs', d)
        /\ Used(fs', m) = Dots
    BY DEF MakesDir
  <1>3. m \notin D BY <1>1, <1>2 DEF Shape, Marked
  <1>4. PICK new : new = Append(path[n], name) OBVIOUS
  <1>5. PICK way : way = Extended(path, D, m, new) OBVIOUS
  <1>6. PICK E : E = D \cup {m} OBVIOUS
  <1>7. InOrder(E, F, Extended(up, D, m, n), way)' BY <1>4, <1>5, <1>6 DEF MakesDir
  <1>8. /\ current_path' = way[current_dir']
        /\ Paths(DirPaths(fs')) = {way[d] : d \in E}
        /\ \A x : x \in Paths(FilePaths(fs')) <=> FileAt(fs', E, way, x)
    BY <1>7, After
  <1>9. (\A d \in D : way[d] = path[d]) /\ way[m] = new BY <1>3, <1>5 DEF Extended
  <1>10. current_path' = current_path BY <1>1, <1>8, <1>9
  <1>11. Paths(DirPaths(fs')) = Paths(DirPaths(fs)) \cup {new}
    BY <1>1, <1>6, <1>8, <1>9
  <1>12. Paths(FilePaths(fs')) = Paths(FilePaths(fs))
    <2>1. \A x : FileAt(fs', E, way, x) <=> FileAt(fs, D, path, x)
      BY <1>1, <1>2, <1>3, <1>5, <1>6, NoMoreFiles
    <2>2. \A x : x \in Paths(FilePaths(fs')) <=> x \in Paths(FilePaths(fs))
      BY <1>1, <1>8, <2>1
    <2> QED BY <2>2, SameFileSet
  <1>13. new \notin Paths(DirPaths(fs))
    <2> SUFFICES ASSUME NEW d \in D, path[d] = new PROVE FALSE BY <1>1
    <2>1. PICK w \in Seq(Names) : w = path[n] BY <1>1, PathFacts
    <2>2. d # Root BY <1>1, <1>2, <1>4, <2>1, PathFacts, AppendProperties
    <2>3. up[d] \in D BY <1>1, <2>2, PathFacts
    <2>4. PICK q \in Used(fs, up[d]) \ Dots :
             /\ EntryAt(fs, up[d], q).file_type = DIR
             /\ EntryAt(fs, up[d], q).name \in Names
             /\ path[d] = Append(path[up[d]], EntryAt(fs, up[d], q).name)
      <3>1. \E q \in Used(fs, up[d]) \ Dots :
               /\ EntryAt(fs, up[d], q).inode = d
               /\ EntryAt(fs, up[d], q).file_type = DIR
               /\ EntryAt(fs, up[d], q).name \in Names
               /\ path[d] = Append(path[up[d]], EntryAt(fs, up[d], q).name)
        <4>1. Shape(fs, D, F, up, path) /\ d \in D \ {Root} BY <1>1, <2>2
        <4> QED BY <4>1, PathFacts
      <3> QED BY <3>1
    <2>5. PICK y \in Names : y = EntryAt(fs, up[d], q).name BY <2>4
    <2>6. PICK v \in Seq(Names) : v = path[up[d]] BY <1>1, <2>3, PathFacts
    <2>7. Append(v, y) = Append(w, name) BY <1>4, <2>1, <2>4, <2>5, <2>6
    <2>8. v = w /\ y = name BY <1>2, <2>7, AppendInjective
    <2>9. up[d] = n
      <3>1. \A d1, e \in D : path[d1] = path[e] => d1 = e BY <1>1, PathsDiffer
      <3> QED BY <3>1, <1>1, <2>1, <2>3, <2>6, <2>8
    <2> QED BY <1>2, <2>4, <2>5, <2>8, <2>9
  <1>14. Tree!MakeDir(name)
    BY <1>1, <1>4, <1>10, <1>11, <1>12, <1>13 DEF Tree!MakeDir, Followed
  <1> QED BY <1>2, <1>14 DEF Tree!Next

(* rm. *)
LEMMA LosesFileTree ==
  ASSUME TypeOK, TypeOK', Followed, Followed', UNCHANGED current_dir,
         NEW D, NEW F, NEW up, NEW path, InOrder(D, F, up, path),
         NEW n, n = current_dir, NEW c, NEW p,
         LosesFile(D, F, up, path, n, c, p)
  PROVE  Tree!Next
  <1>1. /\ Shape(fs, D, F, up, path)
        /\ n \in D /\ current_path = path[n]
        /\ Paths(DirPaths(fs)) = {path[d] : d \in D}
        /\ \A x : x \in Paths(FilePaths(fs)) <=> FileAt(fs, D, path, x)
    BY Before
  <1>2. /\ current_path' = path[n]
        /\ Paths(DirPaths(fs')) = {path[d] : d \in D}
        /\ \A x : x \in Paths(FilePaths(fs')) <=> FileAt(fs', D, path, x)
    BY After DEF LosesFile
  <1>3. /\ Loses(fs, fs', n, p) /\ p \notin Dots
        /\ EntryAt(fs, n, p).file_type = FILE
        /\ \A d \in D \ {n} : SameEntries(fs, fs', d)
    BY DEF LosesFile
  <1>4. p \in Used(fs, n) BY <1>3 DEF Loses
  <1>5. PICK name \in FileNames : name = EntryAt(fs, n, p).name
    BY <1>1, <1>3, <1>4, EntryKinds DEF ChildFile
  <1>6. PICK old : old = Append(path[n], name) OBVIOUS
  <1>7. old \in Paths(FilePaths(fs))
    BY <1>1, <1>3, <1>4, <1>5, <1>6 DEF FileAt
  <1>8. Paths(FilePaths(fs')) = Paths(FilePaths(fs)) \ {old}
    <2>1. ASSUME NEW x
          PROVE  FileAt(fs', D, path, x)
                    <=> FileAt(fs, D, path, x) /\ x # old
      <3>1. /\ Shape(fs, D, F, up, path) /\ n \in D /\ p \notin Dots
            /\ Loses(fs, fs', n, p) /\ EntryAt(fs, n, p).file_type = FILE
            /\ name \in FileNames /\ name = EntryAt(fs, n, p).name
            /\ \A d \in D \ {n} : SameEntries(fs, fs', d)
            /\ old = Append(path[n], name)
        BY <1>1, <1>3, <1>5, <1>6
      <3> QED BY <3>1, OneFileLess, SMTT(60)
    <2>2. \A x : x \in Paths(FilePaths(fs'))
                    <=> x \in Paths(FilePaths(fs)) \ {old}
      BY <1>1, <1>2, <1>6, <2>1
    <2> QED BY <2>2, SameFileSet
  <1>9. Tree!RemoveFile(name)
    BY <1>1, <1>2, <1>6, <1>7, <1>8 DEF Tree!RemoveFile, Followed
  <1> QED BY <1>9 DEF Tree!Next

(* rmdir. *)
LEMMA LosesDirTree ==
  ASSUME TypeOK, TypeOK', Followed, Followed', UNCHANGED current_dir,
         NEW D, NEW F, NEW up, NEW path, InOrder(D, F, up, path),
         NEW n, n = current_dir, NEW c, NEW p,
         LosesDir(D, F, up, path, n, c, p)
  PROVE  Tree!Next
  <1>1. /\ Shape(fs, D, F, up, path)
        /\ n \in D /\ current_path = path[n]
        /\ Paths(DirPaths(fs)) = {path[d] : d \in D}
        /\ \A x : x \in Paths(FilePaths(fs)) <=> FileAt(fs, D, path, x)
    BY Before
  <1>2. /\ Loses(fs, fs', n, p) /\ p \notin Dots
        /\ EntryAt(fs, n, p).file_type = DIR
        /\ EntryAt(fs, n, p).inode = c
        /\ Used(fs, c) = Dots
        /\ \A d \in D \ {n} : SameEntries(fs, fs', d)
    BY DEF LosesDir
  <1>3. p \in Used(fs, n) BY <1>2 DEF Loses
  <1>4. ChildDir(EntryAt(fs, n, p), n, D, up, path)
    <2>1. ~ ChildFile(EntryAt(fs, n, p), F) BY <1>2 DEF ChildFile, DIR, FILE
    <2> QED BY <1>1, <1>2, <1>3, <2>1 DEF Shape, Closed
  <1>5. PICK name \in Names : /\ name = EntryAt(fs, n, p).name
                              /\ path[c] = Append(path[n], name)
    BY <1>2, <1>4 DEF ChildDir
  <1>6. c \in D \ {Root} /\ up[c] = n BY <1>2, <1>4 DEF ChildDir
  <1>7. c # n BY <1>1, <1>6, PathFacts
  <1>8. PICK way : way = Without(path, D, c) OBVIOUS
  <1>9. PICK E : E = D \ {c} OBVIOUS
  <1>10. InOrder(E, F, Without(up, D, c), way)' BY <1>8, <1>9 DEF LosesDir
  <1>11. /\ current_path' = way[current_dir']
         /\ Paths(DirPaths(fs')) = {way[d] : d \in E}
         /\ \A x : x \in Paths(FilePaths(fs')) <=> FileAt(fs', E, way, x)
    BY <1>10, After
  <1>12. \A d \in E : way[d] = path[d] BY <1>8, <1>9 DEF Without
  <1>13. current_path' = current_path BY <1>1, <1>7, <1>9, <1>11, <1>12
  <1>14. PICK old : old = path[c] OBVIOUS
  <1>15. Paths(DirPaths(fs')) = Paths(DirPaths(fs)) \ {old}
    <2>1. \A d \in D : path[d] = old => d = c BY <1>1, <1>6, <1>14, PathsDiffer
    <2> QED BY <1>1, <1>9, <1>11, <1>12, <1>14, <2>1
  <1>16. Paths(FilePaths(fs')) = Paths(FilePaths(fs))
    <2>1. \A x : FileAt(fs', E, way, x) <=> FileAt(fs, D, path, x)
      BY <1>1, <1>2, <1>7, <1>8, <1>9, NoFileLess
    <2>2. \A x : x \in Paths(FilePaths(fs')) <=> x \in Paths(FilePaths(fs))
      BY <1>1, <1>11, <2>1
    <2> QED BY <2>2, SameFileSet
  <1>17. old \in Paths(DirPaths(fs)) BY <1>1, <1>6, <1>14
  <1>18. \A x \in (Paths(DirPaths(fs)) \cup Paths(FilePaths(fs))) \ {<<>>} :
            SubSeq(x, 1, Len(x) - 1) # old
    <2>1. ASSUME NEW d \in D, path[d] # <<>>,
                 SubSeq(path[d], 1, Len(path[d]) - 1) = old
          PROVE  FALSE
      <3>1. d # Root BY <1>1, <2>1, PathFacts
      <3>2. up[d] \in D /\ path[up[d]] = old
        <4>1. up[d] \in D \ {d} /\ Tree!Parent(path[d]) = path[up[d]]
          BY <1>1, <3>1, PathFacts
        <4> QED BY <2>1, <4>1 DEF Tree!Parent
      <3>3. up[d] = c BY <1>1, <1>6, <1>14, <3>2, PathsDiffer
      <3>4. \E q \in Used(fs, up[d]) \ Dots : TRUE BY <1>1, <3>1, PathFacts
      <3> QED BY <1>2, <3>3, <3>4
    <2>2. ASSUME NEW x, FileAt(fs, D, path, x), SubSeq(x, 1, Len(x) - 1) = old
          PROVE  FALSE
      <3>1. PICK d \in D : \E q \in Used(fs, d) \ Dots :
                x = Append(path[d], EntryAt(fs, d, q).name)
        BY <2>2 DEF FileAt
      <3>2. PICK q \in Used(fs, d) \ Dots : x = Append(path[d], EntryAt(fs, d, q).name)
        BY <3>1
      <3>3. PICK w \in Seq(Names) : w = path[d] BY <1>1, PathFacts
      <3>4. PICK y : y = EntryAt(fs, d, q).name OBVIOUS
      <3>5. x = Append(w, y) BY <3>2, <3>3, <3>4
      <3>6. SubSeq(x, 1, Len(x) - 1) = w BY <3>5, FrontOfAppend
      <3>7. d = c BY <1>1, <1>6, <1>14, <2>2, <3>3, <3>6, PathsDiffer
      <3> QED BY <1>2, <3>2, <3>7
    <2> QED BY <1>1, <2>1, <2>2
  <1>19. Tree!RemoveDir(name)
    BY <1>1, <1>5, <1>13, <1>14, <1>15, <1>16, <1>17, <1>18
    DEF Tree!RemoveDir, Tree!IsEmpty, Tree!Parent, Followed
  <1> QED BY <1>19 DEF Tree!Next
(* The disk with nothing but the root. *)
LEMMA RootTree ==
  ASSUME NEW s \in FileSystems,
         Shape(s, {Root}, {}, [d \in {Root} |-> Root], [d \in {Root} |-> <<>>]),
         Used(s, Root) = Dots
  PROVE  Paths(DirPaths(s)) = {<<>>} /\ Paths(FilePaths(s)) = {}
  <1>1. PICK D : D = {Root} OBVIOUS
  <1>2. PICK F : F = {} OBVIOUS
  <1>3. PICK up : up = [d \in {Root} |-> Root] OBVIOUS
  <1>4. PICK path : path = [d \in {Root} |-> <<>>] OBVIOUS
  <1>5. Shape(s, D, F, up, path) BY <1>1, <1>2, <1>3, <1>4
  <1>6. /\ Paths(DirPaths(s)) = {path[d] : d \in D}
        /\ \A x : x \in Paths(FilePaths(s)) <=> FileAt(s, D, path, x)
    BY <1>5, TreePaths
  <1>7. \A x : ~ FileAt(s, D, path, x) BY <1>1 DEF FileAt
  <1>8. Paths(FilePaths(s)) = {} BY <1>6, <1>7
  <1>9. path[Root] = <<>> BY <1>4
  <1> QED BY <1>1, <1>6, <1>8, <1>9

(* The formatted disk is the empty tree. *)
LEMMA InitTree == TypeOK /\ Init => Tree!Init
  <1> SUFFICES ASSUME TypeOK, Init PROVE Tree!Init OBVIOUS
  <1>1. fs \in FileSystems /\ OnlyRoot(fs) /\ current_path = <<>>
    BY FormattedDisk DEF Init, TypeOK
  <1>2. /\ Shape(fs, {Root}, {}, [d \in {Root} |-> Root], [d \in {Root} |-> <<>>])
        /\ Used(fs, Root) = Dots
    BY <1>1 DEF OnlyRoot
  <1>3. Paths(DirPaths(fs)) = {<<>>} /\ Paths(FilePaths(fs)) = {}
    BY <1>1, <1>2, RootTree
  <1>4. Followed BY <1>1 DEF OnlyRoot, Followed
  <1> QED BY <1>1, <1>3, <1>4 DEF Tree!Init, Followed

(* format makes it empty again. *)
LEMMA FormatTree ==
  ASSUME TypeOK', format
  PROVE  Tree!Next
  <1>1. /\ InOrder({Root}, {}, [d \in {Root} |-> Root], [d \in {Root} |-> <<>>])'
        /\ Used(fs', Root) = Dots
        /\ Followed'
        /\ current_path' = <<>>
    BY FormatOrdered
  <1>2. /\ fs' \in FileSystems
        /\ Shape(fs', {Root}, {}, [d \in {Root} |-> Root], [d \in {Root} |-> <<>>])
    BY <1>1 DEF TypeOK, InOrder
  <1>3. Paths(DirPaths(fs')) = {<<>>} /\ Paths(FilePaths(fs')) = {}
    BY <1>1, <1>2, RootTree
  <1>4. Tree!Format BY <1>1, <1>3 DEF Tree!Format, Tree!Clean, Followed
  <1> QED BY <1>4 DEF Tree!Next

(* A step of the program is a step of the tree. *)
LEMMA StepTree ==
  ASSUME TypeOK, TypeOK', Ordered, [Next]_vars
  PROVE  [Tree!Next]_Tree!vars
  <1>1. CASE format BY <1>1, FormatTree
  <1>2. CASE ~ Followed'
    <2>1. Tree!Break BY <1>2 DEF Tree!Break, Tree!Clean, Followed
    <2> QED BY <2>1 DEF Tree!Next
  <1>3. CASE ~ format /\ Followed'
    <2>1. Followed BY <1>3, StillFollowed
    <2>2. PICK D, F, up, path : InOrder(D, F, up, path) BY <2>1 DEF Ordered
    <2>3. TreeStep(D, F, up, path) BY <1>3, <2>2, NextTree
    <2>4. CASE StaysSame(D, F, up, path) BY <1>3, <2>1, <2>2, <2>4, StaysSameTree
    <2>5. CASE Changes(D, F, up, path)
      <3>1. UNCHANGED current_dir BY <2>5 DEF Changes
      <3>2. ASSUME NEW n, n = current_dir, NEW m, NEW p, NEW name,
                   MakesFile(D, F, up, path, n, m, p, name)
            PROVE  Tree!Next
        BY <1>3, <2>1, <2>2, <3>1, <3>2, MakesFileTree
      <3>3. ASSUME NEW n, n = current_dir, NEW m, NEW p, NEW name,
                   MakesDir(D, F, up, path, n, m, p, name)
            PROVE  Tree!Next
        BY <1>3, <2>1, <2>2, <3>1, <3>3, MakesDirTree
      <3>4. ASSUME NEW n, n = current_dir, NEW c, NEW p,
                   LosesFile(D, F, up, path, n, c, p)
            PROVE  Tree!Next
        BY <1>3, <2>1, <2>2, <3>1, <3>4, LosesFileTree
      <3>5. ASSUME NEW n, n = current_dir, NEW c, NEW p,
                   LosesDir(D, F, up, path, n, c, p)
            PROVE  Tree!Next
        BY <1>3, <2>1, <2>2, <3>1, <3>5, LosesDirTree
      <3> QED BY <2>5, <3>2, <3>3, <3>4, <3>5 DEF Changes
    <2> QED BY <2>3, <2>4, <2>5 DEF TreeStep
  <1> QED BY <1>1, <1>2, <1>3

(* The file system implements the tree of paths: for every disk, mkdir,    *)
(* touch, rmdir, rm and cd change exactly the path they name.              *)
THEOREM FileSystemIsATree == Spec => ImplementsFileTree
  <1>1. TypeOK /\ TypeOK' /\ Ordered /\ [Next]_vars => [Tree!Next]_Tree!vars
    BY StepTree
  <1> QED BY InitTree, <1>1, TypeCorrect, DiskInOrder, PTL
          DEF Spec, ImplementsFileTree, Tree!Spec
-----------------------------------------------------------------------------
(***************************************************************************)
(* The inode bitmap and its free count: FreeCountCovers speaks of two      *)
(* fields of the disk only, and two operators change them; InodesKept says *)
(* what a step may do.                                                     *)
(***************************************************************************)

Covers(s) == InodeCount <= Cardinality(s.inode_bitmap) + s.bg_free_inodes_count

InodesKept(s, t) ==
    /\ s.inode_bitmap \subseteq t.inode_bitmap
    /\ Covers(s) => Covers(t)

SameInodes(s, t) ==
    /\ t.inode_bitmap = s.inode_bitmap
    /\ t.bg_free_inodes_count = s.bg_free_inodes_count

\* A step that changes neither field keeps them.
LEMMA SameIsKept ==
  ASSUME NEW s, NEW t, SameInodes(s, t)
  PROVE  InodesKept(s, t)
BY DEF SameInodes, InodesKept, Covers

\* The parts of a command compose.
LEMMA KeptTransitive ==
  ASSUME NEW s, NEW t, NEW u, InodesKept(s, t), InodesKept(t, u)
  PROVE  InodesKept(s, u)
BY DEF InodesKept

\* So do parts that change neither field.
LEMMA SameTransitive ==
  ASSUME NEW s, NEW t, NEW u, SameInodes(s, t), SameInodes(t, u)
  PROVE  SameInodes(s, u)
BY DEF SameInodes

\* The operators that change neither field, one by one.
LEMMA FaultSame == ASSUME NEW s \in FileSystems, NEW f PROVE SameInodes(s, fault(s, f))
BY DEF fault, SameInodes, FileSystems

(* alloc_block is not about inodes.                                        *)
LEMMA AllocBlockSame == ASSUME NEW s \in FileSystems PROVE SameInodes(s, alloc_block(s))
BY FaultSame DEF alloc_block, SameInodes, FileSystems

(* Nor is remove_block.                                                    *)
LEMMA RemoveBlockSame ==
  ASSUME NEW s \in FileSystems, NEW b PROVE SameInodes(s, remove_block(s, b))
BY DEF remove_block, SameInodes, FileSystems

(* Nor is the loop of del over the blocks of a file.                       *)
LEMMA RemoveBlocksSame ==
  ASSUME NEW s \in FileSystems, NEW area PROVE SameInodes(s, remove_blocks(s, area))
BY DEF remove_blocks, SameInodes, FileSystems

(* Nor is the write of a block.                                            *)
LEMMA UpdateDirSame ==
  ASSUME NEW s \in FileSystems, NEW b, NEW content
  PROVE  SameInodes(s, update_dir(s, b, content))
BY DEF update_dir, SameInodes, FileSystems

(* update_inode_entry writes the table, not the bitmap.                    *)
LEMMA UpdateInodeSame ==
  ASSUME NEW s \in FileSystems, NEW n, NEW area
  PROVE  SameInodes(s, update_inode_entry(s, n, area))
BY DEF update_inode_entry, SameInodes, FileSystems

(* The times that a search writes are not about the bitmap.                *)
LEMMA StampSame ==
  ASSUME NEW s \in FileSystems, NEW content, NEW slots
  PROVE  SameInodes(s, stamp(s, content, slots))
BY FaultSame DEF stamp, SameInodes

\* The bitmap can be counted.
LEMMA BitmapFinite ==
  ASSUME NEW s \in FileSystems
  PROVE  IsFiniteSet(s.inode_bitmap) /\ Cardinality(s.inode_bitmap) \in Nat
  <1>1. IsFiniteSet(Inodes) BY FS_Interval, SizesAssumption DEF Inodes
  <1>2. s.inode_bitmap \in SUBSET Inodes BY DEF FileSystems
  <1> QED BY <1>1, <1>2, FS_Subset, FS_CardinalityType

\* get_inode marks one inode that was not marked and takes one off the count.
LEMMA GetInodeKept ==
  ASSUME NEW s \in FileSystems
  PROVE  InodesKept(s, get_inode(s))
  <1>1. CASE next_inode(s) = 0 BY <1>1, FaultSame, SameIsKept DEF get_inode
  <1>2. CASE next_inode(s) # 0
    <2> DEFINE n == next_inode(s)
               t == get_inode(s)
    <2>1. n \notin s.inode_bitmap BY <1>2, NextInodeType
    <2>2. /\ t.inode_bitmap = s.inode_bitmap \cup {n}
          /\ t.bg_free_inodes_count = s.bg_free_inodes_count - 1
      BY <1>2 DEF get_inode, FileSystems
    <2>3. Cardinality(s.inode_bitmap \cup {n}) = Cardinality(s.inode_bitmap) + 1
      BY <2>1, BitmapFinite, FS_AddElement
    <2>4. s.bg_free_inodes_count \in Nat /\ InodeCount \in Nat
      BY SizesAssumption DEF FileSystems
    <2>5. Covers(s) => Covers(t) BY <2>2, <2>3, <2>4, BitmapFinite DEF Covers
    <2> QED BY <2>2, <2>5 DEF InodesKept
  <1> QED BY <1>1, <1>2

\* remove_inode adds to the count and clears nothing.
LEMMA RemoveInodeKept ==
  ASSUME NEW s \in FileSystems, NEW n
  PROVE  InodesKept(s, remove_inode(s, n))
  <1>1. /\ remove_inode(s, n).inode_bitmap = s.inode_bitmap
        /\ remove_inode(s, n).bg_free_inodes_count = s.bg_free_inodes_count + 1
    BY DEF remove_inode, FileSystems
  <1>2. s.bg_free_inodes_count \in Nat /\ InodeCount \in Nat
    BY SizesAssumption DEF FileSystems
  <1> QED BY <1>1, <1>2, BitmapFinite DEF InodesKept, Covers

\* dir_prepare takes a block, never an inode.
LEMMA DirPrepareSame ==
  ASSUME NEW s \in FileSystems, NEW tmp \in 0 .. InodeCount, NEW type, NEW n \in Inodes
  PROVE  SameInodes(s, dir_prepare(s, tmp, type, n))
  <1>1. CASE type = DIR
    <2> DEFINE b == next_block(s)
               s1 == alloc_block(s)
               s2 == update_dir(s1, b, NewDirectory(tmp, n))
               area == [i_mode |-> {"r", "w"}, i_size |-> 2, i_block |-> <<b>>]
    <2>1. s1 \in FileSystems /\ SameInodes(s, s1) BY AllocBlockType, AllocBlockSame
    <2>2. b \in Blocks BY NextBlockType
    <2> HIDE DEF s1, b
    <2>3. s2 \in FileSystems /\ SameInodes(s1, s2)
      BY <2>1, <2>2, NewDirectoryType, UpdateDirType, UpdateDirSame
    <2> HIDE DEF s2
    <2>4. SameInodes(s2, update_inode_entry(s2, tmp, area)) BY <2>3, UpdateInodeSame
    <2>5. SameInodes(s, update_inode_entry(s2, tmp, area))
      BY <2>1, <2>3, <2>4 DEF SameInodes
    <2> QED BY <1>1, <2>5 DEF dir_prepare, s2, s1, b
  <1>2. CASE type # DIR BY <1>2, UpdateInodeSame DEF dir_prepare
  <1> QED BY <1>1, <1>2

\* mkdir and cat when a slot is free: one get_inode.
LEMMA FillSlotKept ==
  ASSUME NEW s \in FileSystems, NEW n \in Inodes, NEW name \in Arguments,
         NEW type \in {FILE, DIR}, NEW p \in Positions(s, n),
         NEW to \in 1 .. Len(Area(s, n).i_block)
  PROVE  InodesKept(s, FillSlot(s, n, name, type, p, to))
  <1> DEFINE tmpno == next_inode(s)
             content == [BlockAt(s, n, p[1]) EXCEPT ![p[2]] = NewEntry(tmpno, type, name)]
             s0 == get_inode(s)
             s1 == update_dir(s0, Area(s, n).i_block[to], content)
             area == [Area(s, n) EXCEPT !.i_size = @ + 1]
             s2 == update_inode_entry(s1, n, area)
             s3 == IF to = p[1] THEN s2 ELSE fault(s2, {"lastblock"})
             s4 == stamp(s3, content, {0, 1})
             s5 == dir_prepare(s4, tmpno, type, n)
  <1>1. tmpno \in 0 .. InodeCount BY NextInodeRange
  <1>2. content \in [Slots -> Entries]
    <2>1. NewEntry(tmpno, type, name) \in Entries BY <1>1, EntryConstructors
    <2> QED BY <2>1, EntryAtType, BlockAtType
  <1>3. s0 \in FileSystems /\ InodesKept(s, s0) BY GetInodeType, GetInodeKept
  <1>4. area \in InodeRecords BY AreaType DEF InodeRecords
  <1>5. n \in 0 .. InodeCount BY SizesAssumption DEF Inodes
  <1> HIDE DEF s0, content, area, tmpno
  <1>6. s1 \in FileSystems /\ SameInodes(s0, s1)
    BY <1>2, <1>3, BlockAtType, UpdateDirType, UpdateDirSame
  <1> HIDE DEF s1
  <1>7. s2 \in FileSystems /\ SameInodes(s1, s2)
    BY <1>4, <1>5, <1>6, UpdateInodeType, UpdateInodeSame
  <1> HIDE DEF s2
  <1>8. s3 \in FileSystems /\ SameInodes(s2, s3)
    BY <1>7, FaultType, FaultSame DEF Faults, SameInodes
  <1> HIDE DEF s3
  <1>9. s4 \in FileSystems /\ SameInodes(s3, s4) BY <1>8, StampType, StampSame
  <1> HIDE DEF s4
  <1>10. SameInodes(s4, s5) BY <1>1, <1>9, DirPrepareSame
  <1> HIDE DEF s5
  <1>11. SameInodes(s0, s5) BY <1>6, <1>7, <1>8, <1>9, <1>10 DEF SameInodes
  <1>12. InodesKept(s, s5) BY <1>3, <1>11, SameIsKept, KeptTransitive
  <1> QED BY <1>12 DEF FillSlot, s5, s4, s3, s2, s1, s0, content, area, tmpno

\* mkdir and cat when every block is full: one get_inode.
LEMMA AppendBlockKept ==
  ASSUME NEW s \in FileSystems, NEW n \in Inodes, NEW name \in Arguments,
         NEW type \in {FILE, DIR}
  PROVE  InodesKept(s, AppendBlock(s, n, name, type))
  <1> DEFINE b == next_block(s)
             s1 == alloc_block(s)
             tmpno == next_inode(s1)
             content == [k \in Slots |->
                            IF k = 0 THEN NewEntry(tmpno, type, name) ELSE Empty]
             s0 == get_inode(s1)
             s2 == update_dir(s0, b, content)
             area == [Area(s, n) EXCEPT !.i_size = @ + 1, !.i_block = Append(@, b)]
             s3 == update_inode_entry(s2, n, area)
             s4 == dir_prepare(s3, tmpno, type, n)
  <1>1. b \in Blocks BY NextBlockType
  <1>2. s1 \in FileSystems /\ SameInodes(s, s1) BY AllocBlockType, AllocBlockSame
  <1> HIDE DEF s1, b
  <1>3. tmpno \in 0 .. InodeCount BY <1>2, NextInodeRange
  <1>4. content \in [Slots -> Entries] BY <1>3, EntryConstructors
  <1>5. s0 \in FileSystems /\ InodesKept(s1, s0) BY <1>2, GetInodeType, GetInodeKept
  <1> HIDE DEF s0, content, tmpno
  <1>6. s2 \in FileSystems /\ SameInodes(s0, s2)
    BY <1>1, <1>4, <1>5, UpdateDirType, UpdateDirSame
  <1>7. area \in InodeRecords
    <2>1. Append(Area(s, n).i_block, b) \in Seq(Blocks) BY <1>1, AreaType
    <2>2. Area(s, n).i_size + 1 \in Int BY AreaType
    <2> QED BY <2>1, <2>2, AreaType DEF InodeRecords
  <1>8. n \in 0 .. InodeCount BY SizesAssumption DEF Inodes
  <1> HIDE DEF s2, area
  <1>9. s3 \in FileSystems /\ SameInodes(s2, s3)
    BY <1>6, <1>7, <1>8, UpdateInodeType, UpdateInodeSame
  <1> HIDE DEF s3
  <1>10. SameInodes(s3, s4) BY <1>3, <1>9, DirPrepareSame
  <1> HIDE DEF s4
  <1>11. SameInodes(s0, s4) BY <1>6, <1>9, <1>10 DEF SameInodes
  <1>12. InodesKept(s, s4) BY <1>2, <1>5, <1>11, SameIsKept, KeptTransitive
  <1> QED BY <1>12 DEF AppendBlock, s4, s3, s2, s1, s0, b, content, area, tmpno

\* Removing an entry.
LEMMA ClearSlotSame ==
  ASSUME NEW s \in FileSystems, NEW n, NEW p
  PROVE  SameInodes(s, ClearSlot(s, n, p))
BY UpdateDirSame DEF ClearSlot

\* Giving back an empty block.
LEMMA SweptSame ==
  ASSUME NEW s \in FileSystems, NEW n
  PROVE  SameInodes(s, Swept(s, n))
  <1> DEFINE area == [Area(s, n) EXCEPT !.i_size = Area(s, n).i_size - 1]
             kept == SubSeq(area.i_block, 1, 1)
                        \o SubSeq(area.i_block, 3, Len(area.i_block))
             s1 == remove_block(s, area.i_block[2])
  <1> HIDE DEF area
  <1>1. s1 \in FileSystems /\ SameInodes(s, s1) BY RemoveType, RemoveBlockSame
  <1> HIDE DEF s1, kept
  <1>2. SameInodes(s1, update_inode_entry(s1, n, [area EXCEPT !.i_block = kept]))
    BY <1>1, UpdateInodeSame
  <1>3. SameInodes(s, update_inode_entry(s1, n, [area EXCEPT !.i_block = kept]))
    BY <1>1, <1>2 DEF SameInodes
  <1>4. SameInodes(s, update_inode_entry(s, n, area)) BY UpdateInodeSame
  <1> QED BY <1>3, <1>4 DEF Swept, SweptTo, area, kept, s1
-----------------------------------------------------------------------------
(* One lemma per command that changes the disk. *)

StepKept == InodesKept(fs, fs')

\* mkdir and cat.
LEMMA AddKept ==
  ASSUME TypeOK, NEW tmp \in Arguments, NEW type \in {FILE, DIR}, NEW to,
         \A p \in Positions(fs, current_dir) :
             to[p[1]] \in 1 .. Len(Area(fs, current_dir).i_block),
         Add(tmp, type, to)
  PROVE  StepKept
  <1>1. fs \in FileSystems /\ current_dir \in Inodes BY DEF TypeOK
  <1>2. ASSUME NEW p \in FreeSlot(fs, current_dir),
               fs' = FillSlot(fs, current_dir, tmp, type, p, to[p[1]])
        PROVE  StepKept
    BY <1>1, <1>2, FreeSlotType, FillSlotKept DEF StepKept
  <1>3. CASE fs' = AppendBlock(fs, current_dir, tmp, type)
    BY <1>1, <1>3, AppendBlockKept DEF StepKept
  <1>4. CASE fs' = IF Partial(fs, current_dir) THEN fs ELSE alloc_block(fs)
    <2>1. SameInodes(fs, fs') BY <1>1, <1>4, AllocBlockSame DEF SameInodes
    <2> QED BY <2>1, SameIsKept DEF StepKept
  <1>5. CASE fs' = fault(fs, {"noslot"})
    <2>1. SameInodes(fs, fs') BY <1>1, <1>5, FaultSame DEF SameInodes
    <2> QED BY <2>1, SameIsKept DEF StepKept
  <1> QED BY <1>2, <1>3, <1>4, <1>5 DEF Add

\* mkdir.
LEMMA MkdirKept ==
  ASSUME TypeOK, NEW tmp \in Names, mkdir(tmp)
  PROVE  StepKept
  <1> DEFINE last == Len(Area(fs, current_dir).i_block)
             to == [i \in 1 .. last |-> last]
  <1>1. fs \in FileSystems /\ current_dir \in Inodes BY DEF TypeOK
  <1>2. last \in Nat BY <1>1, AreaType
  <1>3. \A p \in Positions(fs, current_dir) : p[1] \in 1 .. last BY <1>1, EntryAtType
  <1>4. \A p \in Positions(fs, current_dir) : to[p[1]] \in 1 .. last BY <1>2, <1>3
  <1>5. tmp \in Arguments BY DEF Arguments
  <1>6. Add(tmp, DIR, to) BY DEF mkdir
  <1> HIDE DEF to
  <1> QED BY <1>4, <1>5, <1>6, AddKept

\* cat.
LEMMA CatKept ==
  ASSUME TypeOK, NEW tmp \in FileNames, cat(tmp)
  PROVE  StepKept
  <1> DEFINE last == Len(Area(fs, current_dir).i_block)
             to == [i \in 1 .. last |-> i]
  <1>1. fs \in FileSystems /\ current_dir \in Inodes BY DEF TypeOK
  <1>2. \A p \in Positions(fs, current_dir) : to[p[1]] \in 1 .. last
    BY <1>1, EntryAtType
  <1>3. tmp \in Arguments BY SizesAssumption DEF Arguments
  <1>4. Add(tmp, FILE, to) BY DEF cat
  <1> HIDE DEF to
  <1> QED BY <1>2, <1>3, <1>4, AddKept

\* rmdir: one remove_inode.
LEMMA RmdirKept ==
  ASSUME TypeOK, NEW tmp \in Names, rmdir(tmp)
  PROVE  StepKept
  <1>1. fs \in FileSystems /\ current_dir \in Inodes BY DEF TypeOK
  <1>2. PICK p \in reserch_file(fs, current_dir, tmp, DIR) :
         LET child == EntryAt(fs, current_dir, p).inode
             s1 == remove_block(fs, Area(fs, child).i_block[1])
             s2 == ClearSlot(remove_inode(s1, child), current_dir, p)
             last == IF Len(Area(fs, current_dir).i_block) > 1 THEN 2 ELSE p[1]
         IN \/ fs' = s2 /\ mode' = "hung"
            \/ /\ fs' = stamp(Swept(s2, current_dir),
                              BlockAt(s2, current_dir, last), {p[1] - 1})
               /\ UNCHANGED mode
    BY DEF rmdir
  <1> DEFINE child == EntryAt(fs, current_dir, p).inode
             s1 == remove_block(fs, Area(fs, child).i_block[1])
             s0 == remove_inode(s1, child)
             s2 == ClearSlot(s0, current_dir, p)
             s3 == Swept(s2, current_dir)
  <1>3. s1 \in FileSystems /\ SameInodes(fs, s1) BY <1>1, RemoveType, RemoveBlockSame
  <1>4. s0 \in FileSystems /\ InodesKept(s1, s0) BY <1>3, RemoveType, RemoveInodeKept
  <1>5. s0.inode_table = fs.inode_table
    BY <1>1 DEF remove_inode, remove_block, FileSystems
  <1>6. p \in Positions(s0, current_dir) BY <1>1, <1>4, <1>5, FoundType, PositionsKept
  <1>7. s2 \in FileSystems BY <1>1, <1>4, <1>6, ClearSlotType
  <1>8. SameInodes(s0, s2) BY <1>4, ClearSlotSame
  <1>9. fs' = s2 \/ \E content, slots : fs' = stamp(s3, content, slots) BY <1>2
  <1> HIDE DEF s0, s1, s2
  <1>10. s3 \in FileSystems /\ SameInodes(s2, s3) BY <1>1, <1>7, SweptType, SweptSame
  <1> HIDE DEF s3
  <1>11. SameInodes(s2, fs') BY <1>9, <1>10, StampSame DEF SameInodes
  <1>12. SameInodes(s0, fs') BY <1>8, <1>11 DEF SameInodes
  <1> QED BY <1>3, <1>4, <1>12, SameIsKept, KeptTransitive DEF StepKept

\* del gives back no inode.
LEMMA DelKept ==
  ASSUME TypeOK, NEW tmp, del(tmp)
  PROVE  StepKept
  <1>1. fs \in FileSystems /\ current_dir \in Inodes BY DEF TypeOK
  <1>2. PICK p \in reserch_file(fs, current_dir, tmp, FILE) :
         LET file == EntryAt(fs, current_dir, p).inode
             s1 == stamp(fs, BlockAt(fs, current_dir, p[1]), {0, 1})
             s2 == ClearSlot(remove_blocks(s1, Area(fs, file)), current_dir, p)
         IN \/ fs' = s2 /\ mode' = "hung"
            \/ fs' = Swept(s2, current_dir) /\ UNCHANGED mode
    BY DEF del
  <1> DEFINE file == EntryAt(fs, current_dir, p).inode
             s1 == stamp(fs, BlockAt(fs, current_dir, p[1]), {0, 1})
             s0 == remove_blocks(s1, Area(fs, file))
             s2 == ClearSlot(s0, current_dir, p)
  <1>3. file \in Inodes BY <1>1, FoundType
  <1>4. s1 \in FileSystems /\ SameInodes(fs, s1) BY <1>1, StampType, StampSame
  <1>5. s0 \in FileSystems /\ SameInodes(s1, s0)
    BY <1>1, <1>3, <1>4, AreaType, RemoveBlocksType, RemoveBlocksSame
  <1>6. s0.inode_table = fs.inode_table
    BY <1>1, <1>4 DEF remove_blocks, stamp, fault, FileSystems
  <1>7. p \in Positions(s0, current_dir) BY <1>1, <1>5, <1>6, FoundType, PositionsKept
  <1>8. s2 \in FileSystems BY <1>1, <1>5, <1>7, ClearSlotType
  <1>9. SameInodes(s0, s2) BY <1>5, ClearSlotSame
  <1>10. fs' = s2 \/ fs' = Swept(s2, current_dir) BY <1>2
  <1> HIDE DEF s0, s1, s2
  <1>11. SameInodes(s2, fs') BY <1>8, <1>10, SweptSame DEF SameInodes
  <1>12. SameInodes(fs, fs') BY <1>4, <1>5, <1>9, <1>11 DEF SameInodes
  <1> QED BY <1>12, SameIsKept DEF StepKept

\* attrib, open, and the three parts of a write touch neither field.
LEMMA OthersKept ==
  ASSUME TypeOK,
         \/ \E tmp, attr : attrib(tmp, attr)
         \/ \E tmp : open_file(tmp)
         \/ WriteGrow \/ WriteShrink \/ WriteEnd
         \/ UNCHANGED fs
  PROVE  StepKept
  <1> SUFFICES SameInodes(fs, fs') BY SameIsKept DEF StepKept
  <1>1. fs \in FileSystems BY DEF TypeOK
  <1>2. ASSUME NEW tmp, NEW attr, attrib(tmp, attr) PROVE SameInodes(fs, fs')
    <2>1. \E n, area : fs' = update_inode_entry(fs, n, area) BY <1>2 DEF attrib
    <2> QED BY <1>1, <2>1, UpdateInodeSame
  <1>3. ASSUME NEW tmp, open_file(tmp) PROVE SameInodes(fs, fs')
    <2>1. fs' = fault(fs, {"openslot"}) \/ fs' = fs BY <1>3 DEF open_file
    <2> QED BY <1>1, <2>1, FaultSame DEF SameInodes
  <1>4. CASE WriteGrow BY <1>1, <1>4, AllocBlockSame DEF WriteGrow
  <1>5. CASE WriteShrink BY <1>1, <1>5, RemoveBlockSame DEF WriteShrink
  <1>6. CASE WriteEnd
    <2> DEFINE s1 == stamp(fs, fs.data[call.block], {0, 1})
               texts == [b \in Blocks |-> IF b \in BlocksOf(call)
                                           THEN [k \in Slots |-> Text]
                                           ELSE s1.data[b]]
               s2 == [s1 EXCEPT !.data = texts]
    <2>1. s1 \in FileSystems /\ SameInodes(fs, s1) BY <1>1, StampType, StampSame
    <2> HIDE DEF s1
    <2>2. texts \in [Blocks -> [Slots -> Entries]]
      BY <2>1, EntryConstructors DEF FileSystems
    <2> HIDE DEF texts
    <2>3. s2 \in FileSystems /\ SameInodes(s1, s2)
      BY <2>1, <2>2 DEF SameInodes, FileSystems
    <2> HIDE DEF s2
    <2>4. \E n, area : fs' = update_inode_entry(s2, n, area)
      BY <1>6 DEF WriteEnd, FinishWrite, s2, texts, s1
    <2>5. SameInodes(s2, fs') BY <2>3, <2>4, UpdateInodeSame
    <2> QED BY <2>1, <2>3, <2>5 DEF SameInodes
  <1>7. CASE UNCHANGED fs BY <1>7 DEF SameInodes
  <1> QED BY <1>2, <1>3, <1>4, <1>5, <1>6, <1>7

\* Starting again resets the hints only.
LEMMA RestartKept ==
  ASSUME TypeOK, Restart \/ KillHung
  PROVE  StepKept
  <1>1. fs \in FileSystems BY DEF TypeOK
  <1>2. fault(fs, {"killed"}) \in FileSystems /\ SameInodes(fs, fault(fs, {"killed"}))
    BY <1>1, FaultType, FaultSame DEF Faults
  <1>3. PICK disk \in FileSystems :
          SameInodes(fs, disk) /\ initialize_memory(disk)
    BY <1>1, <1>2 DEF Restart, KillHung, SameInodes
  <1>4. SameInodes(disk, fs')
    BY <1>3 DEF initialize_memory, SameInodes, FileSystems
  <1> QED BY <1>3, <1>4, SameTransitive, SameIsKept DEF StepKept

\* Every step but format.
LEMMA NextKept ==
  ASSUME TypeOK, [Next]_vars
  PROVE  StepKept \/ format
  <1>1. CASE Next
    <2>1. ASSUME NEW tmp \in Names, mkdir(tmp) PROVE StepKept BY <2>1, MkdirKept
    <2>2. ASSUME NEW tmp \in Names, rmdir(tmp) PROVE StepKept BY <2>2, RmdirKept
    <2>3. ASSUME NEW tmp \in FileNames, cat(tmp) PROVE StepKept BY <2>3, CatKept
    <2>4. ASSUME NEW tmp \in FileNames, del(tmp) PROVE StepKept BY <2>4, DelKept
    <2>5. ASSUME NEW tmp, cd(tmp) PROVE StepKept BY <2>5, OthersKept DEF cd
    <2>6. ASSUME NEW tmp, close_file(tmp) PROVE StepKept
      BY <2>6, OthersKept DEF close_file
    <2>7. ASSUME NEW tmp, NEW text, WriteBegin(tmp, text) PROVE StepKept
      BY <2>7, OthersKept DEF WriteBegin
    <2>8. CASE Restart \/ KillHung BY <2>8, RestartKept
    <2> QED BY <1>1, <2>1, <2>2, <2>3, <2>4, <2>5, <2>6, <2>7, <2>8, OthersKept
         DEF Next
  <1>2. CASE UNCHANGED vars BY <1>2, OthersKept DEF vars
  <1> QED BY <1>1, <1>2

\* A new disk has one inode in use and counts the others.
LEMMA NewDiskCovers == Covers(initialize_disk)
  <1> DEFINE b == next_block(ZeroedDisk)
             s1 == alloc_block(ZeroedDisk)
             n == next_inode(s1)
             s2 == get_inode(s1)
             root == [i_mode |-> {"r", "w"}, i_size |-> 2, i_block |-> <<b>>]
             s3 == update_inode_entry(s2, n, root)
  <1>1. Covers(ZeroedDisk)
    BY FS_EmptySet, SizesAssumption DEF Covers, ZeroedDisk
  <1>2. s1 \in FileSystems /\ SameInodes(ZeroedDisk, s1)
    BY ZeroedDiskType, AllocBlockType, AllocBlockSame
  <1>3. b \in Blocks BY ZeroedDiskType, NextBlockType
  <1> HIDE DEF s1, b
  <1>4. s2 \in FileSystems /\ InodesKept(s1, s2) BY <1>2, GetInodeType, GetInodeKept
  <1>5. root \in InodeRecords BY <1>3 DEF InodeRecords, ModeBits
  <1>6. n \in 0 .. InodeCount BY <1>2, NextInodeRange
  <1> HIDE DEF s2, n, root
  <1>7. s3 \in FileSystems /\ SameInodes(s2, s3)
    BY <1>4, <1>5, <1>6, UpdateInodeType, UpdateInodeSame
  <1> HIDE DEF s3
  <1>8. SameInodes(s3, update_dir(s3, b, NewDirectory(n, n))) BY <1>7, UpdateDirSame
  <1>9. SameInodes(s3, initialize_disk)
    BY <1>8 DEF initialize_disk, s3, s2, s1, n, b, root
  <1> QED BY <1>1, <1>2, <1>4, <1>7, <1>9, SameIsKept DEF InodesKept

\* format starts from that disk.
LEMMA FormatCovers ==
  ASSUME format
  PROVE  FreeCountCovers'
  <1>1. /\ fs'.inode_bitmap = initialize_disk.inode_bitmap
        /\ fs'.bg_free_inodes_count = initialize_disk.bg_free_inodes_count
    BY InitializeDiskType DEF format, initialize_memory, FileSystems
  <1> QED BY <1>1, NewDiskCovers DEF Covers, FreeCountCovers

(* However many commands ran since the last format, and however many       *)
(* inodes rmdir and rm lost, the free count is not smaller than the number *)
(* of clear bits: get_inode refuses only when no inode is left.            *)
THEOREM FreeCountAlwaysCovers == Spec => []FreeCountCovers
  <1>1. Init => FreeCountCovers
    BY NewDiskCovers DEF Init, Covers, FreeCountCovers
  <1>2. TypeOK /\ FreeCountCovers /\ [Next]_vars => FreeCountCovers'
    <2> SUFFICES ASSUME TypeOK, FreeCountCovers, [Next]_vars PROVE FreeCountCovers'
      OBVIOUS
    <2>1. CASE StepKept
      BY <2>1 DEF StepKept, InodesKept, Covers, FreeCountCovers
    <2> QED BY <2>1, NextKept, FormatCovers
  <1> QED BY <1>1, <1>2, TypeCorrect, PTL DEF Spec
=============================================================================
