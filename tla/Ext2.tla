-------------------------------- MODULE Ext2 --------------------------------
(***************************************************************************)
(* The file system of Lab3/ex2.c behind the prompt of Lab3/sim.c: one      *)
(* process, one command at a time, and a virtual disk (the file ./Ext2)    *)
(* that every update_* writes through at once.                             *)
(*                                                                         *)
(* Units.  Sizes count 16-byte units, the size of a directory entry: a     *)
(* block holds EntriesPerBlock of them (32 in the code), so the i_size of  *)
(* a directory is its number of entries.  Where the code writes 32, 16,    *)
(* 512 and 4096 the module has 2, 1, EntriesPerBlock and                   *)
(* MaxBlocks * EntriesPerBlock.  In a text of write_file the unit is one   *)
(* character, and a block holds EntriesPerBlock characters.                *)
(*                                                                         *)
(* Disk and memory.  gdt and the two bitmap buffers are written to the     *)
(* disk whenever they change, so one copy stands for both; inode_area and  *)
(* dir are buffers of one command, and are LET definitions or the variable *)
(* call.  Time stamps are left out except for the one thing they can do to *)
(* the state: stamping "inode 0" writes outside the inode table.  So are   *)
(* ls, read_file and check_disk, which change nothing, and the account.    *)
(*                                                                         *)
(* Faults.  Some handlers go on after a failed search or allocation and    *)
(* use the number 0, or an index past an array, as if it were a result.    *)
(* The step is modelled as far as the modelled state goes and recorded in  *)
(* fs.faults; the disk is then damaged, in part in bytes the module does   *)
(* not have, and once that command has ended only format is followed.      *)
(***************************************************************************)
EXTENDS Integers, Sequences, FiniteSets, Ext2Bitmap

CONSTANTS
    Names,            \* names a user types for a directory, besides "." and ".."
    FileNames,        \* names a user types for a file, possibly "." and ".."
    InodeCount,       \* INODE_TABLE_COUNTS, 4096
    BlockCount,       \* DATA_BLOCK_COUNTS, 4096
    EntriesPerBlock,  \* 32
    MaxBlocks,        \* length of i_block, 8
    OpenSlots,        \* length of fopen_table, 16
    Attributes,       \* the attrib arguments a user types
    Texts             \* the lengths of the texts a user types to write

ASSUME SizesAssumption ==
    /\ Names \cap {".", ".."} = {}
    /\ FileNames \subseteq Names \cup {".", ".."}
    /\ InodeCount \in Nat \ {0} /\ InodeCount % ByteBits = 0
    /\ BlockCount \in Nat \ {0} /\ BlockCount % ByteBits = 0
    /\ EntriesPerBlock \in Nat /\ EntriesPerBlock >= 2
    /\ MaxBlocks \in 1 .. EntriesPerBlock
    /\ OpenSlots \in Nat \ {0}
    /\ Texts \subseteq Nat

Root == 1
Inodes == 1 .. InodeCount
Blocks == 0 .. BlockCount - 1
Slots == 0 .. EntriesPerBlock - 1
MaxSize == MaxBlocks * EntriesPerBlock

FILE == 1
DIR == 2

Arguments == Names \cup {".", ".."}   \* what follows a command

ModeBits == {"r", "w", "x"}           \* i_mode & 7

Faults == {"noblock",     \* alloc_block failed and its 0 is used as a block
           "noinode",     \* get_inode failed and its 0 is used as an inode
           "spin",        \* alloc_block on a full bitmap with a positive count
           "stamp0",      \* a time stamp is written to "inode 0"
           "lastblock",   \* mkdir overwrote another block of the directory
           "openslot",    \* open ran past the end of fopen_table
           "noslot",      \* an entry was stored behind a block with no free slot
           "killed"}      \* a command that did not return was killed

Empty == [inode |-> 0, file_type |-> 0, name |-> "."]
Text == [inode |-> 0, file_type |-> 3, name |-> "."]   \* bytes of a file

Entries == [inode : 0 .. InodeCount, file_type : 0 .. 3, name : Arguments]
InodeRecords == [i_mode : SUBSET ModeBits, i_size : Int, i_block : Seq(Blocks)]

\* The disk, with the two hints that live in memory.
FileSystems ==
    [bg_free_blocks_count : Nat,
     bg_free_inodes_count : Nat,
     block_bitmap : SUBSET Blocks,
     inode_bitmap : SUBSET Inodes,
     last_alloc_block : Blocks,
     last_alloc_inode : Inodes,
     inode_table : [Inodes -> InodeRecords],
     data : [Blocks -> [Slots -> Entries]],
     faults : SUBSET Faults]

VARIABLES
    fs,            \* the disk
    current_dir,   \* the inode of the current directory
    current_path,  \* the names cd has appended to the prompt
    fopen_table,   \* inode numbers, 0 for a free slot
    mode,          \* "prompt", "write" or "hung"
    call           \* the locals of a write_file that has not returned

vars == <<fs, current_dir, current_path, fopen_table, mode, call>>

NoCall == [inode |-> Root, i_block |-> <<>>, length |-> 0, block |-> 0]

Calls == [inode : Inodes, i_block : Seq(Blocks), length : Nat, block : Blocks]

TypeOK ==
    /\ fs \in FileSystems
    /\ current_dir \in Inodes
    /\ current_path \in Seq(Names)
    /\ fopen_table \in [0 .. OpenSlots - 1 -> 0 .. InodeCount]
    /\ mode \in {"prompt", "write", "hung"}
    /\ call \in Calls
-----------------------------------------------------------------------------
(* Allocation.  next_block and next_inode are what alloc_block and         *)
(* get_inode return; alloc_block and get_inode are what they do.           *)

InodeBits(s) == {n - 1 : n \in s.inode_bitmap}

\* Mutant: the block after the last one, whatever its bit says.
next_blockUnchecked(s) ==
    IF s.bg_free_blocks_count = 0 THEN 0 ELSE (s.last_alloc_block + 1) % BlockCount

next_block(s) ==
    IF s.bg_free_blocks_count = 0 \/ s.block_bitmap = Blocks
      THEN 0
      ELSE FirstClear(s.block_bitmap, s.last_alloc_block, BlockCount)

\* Mutant: the inode after the last one, whatever its bit says.
next_inodeUnchecked(s) ==
    IF s.bg_free_inodes_count = 0 THEN 0 ELSE (s.last_alloc_inode % InodeCount) + 1

next_inode(s) ==
    IF s.bg_free_inodes_count = 0 \/ s.inode_bitmap = Inodes
      THEN 0
      ELSE FirstClear(InodeBits(s), s.last_alloc_inode - 1, InodeCount) + 1

\* The byte loop of get_inode finds every byte 255 and never ends.
Spins(s) == s.bg_free_inodes_count > 0 /\ s.inode_bitmap = Inodes

fault(s, f) == [s EXCEPT !.faults = @ \cup f]

\* Mutant: no test of the free count.
alloc_blockUnchecked(s) ==
    [s EXCEPT !.block_bitmap = @ \cup {next_block(s)},
              !.last_alloc_block = next_block(s),
              !.bg_free_blocks_count = @ - 1]

alloc_block(s) ==
    IF s.bg_free_blocks_count = 0 THEN fault(s, {"noblock"})
    ELSE IF s.block_bitmap = Blocks THEN fault(s, {"spin"})
    ELSE [s EXCEPT !.block_bitmap = @ \cup {next_block(s)},
                   !.last_alloc_block = next_block(s),
                   !.bg_free_blocks_count = @ - 1]

\* Mutant: update_inode_bitmap is forgotten.
get_inodeUnmarked(s) ==
    IF next_inode(s) = 0 THEN fault(s, {"noinode"})
    ELSE [s EXCEPT !.last_alloc_inode = next_inode(s),
                   !.bg_free_inodes_count = @ - 1]

get_inode(s) ==
    IF next_inode(s) = 0 THEN fault(s, {"noinode"})
    ELSE [s EXCEPT !.inode_bitmap = @ \cup {next_inode(s)},
                   !.last_alloc_inode = next_inode(s),
                   !.bg_free_inodes_count = @ - 1]

remove_block(s, b) ==
    [s EXCEPT !.block_bitmap = @ \ {b}, !.bg_free_blocks_count = @ + 1]

\* remove_inode clears the bit in bitbuf and writes ibuf: on the disk the bit
\* stays, and only the count changes.
remove_inode(s, n) == [s EXCEPT !.bg_free_inodes_count = @ + 1]

update_dir(s, b, content) == [s EXCEPT !.data[b] = content]

\* update_inode_entry(0) writes in front of the inode table.
update_inode_entry(s, n, area) ==
    IF n = 0 THEN s ELSE [s EXCEPT !.inode_table[n] = area]

\* The time stamps of the entries the handlers take for "." and "..".
stamp(s, content, slots) ==
    IF \E k \in slots : content[k].inode = 0 THEN fault(s, {"stamp0"}) ELSE s
-----------------------------------------------------------------------------
(* Directories. *)

Area(s, n) == s.inode_table[n]
BlockAt(s, n, i) == s.data[Area(s, n).i_block[i]]   \* i counts from 1 here

Positions(s, n) == (1 .. Len(Area(s, n).i_block)) \X Slots

\* The first of a set of positions in the order of the two scanning loops.
First(positions) ==
    {p \in positions :
        \A q \in positions :
            p[1] < q[1] \/ (p[1] = q[1] /\ p[2] <= q[2])}

\* Mutant: the file type is not compared.
reserch_fileByName(s, n, tmp, type) ==
    First({p \in Positions(s, n) :
              LET e == BlockAt(s, n, p[1])[p[2]] IN e.inode # 0 /\ e.name = tmp})

\* What reserch_file finds in directory n: at most one position.
reserch_file(s, n, tmp, type) ==
    First({p \in Positions(s, n) :
              LET e == BlockAt(s, n, p[1])[p[2]] IN
              e.inode # 0 /\ e.file_type = type /\ e.name = tmp})

FreeSlot(s, n) ==
    First({p \in Positions(s, n) : BlockAt(s, n, p[1])[p[2]].inode = 0})

EntryAt(s, n, p) == BlockAt(s, n, p[1])[p[2]]

\* dir_prepare: the inode of a new file, or the inode and block of a new
\* directory whose parent is n.
NewDirectoryOfRoot(tmp, n) ==   \* Mutant: ".." is always the root
    [k \in Slots |->
        CASE k = 0 -> [inode |-> tmp, file_type |-> DIR, name |-> "."]
          [] k = 1 -> [inode |-> Root, file_type |-> DIR, name |-> ".."]
          [] OTHER -> Empty]

NewDirectory(tmp, n) ==
    [k \in Slots |->
        CASE k = 0 -> [inode |-> tmp, file_type |-> DIR, name |-> "."]
          [] k = 1 -> [inode |-> n, file_type |-> DIR, name |-> ".."]
          [] OTHER -> Empty]

dir_prepare(s, tmp, type, n) ==
    IF type = DIR
      THEN LET b == next_block(s) IN
           update_inode_entry(update_dir(alloc_block(s), b, NewDirectory(tmp, n)),
               tmp, [i_mode |-> {"r", "w"}, i_size |-> 2, i_block |-> <<b>>])
      ELSE update_inode_entry(s,
               tmp, [i_mode |-> ModeBits, i_size |-> 0, i_block |-> <<>>])
-----------------------------------------------------------------------------
(* mkdir and cat (the command touch) differ in the block they write back:  *)
(* to[i] is the place in i_block of the block that receives block i.       *)

NewEntry(tmp, type, name) == [inode |-> tmp, file_type |-> type, name |-> name]

\* A free slot p exists: the entry is put into the copy of block p[1], and
\* the copy is written over block `to` of the directory.
FillSlot(s, n, name, type, p, to) ==
    LET tmpno == next_inode(s)
        content == [BlockAt(s, n, p[1]) EXCEPT ![p[2]] = NewEntry(tmpno, type, name)]
        s1 == update_dir(get_inode(s), Area(s, n).i_block[to], content)
        s2 == update_inode_entry(s1, n, [Area(s, n) EXCEPT !.i_size = @ + 1])
        s3 == IF to = p[1] THEN s2 ELSE fault(s2, {"lastblock"})
    IN dir_prepare(stamp(s3, content, {0, 1}), tmpno, type, n)

\* Every block is full: a block is added with the entry in its first slot.
AppendBlock(s, n, name, type) ==
    LET b == next_block(s)
        s1 == alloc_block(s)
        tmpno == next_inode(s1)
        content == [k \in Slots |->
                        IF k = 0 THEN NewEntry(tmpno, type, name) ELSE Empty]
        s2 == update_dir(get_inode(s1), b, content)
        s3 == update_inode_entry(s2, n,
                  [Area(s, n) EXCEPT !.i_size = @ + 1, !.i_block = Append(@, b)])
    IN dir_prepare(s3, tmpno, type, n)

HasRoom(s, n) == Area(s, n).i_size # MaxSize
Partial(s, n) == Area(s, n).i_size # Len(Area(s, n).i_block) * EntriesPerBlock

Followed == fs.faults \subseteq {"killed"}
Prompt == mode = "prompt" /\ Followed

\* A directory with room has a free slot (PartialHasFreeSlot of Ext2Props),
\* unless a kill has left its size too small: the search then stops at index
\* 32, and the entry goes into whatever lies behind the array dir.
Add(tmp, type, to) ==
    /\ Prompt
    /\ reserch_file(fs, current_dir, tmp, type) = {}
    /\ HasRoom(fs, current_dir)
    /\ \/ /\ ~Spins(fs) /\ Partial(fs, current_dir)
          /\ \E p \in FreeSlot(fs, current_dir) :
                fs' = FillSlot(fs, current_dir, tmp, type, p, to[p[1]])
          /\ UNCHANGED mode
       \/ /\ ~Spins(fs) /\ Partial(fs, current_dir)
          /\ FreeSlot(fs, current_dir) = {}
          /\ fs' = fault(fs, {"noslot"})
          /\ UNCHANGED mode
       \/ /\ ~Spins(fs) /\ ~Partial(fs, current_dir)
          /\ fs' = AppendBlock(fs, current_dir, tmp, type)
          /\ UNCHANGED mode
       \/ /\ Spins(fs)
          /\ fs' = IF Partial(fs, current_dir) THEN fs ELSE alloc_block(fs)
          /\ mode' = "hung"
    /\ UNCHANGED <<current_dir, current_path, fopen_table, call>>

\* mkdir writes the block it filled over the last block of the directory.
mkdir(tmp) ==
    LET last == Len(Area(fs, current_dir).i_block)
    IN Add(tmp, DIR, [i \in 1 .. last |-> last])

cat(tmp) == Add(tmp, FILE, [i \in 1 .. Len(Area(fs, current_dir).i_block) |-> i])
-----------------------------------------------------------------------------
(* rmdir and del (the command rm). *)

\* Only the inode number of the entry is zeroed; what else the slot holds is
\* never looked at again, so it becomes Empty here.
ClearSlot(s, n, p) ==
    update_dir(s, Area(s, n).i_block[p[1]],
               [BlockAt(s, n, p[1]) EXCEPT ![p[2]] = Empty])

\* The loop that gives back an empty block looks at the second block only,
\* and never ends while that block holds an entry.
SweepHangs(s, n) ==
    /\ Len(Area(s, n).i_block) > 1
    /\ \E k \in Slots : BlockAt(s, n, 2)[k].inode # 0

SweptTo(s, n, size) ==
    LET area == [Area(s, n) EXCEPT !.i_size = size] IN
    IF Len(area.i_block) > 1
      THEN update_inode_entry(remove_block(s, area.i_block[2]), n,
               [area EXCEPT !.i_block =
                   SubSeq(@, 1, 1) \o SubSeq(@, 3, Len(@))])
      ELSE update_inode_entry(s, n, area)

\* Mutants: i_size is left alone, or reduced by two entries.
SweptKeepsSize(s, n) == SweptTo(s, n, Area(s, n).i_size)
SweptTwice(s, n) == SweptTo(s, n, Area(s, n).i_size - 2)

Swept(s, n) == SweptTo(s, n, Area(s, n).i_size - 1)

rmdir(tmp) ==
    /\ Prompt
    /\ \E p \in reserch_file(fs, current_dir, tmp, DIR) :
         LET child == EntryAt(fs, current_dir, p).inode
             s1 == remove_block(fs, Area(fs, child).i_block[1])
             s2 == ClearSlot(remove_inode(s1, child), current_dir, p)
             last == IF Len(Area(fs, current_dir).i_block) > 1 THEN 2 ELSE p[1]
         IN /\ Area(fs, child).i_size = 2
            /\ IF SweepHangs(s2, current_dir)
                 THEN fs' = s2 /\ mode' = "hung"
                 ELSE /\ fs' = stamp(Swept(s2, current_dir),
                                     BlockAt(s2, current_dir, last), {p[1] - 1})
                      /\ UNCHANGED mode
    /\ UNCHANGED <<current_dir, current_path, fopen_table, call>>

FirstOpen(n) ==
    {q \in DOMAIN fopen_table :
        /\ fopen_table[q] = n
        /\ \A r \in DOMAIN fopen_table : r < q => fopen_table[r] # n}

WithSlots(slots, n) ==
    [q \in DOMAIN fopen_table |-> IF q \in slots THEN n ELSE fopen_table[q]]

BlocksOf(area) == {area.i_block[i] : i \in 1 .. Len(area.i_block)}

\* Mutant: the loop stops before the last block.
remove_blocksButLast(s, area) ==
    [s EXCEPT !.block_bitmap =
                  @ \ {area.i_block[i] : i \in 1 .. Len(area.i_block) - 1},
              !.bg_free_blocks_count = @ + Len(area.i_block) - 1]

remove_blocks(s, area) ==
    [s EXCEPT !.block_bitmap = @ \ BlocksOf(area),
              !.bg_free_blocks_count = @ + Len(area.i_block)]

\* The inode of the file is not released, and its table entry is left alone.
del(tmp) ==
    /\ Prompt
    /\ \E p \in reserch_file(fs, current_dir, tmp, FILE) :
         LET file == EntryAt(fs, current_dir, p).inode
             s1 == stamp(fs, BlockAt(fs, current_dir, p[1]), {0, 1})
             s2 == ClearSlot(remove_blocks(s1, Area(fs, file)), current_dir, p)
         IN /\ fopen_table' = WithSlots(FirstOpen(file), 0)
            /\ IF SweepHangs(s2, current_dir)
                 THEN fs' = s2 /\ mode' = "hung"
                 ELSE fs' = Swept(s2, current_dir) /\ UNCHANGED mode
    /\ UNCHANGED <<current_dir, current_path, call>>
-----------------------------------------------------------------------------
(* cd, attrib, open and close. *)

cd(tmp) ==
    /\ Prompt
    /\ \E p \in reserch_file(fs, current_dir, tmp, DIR) :
         /\ current_dir' = EntryAt(fs, current_dir, p).inode
         /\ current_path' =
              CASE tmp = "." -> current_path
                [] tmp = ".." ->
                     \* the entry before ".." has name_len 0 in the root only
                     IF EntryAt(fs, current_dir, <<p[1], p[2] - 1>>).inode = Root
                       THEN current_path
                       ELSE SubSeq(current_path, 1, Len(current_path) - 1)
                [] OTHER -> Append(current_path, tmp)
    /\ UNCHANGED <<fs, fopen_table, mode, call>>

\* i_mode & 7776 is 0 in its three low bits.
NewMode(i_mode, attr) ==
    CASE attr = "r-" -> i_mode \ {"r"}
      [] attr = "r+" -> i_mode \cup {"r"}
      [] attr = "w-" -> i_mode \ {"w"}
      [] attr = "w+" -> i_mode \cup {"w"}
      [] attr = "x-" -> {}
      [] attr = "x+" -> i_mode \cup {"x"}
      [] OTHER -> i_mode

attrib(tmp, attr) ==
    /\ Prompt
    /\ \E type \in {FILE, DIR} :
         /\ type = DIR => reserch_file(fs, current_dir, tmp, FILE) = {}
         /\ \E p \in reserch_file(fs, current_dir, tmp, type) :
              LET n == EntryAt(fs, current_dir, p).inode IN
              fs' = update_inode_entry(fs, n,
                        [Area(fs, n) EXCEPT !.i_mode = NewMode(@, attr)])
    /\ UNCHANGED <<current_dir, current_path, fopen_table, mode, call>>

test_fdButFirst(n) ==   \* Mutant: the first slot is skipped
    \E q \in 1 .. OpenSlots - 2 : fopen_table[q] = n

\* A match in the last slot is reported as "not open".
test_fd(n) == \E q \in 0 .. OpenSlots - 2 : fopen_table[q] = n

open_file(tmp) ==
    /\ Prompt
    /\ \E p \in reserch_file(fs, current_dir, tmp, FILE) :
         LET n == EntryAt(fs, current_dir, p).inode IN
         /\ ~test_fd(n)
         /\ fopen_table' = WithSlots(FirstOpen(0), n)
         /\ fs' = IF FirstOpen(0) = {} THEN fault(fs, {"openslot"}) ELSE fs
    /\ UNCHANGED <<current_dir, current_path, mode, call>>

close_file(tmp) ==
    /\ Prompt
    /\ \E p \in reserch_file(fs, current_dir, tmp, FILE) :
         LET n == EntryAt(fs, current_dir, p).inode IN
         /\ test_fd(n)
         /\ fopen_table' = WithSlots(FirstOpen(n), 0)
    /\ UNCHANGED <<fs, current_dir, current_path, mode, call>>
-----------------------------------------------------------------------------
(* write_file: one step up to the loops that give the file its blocks, one *)
(* per iteration, and one for the rest.                                    *)

\* A text of 4095 characters is taken for one of 4096; a longer one is cut.
Length(text) == IF text >= MaxSize - 1 THEN MaxSize ELSE text

need_blocks(length) == (length + EntriesPerBlock - 1) \div EntriesPerBlock

WriteBegin(tmp, text) ==
    /\ Prompt
    /\ \E p \in reserch_file(fs, current_dir, tmp, FILE) :
         LET n == EntryAt(fs, current_dir, p).inode IN
         /\ test_fd(n)
         /\ "w" \in Area(fs, n).i_mode
         /\ call' = [inode |-> n,
                     i_block |-> Area(fs, n).i_block,
                     length |-> Length(text),
                     block |-> Area(fs, current_dir).i_block[p[1]]]
    /\ mode' = "write"
    /\ UNCHANGED <<fs, current_dir, current_path, fopen_table>>

WriteGrow ==
    /\ mode = "write"
    /\ Len(call.i_block) < need_blocks(call.length)
    /\ fs' = alloc_block(fs)
    /\ call' = [call EXCEPT !.i_block = Append(@, next_block(fs))]
    /\ UNCHANGED <<current_dir, current_path, fopen_table, mode>>

WriteShrink ==
    /\ mode = "write"
    /\ Len(call.i_block) > need_blocks(call.length)
    /\ fs' = remove_block(fs, call.i_block[Len(call.i_block)])
    /\ call' = [call EXCEPT !.i_block = SubSeq(@, 1, Len(@) - 1)]
    /\ UNCHANGED <<current_dir, current_path, fopen_table, mode>>

FinishWrite(size) ==
    /\ mode = "write"
    /\ Len(call.i_block) = need_blocks(call.length)
    /\ LET s1 == stamp(fs, fs.data[call.block], {0, 1})
           s2 == [s1 EXCEPT !.data =
                     [b \in Blocks |-> IF b \in BlocksOf(call)
                                         THEN [k \in Slots |-> Text]
                                         ELSE @[b]]]
       IN fs' = update_inode_entry(s2, call.inode,
                    [Area(fs, call.inode) EXCEPT !.i_size = size,
                                                 !.i_block = call.i_block])
    /\ mode' = "prompt"
    /\ call' = NoCall
    /\ UNCHANGED <<current_dir, current_path, fopen_table>>

\* Mutant: i_size only ever grows.
WriteEndGrows ==
    FinishWrite(IF call.length > Area(fs, call.inode).i_size
                  THEN call.length ELSE Area(fs, call.inode).i_size)

\* i_size is assigned while the last block is filled: not for an empty text.
WriteEnd ==
    FinishWrite(IF call.i_block = <<>> THEN Area(fs, call.inode).i_size
                                        ELSE call.length)
-----------------------------------------------------------------------------
(* initialize_disk and initialize_memory. *)

ZeroedDisk ==
    [bg_free_blocks_count |-> BlockCount,
     bg_free_inodes_count |-> InodeCount,
     block_bitmap |-> {},
     inode_bitmap |-> {},
     last_alloc_block |-> 0,
     last_alloc_inode |-> 1,
     inode_table |-> [n \in Inodes |->
                         [i_mode |-> {}, i_size |-> 0, i_block |-> <<>>]],
     data |-> [b \in Blocks |-> [k \in Slots |-> Empty]],
     faults |-> {}]

initialize_disk ==
    LET b == next_block(ZeroedDisk)
        s1 == alloc_block(ZeroedDisk)
        n == next_inode(s1)
    IN update_dir(update_inode_entry(get_inode(s1), n,
                      [i_mode |-> {"r", "w"}, i_size |-> 2, i_block |-> <<b>>]),
                  b, NewDirectory(n, n))

NoFilesOpen == [q \in 0 .. OpenSlots - 1 |-> 0]

Init ==
    /\ fs = initialize_disk
    /\ current_dir = Root
    /\ current_path = <<>>
    /\ fopen_table = NoFilesOpen
    /\ mode = "prompt"
    /\ call = NoCall

\* Mutant: current_path is not reset.
initialize_memoryKeepsPath(disk) ==
    /\ fs' = [disk EXCEPT !.last_alloc_block = 0, !.last_alloc_inode = 1]
    /\ current_dir' = Root
    /\ fopen_table' = NoFilesOpen
    /\ mode' = "prompt"
    /\ UNCHANGED <<current_path, call>>

initialize_memory(disk) ==
    /\ fs' = [disk EXCEPT !.last_alloc_block = 0, !.last_alloc_inode = 1]
    /\ current_dir' = Root
    /\ current_path' = <<>>
    /\ fopen_table' = NoFilesOpen
    /\ mode' = "prompt"
    /\ UNCHANGED call

format == mode = "prompt" /\ initialize_memory(initialize_disk)

\* quit, or a kill at the prompt, and the program is started again.
Restart == Prompt /\ initialize_memory(fs)

\* A command that does not return can only be killed.
KillHung == mode = "hung" /\ initialize_memory(fault(fs, {"killed"}))

Next ==
    \/ \E tmp \in Arguments :
         \/ cd(tmp)
         \/ \E attr \in Attributes : attrib(tmp, attr)
    \/ \E tmp \in Names : mkdir(tmp) \/ rmdir(tmp)
    \/ \E tmp \in FileNames :
         \/ cat(tmp)
         \/ del(tmp)
         \/ open_file(tmp)
         \/ close_file(tmp)
         \/ \E text \in Texts : WriteBegin(tmp, text)
    \/ WriteGrow
    \/ WriteShrink
    \/ WriteEnd
    \/ format
    \/ Restart
    \/ KillHung

Spec == Init /\ [][Next]_vars
=============================================================================
