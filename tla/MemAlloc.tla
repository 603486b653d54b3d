------------------------------ MODULE MemAlloc ------------------------------
(***************************************************************************)
(* The memory simulator of Lab2/MAR.c: one action per choice of its menu.  *)
(* The free list is a sequence in the order of the links; the order of the *)
(* list of processes never matters, and it is a set.                       *)
(*                                                                         *)
(* A process that asks for a size of zero or less keeps the size malloc    *)
(* left in its record.  One greater than zero is like a request for it;    *)
(* with any other the model stops ("unset"), as it does when a null        *)
(* pointer is followed ("crashed").                                        *)
(***************************************************************************)
EXTENDS MemoryParams, Sequences, SequencesExt

CONSTANT DefaultSize   \* DEFAULT_MEM_SIZE, 1024

ASSUME DefaultSizeAssumption == DefaultSize \in MemSizes

VARIABLES
    mem_size, ma_algorithm,
    pid,                   \* processes started
    flag,                  \* the memory size can no longer be set
    free_block,            \* the free list
    allocated_block_head,  \* the processes
    ret,                   \* what the last new_process returned: 1, -1, or 0 for neither
    mode                   \* "running", "exited", "crashed" or "unset"

vars == <<mem_size, ma_algorithm, pid, flag, free_block, allocated_block_head, ret, mode>>

FreeBlocks == [start_addr : 0 .. mem_size - 1, size : 1 .. mem_size]

TypeOK ==
    /\ mem_size \in MemSizes
    /\ ma_algorithm \in Algorithms
    /\ pid \in 0 .. MaxPid
    /\ flag \in {0, 1}
    /\ free_block \in Seq(FreeBlocks)
    /\ allocated_block_head \subseteq
           [pid : 1 .. pid, start_addr : 0 .. mem_size - 1, size : 1 .. mem_size]
    /\ ret \in {-1, 0, 1}
    /\ mode \in {"running", "exited", "crashed", "unset"}

Init ==
    /\ mem_size = DefaultSize
    /\ ma_algorithm = MA_FF
    /\ pid = 0
    /\ flag = 0
    /\ free_block = <<[start_addr |-> 0, size |-> DefaultSize]>>
    /\ allocated_block_head = {}
    /\ ret = 0
    /\ mode = "running"
-----------------------------------------------------------------------------
(* The free list. *)

\* Mutant: best fit sorts like worst fit.
OutOfOrderDescending(algorithm, x, y) ==
    CASE algorithm = MA_FF -> x.start_addr > y.start_addr
      [] OTHER -> x.size < y.size

OutOfOrder(algorithm, x, y) ==
    CASE algorithm = MA_FF -> x.start_addr > y.start_addr
      [] algorithm = MA_BF -> x.size > y.size
      [] algorithm = MA_WF -> x.size < y.size

\* Every element is exchanged with each later one that should come before it.
\* Elements of equal size may change places.
exchange(algorithm, list, i, j) ==
    IF OutOfOrder(algorithm, list[i], list[j])
      THEN [list EXCEPT ![i] = list[j], ![j] = list[i]]
      ELSE list

\* The inner loop, with fbt at i and cfb at each later j.
pass(algorithm, list, i) ==
    LET after[j \in i .. Len(list)] ==
            IF j = i THEN list ELSE exchange(algorithm, after[j - 1], i, j)
    IN after[Len(list)]

\* The outer loop of the three rearrange functions.
rearrange(algorithm, list) ==
    LET after[i \in 0 .. Len(list)] ==
            IF i = 0 THEN list ELSE pass(algorithm, after[i - 1], i)
    IN after[Len(list)]

End(b) == b.start_addr + b.size

mergeNothing(list) == list   \* Mutant

\* Block b is added to the last block of merged or follows it.
join(merged, b) ==
    IF End(Last(merged)) = b.start_addr
      THEN [merged EXCEPT ![Len(merged)].size = @ + b.size]
      ELSE Append(merged, b)

\* The loop of free_mem over a list in the order of the addresses.
merge(list) ==
    LET merged[k \in 1 .. Len(list)] ==
            IF k = 1 THEN <<list[1]>> ELSE join(merged[k - 1], list[k])
    IN merged[Len(list)]

free_mem(ab) ==
    LET freed == [start_addr |-> ab.start_addr, size |-> ab.size]
    IN rearrange(ma_algorithm, merge(rearrange(MA_FF, <<freed>> \o free_block)))

\* The searches of allocate_mem: an index, or 0.  The second one gives up at
\* a block smaller than MIN_SLICE.
FirstSearch(list, request_size) ==
    SelectInSeq(list, LAMBDA b : b.size >= request_size)

SecondSearch(list, request_size) ==
    LET i == SelectInSeq(list, LAMBDA b : b.size >= request_size \/ b.size < MinSlice)
    IN IF i # 0 /\ list[i].size >= request_size THEN i ELSE 0

TakesWholeIfEqual(b, request_size) == b.size < request_size   \* Mutant

TakesWhole(b, request_size) == b.size - request_size <= MinSlice

Remaining(list, i, request_size) ==
    IF TakesWhole(list[i], request_size)
      THEN RemoveAt(list, i)
      ELSE [list EXCEPT ![i] = [start_addr |-> @.start_addr + request_size,
                                size |-> @.size - request_size]]
-----------------------------------------------------------------------------
(* The menu. *)

set_mem_size(size) ==
    /\ mode = "running"
    /\ flag = 0
    /\ mem_size' = size
    /\ free_block' = [free_block EXCEPT ![1].size = size]
    /\ flag' = 1
    /\ ret' = 0
    /\ UNCHANGED <<ma_algorithm, pid, allocated_block_head, mode>>

\* Mutant: the list is not rearranged.
set_algorithmOnly(algorithm) ==
    /\ mode = "running"
    /\ ma_algorithm' = IF algorithm \in Algorithms THEN algorithm ELSE ma_algorithm
    /\ flag' = 1
    /\ ret' = 0
    /\ UNCHANGED <<mem_size, pid, free_block, allocated_block_head, mode>>

set_algorithm(algorithm) ==
    /\ mode = "running"
    /\ ma_algorithm' = IF algorithm \in Algorithms THEN algorithm ELSE ma_algorithm
    /\ free_block' = rearrange(ma_algorithm', free_block)
    /\ flag' = 1
    /\ ret' = 0
    /\ UNCHANGED <<mem_size, pid, allocated_block_head, mode>>

\* The block of list at i is given to a new process.  When it was the last
\* free one, rearrange follows the null pointer that is left.
Grant(list, i, request_size) ==
    LET rest == Remaining(list, i, request_size) IN
    IF rest = <<>>
      THEN /\ mode' = "crashed"
           /\ UNCHANGED <<pid, free_block, allocated_block_head, ret>>
      ELSE /\ free_block' = rearrange(ma_algorithm, rest)
           /\ pid' = pid + 1
           /\ allocated_block_head' = allocated_block_head \cup
                  {[pid |-> pid + 1,
                    start_addr |-> list[i].start_addr,
                    size |-> IF TakesWhole(list[i], request_size)
                               THEN list[i].size ELSE request_size]}
           /\ ret' = 1
           /\ UNCHANGED mode

\* rearrange_WF returns no value, so that the second search may be left out
\* under worst fit.  It finds nothing the first has not found.
new_process(size) ==
    /\ mode = "running"
    /\ pid < MaxPid
    /\ LET again == rearrange(ma_algorithm, free_block) IN
       CASE FirstSearch(free_block, size) # 0 ->
              Grant(free_block, FirstSearch(free_block, size), size)
         [] FirstSearch(free_block, size) = 0 /\ SecondSearch(again, size) # 0 ->
              Grant(again, SecondSearch(again, size), size)
         [] OTHER ->
              /\ free_block' = again
              /\ ret' = -1
              /\ UNCHANGED <<pid, allocated_block_head, mode>>
    /\ flag' = 1
    /\ UNCHANGED <<mem_size, ma_algorithm>>

new_process_unset ==
    /\ mode = "running"
    /\ pid < MaxPid
    /\ mode' = "unset"
    /\ UNCHANGED <<mem_size, ma_algorithm, pid, flag, free_block,
                   allocated_block_head, ret>>

\* find_process, then free_mem and dispose.
kill_process(number) ==
    /\ mode = "running"
    /\ \E ab \in allocated_block_head :
         /\ ab.pid = number
         /\ free_block' = free_mem(ab)
         /\ allocated_block_head' = allocated_block_head \ {ab}
    /\ flag' = 1
    /\ ret' = 0
    /\ UNCHANGED <<mem_size, ma_algorithm, pid, mode>>

\* display_mem_usage, an unknown pid, a memory size that is not > 0.
OnlyFlag ==
    /\ mode = "running"
    /\ flag' = 1
    /\ ret' = 0
    /\ UNCHANGED <<mem_size, ma_algorithm, pid, free_block, allocated_block_head, mode>>

do_exit ==
    /\ mode = "running"
    /\ mode' = "exited"
    /\ UNCHANGED <<mem_size, ma_algorithm, pid, flag, free_block,
                   allocated_block_head, ret>>

Next ==
    \/ \E size \in MemSizes : set_mem_size(size)
    \/ \E algorithm \in 0 .. 3 : set_algorithm(algorithm)
    \/ \E size \in Requests : new_process(size)
    \/ new_process_unset
    \/ \E number \in Pids : kill_process(number)
    \/ OnlyFlag
    \/ do_exit

Spec == Init /\ [][Next]_vars
-----------------------------------------------------------------------------
InUse == {[pid |-> ab.pid, start |-> ab.start_addr, size |-> ab.size] :
             ab \in allocated_block_head}

Map == INSTANCE MemoryMap WITH
    total <- mem_size,
    policy <- ma_algorithm,
    pieces <- InUse,
    answer <- CASE ret = 1 -> "granted" [] ret = -1 -> "refused" [] OTHER -> ""

(* The free list holds exactly the gaps between the processes: nothing is  *)
(* lost or handed out twice, and neighbours are always merged, in whatever *)
(* order pieces were taken and given back and under whatever algorithms.   *)
FreeListIsGaps ==
    LET listed == {[start |-> free_block[i].start_addr, size |-> free_block[i].size] :
                      i \in DOMAIN free_block}
    IN mode = "running" =>
         /\ listed = Map!Gaps
         /\ \A i, j \in DOMAIN free_block : free_block[i] = free_block[j] => i = j

(* Between two commands the list is in the order of the chosen algorithm,  *)
(* so that the first block that fits is the one the algorithm prefers.     *)
ListInOrder ==
    mode = "running" =>
        IsSorted(free_block, LAMBDA x, y : ~OutOfOrder(ma_algorithm, x, y))

(* The lists implement the memory map: a process is refused only when no   *)
(* gap is large enough, and gets the lowest, the smallest or the largest.  *)
ImplementsMemoryMap == Map!Spec

(* The report of the lab says that a process gets all of a free block of   *)
(* which too little would remain.  It does unless the block is the last.   *)
LastBlockIsGiven == mode # "crashed"
=============================================================================
