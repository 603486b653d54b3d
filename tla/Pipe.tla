-------------------------------- MODULE Pipe --------------------------------
(***************************************************************************)
(* Lab2/pipe.c: two children write their character Count times each, one   *)
(* byte at a time, into one pipe.  lockf on the write end, a lock of the   *)
(* process, is all that orders them.  The parent waits for both and reads. *)
(* A failed fork is repeated and changes nothing.                          *)
(***************************************************************************)
EXTENDS Integers, Sequences

CONSTANTS
    Count,      \* bytes each child writes: 2000 in the code
    PipeSize,   \* bytes the pipe holds: 65536 on Linux
    Room        \* length of InPipe: 1000

ASSUME PipeAssumption == Count \in Nat \ {0} /\ PipeSize \in Nat /\ Room \in Nat

Children == {1, 2}   \* a child is also the character it writes

VARIABLES
    fd,       \* the bytes in the pipe
    owner,    \* the child that holds the lock, or 0
    child,    \* where a child is
    wrote,    \* bytes a child has written
    parent,   \* where the parent is
    InPipe    \* what the parent has read

pipeVars == <<fd, owner, child, wrote, parent, InPipe>>

PipeTypeOK ==
    /\ fd \in Seq(Children) /\ Len(fd) <= PipeSize
    /\ owner \in Children \cup {0}
    /\ child \in [Children -> {"unborn", "born", "writing", "unlocked", "ended"}]
    /\ wrote \in [Children -> 0 .. Count]
    /\ parent \in {"fork1", "fork2", "wait1", "wait2", "read", "print", "crashed", "ended"}
    /\ InPipe \in Seq(Children)

PipeInit ==
    /\ fd = <<>>
    /\ owner = 0
    /\ child = [c \in Children |-> "unborn"]
    /\ wrote = [c \in Children |-> 0]
    /\ parent = "fork1"
    /\ InPipe = <<>>
-----------------------------------------------------------------------------
ForkChild(c) ==
    /\ parent = IF c = 1 THEN "fork1" ELSE "fork2"
    /\ child' = [child EXCEPT ![c] = "born"]
    /\ parent' = IF c = 1 THEN "fork2" ELSE "wait1"
    /\ UNCHANGED <<fd, owner, wrote, InPipe>>

\* Mutant: a lock that is not waited for.
LockNow(c) ==
    /\ child[c] = "born"
    /\ owner' = c
    /\ child' = [child EXCEPT ![c] = "writing"]
    /\ UNCHANGED <<fd, wrote, parent, InPipe>>

Lock(c) ==
    /\ child[c] = "born"
    /\ owner = 0
    /\ owner' = c
    /\ child' = [child EXCEPT ![c] = "writing"]
    /\ UNCHANGED <<fd, wrote, parent, InPipe>>

\* write waits while the pipe is full.
WriteByte(c) ==
    /\ child[c] = "writing"
    /\ wrote[c] < Count
    /\ Len(fd) < PipeSize
    /\ fd' = Append(fd, c)
    /\ wrote' = [wrote EXCEPT ![c] = @ + 1]
    /\ UNCHANGED <<owner, child, parent, InPipe>>

\* After the sleep.
Unlock(c) ==
    /\ child[c] = "writing"
    /\ wrote[c] = Count
    /\ owner' = IF owner = c THEN 0 ELSE owner
    /\ child' = [child EXCEPT ![c] = "unlocked"]
    /\ UNCHANGED <<fd, wrote, parent, InPipe>>

ExitChild(c) ==
    /\ child[c] = "unlocked"
    /\ child' = [child EXCEPT ![c] = "ended"]
    /\ UNCHANGED <<fd, owner, wrote, parent, InPipe>>

Dead == {c \in Children : child[c] = "ended"}

\* wait(0), twice: each takes one child that has ended.
WaitChild ==
    \/ /\ parent = "wait1"
       /\ Dead # {}
       /\ parent' = "wait2"
       /\ UNCHANGED <<fd, owner, child, wrote, InPipe>>
    \/ /\ parent = "wait2"
       /\ Dead = Children
       /\ parent' = "read"
       /\ UNCHANGED <<fd, owner, child, wrote, InPipe>>

\* One read takes all there is.  What does not fit into InPipe is written
\* over the stack behind it, and the program may die of that.
ReadAll ==
    /\ parent = "read"
    /\ fd # <<>>
    /\ InPipe' = fd
    /\ fd' = <<>>
    /\ \/ parent' = "print"
       \/ Len(fd) + 1 > Room /\ parent' = "crashed"
    /\ UNCHANGED <<owner, child, wrote>>

PrintPipe ==
    /\ parent = "print"
    /\ parent' = "ended"
    /\ UNCHANGED <<fd, owner, child, wrote, InPipe>>

ChildOfPipe(c) == Lock(c) \/ WriteByte(c) \/ Unlock(c) \/ ExitChild(c)

ParentOfPipe ==
    WaitChild \/ ReadAll \/ PrintPipe \/ (\E c \in Children : ForkChild(c))

PipeNext == ParentOfPipe \/ (\E c \in Children : ChildOfPipe(c))
-----------------------------------------------------------------------------
Unmixed(bytes) ==
    \A x, y, z \in DOMAIN bytes :
        x < y /\ y < z /\ bytes[x] = bytes[z] => bytes[y] = bytes[x]

(* The bytes of one child stand together in the pipe and in what is        *)
(* printed, and when the parent reads, both children are there in full:    *)
(* what the report of Lab 2 expects of the program with the lock.          *)
BlocksArriveWhole ==
    /\ Unmixed(fd)
    /\ Unmixed(InPipe)
    /\ parent \in {"print", "ended"} =>
           /\ Len(InPipe) = 2 * Count
           /\ \A c \in Children : \E k \in DOMAIN InPipe :
                 SubSeq(InPipe, k, k + Count - 1) = [n \in 1 .. Count |-> c]

PipeEnds == parent \in {"crashed", "ended"}
=============================================================================
