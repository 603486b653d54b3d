------------------------------- MODULE PageLRU -------------------------------
(***************************************************************************)
(* Lab2/pagelru.c: the pages in memory as a list, the most recent first,   *)
(* and their number counted apart in cpn.  One action per reference.       *)
(*                                                                         *)
(* The history is the string of references so far: LRU is defined by it.   *)
(***************************************************************************)
EXTENDS PageParams, Sequences, FiniteSets

VARIABLES
    memorySize,
    memory,         \* the data of the nodes, from head on
    cpn,
    pageMissCount,
    string          \* history: the pages referenced

lruVars == <<memorySize, memory, cpn, pageMissCount, string>>

LruTypeOK ==
    /\ memorySize \in 0 .. MaxFrames
    /\ memory \in Seq(Pages)
    /\ cpn \in 0 .. MaxFrames
    /\ pageMissCount \in 0 .. References
    /\ string \in Seq(Pages) /\ Len(string) <= References

LruInit ==
    /\ memorySize \in 0 .. MaxFrames
    /\ memory = <<>>
    /\ cpn = 0
    /\ pageMissCount = 0
    /\ string = <<>>
-----------------------------------------------------------------------------
findNode(p) == \E k \in DOMAIN memory : memory[k] = p

insertAtHead(list, p) == <<p>> \o list

\* The first node with the page.
deleteNode(list, p) ==
    LET k == CHOOSE k \in DOMAIN list : list[k] = p /\ \A j \in 1 .. k - 1 : list[j] # p
    IN  SubSeq(list, 1, k - 1) \o SubSeq(list, k + 1, Len(list))

deleteTail(list) == IF list = <<>> THEN list ELSE SubSeq(list, 1, Len(list) - 1)

\* Mutant: a hit leaves the node where it is (first in, first out).
HitStays(p) == findNode(p) /\ UNCHANGED <<memory, cpn, pageMissCount>>

Hit(p) ==
    /\ findNode(p)
    /\ memory' = insertAtHead(deleteNode(memory, p), p)
    /\ UNCHANGED <<cpn, pageMissCount>>

\* Mutant: an evicted page is not counted off.
MissKeepsCount(p) ==
    /\ ~findNode(p)
    /\ memory' = insertAtHead(IF cpn >= memorySize THEN deleteTail(memory) ELSE memory, p)
    /\ cpn' = cpn + 1
    /\ pageMissCount' = pageMissCount + 1

\* With memorySize 0 the list is empty at the first eviction and cpn passes
\* through -1: one page is kept, and counted as none.
Miss(p) ==
    /\ ~findNode(p)
    /\ memory' = insertAtHead(IF cpn >= memorySize THEN deleteTail(memory) ELSE memory, p)
    /\ cpn' = IF cpn >= memorySize THEN cpn - 1 + 1 ELSE cpn + 1
    /\ pageMissCount' = pageMissCount + 1

Reference(p) ==
    /\ Len(string) < References
    /\ string' = Append(string, p)
    /\ UNCHANGED memorySize
    /\ Hit(p) \/ Miss(p)

LruNext == \E p \in Pages : Reference(p)
-----------------------------------------------------------------------------
Capacity == IF memorySize = 0 THEN 1 ELSE memorySize

\* The different pages between a reference and the last one to the same page.
Between(j, k) == {string[x] : x \in (j + 1) .. (k - 1)}

Faults ==
    {k \in DOMAIN string :
        ~\E j \in 1 .. k - 1 :
            /\ string[j] = string[k]
            /\ Cardinality(Between(j, k)) < Capacity}

LastUse(p) ==
    CHOOSE k \in DOMAIN string :
        string[k] = p /\ \A x \in DOMAIN string : x > k => string[x] # p

(* Memory holds the most recently used different pages in the order of     *)
(* their last use, as many as there are frames; cpn is their number; and a *)
(* reference counts as a miss exactly when as many different pages as      *)
(* there are frames have been used since the last reference to it.         *)
LRUKeepsMostRecent ==
    LET held == {memory[k] : k \in DOMAIN memory}
        used == {string[k] : k \in DOMAIN string}
    IN /\ held \subseteq used
       /\ \A x, y \in DOMAIN memory : x < y => LastUse(memory[x]) > LastUse(memory[y])
       /\ \A p \in used \ held : \A q \in held : LastUse(q) > LastUse(p)
       /\ Len(memory) = IF Cardinality(used) < Capacity THEN Cardinality(used) ELSE Capacity
       /\ cpn = IF memorySize = 0 THEN 0 ELSE Len(memory)
       /\ pageMissCount = Cardinality(Faults)
=============================================================================
