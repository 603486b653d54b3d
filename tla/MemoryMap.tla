----------------------------- MODULE MemoryMap -----------------------------
(***************************************************************************)
(* What the memory simulator of Lab2 promises, without lists: processes    *)
(* occupy intervals of the memory, what lies between them is free, and a   *)
(* new process gets the beginning of the free gap that the chosen          *)
(* algorithm prefers, or is refused when no gap is large enough.           *)
(***************************************************************************)
EXTENDS MemoryParams

VARIABLES
    total,    \* size of the memory
    policy,   \* one of Algorithms
    pieces,   \* the intervals in use, with the process that has each
    answer    \* "granted" or "refused" after a request, "" after anything else

vars == <<total, policy, pieces, answer>>

Pieces == [pid : Pids, start : Nat, size : Nat \ {0}]

TypeOK ==
    /\ total \in MemSizes
    /\ policy \in Algorithms
    /\ pieces \subseteq Pieces
    /\ answer \in {"", "granted", "refused"}

IsFree(address) ==
    \A p \in pieces : address < p.start \/ p.start + p.size <= address

\* A gap is a longest interval of free addresses.
IsGap(start, size) ==
    /\ \A address \in start .. start + size - 1 : IsFree(address)
    /\ start > 0 => ~IsFree(start - 1)
    /\ start + size < total => ~IsFree(start + size)

Gaps ==
    {g \in [start : 0 .. total - 1, size : 1 .. total] :
        g.start + g.size <= total /\ IsGap(g.start, g.size)}

Fitting(size) == {g \in Gaps : g.size >= size}

Prefers(g, h) ==
    CASE policy = MA_FF -> g.start <= h.start
      [] policy = MA_BF -> g.size <= h.size
      [] policy = MA_WF -> g.size >= h.size

\* What a process that asks for size gets of gap g.
Share(g, size) == IF g.size - size <= MinSlice THEN g.size ELSE size

Init ==
    /\ total \in MemSizes
    /\ policy = MA_FF
    /\ pieces = {}
    /\ answer = ""

Resize(size) ==
    /\ pieces = {}
    /\ total' = size
    /\ answer' = ""
    /\ UNCHANGED <<policy, pieces>>

Choose(p) ==
    /\ policy' = p
    /\ answer' = ""
    /\ UNCHANGED <<total, pieces>>

Start(pid, size) ==
    /\ \A p \in pieces : p.pid # pid
    /\ \E g \in Fitting(size) :
         /\ \A h \in Fitting(size) : Prefers(g, h)
         /\ pieces' = pieces \cup
                {[pid |-> pid, start |-> g.start, size |-> Share(g, size)]}
    /\ answer' = "granted"
    /\ UNCHANGED <<total, policy>>

Refuse(size) ==
    /\ Fitting(size) = {}
    /\ answer' = "refused"
    /\ UNCHANGED <<total, policy, pieces>>

Stop(pid) ==
    /\ pieces' = {p \in pieces : p.pid # pid}
    /\ answer' = ""
    /\ UNCHANGED <<total, policy>>

Next ==
    \/ \E size \in MemSizes : Resize(size)
    \/ \E p \in Algorithms : Choose(p)
    \/ \E pid \in Pids, size \in Requests : Start(pid, size)
    \/ \E size \in Requests : Refuse(size)
    \/ \E pid \in Pids : Stop(pid)

Spec == Init /\ [][Next]_vars
-----------------------------------------------------------------------------
(* Processes lie inside the memory, no address belongs to two of them, and *)
(* no process has two pieces: kill_process, which frees the first entry it *)
(* finds, frees all of it.                                                 *)
Disjoint ==
    /\ \A p \in pieces : p.start + p.size <= total
    /\ \A p, q \in pieces :
         p # q => /\ p.pid # q.pid
                  /\ p.start + p.size <= q.start \/ q.start + q.size <= p.start
=============================================================================
