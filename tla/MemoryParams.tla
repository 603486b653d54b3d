---------------------------- MODULE MemoryParams ----------------------------
(* What MemAlloc and MemoryMap are both parameterised by. *)
EXTENDS Integers

CONSTANTS
    MinSlice,   \* MIN_SLICE, 10: a remainder up to this size is given away as well
    Requests,   \* sizes a process asks for
    MemSizes,   \* sizes a user gives the memory
    MaxPid      \* bound of the model: processes started in one run

ASSUME MemoryAssumption ==
    /\ MinSlice \in Nat
    /\ Requests \subseteq Nat \ {0}
    /\ MemSizes \subseteq Nat \ {0}
    /\ MaxPid \in Nat

Pids == 1 .. MaxPid

MA_FF == 1
MA_BF == 2
MA_WF == 3

Algorithms == {MA_FF, MA_BF, MA_WF}
=============================================================================
