-------------------------------- MODULE Pager --------------------------------
(***************************************************************************)
(* First in, first out page replacement as it is promised: resident is the *)
(* queue of the pages in memory, the oldest first.                         *)
(*                                                                         *)
(* One promise is weaker than the textbook's: while a frame is unused,     *)
(* page Phantom counts as present without being brought in.                *)
(***************************************************************************)
EXTENDS Integers, Sequences

CONSTANTS Pages, Phantom

VARIABLES size, resident, faults

Init ==
    /\ size \in Nat \ {0}
    /\ resident = <<>>
    /\ faults = 0

Present(p) ==
    \/ \E k \in DOMAIN resident : resident[k] = p
    \/ p = Phantom /\ Len(resident) < size

Hit(p) == Present(p) /\ UNCHANGED <<size, resident, faults>>

Miss(p) ==
    /\ ~Present(p)
    /\ resident' = Append(IF Len(resident) = size THEN Tail(resident) ELSE resident, p)
    /\ faults' = faults + 1
    /\ UNCHANGED size

Next == \E p \in Pages : Hit(p) \/ Miss(p)

Spec == Init /\ [][Next]_<<size, resident, faults>>
=============================================================================
