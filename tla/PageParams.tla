----------------------------- MODULE PageParams -----------------------------
(***************************************************************************)
(* What the user of pagefifo.c and pagelru.c types, bounded.               *)
(***************************************************************************)
EXTENDS Integers

CONSTANTS
    Pages,        \* page numbers, 0 among them
    MaxFrames,    \* bound on the number of frames asked for
    References    \* length of the reference string

ASSUME PagingAssumption ==
    Pages \subseteq Int /\ 0 \in Pages /\ MaxFrames \in Nat /\ References \in Nat
=============================================================================
