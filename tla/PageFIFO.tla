------------------------------ MODULE PageFIFO ------------------------------
(***************************************************************************)
(* Lab2/pagefifo.c: a chain of frames, filled in order and then replaced   *)
(* at repos, which goes round.  One action per reference.  The chain is a  *)
(* sequence, and the pointers to its nodes are positions in it.            *)
(*                                                                         *)
(* An unused frame has number 0, and search does not look at the status.   *)
(***************************************************************************)
EXTENDS PageParams, Sequences, FiniteSets

VARIABLES
    blocknum,      \* frames, as the user wrote it
    frames,        \* the records of the chain: num and status
    repos,
    missingcount,
    left,          \* references to come: pagenum - i
    divided        \* the remainder by a blocknum of 0 has been taken

fifoVars == <<blocknum, frames, repos, missingcount, left, divided>>

FifoTypeOK ==
    /\ blocknum \in 0 .. MaxFrames
    /\ frames \in Seq([num : Pages, status : {0, 1}])
    /\ Len(frames) = IF blocknum = 0 THEN 1 ELSE blocknum
    /\ repos \in 0 .. Len(frames) - 1
    /\ missingcount \in 0 .. References - left
    /\ left \in 0 .. References
    /\ divided \in BOOLEAN

\* init() makes the head and blocknum - 1 frames more.
FifoInit ==
    /\ blocknum \in 0 .. MaxFrames
    /\ frames = [k \in 1 .. (IF blocknum = 0 THEN 1 ELSE blocknum) |->
                    [num |-> 0, status |-> 0]]
    /\ repos = 0
    /\ missingcount = 0
    /\ left = References
    /\ divided = FALSE
-----------------------------------------------------------------------------
search(p) == \E k \in DOMAIN frames : frames[k].num = p

Unused == {k \in DOMAIN frames : frames[k].status = 0}

find_free == CHOOSE k \in Unused : \A other \in Unused : k <= other

\* Mutant: the frames are replaced from the tail on.
replaceLast(p) ==
    /\ frames' = [frames EXCEPT ![Len(frames) - repos].num = p]
    /\ IF blocknum = 0
         THEN divided' = TRUE /\ UNCHANGED repos
         ELSE repos' = (repos + 1) % blocknum /\ UNCHANGED divided

\* The division by zero ends the program.
replace(p) ==
    /\ frames' = [frames EXCEPT ![repos + 1].num = p]
    /\ IF blocknum = 0
         THEN divided' = TRUE /\ UNCHANGED repos
         ELSE repos' = (repos + 1) % blocknum /\ UNCHANGED divided

\* One round of the loop in simulate().
Simulate(p) ==
    /\ ~divided
    /\ left > 0
    /\ left' = left - 1
    /\ UNCHANGED blocknum
    /\ \/ search(p) /\ UNCHANGED <<frames, repos, missingcount, divided>>
       \/ /\ ~search(p)
          /\ missingcount' = missingcount + 1
          /\ \/ /\ Unused # {}
                /\ frames' = [frames EXCEPT ![find_free] = [num |-> p, status |-> 1]]
                /\ UNCHANGED <<repos, divided>>
             \/ Unused = {} /\ replace(p)

FifoNext == \E p \in Pages : Simulate(p)

FifoSpec == FifoInit /\ [][FifoNext]_fifoVars
-----------------------------------------------------------------------------
FramesUsed == Cardinality(DOMAIN frames \ Unused)

\* The pages of the used frames, oldest first: from repos on and round.
ResidentPages ==
    [k \in 1 .. FramesUsed |-> frames[((repos + k - 1) % Len(frames)) + 1].num]

Abstract == INSTANCE Pager WITH
    Phantom <- 0,
    size <- Len(frames),
    resident <- ResidentPages,
    faults <- missingcount

(* The chain with repos is a queue: each miss replaces the page that has   *)
(* been in memory longest, and the count of misses is that of the promise, *)
(* up to page 0, which is taken for present while a frame is unused.       *)
ImplementsPager == Abstract!Spec
=============================================================================
