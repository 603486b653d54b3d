----------------------------- MODULE LabPrograms -----------------------------
(***************************************************************************)
(* The small programs of the three labs, and the loops that search a       *)
(* bitmap, side by side.  They share nothing, and one behaviour is the run *)
(* of one of them; the others stand at their beginning.                    *)
(***************************************************************************)
EXTENDS Counter, Pipe, Signals, ExecThreads, PageFIFO, PageLRU, Session, BitmapScan

VARIABLE program   \* the one that runs

programVars ==
    <<program, counterVars, pipeVars, signalVars, execVars, fifoVars, lruVars, sessionVars,
      scanVars>>

ProgramsTypeOK ==
    /\ program \in {"counter", "pipe", "signals", "exec", "fifo", "lru", "session", "scan"}
    /\ CounterTypeOK
    /\ PipeTypeOK
    /\ SignalsTypeOK
    /\ ExecTypeOK
    /\ FifoTypeOK
    /\ LruTypeOK
    /\ SessionTypeOK
    /\ ScanTypeOK

\* What a program is started with is chosen for the one that runs only.
ProgramsInit ==
    /\ program \in {"counter", "pipe", "signals", "exec", "fifo", "lru", "session", "scan"}
    /\ CounterInit /\ (program # "counter" => guard = "none")
    /\ PipeInit
    /\ SignalsInit /\ (program # "signals" => source = "alarm")
    /\ ExecInit /\ (program # "exec" => call = "exec" /\ present)
    /\ FifoInit /\ (program # "fifo" => blocknum = 0)
    /\ LruInit /\ (program # "lru" => memorySize = 0)
    /\ SessionInit /\ (program # "session" => volume = "none")
    /\ ScanInit /\ (program # "scan" => free = 0 /\ bitbuf = {} /\ hint = 0)

ProgramsNext ==
    /\ UNCHANGED program
    /\ \/ /\ program = "counter" /\ CounterNext
          /\ UNCHANGED <<pipeVars, signalVars, execVars, fifoVars, lruVars, sessionVars, scanVars>>
       \/ /\ program = "pipe" /\ PipeNext
          /\ UNCHANGED <<counterVars, signalVars, execVars, fifoVars, lruVars, sessionVars, scanVars>>
       \/ /\ program = "signals" /\ SignalsNext
          /\ UNCHANGED <<counterVars, pipeVars, execVars, fifoVars, lruVars, sessionVars, scanVars>>
       \/ /\ program = "exec" /\ ExecNext
          /\ UNCHANGED <<counterVars, pipeVars, signalVars, fifoVars, lruVars, sessionVars, scanVars>>
       \/ /\ program = "fifo" /\ FifoNext
          /\ UNCHANGED <<counterVars, pipeVars, signalVars, execVars, lruVars, sessionVars, scanVars>>
       \/ /\ program = "lru" /\ LruNext
          /\ UNCHANGED <<counterVars, pipeVars, signalVars, execVars, fifoVars, sessionVars, scanVars>>
       \/ /\ program = "session" /\ SessionNext
          /\ UNCHANGED <<counterVars, pipeVars, signalVars, execVars, fifoVars, lruVars, scanVars>>
       \/ /\ program = "scan" /\ ScanNext
          /\ UNCHANGED <<counterVars, pipeVars, signalVars, execVars, fifoVars, lruVars,
                         sessionVars>>

\* Each thread and process of the program that runs is scheduled, and alarms
\* ring.  Nothing orders the waiters of a lock, nobody presses a key, and the
\* join of a thread that was not created need not come back.
ProgramsFairness ==
    /\ WF_counterVars(program = "counter" /\ CallOfMain)
    /\ \A t \in Threads : WF_counterVars(program = "counter" /\ Work(t))
    /\ WF_pipeVars(program = "pipe" /\ ParentOfPipe)
    /\ \A c \in Children : WF_pipeVars(program = "pipe" /\ ChildOfPipe(c))
    /\ WF_signalVars(program = "signals" /\ FatherStep)
    /\ WF_signalVars(program = "signals" /\ AlarmRings)
    /\ \A c \in Sons : WF_signalVars(program = "signals" /\ LifeOfSon(c))
    /\ WF_execVars(program = "exec" /\ (CallOfCaller \/ ThreadEnds))
    /\ \A t \in Workers : WF_execVars(program = "exec" /\ WorkerStep(t))
    /\ WF_scanVars(program = "scan" /\ ScanNext)

ProgramsSpec == ProgramsInit /\ [][ProgramsNext]_programVars /\ ProgramsFairness
-----------------------------------------------------------------------------
(* A program of processes or threads comes to its end if each of them is   *)
(* scheduled: the spin lock has no order and still lets both through, the  *)
(* lock of the pipe is given back, and a parent comes to its last line     *)
(* unless a child misses its signal.  Of the counter, one that does not    *)
(* join a thread it could not create.                                      *)
ProgramsEnd ==
    /\ program = "counter" => <>(AtUnsetJoin \/ main \in {0, 6})
    /\ program = "pipe" => <>PipeEnds
    /\ program = "signals" => <>(SignalsEnd \/ \E c \in Sons : MissedSignal(c))
    /\ program = "exec" => <>ExecEnds

(* The search for a clear bit ends whenever the free count is zero or some *)
(* bit is clear; the wrap-around reaches the bytes below the hint.         *)
ScanEnds ==
    program = "scan" => ((free = 0 \/ bitbuf # Bits) ~> (pc \in {"done", "refused"}))

(* readme/Lab2_readme.md:158: each child takes its signal and prints that  *)
(* it is killed; line 90: the parent sends the signals and waits for the   *)
(* children to end, and ends.  Without ^C a run comes there.  A child that *)
(* is signalled before it has its handler is gone without a word, and one  *)
(* whose signal comes before its pause() never ends, nor does the parent.  *)
ChildrenAnnounceTheirEnd ==
    program = "signals" =>
        <>(breaks = 1 \/ (father = "ended" /\ \A c \in Sons : son[c] = "ended"))
=============================================================================
