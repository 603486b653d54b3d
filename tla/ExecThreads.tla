----------------------------- MODULE ExecThreads -----------------------------
(***************************************************************************)
(* Lab1/Texec.c and Tsystem.c: main starts two threads; each prints its    *)
(* number and runs ./thread, by execl in the one program and by system in  *)
(* the other.                                                              *)
(***************************************************************************)
EXTENDS Integers

Workers == {1, 2}

VARIABLES
    call,      \* "exec" (Texec.c) or "system" (Tsystem.c)
    present,   \* there is a file ./thread
    caller,    \* the next call of main: create 1 and 2, join 3 and 4, return 5;
               \* 6 after it, 0 after exit(1)
    worker,    \* where a thread is
    image,     \* the program in the process: "self", "thread", or "gone"
    runs       \* times ./thread has been started

execVars == <<call, present, caller, worker, image, runs>>

ExecTypeOK ==
    /\ call \in {"exec", "system"}
    /\ present \in BOOLEAN
    /\ caller \in 0 .. 6
    /\ worker \in [Workers -> {"unborn", "born", "said", "waiting", "ended"}]
    /\ image \in {"self", "thread", "gone"}
    /\ runs \in 0 .. 2

ExecInit ==
    /\ call \in {"exec", "system"}
    /\ present \in BOOLEAN
    /\ caller = 1
    /\ worker = [t \in Workers |-> "unborn"]
    /\ image = "self"
    /\ runs = 0
-----------------------------------------------------------------------------
Running == image = "self" /\ caller \notin {0, 6}

Spawn(t) ==
    /\ Running
    /\ caller = t
    /\ worker' = [worker EXCEPT ![t] = "born"]
    /\ caller' = caller + 1
    /\ UNCHANGED <<call, present, image, runs>>

SpawnFails ==
    /\ Running
    /\ caller \in Workers
    /\ caller' = 0
    /\ UNCHANGED <<call, present, worker, image, runs>>

SayTid(t) ==
    /\ Running
    /\ worker[t] = "born"
    /\ worker' = [worker EXCEPT ![t] = "said"]
    /\ UNCHANGED <<call, present, caller, image, runs>>

\* Mutant: ./thread takes the place of the thread and not of the process.
ExecAsThread(t) ==
    /\ Running
    /\ call = "exec"
    /\ worker[t] = "said"
    /\ runs' = IF present THEN runs + 1 ELSE runs
    /\ worker' = [worker EXCEPT ![t] = "ended"]
    /\ UNCHANGED <<call, present, caller, image>>

\* Without the file execl returns and the thread ends.  Otherwise all
\* threads are gone, the one that had not called it too.
Exec(t) ==
    /\ Running
    /\ call = "exec"
    /\ worker[t] = "said"
    /\ \/ /\ present
          /\ image' = "thread"
          /\ runs' = runs + 1
          /\ UNCHANGED worker
       \/ /\ ~present
          /\ worker' = [worker EXCEPT ![t] = "ended"]
          /\ UNCHANGED <<image, runs>>
    /\ UNCHANGED <<call, present, caller>>

ThreadEnds ==
    /\ image = "thread"
    /\ image' = "gone"
    /\ UNCHANGED <<call, present, caller, worker, runs>>

\* system() starts a shell, and the shell ./thread, ...
System(t) ==
    /\ Running
    /\ call = "system"
    /\ worker[t] = "said"
    /\ worker' = [worker EXCEPT ![t] = "waiting"]
    /\ UNCHANGED <<call, present, caller, image, runs>>

\* ... and waits for it.
SystemReturns(t) ==
    /\ Running
    /\ worker[t] = "waiting"
    /\ runs' = IF present THEN runs + 1 ELSE runs
    /\ worker' = [worker EXCEPT ![t] = "ended"]
    /\ UNCHANGED <<call, present, caller, image>>

JoinWorker(t) ==
    /\ Running
    /\ caller = t + 2
    /\ worker[t] = "ended"
    /\ caller' = caller + 1
    /\ UNCHANGED <<call, present, worker, image, runs>>

Return ==
    /\ Running
    /\ caller = 5
    /\ caller' = 6
    /\ UNCHANGED <<call, present, worker, image, runs>>

CallOfCaller == SpawnFails \/ Return \/ (\E t \in Workers : Spawn(t) \/ JoinWorker(t))

WorkerStep(t) == SayTid(t) \/ Exec(t) \/ System(t) \/ SystemReturns(t)

ExecNext == CallOfCaller \/ ThreadEnds \/ (\E t \in Workers : WorkerStep(t))
-----------------------------------------------------------------------------
(* With execl ./thread runs once at most, whichever thread comes first,    *)
(* and main returns only if there is no such file; with system each thread *)
(* has had its run of it when main returns.                                *)
ExecRunsOnce ==
    /\ call = "exec" => runs <= 1 /\ (runs = 1 <=> image # "self")
    /\ caller = 6 => runs = IF call = "system" /\ present THEN 2 ELSE 0
    /\ caller = 6 /\ call = "exec" => ~present

ExecEnds == caller \in {0, 6} \/ image = "gone"
=============================================================================
