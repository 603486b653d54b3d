------------------------------- MODULE Signals -------------------------------
(***************************************************************************)
(* Lab2/kill1617.c and alarm.c: a parent sends signal 16 to its first      *)
(* child and 17 to its second; each child waits for its signal in pause()  *)
(* and the parent waits for both.  The signals may come at any time of a   *)
(* child's life: sleep() only makes it likely that they come late, and     *)
(* here it may end as soon as it likes.                                    *)
(*                                                                         *)
(* The names pid, pid2 of the source are read as pid1, pid2; without that  *)
(* neither program compiles.  A failed fork is repeated.                   *)
(***************************************************************************)
EXTENDS Integers

Sons == {1, 2}

VARIABLES
    source,    \* which program runs: "kill1617" or "alarm"
    son,       \* where a child is
    at,        \* where it was when its signal came
    father,    \* what the parent does next
    pending,   \* an alarm is set and has not rung
    breaks     \* keys ^C that have been pressed

signalVars == <<source, son, at, father, pending, breaks>>

SonStages == {"unborn", "born", "ignoring", "ready", "paused", "woken", "ended", "killed"}

SignalsTypeOK ==
    /\ source \in {"kill1617", "alarm"}
    /\ son \in [Sons -> SonStages]
    /\ at \in [Sons -> SonStages]
    /\ father \in {"fork1", "fork2", "install", "sleep1", "kill1", "wait1",
                   "sleep2", "kill2", "sleep3", "wait2", "print", "ended", "killed"}
    /\ pending \in BOOLEAN
    /\ breaks \in {0, 1}

SignalsInit ==
    /\ source \in {"kill1617", "alarm"}
    /\ son = [c \in Sons |-> "unborn"]
    /\ at = [c \in Sons |-> "unborn"]
    /\ father = "fork1"
    /\ pending = FALSE
    /\ breaks = 0
-----------------------------------------------------------------------------
ForkSon(c) ==
    /\ father = IF c = 1 THEN "fork1" ELSE "fork2"
    /\ son' = [son EXCEPT ![c] = "born"]
    /\ father' = IF c = 1 THEN "fork2" ELSE "install"
    /\ UNCHANGED <<source, at, pending, breaks>>

\* The handlers of the parent, and in alarm.c the first alarm.
InstallFather ==
    /\ father = "install"
    /\ father' = IF source = "alarm" THEN "sleep1" ELSE "kill1"
    /\ pending' = (source = "alarm")
    /\ UNCHANGED <<source, son, at, breaks>>

\* A sleep ends by itself, or early by the handler of the alarm or of ^C.
SleepEnds ==
    /\ \/ father = "sleep1" /\ father' = "kill1"
       \/ father = "sleep2" /\ father' = "kill2"
       \/ father = "sleep3" /\ father' = "wait1"
    /\ UNCHANGED <<source, son, at, pending, breaks>>

\* A wait goes on after a handler: signal() installs with SA_RESTART.
AlarmRings ==
    /\ pending
    /\ father \notin {"ended", "killed"}
    /\ pending' = FALSE
    /\ father' = CASE father = "sleep1" -> "kill1"
                   [] father = "sleep2" -> "kill2"
                   [] OTHER -> father
    /\ UNCHANGED <<source, son, at, breaks>>

\* What a signal does to a child.  Before its handler is there, 16
\* terminates and 17 (SIGCHLD) is ignored; between signal() and pause() the
\* handler runs and pause waits for another one.
Fate(c, stage) ==
    CASE stage = "paused" -> "woken"
      [] stage \in {"born", "ignoring"} /\ c = 1 -> "killed"
      [] OTHER -> stage

Kill(c) ==
    /\ father = IF c = 1 THEN "kill1" ELSE "kill2"
    /\ at' = [at EXCEPT ![c] = son[c]]
    /\ son' = [son EXCEPT ![c] = Fate(c, son[c])]
    /\ father' = CASE source = "alarm" /\ c = 1 -> "wait1"
                   [] source = "alarm" /\ c = 2 -> "wait2"
                   [] source = "kill1617" /\ c = 1 -> "kill2"
                   [] source = "kill1617" /\ c = 2 -> "sleep3"
    /\ UNCHANGED <<source, pending, breaks>>

Gone == {c \in Sons : son[c] \in {"ended", "killed"}}

\* The first wait(0) takes any child that is gone, the second the other one.
\* alarm.c sets its second alarm between them.
WaitFirst ==
    /\ father = "wait1"
    /\ Gone # {}
    /\ father' = IF source = "alarm" THEN "sleep2" ELSE "wait2"
    /\ pending' = (source = "alarm")
    /\ UNCHANGED <<source, son, at, breaks>>

\* Mutant: a wait that any child satisfies again.
WaitSecondAny ==
    /\ father = "wait2"
    /\ Gone # {}
    /\ father' = "print"
    /\ UNCHANGED <<source, son, at, pending, breaks>>

WaitSecond ==
    /\ father = "wait2"
    /\ Gone = Sons
    /\ father' = "print"
    /\ UNCHANGED <<source, son, at, pending, breaks>>

PrintFather ==
    /\ father = "print"
    /\ father' = "ended"
    /\ UNCHANGED <<source, son, at, pending, breaks>>

SonStep(c, from, to) ==
    /\ son[c] = from
    /\ son' = [son EXCEPT ![c] = to]
    /\ UNCHANGED <<source, at, father, pending, breaks>>

Ignore(c) == SonStep(c, "born", "ignoring")        \* SIG_IGN for ^C, ^\ and alarms
InstallSon(c) == SonStep(c, "ignoring", "ready")   \* signal(16 or 17, inter_handler)
Pause(c) == SonStep(c, "ready", "paused")
Announce(c) == SonStep(c, "woken", "ended")        \* printf and exit

\* ^C, once, to the three processes.  The parent survives it where it has a
\* handler, which only kill1617.c gives it, and its sleep ends.
Break ==
    /\ breaks = 0
    /\ breaks' = 1
    /\ father \notin {"ended", "killed"}
    /\ father' = CASE source = "alarm" \/ father \in {"fork1", "fork2", "install"} -> "killed"
                   [] father = "sleep3" -> "wait1"
                   [] OTHER -> father
    /\ son' = [c \in Sons |-> IF son[c] = "born" THEN "killed" ELSE son[c]]
    /\ UNCHANGED <<source, at, pending>>

FatherStep ==
    \/ InstallFather \/ SleepEnds \/ WaitFirst \/ WaitSecond \/ PrintFather
    \/ \E c \in Sons : ForkSon(c) \/ Kill(c)

LifeOfSon(c) == Ignore(c) \/ InstallSon(c) \/ Pause(c) \/ Announce(c)

SignalsNext == FatherStep \/ AlarmRings \/ Break \/ (\E c \in Sons : LifeOfSon(c))
-----------------------------------------------------------------------------
\* A child that was signalled too early for its pause and not killed by it.
MissedSignal(c) ==
    /\ at[c] \in {"born", "ignoring", "ready"}
    /\ son[c] # "killed"

(* Nothing but its place when the signal came decides what becomes of a    *)
(* child, whatever the others do meanwhile: it announces its end after the *)
(* signal has met it in pause() and only then; it is killed without a word *)
(* as the first child met before its handler was there, or by ^C before    *)
(* it ignores it; and one that missed its signal never comes to an end, so *)
(* the parent comes to its last line only if no signal was missed.         *)
SignalFates ==
    /\ \A c \in Sons :
         /\ son[c] \in {"woken", "ended"} <=> at[c] = "paused"
         /\ son[c] = "killed" => breaks = 1 \/ (c = 1 /\ at[c] \in {"born", "ignoring"})
         /\ MissedSignal(c) => son[c] \in {"born", "ignoring", "ready", "paused"}
         /\ MissedSignal(c) /\ breaks = 0 => c = 2 \/ at[c] = "ready"
    /\ father \in {"print", "ended"} =>
         Gone = Sons /\ \A c \in Sons : ~MissedSignal(c)

\* The parent ends, after its children or by ^C.
SignalsEnd == father \in {"ended", "killed"}
=============================================================================
