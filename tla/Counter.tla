------------------------------ MODULE Counter ------------------------------
(***************************************************************************)
(* Lab1: two threads, one of which adds 1 to temp as often as the other    *)
(* subtracts 1.  The three programs differ in what guards the counter:     *)
(*     "none"        D_OP_Thread.c                                         *)
(*     "semaphore"   PV1.c, around the whole loop                          *)
(*     "spin"        Mutex.c, around every step of the loop                *)
(* temp++ is a load and a store, as the compiler translates it without     *)
(* optimisation.                                                           *)
(***************************************************************************)
EXTENDS Integers

CONSTANT Iterations   \* rounds of each loop: 5000 in the code

ASSUME IterationsAssumption == Iterations \in Nat \ {0}

Threads == {1, 2}

VARIABLES
    guard,    \* which of the programs runs
    signal,   \* the semaphore; in Mutex.c, 1 while the flag of the lock is 0
    temp,
    reg,      \* what a thread has loaded
    i,        \* completed rounds of a thread
    thread,   \* where a thread is
    main      \* the next call of main: create 1 and 2, join 3 and 4, the last
              \* printf 5; 6 after it; 0 once the process is gone before that

counterVars == <<guard, signal, temp, reg, i, thread, main>>

CounterTypeOK ==
    /\ guard \in {"none", "semaphore", "spin"}
    /\ signal \in {0, 1}
    /\ temp \in Int
    /\ reg \in [Threads -> Int]
    /\ i \in [Threads -> 0 .. Iterations]
    /\ thread \in [Threads ->
                      {"unborn", "outside", "inside", "loaded", "leaving", "ended"}]
    /\ main \in 0 .. 6

CounterInit ==
    /\ guard \in {"none", "semaphore", "spin"}
    /\ signal = 1
    /\ temp = 0
    /\ reg = [t \in Threads |-> 0]
    /\ i = [t \in Threads |-> 0]
    /\ thread = [t \in Threads |-> "unborn"]
    /\ main = 1
-----------------------------------------------------------------------------
Create(t) ==
    /\ main = t
    /\ thread' = [thread EXCEPT ![t] = "outside"]
    /\ main' = main + 1
    /\ UNCHANGED <<guard, signal, temp, reg, i>>

\* main exits, but for the first thread of D_OP_Thread.c and PV1.c: there it
\* says so and goes on to the second thread.
CreateFails(t) ==
    /\ main = t
    /\ main' = IF t = 1 /\ guard # "spin" THEN 2 ELSE 0
    /\ UNCHANGED <<guard, signal, temp, reg, i, thread>>

\* Mutant: the lock is tested first and set afterwards, whatever it is then.
AcquireUntested(t) ==
    /\ main # 0
    /\ thread[t] = "outside"
    /\ signal' = IF guard = "none" THEN signal ELSE 0
    /\ thread' = [thread EXCEPT ![t] = "inside"]
    /\ UNCHANGED <<guard, temp, reg, i, main>>

\* sem_wait, or the last round of the loop in spinlock_lock (the others set
\* the flag to 1, which it is); D_OP_Thread.c has nothing to wait for.
Acquire(t) ==
    /\ main # 0
    /\ thread[t] = "outside"
    /\ guard # "none" => signal = 1
    /\ signal' = IF guard = "none" THEN signal ELSE 0
    /\ thread' = [thread EXCEPT ![t] = "inside"]
    /\ UNCHANGED <<guard, temp, reg, i, main>>

Load(t) ==
    /\ main # 0
    /\ thread[t] = "inside"
    /\ reg' = [reg EXCEPT ![t] = temp]
    /\ thread' = [thread EXCEPT ![t] = "loaded"]
    /\ UNCHANGED <<guard, signal, temp, i, main>>

Change(t) == IF t = 1 THEN 1 ELSE -1

\* Mutant: a thread changes what temp is now by what it has loaded.
StoreTwice(t) ==
    /\ main # 0
    /\ thread[t] = "loaded"
    /\ temp' = temp + reg[t] + Change(t)
    /\ i' = [i EXCEPT ![t] = @ + 1]
    /\ thread' = [thread EXCEPT ![t] =
                     IF guard = "spin" \/ i[t] + 1 = Iterations
                       THEN "leaving" ELSE "inside"]
    /\ UNCHANGED <<guard, signal, reg, main>>

Store(t) ==
    /\ main # 0
    /\ thread[t] = "loaded"
    /\ temp' = reg[t] + Change(t)
    /\ i' = [i EXCEPT ![t] = @ + 1]
    /\ thread' = [thread EXCEPT ![t] =
                     IF guard = "spin" \/ i[t] + 1 = Iterations
                       THEN "leaving" ELSE "inside"]
    /\ UNCHANGED <<guard, signal, reg, main>>

\* Mutant: a thread that ends keeps the lock.
ReleaseKeeps(t) ==
    /\ main # 0
    /\ thread[t] = "leaving"
    /\ signal' = IF guard = "none" \/ i[t] = Iterations THEN signal ELSE 1
    /\ thread' = [thread EXCEPT ![t] = IF i[t] < Iterations THEN "outside" ELSE "ended"]
    /\ UNCHANGED <<guard, temp, reg, i, main>>

\* sem_post, or spinlock_unlock and the test of the loop.
Release(t) ==
    /\ main # 0
    /\ thread[t] = "leaving"
    /\ signal' = IF guard = "none" THEN signal ELSE 1
    /\ thread' = [thread EXCEPT ![t] = IF i[t] < Iterations THEN "outside" ELSE "ended"]
    /\ UNCHANGED <<guard, temp, reg, i, main>>

Join(t) ==
    /\ main = t + 2
    /\ thread[t] = "ended"
    /\ main' = main + 1
    /\ UNCHANGED <<guard, signal, temp, reg, i, thread>>

\* tid1 was never set: pthread_join is undefined.  It kills the process, comes
\* back at any time, or never does.
JoinUnset ==
    /\ main = 3
    /\ thread[1] = "unborn"
    /\ main' \in {0, 4}
    /\ UNCHANGED <<guard, signal, temp, reg, i, thread>>

\* The line with the final value.
PrintAll ==
    /\ main = 5
    /\ main' = 6
    /\ UNCHANGED <<guard, signal, temp, reg, i, thread>>

Work(t) == Acquire(t) \/ Load(t) \/ Store(t) \/ Release(t)

CallOfMain == PrintAll \/ (\E t \in Threads : Create(t) \/ CreateFails(t) \/ Join(t))

CounterNext == CallOfMain \/ JoinUnset \/ (\E t \in Threads : Work(t))

CounterSpec == CounterInit /\ [][CounterNext]_counterVars
-----------------------------------------------------------------------------
Counted(x) == -i[2] <= x /\ x <= i[1]

(* With or without a lock, the counter never leaves the range of what the  *)
(* threads have done so far, and a value on its way to memory is in it     *)
(* too: a lost update is never more than an update.                        *)
RaceBounds ==
    /\ Counted(temp)
    /\ \A t \in Threads : thread[t] = "loaded" => Counted(reg[t])

(* Under the semaphore and under the spin lock no update is lost: the      *)
(* counter is the difference of the rounds.  The line of main says 0, or   *)
(* the rounds of the second thread if it is the only one.                  *)
NoLostUpdate ==
    guard # "none" =>
        /\ temp = i[1] - i[2]
        /\ main \in {5, 6} => temp = IF thread[1] = "unborn" THEN -Iterations ELSE 0

(* readme/Lab1_readme.md:283 of PV1.c: with the semaphore around the two   *)
(* loops the result is 0.  It is not when PV1.c goes on after its first    *)
(* pthread_create has failed.                                              *)
MainPrintsZero == guard = "semaphore" /\ main = 6 => temp = 0

\* main joins a thread it has not created.
AtUnsetJoin == main = 3 /\ thread[1] = "unborn"
=============================================================================
