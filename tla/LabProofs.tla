-------------------------------- MODULE LabProofs ---------------------------
(***************************************************************************)
(* The small programs of the three labs, each with an inductive invariant: *)
(* the counter, the session of Lab 3, the two page replacements, the pipe, *)
(* the signals and the threads that call execl or system.  The last part   *)
(* puts the invariants together for LabPrograms, with the one of the       *)
(* search of a bitmap from Ext2DiskProofs.                                 *)
(***************************************************************************)
EXTENDS LabPrograms, Ext2DiskProofs, FiniteSetTheorems, SequenceTheorems, WellFoundedInduction, TLAPS

-----------------------------------------------------------------------------
(* The counter of Lab 1.                                                   *)

Busy(t) == thread[t] \in {"inside", "loaded", "leaving"}

\* Rounds are left in the loop, and none are after it.
Rounds ==
    \A t \in Threads :
        /\ thread[t] \in {"unborn", "outside", "inside", "loaded"} => i[t] < Iterations
        /\ thread[t] = "ended" => i[t] = Iterations
        /\ thread[t] = "unborn" => i[t] = 0

\* What main has created, and what it has joined: all but a first thread it
\* could not create and went on without.
Calls ==
    \A t \in Threads :
        /\ main \in 1 .. t => thread[t] = "unborn"
        /\ main \in t + 1 .. 6 => thread[t] # "unborn" \/ (t = 1 /\ guard # "spin")
        /\ main \in t + 3 .. 6 => thread[t] \in {"ended", "unborn"}

\* At most one thread is between its two calls of the lock, and it holds it.
Exclusion ==
    guard # "none" =>
        /\ signal = 1 => \A t \in Threads : ~Busy(t)
        /\ \A t, u \in Threads : Busy(t) /\ Busy(u) => t = u

\* Hence what a thread has loaded is still what is there.
Fresh == guard # "none" => \A t \in Threads : thread[t] = "loaded" => reg[t] = temp

Exact == guard # "none" => temp = i[1] - i[2]

CounterInv ==
    CounterTypeOK /\ Rounds /\ Calls /\ RaceBounds /\ Exclusion /\ Fresh /\ Exact
-----------------------------------------------------------------------------
(* Before the threads start.                                               *)
LEMMA InitCounterInv == CounterInit => CounterInv
BY IterationsAssumption
   DEF CounterInit, CounterInv, CounterTypeOK, Rounds, Calls, RaceBounds, Counted,
       Exclusion, Fresh, Exact, Busy, Threads

(* The calls of main touch neither the counter nor the lock. *)
LEMMA MainKeeps == CounterInv /\ CallOfMain => CounterInv'
<1> SUFFICES ASSUME CounterInv, CallOfMain PROVE CounterInv'
    OBVIOUS
<1> USE IterationsAssumption
    DEF CounterInv, CounterTypeOK, Rounds, Calls, RaceBounds, Counted,
        Exclusion, Fresh, Exact, Busy, Threads
<1>1. ASSUME NEW t \in Threads, CreateFails(t) PROVE CounterInv'
    BY <1>1 DEF CreateFails
<1>2. CASE PrintAll
    BY <1>2 DEF PrintAll
<1>3. ASSUME NEW t \in Threads, Create(t) PROVE CounterInv'
    BY <1>3 DEF Create
<1>4. ASSUME NEW t \in Threads, Join(t) PROVE CounterInv'
    BY <1>4 DEF Join
<1> QED BY <1>1, <1>2, <1>3, <1>4 DEF CallOfMain

(* Nor does the join of a thread that was not created. *)
LEMMA JoinUnsetKeeps == CounterInv /\ JoinUnset => CounterInv'
BY IterationsAssumption
   DEF JoinUnset, CounterInv, CounterTypeOK, Rounds, Calls, RaceBounds, Counted,
       Exclusion, Fresh, Exact, Busy, Threads

(* A thread that gets the lock finds nobody inside. *)
LEMMA AcquireKeeps ==
    ASSUME CounterInv, NEW t \in Threads, Acquire(t) PROVE CounterInv'
BY IterationsAssumption
   DEF Acquire, CounterInv, CounterTypeOK, Rounds, Calls, RaceBounds, Counted,
       Exclusion, Fresh, Exact, Busy, Threads

(* A thread reads the shared counter into its register.                    *)
LEMMA LoadKeeps ==
    ASSUME CounterInv, NEW t \in Threads, Load(t) PROVE CounterInv'
BY IterationsAssumption
   DEF Load, CounterInv, CounterTypeOK, Rounds, Calls, RaceBounds, Counted,
       Exclusion, Fresh, Exact, Busy, Threads

(* The bounds widen by one for the thread that stores, and what it stores  *)
(* was inside the bounds when it was loaded.                               *)
LEMMA StoreKeeps ==
    ASSUME CounterInv, NEW t \in Threads, Store(t) PROVE CounterInv'
<1> USE IterationsAssumption DEF Store, Threads, CounterInv
<1>1. CounterTypeOK'
    BY DEF CounterTypeOK, Rounds, Change
<1>2. Rounds'
    BY DEF CounterTypeOK, Rounds
<1>3. Calls'
    BY DEF CounterTypeOK, Calls
<1>4. RaceBounds'
    BY DEF CounterTypeOK, RaceBounds, Counted, Change
<1>5. Exclusion'
    BY DEF CounterTypeOK, Exclusion, Busy
<1>6. Fresh'
    BY DEF CounterTypeOK, Exclusion, Fresh, Busy
<1>7. Exact'
    BY DEF CounterTypeOK, Fresh, Exact, Change
<1> QED BY <1>1, <1>2, <1>3, <1>4, <1>5, <1>6, <1>7

(* The lock is free again when the only one inside has left. *)
LEMMA ReleaseKeepsInv ==
    ASSUME CounterInv, NEW t \in Threads, Release(t) PROVE CounterInv'
BY IterationsAssumption
   DEF Release, CounterInv, CounterTypeOK, Rounds, Calls, RaceBounds, Counted,
       Exclusion, Fresh, Exact, Busy, Threads

(* A step of the counter program. *)
LEMMA CounterStep == CounterInv /\ [CounterNext]_counterVars => CounterInv'
<1>1. CASE UNCHANGED counterVars
    BY <1>1 DEF counterVars, CounterInv, CounterTypeOK, Rounds, Calls, RaceBounds,
                Counted, Exclusion, Fresh, Exact, Busy
<1> QED
    BY <1>1, MainKeeps, JoinUnsetKeeps, AcquireKeeps, LoadKeeps, StoreKeeps, ReleaseKeepsInv
    DEF CounterNext, Work

(* Hence CounterInv holds in every behaviour. *)
LEMMA CounterInvariant == CounterSpec => []CounterInv
BY InitCounterInv, CounterStep, PTL DEF CounterSpec

(* For any number of rounds, with or without a lock, the race keeps the    *)
(* counter between the subtractions and the additions made so far.         *)
THEOREM RaceIsBounded == CounterSpec => []RaceBounds
BY CounterInvariant, PTL DEF CounterInv

(* For any number of rounds neither lock loses an update, and main prints  *)
(* 0, or minus the rounds if PV1.c went on without its first thread: a     *)
(* thread inside has the lock to itself, so what it has loaded is still    *)
(* there when it stores.                                                   *)
THEOREM LocksLoseNothing == CounterSpec => []NoLostUpdate
<1>1. CounterInv => NoLostUpdate
    <2> SUFFICES ASSUME CounterInv, guard # "none"
                 PROVE  /\ temp = i[1] - i[2]
                        /\ main \in {5, 6} =>
                             temp = IF thread[1] = "unborn" THEN -Iterations ELSE 0
        BY DEF NoLostUpdate
    <2>1. temp = i[1] - i[2]
        BY DEF CounterInv, Exact
    <2>2. main \in {5, 6} => i[2] = Iterations
        BY DEF CounterInv, Calls, Rounds, Threads
    <2>3. main \in {5, 6} => i[1] = IF thread[1] = "unborn" THEN 0 ELSE Iterations
        BY DEF CounterInv, Calls, Rounds, Threads
    <2> QED
        BY <2>1, <2>2, <2>3, IterationsAssumption
<1> QED BY CounterInvariant, <1>1, PTL
-----------------------------------------------------------------------------
(* The session of Lab 3.                                                   *)

\* The words of the two records and of the question in between.
WordsInv ==
    /\ account \in Accounts
    /\ gdt \in Accounts
    /\ usrname \in Words \cup {""}
    /\ stage = "new password" => usrname \in Words

\* From the question for the name on, gdt is the account on the disk.
CopyInv ==
    /\ stage \in Inside \cup {"user", "password"} => gdt = account
    /\ stage = "password" => usrname = account.usr
    /\ stage \in Inside => known = account

\* Who is past that question has typed the name; a blank account is a cut.
LockInv ==
    /\ stage \in Inside \cup {"password"} => account.usr \in Words
    /\ volume = "myext2" /\ account = Blank /\ stage \notin Creating => cut

SessionInv ==
    /\ stage \in Creating \cup Inside \cup {"off", "user", "password"}
    /\ WordsInv
    /\ CopyInv
    /\ LockInv

(* The record a crash leaves is no account a user can name.                *)
LEMMA BlankIsNoAccount == Blank \in Accounts /\ Blank.usr = "" /\ "" \notin Words
BY SessionAssumption DEF Blank, Accounts, SessionAssumption

(* Before the program was ever started.                                    *)
LEMMA SessionInitially == SessionInit => SessionInv
BY BlankIsNoAccount DEF SessionInit, NotRunning, SessionInv, WordsInv, CopyInv, LockInv,
       Inside, Creating

(* The end of the program, with the disk as it is or cut short. *)
LEMMA OffKeeps ==
    ASSUME SessionInv, Off, account' \in Accounts,
           volume' = "myext2" /\ account' = Blank => cut'
    PROVE  SessionInv'
BY BlankIsNoAccount DEF Off, SessionInv, WordsInv, CopyInv, LockInv, Inside, Creating

(* fclose of a null stream, or a kill, while no account is being made.     *)
LEMMA DiesKeeps ==
    ASSUME SessionInv, Dies, stage \notin Creating
    PROVE  SessionInv'
<1>1. Off /\ volume' = volume /\ account' = account /\ cut' = cut
    BY DEF Dies, disk
<1>2. account' \in Accounts /\ (volume' = "myext2" /\ account' = Blank => cut')
    BY <1>1 DEF SessionInv, WordsInv, LockInv
<1> QED BY <1>1, <1>2, OffKeeps

(* create_disk and format write a new disk, with the account.              *)
LEMMA CreateDiskKeeps ==
    ASSUME SessionInv, NEW open, NEW byFormat, CreateDisk(open, byFormat)
    PROVE  SessionInv'
<1>1. CASE Off /\ account' = Blank /\ cut' = TRUE
    BY <1>1, BlankIsNoAccount, OffKeeps
<1>2. CASE stage' = "new user" /\ account' = Blank /\ gdt' = Blank /\ usrname' = ""
    BY <1>2, BlankIsNoAccount
       DEF SessionInv, WordsInv, CopyInv, LockInv, Inside, Creating
<1> QED BY <1>1, <1>2 DEF CreateDisk

(* The questions of initialize_disk. *)
LEMMA CreatePasswordKeeps ==
    ASSUME SessionInv, NEW w \in Words, CreatePassword(w)
    PROVE  SessionInv'
<1>0. stage = "new password" /\ usrname \in Words
    BY DEF CreatePassword, SessionInv, WordsInv
<1>1. CASE Off /\ cut' = TRUE /\ UNCHANGED <<volume, account>>
    <2>1. account' \in Accounts
        BY <1>1 DEF SessionInv, WordsInv
    <2> QED BY <1>1, <2>1, OffKeeps
<1>2. CASE account' = [usr |-> usrname, pwd |-> w] /\ gdt' = account' /\ usrname' = ""
           /\ \/ stage' = "user"
              \/ stage' = "prompt" /\ known' = account'
    <2>1. account' \in Accounts /\ (account').usr \in Words /\ account' # Blank
        <3>1. account' = [usr |-> usrname, pwd |-> w] /\ (account').usr = usrname
            BY <1>2
        <3>2. account' \in Accounts
            BY <1>0, <3>1 DEF Accounts
        <3> QED BY <1>0, <3>1, <3>2, BlankIsNoAccount, Zenon
    <2>2. WordsInv' /\ CopyInv'
        BY <1>2, <2>1 DEF WordsInv, CopyInv, Inside
    <2>3. LockInv'
        BY <1>2, <2>1 DEF LockInv
    <2> QED BY <1>2, <2>2, <2>3 DEF SessionInv, Inside
<1> QED BY <1>1, <1>2 DEF CreatePassword

(* login: the name, then the password. *)
LEMMA PasswordKeeps ==
    ASSUME SessionInv, NEW w \in Words, Password(w)
    PROVE  SessionInv'
<1>1. CASE Dies
    BY <1>1, DiesKeeps DEF Password, Creating
<1>2. CASE w = gdt.pwd /\ known' = [usr |-> usrname, pwd |-> w] /\ usrname' = ""
           /\ stage' = "prompt" /\ UNCHANGED <<disk, gdt>>
    <2>1. stage = "password"
        BY DEF Password
    <2>2. gdt = account /\ usrname = account.usr /\ account \in Accounts
          /\ account.usr \in Words
        BY <2>1 DEF SessionInv, WordsInv, CopyInv, LockInv
    <2>3. known' = account
        BY <1>2, <2>2 DEF Accounts
    <2> QED BY <1>2, <2>1, <2>2, <2>3, BlankIsNoAccount
            DEF SessionInv, WordsInv, CopyInv, LockInv, Inside, Creating, disk
<1> QED BY <1>1, <1>2 DEF Password

(* pwd: the change of the password. *)
LEMMA ChangedPasswordKeeps ==
    ASSUME SessionInv, NEW w \in Words, ChangedPassword(w)
    PROVE  SessionInv'
<1>0. stage = "changed password" /\ stage \notin Creating
    BY DEF ChangedPassword, Creating
<1>1. CASE Dies
    BY <1>0, <1>1, DiesKeeps
<1>2. CASE gdt' = [gdt EXCEPT !.pwd = w] /\ account' = gdt' /\ known' = gdt'
           /\ stage' = "prompt" /\ usrname' = usrname
    <2>1. gdt \in Accounts /\ gdt = account /\ account.usr \in Words
        BY <1>0 DEF SessionInv, WordsInv, CopyInv, LockInv, Inside
    <2>2. account' \in Accounts /\ (account').usr \in Words /\ account' # Blank
        BY <1>2, <2>1, BlankIsNoAccount DEF Accounts
    <2> QED BY <1>2, <2>2 DEF SessionInv, WordsInv, CopyInv, LockInv, Inside, Creating
<1> QED BY <1>1, <1>2 DEF ChangedPassword

(* The commands login and pwd read the descriptor again. *)
LEMMA ReloadKeeps ==
    ASSUME SessionInv, stage = "prompt", NEW next \in {"user", "old password"}, Reload(next)
    PROVE  SessionInv'
<1>1. CASE Dies
    BY <1>1, DiesKeeps DEF Creating
<1>2. CASE /\ gdt' = IF fp = "open" THEN account ELSE gdt
           /\ stage' = next /\ usrname' = ""
           /\ known' = IF next = "user" THEN Blank ELSE known
           /\ UNCHANGED disk
    BY <1>2 DEF SessionInv, WordsInv, CopyInv, LockInv, Inside, Creating, disk
<1> QED BY <1>1, <1>2 DEF Reload

(* A step of the session. *)
LEMMA SessionStep == SessionInv /\ [SessionNext]_sessionVars => SessionInv'
<1> SUFFICES ASSUME SessionInv, [SessionNext]_sessionVars PROVE SessionInv'
    OBVIOUS
<1>1. CASE UNCHANGED sessionVars
    BY <1>1 DEF sessionVars, SessionInv, WordsInv, CopyInv, LockInv
<1>2. CASE Start
    <2>1. CASE CreateDisk(0, FALSE)
        BY <2>1, CreateDiskKeeps
    <2>2. CASE /\ stage = "off" /\ gdt' = account /\ stage' = "user"
               /\ UNCHANGED <<disk, usrname>>
        BY <2>2 DEF SessionInv, WordsInv, CopyInv, LockInv, Inside, Creating, disk
    <2> QED BY <1>2, <2>1, <2>2 DEF Start
<1>3. CASE Login
    BY <1>3, ReloadKeeps DEF Login
<1>4. CASE NewPassword
    BY <1>4, ReloadKeeps DEF NewPassword
<1>5. CASE Update
    <2>1. CASE Dies
        BY <1>5, <2>1, DiesKeeps DEF Update, Creating
    <2>2. CASE UNCHANGED <<disk, gdt, stage, usrname, known>>
        BY <2>2 DEF SessionInv, WordsInv, CopyInv, LockInv, disk
    <2> QED BY <1>5, <2>1, <2>2 DEF Update
<1>6. CASE Format
    <2>1. CASE Dies
        BY <1>6, <2>1, DiesKeeps DEF Format, Creating
    <2> QED BY <1>6, <2>1, CreateDiskKeeps DEF Format
<1>7. CASE Leave
    <2>1. Off /\ UNCHANGED <<volume, account>> /\ cut' = (cut \/ stage \in Creating)
        BY <1>7 DEF Leave
    <2>2. account' \in Accounts /\ (volume' = "myext2" /\ account' = Blank => cut')
        BY <2>1 DEF SessionInv, WordsInv, LockInv
    <2> QED BY <2>1, <2>2, OffKeeps
<1>8. CASE Remove
    BY <1>8, BlankIsNoAccount
       DEF Remove, SessionInv, WordsInv, CopyInv, LockInv, Inside, Creating
<1>9. ASSUME NEW w \in Words, CreateUser(w) PROVE SessionInv'
    BY <1>9 DEF CreateUser, SessionInv, WordsInv, CopyInv, LockInv, Inside, Creating, disk
<1>10. ASSUME NEW w \in Words, User(w) PROVE SessionInv'
    <2>1. CASE Dies
        BY <1>10, <2>1, DiesKeeps DEF User, Creating
    <2>2. CASE w = gdt.usr /\ usrname' = w /\ stage' = "password"
               /\ UNCHANGED <<disk, gdt>>
        BY <1>10, <2>2
           DEF User, SessionInv, WordsInv, CopyInv, LockInv, Inside, Creating, disk
    <2> QED BY <1>10, <2>1, <2>2 DEF User
<1>11. ASSUME NEW w \in Words, OldPassword(w) PROVE SessionInv'
    BY <1>11 DEF OldPassword, SessionInv, WordsInv, CopyInv, LockInv, Inside, Creating, disk
<1> QED
    BY <1>1, <1>2, <1>3, <1>4, <1>5, <1>6, <1>7, <1>8, <1>9, <1>10, <1>11,
       CreatePasswordKeeps, PasswordKeeps, ChangedPasswordKeeps DEF SessionNext

(* Hence SessionInv holds in every behaviour. *)
LEMMA SessionInvariant == SessionSpec => []SessionInv
BY SessionInitially, SessionStep, PTL DEF SessionSpec
-----------------------------------------------------------------------------
(* Whoever is at the prompt or in pwd has typed the account on the disk,   *)
(* and the copy in memory is that account, for any words and streams.      *)
THEOREM PromptKnowsAccount == SessionSpec => []KnowsAccount
<1>1. SessionInv => KnowsAccount
    BY DEF SessionInv, CopyInv, KnowsAccount
<1> QED BY SessionInvariant, <1>1, PTL

(* A disk that has a volume name and no account was cut short while it was *)
(* created, and nobody gets past the question for the name.                *)
THEOREM LockoutIsACut == SessionSpec => []LockoutNeedsACut
<1>1. SessionInv => LockoutNeedsACut
    BY BlankIsNoAccount
       DEF SessionInv, LockInv, LockoutNeedsACut, Inside, Creating
<1> QED BY SessionInvariant, <1>1, PTL
-----------------------------------------------------------------------------
\* The types, and the streams: an open one is counted, and where there is a
\* disk of the program there was a stream to write it.
Texts ==
    /\ volume \in {"none", "other", "myext2"}
    /\ account \in Accounts /\ gdt \in Accounts /\ known \in Accounts
    /\ fp \in {"null", "open", "closed"}
    /\ stage \in Creating \cup Inside \cup {"off", "user", "password"}
    /\ usrname \in Words \cup {""}

Streams ==
    /\ streams \in 0 .. StreamLimit
    /\ volume = "myext2" => StreamLimit >= 1
    /\ fp = "open" => streams >= 1

SessionTypes == Texts /\ Streams

Flags == formatting \in BOOLEAN /\ cut \in BOOLEAN

(* The number of streams is bounded by a natural number.                   *)
LEMMA LimitIsNat == StreamLimit \in Nat
BY SessionAssumption, Zenon DEF SessionAssumption

(* The types hold before the first start.                                  *)
LEMMA TypesInitially == SessionInit => SessionTypes
<1> SUFFICES ASSUME SessionInit PROVE SessionTypes
    OBVIOUS
<1>1. Texts
    BY BlankIsNoAccount DEF SessionInit, NotRunning, Texts
<1>2. streams = 0 /\ fp = "null" /\ volume # "myext2"
    BY DEF SessionInit, NotRunning
<1> QED BY <1>1, <1>2, LimitIsNat DEF SessionTypes, Streams

(* What happens to the streams: nothing, the end, or one more. *)
LEMMA StreamsSame == Streams /\ UNCHANGED <<streams, fp, volume>> => Streams'
BY DEF Streams

(* One more stream is opened.                                              *)
LEMMA StreamsMore ==
    ASSUME Streams, streams < StreamLimit, streams' = streams + 1, volume' = volume
    PROVE  Streams'
BY LimitIsNat DEF Streams

(* The end of the program, in memory. *)
LEMMA OffTypes ==
    ASSUME Off, account' \in Accounts,
           volume' \in {"none", "other", "myext2"}, volume' = "myext2" => StreamLimit >= 1
    PROVE  SessionTypes'
<1>1. Texts'
    BY BlankIsNoAccount DEF Off, Texts
<1>2. streams' = 0 /\ fp' = "null"
    BY DEF Off
<1> QED BY <1>1, <1>2, LimitIsNat DEF SessionTypes, Streams

(* The program ends and its streams with it.                               *)
LEMMA DiesTypes == SessionTypes /\ Dies => SessionTypes'
<1> SUFFICES ASSUME SessionTypes, Dies PROVE SessionTypes'
    OBVIOUS
<1>1. Off /\ volume' = volume /\ account' = account
    BY DEF Dies, disk
<1>2. volume \in {"none", "other", "myext2"} /\ account \in Accounts
    BY DEF SessionTypes, Texts
<1>3. volume = "myext2" => StreamLimit >= 1
    BY DEF SessionTypes, Streams
<1> QED BY <1>1, <1>2, <1>3, OffTypes

(* initialize_disk opens a stream for each update. *)
LEMMA CreateDiskTypes ==
    ASSUME NEW open \in Nat, NEW byFormat, CreateDisk(open, byFormat)
    PROVE  SessionTypes'
<1>1. CASE Off /\ volume' = "none" /\ account' = Blank
    BY <1>1, BlankIsNoAccount, OffTypes
<1>2. CASE open + 1 < StreamLimit /\ Off /\ volume' = "myext2" /\ account' = Blank
  <2>1. StreamLimit >= 1
      BY <1>2, LimitIsNat
  <2> QED BY <1>2, <2>1, BlankIsNoAccount, OffTypes
<1>3. CASE /\ open + 1 + FirstUpdates <= StreamLimit
           /\ volume' = "myext2" /\ account' = Blank /\ gdt' = Blank
           /\ fp' = "open" /\ streams' = open + 1 + FirstUpdates /\ stage' = "new user"
           /\ usrname' = "" /\ known' = Blank
  <2>1. Texts'
      BY <1>3, BlankIsNoAccount DEF Texts, Creating
  <2>2. /\ open + 1 + FirstUpdates <= StreamLimit
        /\ streams' = open + 1 + FirstUpdates
      BY <1>3
  <2>3. Streams'
      BY <2>2, LimitIsNat DEF Streams, FirstUpdates
  <2> QED BY <2>1, <2>3 DEF SessionTypes
<1> QED BY <1>1, <1>2, <1>3 DEF CreateDisk

(* The actions that take a word. *)
LEMMA WordTypes ==
    ASSUME SessionTypes, NEW w \in Words,
           CreateUser(w) \/ CreatePassword(w) \/ User(w) \/ Password(w)
           \/ OldPassword(w) \/ ChangedPassword(w)
    PROVE  SessionTypes'
<1> USE DEF SessionTypes
<1>1. CASE CreateUser(w)
  <2>1. Texts'
      BY <1>1 DEF CreateUser, disk, Texts, Creating
  <2> QED BY <1>1, <2>1, StreamsSame DEF CreateUser, disk
<1>2. CASE CreatePassword(w)
  <2>1. CASE Off /\ UNCHANGED <<volume, account>>
    <3>1. volume \in {"none", "other", "myext2"} /\ account \in Accounts
        BY DEF Texts
    <3>2. volume = "myext2" => StreamLimit >= 1
        BY DEF Streams
    <3> QED BY <2>1, <3>1, <3>2, OffTypes
  <2>2. CASE /\ account' = [usr |-> usrname, pwd |-> w] /\ gdt' = account' /\ usrname' = ""
             /\ \/ fp' = "open" /\ stage' = "user" /\ streams' = streams + 1 /\ known' = Blank
                \/ fp' = "closed" /\ stage' = "prompt" /\ streams' = streams /\ known' = account'
             /\ streams < StreamLimit /\ volume' = volume
    <3>1. account' \in Accounts
        BY <2>2 DEF Accounts, Texts
    <3>2. Texts'
        BY <2>2, <3>1, BlankIsNoAccount DEF Texts, Inside
    <3>3. \/ streams' = streams + 1
          \/ fp' = "closed" /\ streams' = streams
        BY <2>2
    <3>4. streams < StreamLimit /\ volume' = volume
        BY <2>2
    <3>5. Streams'
        BY <3>3, <3>4, StreamsMore DEF Streams
    <3> QED BY <3>2, <3>5
  <2> QED BY <1>2, <2>1, <2>2 DEF CreatePassword
<1>3. CASE User(w)
  <2>1. CASE Dies
      BY <2>1, DiesTypes
  <2>2. CASE usrname' = w /\ stage' = "password" /\ UNCHANGED <<disk, gdt, fp, streams, formatting, known>>
    <3>1. Texts'
        BY <2>2 DEF disk, Texts
    <3> QED BY <2>2, <3>1, StreamsSame DEF disk
  <2> QED BY <1>3, <2>1, <2>2 DEF User
<1>4. CASE Password(w)
  <2>1. CASE Dies
      BY <2>1, DiesTypes
  <2>2. CASE /\ known' = [usr |-> usrname, pwd |-> w] /\ usrname' = "" /\ stage' = "prompt"
             /\ UNCHANGED <<disk, gdt, fp, streams, formatting>>
    <3>1. known' \in Accounts
        BY <2>2 DEF Accounts, Texts
    <3>2. Texts'
        BY <2>2, <3>1 DEF disk, Texts, Inside
    <3> QED BY <2>2, <3>2, StreamsSame DEF disk
  <2> QED BY <1>4, <2>1, <2>2 DEF Password
<1>5. CASE OldPassword(w)
  <2>1. Texts'
      BY <1>5 DEF OldPassword, disk, Texts, Inside
  <2> QED BY <1>5, <2>1, StreamsSame DEF OldPassword, disk
<1>6. CASE ChangedPassword(w)
  <2>1. CASE Dies
      BY <2>1, DiesTypes
  <2>2. CASE /\ gdt' = [gdt EXCEPT !.pwd = w] /\ account' = gdt' /\ known' = gdt'
             /\ fp' = "open" /\ stage' = "prompt" /\ usrname' = usrname
             /\ streams < StreamLimit /\ streams' = streams + 1 /\ volume' = volume
    <3>1. gdt' \in Accounts
        BY <2>2 DEF Accounts, Texts
    <3>2. Texts'
        BY <2>2, <3>1 DEF Texts, Inside
    <3> QED BY <2>2, <3>2, StreamsMore
  <2> QED BY <1>6, <2>1, <2>2 DEF ChangedPassword
<1> QED BY <1>1, <1>2, <1>3, <1>4, <1>5, <1>6

(* The actions without a word. *)
LEMMA OtherTypes ==
    ASSUME SessionTypes, Start \/ Login \/ NewPassword \/ Update \/ Format \/ Leave \/ Remove
    PROVE  SessionTypes'
<1>1. CASE Start
  <2>1. CASE CreateDisk(0, FALSE)
      BY <2>1, CreateDiskTypes
  <2>2. CASE /\ volume = "myext2" /\ gdt' = account /\ fp' = "open" /\ streams' = 1
             /\ stage' = "user" /\ UNCHANGED <<disk, formatting, usrname, known>>
    <3>1. Texts'
        BY <2>2 DEF disk, SessionTypes, Texts
    <3>2. volume = "myext2" /\ volume' = volume /\ streams' = 1
        BY <2>2 DEF disk
    <3>3. Streams'
        BY <3>2, LimitIsNat DEF SessionTypes, Streams
    <3> QED BY <3>1, <3>3 DEF SessionTypes
  <2> QED BY <1>1, <2>1, <2>2 DEF Start
<1>2. ASSUME NEW next \in {"user", "old password"}, Reload(next) PROVE SessionTypes'
  <2>1. CASE Dies
      BY <2>1, DiesTypes
  <2>2. CASE /\ gdt' = IF fp = "open" THEN account ELSE gdt
             /\ stage' = next /\ usrname' = ""
             /\ known' = IF next = "user" THEN Blank ELSE known
             /\ UNCHANGED <<disk, fp, streams, formatting>>
    <3>1. Texts'
        BY <2>2, <1>2, BlankIsNoAccount DEF disk, SessionTypes, Texts, Inside
    <3> QED BY <2>2, <3>1, StreamsSame DEF disk, SessionTypes
  <2> QED BY <1>2, <2>1, <2>2 DEF Reload
<1>3. CASE Update
  <2>1. CASE Dies
      BY <2>1, DiesTypes
  <2>2. CASE /\ streams < StreamLimit /\ fp' = "open" /\ streams' = streams + 1
             /\ UNCHANGED <<disk, gdt, stage, formatting, usrname, known>>
    <3>1. Texts'
        BY <2>2 DEF disk, SessionTypes, Texts
    <3> QED BY <2>2, <3>1, StreamsMore DEF disk, SessionTypes
  <2> QED BY <1>3, <2>1, <2>2 DEF Update
<1>4. CASE Format
  <2>1. CASE Dies
      BY <2>1, DiesTypes
  <2>2. CASE CreateDisk(IF fp = "open" THEN streams - 1 ELSE streams, TRUE)
    <3>1. (IF fp = "open" THEN streams - 1 ELSE streams) \in Nat
        BY LimitIsNat DEF SessionTypes, Streams
    <3> QED BY <2>2, <3>1, CreateDiskTypes
  <2> QED BY <1>4, <2>1, <2>2 DEF Format
<1>5. CASE Leave
  <2>1. Off /\ volume' = volume /\ account' = account
      BY <1>5 DEF Leave
  <2>2. volume \in {"none", "other", "myext2"} /\ account \in Accounts
      BY DEF SessionTypes, Texts
  <2>3. volume = "myext2" => StreamLimit >= 1
      BY DEF SessionTypes, Streams
  <2> QED BY <2>1, <2>2, <2>3, OffTypes
<1>6. CASE Remove
  <2>1. Texts'
      BY <1>6, BlankIsNoAccount DEF Remove, SessionTypes, Texts
  <2>2. volume' = "none" /\ streams' = streams /\ fp' = fp
      BY <1>6 DEF Remove
  <2>3. Streams'
      BY <2>2 DEF SessionTypes, Streams
  <2> QED BY <2>1, <2>3 DEF SessionTypes
<1> QED BY <1>1, <1>2, <1>3, <1>4, <1>5, <1>6 DEF Login, NewPassword

(* The two flags of the session are set and cleared, and nothing else. *)
LEMMA FlagsStep == Flags /\ SessionNext => Flags'
<1> SUFFICES ASSUME Flags, SessionNext PROVE Flags'
    OBVIOUS
<1>1. ASSUME Off, cut' \in BOOLEAN PROVE Flags'
    BY <1>1, Zenon DEF Off, Flags
<1>2. Dies => Flags'
    BY <1>1 DEF Dies, disk, Flags
<1>3. ASSUME NEW open, NEW byFormat \in BOOLEAN, CreateDisk(open, byFormat) PROVE Flags'
    BY <1>1, <1>3 DEF CreateDisk, Flags
<1>4. \A next : Reload(next) => Flags'
    BY <1>2 DEF Reload, disk, Flags
<1>5. Start \/ Format => Flags'
    BY <1>2, <1>3 DEF Start, Format, disk, Flags
<1>6. Login \/ NewPassword \/ Update => Flags'
    BY <1>2, <1>4 DEF Login, NewPassword, Update, disk, Flags
<1>7. Leave => Flags'
    BY <1>1 DEF Leave, Flags
<1>8. Remove => Flags'
    BY DEF Remove, Flags
<1>9. ASSUME NEW w \in Words PROVE CreatePassword(w) => Flags'
    BY <1>1 DEF CreatePassword, Flags
<1>10. ASSUME NEW w \in Words
       PROVE  CreateUser(w) \/ User(w) \/ Password(w) \/ OldPassword(w) \/ ChangedPassword(w) => Flags'
    BY <1>2 DEF CreateUser, User, Password, OldPassword, ChangedPassword, disk, Flags
<1> QED BY <1>5, <1>6, <1>7, <1>8, <1>9, <1>10 DEF SessionNext

(* Every step of the session keeps the types and the flags.                *)
LEMMA TypesStep == SessionTypes /\ Flags /\ [SessionNext]_sessionVars => SessionTypes' /\ Flags'
<1>1. SessionTypes /\ Flags /\ UNCHANGED sessionVars => SessionTypes' /\ Flags'
  <2> SUFFICES ASSUME SessionTypes, Flags, UNCHANGED sessionVars PROVE SessionTypes' /\ Flags'
      OBVIOUS
  <2>1. Texts' /\ Flags'
      BY DEF sessionVars, SessionTypes, Texts, Flags
  <2> QED BY <2>1, StreamsSame DEF sessionVars, SessionTypes
<1>2. SessionTypes /\ SessionNext => SessionTypes'
    BY WordTypes, OtherTypes DEF SessionNext
<1> QED BY <1>1, <1>2, FlagsStep

(* They are what SessionTypeOK says.                                       *)
LEMMA SessionTypesHold == SessionTypes /\ Flags => SessionTypeOK
BY DEF SessionTypes, Texts, Streams, Flags, SessionTypeOK
-----------------------------------------------------------------------------
(* pagefifo.c of Lab 2.                                                    *)

\* The first m frames are used and the others as init() left them; repos
\* moves only when all are used.
Filled(m) ==
    /\ \A k \in 1 .. Len(frames) :
          /\ k <= m => frames[k].status = 1
          /\ k > m => frames[k].status = 0 /\ frames[k].num = 0
    /\ m < Len(frames) => repos = 0

FifoInv ==
    /\ FifoTypeOK
    /\ \E m \in 0 .. Len(frames) : Filled(m)

(* A position that goes past the end of the chain comes back once. *)
LEMMA Wrap ==
    ASSUME NEW n \in Nat \ {0}, NEW a \in 0 .. 2 * n - 1
    PROVE  (a < n => a % n = a) /\ (a >= n => a % n = a - n)
OBVIOUS

(* Sequences of equal length and equal elements are equal.                 *)
LEMMA SameSeq ==
    ASSUME NEW S, NEW s \in Seq(S), NEW t \in Seq(S), Len(s) = Len(t),
           \A k \in 1 .. Len(s) : s[k] = t[k]
    PROVE  s = t
OBVIOUS

(* The types that the rest of the module uses. *)
LEMMA FifoFacts ==
    ASSUME FifoTypeOK
    PROVE  /\ Len(frames) \in Nat \ {0}
           /\ DOMAIN frames = 1 .. Len(frames)
           /\ \A k \in 1 .. Len(frames) :
                 /\ frames[k] \in [num : Pages, status : {0, 1}]
                 /\ frames[k].num \in Pages /\ frames[k].status \in {0, 1}
           /\ repos \in 0 .. Len(frames) - 1
           /\ missingcount \in Nat
<1>1. Len(frames) \in Nat \ {0}
    BY PagingAssumption DEF FifoTypeOK, PagingAssumption
<1>2. /\ DOMAIN frames = 1 .. Len(frames)
      /\ \A k \in 1 .. Len(frames) : frames[k] \in [num : Pages, status : {0, 1}]
    <2> DEFINE Frames == [num : Pages, status : {0, 1}]
    <2>1. frames \in Seq(Frames)
        BY DEF FifoTypeOK
    <2>2. \A k \in 1 .. Len(frames) : frames[k] \in Frames
        <3> HIDE DEF Frames
        <3> QED BY <2>1
    <2> QED BY <2>1, <2>2
<1>3. missingcount \in Nat
    BY PagingAssumption DEF FifoTypeOK, PagingAssumption
<1>4. repos \in 0 .. Len(frames) - 1
    BY DEF FifoTypeOK
<1> QED BY <1>1, <1>2, <1>3, <1>4

(* The frames fill from the front.                                         *)
LEMMA UsedFrames ==
    ASSUME FifoTypeOK, NEW m \in 0 .. Len(frames), Filled(m)
    PROVE  /\ FramesUsed = m
           /\ Unused = m + 1 .. Len(frames)
<1>1. Unused = m + 1 .. Len(frames)
    BY FifoFacts DEF Unused, Filled
<1>2. DOMAIN frames \ Unused = 1 .. m
    BY <1>1, FifoFacts
<1>3. Cardinality(1 .. m) = m
    BY FS_Interval
<1> QED BY <1>1, <1>2, <1>3 DEF FramesUsed

(* find_free returns the first one that was never used.                    *)
LEMMA FirstUnused ==
    ASSUME FifoTypeOK, NEW m \in 0 .. Len(frames) - 1, Filled(m)
    PROVE  find_free = m + 1
<1>1. Unused = m + 1 .. Len(frames)
    BY UsedFrames, FifoFacts
<1>2. m + 1 \in Unused /\ \A other \in Unused : m + 1 <= other
    BY <1>1, FifoFacts
<1>3. \A k \in Unused : (\A other \in Unused : k <= other) => k = m + 1
    BY <1>1, <1>2, FifoFacts
<1> QED BY <1>2, <1>3 DEF find_free
-----------------------------------------------------------------------------
(* One reference: what is in the frames before and after it. *)
LEMMA FillStep ==
    ASSUME FifoTypeOK, NEW m \in 0 .. Len(frames), Filled(m), NEW p \in Pages,
           Unused # {},
           frames' = [frames EXCEPT ![find_free] = [num |-> p, status |-> 1]],
           UNCHANGED repos
    PROVE  /\ m < Len(frames)
           /\ Len(frames') = Len(frames)
           /\ frames' \in Seq([num : Pages, status : {0, 1}])
           /\ Filled(m + 1)'
<1>1. m < Len(frames) /\ find_free = m + 1
    BY UsedFrames, FirstUnused, FifoFacts
<1>2. /\ frames' \in Seq([num : Pages, status : {0, 1}])
      /\ Len(frames') = Len(frames)
      /\ frames'[m + 1] = [num |-> p, status |-> 1]
      /\ \A k \in 1 .. Len(frames) : k # m + 1 => frames'[k] = frames[k]
    BY <1>1, FifoFacts DEF FifoTypeOK
<1> QED BY <1>1, <1>2, FifoFacts DEF Filled

(* replace writes the frame at repos and moves repos on, around the end.   *)
LEMMA ReplaceStep ==
    ASSUME FifoTypeOK, NEW m \in 0 .. Len(frames), Filled(m), NEW p \in Pages,
           Unused = {}, replace(p)
    PROVE  /\ m = Len(frames)
           /\ Len(frames') = Len(frames)
           /\ frames' \in Seq([num : Pages, status : {0, 1}])
           /\ frames'[repos + 1].num = p
           /\ \A k \in 1 .. Len(frames) : k # repos + 1 => frames'[k] = frames[k]
           /\ repos' = IF repos + 1 = Len(frames) THEN 0 ELSE repos + 1
           /\ divided' \in BOOLEAN
           /\ Filled(m)'
<1>1. m = Len(frames)
    <2>1. Len(frames) \in Nat
        BY FifoFacts
    <2>2. m + 1 \in m + 1 .. Len(frames) => m + 1 \in Unused
        BY UsedFrames
    <2>3. ~ (m + 1 <= Len(frames))
        BY <2>1, <2>2
    <2> QED BY <2>1, <2>3
<1>2. /\ Len(frames') = Len(frames)
      /\ frames' \in Seq([num : Pages, status : {0, 1}])
      /\ frames'[repos + 1].num = p
      /\ frames'[repos + 1].status = frames[repos + 1].status
      /\ \A k \in 1 .. Len(frames) : k # repos + 1 => frames'[k] = frames[k]
    <2> DEFINE frame == [frames[repos + 1] EXCEPT !.num = p]
    <2>1. frames' = [frames EXCEPT ![repos + 1] = frame]
        BY DEF replace
    <2>2. repos + 1 \in 1 .. Len(frames)
        BY FifoFacts
    <2>3. /\ frame \in [num : Pages, status : {0, 1}]
          /\ frame.num = p /\ frame.status = frames[repos + 1].status
        BY <2>2, FifoFacts
    <2>4. frames \in Seq([num : Pages, status : {0, 1}])
        BY DEF FifoTypeOK
    <2> HIDE DEF frame
    <2> QED BY <2>1, <2>2, <2>3, <2>4, FifoFacts
<1>3. repos' = IF repos + 1 = Len(frames) THEN 0 ELSE repos + 1
    <2>1. CASE blocknum = 0
        BY <2>1 DEF replace, FifoTypeOK
    <2>2. CASE blocknum # 0
        <3>1. Len(frames) = blocknum /\ repos' = (repos + 1) % Len(frames)
            BY <2>2 DEF replace, FifoTypeOK
        <3> DEFINE n == Len(frames)
                   a == repos + 1
        <3>3. n \in Nat \ {0} /\ a \in 0 .. 2 * n - 1 /\ a <= n
            BY FifoFacts
        <3>4. (a < n => a % n = a) /\ (a >= n => a % n = a - n)
            <4> HIDE DEF n, a
            <4> QED BY <3>3, Wrap
        <3>5. repos' = a % n
            BY <3>1
        <3>6. repos' = IF a = n THEN 0 ELSE a
            <4> HIDE DEF n, a
            <4> QED BY <3>3, <3>4, <3>5
        <3> QED BY <3>6
    <2> QED BY <2>1, <2>2
<1>4. divided' \in BOOLEAN
    BY DEF replace, FifoTypeOK
<1>5. Filled(m)'
    BY <1>1, <1>2, FifoFacts DEF Filled
<1> QED BY <1>1, <1>2, <1>3, <1>4, <1>5

(* init(): no frame is used. *)
LEMMA FifoInitially == FifoInit => FifoInv
<1> SUFFICES ASSUME FifoInit PROVE FifoInv
    OBVIOUS
<1> DEFINE n == IF blocknum = 0 THEN 1 ELSE blocknum
           unused == [num |-> 0, status |-> 0]
<1>0. n \in Nat \ {0} /\ frames = [k \in 1 .. n |-> unused]
    BY PagingAssumption DEF FifoInit, PagingAssumption
<1>3. unused \in [num : Pages, status : {0, 1}]
    BY PagingAssumption DEF PagingAssumption
<1>4. frames \in Seq([num : Pages, status : {0, 1}]) /\ Len(frames) = n
    <2> HIDE DEF n, unused
    <2> QED BY <1>0, <1>3
<1>1. FifoTypeOK
    <2>1. blocknum \in 0 .. MaxFrames /\ repos = 0 /\ missingcount = 0
          /\ left = References /\ divided = FALSE
        BY DEF FifoInit
    <2>2. 0 \in 0 .. Len(frames) - 1 /\ 0 \in 0 .. References - References
          /\ References \in 0 .. References
        BY <1>0, <1>4, PagingAssumption DEF PagingAssumption
    <2> QED BY <2>1, <2>2, <1>4 DEF FifoTypeOK
<1>2. Filled(0)
    BY PagingAssumption DEF FifoInit, Filled, PagingAssumption
<1> QED BY <1>1, <1>2, FifoFacts DEF FifoInv

(* A reference uses one frame more, or none. *)
LEMMA FifoStep == FifoInv /\ [FifoNext]_fifoVars => FifoInv'
<1> SUFFICES ASSUME FifoInv, [FifoNext]_fifoVars PROVE FifoInv'
    OBVIOUS
<1> PICK m \in 0 .. Len(frames) : Filled(m)
    BY DEF FifoInv
<1> USE DEF FifoInv
<1>1. CASE UNCHANGED fifoVars
    BY <1>1 DEF fifoVars, FifoTypeOK, Filled
<1>2. ASSUME NEW p \in Pages, Simulate(p) PROVE FifoInv'
    <2>1. CASE search(p)
        <3>1. /\ UNCHANGED <<blocknum, frames, repos, missingcount, divided>>
              /\ left > 0 /\ left' = left - 1
            BY <1>2, <2>1 DEF Simulate
        <3>2. FifoTypeOK'
            <4>1. left' \in 0 .. References /\ missingcount \in 0 .. References - left'
                BY <3>1, PagingAssumption DEF FifoTypeOK, PagingAssumption
            <4> QED BY <3>1, <4>1 DEF FifoTypeOK
        <3>3. Filled(m)'
            BY <3>1 DEF Filled
        <3> QED BY <3>1, <3>2, <3>3
    <2>2. CASE ~search(p) /\ Unused # {}
        <3>1. /\ Len(frames') = Len(frames) /\ m + 1 \in 0 .. Len(frames)
              /\ frames' \in Seq([num : Pages, status : {0, 1}])
              /\ Filled(m + 1)'
            <4>1. /\ frames' = [frames EXCEPT ![find_free] = [num |-> p, status |-> 1]]
                  /\ UNCHANGED repos
                BY <1>2, <2>2 DEF Simulate
            <4>2. /\ m < Len(frames)
                  /\ Len(frames') = Len(frames)
                  /\ frames' \in Seq([num : Pages, status : {0, 1}])
                  /\ Filled(m + 1)'
                BY <2>2, <4>1, FillStep, Zenon
            <4> QED BY <4>2, FifoFacts
        <3>2. FifoTypeOK'
            <4>1. /\ UNCHANGED <<blocknum, repos, divided>>
                  /\ missingcount' = missingcount + 1
                  /\ left > 0 /\ left' = left - 1
                BY <1>2, <2>2 DEF Simulate
            <4> QED
                BY <3>1, <4>1, PagingAssumption DEF FifoTypeOK, PagingAssumption
        <3> QED BY <3>1, <3>2
    <2>3. CASE ~search(p) /\ Unused = {}
        <3>0. replace(p)
            BY <1>2, <2>3 DEF Simulate
        <3>1. /\ Len(frames') = Len(frames)
              /\ frames' \in Seq([num : Pages, status : {0, 1}])
              /\ repos' = IF repos + 1 = Len(frames) THEN 0 ELSE repos + 1
              /\ divided' \in BOOLEAN
              /\ Filled(m)'
            BY <2>3, <3>0, ReplaceStep
        <3>2. FifoTypeOK'
            <4>1. /\ UNCHANGED blocknum
                  /\ missingcount' = missingcount + 1
                  /\ left > 0 /\ left' = left - 1
                BY <1>2, <2>3 DEF Simulate
            <4>2. repos' \in 0 .. Len(frames) - 1
                BY <3>1, FifoFacts
            <4> QED
                BY <3>1, <4>1, <4>2, PagingAssumption DEF FifoTypeOK, PagingAssumption
        <3> QED BY <3>1, <3>2
    <2> QED BY <2>1, <2>2, <2>3
<1> QED BY <1>1, <1>2 DEF FifoNext

(* Hence FifoInv holds in every behaviour. *)
LEMMA FifoInvariant == FifoSpec => []FifoInv
BY FifoInitially, FifoStep, PTL DEF FifoSpec
-----------------------------------------------------------------------------
(* The queue of pages, read from the frames from repos on.                 *)
LEMMA ResidentFacts ==
    ASSUME FifoTypeOK, NEW m \in 0 .. Len(frames), Filled(m)
    PROVE  /\ ResidentPages = [k \in 1 .. m |->
                   frames[((repos + k - 1) % Len(frames)) + 1].num]
           /\ \A k \in 1 .. m :
                 ResidentPages[k] =
                     IF repos + k <= Len(frames) THEN frames[repos + k].num
                                                 ELSE frames[repos + k - Len(frames)].num
           /\ ResidentPages \in Seq(Pages)
           /\ Len(ResidentPages) = m
<1> DEFINE n == Len(frames)
           place(k) == IF repos + k <= n THEN repos + k ELSE repos + k - n
<1>1. ResidentPages = [k \in 1 .. m |-> frames[((repos + k - 1) % n) + 1].num]
    BY UsedFrames DEF ResidentPages
<1>2. \A k \in 1 .. m : ((repos + k - 1) % n) + 1 = place(k) /\ place(k) \in 1 .. n
    <2> TAKE k \in 1 .. m
    <2> DEFINE a == repos + k - 1
    <2>1. n \in Nat \ {0} /\ a \in 0 .. 2 * n - 1
        BY FifoFacts
    <2>2. (a % n) + 1 = IF a < n THEN a + 1 ELSE a + 1 - n
        <3> HIDE DEF n, a
        <3>1. (a < n => a % n = a) /\ (a >= n => a % n = a - n)
            BY <2>1, Wrap
        <3> QED BY <2>1, <3>1
    <2>3. (a < n <=> repos + k <= n) /\ a + 1 = repos + k
          /\ a + 1 - n = repos + k - n
        BY FifoFacts
    <2>4. (a % n) + 1 = place(k)
        <3> DEFINE r == (a % n) + 1
        <3>1. CASE a < n
            <4>1. r = a + 1 /\ place(k) = repos + k
                BY <2>2, <2>3, <3>1, Zenon
            <4> QED BY <2>3, <4>1, Zenon
        <3>2. CASE ~(a < n)
            <4>1. r = a + 1 - n /\ place(k) = repos + k - n
                BY <2>2, <2>3, <3>2, Zenon
            <4> QED BY <2>3, <4>1, Zenon
        <3> QED BY <3>1, <3>2, Zenon
    <2>5. place(k) \in 1 .. n
        BY FifoFacts
    <2> QED BY <2>4, <2>5
<1>3. \A k \in 1 .. m : ResidentPages[k] = frames[place(k)].num
    BY <1>1, <1>2
<1>4. \A k \in 1 .. m : ResidentPages[k] \in Pages
    BY <1>2, <1>3, FifoFacts
<1>5. ResidentPages \in [1 .. m -> Pages] /\ m \in Nat
    BY <1>1, <1>4, FifoFacts
<1>6. ResidentPages \in Seq(Pages) /\ Len(ResidentPages) = m
    BY <1>5
<1> QED BY <1>1, <1>3, <1>6

\* What ResidentFacts says, as a formula of the state.
ResidentShape ==
    \A m \in 0 .. Len(frames) : Filled(m) =>
        /\ ResidentPages \in Seq(Pages)
        /\ Len(ResidentPages) = m
        /\ \A k \in 1 .. m :
              ResidentPages[k] =
                  IF repos + k <= Len(frames) THEN frames[repos + k].num
                                              ELSE frames[repos + k - Len(frames)].num

(* The queue is well formed in every state.                                *)
LEMMA ShapeHolds == FifoTypeOK => ResidentShape
BY ResidentFacts DEF ResidentShape

(* It is after a step too.                                                 *)
LEMMA ShapeAfter ==
    ASSUME FifoInv'
    PROVE  ResidentShape'
<1>1. FifoTypeOK'
    BY DEF FifoInv
<1> QED BY <1>1, ShapeHolds, PTL

(* A sequence one longer than another, and one shifted by one. *)
LEMMA SeqAppend ==
    ASSUME NEW S, NEW old \in Seq(S), NEW new \in Seq(S), NEW p \in S,
           Len(new) = Len(old) + 1,
           \A k \in 1 .. Len(old) : new[k] = old[k],
           new[Len(old) + 1] = p
    PROVE  new = Append(old, p)
<1>1. Append(old, p) \in Seq(S) /\ Len(Append(old, p)) = Len(new)
    OBVIOUS
<1>2. \A k \in 1 .. Len(new) : new[k] = Append(old, p)[k]
    OBVIOUS
<1> QED BY <1>1, <1>2, SameSeq

(* All moved down by one with p at the end: p replaced the head of the     *)
(* queue.                                                                  *)
LEMMA SeqShift ==
    ASSUME NEW S, NEW old \in Seq(S), NEW new \in Seq(S), NEW p \in S,
           Len(old) > 0, Len(new) = Len(old),
           \A k \in 1 .. Len(old) - 1 : new[k] = old[k + 1],
           new[Len(old)] = p
    PROVE  new = Append(Tail(old), p)
<1>1. /\ Tail(old) \in Seq(S) /\ Len(Tail(old)) = Len(old) - 1
      /\ \A k \in 1 .. Len(old) - 1 : Tail(old)[k] = old[k + 1]
    OBVIOUS
<1> QED BY <1>1, SeqAppend

(* A page that search finds is one the queue has, or 0 in an unused frame; *)
(* a page that it does not find is neither.                                *)
LEMMA SearchIsPresent ==
    ASSUME FifoTypeOK, NEW m \in 0 .. Len(frames), Filled(m), NEW p \in Pages
    PROVE  search(p) <=> Abstract!Present(p)
<1> DEFINE n == Len(frames)
<1>1. n \in Nat \ {0} /\ repos \in 0 .. n - 1 /\ m \in 0 .. n
    BY FifoFacts
<1>2. DOMAIN ResidentPages = 1 .. m /\ Len(ResidentPages) = m
    BY ResidentFacts, FifoFacts
<1>3. ASSUME NEW k \in 1 .. n, frames[k].num = p PROVE Abstract!Present(p)
    <2>1. CASE k > m
        BY <1>2, <1>3, <2>1 DEF Filled, Abstract!Present
    <2>2. CASE k <= m /\ m < n
        <3>1. repos = 0 /\ k \in 1 .. m /\ repos + k <= n
            BY <1>1, <2>2 DEF Filled
        <3>2. ResidentPages[k] = p
            BY <1>1, <1>3, <3>1, ResidentFacts
        <3> QED BY <1>2, <3>1, <3>2 DEF Abstract!Present
    <2>3. CASE m = n
        <3> DEFINE j == IF k > repos THEN k - repos ELSE k - repos + n
        <3>1. /\ j \in 1 .. m
              /\ k = IF repos + j <= n THEN repos + j ELSE repos + j - n
            BY <1>1, <2>3
        <3>2. ResidentPages[j] = p
            <4> HIDE DEF j
            <4> QED BY <1>1, <1>3, <3>1, ResidentFacts
        <3> QED BY <1>2, <3>1, <3>2 DEF Abstract!Present
    <2> QED BY <1>1, <2>1, <2>2, <2>3
<1>4. ASSUME NEW k \in 1 .. m, ResidentPages[k] = p PROVE search(p)
    <2> DEFINE j == IF repos + k <= n THEN repos + k ELSE repos + k - n
    <2>1. j \in 1 .. n
        BY <1>1
    <2>2. frames[j].num = p
        BY <1>4, ResidentFacts
    <2> QED BY <2>1, <2>2, FifoFacts DEF search
<1>5. ASSUME p = 0, m < n PROVE search(p)
    <2>1. m + 1 \in 1 .. n /\ frames[m + 1].num = p
        BY <1>1, <1>5 DEF Filled
    <2> QED BY <2>1, FifoFacts DEF search
<1> QED BY <1>2, <1>3, <1>4, <1>5, FifoFacts DEF search, Abstract!Present
-----------------------------------------------------------------------------
(* Every reference is a hit or a miss of the queue. *)
LEMMA HitIsHit ==
    ASSUME FifoInv, NEW p \in Pages, Simulate(p), search(p)
    PROVE  Abstract!Hit(p)
<1> PICK m \in 0 .. Len(frames) : Filled(m)
    BY DEF FifoInv
<1>1. Abstract!Present(p)
    BY SearchIsPresent DEF FifoInv
<1>2. UNCHANGED <<frames, repos, missingcount>>
    BY DEF Simulate
<1>3. ResidentPages' = ResidentPages /\ Len(frames') = Len(frames)
    BY <1>2 DEF ResidentPages, FramesUsed, Unused
<1> QED BY <1>1, <1>2, <1>3 DEF Abstract!Hit

(* A miss with a frame left enters the queue at its end.                   *)
LEMMA FillIsMiss ==
    ASSUME FifoInv, FifoInv', NEW p \in Pages, Simulate(p), ~search(p), Unused # {}
    PROVE  Abstract!Miss(p)
<1> PICK m \in 0 .. Len(frames) : Filled(m)
    BY DEF FifoInv
<1> DEFINE n == Len(frames)
           old == ResidentPages
           new == ResidentPages'
<1>1. ~Abstract!Present(p)
    BY SearchIsPresent DEF FifoInv
<1>2. /\ frames' = [frames EXCEPT ![find_free] = [num |-> p, status |-> 1]]
      /\ repos' = repos /\ missingcount' = missingcount + 1
    BY DEF Simulate
<1>3. m < n /\ Len(frames') = n /\ Filled(m + 1)'
    BY <1>2, FillStep, Zenon DEF FifoInv
<1>4. find_free = m + 1 /\ repos = 0 /\ m + 1 \in 0 .. n /\ n \in Nat \ {0} /\ m \in Nat
    BY <1>3, FirstUnused, FifoFacts DEF FifoInv, Filled
<1>5. /\ new \in Seq(Pages) /\ Len(new) = m + 1
      /\ \A k \in 1 .. m + 1 : new[k] = frames'[k].num
    <2>1. ResidentShape'
        BY ShapeAfter
    <2>2. /\ new \in Seq(Pages) /\ Len(new) = m + 1
          /\ \A k \in 1 .. m + 1 :
                new[k] = IF repos' + k <= Len(frames') THEN frames'[repos' + k].num
                                                       ELSE frames'[repos' + k - Len(frames')].num
        BY <1>3, <1>4, <2>1 DEF ResidentShape
    <2> HIDE DEF new, n
    <2> QED BY <2>2, <1>2, <1>3, <1>4
<1>6. /\ frames'[m + 1].num = p
      /\ \A k \in 1 .. m : frames'[k] = frames[k]
    <2>1. frames \in Seq([num : Pages, status : {0, 1}])
        BY DEF FifoInv, FifoTypeOK
    <2> QED BY <1>2, <1>3, <1>4, <2>1
<1>7. /\ old \in Seq(Pages) /\ Len(old) = m
      /\ \A k \in 1 .. m : old[k] = frames[k].num
    <2>1. /\ old \in Seq(Pages) /\ Len(old) = m
          /\ \A k \in 1 .. m :
                old[k] = IF repos + k <= n THEN frames[repos + k].num
                                           ELSE frames[repos + k - n].num
        BY ResidentFacts DEF FifoInv
    <2> HIDE DEF old, n
    <2> QED BY <1>3, <1>4, <2>1
<1>8. new = Append(old, p)
    <2> HIDE DEF old, new, n
    <2>1. \A k \in 1 .. Len(old) : new[k] = old[k]
        BY <1>4, <1>5, <1>6, <1>7
    <2>2. Len(new) = Len(old) + 1 /\ new[Len(old) + 1] = p
        BY <1>4, <1>5, <1>6, <1>7
    <2> QED BY <1>5, <1>7, <2>1, <2>2, SeqAppend
<1>9. new = Append(IF Len(old) = n THEN Tail(old) ELSE old, p)
    <2> HIDE DEF old, new, n
    <2> QED BY <1>3, <1>4, <1>7, <1>8
<1> QED BY <1>1, <1>2, <1>3, <1>9 DEF Abstract!Miss

(* A miss with none left takes the oldest page out.                        *)
LEMMA ReplaceIsMiss ==
    ASSUME FifoInv, FifoInv', NEW p \in Pages, Simulate(p), ~search(p), Unused = {}
    PROVE  Abstract!Miss(p)
<1> PICK m \in 0 .. Len(frames) : Filled(m)
    BY DEF FifoInv
<1> DEFINE n == Len(frames)
           old == ResidentPages
           new == ResidentPages'
           first == repos + 1
<1>1. ~Abstract!Present(p)
    BY SearchIsPresent DEF FifoInv
<1>2. replace(p) /\ missingcount' = missingcount + 1
    BY DEF Simulate
<1>3. /\ m = n /\ Len(frames') = n
      /\ frames'[first].num = p
      /\ \A k \in 1 .. n : k # first => frames'[k] = frames[k]
      /\ repos' = IF first = n THEN 0 ELSE first
      /\ Filled(m)'
    BY <1>2, ReplaceStep DEF FifoInv
<1>4. n \in Nat \ {0} /\ repos \in 0 .. n - 1
    BY FifoFacts DEF FifoInv
<1>5. /\ old \in Seq(Pages) /\ Len(old) = n
      /\ \A k \in 1 .. n :
            old[k] = IF repos + k <= n THEN frames[repos + k].num
                                       ELSE frames[repos + k - n].num
    BY <1>3, ResidentFacts DEF FifoInv
<1>6. /\ new \in Seq(Pages) /\ Len(new) = n
      /\ \A k \in 1 .. n :
            new[k] = IF repos' + k <= n THEN frames'[repos' + k].num
                                        ELSE frames'[repos' + k - n].num
    <2>1. ResidentShape' /\ m \in 0 .. Len(frames')
        BY <1>3, <1>4, ShapeAfter
    <2> QED BY <1>3, <2>1 DEF ResidentShape
<1>7. \A k \in 1 .. n - 1 : new[k] = old[k + 1]
    <2> SUFFICES ASSUME NEW k \in 1 .. n - 1 PROVE new[k] = old[k + 1]
        OBVIOUS
    <2> DEFINE from == IF first + k <= n THEN first + k ELSE first + k - n
    <2>1. from \in 1 .. n /\ from # first
        <3> HIDE DEF n
        <3> QED BY <1>4
    <2>2. old[k + 1] = frames[from].num
        <3> HIDE DEF n, old
        <3>1. k + 1 \in 1 .. n /\ repos + (k + 1) = first + k
            BY <1>4
        <3> QED BY <1>4, <1>5, <3>1
    <2>3. new[k] = frames'[from].num
        <3> HIDE DEF n, new
        <3>1. k \in 1 .. n
            BY <1>4
        <3>2. CASE first = n
            <4>1. repos' + k <= n /\ repos' + k = from
                BY <1>3, <1>4, <3>2
            <4> QED BY <1>6, <3>1, <4>1
        <3>3. CASE first # n
            <4>1. repos' = first
                BY <1>3, <3>3
            <4> QED BY <1>6, <3>1, <4>1
        <3> QED BY <3>2, <3>3
    <2>4. frames'[from] = frames[from]
        <3> HIDE DEF from, n, first
        <3> QED BY <1>3, <2>1
    <2> HIDE DEF from, n, first, old, new
    <2> QED BY <2>2, <2>3, <2>4
<1>8. new[n] = p
    <2> HIDE DEF n, new
    <2>1. n \in 1 .. n
        BY <1>4
    <2>2. CASE first = n
        BY <1>3, <1>4, <1>6, <2>1, <2>2
    <2>3. CASE first # n
        <3>1. ~(repos' + n <= n) /\ repos' + n - n = first
            BY <1>3, <1>4, <2>3
        <3>2. new[n] = frames'[repos' + n - n].num
            <4> HIDE DEF first
            <4> QED BY <1>6, <2>1, <3>1
        <3> QED
            <4> HIDE DEF first
            <4> QED BY <1>3, <3>1, <3>2
    <2> QED BY <2>2, <2>3
<1>9. new = Append(Tail(old), p)
    <2> HIDE DEF old, new, n
    <2> QED BY <1>4, <1>5, <1>6, <1>7, <1>8, SeqShift
<1>10. new = Append(IF Len(old) = n THEN Tail(old) ELSE old, p)
    <2> HIDE DEF old, new, n
    <2> QED BY <1>5, <1>9
<1> QED BY <1>1, <1>2, <1>3, <1>10 DEF Abstract!Miss

(* For any number of frames the user may ask for, and any references, the  *)
(* chain of frames with repos behaves as the queue of Pager: the oldest    *)
(* page is replaced, and misses are counted as the queue counts them.      *)
THEOREM FifoIsAQueue == FifoSpec => ImplementsPager
<1>1. FifoInit /\ FifoInv => Abstract!Init
    <2> SUFFICES ASSUME FifoInit, FifoInv PROVE Abstract!Init
        OBVIOUS
    <2>1. Filled(0) /\ 0 \in 0 .. Len(frames) /\ Len(frames) \in Nat \ {0}
        BY FifoFacts, PagingAssumption DEF FifoInv, FifoInit, Filled, PagingAssumption
    <2>2. ResidentPages \in Seq(Pages) /\ Len(ResidentPages) = 0
        BY <2>1, ResidentFacts DEF FifoInv
    <2>3. ResidentPages = <<>>
        BY <2>2
    <2> QED BY <2>1, <2>3 DEF FifoInit, Abstract!Init
<1>2. /\ FifoInv /\ FifoInv'
      /\ [FifoNext]_fifoVars
      => [Abstract!Next]_<<Len(frames), ResidentPages, missingcount>>
    <2> SUFFICES ASSUME FifoInv, FifoInv', [FifoNext]_fifoVars
                 PROVE  [Abstract!Next]_<<Len(frames), ResidentPages, missingcount>>
        OBVIOUS
    <2>1. CASE UNCHANGED fifoVars
        BY <2>1 DEF fifoVars, ResidentPages, FramesUsed, Unused
    <2>2. ASSUME NEW p \in Pages, Simulate(p) PROVE Abstract!Next
        BY <2>2, HitIsHit, FillIsMiss, ReplaceIsMiss DEF Abstract!Next
    <2> QED BY <2>1, <2>2 DEF FifoNext
<1> QED BY FifoInvariant, <1>1, <1>2, PTL DEF FifoSpec, ImplementsPager, Abstract!Spec
-----------------------------------------------------------------------------
(* pagelru.c of Lab 2.                                                     *)

UsedIn(s) == {s[k] : k \in DOMAIN s}

\* The place of the last p in s, and what that means.
Last(s, p) ==
    CHOOSE k \in DOMAIN s : s[k] = p /\ \A x \in DOMAIN s : x > k => s[x] # p

IsLast(s, p, k) ==
    /\ k \in 1 .. Len(s)
    /\ s[k] = p
    /\ \A x \in 1 .. Len(s) : s[x] = p => x <= k

\* t is s with one more reference, to p.
Longer(t, s, p) ==
    /\ Len(t) = Len(s) + 1
    /\ \A k \in 1 .. Len(s) : t[k] = s[k]
    /\ t[Len(s) + 1] = p

\* The list M holds the last pages of s in their order.
Stacked(M, s) ==
    /\ \A x \in 1 .. Len(M) : M[x] \in UsedIn(s)
    /\ \A x, y \in 1 .. Len(M) : x < y => Last(s, M[x]) > Last(s, M[y])
    /\ \A p \in UsedIn(s) : p \notin UsedIn(M) =>
           \A y \in 1 .. Len(M) : Last(s, M[y]) > Last(s, p)

(* A bounded set of numbers has a largest one.                             *)
LEMMA LatestExists ==
    ASSUME NEW S \in SUBSET Nat, NEW n \in Nat, S # {}, \A k \in S : k <= n
    PROVE  \E m \in S : \A k \in S : k <= m
<1> DEFINE T == {t \in 0 .. n : n - t \in S}
<1>1. PICK k0 \in S : TRUE
    OBVIOUS
<1>2. n - k0 \in T
    BY <1>1
<1>3. T \in SUBSET Nat /\ T # {}
    BY <1>2
<1> HIDE DEF T
<1>4. PICK t \in T : \A u \in T : ~ (<<u, t>> \in OpToRel(<, Nat))
    BY <1>3, NatLessThanWellFounded, WFMin
<1>5. \A u \in T : <<u, t>> \in Nat \X Nat
    BY <1>3
<1>6. \A u \in T : ~ (u < t)
    BY <1>4, <1>5, Zenon DEF OpToRel
<1>7. n - t \in S /\ t \in 0 .. n
    BY <1>4 DEF T
<1>8. ASSUME NEW k \in S PROVE k <= n - t
  <2>1. n - (n - k) = k /\ n - k \in 0 .. n
      OBVIOUS
  <2>2. n - k \in T
      BY <2>1 DEF T
  <2>3. ~ (n - k < t)
      BY <2>2, <1>6
  <2> QED BY <2>1, <2>3, <1>7
<1> QED BY <1>7, <1>8

(* A page that is used has a last use. *)
LEMMA LastFacts ==
    ASSUME NEW S, NEW s \in Seq(S), NEW p \in UsedIn(s)
    PROVE  IsLast(s, p, Last(s, p))
<1> DEFINE K == {k \in 1 .. Len(s) : s[k] = p}
<1>1. Len(s) \in Nat /\ DOMAIN s = 1 .. Len(s)
    OBVIOUS
<1>2. K \in SUBSET Nat /\ K # {} /\ \A k \in K : k <= Len(s)
    BY <1>1 DEF UsedIn
<1>3. PICK m \in K : \A k \in K : k <= m
  <2> HIDE DEF K
  <2> QED BY <1>1, <1>2, LatestExists
<1>4. m \in DOMAIN s /\ s[m] = p /\ \A x \in DOMAIN s : x > m => s[x] # p
    BY <1>1, <1>3
<1>5. /\ Last(s, p) \in DOMAIN s
      /\ s[Last(s, p)] = p
      /\ \A x \in DOMAIN s : x > Last(s, p) => s[x] # p
    BY <1>4 DEF Last
<1> QED BY <1>1, <1>5 DEF IsLast

(* The last use of a page is one place of the string.                      *)
LEMMA LastUnique ==
    ASSUME NEW S, NEW s \in Seq(S), NEW p, NEW k, IsLast(s, p, k)
    PROVE  Last(s, p) = k
<1>1. p \in UsedIn(s)
    BY DEF IsLast, UsedIn
<1>2. IsLast(s, p, Last(s, p))
    BY <1>1, LastFacts
<1> QED BY <1>2 DEF IsLast

(* One more reference: p becomes the latest, the others stay. *)
LEMMA LastAppend ==
    ASSUME NEW S, NEW s \in Seq(S), NEW p \in S, NEW t \in Seq(S), Longer(t, s, p)
    PROVE  /\ UsedIn(t) = UsedIn(s) \cup {p}
           /\ Last(t, p) = Len(s) + 1
           /\ \A q \in UsedIn(s) : q # p => Last(t, q) = Last(s, q)
           /\ \A q \in UsedIn(s) : Last(s, q) \in 1 .. Len(s)
<1>1. /\ t \in Seq(S) /\ Len(s) \in Nat /\ Len(t) = Len(s) + 1
      /\ \A k \in 1 .. Len(s) : t[k] = s[k]
      /\ t[Len(s) + 1] = p
      /\ DOMAIN s = 1 .. Len(s) /\ DOMAIN t = 1 .. Len(s) + 1
    BY DEF Longer
<1>2. UsedIn(t) = UsedIn(s) \cup {p}
    BY <1>1 DEF UsedIn
<1>3. IsLast(t, p, Len(s) + 1)
    BY <1>1 DEF IsLast
<1>4. ASSUME NEW q \in UsedIn(s)
      PROVE  /\ Last(s, q) \in 1 .. Len(s)
             /\ q # p => Last(t, q) = Last(s, q)
  <2>1. IsLast(s, q, Last(s, q))
      BY LastFacts
  <2>2. q # p => IsLast(t, q, Last(s, q))
      BY <1>1, <2>1 DEF IsLast
  <2>3. q # p => Last(t, q) = Last(s, q)
      BY <1>1, <2>2, LastUnique
  <2> QED BY <2>1, <2>3 DEF IsLast
<1> QED BY <1>1, <1>2, <1>3, <1>4, LastUnique

(* A stack names each page once. *)
LEMMA StackDistinct ==
    ASSUME NEW S, NEW M \in Seq(S), NEW s \in Seq(S), Stacked(M, s)
    PROVE  /\ \A x, y \in 1 .. Len(M) : x # y => M[x] # M[y]
           /\ \A x \in 1 .. Len(M) : Last(s, M[x]) \in 1 .. Len(s)
<1>1. \A x \in 1 .. Len(M) : Last(s, M[x]) \in 1 .. Len(s)
    BY LastFacts DEF Stacked, IsLast
<1>2. Len(M) \in Nat /\ Len(s) \in Nat
    OBVIOUS
<1>3. ASSUME NEW x \in 1 .. Len(M), NEW y \in 1 .. Len(M), x < y PROVE M[x] # M[y]
    BY <1>1, <1>2, <1>3 DEF Stacked
<1> QED BY <1>1, <1>2, <1>3
-----------------------------------------------------------------------------
\* N begins with p; behind it stands what was at e in M, in the order of M,
\* and what is left out was behind all of it.
Moved(N, M, p, e) ==
    /\ 1 <= Len(N) /\ N[1] = p
    /\ \A x \in 2 .. Len(N) : e[x] \in 1 .. Len(M) /\ N[x] = M[e[x]] /\ N[x] # p
    /\ \A x, y \in 2 .. Len(N) : x < y => e[x] < e[y]
    /\ \A y \in 1 .. Len(M) : M[y] \notin UsedIn(N) => \A x \in 2 .. Len(N) : e[x] < y

(* A list that begins with p and goes on with some of the pages of the old *)
(* list, in their order and without a gap at the recent end, is the stack  *)
(* after a reference to p.                                                 *)
LEMMA PushStack ==
    ASSUME NEW S, NEW s \in Seq(S), NEW p \in S, NEW t \in Seq(S), Longer(t, s, p),
           NEW M \in Seq(S), Stacked(M, s),
           NEW N \in Seq(S), NEW e, Moved(N, M, p, e)
    PROVE  Stacked(N, t)
<1> USE DEF Moved
<1>1. /\ UsedIn(t) = UsedIn(s) \cup {p}
      /\ Last(t, p) = Len(s) + 1
      /\ \A q \in UsedIn(s) : q # p => Last(t, q) = Last(s, q)
      /\ \A q \in UsedIn(s) : Last(s, q) \in 1 .. Len(s)
    BY LastAppend
<1>2. Len(s) \in Nat /\ Len(N) \in Nat /\ Len(M) \in Nat
    OBVIOUS
<1>3. p \in UsedIn(N)
    BY <1>2 DEF UsedIn
<1>4. ASSUME NEW x \in 2 .. Len(N)
      PROVE  /\ e[x] \in 1 .. Len(M)
             /\ N[x] = M[e[x]] /\ N[x] # p /\ N[x] \in UsedIn(s)
             /\ Last(t, N[x]) = Last(s, M[e[x]])
             /\ Last(s, M[e[x]]) \in 1 .. Len(s)
  <2>1. e[x] \in 1 .. Len(M) /\ N[x] = M[e[x]] /\ N[x] # p
      OBVIOUS
  <2>2. M[e[x]] \in UsedIn(s)
      BY <2>1 DEF Stacked
  <2> QED BY <2>1, <2>2, <1>1
<1>5. \A x \in 1 .. Len(N) : x = 1 \/ x \in 2 .. Len(N)
    BY <1>2
<1>6. \A x \in 1 .. Len(N) : N[x] \in UsedIn(t)
    BY <1>1, <1>4, <1>5
<1>7. ASSUME NEW x \in 1 .. Len(N), NEW y \in 1 .. Len(N), x < y
      PROVE  Last(t, N[x]) > Last(t, N[y])
  <2>1. y \in 2 .. Len(N)
      BY <1>2, <1>7
  <2>2. CASE x = 1
      BY <2>1, <2>2, <1>1, <1>2, <1>4
  <2>3. CASE x \in 2 .. Len(N)
    <3>1. e[x] < e[y]
        BY <2>1, <2>3, <1>7
    <3>2. Last(s, M[e[x]]) > Last(s, M[e[y]])
        BY <2>1, <2>3, <3>1, <1>4 DEF Stacked
    <3> QED BY <2>1, <2>3, <3>2, <1>4
  <2> QED BY <2>2, <2>3, <1>5
<1>8. ASSUME NEW q \in UsedIn(t), q \notin UsedIn(N), NEW y \in 1 .. Len(N)
      PROVE  Last(t, N[y]) > Last(t, q)
  <2>1. q # p /\ q \in UsedIn(s) /\ Last(t, q) = Last(s, q) /\ Last(s, q) \in 1 .. Len(s)
      BY <1>1, <1>3, <1>8
  <2>2. CASE y = 1
      BY <2>1, <2>2, <1>1, <1>2
  <2>3. CASE y \in 2 .. Len(N) /\ q \notin UsedIn(M)
    <3>1. Last(s, M[e[y]]) > Last(s, q)
        BY <2>1, <2>3, <1>4 DEF Stacked
    <3> QED BY <3>1, <2>1, <2>3, <1>4
  <2>4. CASE y \in 2 .. Len(N) /\ q \in UsedIn(M)
    <3>1. PICK z \in 1 .. Len(M) : q = M[z]
        BY <2>4 DEF UsedIn
    <3>2. e[y] < z
        BY <2>4, <3>1, <1>8
    <3>3. Last(s, M[e[y]]) > Last(s, M[z])
        BY <2>4, <3>1, <3>2, <1>4 DEF Stacked
    <3> QED BY <3>1, <3>3, <2>1, <2>4, <1>4
  <2> QED BY <2>2, <2>3, <2>4, <1>5
<1> QED BY <1>6, <1>7, <1>8 DEF Stacked

\* The list after a miss: the first m of the old list behind the new page.
LEMMA MissStack ==
    ASSUME NEW S, NEW s \in Seq(S), NEW p \in S, NEW t \in Seq(S), Longer(t, s, p),
           NEW M \in Seq(S), Stacked(M, s), p \notin UsedIn(M),
           NEW m \in 0 .. Len(M), NEW N \in Seq(S), Len(N) = m + 1, N[1] = p,
           \A x \in 2 .. m + 1 : N[x] = M[x - 1]
    PROVE  Stacked(N, t)
<1> DEFINE e == [x \in 2 .. Len(N) |-> x - 1]
<1>1. Len(M) \in Nat
    OBVIOUS
<1>2. e \in [2 .. Len(N) -> 1 .. Len(M)] /\ \A x \in 2 .. Len(N) : e[x] = x - 1
    BY <1>1
<1> HIDE DEF e
<1>3. \A x \in 2 .. Len(N) : N[x] = M[e[x]] /\ N[x] # p
    BY <1>1, <1>2 DEF UsedIn
<1>4. \A x, y \in 2 .. Len(N) : x < y => e[x] < e[y]
    BY <1>1, <1>2
<1>5. ASSUME NEW y \in 1 .. Len(M), M[y] \notin UsedIn(N), NEW x \in 2 .. Len(N)
      PROVE  e[x] < y
  <2>1. ~ (y <= m)
    <3>1. y <= m => y + 1 \in 2 .. m + 1 /\ y + 1 - 1 = y /\ y + 1 \in 1 .. Len(N)
        BY <1>1
    <3>2. y <= m => N[y + 1] = M[y]
        BY <3>1
    <3>3. DOMAIN N = 1 .. Len(N)
        OBVIOUS
    <3> QED BY <3>1, <3>2, <3>3, <1>5 DEF UsedIn
  <2> QED BY <2>1, <1>1, <1>2
<1>6. 1 <= Len(N)
    BY <1>1
<1>7. Moved(N, M, p, e)
    BY <1>2, <1>3, <1>4, <1>5, <1>6 DEF Moved
<1> QED BY <1>7, PushStack

\* N is M with its entry at x0 taken to the front.
Rotated(N, M, x0) ==
    /\ Len(N) = Len(M) /\ N[1] = M[x0]
    /\ \A x \in 2 .. Len(N) : N[x] = M[IF x <= x0 THEN x - 1 ELSE x]

\* The list after a hit at x0.
LEMMA HitStack ==
    ASSUME NEW S, NEW s \in Seq(S), NEW p \in S, NEW t \in Seq(S), Longer(t, s, p),
           NEW M \in Seq(S), Stacked(M, s),
           NEW x0 \in 1 .. Len(M), M[x0] = p,
           NEW N \in Seq(S), Rotated(N, M, x0)
    PROVE  Stacked(N, t)
<1> USE DEF Rotated
<1> DEFINE e == [x \in 2 .. Len(N) |-> IF x <= x0 THEN x - 1 ELSE x]
<1>1. Len(M) \in Nat
    OBVIOUS
<1>2. /\ e \in [2 .. Len(N) -> 1 .. Len(M)]
      /\ \A x \in 2 .. Len(N) : e[x] = (IF x <= x0 THEN x - 1 ELSE x) /\ e[x] # x0
    BY <1>1
<1> HIDE DEF e
<1>3. \A x \in 2 .. Len(N) : N[x] = M[e[x]]
    BY <1>1, <1>2
<1>4. \A x, y \in 1 .. Len(M) : x # y => M[x] # M[y]
    BY StackDistinct
<1>5. ASSUME NEW x \in 2 .. Len(N) PROVE N[x] # p
  <2>1. e[x] \in 1 .. Len(M) /\ e[x] # x0
      BY <1>2
  <2> QED BY <2>1, <1>3, <1>4
<1>6. \A x, y \in 2 .. Len(N) : x < y => e[x] < e[y]
    BY <1>1, <1>2
<1>7. ASSUME NEW y \in 1 .. Len(M) PROVE M[y] \in UsedIn(N)
  <2>1. DOMAIN N = 1 .. Len(M)
      OBVIOUS
  <2>2. CASE y = x0
      BY <2>1, <2>2, <1>1, SMTT(30) DEF UsedIn
  <2>3. CASE y < x0
    <3>1. y + 1 \in 2 .. Len(N) /\ y + 1 <= x0 /\ y + 1 - 1 = y /\ y + 1 \in 1 .. Len(M)
        BY <2>3, <1>1
    <3>2. N[y + 1] = M[y]
        BY <3>1
    <3> QED BY <2>1, <3>1, <3>2 DEF UsedIn
  <2>4. CASE y > x0
    <3>1. y \in 2 .. Len(N) /\ ~ (y <= x0)
        BY <2>4, <1>1
    <3>2. N[y] = M[y]
        BY <3>1
    <3> QED BY <2>1, <3>2 DEF UsedIn
  <2> QED BY <2>2, <2>3, <2>4, <1>1
<1>8. 1 <= Len(N)
    BY <1>1
<1>9. Moved(N, M, p, e)
    BY <1>2, <1>3, <1>5, <1>6, <1>7, <1>8 DEF Moved
<1> QED BY <1>9, PushStack
-----------------------------------------------------------------------------
\* Counting.
LEMMA FromOne ==
    ASSUME NEW n \in Nat
    PROVE  IsFiniteSet(1 .. n) /\ Cardinality(1 .. n) = n
BY FS_Interval

(* A string has finitely many pages, at most its length.                   *)
LEMMA UsedFinite ==
    ASSUME NEW S, NEW s \in Seq(S)
    PROVE  IsFiniteSet(UsedIn(s)) /\ Cardinality(UsedIn(s)) \in Nat
           /\ Cardinality(UsedIn(s)) <= Len(s)
<1>1. Len(s) \in Nat /\ DOMAIN s = 1 .. Len(s) /\ s \in [1 .. Len(s) -> UsedIn(s)]
    BY DEF UsedIn
<1>2. s \in Surjection(1 .. Len(s), UsedIn(s))
    BY <1>1 DEF UsedIn, Surjection
<1>3. IsFiniteSet(1 .. Len(s)) /\ Cardinality(1 .. Len(s)) = Len(s)
    BY <1>1, FS_Interval
<1>4. IsFiniteSet(UsedIn(s)) /\ Cardinality(UsedIn(s)) <= Len(s)
    BY <1>2, <1>3, FS_Surjection
<1> QED BY <1>4, FS_CardinalityType

(* A list without repetitions has as many pages as places.                 *)
LEMMA DistinctCount ==
    ASSUME NEW S, NEW M \in Seq(S), \A x, y \in 1 .. Len(M) : x # y => M[x] # M[y]
    PROVE  IsFiniteSet(UsedIn(M)) /\ Cardinality(UsedIn(M)) = Len(M)
<1>1. Len(M) \in Nat /\ DOMAIN M = 1 .. Len(M) /\ M \in [1 .. Len(M) -> UsedIn(M)]
    BY DEF UsedIn
<1>2. M \in Surjection(1 .. Len(M), UsedIn(M))
    BY <1>1 DEF UsedIn, Surjection
<1>4. M \in Injection(1 .. Len(M), UsedIn(M))
    BY <1>1 DEF Injection, IsInjective
<1>3. IsFiniteSet(1 .. Len(M)) /\ Cardinality(1 .. Len(M)) = Len(M)
    BY <1>1, FS_Interval, SMTT(30)
<1> QED BY <1>2, <1>3, <1>4, FS_Surjection

\* The pages between two references, and whether the one at k is a fault.
Gap(s, j, k) == {s[x] : x \in (j + 1) .. (k - 1)}

Missed(s, k, room) ==
    ~\E j \in 1 .. k - 1 : s[j] = s[k] /\ Cardinality(Gap(s, j, k)) < room

(* The pages between a use and the end of the string.                      *)
LEMMA GapBefore ==
    ASSUME NEW t, NEW j, NEW n \in Nat
    PROVE  Gap(t, j, n + 1) = {t[x] : x \in (j + 1) .. n}
<1>1. n + 1 - 1 = n
    OBVIOUS
<1> DEFINE m == n + 1 - 1
<1>2. Gap(t, j, n + 1) = {t[x] : x \in (j + 1) .. m}
    BY DEF Gap
<1>3. m = n
    BY <1>1
<1> HIDE DEF m
<1> QED BY <1>2, <1>3

FaultSet(s, room) == {k \in 1 .. Len(s) : Missed(s, k, room)}

(* What was a fault, or none, stays so when the string grows.              *)
LEMMA MissedSame ==
    ASSUME NEW S, NEW s \in Seq(S), NEW p \in S, NEW t \in Seq(S), Longer(t, s, p),
           NEW k \in 1 .. Len(s), NEW room
    PROVE  Missed(t, k, room) = Missed(s, k, room)
<1>1. Len(s) \in Nat /\ \A x \in 1 .. Len(s) : t[x] = s[x]
    BY DEF Longer
<1>2. ASSUME NEW j \in 1 .. k - 1 PROVE t[j] = s[j] /\ Gap(t, j, k) = Gap(s, j, k)
  <2>1. t[j] = s[j] /\ \A x \in (j + 1) .. (k - 1) : t[x] = s[x]
      BY <1>1, SMTT(30)
  <2> QED BY <2>1, Zenon DEF Gap
<1>3. t[k] = s[k]
    BY <1>1
<1> QED BY <1>2, <1>3 DEF Missed

(* All pages used since the last use of a page in memory stand before it   *)
(* in the list: a hit is no fault.                                         *)
LEMMA HitIsNoFault ==
    ASSUME NEW S, NEW s \in Seq(S), NEW p \in S, NEW t \in Seq(S), Longer(t, s, p),
           NEW M \in Seq(S), Stacked(M, s),
           NEW x0 \in 1 .. Len(M), M[x0] = p,
           NEW room \in Nat, Len(M) <= room
    PROVE  ~Missed(t, Len(s) + 1, room)
<1>1. /\ Len(s) \in Nat /\ Len(M) \in Nat
      /\ \A x \in 1 .. Len(s) : t[x] = s[x]
      /\ t[Len(s) + 1] = p
      /\ Len(s) + 1 - 1 = Len(s)
    BY DEF Longer
<1>2. p \in UsedIn(s)
    BY DEF Stacked
<1> DEFINE j == Last(s, p)
<1>3. j \in 1 .. Len(s) /\ s[j] = p /\ \A x \in 1 .. Len(s) : s[x] = p => x <= j
    BY <1>2, LastFacts DEF IsLast
<1> HIDE DEF j
<1> DEFINE before == {M[y] : y \in 1 .. x0 - 1}
<1>4. Gap(t, j, Len(s) + 1) \subseteq before
  <2>0. Gap(t, j, Len(s) + 1) = {t[x] : x \in (j + 1) .. Len(s)}
      BY <1>1, GapBefore, SMTT(30)
  <2> HIDE DEF before
  <2> SUFFICES ASSUME NEW x \in (j + 1) .. Len(s) PROVE t[x] \in before
      BY <2>0
  <2> USE DEF before
  <2>1. x \in 1 .. Len(s) /\ t[x] = s[x] /\ s[x] # p /\ x > j
      BY <1>1, <1>3
  <2>2. s[x] \in UsedIn(s)
      BY <2>1 DEF UsedIn
  <2>3. Last(s, s[x]) >= x /\ Last(s, s[x]) \in 1 .. Len(s)
      BY <2>1, <2>2, LastFacts DEF IsLast
  <2>4. Last(s, s[x]) > Last(s, M[x0])
      BY <2>1, <2>3, <1>1, <1>3 DEF j
  <2>5. s[x] \in UsedIn(M)
      BY <2>2, <2>3, <2>4, <1>3 DEF Stacked, j
  <2>6. PICK y \in 1 .. Len(M) : s[x] = M[y]
    <3>1. DOMAIN M = 1 .. Len(M)
        OBVIOUS
    <3> QED BY <2>5, <3>1, Zenon DEF UsedIn
  <2>7. ~ (x0 <= y)
    <3>1. y # x0
        BY <2>1, <2>6
    <3>2. x0 < y => Last(s, M[x0]) > Last(s, M[y])
        BY DEF Stacked
    <3> QED BY <3>1, <3>2, <2>3, <2>4, <2>6, <1>1, <1>3 DEF j
  <2> QED BY <2>1, <2>6, <2>7
<1>5. IsFiniteSet(before) /\ Cardinality(before) <= x0 - 1
  <2>1. IsFiniteSet(1 .. x0 - 1) /\ Cardinality(1 .. x0 - 1) = x0 - 1
    <3>1. 1 \in Int /\ x0 - 1 \in Int /\ (1 > x0 - 1 => x0 - 1 = 0) /\ x0 - 1 - 1 + 1 = x0 - 1
        BY <1>1
    <3> QED BY <3>1, FS_Interval
  <2> DEFINE f == [y \in 1 .. x0 - 1 |-> M[y]]
  <2>2. f \in Surjection(1 .. x0 - 1, before)
      BY DEF Surjection
  <2> HIDE DEF f, before
  <2> QED BY <2>1, <2>2, FS_Surjection
<1>6. Cardinality(Gap(t, j, Len(s) + 1)) <= Cardinality(before)
      /\ Cardinality(Gap(t, j, Len(s) + 1)) \in Nat
      /\ Cardinality(before) \in Nat
  <2> HIDE DEF before
  <2> QED BY <1>4, <1>5, FS_Subset, FS_CardinalityType
<1>7. Cardinality(Gap(t, j, Len(s) + 1)) < room
  <2> HIDE DEF before
  <2> QED BY <1>5, <1>6, <1>1
<1> QED BY <1>1, <1>3, <1>7 DEF Missed

(* A page that is not in memory and was used before has been followed by   *)
(* all pages in memory, and memory is full: a miss is a fault.             *)
LEMMA MissIsFault ==
    ASSUME NEW S, NEW s \in Seq(S), NEW p \in S, NEW t \in Seq(S), Longer(t, s, p),
           NEW M \in Seq(S), Stacked(M, s), p \notin UsedIn(M),
           NEW room \in Nat,
           p \in UsedIn(s) => room <= Len(M)
    PROVE  Missed(t, Len(s) + 1, room)
<1>1. /\ Len(s) \in Nat /\ Len(M) \in Nat
      /\ \A x \in 1 .. Len(s) : t[x] = s[x]
      /\ t[Len(s) + 1] = p
      /\ Len(s) + 1 - 1 = Len(s)
    BY DEF Longer
<1> SUFFICES ASSUME NEW j \in 1 .. Len(s), s[j] = p
             PROVE  ~ (Cardinality(Gap(t, j, Len(s) + 1)) < room)
    BY <1>1 DEF Missed
<1>2. p \in UsedIn(s) /\ room <= Len(M)
    BY <1>1 DEF UsedIn
<1>3. IsFiniteSet(UsedIn(M)) /\ Cardinality(UsedIn(M)) = Len(M)
    BY StackDistinct, DistinctCount
<1>4. UsedIn(M) \subseteq Gap(t, j, Len(s) + 1)
  <2> SUFFICES ASSUME NEW y \in 1 .. Len(M) PROVE M[y] \in Gap(t, j, Len(s) + 1)
      BY DEF UsedIn
  <2>1. Last(s, M[y]) > Last(s, p) /\ M[y] \in UsedIn(s)
      BY <1>2 DEF Stacked
  <2>2. IsLast(s, M[y], Last(s, M[y])) /\ IsLast(s, p, Last(s, p))
      BY <1>2, <2>1, LastFacts
  <2> DEFINE l == Last(s, M[y])
  <2>3. l \in (j + 1) .. Len(s) /\ s[l] = M[y]
      BY <1>1, <2>1, <2>2 DEF IsLast
  <2> HIDE DEF l
  <2>4. l \in 1 .. Len(s) /\ t[l] = M[y]
      BY <1>1, <2>3
  <2> QED BY <2>3, <2>4, <1>1 DEF Gap
<1>5. IsFiniteSet(Gap(t, j, Len(s) + 1))
  <2>1. IsFiniteSet((j + 1) .. Len(s))
      BY <1>1, FS_Interval
  <2> DEFINE f == [x \in (j + 1) .. Len(s) |-> t[x]]
  <2>2. f \in Surjection((j + 1) .. Len(s), Gap(t, j, Len(s) + 1))
      BY <1>1 DEF Surjection, Gap
  <2> HIDE DEF f
  <2> QED BY <2>1, <2>2, FS_Surjection
<1>6. Len(M) <= Cardinality(Gap(t, j, Len(s) + 1)) /\ Cardinality(Gap(t, j, Len(s) + 1)) \in Nat
    BY <1>3, <1>4, <1>5, FS_Subset, FS_CardinalityType
<1> QED BY <1>1, <1>2, <1>6
-----------------------------------------------------------------------------
(* insertAtHead, and what deleteNode and deleteTail leave behind the head. *)
LEMMA PushShape ==
    ASSUME NEW S, NEW rest \in Seq(S), NEW p \in S
    PROVE  /\ insertAtHead(rest, p) \in Seq(S)
           /\ Len(insertAtHead(rest, p)) = Len(rest) + 1
           /\ insertAtHead(rest, p)[1] = p
           /\ \A x \in 2 .. Len(rest) + 1 : insertAtHead(rest, p)[x] = rest[x - 1]
<1> DEFINE N == insertAtHead(rest, p)
<1>1. <<p>> \in Seq(S) /\ Len(<<p>>) = 1 /\ <<p>>[1] = p /\ N = <<p>> \o rest
    BY DEF insertAtHead
<1>2. /\ N \in Seq(S) /\ Len(N) = 1 + Len(rest)
      /\ \A x \in 1 .. 1 + Len(rest) : N[x] = IF x <= 1 THEN <<p>>[x] ELSE rest[x - 1]
    BY <1>1, ConcatProperties
<1>3. Len(rest) \in Nat
    OBVIOUS
<1> HIDE DEF N
<1>4. N \in Seq(S) /\ Len(N) = Len(rest) + 1 /\ N[1] = p
      /\ \A x \in 2 .. Len(rest) + 1 : N[x] = rest[x - 1]
    BY <1>1, <1>2, <1>3
<1> QED BY <1>4 DEF N

(* The first m pages of a list.                                            *)
LEMMA PrefixShape ==
    ASSUME NEW S, NEW M \in Seq(S), NEW m \in 0 .. Len(M)
    PROVE  /\ SubSeq(M, 1, m) \in Seq(S) /\ Len(SubSeq(M, 1, m)) = m
           /\ \A x \in 1 .. m : SubSeq(M, 1, m)[x] = M[x]
<1>1. Len(M) \in Nat /\ m \in Int /\ 1 \in Int /\ \A x \in 1 .. m : M[x] \in S
    OBVIOUS
<1>2. /\ SubSeq(M, 1, m) \in Seq(S)
      /\ Len(SubSeq(M, 1, m)) = IF 1 <= m THEN m - 1 + 1 ELSE 0
      /\ \A x \in 1 .. m - 1 + 1 : SubSeq(M, 1, m)[x] = M[1 + x - 1]
    BY <1>1, SubSeqProperties
<1> QED BY <1>1, <1>2

(* deleteNode and insertAtHead move the page to the front, the ones before *)
(* it down.                                                                *)
LEMMA HitShape ==
    ASSUME NEW S, NEW M \in Seq(S), NEW p \in S, NEW x0 \in 1 .. Len(M), M[x0] = p,
           \A x, y \in 1 .. Len(M) : x # y => M[x] # M[y],
           NEW N, N = insertAtHead(deleteNode(M, p), p)
    PROVE  N \in Seq(S) /\ Rotated(N, M, x0)
<1>1. Len(M) \in Nat /\ DOMAIN M = 1 .. Len(M)
    OBVIOUS
<1> DEFINE Is(k) == k \in DOMAIN M /\ M[k] = p /\ \A j \in 1 .. k - 1 : M[j] # p
           front == SubSeq(M, 1, x0 - 1)
           back == SubSeq(M, x0 + 1, Len(M))
           rest == deleteNode(M, p)
<1>2. Is(x0) /\ \A k : Is(k) => k = x0
    BY <1>1
<1>3. (CHOOSE k \in DOMAIN M : M[k] = p /\ \A j \in 1 .. k - 1 : M[j] # p) = x0
    BY <1>2
<1>4. rest = front \o back
    BY <1>3 DEF deleteNode
<1>5. front \in Seq(S) /\ Len(front) = x0 - 1 /\ \A x \in 1 .. x0 - 1 : front[x] = M[x]
    BY <1>1, PrefixShape
<1>6. /\ back \in Seq(S) /\ Len(back) = Len(M) - x0
      /\ \A x \in 1 .. Len(M) - x0 : back[x] = M[x + x0]
  <2>1. x0 + 1 \in Int /\ Len(M) \in Int /\ \A x \in x0 + 1 .. Len(M) : M[x] \in S
      BY <1>1
  <2>2. /\ back \in Seq(S)
        /\ Len(back) = IF x0 + 1 <= Len(M) THEN Len(M) - (x0 + 1) + 1 ELSE 0
        /\ \A x \in 1 .. Len(M) - (x0 + 1) + 1 : back[x] = M[x0 + 1 + x - 1]
      BY <2>1, SubSeqProperties
  <2>4. (IF x0 + 1 <= Len(M) THEN Len(M) - (x0 + 1) + 1 ELSE 0) = Len(M) - x0
    <3>1. \A n \in Nat : \A k \in 1 .. n :
              (IF k + 1 <= n THEN n - (k + 1) + 1 ELSE 0) = n - k
        OBVIOUS
    <3>2. Len(M) \in Nat /\ x0 \in 1 .. Len(M)
        BY <1>1
    <3> QED BY ONLY <3>1, <3>2
  <2> HIDE DEF back
  <2>5. ASSUME NEW x \in 1 .. Len(M) - x0 PROVE back[x] = M[x + x0]
    <3>1. back[x] = M[x0 + 1 + x - 1]
        BY <2>2
    <3>2. x0 + 1 + x - 1 = x + x0
        BY <1>1
    <3> QED BY <3>1, <3>2
  <2> QED BY <2>2, <2>4, <2>5
<1> HIDE DEF front, back, rest
<1>7. /\ rest \in Seq(S) /\ Len(rest) = Len(M) - 1
      /\ \A x \in 1 .. Len(M) - 1 : rest[x] = IF x < x0 THEN M[x] ELSE M[x + 1]
  <2>1. /\ rest \in Seq(S) /\ Len(rest) = Len(front) + Len(back)
        /\ \A x \in 1 .. Len(front) + Len(back) :
              rest[x] = IF x <= Len(front) THEN front[x] ELSE back[x - Len(front)]
      BY <1>4, <1>5, <1>6, ConcatProperties, ZenonT(40)
  <2>2. Len(front) + Len(back) = Len(M) - 1
      BY <1>1, <1>5, <1>6
  <2>3. ASSUME NEW x \in 1 .. Len(M) - 1 PROVE rest[x] = IF x < x0 THEN M[x] ELSE M[x + 1]
    <3>1. CASE x < x0
        BY <3>1, <2>1, <2>2, <1>1, <1>5
    <3>2. CASE x >= x0
      <4>1. x - Len(front) \in 1 .. Len(M) - x0 /\ x - Len(front) + x0 = x + 1 /\ ~ (x <= Len(front))
          BY <3>2, <1>1, <1>5
      <4>2. rest[x] = back[x - Len(front)]
          BY <4>1, <2>1, <2>2
      <4> DEFINE y == x - Len(front)
      <4>3. back[y] = M[y + x0]
          BY <4>1, <1>6
      <4>4. rest[x] = M[x + 1]
          BY <4>1, <4>2, <4>3
      <4> QED BY <3>2, <4>4, <1>1
    <3> QED BY <3>1, <3>2, <1>1
  <2> QED BY <2>1, <2>2, <2>3
<1>8. /\ N \in Seq(S) /\ Len(N) = Len(rest) + 1 /\ N[1] = p
      /\ \A x \in 2 .. Len(rest) + 1 : N[x] = rest[x - 1]
  <2>1. N = insertAtHead(rest, p)
      BY DEF rest
  <2>2. rest \in Seq(S)
      BY <1>7
  <2>3. /\ insertAtHead(rest, p) \in Seq(S)
        /\ Len(insertAtHead(rest, p)) = Len(rest) + 1
        /\ insertAtHead(rest, p)[1] = p
        /\ \A x \in 2 .. Len(rest) + 1 : insertAtHead(rest, p)[x] = rest[x - 1]
      BY <2>2, PushShape
  <2> QED BY <2>1, <2>3
<1>9. ASSUME NEW x \in 2 .. Len(M) PROVE rest[x - 1] = M[IF x <= x0 THEN x - 1 ELSE x]
    BY <1>1, <1>7
<1>10. Len(N) = Len(M)
    BY <1>1, <1>7, <1>8
<1>11. ASSUME NEW x \in 2 .. Len(N) PROVE N[x] = M[IF x <= x0 THEN x - 1 ELSE x]
    BY <1>8, <1>9, <1>10
<1> QED BY <1>8, <1>10, <1>11 DEF Rotated
-----------------------------------------------------------------------------
LruInv ==
    /\ LruTypeOK
    /\ Stacked(memory, string)
    /\ Len(memory) = IF Cardinality(UsedIn(string)) < Capacity
                     THEN Cardinality(UsedIn(string)) ELSE Capacity
    /\ cpn = IF memorySize = 0 THEN 0 ELSE Len(memory)
    /\ pageMissCount = Cardinality(Faults)

(* Faults counts the references that MissedSame is about.                  *)
LEMMA FaultsAre ==
    ASSUME string \in Seq(Pages)
    PROVE  Faults = FaultSet(string, Capacity)
<1>1. DOMAIN string = 1 .. Len(string)
    OBVIOUS
<1>2. \A j, k : Between(j, k) = Gap(string, j, k)
    BY DEF Between, Gap
<1>3. \A k : Missed(string, k, Capacity) <=>
               ~\E j \in 1 .. k - 1 :
                    string[j] = string[k] /\ Cardinality(Between(j, k)) < Capacity
    BY <1>2 DEF Missed
<1> QED BY <1>1, <1>3 DEF Faults, FaultSet

(* Before the first reference.                                             *)
LEMMA LruInitially == LruInit => LruInv
<1> SUFFICES ASSUME LruInit PROVE LruInv
    OBVIOUS
<1> USE DEF LruInit
<1>1. LruTypeOK /\ Capacity \in Nat \ {0}
    BY PagingAssumption DEF LruTypeOK, Capacity
<1>2. UsedIn(string) = {} /\ Faults = {} /\ Len(memory) = 0 /\ Len(string) = 0
    BY DEF UsedIn, Faults
<1>3. Stacked(memory, string)
    BY <1>2 DEF Stacked
<1> QED BY <1>1, <1>2, <1>3, FS_EmptySet DEF LruInv

(* The fault that a reference is or is not is added to those before. *)
LEMMA FaultsNext ==
    ASSUME NEW s \in Seq(Pages), NEW p \in Pages, NEW t \in Seq(Pages), Longer(t, s, p),
           NEW room
    PROVE  /\ Cardinality(FaultSet(s, room)) \in Nat
           /\ Cardinality(FaultSet(s, room)) <= Len(s)
           /\ Missed(t, Len(s) + 1, room) =>
                 Cardinality(FaultSet(t, room)) = Cardinality(FaultSet(s, room)) + 1
           /\ ~Missed(t, Len(s) + 1, room) =>
                 Cardinality(FaultSet(t, room)) = Cardinality(FaultSet(s, room))
<1> DEFINE F == FaultSet(s, room)
           G == FaultSet(t, room)
<1>0. Len(s) \in Nat
    OBVIOUS
<1>1. Len(s) \in Nat /\ Len(t) = Len(s) + 1
    BY DEF Longer
<1>2. IsFiniteSet(1 .. Len(s)) /\ Cardinality(1 .. Len(s)) = Len(s)
    BY <1>0, FromOne
<1>3. F \in SUBSET (1 .. Len(s))
    BY DEF FaultSet
<1>4. IsFiniteSet(F) /\ Cardinality(F) <= Len(s)
    BY <1>2, <1>3, FS_Subset
<1>5. Cardinality(F) \in Nat
    BY <1>4, FS_CardinalityType
<1>6. \A k \in 1 .. Len(s) : Missed(t, k, room) = Missed(s, k, room)
    BY MissedSame
<1>7. Len(s) + 1 \notin F
    BY <1>1, <1>3
<1>8. Missed(t, Len(s) + 1, room) => G = F \cup {Len(s) + 1}
    BY <1>1, <1>6 DEF FaultSet
<1>9. ~Missed(t, Len(s) + 1, room) => G = F
    BY <1>1, <1>6 DEF FaultSet
<1> HIDE DEF F, G
<1>10. Cardinality(F \cup {Len(s) + 1}) = Cardinality(F) + 1
    BY <1>4, <1>7, FS_AddElement
<1> QED BY <1>4, <1>5, <1>8, <1>9, <1>10 DEF F, G

(* One reference more among the pages used. *)
LEMMA UsedNext ==
    ASSUME NEW s \in Seq(Pages), NEW p \in Pages, NEW t \in Seq(Pages), Longer(t, s, p)
    PROVE  /\ Cardinality(UsedIn(s)) \in Nat
           /\ p \in UsedIn(s) => Cardinality(UsedIn(t)) = Cardinality(UsedIn(s))
           /\ p \notin UsedIn(s) => Cardinality(UsedIn(t)) = Cardinality(UsedIn(s)) + 1
<1>1. UsedIn(t) = UsedIn(s) \cup {p}
    BY LastAppend
<1>2. IsFiniteSet(UsedIn(s)) /\ Cardinality(UsedIn(s)) \in Nat
    BY UsedFinite
<1> QED BY <1>1, <1>2, FS_AddElement

(* A list that lacks a used page is shorter than the pages used. *)
LEMMA StackShort ==
    ASSUME NEW s \in Seq(Pages), NEW M \in Seq(Pages), Stacked(M, s),
           NEW p \in UsedIn(s), p \notin UsedIn(M)
    PROVE  Len(M) + 1 <= Cardinality(UsedIn(s))
<1>1. IsFiniteSet(UsedIn(M)) /\ Cardinality(UsedIn(M)) = Len(M)
    BY StackDistinct, DistinctCount
<1>2. IsFiniteSet(UsedIn(s))
    BY UsedFinite
<1>3. UsedIn(M) \cup {p} \in SUBSET UsedIn(s)
    BY DEF Stacked, UsedIn
<1>4. Cardinality(UsedIn(M) \cup {p}) = Len(M) + 1
    BY <1>1, FS_AddElement
<1> QED BY <1>2, <1>3, <1>4, FS_Subset
-----------------------------------------------------------------------------
(* What both ways of a reference share: the string, its pages, its faults. *)
LEMMA ReferenceFacts ==
    ASSUME LruInv, NEW p \in Pages, Reference(p)
    PROVE  /\ string' \in Seq(Pages) /\ Longer(string', string, p)
           /\ Len(string') <= References /\ Len(string) \in Nat
           /\ Capacity \in Nat \ {0} /\ Capacity' = Capacity
           /\ Len(memory) \in Nat
           /\ Cardinality(UsedIn(string)) \in Nat
           /\ p \in UsedIn(string) =>
                  Cardinality(UsedIn(string)') = Cardinality(UsedIn(string))
           /\ p \notin UsedIn(string) =>
                  Cardinality(UsedIn(string)') = Cardinality(UsedIn(string)) + 1
           /\ pageMissCount \in Nat /\ pageMissCount <= Len(string)
           /\ Missed(string', Len(string) + 1, Capacity) =>
                  Cardinality(Faults') = pageMissCount + 1
           /\ ~Missed(string', Len(string) + 1, Capacity) =>
                  Cardinality(Faults') = pageMissCount
<1>1. /\ string \in Seq(Pages) /\ memory \in Seq(Pages)
      /\ memorySize \in Nat /\ memorySize' = memorySize
      /\ string' = Append(string, p)
      /\ Len(string) < References /\ References \in Nat
    BY PagingAssumption DEF LruInv, LruTypeOK, Reference
<1>2. Len(string) \in Nat /\ Len(memory) \in Nat
    BY <1>1
<1>3. string' \in Seq(Pages) /\ Longer(string', string, p)
    BY <1>1 DEF Longer
<1>4. Len(string') <= References
    BY <1>1, <1>2, <1>3 DEF Longer
<1>5. Capacity \in Nat \ {0} /\ Capacity' = Capacity
    BY <1>1 DEF Capacity
<1>6. PICK t \in Seq(Pages) : t = string'
    BY <1>3
<1>7. Longer(t, string, p)
    BY <1>3, <1>6
<1>8. /\ Cardinality(UsedIn(string)) \in Nat
      /\ p \in UsedIn(string) => Cardinality(UsedIn(t)) = Cardinality(UsedIn(string))
      /\ p \notin UsedIn(string) => Cardinality(UsedIn(t)) = Cardinality(UsedIn(string)) + 1
    BY <1>1, <1>7, UsedNext
<1>9. UsedIn(string)' = UsedIn(t)
    BY <1>6 DEF UsedIn
<1>10. Faults = FaultSet(string, Capacity)
    BY <1>1, FaultsAre
<1>11. Faults' = FaultSet(t, Capacity)
  <2>1. DOMAIN t = 1 .. Len(t)
      OBVIOUS
  <2>2. \A j, k : Between(j, k)' = Gap(t, j, k)
      BY <1>6 DEF Between, Gap
  <2>3. \A k : Missed(t, k, Capacity) <=>
                 ~\E j \in 1 .. k - 1 :
                      t[j] = t[k] /\ Cardinality(Between(j, k)') < Capacity
      BY <2>2 DEF Missed
  <2> QED BY <2>1, <2>3, <1>5, <1>6 DEF Faults, FaultSet
<1>12. PICK F, G : F = FaultSet(string, Capacity) /\ G = FaultSet(t, Capacity)
    OBVIOUS
<1>13. /\ Cardinality(F) \in Nat /\ Cardinality(F) <= Len(string)
       /\ Missed(t, Len(string) + 1, Capacity) => Cardinality(G) = Cardinality(F) + 1
       /\ ~Missed(t, Len(string) + 1, Capacity) => Cardinality(G) = Cardinality(F)
    BY <1>1, <1>7, <1>12, FaultsNext
<1>14. pageMissCount = Cardinality(F) /\ Faults' = G
    BY <1>10, <1>11, <1>12 DEF LruInv
<1> QED BY <1>2, <1>3, <1>4, <1>5, <1>6, <1>8, <1>9, <1>13, <1>14

(* A hit moves the page to the head and counts nothing.                    *)
LEMMA LruHitKeeps ==
    ASSUME LruInv, NEW p \in Pages, Reference(p), Hit(p)
    PROVE  LruInv'
<1>1. PICK x0 \in 1 .. Len(memory) : memory[x0] = p
  <2>1. DOMAIN memory = 1 .. Len(memory)
      BY DEF LruInv, LruTypeOK
  <2> QED BY <2>1 DEF Hit, findNode
<1>2. /\ memory \in Seq(Pages) /\ string \in Seq(Pages) /\ Stacked(memory, string)
      /\ memory' = insertAtHead(deleteNode(memory, p), p)
      /\ cpn' = cpn /\ pageMissCount' = pageMissCount /\ memorySize' = memorySize
    BY DEF LruInv, LruTypeOK, Hit, Reference
<1>3. \A x, y \in 1 .. Len(memory) : x # y => memory[x] # memory[y]
    BY <1>2, StackDistinct
<1>4. PICK N : N = memory'
    OBVIOUS
<1>5. N = insertAtHead(deleteNode(memory, p), p)
    BY <1>2, <1>4
<1>6. N \in Seq(Pages) /\ Rotated(N, memory, x0) /\ Len(N) = Len(memory)
  <2>1. N \in Seq(Pages) /\ Rotated(N, memory, x0)
      BY <1>1, <1>2, <1>3, <1>5, HitShape
  <2> QED BY <2>1 DEF Rotated
<1>7. PICK t \in Seq(Pages) : t = string'
    BY ReferenceFacts
<1>8. Longer(t, string, p)
    BY <1>7, ReferenceFacts
<1>9. Stacked(N, t)
    BY <1>1, <1>2, <1>6, <1>8, HitStack
<1>10. p \in UsedIn(string)
    BY <1>1, <1>2 DEF Stacked
<1>11. Len(memory) <= Capacity
    BY ReferenceFacts DEF LruInv
<1>12. ~Missed(t, Len(string) + 1, Capacity)
  <2>1. Capacity \in Nat
      BY ReferenceFacts
  <2> QED BY <1>1, <1>2, <1>8, <1>11, <2>1, HitIsNoFault
<1>13. LruTypeOK'
    BY <1>2, <1>4, <1>6, ReferenceFacts DEF LruInv, LruTypeOK
<1>14. Stacked(memory', string')
    BY <1>4, <1>7, <1>9
<1>15. pageMissCount' = Cardinality(Faults')
    BY <1>2, <1>7, <1>12, ReferenceFacts
<1>16. Len(memory') = IF Cardinality(UsedIn(string)') < Capacity'
                     THEN Cardinality(UsedIn(string)') ELSE Capacity'
    BY <1>4, <1>6, <1>10, ReferenceFacts DEF LruInv
<1>17. cpn' = IF memorySize' = 0 THEN 0 ELSE Len(memory')
    BY <1>2, <1>4, <1>6 DEF LruInv
<1> QED BY <1>13, <1>14, <1>15, <1>16, <1>17 DEF LruInv

(* A miss counts a fault, and drops the tail when all frames are used.     *)
LEMMA LruMissKeeps ==
    ASSUME LruInv, NEW p \in Pages, Reference(p), Miss(p)
    PROVE  LruInv'
<1>1. /\ memory \in Seq(Pages) /\ string \in Seq(Pages) /\ Stacked(memory, string)
      /\ memorySize \in 0 .. MaxFrames /\ MaxFrames \in Nat
      /\ pageMissCount' = pageMissCount + 1 /\ memorySize' = memorySize
    BY PagingAssumption DEF LruInv, LruTypeOK, Miss, Reference
<1>2. p \notin UsedIn(memory)
    BY DEF Miss, findNode, UsedIn
<1>3. Len(memory) \in Nat
    BY <1>1
<1> DEFINE m == IF cpn >= memorySize /\ Len(memory) # 0 THEN Len(memory) - 1 ELSE Len(memory)
<1>4. m \in 0 .. Len(memory)
    BY <1>3
<1>5. PICK N : N = memory'
    OBVIOUS
<1>6. N = insertAtHead(SubSeq(memory, 1, m), p)
  <2>1. SubSeq(memory, 1, Len(memory)) = memory
      BY <1>1, SubSeqFull
  <2>2. memory = <<>> <=> Len(memory) = 0
      BY <1>1
  <2> QED BY <1>5, <2>1, <2>2 DEF Miss, deleteTail
<1> HIDE DEF m
<1>7. PICK rest : rest = SubSeq(memory, 1, m)
    OBVIOUS
<1>8. rest \in Seq(Pages) /\ Len(rest) = m /\ \A x \in 1 .. m : rest[x] = memory[x]
    BY <1>1, <1>4, <1>7, PrefixShape
<1>9. /\ insertAtHead(rest, p) \in Seq(Pages)
      /\ Len(insertAtHead(rest, p)) = Len(rest) + 1
      /\ insertAtHead(rest, p)[1] = p
      /\ \A x \in 2 .. Len(rest) + 1 : insertAtHead(rest, p)[x] = rest[x - 1]
  <2>1. rest \in Seq(Pages) /\ p \in Pages
      BY <1>8
  <2> QED BY ONLY <2>1, PushShape
<1>10. /\ N \in Seq(Pages) /\ Len(N) = m + 1 /\ N[1] = p
       /\ \A x \in 2 .. m + 1 : N[x] = memory[x - 1]
  <2>1. N = insertAtHead(rest, p)
      BY <1>6, <1>7
  <2>2. \A x \in 2 .. m + 1 : x - 1 \in 1 .. m
      BY <1>3, <1>4
  <2> QED BY <2>1, <2>2, <1>8, <1>9
<1>11. PICK t \in Seq(Pages) : t = string'
    BY ReferenceFacts
<1>12. Longer(t, string, p)
    BY <1>11, ReferenceFacts
<1>13. Stacked(N, t)
    BY <1>1, <1>2, <1>4, <1>10, <1>12, MissStack
<1>14. p \in UsedIn(string) =>
          Len(memory) + 1 <= Cardinality(UsedIn(string)) /\ Len(memory) = Capacity
  <2>1. p \in UsedIn(string) => Len(memory) + 1 <= Cardinality(UsedIn(string))
      BY <1>1, <1>2, StackShort
  <2> QED BY <2>1, ReferenceFacts DEF LruInv
<1>15. Missed(t, Len(string) + 1, Capacity)
  <2>1. Capacity \in Nat
      BY ReferenceFacts
  <2>2. p \in UsedIn(string) => Capacity <= Len(memory)
      BY <2>1, <1>14
  <2> QED BY <1>1, <1>2, <1>12, <2>1, <2>2, MissIsFault
<1>16. pageMissCount' = Cardinality(Faults')
    BY <1>1, <1>11, <1>15, ReferenceFacts
<1>17. Stacked(memory', string')
    BY <1>5, <1>11, <1>13
<1>18. /\ Len(memory) = IF Cardinality(UsedIn(string)) < Capacity
                        THEN Cardinality(UsedIn(string)) ELSE Capacity
       /\ cpn = IF memorySize = 0 THEN 0 ELSE Len(memory)
       /\ cpn' = IF cpn >= memorySize THEN cpn - 1 + 1 ELSE cpn + 1
       /\ Capacity = IF memorySize = 0 THEN 1 ELSE memorySize
    BY DEF LruInv, Miss, Capacity
<1>19. Len(memory') = IF Cardinality(UsedIn(string)') < Capacity
                     THEN Cardinality(UsedIn(string)') ELSE Capacity
    BY <1>1, <1>3, <1>5, <1>10, <1>14, <1>18, ReferenceFacts DEF m
<1>20. cpn' = IF memorySize = 0 THEN 0 ELSE Len(memory')
    BY <1>1, <1>3, <1>5, <1>10, <1>18, ReferenceFacts DEF m
<1>21. cpn' \in 0 .. MaxFrames
    BY <1>1, <1>18, <1>19, <1>20, ReferenceFacts
<1>22. pageMissCount' \in 0 .. References
  <2>1. Len(string') = Len(string) + 1
      BY ReferenceFacts DEF Longer
  <2> QED BY <2>1, <1>1, ReferenceFacts, PagingAssumption
<1>23. LruTypeOK'
    BY <1>1, <1>5, <1>10, <1>21, <1>22, ReferenceFacts DEF LruTypeOK
<1> QED BY <1>1, <1>16, <1>17, <1>19, <1>20, <1>23, ReferenceFacts DEF LruInv

(* pagelru.c, one reference after the other. *)
LEMMA LruStep == LruInv /\ [LruNext]_lruVars => LruInv'
<1>1. ASSUME LruInv, UNCHANGED lruVars PROVE LruInv'
  <2>1. LruTypeOK' /\ Capacity' = Capacity /\ Faults' = Faults
      BY <1>1 DEF lruVars, LruInv, LruTypeOK, Capacity, Faults, Between
  <2>2. Stacked(memory', string') /\ UsedIn(string)' = UsedIn(string)
      BY <1>1 DEF lruVars, LruInv, UsedIn
  <2> QED BY <1>1, <2>1, <2>2 DEF lruVars, LruInv
<1> QED BY <1>1, LruHitKeeps, LruMissKeeps DEF LruNext, Reference

(* The list in the order of the last uses, cut at the number of frames, is *)
(* the LRU set.                                                            *)
LEMMA LruHolds == LruInv => LRUKeepsMostRecent
<1> SUFFICES ASSUME LruInv PROVE LRUKeepsMostRecent
    OBVIOUS
<1>1. /\ memory \in Seq(Pages) /\ string \in Seq(Pages) /\ Stacked(memory, string)
      /\ DOMAIN memory = 1 .. Len(memory) /\ DOMAIN string = 1 .. Len(string)
    BY DEF LruInv, LruTypeOK
<1>2. \A p : LastUse(p) = Last(string, p)
    BY DEF LastUse, Last
<1>3. UsedIn(memory) \subseteq UsedIn(string)
    BY <1>1 DEF Stacked, UsedIn
<1>4. \A x, y \in DOMAIN memory : x < y => LastUse(memory[x]) > LastUse(memory[y])
    BY <1>1, <1>2 DEF Stacked
<1>5. \A p \in UsedIn(string) \ UsedIn(memory) : \A q \in UsedIn(memory) : LastUse(q) > LastUse(p)
    BY <1>1, <1>2 DEF Stacked, UsedIn
<1>6. /\ Len(memory) = IF Cardinality(UsedIn(string)) < Capacity
                        THEN Cardinality(UsedIn(string)) ELSE Capacity
      /\ cpn = IF memorySize = 0 THEN 0 ELSE Len(memory)
      /\ pageMissCount = Cardinality(Faults)
    BY DEF LruInv
<1> QED BY <1>3, <1>4, <1>5, <1>6, Zenon DEF LRUKeepsMostRecent, UsedIn
-----------------------------------------------------------------------------
(* The pipe of Lab 2.                                                      *)

Other(c) == 3 - c

\* A child that holds the lock is the one that writes, and the others have
\* written nothing or all.
HolderInv ==
    \A c \in Children :
        /\ owner = c <=> child[c] = "writing"
        /\ child[c] \in {"unborn", "born"} => wrote[c] = 0
        /\ child[c] \in {"unlocked", "ended"} => wrote[c] = Count

\* Where the parent is and where the children are.
ParentInv ==
    /\ parent = "fork1" => child[1] = "unborn" /\ child[2] = "unborn"
    /\ parent = "fork2" => child[2] = "unborn"
    /\ parent \in {"read", "print", "crashed", "ended"} =>
           child[1] = "ended" /\ child[2] = "ended"

\* All that was written: the bytes of a, then, once a is through, those of the other.
FirstIs(bytes, a) ==
    /\ Len(bytes) = wrote[a] + wrote[Other(a)]
    /\ wrote[Other(a)] > 0 => wrote[a] = Count
    /\ \A k \in 1 .. Len(bytes) : bytes[k] = IF k <= wrote[a] THEN a ELSE Other(a)

Blocks(bytes) == \E a \in Children : FirstIs(bytes, a)

ReadYet == parent \in {"print", "crashed", "ended"}

PipeInv ==
    /\ PipeTypeOK
    /\ HolderInv
    /\ ParentInv
    /\ ReadYet => fd = <<>> /\ Blocks(InPipe)
    /\ ~ReadYet => InPipe = <<>> /\ Blocks(fd)

(* Before the children start.                                              *)
LEMMA PipeInitially == PipeInit => PipeInv
<1> SUFFICES ASSUME PipeInit PROVE PipeInv
    OBVIOUS
<1> USE PipeAssumption DEF PipeInit
<1>1. PipeTypeOK /\ HolderInv /\ ParentInv /\ ~ReadYet
    BY DEF PipeTypeOK, HolderInv, ParentInv, ReadYet, Children
<1>2. FirstIs(fd, 1)
    BY DEF FirstIs, Other, Children
<1> QED BY <1>1, <1>2 DEF PipeInv, Blocks, Children

(* The steps of the children that write nothing. *)
LEMMA ChildKeeps ==
    ASSUME PipeInv, NEW c \in Children, Lock(c) \/ Unlock(c) \/ ExitChild(c)
    PROVE  PipeInv'
<1> USE PipeAssumption
<1>1. UNCHANGED <<fd, InPipe, wrote, parent>>
    BY DEF Lock, Unlock, ExitChild
<1>2. PipeTypeOK' /\ HolderInv' /\ ParentInv'
    BY DEF Lock, Unlock, ExitChild, PipeInv, PipeTypeOK, HolderInv, ParentInv, Children
<1>3. /\ ReadYet' = ReadYet
      /\ Blocks(fd)' = Blocks(fd)
      /\ Blocks(InPipe)' = Blocks(InPipe)
    BY <1>1 DEF ReadYet, Blocks, FirstIs
<1> QED BY <1>1, <1>2, <1>3 DEF PipeInv

(* A byte is the next one of the block that is being written, or, when     *)
(* nothing was written or the first block is whole, the first of its own.  *)
LEMMA WriteKeeps ==
    ASSUME PipeInv, NEW c \in Children, WriteByte(c)
    PROVE  PipeInv'
<1> USE PipeAssumption
<1>1. PipeTypeOK' /\ HolderInv' /\ ParentInv'
    BY SMTT(30) DEF WriteByte, PipeInv, PipeTypeOK, HolderInv, ParentInv, Children
<1>2. ~ReadYet /\ ~ReadYet' /\ InPipe' = <<>> /\ Blocks(fd)
    BY DEF WriteByte, PipeInv, ParentInv, ReadYet, Children
<1>3. PICK a \in Children : FirstIs(fd, a)
    BY <1>2 DEF Blocks
<1>4. /\ wrote \in [Children -> 0 .. Count]
      /\ fd \in Seq(Children)
      /\ fd' = Append(fd, c)
      /\ wrote' = [wrote EXCEPT ![c] = @ + 1]
      /\ wrote[c] < Count
    BY DEF WriteByte, PipeInv, PipeTypeOK
<1>5. a # c => wrote[a] = 0 \/ wrote[a] = Count
    BY DEF WriteByte, PipeInv, PipeTypeOK, HolderInv, Children
<1>6. /\ Len(fd') = Len(fd) + 1
      /\ \A k \in 1 .. Len(fd) : fd'[k] = fd[k]
      /\ fd'[Len(fd) + 1] = c
    BY <1>4
<1>7. CASE a = c
  <2>1. FirstIs(fd, a)'
      BY <1>3, <1>4, <1>6, <1>7, SMTT(30) DEF FirstIs, Other, Children
  <2> QED BY <2>1, <1>1, <1>2 DEF PipeInv, Blocks
<1>8. CASE a # c /\ wrote[a] = Count
  <2>1. Other(a) = c /\ wrote'[a] = wrote[a] /\ wrote'[c] = wrote[c] + 1
      BY <1>4, <1>8 DEF Other, Children
  <2>2. wrote[a] \in Nat /\ wrote[c] \in Nat
      BY <1>4
  <2>3. Len(fd) = wrote[a] + wrote[c] /\ \A k \in 1 .. Len(fd) : fd[k] = IF k <= wrote[a] THEN a ELSE c
      BY <1>3, <2>1 DEF FirstIs
  <2>4. \A k \in 1 .. Len(fd') : fd'[k] = IF k <= wrote'[a] THEN a ELSE c
    <3>1. \A k \in 1 .. Len(fd') : k \in 1 .. Len(fd) \/ k = Len(fd) + 1
        BY <2>2, <2>3, <1>6
    <3>2. ~(Len(fd) + 1 <= wrote[a])
        BY <2>2, <2>3
    <3> QED BY <3>1, <3>2, <2>1, <2>3, <1>6
  <2>5. Len(fd') = wrote'[a] + wrote'[c]
      BY <2>1, <2>2, <2>3, <1>6
  <2>6. FirstIs(fd, a)'
      BY <2>1, <2>4, <2>5, <1>8 DEF FirstIs, Other
  <2> QED BY <2>6, <1>1, <1>2 DEF PipeInv, Blocks
<1>9. CASE a # c /\ wrote[a] = 0
  <2>1. wrote[c] = 0
      BY <1>3, <1>4, <1>9 DEF FirstIs, Other, Children
  <2>2. FirstIs(fd, c)'
      BY <2>1, <1>3, <1>4, <1>6, <1>9 DEF FirstIs, Other, Children
  <2> QED BY <2>2, <1>1, <1>2 DEF PipeInv, Blocks
<1> QED BY <1>5, <1>7, <1>8, <1>9

(* The parent hands on what it read. *)
LEMMA ParentKeeps == PipeInv /\ ParentOfPipe => PipeInv'
<1> SUFFICES ASSUME PipeInv, ParentOfPipe PROVE PipeInv'
    OBVIOUS
<1> USE PipeAssumption
<1>1. CASE WaitChild
  <2>1. PipeTypeOK' /\ HolderInv' /\ ParentInv'
      BY <1>1 DEF WaitChild, Dead, PipeInv, PipeTypeOK, HolderInv, ParentInv, Children
  <2>2. ~ReadYet /\ ~ReadYet' /\ InPipe' = InPipe /\ Blocks(fd)' = Blocks(fd)
      BY <1>1 DEF WaitChild, ReadYet, Blocks, FirstIs
  <2> QED BY <2>1, <2>2 DEF PipeInv
<1>2. CASE ReadAll
  <2>1. PipeTypeOK' /\ HolderInv' /\ ParentInv'
      BY <1>2 DEF ReadAll, PipeInv, PipeTypeOK, HolderInv, ParentInv, Children
  <2>2. ~ReadYet /\ ReadYet' /\ fd' = <<>> /\ Blocks(InPipe)' = Blocks(fd)
      BY <1>2 DEF ReadAll, ReadYet, Blocks, FirstIs
  <2> QED BY <2>1, <2>2 DEF PipeInv
<1>3. CASE PrintPipe
  <2>1. PipeTypeOK' /\ HolderInv' /\ ParentInv'
      BY <1>3 DEF PrintPipe, PipeInv, PipeTypeOK, HolderInv, ParentInv, Children
  <2>2. ReadYet /\ ReadYet' /\ fd' = fd /\ Blocks(InPipe)' = Blocks(InPipe)
      BY <1>3 DEF PrintPipe, ReadYet, Blocks, FirstIs
  <2> QED BY <2>1, <2>2 DEF PipeInv
<1>4. ASSUME NEW c \in Children, ForkChild(c) PROVE PipeInv'
  <2>1. PipeTypeOK' /\ HolderInv' /\ ParentInv'
      BY <1>4 DEF ForkChild, PipeInv, PipeTypeOK, HolderInv, ParentInv, Children
  <2>2. ~ReadYet /\ ~ReadYet' /\ InPipe' = InPipe /\ Blocks(fd)' = Blocks(fd)
      BY <1>4 DEF ForkChild, ReadYet, Blocks, FirstIs, Children
  <2> QED BY <2>1, <2>2 DEF PipeInv
<1> QED BY <1>1, <1>2, <1>3, <1>4 DEF ParentOfPipe

(* The next-state relation of the pipe program. *)
LEMMA PipeStep == PipeInv /\ [PipeNext]_pipeVars => PipeInv'
<1>1. ASSUME PipeInv, UNCHANGED pipeVars PROVE PipeInv'
  <2>1. PipeTypeOK' /\ HolderInv' /\ ParentInv'
      BY <1>1 DEF pipeVars, PipeInv, PipeTypeOK, HolderInv, ParentInv, Children
  <2>2. /\ ReadYet' = ReadYet
        /\ Blocks(fd)' = Blocks(fd)
        /\ Blocks(InPipe)' = Blocks(InPipe)
        /\ fd' = fd /\ InPipe' = InPipe
      BY <1>1 DEF pipeVars, ReadYet, Blocks, FirstIs
  <2> QED BY <1>1, <2>1, <2>2 DEF PipeInv
<1> QED BY <1>1, ChildKeeps, WriteKeeps, ParentKeeps DEF PipeNext, ChildOfPipe

(* Two blocks, one behind the other, are not mixed. *)
LEMMA BlocksUnmixed ==
    ASSUME NEW bytes \in Seq(Children), wrote \in [Children -> 0 .. Count], Blocks(bytes)
    PROVE  Unmixed(bytes)
<1>1. PICK a \in Children : FirstIs(bytes, a)
    BY DEF Blocks
<1>2. DOMAIN bytes = 1 .. Len(bytes) /\ Len(bytes) \in Nat
    OBVIOUS
<1>3. ASSUME NEW x \in 1 .. Len(bytes), NEW y \in 1 .. Len(bytes), NEW z \in 1 .. Len(bytes),
             x < y, y < z, bytes[x] = bytes[z]
      PROVE  bytes[y] = bytes[x]
    BY <1>1, <1>2, <1>3, PipeAssumption DEF FirstIs, Other, Children
<1> QED BY <1>2, <1>3 DEF Unmixed

(* A sequence of one value only. *)
LEMMA AllTheSame ==
    ASSUME NEW S, NEW bytes \in Seq(S), NEW n \in Nat, NEW c,
           Len(bytes) = n, \A k \in 1 .. n : bytes[k] = c
    PROVE  bytes = [k \in 1 .. n |-> c]
OBVIOUS

(* What the pipe program promises. *)
LEMMA PipeHolds == PipeInv => BlocksArriveWhole
<1> SUFFICES ASSUME PipeInv PROVE BlocksArriveWhole
    OBVIOUS
<1>1. /\ fd \in Seq(Children) /\ InPipe \in Seq(Children)
      /\ wrote \in [Children -> 0 .. Count]
      /\ Count \in Nat \ {0}
    BY PipeAssumption DEF PipeInv, PipeTypeOK
<1>2. Unmixed(<<>>)
    BY DEF Unmixed
<1>3. Unmixed(fd) /\ Unmixed(InPipe)
    BY <1>1, <1>2, BlocksUnmixed DEF PipeInv
<1>4. ASSUME parent \in {"print", "ended"}
      PROVE  /\ Len(InPipe) = 2 * Count
             /\ \A c \in Children : \E k \in DOMAIN InPipe :
                   SubSeq(InPipe, k, k + Count - 1) = [n \in 1 .. Count |-> c]
  <2>1. \A c \in Children : wrote[c] = Count
      BY <1>4 DEF PipeInv, ParentInv, HolderInv, Children
  <2>2. PICK a \in Children : FirstIs(InPipe, a)
      BY <1>4 DEF PipeInv, ReadYet, Blocks
  <2>3. Other(a) \in Children
      BY DEF Other, Children
  <2>4. Len(InPipe) = 2 * Count
      BY <2>1, <2>2, <2>3, <1>1 DEF FirstIs
  <2>5. \A k \in 1 .. Count : InPipe[k] = a
      BY <2>1, <2>2, <2>4, <1>1 DEF FirstIs
  <2>6. \A k \in 1 .. Count : InPipe[Count + k] = Other(a)
      BY <2>1, <2>2, <2>4, <1>1 DEF FirstIs
  <2>7. SubSeq(InPipe, 1, 1 + Count - 1) = [n \in 1 .. Count |-> a]
    <3>1. 1 + Count - 1 = Count /\ Count <= Len(InPipe)
        BY <2>4, <1>1
    <3>2. /\ Len(SubSeq(InPipe, 1, Count)) = Count
          /\ SubSeq(InPipe, 1, Count) \in Seq(Children)
          /\ \A n \in 1 .. Count : SubSeq(InPipe, 1, Count)[n] = InPipe[n]
        BY <3>1, <1>1, PrefixShape
    <3>3. \A n \in 1 .. Count : SubSeq(InPipe, 1, Count)[n] = a
        BY <3>2, <2>5
    <3>4. SubSeq(InPipe, 1, Count) = [n \in 1 .. Count |-> a]
        BY <3>2, <3>3, <1>1, AllTheSame
    <3> QED BY <3>1, <3>4
  <2>8. SubSeq(InPipe, Count + 1, Count + 1 + Count - 1) = [n \in 1 .. Count |-> Other(a)]
    <3>1. Count + 1 + Count - 1 = 2 * Count
        BY <1>1
    <3>2. /\ Len(SubSeq(InPipe, Count + 1, 2 * Count)) = Count
          /\ SubSeq(InPipe, Count + 1, 2 * Count) \in Seq(Children)
          /\ \A n \in 1 .. Count :
                SubSeq(InPipe, Count + 1, 2 * Count)[n] = InPipe[Count + n]
        BY <2>4, <1>1, SubSeqProperties
    <3>3. \A n \in 1 .. Count : SubSeq(InPipe, Count + 1, 2 * Count)[n] = Other(a)
        BY <3>2, <2>6
    <3>4. SubSeq(InPipe, Count + 1, 2 * Count) = [n \in 1 .. Count |-> Other(a)]
        BY <3>2, <3>3, <1>1, AllTheSame
    <3> QED BY <3>1, <3>4
  <2>9. DOMAIN InPipe = 1 .. 2 * Count /\ 1 \in DOMAIN InPipe /\ Count + 1 \in DOMAIN InPipe
      BY <2>4, <1>1
  <2>10. \A c \in Children : c = a \/ c = Other(a)
      BY DEF Other, Children
  <2> QED BY <2>4, <2>7, <2>8, <2>9, <2>10
<1> QED BY <1>3, <1>4 DEF BlocksArriveWhole
-----------------------------------------------------------------------------
(* The signals of Lab 2.                                                   *)

\* The parent has not sent its signal to c yet.
Unsent(c) ==
    \/ father \in {"fork1", "fork2", "install", "sleep1", "kill1"}
    \/ c = 2 /\ (father \in {"sleep2", "kill2"} \/ (source = "alarm" /\ father = "wait1"))

\* at records the one signal that c gets; and the stages of the two programs.
SentInv ==
    /\ \A c \in Sons : Unsent(c) => at[c] = "unborn"
    /\ father \in {"sleep1", "sleep2"} => source = "alarm"
    /\ father = "sleep3" => source = "kill1617"
    /\ \A c \in Sons : at[c] \in {"born", "ignoring"} /\ c = 1 => son[c] = "killed"

SignalsInv == SignalsTypeOK /\ SentInv /\ SignalFates

(* Before the parent is interrupted.                                       *)
LEMMA SignalsInitially == SignalsInit => SignalsInv
BY DEF SignalsInit, SignalsInv, SignalsTypeOK, SentInv, SignalFates, Unsent,
       MissedSignal, Gone, Sons, SonStages

(* The parent, up to its last line. *)
LEMMA FatherKeeps == SignalsInv /\ (FatherStep \/ AlarmRings) => SignalsInv'
<1> SUFFICES ASSUME SignalsInv, FatherStep \/ AlarmRings PROVE SignalsInv'
    OBVIOUS
<1> USE DEF SignalsInv, SignalsTypeOK, SentInv, SignalFates, Unsent,
            MissedSignal, Gone, Sons, SonStages
<1>1. CASE InstallFather
    BY <1>1 DEF InstallFather
<1>2. CASE SleepEnds
    BY <1>2 DEF SleepEnds
<1>3. CASE WaitFirst
    BY <1>3 DEF WaitFirst
<1>4. CASE WaitSecond
    BY <1>4 DEF WaitSecond
<1>5. CASE PrintFather
    BY <1>5 DEF PrintFather
<1>6. CASE AlarmRings
    BY <1>6 DEF AlarmRings
<1>7. ASSUME NEW c \in Sons, ForkSon(c) PROVE SignalsInv'
    BY <1>7 DEF ForkSon
<1>8. ASSUME NEW c \in Sons, Kill(c) PROVE SignalsInv'
    BY <1>8 DEF Kill, Fate
<1> QED BY <1>1, <1>2, <1>3, <1>4, <1>5, <1>6, <1>7, <1>8 DEF FatherStep

(* A child, and the key ^C. *)
LEMMA SonKeeps ==
    ASSUME SignalsInv, NEW c \in Sons, LifeOfSon(c) PROVE SignalsInv'
BY DEF LifeOfSon, Ignore, InstallSon, Pause, Announce, SonStep,
       SignalsInv, SignalsTypeOK, SentInv, SignalFates, Unsent,
       MissedSignal, Gone, Sons, SonStages

(* ^C reaches the three processes, and at most once.                       *)
LEMMA BreakKeeps == SignalsInv /\ Break => SignalsInv'
BY DEF Break, SignalsInv, SignalsTypeOK, SentInv, SignalFates, Unsent,
       MissedSignal, Gone, Sons, SonStages

(* Every step of the three processes keeps it.                             *)
LEMMA SignalsStep == SignalsInv /\ [SignalsNext]_signalVars => SignalsInv'
<1>1. SignalsInv /\ UNCHANGED signalVars => SignalsInv'
    BY DEF signalVars, SignalsInv, SignalsTypeOK, SentInv, SignalFates, Unsent,
           MissedSignal, Gone
<1> QED BY <1>1, FatherKeeps, SonKeeps, BreakKeeps DEF SignalsNext
-----------------------------------------------------------------------------
(* execl and system in the threads of Lab 1.                               *)

Runs(t) == IF worker[t] = "ended" THEN 1 ELSE 0

\* What execl and system leave of the process, and of the threads.
ImageInv ==
    /\ call = "exec" =>
         /\ runs = IF image = "self" THEN 0 ELSE 1
         /\ image # "self" => present
         /\ \A t \in Workers : worker[t] # "waiting" /\ (worker[t] = "ended" => ~present)
    /\ call = "system" =>
         image = "self" /\ runs = IF present THEN Runs(1) + Runs(2) ELSE 0

\* Which threads main has started, and which it has joined.
CallerInv ==
    \A t \in Workers :
        /\ caller \in 1 .. t => worker[t] = "unborn"
        /\ caller \in t + 3 .. 6 => worker[t] = "ended"

ExecInv == ExecTypeOK /\ ImageInv /\ CallerInv

(* Before the threads start.                                               *)
LEMMA ExecInitially == ExecInit => ExecInv
BY DEF ExecInit, ExecInv, ExecTypeOK, ImageInv, CallerInv, Runs, Workers

(* The calls of main, and the end of ./thread, start nothing. *)
LEMMA CallerKeeps == ExecInv /\ (CallOfCaller \/ ThreadEnds) => ExecInv'
<1> SUFFICES ASSUME ExecInv, CallOfCaller \/ ThreadEnds PROVE ExecInv'
    OBVIOUS
<1> USE DEF ExecInv, ExecTypeOK, ImageInv, CallerInv, Runs, Workers, Running
<1>1. CASE SpawnFails
    BY <1>1 DEF SpawnFails
<1>2. CASE Return
    BY <1>2 DEF Return
<1>3. ASSUME NEW t \in Workers, Spawn(t) PROVE ExecInv'
    BY <1>3 DEF Spawn
<1>4. ASSUME NEW t \in Workers, JoinWorker(t) PROVE ExecInv'
    BY <1>4 DEF JoinWorker
<1>5. CASE ThreadEnds
    BY <1>5 DEF ThreadEnds
<1> QED BY <1>1, <1>2, <1>3, <1>4, <1>5 DEF CallOfCaller

(* A thread that calls execl takes the process along; one that calls       *)
(* system counts its run.                                                  *)
LEMMA WorkerKeeps ==
    ASSUME ExecInv, NEW t \in Workers, WorkerStep(t) PROVE ExecInv'
<1> USE DEF ExecInv, ExecTypeOK, ImageInv, CallerInv, Runs, Workers, Running
<1>1. CASE SayTid(t)
    BY <1>1 DEF SayTid
<1>2. CASE Exec(t)
    BY <1>2 DEF Exec
<1>3. CASE System(t)
    BY <1>3 DEF System
<1>4. CASE SystemReturns(t)
    BY <1>4 DEF SystemReturns
<1> QED BY <1>1, <1>2, <1>3, <1>4 DEF WorkerStep

(* Every step of the threads keeps it.                                     *)
LEMMA ExecStep == ExecInv /\ [ExecNext]_execVars => ExecInv'
<1>1. ExecInv /\ UNCHANGED execVars => ExecInv'
    BY DEF execVars, ExecInv, ExecTypeOK, ImageInv, CallerInv, Runs
<1> QED BY <1>1, CallerKeeps, WorkerKeeps DEF ExecNext

(* At most one exec takes the process, and nothing else runs after it.     *)
LEMMA ExecHolds == ExecInv => ExecRunsOnce
BY DEF ExecInv, ExecTypeOK, ImageInv, CallerInv, Runs, Workers, ExecRunsOnce
-----------------------------------------------------------------------------
(* All of them. *)

ProgramsInv ==
    /\ program \in {"counter", "pipe", "signals", "exec", "fifo", "lru", "session", "scan"}
    /\ CounterInv
    /\ PipeInv
    /\ SignalsInv
    /\ ExecInv
    /\ FifoInv
    /\ LruInv
    /\ SessionTypes /\ Flags
    /\ ScanInv

(* The choice of the program that runs leaves each at a beginning. *)
LEMMA ProgramsInitially == ProgramsInit => ProgramsInv
<1>1. SessionInit => Flags
    BY DEF SessionInit, NotRunning, Flags
<1> QED
    BY <1>1, InitCounterInv, PipeInitially, SignalsInitially, ExecInitially, FifoInitially,
       LruInitially, TypesInitially, ScanInitially DEF ProgramsInit, ProgramsInv

(* The step of one program is a stutter of the others. *)
LEMMA ProgramsStep == ProgramsInv /\ [ProgramsNext]_programVars => ProgramsInv'
<1> SUFFICES ASSUME ProgramsInv, [ProgramsNext]_programVars PROVE ProgramsInv'
    OBVIOUS
<1>1. /\ program' = program
      /\ [CounterNext]_counterVars
      /\ [PipeNext]_pipeVars
      /\ [SignalsNext]_signalVars
      /\ [ExecNext]_execVars
      /\ [FifoNext]_fifoVars
      /\ [LruNext]_lruVars
      /\ [SessionNext]_sessionVars
      /\ [ScanNext]_scanVars
    BY DEF ProgramsNext, programVars
<1> QED
    BY <1>1, CounterStep, PipeStep, SignalsStep, ExecStep, FifoStep, LruStep, TypesStep,
       ScanStep
    DEF ProgramsInv

(* Hence every program keeps its invariant. *)
LEMMA ProgramsInvariant == ProgramsSpec => []ProgramsInv
BY ProgramsInitially, ProgramsStep, PTL DEF ProgramsSpec

(* The variables of all the programs stay in their types, for any values   *)
(* of the constants: the numbers of threads' rounds, bytes, frames and     *)
(* references, of streams, and of bits in a bitmap: its search never       *)
(* leaves it, nor its byte.                                                *)
THEOREM ProgramsKeepTypes == ProgramsSpec => []ProgramsTypeOK
<1>1. ProgramsInv => ProgramsTypeOK
    BY SessionTypesHold
       DEF ProgramsInv, ProgramsTypeOK, CounterInv, PipeInv, SignalsInv, ExecInv, FifoInv, LruInv,
           ScanInv
<1> QED BY <1>1, ProgramsInvariant, PTL

(* For any number of bytes and any size of the pipe, the two children's    *)
(* bytes arrive in two blocks, and the parent reads both in full.          *)
THEOREM PipeBlocksArrive == ProgramsSpec => []BlocksArriveWhole
<1>1. ProgramsInv => BlocksArriveWhole
    BY PipeHolds DEF ProgramsInv
<1> QED BY <1>1, ProgramsInvariant, PTL

(* A child of the signal programs has gone the way its one signal sends it *)
(* and hangs only when the signal came before pause().                     *)
THEOREM SignalsAreSettled == ProgramsSpec => []SignalFates
<1>1. ProgramsInv => SignalFates
    BY DEF ProgramsInv, SignalsInv
<1> QED BY <1>1, ProgramsInvariant, PTL

(* execl in a thread takes the whole process along and runs ./thread once; *)
(* system runs it once for each thread.                                    *)
THEOREM ExecTakesAll == ProgramsSpec => []ExecRunsOnce
<1>1. ProgramsInv => ExecRunsOnce
    BY ExecHolds DEF ProgramsInv
<1> QED BY <1>1, ProgramsInvariant, PTL

(* pagelru.c replaces the page whose last use is longest ago, for any      *)
(* number of frames and any string of references, and its misses are the   *)
(* faults of that policy.                                                  *)
THEOREM LruIsByLastUse == ProgramsSpec => []LRUKeepsMostRecent
<1>1. ProgramsInv => LRUKeepsMostRecent
    BY LruHolds DEF ProgramsInv
<1> QED BY <1>1, ProgramsInvariant, PTL

(* For every size of bitmap, every set of bits in use and every hint, the  *)
(* loops mark exactly the bit FirstClear names, a clear one, and leave it  *)
(* as the hint: what the file system model takes alloc_block and get_inode *)
(* to do in one step.                                                      *)
THEOREM ScanIsFirstClear == ProgramsSpec => []ScanTakesFirstClear
<1>1. ProgramsInv => ScanTakesFirstClear
    BY DEF ProgramsInv, ScanInv
<1> QED BY <1>1, ProgramsInvariant, PTL
=============================================================================
