------------------------------- MODULE Session -------------------------------
(***************************************************************************)
(* The account of Lab3/ex2.c: its creation at the end of initialize_disk,  *)
(* login, Newpassword, and the stream fp through which all of it goes.     *)
(*                                                                         *)
(* The group descriptor has a copy in memory, gdt; here it has its volume  *)
(* name and the account, "" for zeroed arrays.  Every update_* opens a     *)
(* stream more and closes none; when there are no more, fopen returns NULL *)
(* and the next fseek ends the program.  initialize_disk closes fp before  *)
(* it returns: after the first start of the program the commands begin     *)
(* with a closed stream, and reading from that either ends the program or  *)
(* reads nothing.                                                          *)
(***************************************************************************)
EXTENDS Integers

CONSTANTS
    Words,         \* what the user types as a name or a password
    StreamLimit    \* streams a process can have open: 1021 besides the standard ones

ASSUME SessionAssumption == "" \notin Words /\ "q" \in Words /\ StreamLimit \in Nat

Accounts == [usr : Words \cup {""}, pwd : Words \cup {""}]

Blank == [usr |-> "", pwd |-> ""]

VARIABLES
    volume,     \* of the file ./Ext2: "none", "other" or "myext2"
    account,    \* the account on the disk
    gdt,        \* the account in memory
    fp,         \* "null", "open" or "closed"
    streams,    \* open streams
    stage,      \* what the program waits for; "off": it does not run
    formatting, \* initialize_disk has been called by format
    usrname,    \* the name typed, while the password is asked for
    known,      \* history: the account the user has proved to know
    cut         \* history: the program died while it created this disk

sessionVars == <<volume, account, gdt, fp, streams, stage, formatting, usrname, known, cut>>

disk == <<volume, account, cut>>

Creating == {"new user", "new password"}
Inside == {"prompt", "old password", "changed password"}

SessionTypeOK ==
    /\ volume \in {"none", "other", "myext2"}
    /\ account \in Accounts
    /\ gdt \in Accounts
    /\ fp \in {"null", "open", "closed"}
    /\ streams \in 0 .. StreamLimit
    /\ stage \in Creating \cup Inside \cup {"off", "user", "password"}
    /\ formatting \in BOOLEAN
    /\ usrname \in Words \cup {""}
    /\ known \in Accounts
    /\ cut \in BOOLEAN

NotRunning ==
    /\ gdt = Blank
    /\ fp = "null"
    /\ streams = 0
    /\ stage = "off"
    /\ formatting = FALSE
    /\ usrname = ""
    /\ known = Blank

SessionInit ==
    /\ volume \in {"none", "other"}
    /\ account = Blank
    /\ cut = FALSE
    /\ NotRunning

\* The program ends; what it had in memory is gone.
Off ==
    /\ gdt' = Blank
    /\ fp' = "null"
    /\ streams' = 0
    /\ stage' = "off"
    /\ formatting' = FALSE
    /\ usrname' = ""
    /\ known' = Blank

Dies == Off /\ UNCHANGED disk
-----------------------------------------------------------------------------
\* The updates of initialize_disk before the account is asked for.
FirstUpdates == 8

\* initialize_disk up to its first question.  The volume name is on the disk
\* with the first update, the account with the last one after the questions.
\* open counts the streams left open by what came before.
CreateDisk(open, byFormat) ==
    \/ /\ Off   \* a kill while the blocks are zeroed, or no stream for the first update
       /\ volume' = "none" /\ account' = Blank /\ cut' = TRUE
    \/ /\ open + 1 < StreamLimit
       /\ open + 1 + FirstUpdates > StreamLimit
       /\ Off   \* no stream for one of the others
       /\ volume' = "myext2" /\ account' = Blank /\ cut' = TRUE
    \/ /\ open + 1 + FirstUpdates <= StreamLimit
       /\ volume' = "myext2"
       /\ account' = Blank
       /\ cut' = FALSE
       /\ gdt' = Blank
       /\ fp' = "open"
       /\ streams' = open + 1 + FirstUpdates
       /\ stage' = "new user"
       /\ formatting' = byFormat
       /\ usrname' = ""
       /\ known' = Blank

\* initialize_memory: a disk of another volume is replaced as a missing one
\* is, its stream closed.
Start ==
    /\ stage = "off"
    /\ \/ volume # "myext2" /\ CreateDisk(0, FALSE)
       \/ /\ volume = "myext2"
          /\ gdt' = account
          /\ fp' = "open"
          /\ streams' = 1
          /\ stage' = "user"
          /\ UNCHANGED <<disk, formatting, usrname, known>>

CreateUser(w) ==
    /\ stage = "new user"
    /\ usrname' = w
    /\ stage' = "new password"
    /\ UNCHANGED <<disk, gdt, fp, streams, formatting, known>>

\* Mutant: the account is copied into gdt after the update.
CreatePasswordLate(w) ==
    /\ stage = "new password"
    /\ streams < StreamLimit
    /\ gdt' = [usr |-> usrname, pwd |-> w]
    /\ fp' = "closed"
    /\ stage' = "prompt"
    /\ known' = gdt'
    /\ usrname' = ""
    /\ UNCHANGED <<disk, streams, formatting>>

\* The account, the last update, and fclose.  format goes on with
\* initialize_memory; a first start goes to the prompt.
CreatePassword(w) ==
    /\ stage = "new password"
    /\ \/ streams = StreamLimit /\ Off /\ cut' = TRUE /\ UNCHANGED <<volume, account>>
       \/ /\ streams < StreamLimit
          /\ account' = [usr |-> usrname, pwd |-> w]
          /\ gdt' = account'
          /\ usrname' = ""
          /\ \/ formatting /\ fp' = "open" /\ stage' = "user"
                /\ streams' = streams + 1 /\ known' = Blank
             \/ ~formatting /\ fp' = "closed" /\ stage' = "prompt"
                /\ streams' = streams /\ known' = account'
          /\ formatting' = FALSE
          /\ UNCHANGED <<volume, cut>>
-----------------------------------------------------------------------------
\* "q" leaves; an unknown name is asked for again.
User(w) ==
    /\ stage = "user"
    /\ \/ w = "q" /\ Dies
       \/ /\ w # "q"
          /\ w = gdt.usr
          /\ usrname' = w
          /\ stage' = "password"
          /\ UNCHANGED <<disk, gdt, fp, streams, formatting, known>>

Password(w) ==
    /\ stage = "password"
    /\ \/ w = "q" /\ Dies
       \/ /\ w # "q"
          /\ w = gdt.pwd
          /\ known' = [usr |-> usrname, pwd |-> w]
          /\ usrname' = ""
          /\ stage' = "prompt"
          /\ UNCHANGED <<disk, gdt, fp, streams, formatting>>

\* reload_group_desc; from a closed stream it reads nothing, or crashes.
Reload(next) ==
    \/ fp = "closed" /\ Dies
    \/ /\ gdt' = IF fp = "open" THEN account ELSE gdt
       /\ stage' = next
       /\ usrname' = ""
       /\ known' = IF next = "user" THEN Blank ELSE known
       /\ UNCHANGED <<disk, fp, streams, formatting>>

Login == stage = "prompt" /\ Reload("user")

NewPassword == stage = "prompt" /\ Reload("old password")

\* There is no way out of this loop but the password.
OldPassword(w) ==
    /\ stage = "old password"
    /\ w = gdt.pwd
    /\ stage' = "changed password"
    /\ UNCHANGED <<disk, gdt, fp, streams, formatting, usrname, known>>

\* Mutant: the descriptor is written before the password is copied into it.
ChangedPasswordEarly(w) ==
    /\ stage = "changed password"
    /\ streams < StreamLimit
    /\ gdt' = [gdt EXCEPT !.pwd = w]
    /\ known' = gdt'
    /\ fp' = "open"
    /\ streams' = streams + 1
    /\ stage' = "prompt"
    /\ UNCHANGED <<disk, formatting, usrname>>

ChangedPassword(w) ==
    /\ stage = "changed password"
    /\ \/ streams = StreamLimit /\ Dies
       \/ /\ streams < StreamLimit
          /\ gdt' = [gdt EXCEPT !.pwd = w]
          /\ account' = gdt'
          /\ known' = gdt'
          /\ fp' = "open"
          /\ streams' = streams + 1
          /\ stage' = "prompt"
          /\ UNCHANGED <<volume, cut, formatting, usrname>>

\* One update by any other command, which reads the disk first.
Update ==
    /\ stage = "prompt"
    /\ \/ fp = "closed" /\ Dies
       \/ streams = StreamLimit /\ Dies
       \/ /\ streams < StreamLimit
          /\ fp' = "open"
          /\ streams' = streams + 1
          /\ UNCHANGED <<disk, gdt, stage, formatting, usrname, known>>

\* initialize_disk closes fp, once more if it is closed already.
Format ==
    /\ stage = "prompt"
    /\ \/ fp = "closed" /\ Dies
       \/ CreateDisk(IF fp = "open" THEN streams - 1 ELSE streams, TRUE)

\* quit at the prompt, or a kill anywhere.
Leave ==
    /\ stage # "off"
    /\ Off
    /\ cut' = (cut \/ stage \in Creating)
    /\ UNCHANGED <<volume, account>>

\* The user removes ./Ext2.
Remove ==
    /\ stage = "off"
    /\ volume' = "none"
    /\ account' = Blank
    /\ cut' = FALSE
    /\ UNCHANGED <<gdt, fp, streams, stage, formatting, usrname, known>>

SessionNext ==
    \/ Start \/ Login \/ NewPassword \/ Update \/ Format \/ Leave \/ Remove
    \/ \E w \in Words :
         \/ CreateUser(w) \/ CreatePassword(w) \/ User(w) \/ Password(w)
         \/ OldPassword(w) \/ ChangedPassword(w)

SessionSpec == SessionInit /\ [][SessionNext]_sessionVars
-----------------------------------------------------------------------------
(* Whoever is at the prompt has, since the program started, typed the name *)
(* and the password that are on the disk: the copy in memory is never      *)
(* behind, although a login may find the stream closed and read nothing,   *)
(* and although a change of the password may die.                          *)
KnowsAccount == stage \in Inside => known = account /\ gdt = account

(* A disk without an account is left behind only by a death in the middle  *)
(* of initialize_disk, by a kill at its questions or for want of streams   *)
(* in a format, and from then on nobody gets past the question for the     *)
(* name: it is a name that cannot be typed.                                *)
LockoutNeedsACut ==
    volume = "myext2" /\ account = Blank /\ stage \notin Creating =>
        cut /\ stage \in {"off", "user"}
=============================================================================
