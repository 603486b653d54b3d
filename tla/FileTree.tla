------------------------------ MODULE FileTree ------------------------------
(***************************************************************************)
(* What the user of the file system of Lab3 is promised, without inodes,   *)
(* blocks or bitmaps: a tree of directories and files named by paths, and  *)
(* a current directory.  A command that is refused is a stuttering step.   *)
(* ok becomes FALSE when a command has done something the program gives no *)
(* meaning to; the tree is then unspecified (shown as the empty tree)      *)
(* until the disk is formatted.                                            *)
(***************************************************************************)
EXTENDS Naturals, Sequences

CONSTANTS Names,       \* what a directory can be called
          FileNames    \* what a file can be called

VARIABLES
    dirs,    \* paths of directories; the root is <<>>
    files,   \* paths of files
    cwd,     \* path of the current directory
    ok

vars == <<dirs, files, cwd, ok>>

TypeOK ==
    /\ dirs \subseteq Seq(Names) /\ <<>> \in dirs
    /\ \A p \in files : p # <<>> /\ p[Len(p)] \in FileNames
    /\ cwd \in dirs
    /\ ok \in BOOLEAN

Parent(path) == SubSeq(path, 1, Len(path) - 1)

IsEmpty(path) == \A p \in (dirs \cup files) \ {<<>>} : Parent(p) # path

Init ==
    /\ dirs = {<<>>}
    /\ files = {}
    /\ cwd = <<>>
    /\ ok = TRUE

MakeDir(name) ==
    /\ ok
    /\ Append(cwd, name) \notin dirs
    /\ dirs' = dirs \cup {Append(cwd, name)}
    /\ UNCHANGED <<files, cwd, ok>>

MakeFile(name) ==
    /\ ok
    /\ Append(cwd, name) \notin files
    /\ files' = files \cup {Append(cwd, name)}
    /\ UNCHANGED <<dirs, cwd, ok>>

\* Only an empty directory is removed.
RemoveDir(name) ==
    /\ ok
    /\ Append(cwd, name) \in dirs
    /\ IsEmpty(Append(cwd, name))
    /\ dirs' = dirs \ {Append(cwd, name)}
    /\ UNCHANGED <<files, cwd, ok>>

RemoveFile(name) ==
    /\ ok
    /\ Append(cwd, name) \in files
    /\ files' = files \ {Append(cwd, name)}
    /\ UNCHANGED <<dirs, cwd, ok>>

Enter(name) ==
    /\ ok
    /\ Append(cwd, name) \in dirs
    /\ cwd' = Append(cwd, name)
    /\ UNCHANGED <<dirs, files, ok>>

Leave ==
    /\ ok
    /\ cwd # <<>>
    /\ cwd' = Parent(cwd)
    /\ UNCHANGED <<dirs, files, ok>>

\* The program is started again: the tree stays.
Login == ok /\ cwd' = <<>> /\ UNCHANGED <<dirs, files, ok>>

Clean == dirs' = {<<>>} /\ files' = {} /\ cwd' = <<>>

Format == ok' = TRUE /\ Clean

Break == ok' = FALSE /\ Clean

Next ==
    \/ \E name \in Names : MakeDir(name) \/ RemoveDir(name) \/ Enter(name)
    \/ \E name \in FileNames : MakeFile(name) \/ RemoveFile(name)
    \/ Leave
    \/ Login
    \/ Format
    \/ Break

Spec == Init /\ [][Next]_vars
=============================================================================
