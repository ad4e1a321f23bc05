---------------------------- MODULE BinaryReplace ----------------------------
(***************************************************************************)
(* How the binary at the install path is replaced (selfupdate/installer):  *)
(* copy to a temporary name next to it, then rename over it. install uses  *)
(* a temporary name of its own job; every RestoreBackup of a host uses     *)
(* the one name ".phantom-lancer.rollback.tmp", and nothing keeps two of   *)
(* them (requests, or a request and the supervisor) from overlapping.      *)
(*                                                                         *)
(* A file is an inode whose contents are two halves, so that a copy under  *)
(* way can be told from a finished one; a writer keeps its own offset and  *)
(* its open inode whatever happens to the name.                            *)
(*                                                                         *)
(* Names differ from those of UpdateJobs, so that the proofs extend both.  *)
(***************************************************************************)
EXTENDS Naturals, FiniteSets

CONSTANTS
    Installers,   \* self-update jobs that install a staged binary
    Restorers,    \* callers of RestoreBackup for the main binary: requests, supervisor
    Binary,       \* [Installers \cup Restorers -> version], what each one puts in place
    Inodes,       \* inodes of the install directory
    First,        \* version installed at the start
    RollbackTmp,  \* the name every RestoreBackup uses
    Nothing

Writers == Installers \cup Restorers
Names   == Installers \cup {RollbackTmp}
Version == {Binary[w] : w \in Writers} \cup {First}

ASSUME BinaryConstants ==
    /\ Installers \cap Restorers = {} /\ RollbackTmp \notin Installers
    /\ Nothing \notin Inodes /\ Nothing \notin Version

\* The temporary name of a writer.
TempOf(w) == IF w \in Restorers THEN RollbackTmp ELSE w

VARIABLES
    path,  \* inode at the install path
    temp,       \* inode at each temporary name
    half,       \* contents of each inode
    fd,         \* inode each writer has open
    stage,
    overlapped  \* history: a restore has begun while another one was under way

fileVars == <<path, temp, half, fd, stage, overlapped>>

Halves == {1, 2}
Whole(i) == half[i][1] = half[i][2] /\ half[i][1] # Nothing
Unused(i) == i # path /\ (\A n \in Names : temp[n] # i) /\ (\A w \in Writers : fd[w] # i)

ReplaceInit ==
    /\ path \in Inodes
    /\ temp = [n \in Names |-> Nothing]
    /\ half = [i \in Inodes |-> [k \in Halves |-> IF i = path THEN First ELSE Nothing]]
    /\ fd = [w \in Writers |-> Nothing]
    /\ stage = [w \in Writers |-> "idle"]
    /\ overlapped = FALSE

Goto(w, label) == stage' = [stage EXCEPT ![w] = label]

\* Only RestoreBackup removes a leftover; an install job's name is fresh. Restores are
\* asked for again and again, an install job runs once.
UnderWay(w) == stage[w] \in {"open", "copy1", "copy2", "rename"}

InstallBegins(w) ==
    /\ w \in Installers /\ stage[w] = "idle"
    /\ Goto(w, "open")
    /\ UNCHANGED <<path, temp, half, fd, overlapped>>

RemoveLeftover(w) ==
    /\ w \in Restorers /\ ~UnderWay(w)
    /\ temp' = [temp EXCEPT ![RollbackTmp] = Nothing]
    /\ overlapped' = (overlapped \/ \E v \in Restorers : UnderWay(v))
    /\ Goto(w, "open")
    /\ UNCHANGED <<path, half, fd>>

\* copyFile opens with O_CREATE | O_TRUNC: an existing file is emptied and shared.
Open(w) ==
    /\ stage[w] = "open"
    /\ \E i \in Inodes :
        /\ IF temp[TempOf(w)] = Nothing THEN Unused(i) ELSE i = temp[TempOf(w)]
        /\ temp' = [temp EXCEPT ![TempOf(w)] = i]
        /\ fd' = [fd EXCEPT ![w] = i]
        /\ half' = [half EXCEPT ![i] = [k \in Halves |-> Nothing]]
    /\ Goto(w, "copy1")
    /\ UNCHANGED <<path, overlapped>>

\* io.Copy, one half at a time; copyFile closes the file when it returns.
Copy(w, k, from, to) ==
    /\ stage[w] = from
    /\ half' = [half EXCEPT ![fd[w]][k] = Binary[w]]
    /\ fd' = IF to = "rename" THEN [fd EXCEPT ![w] = Nothing] ELSE fd
    /\ Goto(w, to)
    /\ UNCHANGED <<path, temp, overlapped>>

\* An error of copyFile (or of Rename below) removes the temporary name.
CopyErrorIgnored(w) ==
    /\ stage[w] \in {"copy1", "copy2"}
    /\ fd' = [fd EXCEPT ![w] = Nothing]
    /\ Goto(w, "rename")
    /\ UNCHANGED <<path, temp, half, overlapped>>

CopyFails(w) ==
    /\ stage[w] \in {"copy1", "copy2"}
    /\ temp' = [temp EXCEPT ![TempOf(w)] = Nothing]
    /\ fd' = [fd EXCEPT ![w] = Nothing]
    /\ Goto(w, "failed")
    /\ UNCHANGED <<path, half, overlapped>>

\* rename moves whatever inode the temporary name has now.
Rename(w) ==
    /\ stage[w] = "rename" /\ temp[TempOf(w)] # Nothing
    /\ path' = temp[TempOf(w)]
    /\ temp' = [temp EXCEPT ![TempOf(w)] = Nothing]
    /\ Goto(w, "done")
    /\ UNCHANGED <<half, fd, overlapped>>

\* Ownership or rename failed; a name that is gone always makes it fail.
RenameFails(w) ==
    /\ stage[w] = "rename"
    /\ temp' = [temp EXCEPT ![TempOf(w)] = Nothing]
    /\ Goto(w, "failed")
    /\ UNCHANGED <<path, half, fd, overlapped>>

\* The process of a writer dies, alone or with others: what it had open is closed, the
\* temporary name stays.
WriterDies(w) ==
    /\ UnderWay(w)
    /\ fd' = [fd EXCEPT ![w] = Nothing]
    /\ Goto(w, "failed")
    /\ UNCHANGED <<path, temp, half, overlapped>>

Step(w) ==
    \/ InstallBegins(w) \/ RemoveLeftover(w) \/ Open(w)
    \/ Copy(w, 1, "copy1", "copy2") \/ Copy(w, 2, "copy2", "rename")
    \/ CopyFails(w) \/ Rename(w) \/ RenameFails(w) \/ WriterDies(w)

ReplaceNext == \E w \in Writers : Step(w)

ReplaceSpec == ReplaceInit /\ [][ReplaceNext]_fileVars

-----------------------------------------------------------------------------
ReplaceTypeOK ==
    /\ path \in Inodes
    /\ temp \in [Names -> Inodes \cup {Nothing}]
    /\ half \in [Inodes -> [Halves -> Version \cup {Nothing}]]
    /\ fd \in [Writers -> Inodes \cup {Nothing}]
    /\ stage \in [Writers -> {"idle", "open", "copy1", "copy2", "rename", "done", "failed"}]
    /\ overlapped \in BOOLEAN

\* At every moment, deaths of its writers included, the install path holds one whole
\* binary, whatever installs and restores come together, until two restores overlap and
\* write through the one temporary name they share.
InstalledWhole == ~overlapped => Whole(path)

\* "RestoreBackup atomically overwrites installPath" (installer.go:440): with no
\* exception for restores that overlap.
RestoreKeepsWhole == Whole(path)

\* Nobody has the binary in place open for writing: executing it cannot fail with
\* ETXTBSY, and a late write of an installer cannot reach it.
NobodyWritesInstalled == ~overlapped => \A w \in Writers : fd[w] # path
=============================================================================
