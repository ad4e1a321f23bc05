-------------------------- MODULE UpdateJobsProofs --------------------------
(***************************************************************************)
(* What holds of the self-update service for any number of jobs and of     *)
(* concurrent requests, any bound on troubles and any restart mode, from   *)
(* which retention on a restart can be undone, and why replacing the       *)
(* binary, one step for the jobs, may be taken as one.                     *)
(***************************************************************************)
EXTENDS UpdateJobs, BinaryReplace, TLAPS

USE UpdateConstants, NoneIsNothing

EarlyPhases == {"created", "downloading", "verifying", "extracting"}
AllPhases == EarlyPhases \cup {"installing", "restarting", "completed"}
Statuses == Active \cup {"completed", "failed", "cancelled"}

\* What any copy of a row says, in the table, in a goroutine or in a request.
RowAgrees(j, row) ==
    /\ row.backup \in {None, j}
    /\ row.status = "restarting" => row.phase = "restarting"
    /\ (row.status = "completed" <=> row.phase = "completed")
    /\ row.status \in {"restarting", "completed"} => row.backup = j
    /\ row.phase \in EarlyPhases => row.backup = None
    /\ row.rolled => row.backup = j

\* Control points at which the row in the table names no backup yet.
Prior == Working \cup {"spawned", "replaced", "pruned"}
Installing == {"installing", "backedUp", "replaced", "pruned", "installSaved"}

JobSound(j) ==
    /\ task[j].pc # "none" => rows[j] # None
    /\ rows[j] # None => RowAgrees(j, rows[j]) /\ \E i \in DOMAIN order : order[i] = j
    /\ task[j].pc \in Prior => rows[j].backup = None
    /\ task[j].pc \in Working \cup Installing =>
        /\ task[j].job.status = "running" /\ ~task[j].job.rolled /\ task[j].job.phase # "completed"
        /\ task[j].job.backup = IF task[j].pc \in {"pruned", "installSaved"} THEN j ELSE None
    /\ task[j].pc \in Installing => task[j].job.phase = "installing"
    /\ task[j].pc = "dispatch" => rows[j].status \notin {"queued", "running"}

Applying == {"applyChecked", "applyCreated"}
Cancelling == {"cancelRead", "cancelSignalled"}

CallSound(h) ==
    LET c == call[h] IN
    /\ c.op \in {"applyCreated"} \cup Cancelling \cup Rolling => c.job \in Jobs /\ rows[c.job] # None
    /\ c.op \in Applying => c.row = [NoRow EXCEPT !.target = c.row.target]
    /\ c.op = "applyCreated" =>
        /\ rows[c.job].backup = None /\ task[c.job].pc = "none"
        /\ \A g \in Handlers : call[g].op = "applyCreated" /\ call[g].job = c.job => g = h
    /\ c.op \in Cancelling => c.row.phase \in EarlyPhases /\ c.row.backup = None /\ ~c.row.rolled
    /\ c.op \in Rolling =>
        /\ c.row.backup = c.job /\ c.row.status \notin Active /\ RowAgrees(c.job, c.row)
        /\ task[c.job].pc \notin Prior
        /\ \A g \in Handlers : ~(call[g].op = "applyCreated" /\ call[g].job = c.job)

\* Goroutines and requests live in a process that serves, and so does a request to
\* restart, which waits for the process to leave.
Hosted ==
    /\ proc # "serving" => (\A j \in Jobs : task[j].pc = "none") /\ \A h \in Handlers : call[h] = Idle
    /\ restart => proc \in {"serving", "down"}

Sound ==
    /\ TypeOK /\ Hosted
    /\ check.canApply => check.latest # NoRelease
    /\ \A i \in DOMAIN order : rows[order[i]] # None
    /\ \A j \in Jobs : JobSound(j)
    /\ \A h \in Handlers : CallSound(h)

-----------------------------------------------------------------------------
\* The backups, while jobs do not overlap.

\* The job's copies are the newest files.
Newest(j) ==
    LET last == Len(files) - (IF HasSupervisor THEN 1 ELSE 0)
    IN  last > 0 /\ files[last].name = named[j] /\ files[last].kind = "main"

\* Somebody counts on the job's backup.
Counted(j) ==
    \/ task[j].pc \in {"pruned", "installSaved", "dispatch"}
    \/ rows[j] # None /\ rows[j].status = "restarting"
    \/ \E h \in Handlers : call[h].op \in Rolling /\ call[h].job = j

Apart ==
    /\ \A j, k \in Jobs : AtWork(j) /\ AtWork(k) => j = k
    /\ \A j \in Jobs : (task[j].pc \in {"backedUp", "replaced"} => Newest(j)) /\ (Counted(j) => Backups(j) # {})
    /\ restart /\ troubles.faults = 0 =>
        /\ handoff # None /\ handoff.backup = handoff.job
        /\ rows[handoff.job] # None /\ Backups(handoff.job) # {}
        /\ \A j \in Jobs : AtWork(j) => j = handoff.job

\* Until a binary is copied in by hand or a first job installs one, version 1 is all there is.
FirstVersion ==
    /\ order = <<>> => installed = 1 /\ running = 1 /\ \A j \in Jobs : named[j] = None
    /\ \A j \in Jobs :
        order = <<j>> /\ (task[j].pc # "none" \/ \E h \in Handlers : call[h].op = "applyCreated" /\ call[h].job = j) =>
            /\ running = 1 /\ \A i \in DOMAIN files : files[i].name = named[j] => files[i].version = 1
            /\ task[j].pc \in {"none", "spawned"} \cup Working => installed = 1

BackupsInv ==
    /\ KeepsOwnBackup /\ ~troubles.overlapped => Apart
    /\ troubles.deploys = 0 => FirstVersion

-----------------------------------------------------------------------------
\* Types.

LEMMA ConstantTypes == NoRow \in Row /\ NoTask \in TaskStates /\ Idle \in CallStates
<1>1. NoRow \in Row
  BY DEF NoRow, Row, Active, Versions
<1>2. NoTask \in TaskStates /\ Idle \in CallStates
  BY <1>1 DEF NoTask, Idle, TaskStates, CallStates, Labels
<1> QED BY <1>1, <1>2

\* A row that is written over keeps its type, in the table and in a copy.
LEMMA RowTypes ==
    ASSUME NEW row \in Row
    PROVE  /\ \A s \in Statuses : [row EXCEPT !.status = s] \in Row
           /\ \A p \in AllPhases : [row EXCEPT !.phase = p] \in Row
           /\ \A s \in Statuses, p \in AllPhases : [row EXCEPT !.status = s, !.phase = p] \in Row
           /\ \A v \in Versions : [row EXCEPT !.target = v] \in Row
           /\ \A b \in Jobs \cup {None} : [row EXCEPT !.backup = b] \in Row
           /\ [row EXCEPT !.rolled = TRUE] \in Row
BY DEF Row, Statuses, Active, AllPhases, EarlyPhases

LEMMA SaveTypes ==
    ASSUME TypeOK, NEW j \in Jobs, NEW row \in Row
    PROVE  /\ Save(j, row) => rows' \in [Jobs -> Row \cup {None}]
           /\ SaveEnded(j, row) => rows' \in [Jobs -> Row \cup {None}] /\ age' \in [Jobs -> 0 .. RestartTimeout + 1]
<1>1. rows \in [Jobs -> Row \cup {None}] /\ age \in [Jobs -> 0 .. RestartTimeout + 1] /\ 0 \in 0 .. RestartTimeout + 1
  BY DEF TypeOK
<1>2. Save(j, row) => rows' \in [Jobs -> Row \cup {None}]
  BY <1>1 DEF Save
<1>3. SaveEnded(j, row) => age' \in [Jobs -> 0 .. RestartTimeout + 1]
  BY <1>1 DEF SaveEnded
<1> QED BY <1>2, <1>3 DEF SaveEnded

\* Troubles are bounded, and overlapping is no trouble.
LEMMA SpendTypes ==
    ASSUME TypeOK, NEW kind \in {"deploys", "faults", "crashes"}, Spend(kind)
    PROVE  troubles' \in Troubles
<1>1. troubles \in Troubles /\ troubles.deploys + troubles.faults + troubles.crashes < MaxTroubles
  BY DEF TypeOK, Spend
<1>2. \A k \in {"deploys", "faults", "crashes"} : troubles[k] \in Nat /\ troubles[k] + 1 <= MaxTroubles
  BY <1>1 DEF Troubles
<1>3. troubles' = [troubles EXCEPT ![kind] = troubles[kind] + 1] /\ troubles[kind] + 1 \in 0 .. MaxTroubles
  BY <1>2 DEF Spend
<1> QED BY <1>1, <1>3 DEF Troubles

LEMMA BeginTypes ==
    ASSUME TypeOK, NEW j \in Jobs, Begin(j)
    PROVE  troubles' \in Troubles
<1> DEFINE now == troubles.overlapped \/ \E k \in Jobs \ {j} : rows[k] # None /\ (restart \/ AtWork(k))
<1>1. troubles \in Troubles /\ now \in BOOLEAN /\ troubles' = [troubles EXCEPT !.overlapped = now]
  BY DEF TypeOK, Begin
<1> HIDE DEF now
<1> QED BY <1>1 DEF Troubles

\* A goroutine that moves to a label, with or without a new copy of its row.
LEMMA TaskTypes ==
    ASSUME TypeOK, NEW j \in Jobs
    PROVE  /\ task[j] \in TaskStates /\ task[j].job \in Row
           /\ \A pc \in Labels : [task EXCEPT ![j].pc = pc] \in [Jobs -> TaskStates]
           /\ \A pc \in Labels, row \in Row : [task EXCEPT ![j].pc = pc, ![j].job = row] \in [Jobs -> TaskStates]
           /\ \A pc \in Labels, b \in Jobs : [task EXCEPT ![j].pc = pc, ![j].job.backup = b] \in [Jobs -> TaskStates]
           /\ \A c \in BOOLEAN : [task EXCEPT ![j].cancelled = c] \in [Jobs -> TaskStates]
<1>1. task \in [Jobs -> TaskStates] /\ task[j].job \in Row
  BY DEF TypeOK, TaskStates
<1>2. \A pc \in Labels : [task EXCEPT ![j].pc = pc] \in [Jobs -> TaskStates]
  BY <1>1 DEF TaskStates, Labels
<1>3. ASSUME NEW pc \in Labels, NEW row \in Row
      PROVE  [task EXCEPT ![j].pc = pc, ![j].job = row] \in [Jobs -> TaskStates]
  BY ZenonT(40), <1>1 DEF TaskStates, Labels
<1>4. ASSUME NEW pc \in Labels, NEW b \in Jobs
      PROVE  [task EXCEPT ![j].pc = pc, ![j].job.backup = b] \in [Jobs -> TaskStates]
  <2>1. [task[j].job EXCEPT !.backup = b] \in Row
    BY <1>1, RowTypes
  <2>2. [task[j] EXCEPT !.pc = pc, !.job.backup = b] \in TaskStates
    BY ZenonT(40), <1>1, <2>1 DEF TaskStates, Labels
  <2>3. [task EXCEPT ![j].pc = pc, ![j].job.backup = b] = [task EXCEPT ![j] = [task[j] EXCEPT !.pc = pc, !.job.backup = b]]
    BY <1>1 DEF TaskStates
  <2> QED BY <1>1, <2>2, <2>3
<1>5. \A c \in BOOLEAN : [task EXCEPT ![j].cancelled = c] \in [Jobs -> TaskStates]
  BY <1>1 DEF TaskStates
<1> QED BY <1>1, <1>2, <1>3, <1>4, <1>5

\* What install does to the backup files.

LEMMA Joined ==
    ASSUME NEW S, NEW s \in Seq(S), NEW t \in Seq(S)
    PROVE  /\ s \o t \in Seq(S) /\ Len(s \o t) = Len(s) + Len(t)
           /\ \A i \in 1 .. Len(s) : (s \o t)[i] = s[i]
           /\ \A i \in 1 .. Len(t) : (s \o t)[Len(s) + i] = t[i]
OBVIOUS

LEMMA Beginning ==
    ASSUME NEW S, NEW s \in Seq(S), NEW n \in 0 .. Len(s)
    PROVE  /\ SubSeq(s, 1, n) \in Seq(S) /\ Len(SubSeq(s, 1, n)) = n
           /\ \A i \in 1 .. n : SubSeq(s, 1, n)[i] = s[i]
OBVIOUS

LEMMA CutOff ==
    ASSUME NEW S, NEW s \in Seq(S), NEW n \in 1 .. Len(s)
    PROVE  /\ SubSeq(s, Len(s) - n + 1, Len(s)) \in Seq(S)
           /\ Len(SubSeq(s, Len(s) - n + 1, Len(s))) = n
           /\ \A i \in 1 .. n : SubSeq(s, Len(s) - n + 1, Len(s))[i] = s[Len(s) - n + i]
OBVIOUS

LEMMA CopiesAre ==
    ASSUME NEW name \in Jobs \cup {Earlier}, NEW v \in Versions
    PROVE  /\ Copies(name, v) \in Seq(Files) /\ Len(Copies(name, v)) = (IF HasSupervisor THEN 2 ELSE 1)
           /\ Copies(name, v)[1] = [name |-> name, kind |-> "main", version |-> v]
           /\ \A i \in 1 .. Len(Copies(name, v)) : Copies(name, v)[i].name = name /\ Copies(name, v)[i].version = v
<1> DEFINE main1 == [name |-> name, kind |-> "main", version |-> v]
           super == [name |-> name, kind |-> "supervisor", version |-> v]
<1>1. main1 \in Files /\ super \in Files /\ main1.name = name /\ super.name = name /\ main1.version = v /\ super.version = v
  BY DEF Files
<1>2. Copies(name, v) = IF HasSupervisor THEN <<main1, super>> ELSE <<main1>>
  BY DEF Copies
<1> HIDE DEF main1, super
<1>3. /\ Copies(name, v) \in Seq(Files) /\ Len(Copies(name, v)) = (IF HasSupervisor THEN 2 ELSE 1)
      /\ Copies(name, v)[1] = main1
      /\ \A i \in 1 .. Len(Copies(name, v)) : Copies(name, v)[i].name = name /\ Copies(name, v)[i].version = v
  BY <1>1, <1>2
<1> QED BY <1>3 DEF main1

\* The copies of a job come last, and hold what is installed; whatever had the name is
\* written over.
LEMMA BackupEffect ==
    ASSUME TypeOK, NEW j \in Jobs, BackupBinary(j)
    PROVE  /\ files' \in Seq(Files) /\ named' \in [Jobs -> Jobs \cup {Earlier, None}]
           /\ \A k \in Jobs \ {j} : named'[k] = named[k]
           /\ LET last == Len(files') - (IF HasSupervisor THEN 1 ELSE 0)
              IN  last \in DOMAIN files' /\ files'[last].name = named'[j] /\ files'[last].kind = "main"
           /\ \A i \in DOMAIN files' : files'[i].name = named'[j] => files'[i].version = installed
<1>1. PICK name \in {j} \cup {files[i].name : i \in DOMAIN files}, kept \in 0 .. Len(files) :
        /\ \A i \in DOMAIN files : files[i].name = name <=> i > kept
        /\ files' = SubSeq(files, 1, kept) \o Copies(name, installed)
        /\ named' = [named EXCEPT ![j] = name]
  BY DEF BackupBinary
<1>2. /\ files \in Seq(Files) /\ installed \in Versions /\ named \in [Jobs -> Jobs \cup {Earlier, None}]
      /\ DOMAIN files = 1 .. Len(files) /\ Len(files) \in Nat
  BY DEF TypeOK
<1>3. name \in Jobs \cup {Earlier}
  <2>1. ASSUME NEW i \in DOMAIN files PROVE files[i].name \in Jobs \cup {Earlier}
    <3>1. files[i] \in Files
      BY <1>2
    <3> QED BY <3>1 DEF Files
  <2> QED BY <1>1, <2>1
<1> DEFINE front == SubSeq(files, 1, kept)
           back == Copies(name, installed)
<1>4. front \in Seq(Files) /\ Len(front) = kept /\ \A i \in 1 .. kept : front[i] = files[i]
  BY <1>1, <1>2, Beginning
<1>5. /\ back \in Seq(Files) /\ Len(back) = (IF HasSupervisor THEN 2 ELSE 1)
      /\ back[1].kind = "main" /\ \A i \in 1 .. Len(back) : back[i].name = name /\ back[i].version = installed
  <2>1. back[1] = [name |-> name, kind |-> "main", version |-> installed]
    BY <1>2, <1>3, CopiesAre
  <2> QED BY <1>2, <1>3, <2>1, CopiesAre
<1>6. files' = front \o back
  BY <1>1
<1> HIDE DEF front, back
<1> DEFINE new == front \o back
<1>7. /\ new \in Seq(Files) /\ Len(new) = kept + Len(back)
      /\ \A i \in 1 .. kept : new[i] = front[i]
      /\ \A i \in 1 .. Len(back) : new[kept + i] = back[i]
  <2>1. /\ new \in Seq(Files) /\ Len(new) = Len(front) + Len(back)
        /\ \A i \in 1 .. Len(front) : new[i] = front[i]
        /\ \A i \in 1 .. Len(back) : new[Len(front) + i] = back[i]
    BY <1>4, <1>5, Joined
  <2> HIDE DEF new
  <2> QED BY <1>4, <2>1
<1> HIDE DEF new
<1>8. files' = new
  BY <1>6 DEF new
<1>9. DOMAIN new = 1 .. Len(new) /\ Len(new) - (IF HasSupervisor THEN 1 ELSE 0) = kept + 1 /\ kept + 1 \in 1 .. Len(new)
  BY <1>1, <1>5, <1>7
<1>10. new[kept + 1] = back[1] /\ named'[j] = name
  BY <1>1, <1>2, <1>5, <1>7
<1>11. ASSUME NEW i \in 1 .. Len(new), new[i].name = name PROVE new[i].version = installed
  <2>1. CASE i <= kept
    <3>1. i \in 1 .. kept /\ i \in DOMAIN files /\ new[i] = files[i] /\ ~(i > kept)
      BY <1>1, <1>2, <1>4, <1>7, <2>1
    <3> QED BY <1>1, <1>11, <3>1
  <2>2. CASE i > kept
    <3>1. i - kept \in 1 .. Len(back) /\ kept + (i - kept) = i
      BY <1>1, <1>5, <1>7, <2>2
    <3>2. new[i] = back[i - kept]
      BY <1>7, <3>1
    <3> QED BY <1>5, <3>1, <3>2
  <2> QED BY <1>1, <1>7, <2>1, <2>2
<1>12. named' \in [Jobs -> Jobs \cup {Earlier, None}] /\ \A k \in Jobs \ {j} : named'[k] = named[k]
  BY <1>1, <1>2, <1>3
<1>13. back[1].name = name
  BY <1>5
<1> QED BY <1>5, <1>7, <1>8, <1>9, <1>10, <1>11, <1>12, <1>13

LEMMA InstallTypes ==
    ASSUME TypeOK, NEW j \in Jobs
    PROVE  /\ BackupBinary(j) => files' \in Seq(Files) /\ named' \in [Jobs -> Jobs \cup {Earlier, None}]
           /\ ReplaceBinary(j) => installed' \in Versions
           /\ PruneBackups(j) => files' \in Seq(Files)
<1>1. files \in Seq(Files) /\ installed \in Versions /\ task[j].job \in Row
  BY TaskTypes DEF TypeOK
<1>2. BackupBinary(j) => files' \in Seq(Files) /\ named' \in [Jobs -> Jobs \cup {Earlier, None}]
  BY BackupEffect DEF TypeOK
<1>3. ReplaceBinary(j) => installed' \in Versions
  BY <1>1 DEF ReplaceBinary, Row
<1>4. ASSUME PruneBackups(j) PROVE files' \in Seq(Files)
  <2>1. CASE UNCHANGED files
    BY <1>1, <2>1
  <2>2. CASE BackupRetention # 0 /\ Len(files) > BackupRetention /\ files' = SubSeq(files, Len(files) - BackupRetention + 1, Len(files))
    BY <1>1, <2>2
  <2> QED BY SMTT(20), <1>1, <1>4, <2>1, <2>2 DEF PruneBackups
<1> QED BY <1>2, <1>3, <1>4

LEMMA ExecuteTypes ==
    ASSUME TypeOK, NEW j \in Jobs, task[j].pc # "none" => rows[j] # None, Execute(j)
    PROVE  TypeOK'
<1> USE DEF store, disk, main
<1>0. task \in [Jobs -> TaskStates] /\ task[j].job \in Row /\ (rows[j] # None => rows[j] \in Row)
  BY TaskTypes DEF TypeOK
<1>1. CASE Load(j)
  <2> DEFINE row == [rows[j] EXCEPT !.status = "running"]
  <2>1. row \in Row /\ Save(j, row) /\ task' = [task EXCEPT ![j].pc = "loaded", ![j].job = row]
    BY <1>0, <1>1, RowTypes DEF Load, Statuses, Active
  <2> HIDE DEF row
  <2>2. task' \in [Jobs -> TaskStates]
    BY ZenonT(40), <1>0, <2>1 DEF TaskStates, Labels, Working
  <2> QED BY <1>1, <2>1, <2>2, SaveTypes DEF Load, TypeOK
<1>2. ASSUME NEW from, NEW phase \in EarlyPhases \cup {"installing"}, SavePhase(j, from, phase), phase # "created"
      PROVE  TypeOK'
  <2> DEFINE row == [task[j].job EXCEPT !.phase = phase]
  <2>1. row \in Row /\ Save(j, row) /\ task' = [task EXCEPT ![j].pc = phase, ![j].job = row] /\ phase \in Labels
    BY <1>2, RowTypes, TaskTypes DEF SavePhase, EarlyPhases, AllPhases, Labels, Working
  <2> HIDE DEF row
  <2>2. task' \in [Jobs -> TaskStates]
    BY ZenonT(40), <1>0, <2>1 DEF TaskStates
  <2> QED BY <1>2, <2>1, <2>2, SaveTypes DEF SavePhase, TypeOK
<1>3. CASE BackupBinary(j) \/ PruneBackups(j) \/ ReplaceBinary(j)
  <2>1. task' \in [Jobs -> TaskStates]
    <3>1. \A pc \in {"backedUp", "replaced"} : task' = [task EXCEPT ![j].pc = pc] => task' \in [Jobs -> TaskStates]
      BY <1>0 DEF TaskStates, Labels, Working
    <3>2. PruneBackups(j) => task' \in [Jobs -> TaskStates]
      <4>1. [task EXCEPT ![j].pc = "pruned", ![j].job.backup = j] \in [Jobs -> TaskStates]
        BY TaskTypes DEF Labels
      <4> QED BY <4>1 DEF PruneBackups
    <3> QED BY <1>3, <3>1, <3>2 DEF BackupBinary, ReplaceBinary
  <2> QED BY <1>3, <2>1, InstallTypes DEF BackupBinary, ReplaceBinary, PruneBackups, TypeOK
<1>4. CASE SaveInstalled(j)
  BY <1>4, TaskTypes, SaveTypes DEF SaveInstalled, Labels, TypeOK
<1>5. CASE SaveRestarting(j)
  <2> DEFINE row == [task[j].job EXCEPT !.status = "restarting", !.phase = "restarting"]
  <2>1. row \in Row /\ SaveEnded(j, row) /\ task' = [task EXCEPT ![j].pc = "dispatch", ![j].job = row]
    BY <1>5, RowTypes, TaskTypes DEF SaveRestarting, Statuses, Active, AllPhases
  <2> HIDE DEF row
  <2>2. task' \in [Jobs -> TaskStates]
    BY ZenonT(40), <1>0, <2>1 DEF TaskStates, Labels
  <2> QED BY <1>5, <2>1, <2>2, SaveTypes DEF SaveRestarting, TypeOK
<1>6. CASE Dispatch(j)
  <2>1. [job |-> j, backup |-> j] \in Handoff /\ 0 \in 0 .. RestartTimeout
    BY DEF Handoff
  <2>2. handoff' \in Handoff \cup {None} /\ handoffAge' \in 0 .. RestartTimeout
    BY <1>6, <2>1 DEF Dispatch, WriteHandoff, TypeOK
  <2>3. troubles' \in Troubles
    BY <1>6, SpendTypes DEF Dispatch, TypeOK
  <2>4. restart' \in BOOLEAN /\ selfExec' \in BOOLEAN /\ UNCHANGED <<proc, running>>
    BY <1>6 DEF Dispatch, RequestRestart, TypeOK
  <2> QED BY <1>6, <2>2, <2>3, <2>4, TaskTypes DEF Dispatch, Labels, TypeOK
<1>7. CASE Abort(j)
  <2>1. [task[j].job EXCEPT !.status = "cancelled"] \in Row
    BY RowTypes, TaskTypes DEF Statuses
  <2>2. troubles' \in Troubles
    BY <1>7, SpendTypes DEF Abort, TypeOK
  <2>3. SaveEnded(j, [task[j].job EXCEPT !.status = "cancelled"]) /\ task' = [task EXCEPT ![j].pc = "end"]
        /\ UNCHANGED <<order, check, call, disk, main>>
    BY <1>7 DEF Abort
  <2> QED BY <2>1, <2>2, <2>3, TaskTypes, SaveTypes DEF Labels, TypeOK
<1>8. CASE Fail(j)
  <2>1. [task[j].job EXCEPT !.status = "failed"] \in Row
    BY RowTypes, TaskTypes DEF Statuses
  <2> QED BY ZenonT(40), <1>8, <2>1, TaskTypes, SaveTypes, SpendTypes DEF Fail, Labels, TypeOK
<1>9. CASE Panic(j)
  <2>1. [rows[j] EXCEPT !.status = "failed"] \in Row
    BY <1>0, <1>9, RowTypes DEF Panic, Statuses, Working
  <2> QED BY <1>9, <2>1, TaskTypes, SaveTypes, SpendTypes DEF Panic, Labels, TypeOK
<1>10. CASE EndUnsaved(j)
  BY <1>10, SpendTypes, TaskTypes DEF EndUnsaved, Labels, TypeOK
<1> QED BY <1>1, <1>2, <1>3, <1>4, <1>5, <1>6, <1>7, <1>8, <1>9, <1>10 DEF Execute, EarlyPhases

LEMMA HandleTypes ==
    ASSUME TypeOK, NEW h \in Handlers, CallSound(h), check.canApply => check.latest # NoRelease, Handle(h)
    PROVE  TypeOK'
<1> USE DEF store, disk, main, TypeOK
<1>1. call[h] \in CallStates /\ call[h].row \in Row
  BY DEF CallStates
<1>2. \A c \in CallStates : [call EXCEPT ![h] = c] \in [Handlers -> CallStates]
  OBVIOUS
<1>3. \A op \in {"cancelSignalled", "rollbackRestored", "rollbackSaved", "applyCreated"} :
        [call EXCEPT ![h].op = op] \in [Handlers -> CallStates]
  BY <1>1 DEF CallStates, Rolling
<1>4. CASE ApplyCheck(h)
  <2> DEFINE new == [Idle EXCEPT !.op = "applyChecked", !.row = [NoRow EXCEPT !.target = check.latest]]
  <2>1. check.latest \in Versions /\ call' = [call EXCEPT ![h] = new]
    BY <1>4 DEF ApplyCheck
  <2>2. [NoRow EXCEPT !.target = check.latest] \in Row
    BY <2>1, RowTypes, ConstantTypes
  <2>3. new \in CallStates
    BY <2>2, ConstantTypes DEF CallStates, Idle
  <2> HIDE DEF new
  <2> QED BY <1>2, <1>4, <2>1, <2>3 DEF ApplyCheck
<1>5. ASSUME NEW j \in Jobs, ApplyCreate(h, j) PROVE TypeOK'
  <2>1. [call EXCEPT ![h].op = "applyCreated", ![h].job = j] \in [Handlers -> CallStates]
    BY <1>1 DEF CallStates
  <2>2. order' \in Seq(Jobs)
    BY <1>5 DEF ApplyCreate
  <2> QED BY <1>1, <1>5, <2>1, <2>2, BeginTypes, SaveTypes DEF ApplyCreate
<1>6. CASE ApplySpawn(h)
  <2>1. [NoTask EXCEPT !.pc = "spawned"] \in TaskStates
    BY ConstantTypes DEF TaskStates, Labels, NoTask
  <2>2. task' \in [Jobs -> TaskStates]
    BY <1>6, <2>1 DEF ApplySpawn
  <2> QED BY <1>2, <1>6, <2>2, ConstantTypes DEF ApplySpawn
<1>7. ASSUME NEW j \in Jobs, CancelRead(h, j) \/ RollbackRead(h, j) PROVE TypeOK'
  <2>1. \A op \in {"cancelRead", "rollbackRead"} :
          rows[j] # None => [call EXCEPT ![h] = [op |-> op, job |-> j, row |-> rows[j]]] \in [Handlers -> CallStates]
    BY DEF CallStates, Rolling
  <2> QED BY <1>7, <2>1, BeginTypes DEF CancelRead, RollbackRead
<1>8. CASE CancelSignal(h)
  <2>1. call[h].job \in Jobs
    BY <1>8 DEF CancelSignal, CallSound, Cancelling
  <2>2. task' \in [Jobs -> TaskStates]
    <3> DEFINE c == task[call[h].job].cancelled \/ task[call[h].job].pc \notin {"none", "end"}
    <3>1. c \in BOOLEAN /\ task' = [task EXCEPT ![call[h].job].cancelled = c]
      BY <1>8, <2>1 DEF CancelSignal, TaskStates
    <3> HIDE DEF c
    <3> QED BY <2>1, <3>1, TaskTypes
  <2> QED BY <1>3, <1>8, <2>2 DEF CancelSignal
<1>9. CASE CancelSave(h)
  <2>1. call[h].job \in Jobs /\ [call[h].row EXCEPT !.status = "cancelled"] \in Row
    BY <1>1, <1>9, RowTypes DEF CancelSave, CallSound, Cancelling, Statuses
  <2> QED BY <1>2, <1>9, <2>1, SaveTypes, ConstantTypes DEF CancelSave
<1>10. CASE RollbackRestore(h)
  <2>1. installed' \in Versions
    <3> DEFINE b == call[h].row.backup
    <3>1. BackupExists(b) => BackupVersion(b) \in Versions
      <4>1. ASSUME BackupExists(b) PROVE (CHOOSE i \in Backups(b) : TRUE) \in Backups(b)
        BY <4>1 DEF BackupExists
      <4>2. \A i \in Backups(b) : files[i] \in Files
        BY DEF Backups
      <4> QED BY <4>1, <4>2 DEF BackupVersion, Files
    <3> QED BY <1>10, <3>1 DEF RollbackRestore
  <2>2. call' \in [Handlers -> CallStates]
    BY <1>2, <1>3, <1>10, ConstantTypes DEF RollbackRestore
  <2> QED BY <1>10, <2>1, <2>2 DEF RollbackRestore
<1>11. CASE RollbackSave(h)
  <2>1. call[h].job \in Jobs /\ [call[h].row EXCEPT !.rolled = TRUE] \in Row
    BY <1>1, <1>11, RowTypes DEF RollbackSave, CallSound, Rolling
  <2>2. [call[h] EXCEPT !.op = "rollbackSaved"] \in CallStates
    BY <1>1 DEF CallStates, Rolling
  <2>3. call' \in [Handlers -> CallStates]
    BY <1>2, <1>11, <2>2, ConstantTypes DEF RollbackSave
  <2> QED BY <1>11, <2>1, <2>3, SaveTypes DEF RollbackSave
<1>12. CASE RollbackDispatch(h)
  <2>1. call[h].job \in Jobs /\ call[h].row.backup \in Jobs \cup {None}
    BY <1>1, <1>12 DEF RollbackDispatch, CallSound, Rolling, Row
  <2>2. handoff' \in Handoff \cup {None} /\ handoffAge' \in 0 .. RestartTimeout
    BY <1>12, <2>1 DEF RollbackDispatch, Handoff
  <2>4. troubles' \in Troubles
    BY <1>12, SpendTypes DEF RollbackDispatch, TypeOK
  <2>3. restart' \in BOOLEAN /\ selfExec' \in BOOLEAN /\ UNCHANGED <<proc, running>>
    BY <1>12 DEF RollbackDispatch, RequestRestart
  <2> QED BY <1>2, <1>12, <2>2, <2>3, <2>4, ConstantTypes DEF RollbackDispatch
<1> QED BY <1>4, <1>5, <1>6, <1>7, <1>8, <1>9, <1>10, <1>11, <1>12 DEF Handle

LEMMA LatestType ==
    ASSUME TypeOK, \A i \in DOMAIN order : rows[order[i]] # None
    PROVE  /\ Latest # None => Latest \in Jobs /\ rows[Latest] # None /\ rows[Latest] \in Row
           /\ Latest = None => order = <<>>
<1>1. CASE order = <<>>
  BY <1>1 DEF Latest
<1>2. CASE order # <<>>
  <2>1. Len(order) \in DOMAIN order /\ Latest = order[Len(order)]
    BY <1>2 DEF Latest, Last, TypeOK
  <2> QED BY <2>1 DEF TypeOK
<1> QED BY <1>1, <1>2

LEMMA BackupVersionType == ASSUME TypeOK, NEW b, BackupExists(b) PROVE BackupVersion(b) \in Versions
<1>1. (CHOOSE i \in Backups(b) : TRUE) \in Backups(b)
  BY DEF BackupExists
<1>2. \A i \in Backups(b) : files[i] \in Files
  BY DEF Backups, TypeOK
<1> QED BY <1>1, <1>2 DEF BackupVersion, Files

LEMMA LoseTypes == Lose => task' \in [Jobs -> TaskStates] /\ call' \in [Handlers -> CallStates]
BY ConstantTypes DEF Lose

LEMMA ReconciledType ==
    ASSUME TypeOK
    PROVE  /\ Reconciled \in [current : Versions, latest : Versions \cup {NoRelease}, canApply : BOOLEAN]
           /\ (check.canApply => check.latest # NoRelease) => (Reconciled.canApply => Reconciled.latest # NoRelease)
<1>1. check \in [current : Versions, latest : Versions \cup {NoRelease}, canApply : BOOLEAN] /\ running \in Versions
  BY DEF TypeOK
<1> QED BY <1>1 DEF Reconciled

LEMMA ConfirmTypes ==
    ASSUME TypeOK, \A i \in DOMAIN order : rows[order[i]] # None, ConfirmBoot
    PROVE  TypeOK'
<1> USE DEF store, disk, main
<1>1. check' \in [current : Versions, latest : Versions \cup {NoRelease}, canApply : BOOLEAN]
  BY ReconciledType DEF ConfirmBoot, ConfirmIdle, ConfirmTarget, MismatchRestores, MismatchFails, ConfirmUnsaved
<1>2. CASE ConfirmIdle
  BY <1>1, <1>2 DEF ConfirmIdle, TypeOK
<1>3. CASE ConfirmTarget
  <2>1. Latest \in Jobs /\ [rows[Latest] EXCEPT !.status = "completed", !.phase = "completed"] \in Row
    BY <1>3, LatestType, RowTypes DEF ConfirmTarget, Pending, Statuses, AllPhases
  <2> QED BY <1>1, <1>3, <2>1, SaveTypes DEF ConfirmTarget, TypeOK
<1>4. CASE MismatchRestores
  <2>1. Latest \in Jobs /\ [rows[Latest] EXCEPT !.status = "failed"] \in Row
    BY <1>4, LatestType, RowTypes DEF MismatchRestores, Pending, Statuses
  <2>2. installed' \in Versions
    BY <1>4, BackupVersionType DEF MismatchRestores
  <2> QED BY <1>1, <1>4, <2>1, <2>2, SaveTypes DEF MismatchRestores, TypeOK
<1>5. CASE MismatchFails
  <2>1. Latest \in Jobs /\ [rows[Latest] EXCEPT !.status = "failed"] \in Row
    BY <1>5, LatestType, RowTypes DEF MismatchFails, Pending, Statuses
  <2>2. troubles' \in Troubles
    BY <1>5, SpendTypes DEF MismatchFails, TypeOK
  <2> QED BY <1>1, <1>5, <2>1, <2>2, SaveTypes DEF MismatchFails, TypeOK
<1>6. CASE ConfirmUnsaved
  <2>1. installed' \in Versions /\ proc' \in {"rollbackExec", "confirmed"}
    BY <1>6, BackupVersionType DEF ConfirmUnsaved, TypeOK
  <2>2. troubles' \in Troubles
    BY <1>6, SpendTypes DEF ConfirmUnsaved
  <2> QED BY <1>1, <1>6, <2>1, <2>2 DEF ConfirmUnsaved, TypeOK
<1> QED BY <1>2, <1>3, <1>4, <1>5, <1>6 DEF ConfirmBoot

ProcessStep == StartProcess \/ BootSteps \/ Restart \/ Stop \/ Check \/ Crash \/ Tick \/ \E v \in Versions : Deploy(v)

LEMMA ProcessTypes ==
    ASSUME TypeOK, \A i \in DOMAIN order : rows[order[i]] # None, ProcessStep
    PROVE  TypeOK'
<1> USE DEF store, disk, main
<1>1. CASE StartProcess
  BY <1>1 DEF StartProcess, Boot, TypeOK
<1>2. CASE DeleteHandoff
  <2>1. handoff' = None /\ handoffAge' \in 0 .. RestartTimeout
    BY <1>2 DEF DeleteHandoff
  <2>2. /\ proc' \in {"ensuring", "booting"} /\ running' \in Versions
        /\ restart' \in BOOLEAN /\ selfExec' \in BOOLEAN
    BY <1>2 DEF DeleteHandoff, Boot, TypeOK
  <2> QED BY <1>2, <2>1, <2>2 DEF DeleteHandoff, TypeOK
<1>3. CASE Ensure
  <2>1. \A j \in Jobs : rows[j] # None => [rows[j] EXCEPT !.status = "failed"] \in Row
    BY RowTypes DEF Statuses, TypeOK
  <2>2. rows' \in [Jobs -> Row \cup {None}]
    BY <1>3, <2>1 DEF Ensure, TypeOK
  <2>3. age' \in [Jobs -> 0 .. RestartTimeout + 1]
    BY <1>3 DEF Ensure, TypeOK
  <2> QED BY <1>3, <2>2, <2>3 DEF Ensure, TypeOK
<1>4. CASE Restart
  BY <1>4, LoseTypes DEF Restart, Boot, TypeOK
<1>5. CASE Stop
  BY <1>5, LoseTypes DEF Stop, TypeOK
<1>6. CASE Check
  <2>1. MaxVersion \in Versions
    BY DEF Versions
  <2>2. check' \in [current : Versions, latest : Versions \cup {NoRelease}, canApply : BOOLEAN]
    <3> DEFINE newer == running < MaxVersion
    <3>1. newer \in BOOLEAN /\ running \in Versions
      BY DEF TypeOK
    <3>2. check' = [current |-> running, latest |-> MaxVersion, canApply |-> newer]
          \/ check' = [current |-> running, latest |-> NoRelease, canApply |-> FALSE]
      BY <1>6 DEF Check
    <3> HIDE DEF newer
    <3> DEFINE Checks == [current : Versions, latest : Versions \cup {NoRelease}, canApply : BOOLEAN]
    <3>3. [current |-> running, latest |-> MaxVersion, canApply |-> newer] \in Checks
      BY <2>1, <3>1
    <3>4. [current |-> running, latest |-> NoRelease, canApply |-> FALSE] \in Checks
      BY <3>1
    <3> QED BY <3>2, <3>3, <3>4
  <2> QED BY <1>6, <2>2 DEF Check, TypeOK
<1>7. CASE Crash
  BY <1>7, LoseTypes, SpendTypes DEF Crash, TypeOK
<1>8. ASSUME NEW v \in Versions, Deploy(v) PROVE TypeOK'
  BY <1>8, SpendTypes DEF Deploy, TypeOK
<1>9. CASE Tick
  <2>1. \A n \in 0 .. RestartTimeout + 1 : Bump(n, RestartTimeout + 1) \in 0 .. RestartTimeout + 1
    BY DEF Bump
  <2>2. \A n \in 0 .. RestartTimeout : Bump(n, RestartTimeout) \in 0 .. RestartTimeout
    BY DEF Bump
  <2>3. age' \in [Jobs -> 0 .. RestartTimeout + 1]
    BY <1>9, <2>1 DEF Tick, TypeOK
  <2>4. handoffAge' \in 0 .. RestartTimeout
    BY SMTT(20), <1>9, <2>2 DEF Tick, TypeOK
  <2> QED BY <1>9, <2>3, <2>4 DEF Tick, TypeOK
<1> QED BY <1>1, <1>2, <1>3, <1>4, <1>5, <1>6, <1>7, <1>8, <1>9, ConfirmTypes DEF ProcessStep, BootSteps

-----------------------------------------------------------------------------
\* Rows, goroutines and requests agree.

LEMMA TaskFrame ==
    ASSUME Sound, NEW j \in Jobs, task[j].pc # "none", rows'[j] # None, JobSound(j)',
           \A k \in Jobs \ {j} : rows'[k] = rows[k] /\ task'[k] = task[k],
           task[j].pc \notin Prior => task'[j].pc \notin Prior,
           UNCHANGED <<call, proc, check, order>>, TypeOK'
    PROVE  Sound'
<1>1. proc = "serving"
  BY DEF Sound, Hosted
<1>2. Hosted'
  BY <1>1 DEF Hosted
<1>3. \A i \in DOMAIN order' : rows'[order'[i]] # None
  BY DEF Sound, TypeOK
<1>4. ASSUME NEW k \in Jobs PROVE JobSound(k)'
  <2>1. CASE k # j
    <3>1. JobSound(k)
      BY DEF Sound
    <3> QED BY <2>1, <3>1 DEF JobSound
  <2> QED BY <2>1
<1>5. ASSUME NEW h \in Handlers PROVE CallSound(h)'
  <2>1. CallSound(h)
    BY DEF Sound
  <2>2. call[h].op = "applyCreated" => call[h].job # j
    BY <2>1 DEF CallSound
  <2>3. call[h].op \in {"applyCreated"} \cup Cancelling \cup Rolling => rows'[call[h].job] # None
    BY <2>1 DEF CallSound
  <2>4. call[h].op \in Rolling => task'[call[h].job].pc \notin Prior
    BY <2>1 DEF CallSound
  <2> QED BY <2>1, <2>2, <2>3, <2>4 DEF CallSound
<1> QED BY <1>2, <1>3, <1>4, <1>5 DEF Sound

\* What a goroutine has just made of its row, as a copy and in the table.
LEMMA ExecuteJob ==
    ASSUME Sound, NEW j \in Jobs, Execute(j)
    PROVE  /\ task[j].pc # "none" /\ rows'[j] # None /\ JobSound(j)'
           /\ \A k \in Jobs \ {j} : rows'[k] = rows[k] /\ task'[k] = task[k]
           /\ task[j].pc \notin Prior => task'[j].pc \notin Prior
           /\ UNCHANGED <<call, proc, check, order>>
<1> DEFINE Goal == /\ task[j].pc # "none" /\ rows'[j] # None /\ JobSound(j)'
                   /\ \A k \in Jobs \ {j} : rows'[k] = rows[k] /\ task'[k] = task[k]
                   /\ task[j].pc \notin Prior => task'[j].pc \notin Prior
                   /\ UNCHANGED <<call, proc, check, order>>
<1> SUFFICES Goal
  OBVIOUS
<1>1. /\ rows \in [Jobs -> Row \cup {None}] /\ task \in [Jobs -> TaskStates]
      /\ task[j].job \in Row /\ (task[j].pc # "none" => rows[j] \in Row)
  <2>1. TypeOK /\ JobSound(j)
    BY DEF Sound
  <2>2. task[j].job \in Row
    BY <2>1, TaskTypes
  <2> QED BY <2>1, <2>2 DEF JobSound, TypeOK
<1>2. JobSound(j)
  BY DEF Sound
<1> USE DEF store, disk, main, Working, Prior, Installing
<1> DEFINE Copied == /\ task'[j].pc \in Working \cup Installing =>
                          /\ task'[j].job.status = "running" /\ ~task'[j].job.rolled /\ task'[j].job.phase # "completed"
                          /\ task'[j].job.backup = IF task'[j].pc \in {"pruned", "installSaved"} THEN j ELSE None
                     /\ task'[j].pc \in Installing => task'[j].job.phase = "installing"
                     /\ task[j].pc \notin Prior => task'[j].pc \notin Prior
                     /\ task[j].pc # "none" /\ UNCHANGED <<call, proc, check, order>>
                     /\ \A k \in Jobs \ {j} : task'[k] = task[k]
\* A row is saved and its goroutine goes on or ends.
<1>3. ASSUME NEW row \in Row, Save(j, row), RowAgrees(j, row), Copied,
             task'[j].pc \in Prior => row.backup = None,
             task'[j].pc = "dispatch" => row.status \notin {"queued", "running"}
      PROVE  Goal
  <2>1. rows'[j] = row /\ row # None /\ \A k \in Jobs \ {j} : rows'[k] = rows[k]
    BY <1>1, <1>3 DEF Save
  <2>2. \E i \in DOMAIN order : order[i] = j
    BY <1>2, <1>3 DEF JobSound
  <2>3. JobSound(j)'
    BY <1>3, <2>1, <2>2 DEF JobSound
  <2> HIDE DEF Prior, Working, Installing
  <2> QED BY <1>3, <2>1, <2>3
\* The goroutine goes on or ends and leaves its row alone.
<1>4. ASSUME Copied, UNCHANGED rows,
             task'[j].pc \in {"backedUp", "replaced", "pruned", "end"}, task'[j].pc # "end" => task[j].pc \in Prior
      PROVE  Goal
  <2>1. rows'[j] = rows[j] /\ rows[j] # None /\ \A k \in Jobs \ {j} : rows'[k] = rows[k]
    BY <1>1, <1>4
  <2>2. JobSound(j)'
    BY <1>2, <1>4, <2>1 DEF JobSound
  <2> HIDE DEF Prior, Working, Installing
  <2> QED BY <1>4, <2>1, <2>2
<1> HIDE DEF Goal
<1>5. \A pc, row : task' = [task EXCEPT ![j].pc = pc, ![j].job = row] =>
        task'[j].pc = pc /\ task'[j].job = row /\ \A k \in Jobs \ {j} : task'[k] = task[k]
  BY <1>1 DEF TaskStates
<1>6. \A pc : task' = [task EXCEPT ![j].pc = pc] =>
        task'[j].pc = pc /\ task'[j].job = task[j].job /\ \A k \in Jobs \ {j} : task'[k] = task[k]
  BY <1>1 DEF TaskStates
<1>7. CASE Load(j)
  <2> DEFINE row == [rows[j] EXCEPT !.status = "running"]
  <2>1. row \in Row /\ row.status = "running" /\ row.phase = rows[j].phase /\ row.backup = rows[j].backup /\ row.rolled = rows[j].rolled
    BY ZenonT(40), <1>1, <1>7, RowTypes DEF Load, Row, Statuses, Active
  <2>2. task'[j].pc = "loaded" /\ task'[j].job = row /\ \A k \in Jobs \ {j} : task'[k] = task[k]
    BY <1>5, <1>7 DEF Load
  <2>3. Save(j, row) /\ task[j].pc = "spawned" /\ rows[j].backup = None /\ RowAgrees(j, rows[j]) /\ UNCHANGED <<call, proc, check, order>>
    BY <1>2, <1>7 DEF Load, JobSound
  <2> HIDE DEF row
  <2>4. RowAgrees(j, row)
    BY <2>1, <2>3 DEF RowAgrees
  <2>5. row.phase # "completed" /\ ~row.rolled
    BY <2>1, <2>3 DEF RowAgrees
  <2> QED BY <1>3, <2>1, <2>2, <2>3, <2>4, <2>5
<1>8. ASSUME NEW from \in Working, NEW phase \in {"downloading", "verifying", "extracting", "installing"},
             SavePhase(j, from, phase), from \notin Installing
      PROVE  Goal
  <2> DEFINE row == [task[j].job EXCEPT !.phase = phase]
  <2>1. row \in Row /\ row.phase = phase /\ \A f \in {"status", "backup", "rolled"} : row[f] = task[j].job[f]
    BY ZenonT(40), <1>1, RowTypes DEF Row, AllPhases, EarlyPhases
  <2>2. task'[j].pc = phase /\ task'[j].job = row /\ \A k \in Jobs \ {j} : task'[k] = task[k]
    BY <1>5, <1>8 DEF SavePhase
  <2>3. Save(j, row) /\ task[j].pc = from /\ UNCHANGED <<call, proc, check, order>>
    BY <1>8 DEF SavePhase
  <2>4. task[j].job.status = "running" /\ ~task[j].job.rolled /\ task[j].job.backup = None
    BY <1>2, <1>8, <2>3 DEF JobSound
  <2> HIDE DEF row
  <2>5. row.status = "running" /\ ~row.rolled /\ row.backup = None
    BY <2>1, <2>4
  <2>6. RowAgrees(j, row)
    BY <2>1, <2>5 DEF RowAgrees
  <2> QED BY <1>3, <2>1, <2>2, <2>3, <2>5, <2>6
<1>9. CASE BackupBinary(j) \/ ReplaceBinary(j)
  <2>1. task'[j].pc \in {"backedUp", "replaced"} /\ task'[j].job = task[j].job /\ \A k \in Jobs \ {j} : task'[k] = task[k]
    BY <1>6, <1>9 DEF BackupBinary, ReplaceBinary
  <2>2. task[j].pc \in {"installing", "backedUp"} /\ UNCHANGED <<rows, call, proc, check, order>>
    BY <1>9 DEF BackupBinary, ReplaceBinary
  <2> QED BY <1>2, <1>4, <2>1, <2>2 DEF JobSound
<1>10. CASE PruneBackups(j)
  <2>1. /\ task'[j].pc = "pruned" /\ \A k \in Jobs \ {j} : task'[k] = task[k]
        /\ task'[j].job.backup = j /\ \A f \in {"status", "phase", "rolled"} : task'[j].job[f] = task[j].job[f]
    BY <1>1, <1>10 DEF PruneBackups, TaskStates, Row
  <2>2. task[j].pc = "replaced" /\ UNCHANGED <<rows, call, proc, check, order>>
    BY <1>10 DEF PruneBackups
  <2> QED BY <1>2, <1>4, <2>1, <2>2 DEF JobSound
<1>11. CASE SaveInstalled(j)
  <2>1. task'[j].pc = "installSaved" /\ task'[j].job = task[j].job /\ \A k \in Jobs \ {j} : task'[k] = task[k]
    BY <1>6, <1>11 DEF SaveInstalled
  <2>2. Save(j, task[j].job) /\ task[j].pc = "pruned" /\ UNCHANGED <<call, proc, check, order>>
    BY <1>11 DEF SaveInstalled
  <2>3. RowAgrees(j, task[j].job)
    BY <1>2, <2>2 DEF JobSound, RowAgrees, EarlyPhases
  <2> QED BY <1>1, <1>2, <1>3, <2>1, <2>2, <2>3 DEF JobSound
<1>12. CASE SaveRestarting(j)
  <2> DEFINE row == [task[j].job EXCEPT !.status = "restarting", !.phase = "restarting"]
  <2>1. row \in Row /\ row.phase = "restarting" /\ row.status = "restarting" /\ row.backup = task[j].job.backup
    BY ZenonT(40), <1>1, RowTypes DEF Row, AllPhases, EarlyPhases, Statuses, Active
  <2>2. task'[j].pc = "dispatch" /\ \A k \in Jobs \ {j} : task'[k] = task[k]
    BY <1>5, <1>12 DEF SaveRestarting
  <2>3. Save(j, row) /\ task[j].pc = "installSaved" /\ UNCHANGED <<call, proc, check, order>>
    BY <1>12 DEF SaveRestarting, SaveEnded
  <2> HIDE DEF row
  <2>4. RowAgrees(j, row)
    BY <1>2, <2>1, <2>3 DEF JobSound, RowAgrees, EarlyPhases
  <2> QED BY <1>3, <2>1, <2>2, <2>3, <2>4
<1>13. CASE Dispatch(j) \/ EndUnsaved(j)
  <2>1. task'[j].pc = "end" /\ \A k \in Jobs \ {j} : task'[k] = task[k]
    BY <1>6, <1>13 DEF Dispatch, EndUnsaved
  <2>2. task[j].pc # "none" /\ UNCHANGED <<rows, call, proc, check, order>>
    BY <1>13 DEF Dispatch, RequestRestart, EndUnsaved
  <2> QED BY <1>4, <2>1, <2>2
\* The row of a job that fails or is cancelled.
<1>14. ASSUME NEW old \in Row, NEW status \in {"failed", "cancelled"}, RowAgrees(j, old), old.phase # "completed",
              Save(j, [old EXCEPT !.status = status]), task[j].pc # "none", task' = [task EXCEPT ![j].pc = "end"],
              UNCHANGED <<call, proc, check, order>>
       PROVE  Goal
  <2> DEFINE row == [old EXCEPT !.status = status]
  <2>1. row \in Row /\ row.status = status /\ \A f \in {"phase", "backup", "rolled"} : row[f] = old[f]
    BY <1>14, RowTypes DEF Row, Statuses
  <2>2. task'[j].pc = "end" /\ \A k \in Jobs \ {j} : task'[k] = task[k]
    BY <1>6, <1>14
  <2> HIDE DEF row
  <2>3. RowAgrees(j, row)
    BY <1>14, <2>1 DEF RowAgrees
  <2>4. Save(j, row)
    BY <1>14 DEF row
  <2> QED BY <1>3, <1>14, <2>1, <2>2, <2>3, <2>4
<1>15. CASE Abort(j) \/ Fail(j)
  <2>1. /\ task[j].pc \in Working \cup Installing /\ task' = [task EXCEPT ![j].pc = "end"]
        /\ \E status \in {"failed", "cancelled"} : Save(j, [task[j].job EXCEPT !.status = status])
        /\ UNCHANGED <<call, proc, check, order>>
    BY <1>15 DEF Abort, Fail, SaveEnded
  <2>2. RowAgrees(j, task[j].job) /\ task[j].job.phase # "completed"
    BY <1>2, <2>1 DEF JobSound, RowAgrees, EarlyPhases
  <2> QED BY <1>1, <1>14, <2>1, <2>2
<1>16. CASE Panic(j)
  <2>1. /\ task[j].pc \in Prior /\ task' = [task EXCEPT ![j].pc = "end"]
        /\ Save(j, [rows[j] EXCEPT !.status = "failed"]) /\ UNCHANGED <<call, proc, check, order>>
    BY <1>16 DEF Panic, SaveEnded
  <2>2. RowAgrees(j, rows[j]) /\ rows[j].phase # "completed"
    BY <1>2, <2>1 DEF JobSound, RowAgrees
  <2> QED BY <1>1, <1>14, <2>1, <2>2
<1> QED BY <1>7, <1>8, <1>9, <1>10, <1>11, <1>12, <1>13, <1>15, <1>16 DEF Execute

LEMMA Appended ==
    ASSUME NEW S, NEW s \in Seq(S), NEW e \in S
    PROVE  /\ \A i \in DOMAIN s : i \in DOMAIN Append(s, e) /\ Append(s, e)[i] = s[i]
           /\ \A i \in DOMAIN Append(s, e) : i \in DOMAIN s \/ Append(s, e)[i] = e
           /\ \E i \in DOMAIN Append(s, e) : Append(s, e)[i] = e
<1>1. Append(s, e) \in Seq(S) /\ Len(Append(s, e)) = Len(s) + 1 /\ Append(s, e)[Len(s) + 1] = e
  OBVIOUS
<1>2. \A i \in 1 .. Len(s) : Append(s, e)[i] = s[i]
  OBVIOUS
<1> QED BY <1>1, <1>2

\* A request that touches one row, one goroutine and itself.
LEMMA HandleFrame ==
    ASSUME Sound, NEW h \in Handlers, NEW j \in Jobs, call[h] # Idle \/ proc = "serving",
           JobSound(j)', CallSound(h)', rows'[j] # None,
           \A k \in Jobs \ {j} : rows'[k] = rows[k] /\ task'[k].pc = task[k].pc /\ task'[k].job = task[k].job,
           \A g \in Handlers \ {h} : call'[g] = call[g],
           call'[h].op = "applyCreated" /\ call'[h].job = j => rows[j] = None,
           \A g \in Handlers \ {h} : call[g].op = "applyCreated" /\ call[g].job = j =>
                rows'[j].backup = None /\ task'[j].pc = "none",
           task'[j].pc \in Prior => task[j].pc \in Prior \/ (call[h].op = "applyCreated" /\ call[h].job = j),
           call'[h].op = "applyCreated" => call'[h].job = j,
           UNCHANGED <<proc, check>>, order' = order \/ order' = Append(order, j), TypeOK'
    PROVE  Sound'
<1>1. proc = "serving" /\ Hosted'
  BY DEF Sound, Hosted
<1>0. order \in Seq(Jobs) /\ \A i \in DOMAIN order : rows[order[i]] # None /\ order[i] \in Jobs
  BY DEF Sound, TypeOK
<1>2. \A i \in DOMAIN order' : rows'[order'[i]] # None
  <2>1. \A k \in Jobs : rows[k] # None => rows'[k] # None
    OBVIOUS
  <2> QED BY SMTT(20), <1>0, <2>1, Appended
<1>3. \A k \in Jobs : (\E i \in DOMAIN order : order[i] = k) => \E i \in DOMAIN order' : order'[i] = k
  <2>1. CASE order' = Append(order, j)
    <3>1. DOMAIN order \subseteq DOMAIN order' /\ \A i \in DOMAIN order : order'[i] = order[i]
      BY <1>0, <2>1, Appended
    <3> QED BY <3>1
  <2> QED BY <2>1
<1>4. ASSUME NEW k \in Jobs PROVE JobSound(k)'
  <2>1. CASE k # j
    <3>1. JobSound(k)
      BY DEF Sound
    <3> QED BY <1>3, <2>1, <3>1 DEF JobSound
  <2> QED BY <2>1
<1>5. ASSUME NEW g \in Handlers \ {h} PROVE CallSound(g)'
  <2>1. CallSound(g) /\ CallSound(h) /\ call'[g] = call[g]
    BY DEF Sound
  <2>2. call[g].op \in {"applyCreated"} \cup Cancelling \cup Rolling => call[g].job \in Jobs /\ rows[call[g].job] # None /\ rows'[call[g].job] # None
    BY <2>1 DEF CallSound
  <2>3. call[g].op = "applyCreated" =>
          /\ rows'[call[g].job].backup = None /\ task'[call[g].job].pc = "none"
          /\ ~(call'[h].op = "applyCreated" /\ call'[h].job = call[g].job)
    BY <2>1, <2>2 DEF CallSound
  <2>4. call[g].op \in Rolling =>
          /\ task'[call[g].job].pc \notin Prior
          /\ ~(call'[h].op = "applyCreated" /\ call'[h].job = call[g].job)
    BY <2>1, <2>2 DEF CallSound
  <2>5. \A f \in Handlers \ {h} : call'[f] = call[f]
    OBVIOUS
  <2> HIDE DEF Prior
  <2>6. call[g].op = "applyCreated" =>
          \A f \in Handlers : call'[f].op = "applyCreated" /\ call'[f].job = call[g].job => f = g
    BY <2>1, <2>3, <2>5 DEF CallSound
  <2>7. call[g].op \in Rolling => \A f \in Handlers : ~(call'[f].op = "applyCreated" /\ call'[f].job = call[g].job)
    BY <2>1, <2>4, <2>5 DEF CallSound
  <2> QED BY <2>1, <2>2, <2>3, <2>4, <2>6, <2>7 DEF CallSound
<1>6. check'.canApply => check'.latest # NoRelease
  BY DEF Sound
<1> QED BY <1>1, <1>2, <1>4, <1>5, <1>6 DEF Sound

LEMMA HandleSound ==
    ASSUME Sound, NEW h \in Handlers, Handle(h)
    PROVE  Sound'
<1>1. TypeOK'
  BY HandleTypes DEF Sound
<1>2. /\ rows \in [Jobs -> Row \cup {None}] /\ task \in [Jobs -> TaskStates] /\ call \in [Handlers -> CallStates]
      /\ order \in Seq(Jobs) /\ call[h].row \in Row
  BY DEF Sound, TypeOK, CallStates
<1>3. CallSound(h) /\ \A k \in Jobs : JobSound(k)
  BY DEF Sound
<1>4. Idle.op = "idle"
  BY DEF Idle
<1> USE DEF store, disk, main
\* The request that is done, or has only noted what to do next.
<1>5. ASSUME NEW op, call' = [call EXCEPT ![h].op = op] PROVE call'[h].op = op /\ call'[h].job = call[h].job /\ call'[h].row = call[h].row
  BY <1>2, <1>5 DEF CallStates
<1>6. CASE ApplyCheck(h)
  <2>1. call'[h].op = "applyChecked" /\ call'[h].row = [NoRow EXCEPT !.target = check.latest]
    BY <1>2, <1>6 DEF ApplyCheck, Idle
  <2>2. CallSound(h)'
    BY <2>1 DEF CallSound, Applying, Cancelling, Rolling, NoRow
  <2>3. ASSUME NEW k \in Jobs PROVE JobSound(k)'
    BY <1>3, <1>6 DEF ApplyCheck, JobSound
  <2>4. ASSUME NEW g \in Handlers \ {h} PROVE CallSound(g)'
    <3>1. CallSound(g) /\ call'[g] = call[g] /\ UNCHANGED <<rows, task>>
      BY <1>2, <1>6 DEF ApplyCheck, Sound
    <3>2. \A f \in Handlers : call'[f].op = "applyCreated" => call[f].op = "applyCreated" /\ call'[f].job = call[f].job
      BY <1>2, <1>6, <2>1 DEF ApplyCheck
    <3> QED BY <3>1, <3>2 DEF CallSound
  <2> QED BY <1>1, <1>6, <2>2, <2>3, <2>4 DEF ApplyCheck, Sound, Hosted
<1>7. ASSUME NEW j \in Jobs, ApplyCreate(h, j) PROVE Sound'
  <2> DEFINE row == call[h].row
  <2>1. /\ row \in Row /\ row = [NoRow EXCEPT !.target = row.target] /\ rows[j] = None /\ task[j].pc = "none"
        /\ rows' = [rows EXCEPT ![j] = row] /\ UNCHANGED <<task, proc, check>> /\ order' = Append(order, j)
    BY <1>2, <1>3, <1>7 DEF ApplyCreate, Save, CallSound, Applying, JobSound
  <2>2. call'[h].op = "applyCreated" /\ call'[h].job = j /\ call'[h].row = row /\ \A g \in Handlers \ {h} : call'[g] = call[g]
    BY <1>2, <1>7 DEF ApplyCreate, CallStates
  <2> HIDE DEF row
  <2>3. rows'[j] = row /\ row # None /\ RowAgrees(j, row) /\ row.backup = None
    BY <1>2, <2>1 DEF RowAgrees, NoRow, EarlyPhases
  <2>4. JobSound(j)'
    BY <1>2, <2>1, <2>3, Appended DEF JobSound, Working, Prior, Installing
  <2>5. \A g \in Handlers \ {h} : ~(call[g].op = "applyCreated" /\ call[g].job = j)
    BY <2>1 DEF Sound, CallSound
  <2>6. CallSound(h)'
    BY <2>1, <2>2, <2>3, <2>5 DEF CallSound, Cancelling, Rolling
  <2> QED BY <1>1, <1>2, <1>4, <1>7, <2>1, <2>2, <2>3, <2>4, <2>5, <2>6, HandleFrame DEF ApplyCreate, Idle
<1>8. CASE ApplySpawn(h)
  <2>0. PICK j \in Jobs : j = call[h].job
    BY <1>3, <1>8 DEF ApplySpawn, CallSound
  <2>1. j \in Jobs /\ rows[j] # None /\ rows[j].backup = None /\ task[j].pc = "none" /\ call[h].op = "applyCreated"
    BY <1>3, <1>8, <2>0 DEF ApplySpawn, CallSound
  <2>2. /\ task' = [task EXCEPT ![j] = [NoTask EXCEPT !.pc = "spawned"]] /\ UNCHANGED <<rows, proc, check, order>>
        /\ call' = [call EXCEPT ![h] = Idle]
    BY <1>8, <2>0 DEF ApplySpawn
  <2>3. \A g \in Handlers \ {h} : ~(call[g].op = "applyCreated" /\ call[g].job = j)
    BY <1>3, <2>0, <2>1 DEF CallSound
  <2>4. task'[j].pc = "spawned" /\ call'[h].op = "idle"
    BY <1>2, <1>4, <2>1, <2>2 DEF NoTask
  <2>5. JobSound(j)
    BY <1>3, <2>1
  <2>6. JobSound(j)'
    BY <2>1, <2>2, <2>4, <2>5 DEF JobSound, Working, Installing
  <2>7. CallSound(h)'
    BY <2>4 DEF CallSound, Applying, Cancelling, Rolling
  <2>8. call[h].job = j /\ task'[j].pc = "spawned"
    BY <2>0, <2>4
  <2>9. \A k \in Jobs \ {j} : task'[k] = task[k]
    BY <1>2, <2>2
  <2>10. \A g \in Handlers \ {h} : call'[g] = call[g]
    BY <1>2, <2>2
  <2>11. call[h] # Idle /\ rows'[j] # None
    BY <1>4, <2>1, <2>2
  <2> QED BY <1>1, <2>1, <2>2, <2>3, <2>4, <2>6, <2>7, <2>8, <2>9, <2>10, <2>11, HandleFrame
\* What the other requests know of a job another one inserted.
<1>9. \A g \in Handlers, j \in Jobs : call[g].op = "applyCreated" /\ call[g].job = j => rows[j].backup = None /\ task[j].pc = "none"
  BY ZenonT(40) DEF Sound, CallSound
\* A request that leaves the rows alone, and of a goroutine changes at most its context.
<1>10. ASSUME NEW j \in Jobs, rows[j] # None, UNCHANGED <<rows, proc, check, order>>, CallSound(h)',
              \A k \in Jobs : task'[k].pc = task[k].pc /\ task'[k].job = task[k].job,
              \A g \in Handlers \ {h} : call'[g] = call[g],
              call'[h].op # "applyCreated", call[h] # Idle \/ proc = "serving"
       PROVE  Sound'
  <2>1. JobSound(j)
    BY <1>3
  <2>2. JobSound(j)'
    BY <1>10, <2>1 DEF JobSound
  <2>3. \A g \in Handlers \ {h} : call[g].op = "applyCreated" /\ call[g].job = j => rows'[j].backup = None /\ task'[j].pc = "none"
    BY <1>9, <1>10
  <2> HIDE DEF Prior
  <2> QED BY <1>1, <1>10, <2>2, <2>3, HandleFrame
<1>11. ASSUME NEW j \in Jobs, CancelRead(h, j) PROVE Sound'
  <2>1. /\ rows[j] # None /\ rows[j].phase \notin {"installing", "restarting"} /\ rows[j].status # "completed"
        /\ UNCHANGED <<rows, task, proc, check, order>> /\ proc = "serving"
    BY <1>11 DEF CancelRead
  <2>2. call'[h] = [op |-> "cancelRead", job |-> j, row |-> rows[j]] /\ \A g \in Handlers \ {h} : call'[g] = call[g]
    BY <1>2, <1>11 DEF CancelRead
  <2>3. RowAgrees(j, rows[j]) /\ rows[j].phase \in AllPhases
    BY <1>2, <1>3, <2>1 DEF JobSound, Row, AllPhases, EarlyPhases
  <2>4. rows[j].phase \in EarlyPhases /\ rows[j].backup = None /\ ~rows[j].rolled
    BY <2>1, <2>3 DEF RowAgrees, AllPhases
  <2>5. CallSound(h)'
    BY <2>1, <2>2, <2>4 DEF CallSound, Applying, Cancelling, Rolling
  <2> QED BY <1>10, <2>1, <2>2, <2>5
<1>12. CASE CancelSignal(h)
  <2>0. PICK j \in Jobs : j = call[h].job
    BY <1>3, <1>12 DEF CancelSignal, CallSound, Cancelling
  <2>1. j \in Jobs /\ rows[j] # None /\ call[h].op = "cancelRead"
    BY <1>3, <1>12, <2>0 DEF CancelSignal, CallSound, Cancelling
  <2>2. call'[h].op = "cancelSignalled" /\ call'[h].job = j /\ call'[h].row = call[h].row /\ \A g \in Handlers \ {h} : call'[g] = call[g]
    BY <1>2, <1>5, <1>12, <2>0 DEF CancelSignal
  <2>3. \A k \in Jobs : task'[k].pc = task[k].pc /\ task'[k].job = task[k].job
    BY <1>2, <1>12 DEF CancelSignal, TaskStates
  <2>4. UNCHANGED <<rows, proc, check, order>>
    BY <1>12 DEF CancelSignal
  <2>5. CallSound(h)'
    BY <1>3, <2>1, <2>2, <2>4 DEF CallSound, Applying, Cancelling, Rolling
  <2> QED BY <1>4, <1>10, <2>1, <2>2, <2>3, <2>4, <2>5
<1>13. CASE CancelSave(h) /\ SaveEnded(call[h].job, [call[h].row EXCEPT !.status = "cancelled"])
  <2>0. PICK j \in Jobs : j = call[h].job
    BY <1>3, <1>13 DEF CancelSave, CallSound, Cancelling
  <2> DEFINE row == [call[h].row EXCEPT !.status = "cancelled"]
  <2>1. /\ j \in Jobs /\ rows[j] # None /\ call[h].op = "cancelSignalled"
        /\ call[h].row.phase \in EarlyPhases /\ call[h].row.backup = None /\ ~call[h].row.rolled
    BY <1>3, <1>13, <2>0 DEF CancelSave, CallSound, Cancelling
  <2>2. row \in Row /\ row.status = "cancelled" /\ \A f \in {"phase", "backup", "rolled"} : row[f] = call[h].row[f]
    BY <1>2, RowTypes DEF Row, Statuses
  <2>3. rows' = [rows EXCEPT ![j] = row] /\ UNCHANGED <<task, proc, check, order>>
    BY <1>13, <2>0 DEF CancelSave, SaveEnded, Save
  <2>4. call'[h] = Idle /\ \A g \in Handlers \ {h} : call'[g] = call[g]
    BY <1>2, <1>13 DEF CancelSave
  <2> HIDE DEF row
  <2>5. rows'[j] = row /\ row # None /\ (\A k \in Jobs \ {j} : rows'[k] = rows[k]) /\ RowAgrees(j, row)
    BY <1>2, <2>1, <2>2, <2>3 DEF RowAgrees, EarlyPhases
  <2>6. JobSound(j) /\ row.backup = None
    BY <1>3, <2>1, <2>2
  <2>7. JobSound(j)'
    BY <2>1, <2>2, <2>3, <2>5, <2>6 DEF JobSound
  <2>8. CallSound(h)'
    BY <1>4, <2>4 DEF CallSound, Applying, Cancelling, Rolling
  <2>9. \A g \in Handlers \ {h} : call[g].op = "applyCreated" /\ call[g].job = j => rows'[j].backup = None /\ task'[j].pc = "none"
    BY <1>9, <2>1, <2>3, <2>5, <2>6
  <2> HIDE DEF Prior
  <2>10. call[h] # Idle /\ call'[h].op # "applyCreated" /\ rows'[j] # None
    BY <1>4, <2>1, <2>4, <2>5
  <2> QED BY <1>1, <2>1, <2>3, <2>4, <2>5, <2>7, <2>8, <2>9, <2>10, HandleFrame
<1>14. ASSUME NEW j \in Jobs, RollbackRead(h, j) PROVE Sound'
  <2>1. /\ rows[j] # None /\ rows[j].status \notin Active /\ rows[j].backup # None
        /\ UNCHANGED <<rows, task, proc, check, order>> /\ proc = "serving"
    BY <1>14 DEF RollbackRead, BackupExists
  <2>2. call'[h] = [op |-> "rollbackRead", job |-> j, row |-> rows[j]] /\ \A g \in Handlers \ {h} : call'[g] = call[g]
    BY <1>2, <1>14 DEF RollbackRead
  <2>3. RowAgrees(j, rows[j]) /\ rows[j].backup = j /\ task[j].pc \notin Prior
    BY <1>3, <2>1 DEF JobSound, RowAgrees
  <2>4. \A g \in Handlers \ {h} : ~(call[g].op = "applyCreated" /\ call[g].job = j)
    BY <1>9, <2>1
  <2> HIDE DEF Prior
  <2>5. CallSound(h)'
    BY <2>1, <2>2, <2>3, <2>4 DEF CallSound, Applying, Cancelling, Rolling
  <2> QED BY <1>10, <2>1, <2>2, <2>5
<1>15. CASE RollbackRestore(h)
  <2>0. PICK j \in Jobs : j = call[h].job
    BY <1>3, <1>15 DEF RollbackRestore, CallSound, Rolling
  <2>1. j \in Jobs /\ rows[j] # None /\ call[h].op = "rollbackRead" /\ UNCHANGED <<rows, task, proc, check, order>>
    BY <1>3, <1>15, <2>0 DEF RollbackRestore, CallSound, Rolling
  <2>2. \A g \in Handlers \ {h} : call'[g] = call[g]
    BY <1>2, <1>15 DEF RollbackRestore
  <2>3. \/ call'[h] = Idle
        \/ call'[h].op = "rollbackRestored" /\ call'[h].job = j /\ call'[h].row = call[h].row
    BY <1>2, <1>5, <1>15, <2>0 DEF RollbackRestore
  <2>4. /\ call[h].row.backup = j /\ call[h].row.status \notin Active /\ RowAgrees(j, call[h].row) /\ task'[j].pc \notin Prior
        /\ \A g \in Handlers : ~(call'[g].op = "applyCreated" /\ call'[g].job = j)
    BY <1>3, <1>4, <2>0, <2>1, <2>2, <2>3 DEF CallSound, Rolling
  <2> HIDE DEF Prior
  <2>5. CallSound(h)'
    BY <1>4, <2>1, <2>3, <2>4 DEF CallSound, Applying, Cancelling, Rolling
  <2> QED BY <1>4, <1>10, <2>1, <2>2, <2>3, <2>5
<1>16. CASE RollbackSave(h) /\ SaveEnded(call[h].job, [call[h].row EXCEPT !.rolled = TRUE])
  <2>0. PICK j \in Jobs : j = call[h].job
    BY <1>3, <1>16 DEF RollbackSave, CallSound, Rolling
  <2> DEFINE row == [call[h].row EXCEPT !.rolled = TRUE]
  <2>1. /\ j \in Jobs /\ rows[j] # None /\ call[h].op = "rollbackRestored" /\ task[j].pc \notin Prior
        /\ call[h].row.backup = j /\ call[h].row.status \notin Active /\ RowAgrees(j, call[h].row)
        /\ \A g \in Handlers : ~(call[g].op = "applyCreated" /\ call[g].job = j)
    BY <1>3, <1>16, <2>0 DEF RollbackSave, CallSound, Rolling
  <2>2. row \in Row /\ row.rolled /\ \A f \in {"status", "phase", "backup"} : row[f] = call[h].row[f]
    BY <1>2, RowTypes DEF Row
  <2>3. rows' = [rows EXCEPT ![j] = row] /\ UNCHANGED <<task, proc, check, order>>
    BY <1>16, <2>0 DEF RollbackSave, SaveEnded, Save
  <2>4. /\ \A g \in Handlers \ {h} : call'[g] = call[g]
        /\ \/ call'[h] = Idle
           \/ call'[h].op = "rollbackSaved" /\ call'[h].job = j /\ call'[h].row = call[h].row
    BY <1>2, <1>16, <2>0 DEF RollbackSave, CallStates
  <2>5. row.status \notin Active /\ row.backup = j /\ RowAgrees(j, row)
    BY <2>1, <2>2 DEF RowAgrees
  <2> HIDE DEF row
  <2>6. rows'[j] = row /\ row # None /\ \A k \in Jobs \ {j} : rows'[k] = rows[k]
    BY <1>2, <2>1, <2>2, <2>3
  <2>7. JobSound(j)
    BY <1>3, <2>1
  <2>8. JobSound(j)'
    BY <2>1, <2>3, <2>5, <2>6, <2>7 DEF JobSound, Active
  <2> HIDE DEF Prior
  <2>9. CallSound(h)'
    BY <1>4, <2>1, <2>3, <2>4, <2>6 DEF CallSound, Applying, Cancelling, Rolling
  <2>10. call[h] # Idle /\ call'[h].op # "applyCreated" /\ rows'[j] # None
    BY <1>4, <2>1, <2>4, <2>6
  <2> QED BY <1>1, <2>1, <2>3, <2>4, <2>6, <2>8, <2>9, <2>10, HandleFrame
<1>18. CASE (CancelSave(h) \/ RollbackSave(h)) /\ UNCHANGED rows /\ call' = [call EXCEPT ![h] = Idle]
  <2>1. call[h].op \in {"cancelSignalled", "rollbackRestored"} /\ UNCHANGED <<rows, task, proc, check, order>>
    BY <1>18 DEF CancelSave, RollbackSave
  <2>2. call'[h] = Idle /\ \A g \in Handlers \ {h} : call'[g] = call[g]
    BY <1>2, <1>18
  <2>3. CallSound(h)'
    BY <1>4, <2>2 DEF CallSound, Applying, Cancelling, Rolling
  <2>4. PICK j \in Jobs : j = call[h].job /\ rows[j] # None
    BY <1>3, <2>1 DEF CallSound, Cancelling, Rolling
  <2>5. call[h] # Idle /\ call'[h].op # "applyCreated"
    BY <1>4, <2>1, <2>2
  <2> QED BY <1>10, <2>1, <2>2, <2>3, <2>4, <2>5
<1>19. ASSUME CancelSave(h) PROVE Sound'
  <2>1. \/ SaveEnded(call[h].job, [call[h].row EXCEPT !.status = "cancelled"])
        \/ UNCHANGED rows /\ call' = [call EXCEPT ![h] = Idle]
    BY <1>19 DEF CancelSave
  <2> QED BY <1>13, <1>18, <1>19, <2>1
<1>20. ASSUME RollbackSave(h) PROVE Sound'
  <2>1. \/ SaveEnded(call[h].job, [call[h].row EXCEPT !.rolled = TRUE])
        \/ UNCHANGED rows /\ call' = [call EXCEPT ![h] = Idle]
    BY <1>20 DEF RollbackSave
  <2> QED BY <1>16, <1>18, <1>20, <2>1
<1>17. CASE RollbackDispatch(h)
  <2>0. PICK j \in Jobs : j = call[h].job
    BY <1>3, <1>17 DEF RollbackDispatch, CallSound, Rolling
  <2>1. j \in Jobs /\ rows[j] # None /\ call[h].op = "rollbackSaved" /\ UNCHANGED <<rows, task, proc, check, order>>
    BY <1>3, <1>17, <2>0 DEF RollbackDispatch, RequestRestart, CallSound, Rolling
  <2>2. call'[h] = Idle /\ \A g \in Handlers \ {h} : call'[g] = call[g]
    BY <1>2, <1>17 DEF RollbackDispatch
  <2>3. CallSound(h)'
    BY <1>4, <2>2 DEF CallSound, Applying, Cancelling, Rolling
  <2> QED BY <1>4, <1>10, <2>1, <2>2, <2>3
<1> QED BY <1>6, <1>7, <1>8, <1>11, <1>12, <1>14, <1>15, <1>17, <1>19, <1>20 DEF Handle

\* A row that ConfirmBoot or Ensure writes: no goroutine and no request is left then.
LEMMA BootFrame ==
    ASSUME Sound, proc # "serving", UNCHANGED <<task, call, order>>, check'.canApply => check'.latest # NoRelease,
           TypeOK', restart' => restart, proc' # "down" /\ proc' # "serving" => ~restart',
           \A j \in Jobs : (rows[j] = None => rows'[j] = None) /\ (rows[j] # None => rows'[j] # None /\ RowAgrees(j, rows'[j]))
    PROVE  Sound'
<1>1. (\A j \in Jobs : task[j].pc = "none") /\ \A h \in Handlers : call[h] = Idle
  BY DEF Sound, Hosted
<1>2. Hosted'
  <2>1. proc' \in {"down", "booting", "confirmed", "rollbackExec", "ensuring", "serving"}
    BY DEF TypeOK
  <2> QED BY <1>1, <2>1 DEF Hosted
<1>3. \A i \in DOMAIN order' : rows'[order'[i]] # None
  BY DEF Sound, TypeOK
<1>4. ASSUME NEW j \in Jobs PROVE JobSound(j)'
  <2>1. JobSound(j) /\ task'[j].pc = "none"
    BY <1>1 DEF Sound
  <2> QED BY <2>1 DEF JobSound, Prior, Working, Installing
<1>5. ASSUME NEW h \in Handlers PROVE CallSound(h)'
  <2>1. call'[h].op = "idle"
    BY <1>1 DEF Idle
  <2> QED BY <2>1 DEF CallSound, Applying, Cancelling, Rolling
<1> QED BY <1>2, <1>3, <1>4, <1>5 DEF Sound

\* The process leaves or changes with all it runs, or only looks at the clock, the
\* release or the disk.
LEMMA KeepFrame ==
    ASSUME Sound, UNCHANGED <<rows, order>>, check'.canApply => check'.latest # NoRelease, TypeOK', Hosted',
           UNCHANGED <<task, call>> \/ Lose
    PROVE  Sound'
<1>1. \A i \in DOMAIN order' : rows'[order'[i]] # None
  BY DEF Sound
<1>2. ASSUME NEW j \in Jobs PROVE JobSound(j)'
  <2>1. JobSound(j) /\ (task'[j] = task[j] \/ task'[j].pc = "none")
    BY DEF Sound, Lose, NoTask
  <2> QED BY <2>1 DEF JobSound, Prior, Working, Installing
<1>3. ASSUME NEW h \in Handlers PROVE CallSound(h)'
  <2>1. CASE UNCHANGED <<task, call>>
    BY <2>1 DEF Sound, CallSound
  <2>2. CASE Lose
    <3>1. call'[h].op = "idle"
      BY <2>2 DEF Lose, Idle
    <3> QED BY <3>1 DEF CallSound, Applying, Cancelling, Rolling
  <2> QED BY <2>1, <2>2
<1> QED BY <1>1, <1>2, <1>3 DEF Sound

LEMMA ProcessSound ==
    ASSUME Sound, ProcessStep
    PROVE  Sound'
<1> USE DEF store, disk, main
<1>1. /\ TypeOK /\ TypeOK' /\ Hosted /\ (check.canApply => check.latest # NoRelease)
      /\ rows \in [Jobs -> Row \cup {None}]
  BY ProcessTypes DEF Sound, TypeOK
<1>2. \A j \in Jobs : rows[j] # None => rows[j] \in Row /\ RowAgrees(j, rows[j])
  BY <1>1 DEF Sound, JobSound
\* A row that is given up keeps what agrees in it.
<1>3. ASSUME NEW j \in Jobs, rows[j] # None, rows[j].status # "completed"
      PROVE  [rows[j] EXCEPT !.status = "failed"] \in Row /\ RowAgrees(j, [rows[j] EXCEPT !.status = "failed"])
  <2> DEFINE row == [rows[j] EXCEPT !.status = "failed"]
  <2>0. rows[j] \in Row
    BY <1>2, <1>3
  <2>1. row \in Row /\ row.status = "failed" /\ \A f \in {"phase", "backup", "rolled"} : row[f] = rows[j][f]
    <3>1. row \in Row
      BY <2>0, RowTypes DEF Statuses
    <3> QED BY <2>0, <3>1 DEF Row
  <2>2. RowAgrees(j, rows[j])
    BY <1>2, <1>3
  <2> HIDE DEF row
  <2>3. RowAgrees(j, row)
    BY <1>3, <2>1, <2>2 DEF RowAgrees
  <2> QED BY <2>1, <2>3 DEF row
<1>4. CASE ConfirmBoot
  <2>1. /\ proc = "booting" /\ proc' \in {"confirmed", "rollbackExec"} /\ UNCHANGED <<task, call, order, restart>>
        /\ check' = Reconciled
    BY <1>4 DEF ConfirmBoot, ConfirmIdle, ConfirmTarget, MismatchRestores, MismatchFails, ConfirmUnsaved
  <2>2. (check'.canApply => check'.latest # NoRelease) /\ ~restart
    BY <1>1, <2>1, ReconciledType DEF Hosted
  <2>3. Pending => Latest \in Jobs /\ rows[Latest] # None /\ rows[Latest].status = "restarting"
    BY LatestType DEF Pending, Sound
  <2>4. ASSUME NEW j \in Jobs
        PROVE  (rows[j] = None => rows'[j] = None) /\ (rows[j] # None => rows'[j] # None /\ RowAgrees(j, rows'[j]))
    <3>1. CASE UNCHANGED rows
      BY <1>2, <3>1
    <3>2. CASE Pending /\ rows' = [rows EXCEPT ![Latest] = [rows[Latest] EXCEPT !.status = "failed"]]
      BY <1>1, <1>2, <1>3, <2>3, <3>2
    <3>3. CASE Pending /\ rows' = [rows EXCEPT ![Latest] = [rows[Latest] EXCEPT !.status = "completed", !.phase = "completed"]]
      <4> DEFINE row == [rows[Latest] EXCEPT !.status = "completed", !.phase = "completed"]
      <4>1. row \in Row /\ row.status = "completed" /\ row.phase = "completed" /\ row.backup = rows[Latest].backup
        <5>1. rows[Latest] \in Row
          BY <1>2, <2>3, <3>3
        <5>2. row \in Row
          BY <5>1, RowTypes DEF Statuses, AllPhases
        <5> QED BY <5>1, <5>2 DEF Row
      <4>2. rows[Latest].backup = Latest
        BY <1>2, <2>3, <3>3 DEF RowAgrees
      <4> HIDE DEF row
      <4>3. RowAgrees(Latest, row) /\ row # None
        BY <4>1, <4>2 DEF RowAgrees, EarlyPhases
      <4>4. rows' = [rows EXCEPT ![Latest] = row]
        BY <3>3 DEF row
      <4> QED BY <1>1, <1>2, <2>3, <3>3, <4>3, <4>4
    <3> QED BY <1>4, <3>1, <3>2, <3>3 DEF ConfirmBoot, ConfirmIdle, ConfirmTarget, MismatchRestores,
                                          MismatchFails, ConfirmUnsaved, SaveEnded, Save
  <2> QED BY <1>1, <2>1, <2>2, <2>4, BootFrame
<1>5. CASE Ensure
  <2>1. proc = "ensuring" /\ proc' = "serving" /\ UNCHANGED <<check, task, call, order, restart>>
    BY <1>5 DEF Ensure
  <2>2. ASSUME NEW j \in Jobs
        PROVE  (rows[j] = None => rows'[j] = None) /\ (rows[j] # None => rows'[j] # None /\ RowAgrees(j, rows'[j]))
    <3>1. rows'[j] = rows[j] \/ (rows[j] # None /\ rows[j].status # "completed" /\ rows'[j] = [rows[j] EXCEPT !.status = "failed"])
      BY <1>5 DEF Ensure
    <3> QED BY <1>2, <1>3, <3>1
  <2> QED BY <1>1, <2>1, <2>2, BootFrame
<1>6. CASE StartProcess \/ DeleteHandoff \/ Stop \/ Crash \/ Restart
  <2>1. UNCHANGED <<rows, order, check>> /\ (UNCHANGED <<task, call>> \/ Lose)
    BY <1>6 DEF StartProcess, DeleteHandoff, Stop, Crash, Restart
  <2>2. proc' # "serving" /\ (Lose \/ (UNCHANGED <<task, call>> /\ proc # "serving"))
    BY <1>6 DEF StartProcess, DeleteHandoff, Stop, Crash, Restart, Boot
  <2>3. restart' => proc' = "down" \/ (restart /\ proc = "confirmed")
    BY <1>6 DEF StartProcess, DeleteHandoff, Stop, Crash, Restart, Boot
  <2>4. Hosted'
    BY <1>1, <2>2, <2>3 DEF Hosted, Lose, NoTask
  <2> QED BY <1>1, <2>1, <2>4, KeepFrame
<1>7. CASE Check \/ Tick \/ \E v \in Versions : Deploy(v)
  <2>1. UNCHANGED <<rows, order, task, call, proc, restart>>
    BY <1>7 DEF Check, Tick, Deploy
  <2>2. check'.canApply => check'.latest # NoRelease
    BY <1>1, <1>7 DEF Check, Tick, Deploy, NoRelease
  <2> QED BY <1>1, <2>1, <2>2, KeepFrame DEF Hosted
<1> QED BY <1>4, <1>5, <1>6, <1>7 DEF ProcessStep, BootSteps

LEMMA SoundInit == Init => Sound
<1> SUFFICES ASSUME Init PROVE Sound
  OBVIOUS
<1>1. TypeOK
  <2>1. 1 \in Versions /\ 0 \in 0 .. RestartTimeout + 1 /\ 0 \in 0 .. RestartTimeout /\ 0 \in 0 .. MaxTroubles
    BY DEF Versions
  <2>2. check \in [current : Versions, latest : Versions \cup {NoRelease}, canApply : BOOLEAN] /\ troubles \in Troubles
    BY <2>1 DEF Init, Troubles
  <2>3. rows \in [Jobs -> Row \cup {None}] /\ order \in Seq(Jobs) /\ age \in [Jobs -> 0 .. RestartTimeout + 1]
    BY <2>1 DEF Init
  <2>4. files \in Seq(Files) /\ named \in [Jobs -> Jobs \cup {Earlier, None}]
    <3>1. \A v \in Versions : Copies(Earlier, v) \in Seq(Files)
      BY CopiesAre
    <3>2. files = <<>> \/ \E v \in Versions : files = Copies(Earlier, v)
      BY DEF Init
    <3>3. files \in Seq(Files)
      <4>1. <<>> \in Seq(Files)
        OBVIOUS
      <4> QED BY <3>1, <3>2, <4>1, Zenon
    <3> QED BY <3>3 DEF Init
  <2> QED BY <2>1, <2>2, <2>3, <2>4, ConstantTypes DEF Init, TypeOK
<1>2. order = <<>> /\ (\A j \in Jobs : rows[j] = None /\ task[j].pc = "none") /\ \A h \in Handlers : call[h] = Idle
  BY DEF Init, NoTask
<1>3. Hosted /\ ~check.canApply
  BY <1>2 DEF Init, Hosted
<1>4. \A j \in Jobs : JobSound(j)
  BY <1>2 DEF JobSound, Prior, Working, Installing
<1>5. \A h \in Handlers : CallSound(h)
  BY <1>2 DEF CallSound, Applying, Cancelling, Rolling, Idle
<1> QED BY <1>1, <1>2, <1>3, <1>4, <1>5 DEF Sound

LEMMA SoundStep == Sound /\ [Next]_vars => Sound'
<1> SUFFICES ASSUME Sound, [Next]_vars PROVE Sound'
  OBVIOUS
<1>1. ASSUME NEW j \in Jobs, Execute(j) PROVE Sound'
  <2>1. TypeOK'
    BY <1>1, ExecuteTypes DEF Sound, JobSound
  <2> HIDE DEF Prior
  <2> QED BY <1>1, <2>1, ExecuteJob, TaskFrame
<1>2. CASE UNCHANGED vars
  BY <1>2 DEF vars, store, disk, main, Sound, TypeOK, Hosted, JobSound, CallSound
<1> QED BY <1>1, <1>2, HandleSound, ProcessSound DEF Next, ProcessStep

LEMMA SoundAlways == Spec => []Sound
BY SoundInit, SoundStep, PTL DEF Spec

\* Every variable keeps its type: rows, files and handoffs have the shape the code
\* gives them and the troubles that are counted stay within their bound.
THEOREM UpdateTypes == Spec => []TypeOK
<1>1. Sound => TypeOK
  BY DEF Sound
<1> QED BY <1>1, SoundAlways, PTL

\* However many jobs, requests, boots and failed writes touch a row (SaveSystemUpdateJob
\* overwrites it whole, service.go and storage.go), its parts agree.
THEOREM RowsInAgreement == Spec => []RowsAgree
<1>1. Sound => RowsAgree
  BY DEF Sound, JobSound, RowAgrees, RowsAgree, EarlyPhases
<1> QED BY <1>1, SoundAlways, PTL

-----------------------------------------------------------------------------
\* Whoever leaves a row queued or running.

LEMMA SpendGrows ==
    ASSUME TypeOK, NEW kind \in {"deploys", "faults", "crashes"}, Spend(kind)
    PROVE  /\ troubles'[kind] # 0 /\ troubles'.overlapped = troubles.overlapped
           /\ \A k \in {"deploys", "faults", "crashes"} \ {kind} : troubles'[k] = troubles[k]
<1>1. troubles \in Troubles /\ troubles' = [troubles EXCEPT ![kind] = troubles[kind] + 1] /\ troubles[kind] \in Nat
  BY DEF TypeOK, Spend, Troubles
<1> QED BY <1>1 DEF Troubles

\* No trouble is forgotten.
LEMMA TroublesGrow ==
    ASSUME TypeOK, [Next]_vars
    PROVE  /\ troubles'.faults = 0 => troubles.faults = 0
           /\ troubles'.deploys = 0 => troubles.deploys = 0
           /\ ~troubles'.overlapped => ~troubles.overlapped
<1> USE DEF store, disk, main
<1>1. UNCHANGED troubles \/ (\E kind \in {"deploys", "faults", "crashes"} : Spend(kind)) \/ \E j \in Jobs : Begin(j)
  <2>1. \A j \in Jobs : Execute(j) => UNCHANGED troubles \/ Spend("faults") \/ Spend("crashes")
    BY ZenonT(40) DEF Execute, Load, SavePhase, BackupBinary, ReplaceBinary, PruneBackups, SaveInstalled, SaveRestarting,
           Dispatch, Abort, Fail, Panic, EndUnsaved
  <2>2. \A h \in Handlers : Handle(h) => UNCHANGED troubles \/ Spend("faults") \/ \E j \in Jobs : Begin(j)
    BY DEF Handle, ApplyCheck, ApplyCreate, ApplySpawn, CancelRead, CancelSignal, CancelSave,
           RollbackRead, RollbackRestore, RollbackSave, RollbackDispatch
  <2>3. ProcessStep => UNCHANGED troubles \/ \E kind \in {"deploys", "faults", "crashes"} : Spend(kind)
    BY DEF ProcessStep, StartProcess, BootSteps, ConfirmBoot, ConfirmIdle, ConfirmTarget, MismatchRestores, MismatchFails,
           ConfirmUnsaved, DeleteHandoff, Ensure, Restart, Stop, Check, Crash, Tick, Deploy
  <2> QED BY <2>1, <2>2, <2>3 DEF Next, ProcessStep, vars
<1>2. ASSUME NEW j \in Jobs, Begin(j)
      PROVE  troubles'.faults = troubles.faults /\ troubles'.deploys = troubles.deploys /\ (~troubles'.overlapped => ~troubles.overlapped)
  <2> DEFINE now == troubles.overlapped \/ \E k \in Jobs \ {j} : rows[k] # None /\ (restart \/ AtWork(k))
  <2>1. troubles \in Troubles /\ (troubles.overlapped => now) /\ now \in BOOLEAN /\ troubles' = [troubles EXCEPT !.overlapped = now]
    BY <1>2 DEF TypeOK, Begin
  <2> HIDE DEF now
  <2> QED BY <2>1 DEF Troubles
<1> QED BY <1>1, <1>2, SpendGrows

Owned(j) ==
    rows[j] # None /\ rows[j].status \in {"queued", "running"} =>
        \/ task[j].pc \notin {"none", "end"}
        \/ \E h \in Handlers : call[h].op = "applyCreated" /\ call[h].job = j

\* A goroutine ends with its row settled, or a write has failed.
LEMMA ExecuteOwned ==
    ASSUME Sound, NEW j \in Jobs, Execute(j), troubles'.faults = 0
    PROVE  Owned(j)'
<1> USE DEF store, disk, main
<1>1. /\ TypeOK /\ JobSound(j) /\ task \in [Jobs -> TaskStates] /\ rows \in [Jobs -> Row \cup {None}]
      /\ task[j].job \in Row
  BY TaskTypes DEF Sound, TypeOK
<1>2. ~Spend("faults")
  BY <1>1, SpendGrows
<1>3. ASSUME NEW pc, task' = [task EXCEPT ![j].pc = pc], pc \notin {"none", "end"} PROVE Owned(j)'
  BY <1>1, <1>3 DEF Owned, TaskStates
<1>4. ASSUME NEW pc, NEW row, task' = [task EXCEPT ![j].pc = pc, ![j].job = row], pc \notin {"none", "end"} PROVE Owned(j)'
  <2>1. task'[j].pc = pc
    BY <1>1, <1>4 DEF TaskStates
  <2> QED BY <1>4, <2>1 DEF Owned
<1>5. CASE Load(j) \/ SaveRestarting(j)
  BY <1>4, <1>5 DEF Load, SaveRestarting
<1>6. ASSUME NEW from, NEW phase \in {"downloading", "verifying", "extracting", "installing"}, SavePhase(j, from, phase) PROVE Owned(j)'
  BY <1>4, <1>6 DEF SavePhase
<1>7. CASE BackupBinary(j) \/ ReplaceBinary(j) \/ SaveInstalled(j)
  <2>1. \E pc \in {"backedUp", "replaced", "installSaved"} : task' = [task EXCEPT ![j].pc = pc]
    BY <1>7 DEF BackupBinary, ReplaceBinary, SaveInstalled
  <2> QED BY <1>3, <2>1
<1>8. CASE PruneBackups(j)
  <2>1. task'[j].pc = "pruned"
    BY <1>1, <1>8 DEF PruneBackups, TaskStates
  <2> QED BY <2>1 DEF Owned
<1>9. CASE Dispatch(j)
  BY <1>1, <1>9 DEF Dispatch, JobSound, Owned
<1>11. CASE Panic(j)
  <2>1. rows[j] # None /\ rows[j] \in Row
    BY <1>1, <1>11 DEF Panic, JobSound, Working
  <2>2. rows'[j] = [rows[j] EXCEPT !.status = "failed"]
    BY <1>1, <1>11 DEF Panic, SaveEnded, Save
  <2>3. rows'[j].status = "failed"
    BY <2>1, <2>2 DEF Row
  <2> QED BY <2>3 DEF Owned
<1>10. CASE Abort(j) \/ Fail(j)
  <2>1. \E s \in {"cancelled", "failed"} : rows'[j] = [task[j].job EXCEPT !.status = s]
    BY <1>1, <1>10 DEF Abort, Fail, SaveEnded, Save
  <2>2. rows'[j].status \in {"cancelled", "failed"}
    BY <1>1, <2>1 DEF Row
  <2> QED BY <2>2 DEF Owned
<1> QED BY <1>2, <1>5, <1>6, <1>7, <1>8, <1>9, <1>10, <1>11 DEF Execute, EndUnsaved

\* A request starts the goroutine it inserted a row for, or leaves a row that is over.
LEMMA HandleOwned ==
    ASSUME Sound, NEW h \in Handlers, Handle(h), NEW j \in Jobs, Owned(j)
    PROVE  Owned(j)'
<1> USE DEF store, disk, main
<1>1. /\ task \in [Jobs -> TaskStates] /\ rows \in [Jobs -> Row \cup {None}] /\ call \in [Handlers -> CallStates]
      /\ CallSound(h) /\ call[h].row \in Row
  BY DEF Sound, TypeOK, CallStates
<1>2. ASSUME rows'[j] = rows[j], task'[j].pc = task[j].pc, \A g \in Handlers \ {h} : call'[g] = call[g],
             call[h].op # "applyCreated" \/ call[h].job # j
      PROVE  Owned(j)'
  BY <1>2 DEF Owned
<1>3. ASSUME NEW k \in Jobs, ApplyCreate(h, k) PROVE Owned(j)'
  <2>1. /\ rows' = [rows EXCEPT ![k] = call[h].row] /\ UNCHANGED task /\ call[h].op = "applyChecked"
        /\ \A g \in Handlers \ {h} : call'[g] = call[g]
    BY <1>1, <1>3 DEF ApplyCreate, Save
  <2>2. call'[h].op = "applyCreated" /\ call'[h].job = k
    BY <1>1, <1>3 DEF ApplyCreate, CallStates
  <2>3. CASE j = k
    BY <2>2, <2>3 DEF Owned
  <2>4. CASE j # k
    BY <1>1, <1>2, <2>1, <2>4
  <2> QED BY <2>3, <2>4
<1>4. CASE ApplySpawn(h)
  <2>1. task' = [task EXCEPT ![call[h].job] = [NoTask EXCEPT !.pc = "spawned"]] /\ UNCHANGED rows
        /\ \A g \in Handlers \ {h} : call'[g] = call[g]
    BY <1>1, <1>4 DEF ApplySpawn
  <2>2. CASE call[h].job = j
    BY <1>1, <2>1, <2>2 DEF Owned, NoTask
  <2>3. CASE call[h].job # j
    BY <1>1, <1>2, <2>1, <2>3
  <2> QED BY <2>2, <2>3
<1>5. CASE ApplyCheck(h) \/ (\E k \in Jobs : CancelRead(h, k) \/ RollbackRead(h, k)) \/ CancelSignal(h) \/ RollbackRestore(h) \/ RollbackDispatch(h)
  <2>1. UNCHANGED rows /\ call[h].op # "applyCreated" /\ \A g \in Handlers \ {h} : call'[g] = call[g]
    BY <1>1, <1>5 DEF ApplyCheck, CancelRead, RollbackRead, CancelSignal, RollbackRestore, RollbackDispatch, Idle
  <2>2. task'[j].pc = task[j].pc
    BY <1>1, <1>5 DEF ApplyCheck, CancelRead, RollbackRead, CancelSignal, RollbackRestore, RollbackDispatch, TaskStates
  <2> QED BY <1>2, <2>1, <2>2
<1>6. CASE (CancelSave(h) \/ RollbackSave(h)) /\ rows' # rows
  <2>1. \E s \in Row : rows' = [rows EXCEPT ![call[h].job] = s] /\ s.status \notin {"queued", "running"}
    <3>1. CASE CancelSave(h)
      <4>1. [call[h].row EXCEPT !.status = "cancelled"] \in Row
        BY <1>1, RowTypes DEF Statuses
      <4> QED BY <1>1, <1>6, <3>1, <4>1 DEF CancelSave, SaveEnded, Save, Row
    <3>2. CASE RollbackSave(h)
      <4>1. [call[h].row EXCEPT !.rolled = TRUE] \in Row /\ call[h].row.status \notin Active
        BY <1>1, <3>2, RowTypes DEF RollbackSave, CallSound, Rolling
      <4> QED BY <1>1, <1>6, <3>2, <4>1 DEF RollbackSave, SaveEnded, Save, Row, Active
    <3> QED BY <1>6, <3>1, <3>2
  <2>2. UNCHANGED task /\ call[h].op # "applyCreated" /\ \A g \in Handlers \ {h} : call'[g] = call[g]
    BY <1>1, <1>6 DEF CancelSave, RollbackSave
  <2>3. CASE call[h].job = j
    BY <1>1, <2>1, <2>3 DEF Owned
  <2>4. CASE call[h].job # j
    BY <1>1, <1>2, <2>1, <2>2, <2>4
  <2> QED BY <2>3, <2>4
<1>7. CASE (CancelSave(h) \/ RollbackSave(h)) /\ UNCHANGED rows
  <2>1. UNCHANGED task /\ call[h].op # "applyCreated" /\ \A g \in Handlers \ {h} : call'[g] = call[g]
    BY <1>1, <1>7 DEF CancelSave, RollbackSave
  <2> QED BY <1>2, <1>7, <2>1
<1> QED BY <1>3, <1>4, <1>5, <1>6, <1>7 DEF Handle

LEMMA OwnersStep == Sound /\ ActiveHasOwner /\ [Next]_vars => ActiveHasOwner'
<1> SUFFICES ASSUME Sound, ActiveHasOwner, [Next]_vars, proc' = "serving", troubles'.faults = 0, NEW j \in Jobs
             PROVE  Owned(j)'
  BY DEF ActiveHasOwner, Owned
<1> USE DEF store, disk, main
<1>1. TypeOK /\ troubles.faults = 0
  BY TroublesGrow DEF Sound
<1>2. proc = "serving" => \A k \in Jobs : Owned(k)
  BY <1>1 DEF ActiveHasOwner, Owned
<1>3. ASSUME NEW k \in Jobs, Execute(k) PROVE Owned(j)'
  <2>1. task[k].pc # "none" /\ (\A i \in Jobs \ {k} : rows'[i] = rows[i] /\ task'[i] = task[i]) /\ UNCHANGED call
    BY <1>3, ExecuteJob
  <2>2. Owned(j)
    BY <1>2, <2>1 DEF Sound, Hosted
  <2>3. j # k => Owned(j)'
    BY <2>1, <2>2 DEF Owned
  <2> QED BY <1>3, <2>3, ExecuteOwned
<1>4. ASSUME NEW h \in Handlers, Handle(h) PROVE Owned(j)'
  <2>1. proc = "serving"
    BY <1>4 DEF Handle, ApplyCheck, ApplyCreate, ApplySpawn, CancelRead, CancelSignal, CancelSave,
           RollbackRead, RollbackRestore, RollbackSave, RollbackDispatch, RequestRestart
  <2> QED BY <1>2, <1>4, <2>1, HandleOwned
<1>5. CASE Ensure
  <2>1. rows'[j] = None \/ rows'[j].status \notin {"queued", "running"}
    BY <1>1, <1>5 DEF Ensure, TypeOK, Row
  <2> QED BY <2>1 DEF Owned
<1>6. CASE UNCHANGED vars \/ Check \/ Tick \/ \E v \in Versions : Deploy(v)
  <2>1. UNCHANGED <<rows, task, call, proc>>
    BY <1>6 DEF vars, Check, Tick, Deploy
  <2> QED BY <1>2, <2>1 DEF Owned
<1> QED BY <1>3, <1>4, <1>5, <1>6
        DEF Next, BootSteps, ConfirmBoot, ConfirmIdle, ConfirmTarget, MismatchRestores, MismatchFails, ConfirmUnsaved,
            DeleteHandoff, Restart, Boot, Stop, Crash, StartProcess

\* While requests are served and no write has failed, a queued or running row has a
\* goroutine or the Apply about to start it, so that Apply (service.go, ActiveSystemUpdateJob)
\* is not blocked by a row nobody works on.
THEOREM Owners == Spec => []ActiveHasOwner
<1>1. Init => ActiveHasOwner
  BY DEF Init, ActiveHasOwner
<1> QED BY <1>1, SoundAlways, OwnersStep, PTL DEF Spec

-----------------------------------------------------------------------------
\* A job that has just backed up has its copies, newest of all.
LEMMA BackupAppends ==
    ASSUME TypeOK, NEW j \in Jobs, BackupBinary(j)
    PROVE  Newest(j)' /\ Backups(j)' # {}
<1> DEFINE last == Len(files') - (IF HasSupervisor THEN 1 ELSE 0)
<1>1. last \in DOMAIN files' /\ files'[last].name = named'[j] /\ files'[last].kind = "main" /\ files' \in Seq(Files)
  BY BackupEffect
<1>2. last > 0
  BY <1>1
<1> QED BY <1>1, <1>2 DEF Newest, Backups

\* With room for one job's copies the newest backup survives; what is left was there.
LEMMA PruneKeeps ==
    ASSUME TypeOK, NEW j \in Jobs, PruneBackups(j)
    PROVE  /\ KeepsOwnBackup /\ Newest(j) => Backups(j)' # {}
           /\ \A i \in DOMAIN files' : \E k \in DOMAIN files : files'[i] = files[k]
<1>1. files \in Seq(Files)
  BY DEF TypeOK
<1>0. UNCHANGED named
  BY DEF PruneBackups
<1>2. CASE files' = files
  BY <1>0, <1>1, <1>2 DEF Newest, Backups
<1>3. CASE BackupRetention # 0 /\ Len(files) > BackupRetention /\ files' = SubSeq(files, Len(files) - BackupRetention + 1, Len(files))
  <2>1. /\ files' \in Seq(Files) /\ Len(files') = BackupRetention
        /\ \A i \in 1 .. BackupRetention : files'[i] = files[Len(files) - BackupRetention + i]
    BY <1>1, <1>3, CutOff
  <2>2. ASSUME KeepsOwnBackup, Newest(j) PROVE Backups(j)' # {}
    <3> DEFINE last == BackupRetention - (IF HasSupervisor THEN 1 ELSE 0)
    <3>1. last \in 1 .. BackupRetention /\ Len(files) - BackupRetention + last = Len(files) - (IF HasSupervisor THEN 1 ELSE 0)
      BY <1>1, <1>3, <2>2 DEF KeepsOwnBackup
    <3>2. files'[last] = files[Len(files) - (IF HasSupervisor THEN 1 ELSE 0)] /\ last \in DOMAIN files'
      BY <2>1, <3>1
    <3> QED BY <1>0, <2>2, <3>2 DEF Newest, Backups
  <2>3. ASSUME NEW i \in DOMAIN files' PROVE \E k \in DOMAIN files : files'[i] = files[k]
    <3>1. i \in 1 .. BackupRetention /\ Len(files) - BackupRetention + i \in DOMAIN files
      BY <1>1, <1>3, <2>1, <2>3
    <3> QED BY <2>1, <3>1
  <2> QED BY <2>2, <2>3
<1> QED BY SMTT(20), <1>2, <1>3 DEF PruneBackups

\* Whoever counts on a backup is at work on the job.
LEMMA CountedAtWork == ASSUME Sound, NEW k \in Jobs, Counted(k) PROVE AtWork(k)
<1>1. JobSound(k) /\ \A h \in Handlers : CallSound(h)
  BY DEF Sound
<1>2. rows[k] # None
  <2>1. task[k].pc # "none" => rows[k] # None
    BY <1>1 DEF JobSound
  <2>2. \A h \in Handlers : call[h].op \in Rolling => rows[call[h].job] # None
    BY <1>1 DEF CallSound
  <2> QED BY <2>1, <2>2 DEF Counted
<1> QED BY <1>2 DEF Counted, AtWork, Active

\* A request that begins no work on a job and leaves its goroutine where it is.
LEMMA QuietFrame ==
    ASSUME NEW h \in Handlers, NEW k \in Jobs, \A g \in Handlers \ {h} : call'[g] = call[g], task'[k].pc = task[k].pc,
           rows'[k] = rows[k] \/ (rows[k] # None /\ rows'[k] # None /\ rows'[k].status \notin Active),
           call'[h].op \in {"applyCreated"} \cup Rolling /\ call'[h].job = k =>
               /\ call[h].job = k /\ call[h].op \in {"applyCreated"} \cup Rolling
               /\ call'[h].op \in Rolling => call[h].op \in Rolling
    PROVE  (AtWork(k)' => AtWork(k)) /\ (Counted(k)' => Counted(k)) /\ (rows[k] # None => rows'[k] # None)
<1> HIDE DEF Rolling
<1>1. AtWork(k)' => AtWork(k)
  BY DEF AtWork
<1>2. Counted(k)' => Counted(k)
  BY DEF Counted, Active
<1> QED BY <1>1, <1>2

\* Requests begin work on a job in two places only, and none touches a backup.
LEMMA HandleWork ==
    ASSUME Sound, NEW h \in Handlers, Handle(h), NEW k \in Jobs
    PROVE  /\ AtWork(k)' => AtWork(k) \/ ApplyCreate(h, k) \/ RollbackRead(h, k)
           /\ Counted(k)' => Counted(k) \/ RollbackRead(h, k)
           /\ task'[k].pc \in {"backedUp", "replaced"} => task[k].pc = task'[k].pc
           /\ rows[k] # None => rows'[k] # None
           /\ UNCHANGED <<files, named>>
<1> USE DEF store, disk, main
<1> DEFINE Goal == /\ AtWork(k)' => AtWork(k) \/ ApplyCreate(h, k) \/ RollbackRead(h, k)
                   /\ Counted(k)' => Counted(k) \/ RollbackRead(h, k)
                   /\ task'[k].pc \in {"backedUp", "replaced"} => task[k].pc = task'[k].pc
                   /\ rows[k] # None => rows'[k] # None
<1>1. /\ task \in [Jobs -> TaskStates] /\ rows \in [Jobs -> Row \cup {None}] /\ call \in [Handlers -> CallStates]
      /\ CallSound(h) /\ call[h].row \in Row /\ Idle.op = "idle"
  BY DEF Sound, TypeOK, CallStates, Idle
<1>2. UNCHANGED <<files, named>>
  BY DEF Handle, ApplyCheck, ApplyCreate, ApplySpawn, CancelRead, CancelSignal, CancelSave,
         RollbackRead, RollbackRestore, RollbackSave, RollbackDispatch
<1>3. \A g \in Handlers \ {h} : call'[g] = call[g]
  BY <1>1 DEF Handle, ApplyCheck, ApplyCreate, ApplySpawn, CancelRead, CancelSignal, CancelSave,
              RollbackRead, RollbackRestore, RollbackSave, RollbackDispatch
<1> SUFFICES Goal
  BY <1>2
<1>4. ASSUME task'[k].pc = task[k].pc,
             rows'[k] = rows[k] \/ (rows[k] # None /\ rows'[k] # None /\ rows'[k].status \notin Active),
             call'[h].op \in {"applyCreated"} \cup Rolling /\ call'[h].job = k =>
                 /\ call[h].job = k /\ call[h].op \in {"applyCreated"} \cup Rolling
                 /\ call'[h].op \in Rolling => call[h].op \in Rolling
      PROVE  Goal
  BY <1>3, <1>4, QuietFrame
<1>5. ASSUME NEW j \in Jobs, ApplyCreate(h, j) PROVE Goal
  <2>1. UNCHANGED task /\ rows[j] = None /\ rows' = [rows EXCEPT ![j] = call[h].row]
    BY <1>5 DEF ApplyCreate, Save
  <2>2. call'[h].op = "applyCreated" /\ call'[h].job = j
    BY <1>1, <1>5 DEF ApplyCreate, CallStates
  <2>3. CASE k = j
    <3>1. ~Counted(j)'
      <4>1. task[j].pc = "none" /\ \A g \in Handlers : call[g].op \in Rolling => call[g].job # j
        BY <2>1 DEF Sound, JobSound, CallSound
      <4>2. rows'[j].status = "queued"
        BY <1>1, <1>5, <2>1 DEF ApplyCreate, CallSound, Applying, NoRow
      <4> QED BY <1>3, <2>1, <2>2, <4>1, <4>2 DEF Counted, Rolling
    <3> QED BY <1>5, <2>1, <2>3, <3>1
  <2>4. CASE k # j
    <3> HIDE DEF Goal
    <3> QED BY <1>1, <1>4, <2>1, <2>2, <2>4
  <2> QED BY <2>3, <2>4
<1>6. CASE ApplySpawn(h)
  <2>0. PICK j \in Jobs : j = call[h].job
    BY <1>1, <1>6 DEF ApplySpawn, CallSound
  <2>1. /\ task' = [task EXCEPT ![j] = [NoTask EXCEPT !.pc = "spawned"]] /\ UNCHANGED rows
        /\ call'[h] = Idle /\ call[h].op = "applyCreated" /\ rows[j] # None
    BY <1>1, <1>6, <2>0 DEF ApplySpawn, CallSound
  <2>2. CASE k = j
    <3>1. AtWork(k) /\ task'[k].pc = "spawned"
      BY <1>1, <2>0, <2>1, <2>2 DEF AtWork, NoTask
    <3>2. Counted(k)' => Counted(k)
      BY <1>1, <1>3, <2>1, <3>1 DEF Counted, Rolling
    <3> QED BY <2>1, <3>1, <3>2
  <2>3. CASE k # j
    <3>1. task'[k] = task[k]
      BY <1>1, <2>1, <2>3
    <3> HIDE DEF Goal
    <3> QED BY <1>1, <1>4, <2>1, <3>1 DEF Rolling
  <2> QED BY <2>2, <2>3
<1>7. ASSUME NEW j \in Jobs, RollbackRead(h, j) PROVE Goal
  <2>1. UNCHANGED <<rows, task>> /\ call'[h].op = "rollbackRead" /\ call'[h].job = j
    BY <1>1, <1>7 DEF RollbackRead
  <2>2. k = j => Goal
    BY <1>7, <2>1
  <2> HIDE DEF Goal
  <2> QED BY <1>4, <2>1, <2>2
<1> HIDE DEF Goal
<1>8. CASE ApplyCheck(h) \/ (\E j \in Jobs : CancelRead(h, j)) \/ CancelSignal(h)
  <2>1. UNCHANGED rows /\ call'[h].op \in {"applyChecked", "cancelRead", "cancelSignalled"}
    <3>1. CASE ApplyCheck(h)
      BY <1>1, <3>1 DEF ApplyCheck, Idle
    <3>2. CASE \E j \in Jobs : CancelRead(h, j)
      BY <1>1, <3>2 DEF CancelRead
    <3>3. CASE CancelSignal(h)
      BY <1>1, <3>3 DEF CancelSignal, CallStates
    <3> QED BY <1>8, <3>1, <3>2, <3>3
  <2>2. task'[k].pc = task[k].pc
    BY <1>1, <1>8 DEF ApplyCheck, CancelRead, CancelSignal, TaskStates
  <2> QED BY <1>4, <2>1, <2>2 DEF Rolling
<1>9. CASE RollbackRestore(h) \/ RollbackDispatch(h)
  <2>1. /\ UNCHANGED <<rows, task>> /\ call[h].op \in Rolling
        /\ call'[h] = Idle \/ (call'[h].op = "rollbackRestored" /\ call'[h].job = call[h].job)
    BY <1>1, <1>9 DEF RollbackRestore, RollbackDispatch, CallStates, Rolling
  <2> QED BY <1>1, <1>4, <2>1 DEF Rolling
<1>10. CASE CancelSave(h) \/ RollbackSave(h)
  <2>1. UNCHANGED rows \/ \E s \in Row : rows' = [rows EXCEPT ![call[h].job] = s] /\ s.status \notin Active
    <3>1. CASE CancelSave(h)
      <4>1. [call[h].row EXCEPT !.status = "cancelled"] \in Row
        BY <1>1, RowTypes DEF Statuses
      <4> QED BY <1>1, <3>1, <4>1 DEF CancelSave, SaveEnded, Save, Row, Active
    <3>2. CASE RollbackSave(h)
      <4>1. [call[h].row EXCEPT !.rolled = TRUE] \in Row /\ call[h].row.status \notin Active
        BY <1>1, <3>2, RowTypes DEF RollbackSave, CallSound, Rolling
      <4> QED BY <1>1, <3>2, <4>1 DEF RollbackSave, SaveEnded, Save, Row, Active
    <3> QED BY <1>10, <3>1, <3>2
  <2>2. call[h].job \in Jobs /\ rows[call[h].job] # None /\ UNCHANGED task
    BY <1>1, <1>10 DEF CancelSave, RollbackSave, CallSound, Cancelling, Rolling
  <2>3. rows'[k] = rows[k] \/ (rows[k] # None /\ rows'[k] # None /\ rows'[k].status \notin Active)
    BY <1>1, <2>1, <2>2
  <2>4. call'[h] = Idle \/ (call'[h].op = "rollbackSaved" /\ call'[h].job = call[h].job /\ call[h].op = "rollbackRestored")
    BY <1>1, <1>10 DEF CancelSave, RollbackSave, CallStates
  <2> QED BY <1>1, <1>4, <2>2, <2>3, <2>4 DEF Rolling
<1> QED BY <1>5, <1>6, <1>7, <1>8, <1>9, <1>10 DEF Handle

\* Nothing the process as a whole does begins work on a job or touches a backup, and a
\* handoff that is deleted is no longer waited for.
LEMMA ProcessWork ==
    ASSUME Sound, ProcessStep
    PROVE  /\ \A k \in Jobs : (AtWork(k)' => AtWork(k)) /\ (Counted(k)' => Counted(k)) /\ (rows[k] # None => rows'[k] # None)
           /\ \A k \in Jobs : task'[k].pc \in {"backedUp", "replaced"} => task[k].pc = task'[k].pc
           /\ UNCHANGED <<files, named>> /\ (restart' => restart /\ UNCHANGED handoff)
<1> USE DEF store, disk, main
<1>1. rows \in [Jobs -> Row \cup {None}] /\ Hosted /\ \A i \in DOMAIN order : rows[order[i]] # None
  BY DEF Sound, TypeOK
<1>2. UNCHANGED <<files, named>>
  BY DEF ProcessStep, StartProcess, BootSteps, ConfirmBoot, ConfirmIdle, ConfirmTarget, MismatchRestores, MismatchFails,
         ConfirmUnsaved, DeleteHandoff, Ensure, Restart, Stop, Check, Crash, Tick, Deploy
<1>3. restart' => restart /\ UNCHANGED handoff
  BY <1>1 DEF Hosted, ProcessStep, StartProcess, BootSteps, ConfirmBoot, ConfirmIdle, ConfirmTarget, MismatchRestores, MismatchFails,
              ConfirmUnsaved, DeleteHandoff, Ensure, Restart, Stop, Check, Crash, Tick, Deploy, Boot
<1>4. UNCHANGED <<task, call>> \/ Lose
  BY DEF ProcessStep, StartProcess, BootSteps, ConfirmBoot, ConfirmIdle, ConfirmTarget, MismatchRestores, MismatchFails,
         ConfirmUnsaved, DeleteHandoff, Ensure, Restart, Stop, Check, Crash, Tick, Deploy
<1>5. ASSUME NEW k \in Jobs
      PROVE  rows'[k] = rows[k] \/ (rows[k] # None /\ rows'[k] # None /\ rows'[k].status \notin Active)
  <2>1. CASE UNCHANGED rows
    BY <2>1
  <2>2. CASE Pending /\ rows' = [rows EXCEPT ![Latest] = [rows[Latest] EXCEPT !.status = "failed"]]
    <3>1. Latest \in Jobs /\ rows[Latest] \in Row
      BY <1>1, <2>2, LatestType DEF Pending, Sound
    <3> QED BY <1>1, <2>2, <3>1 DEF Row, Active
  <2>3. CASE Pending /\ rows' = [rows EXCEPT ![Latest] = [rows[Latest] EXCEPT !.status = "completed", !.phase = "completed"]]
    <3>1. Latest \in Jobs /\ rows[Latest] \in Row
      BY <1>1, <2>3, LatestType DEF Pending, Sound
    <3> DEFINE row == [rows[Latest] EXCEPT !.status = "completed", !.phase = "completed"]
    <3>2. row \in Row
      BY <3>1, RowTypes DEF Statuses, AllPhases
    <3>3. row.status = "completed" /\ row # None
      BY <3>1, <3>2 DEF Row
    <3>4. rows' = [rows EXCEPT ![Latest] = row] /\ rows[Latest] # None
      BY <2>3, <3>1
    <3> HIDE DEF row
    <3> QED BY <1>1, <3>1, <3>3, <3>4 DEF Active
  <2>4. CASE Ensure
    BY <1>1, <2>4 DEF Ensure, Row, Active
  <2> QED BY <2>1, <2>2, <2>3, <2>4
          DEF ProcessStep, StartProcess, BootSteps, ConfirmBoot, ConfirmIdle, ConfirmTarget, MismatchRestores, MismatchFails,
              ConfirmUnsaved, DeleteHandoff, Restart, Stop, Check, Crash, Tick, Deploy, SaveEnded, Save
<1>6. ASSUME NEW k \in Jobs
      PROVE  (AtWork(k)' => AtWork(k)) /\ (Counted(k)' => Counted(k)) /\ (rows[k] # None => rows'[k] # None)
  <2>1. (task'[k] = task[k] /\ UNCHANGED call) \/ (task'[k].pc = "none" /\ \A h \in Handlers : call'[h].op = "idle")
    BY <1>4 DEF Lose, NoTask, Idle
  <2>2. rows'[k] = rows[k] \/ (rows[k] # None /\ rows'[k] # None /\ rows'[k].status \notin Active)
    BY <1>5
  <2>3. AtWork(k)' => AtWork(k)
    BY <2>1, <2>2 DEF AtWork, Rolling
  <2>4. Counted(k)' => Counted(k)
    BY <2>1, <2>2 DEF Counted, Rolling, Active
  <2> QED BY <2>2, <2>3, <2>4
<1>7. \A k \in Jobs : task'[k].pc \in {"backedUp", "replaced"} => task[k].pc = task'[k].pc
  BY <1>4 DEF Lose, NoTask
<1> QED BY <1>2, <1>3, <1>6, <1>7

-----------------------------------------------------------------------------
\* The backups of jobs that do not overlap.

LEMMA ExecuteApart ==
    ASSUME KeepsOwnBackup, Sound, Apart, NEW j \in Jobs, Execute(j), troubles'.faults = 0 => troubles.faults = 0
    PROVE  Apart'
<1> USE DEF store, disk, main
<1>1. /\ TypeOK /\ JobSound(j) /\ task \in [Jobs -> TaskStates] /\ rows \in [Jobs -> Row \cup {None}]
      /\ task[j].job \in Row /\ (rows[j] # None => rows[j] \in Row)
  BY TaskTypes DEF Sound, TypeOK
<1>2. /\ task[j].pc # "none" /\ rows[j] # None /\ rows'[j] # None /\ UNCHANGED call
      /\ \A k \in Jobs \ {j} : rows'[k] = rows[k] /\ task'[k] = task[k]
  BY <1>1, ExecuteJob DEF JobSound
<1>3. AtWork(j)
  <2>1. task[j].pc \notin {"none", "end"}
    BY DEF Execute, Load, SavePhase, BackupBinary, ReplaceBinary, PruneBackups, SaveInstalled, SaveRestarting,
           Dispatch, Abort, Fail, Panic, EndUnsaved, Working
  <2> QED BY <1>2, <2>1 DEF AtWork
<1>4. \A k \in Jobs : AtWork(k) => k = j
  BY <1>3 DEF Apart
<1>5. \A k \in Jobs : (AtWork(k)' => k = j) /\ (Counted(k)' => k = j)
  <2>1. ASSUME NEW k \in Jobs \ {j}, AtWork(k)' PROVE AtWork(k)
    BY <1>2, <2>1 DEF AtWork
  <2>2. ASSUME NEW k \in Jobs \ {j}, Counted(k)' PROVE AtWork(k)
    <3>1. Counted(k)
      BY <1>2, <2>2 DEF Counted
    <3> QED BY <3>1, CountedAtWork
  <2> QED BY <1>4, <2>1, <2>2
\* What the goroutine does to the files.
<1>6. UNCHANGED <<files, named>> \/ BackupBinary(j) \/ (PruneBackups(j) /\ Newest(j))
  BY DEF Execute, Load, SavePhase, BackupBinary, ReplaceBinary, PruneBackups, SaveInstalled, SaveRestarting,
         Dispatch, Abort, Fail, Panic, EndUnsaved, Apart
<1>7. (Backups(j) # {} => Backups(j)' # {}) /\ (PruneBackups(j) => Backups(j)' # {})
  <2>1. CASE UNCHANGED <<files, named>>
    <3>1. Backups(j)' = Backups(j)
      BY <2>1 DEF Backups
    <3>2. PruneBackups(j) => Newest(j)
      BY DEF PruneBackups, Apart
    <3> QED BY <1>1, <3>1, <3>2, PruneKeeps
  <2>2. CASE BackupBinary(j)
    <3>1. ~PruneBackups(j)
      BY <2>2 DEF BackupBinary, PruneBackups
    <3> QED BY <1>1, <2>2, <3>1, BackupAppends
  <2>3. CASE PruneBackups(j) /\ Newest(j)
    BY <1>1, <2>3, PruneKeeps
  <2> QED BY <1>6, <2>1, <2>2, <2>3
<1>8. ASSUME Counted(j)' PROVE Backups(j)' # {}
  <2>1. ASSUME task'[j].pc \in {"pruned", "installSaved", "dispatch"} PROVE PruneBackups(j) \/ Counted(j)
    <3>1. \A pc : task' = [task EXCEPT ![j].pc = pc] => task'[j].pc = pc
      BY <1>1 DEF TaskStates
    <3>2. \A pc, row : task' = [task EXCEPT ![j].pc = pc, ![j].job = row] => task'[j].pc = pc
      BY <1>1 DEF TaskStates
    <3>3. \A from, phase : SavePhase(j, from, phase) => task'[j].pc = phase
      BY <3>2 DEF SavePhase
    <3>4. Load(j) => task'[j].pc = "loaded"
      BY <3>2 DEF Load
    <3>5. BackupBinary(j) \/ ReplaceBinary(j) => task'[j].pc \in {"backedUp", "replaced"}
      BY <3>1 DEF BackupBinary, ReplaceBinary
    <3>6. SaveInstalled(j) \/ SaveRestarting(j) => Counted(j)
      BY DEF SaveInstalled, SaveRestarting, Counted
    <3>7. Dispatch(j) \/ Abort(j) \/ Fail(j) \/ Panic(j) \/ EndUnsaved(j) => task'[j].pc = "end"
      BY <3>1 DEF Dispatch, Abort, Fail, Panic, EndUnsaved
    <3> QED BY <2>1, <3>3, <3>4, <3>5, <3>6, <3>7 DEF Execute
  <2>2. ASSUME rows'[j].status = "restarting" PROVE Counted(j)
    <3>1. \A row \in Row, s \in Statuses : Save(j, [row EXCEPT !.status = s]) => rows'[j].status = s
      BY <1>1 DEF Save, Row
    <3>2. Load(j) => rows'[j].status = "running"
      BY <1>1, <1>2, <3>1 DEF Load, Statuses, Active
    <3>3. Abort(j) \/ Fail(j) \/ Panic(j) => rows'[j].status \in {"failed", "cancelled"}
      BY <1>1, <1>2, <3>1 DEF Abort, Fail, Panic, SaveEnded, Statuses
    <3>4. ASSUME NEW from \in Working, NEW phase \in AllPhases, SavePhase(j, from, phase) PROVE rows'[j].status = "running"
      <4> DEFINE row == [task[j].job EXCEPT !.phase = phase]
      <4>1. task[j].job.status = "running"
        BY <1>1, <3>4 DEF JobSound, SavePhase
      <4>2. row.status = "running"
        BY <1>1, <4>1 DEF Row
      <4>3. rows' = [rows EXCEPT ![j] = row]
        BY <3>4 DEF SavePhase, Save
      <4> HIDE DEF row
      <4> QED BY <1>1, <4>2, <4>3
    <3>5. SaveInstalled(j) \/ SaveRestarting(j) => Counted(j)
      BY DEF SaveInstalled, SaveRestarting, Counted
    <3>6. BackupBinary(j) \/ ReplaceBinary(j) \/ PruneBackups(j) \/ Dispatch(j) \/ EndUnsaved(j) => UNCHANGED rows
      BY DEF BackupBinary, ReplaceBinary, PruneBackups, Dispatch, EndUnsaved
    <3>7. UNCHANGED rows => Counted(j)
      BY <1>2, <2>2 DEF Counted
    <3> QED BY <2>2, <3>2, <3>3, <3>4, <3>5, <3>6, <3>7 DEF Execute, Working, AllPhases, EarlyPhases
  <2>3. PruneBackups(j) \/ Counted(j)
    BY <1>2, <1>8, <2>1, <2>2 DEF Counted
  <2> QED BY <1>7, <2>3 DEF Apart
<1>9. ASSUME task'[j].pc \in {"backedUp", "replaced"} PROVE Newest(j)'
  <2>1. \A pc : task' = [task EXCEPT ![j].pc = pc] => task'[j].pc = pc
    BY <1>1 DEF TaskStates
  <2>2. \A pc, row : task' = [task EXCEPT ![j].pc = pc, ![j].job = row] => task'[j].pc = pc
    BY <1>1 DEF TaskStates
  <2>3. \A from, phase : SavePhase(j, from, phase) => task'[j].pc = phase
    BY <2>2 DEF SavePhase
  <2>4. Load(j) \/ SaveRestarting(j) => task'[j].pc \in {"loaded", "dispatch"}
    BY <2>2 DEF Load, SaveRestarting
  <2>5. SaveInstalled(j) \/ Dispatch(j) \/ Abort(j) \/ Fail(j) \/ Panic(j) \/ EndUnsaved(j) => task'[j].pc \in {"installSaved", "end"}
    BY <2>1 DEF SaveInstalled, Dispatch, Abort, Fail, Panic, EndUnsaved
  <2>6. PruneBackups(j) => task'[j].pc = "pruned"
    BY <1>1 DEF PruneBackups, TaskStates
  <2>7. BackupBinary(j) \/ ReplaceBinary(j)
    BY <1>9, <2>3, <2>4, <2>5, <2>6 DEF Execute
  <2>8. ReplaceBinary(j) => Newest(j)'
    BY DEF ReplaceBinary, Apart, Newest
  <2> QED BY <1>1, <2>7, <2>8, BackupAppends
<1>10. ASSUME restart', troubles'.faults = 0
       PROVE  handoff' # None /\ handoff'.backup = handoff'.job /\ handoff'.job = j /\ Backups(j)' # {}
  <2>1. CASE Dispatch(j)
    <3>1. ~Spend("faults")
      BY <1>1, <1>10, SpendGrows
    <3>2. handoff' = [job |-> j, backup |-> j] /\ Counted(j)
      BY <2>1, <3>1 DEF Dispatch, WriteHandoff, Counted
    <3>3. handoff' \in Handoff
      BY <3>2 DEF Handoff
    <3> QED BY <1>7, <3>2, <3>3 DEF Apart
  <2>2. CASE ~Dispatch(j)
    <3>1. UNCHANGED <<restart, handoff>>
      BY <2>2 DEF Execute, Load, SavePhase, BackupBinary, ReplaceBinary, PruneBackups, SaveInstalled, SaveRestarting,
                  Abort, Fail, Panic, EndUnsaved
    <3>2. handoff # None /\ handoff.backup = handoff.job /\ handoff.job = j /\ Backups(j) # {}
      BY <1>3, <1>10, <3>1 DEF Apart
    <3> QED BY <1>7, <3>1, <3>2
  <2> QED BY <2>1, <2>2
<1>11. \A k \in Jobs : (task'[k].pc \in {"backedUp", "replaced"} => Newest(k)') /\ (Counted(k)' => Backups(k)' # {})
  <2>1. \A k \in Jobs : task'[k].pc \in {"backedUp", "replaced"} => k = j
    <3>1. ASSUME NEW k \in Jobs \ {j}, task[k].pc \in {"backedUp", "replaced"} PROVE FALSE
      <4>1. AtWork(k)
        BY <3>1 DEF AtWork, Sound, JobSound
      <4> QED BY <1>4, <4>1
    <3> QED BY <1>2, <3>1
  <2> QED BY <1>5, <1>8, <1>9, <2>1
<1> QED BY <1>2, <1>5, <1>10, <1>11 DEF Apart

LEMMA HandleApart ==
    ASSUME Sound, Apart, NEW h \in Handlers, Handle(h), ~troubles'.overlapped, troubles'.faults = 0 => troubles.faults = 0
    PROVE  Apart'
<1> USE DEF store, disk, main
<1>1. UNCHANGED <<files, named>> /\ \A k \in Jobs : Backups(k)' = Backups(k) /\ Newest(k)' = Newest(k)
  <2>1. UNCHANGED <<files, named>>
    BY DEF Handle, ApplyCheck, ApplyCreate, ApplySpawn, CancelRead, CancelSignal, CancelSave,
           RollbackRead, RollbackRestore, RollbackSave, RollbackDispatch
  <2> QED BY <2>1 DEF Backups, Newest
\* A job that is begun has the service to itself.
<1>2. ASSUME NEW j \in Jobs, ApplyCreate(h, j) \/ RollbackRead(h, j)
      PROVE  /\ \A k \in Jobs : AtWork(k) \/ AtWork(k)' => k = j
             /\ restart => \A k \in Jobs : rows[k] # None => k = j
  <2> DEFINE now == troubles.overlapped \/ \E k \in Jobs \ {j} : rows[k] # None /\ (restart \/ AtWork(k))
  <2>1. troubles \in Troubles /\ now \in BOOLEAN /\ troubles' = [troubles EXCEPT !.overlapped = now]
    BY <1>2 DEF Sound, TypeOK, ApplyCreate, RollbackRead, Begin
  <2>2. ~now
    <3> HIDE DEF now
    <3> QED BY <2>1 DEF Troubles
  <2>3. \A k \in Jobs \ {j} : rows[k] # None => ~restart /\ ~AtWork(k)
    BY <2>2
  <2>4. \A k \in Jobs : AtWork(k) => k = j
    BY <2>3 DEF AtWork
  <2>5. ASSUME NEW k \in Jobs, AtWork(k)', k # j PROVE FALSE
    <3>1. ~ApplyCreate(h, k) /\ ~RollbackRead(h, k)
      <4>1. call'[h].job = j
        BY <1>2 DEF ApplyCreate, RollbackRead, Sound, TypeOK, CallStates
      <4>2. ApplyCreate(h, k) \/ RollbackRead(h, k) => call'[h].job = k
        BY DEF ApplyCreate, RollbackRead, Sound, TypeOK, CallStates
      <4> QED BY <2>5, <4>1, <4>2
    <3>2. AtWork(k)
      BY <2>5, <3>1, HandleWork
    <3> QED BY <2>4, <2>5, <3>2
  <2> QED BY <2>3, <2>4, <2>5
<1>3. \A j, k \in Jobs : AtWork(j)' /\ AtWork(k)' => j = k
  <2>1. CASE \E j \in Jobs : ApplyCreate(h, j) \/ RollbackRead(h, j)
    BY <1>2, <2>1
  <2>2. CASE ~ \E j \in Jobs : ApplyCreate(h, j) \/ RollbackRead(h, j)
    <3>1. \A k \in Jobs : AtWork(k)' => AtWork(k)
      BY <2>2, HandleWork
    <3> QED BY <3>1 DEF Apart
  <2> QED BY <2>1, <2>2
<1>4. ASSUME NEW k \in Jobs
      PROVE  (task'[k].pc \in {"backedUp", "replaced"} => Newest(k)') /\ (Counted(k)' => Backups(k)' # {})
  <2>1. task'[k].pc \in {"backedUp", "replaced"} => Newest(k)'
    BY <1>1, HandleWork DEF Apart
  <2>2. RollbackRead(h, k) => Backups(k) # {}
    <3>1. RollbackRead(h, k) => rows[k].backup = k
      BY DEF RollbackRead, BackupExists, Sound, JobSound, RowAgrees
    <3> QED BY <3>1 DEF RollbackRead, BackupExists
  <2>3. Counted(k)' => Backups(k)' # {}
    BY <1>1, <2>2, HandleWork DEF Apart
  <2> QED BY <2>1, <2>3
<1>5. ASSUME restart', troubles'.faults = 0
      PROVE  /\ handoff' # None /\ handoff'.backup = handoff'.job
             /\ rows'[handoff'.job] # None /\ Backups(handoff.job)' # {}
             /\ \A k \in Jobs : AtWork(k)' => k = handoff'.job
  <2>1. CASE RollbackDispatch(h)
    <3>1. PICK j \in Jobs : j = call[h].job
      BY <2>1 DEF RollbackDispatch, Sound, CallSound, Rolling
    <3>0. ~Spend("faults")
      BY <1>5, SpendGrows DEF Sound
    <3>2. handoff' = [job |-> j, backup |-> j] /\ rows[j] # None /\ UNCHANGED rows /\ call[h].op \in Rolling
      BY <2>1, <3>0, <3>1 DEF RollbackDispatch, Sound, CallSound, Rolling
    <3>3. handoff' \in Handoff /\ handoff'.job = j /\ handoff'.backup = j
      BY <3>2 DEF Handoff
    <3>4. Counted(j) /\ AtWork(j)
      BY <3>1, <3>2 DEF Counted, AtWork
    <3>5. Backups(j)' # {}
      BY <1>1, <3>4 DEF Apart
    <3>6. \A k \in Jobs : ~ApplyCreate(h, k) /\ ~RollbackRead(h, k)
      BY <2>1 DEF RollbackDispatch, ApplyCreate, RollbackRead, Idle
    <3>7. \A k \in Jobs : AtWork(k)' => k = j
      BY <3>4, <3>6, HandleWork DEF Apart
    <3>8. Backups(handoff.job)' = Backups(j)'
      BY <3>3
    <3> QED BY <3>2, <3>3, <3>5, <3>7, <3>8
  <2>2. CASE ~RollbackDispatch(h)
    <3>1. UNCHANGED <<restart, handoff>>
      BY <2>2 DEF Handle, ApplyCheck, ApplyCreate, ApplySpawn, CancelRead, CancelSignal, CancelSave,
                  RollbackRead, RollbackRestore, RollbackSave
    <3>2. /\ handoff # None /\ handoff.backup = handoff.job /\ handoff.job \in Jobs
          /\ rows[handoff.job] # None /\ Backups(handoff.job) # {} /\ \A k \in Jobs : AtWork(k) => k = handoff.job
      BY <1>5, <3>1 DEF Apart, Sound, TypeOK, Handoff
    <3>3. PICK j \in Jobs : j = handoff.job
      BY <3>2
    <3>4. rows'[j] # None /\ Backups(j)' # {}
      BY <1>1, <3>2, <3>3, HandleWork
    <3>5. ASSUME NEW k \in Jobs, AtWork(k)' PROVE k = j
      <4>1. CASE AtWork(k)
        BY <3>2, <3>3, <4>1
      <4>2. CASE ApplyCreate(h, k) \/ RollbackRead(h, k)
        BY <1>2, <1>5, <3>1, <3>2, <3>3, <4>2
      <4> QED BY <3>5, <4>1, <4>2, HandleWork
    <3>6. Backups(handoff.job)' = Backups(j)'
      BY <3>1, <3>3
    <3> QED BY <3>1, <3>2, <3>3, <3>4, <3>5, <3>6
  <2> QED BY <2>1, <2>2
<1> QED BY <1>3, <1>4, <1>5 DEF Apart

LEMMA ProcessApart ==
    ASSUME Sound, Apart, ProcessStep, troubles'.faults = 0 => troubles.faults = 0
    PROVE  Apart'
<1>1. \A k \in Jobs : Backups(k)' = Backups(k) /\ Newest(k)' = Newest(k)
  BY ProcessWork DEF Backups, Newest
<1>2. \A j, k \in Jobs : AtWork(j)' /\ AtWork(k)' => j = k
  BY ProcessWork DEF Apart
<1>3. \A k \in Jobs : (task'[k].pc \in {"backedUp", "replaced"} => Newest(k)') /\ (Counted(k)' => Backups(k)' # {})
  BY <1>1, ProcessWork DEF Apart
<1>4. ASSUME restart', troubles'.faults = 0
      PROVE  /\ handoff' # None /\ handoff'.backup = handoff'.job
             /\ rows'[handoff'.job] # None /\ Backups(handoff.job)' # {}
             /\ \A k \in Jobs : AtWork(k)' => k = handoff'.job
  <2>1. restart /\ UNCHANGED handoff
    BY <1>4, ProcessWork
  <2>2. /\ handoff # None /\ handoff.backup = handoff.job /\ handoff.job \in Jobs
        /\ rows[handoff.job] # None /\ Backups(handoff.job) # {} /\ \A k \in Jobs : AtWork(k) => k = handoff.job
    BY <1>4, <2>1 DEF Apart, Sound, TypeOK, Handoff
  <2>3. PICK j \in Jobs : j = handoff.job
    BY <2>2
  <2>4. rows'[j] # None /\ Backups(j)' # {} /\ \A k \in Jobs : AtWork(k)' => k = j
    BY <1>1, <2>2, <2>3, ProcessWork
  <2>5. Backups(handoff.job)' = Backups(j)'
    BY <2>1, <2>3
  <2> QED BY <2>1, <2>2, <2>3, <2>4, <2>5
<1> QED BY <1>2, <1>3, <1>4 DEF Apart

LEMMA ApartStep ==
    ASSUME KeepsOwnBackup
    PROVE  Sound /\ (~troubles.overlapped => Apart) /\ [Next]_vars => (~troubles'.overlapped => Apart')
<1> SUFFICES ASSUME Sound, ~troubles.overlapped => Apart, [Next]_vars, ~troubles'.overlapped PROVE Apart'
  OBVIOUS
<1>1. Apart /\ (troubles'.faults = 0 => troubles.faults = 0)
  BY TroublesGrow DEF Sound
<1>2. CASE UNCHANGED vars
  <2>1. \A k \in Jobs : Backups(k)' = Backups(k) /\ Newest(k)' = Newest(k) /\ AtWork(k)' = AtWork(k) /\ Counted(k)' = Counted(k)
    BY <1>2 DEF vars, store, disk, main, Backups, Newest, AtWork, Counted
  <2>2. UNCHANGED <<rows, task, handoff, restart, troubles, files, named>> /\ (handoff # None => handoff.job \in Jobs)
    BY <1>2 DEF vars, store, disk, main, Sound, TypeOK, Handoff
  <2>3. Backups(handoff.job)' = Backups(handoff.job)
    BY <2>2 DEF Backups
  <2> QED BY <1>1, <2>1, <2>2, <2>3 DEF Apart
<1> QED BY <1>1, <1>2, ExecuteApart, HandleApart, ProcessApart DEF Next, ProcessStep

-----------------------------------------------------------------------------
\* The first job, while nobody copies a binary in by hand.

LEMMA OnlyJob ==
    ASSUME Sound, NEW k \in Jobs, rows[k] # None
    PROVE  order # <<>> /\ \A j \in Jobs : order = <<j>> => k = j
<1>1. \E i \in DOMAIN order : order[i] = k
  BY DEF Sound, JobSound
<1> QED BY <1>1

LEMMA ExecuteFirst ==
    ASSUME Sound, FirstVersion, NEW j \in Jobs, Execute(j)
    PROVE  FirstVersion'
<1> USE DEF store, disk, main
<1>1. TypeOK /\ JobSound(j) /\ task \in [Jobs -> TaskStates]
  BY DEF Sound, TypeOK
<1>2. task[j].pc # "none" /\ rows[j] # None /\ UNCHANGED <<call, order>>
  BY <1>1, ExecuteJob DEF JobSound
<1>3. UNCHANGED running
  BY DEF Execute, Load, SavePhase, BackupBinary, ReplaceBinary, PruneBackups, SaveInstalled, SaveRestarting,
         Dispatch, RequestRestart, Abort, Fail, Panic, EndUnsaved
<1>4. order # <<>> /\ \A k \in Jobs : order = <<k>> => k = j
  BY <1>2, OnlyJob
<1>5. ASSUME order = <<j>>
      PROVE  /\ running' = 1 /\ \A i \in DOMAIN files' : files'[i].name = named'[j] => files'[i].version = 1
             /\ task'[j].pc \in {"none", "spawned"} \cup Working => installed' = 1
  <2>1. /\ running = 1 /\ \A i \in DOMAIN files : files[i].name = named[j] => files[i].version = 1
        /\ task[j].pc \in {"spawned"} \cup Working => installed = 1
    BY <1>2, <1>5 DEF FirstVersion
  <2>2. BackupBinary(j) => task[j].pc \in Working
    BY DEF BackupBinary, Working
  <2>3. UNCHANGED <<files, named>> \/ BackupBinary(j) \/ PruneBackups(j)
    BY DEF Execute, Load, SavePhase, ReplaceBinary, SaveInstalled, SaveRestarting, Dispatch, Abort, Fail, Panic, EndUnsaved
  <2>4. \A i \in DOMAIN files' : files'[i].name = named'[j] => files'[i].version = 1
    <3>1. CASE UNCHANGED <<files, named>>
      BY <2>1, <3>1
    <3>2. CASE BackupBinary(j)
      BY <1>1, <2>1, <2>2, <3>2, BackupEffect
    <3>3. CASE PruneBackups(j)
      <4>1. UNCHANGED named
        BY <3>3 DEF PruneBackups
      <4> QED BY <1>1, <2>1, <3>3, <4>1, PruneKeeps
    <3> QED BY <2>3, <3>1, <3>2, <3>3
  <2>5. ASSUME task'[j].pc \in {"none", "spawned"} \cup Working PROVE installed' = 1
    <3>1. \A pc : task' = [task EXCEPT ![j].pc = pc] => task'[j].pc = pc
      BY <1>1 DEF TaskStates
    <3>2. \A pc, row : task' = [task EXCEPT ![j].pc = pc, ![j].job = row] => task'[j].pc = pc
      BY <1>1 DEF TaskStates
    <3>3. ReplaceBinary(j) \/ SaveInstalled(j) \/ Dispatch(j) \/ Abort(j) \/ Fail(j) \/ Panic(j) \/ EndUnsaved(j) =>
            task'[j].pc \in {"replaced", "installSaved", "end"}
      BY <3>1 DEF ReplaceBinary, SaveInstalled, Dispatch, Abort, Fail, Panic, EndUnsaved
    <3>4. PruneBackups(j) \/ SaveRestarting(j) => task'[j].pc \in {"pruned", "dispatch"}
      BY <1>1, <3>2 DEF PruneBackups, SaveRestarting, TaskStates
    <3>5. Load(j) \/ BackupBinary(j) \/ \E from \in Working, phase \in AllPhases : SavePhase(j, from, phase)
      BY <2>5, <3>3, <3>4 DEF Execute, Working, AllPhases, EarlyPhases
    <3>6. task[j].pc \in {"spawned"} \cup Working /\ UNCHANGED installed
      BY <3>5 DEF Load, BackupBinary, SavePhase, Working
    <3> QED BY <2>1, <3>6
  <2> QED BY <1>3, <2>1, <2>4, <2>5
<1> QED BY <1>2, <1>4, <1>5 DEF FirstVersion

LEMMA HandleFirst ==
    ASSUME Sound, FirstVersion, NEW h \in Handlers, Handle(h)
    PROVE  FirstVersion'
<1> USE DEF store, disk, main
<1>1. /\ task \in [Jobs -> TaskStates] /\ call \in [Handlers -> CallStates] /\ order \in Seq(Jobs)
      /\ CallSound(h) /\ Idle.op = "idle"
  BY DEF Sound, TypeOK, Idle
<1>2. UNCHANGED <<files, named, running>>
  BY DEF Handle, ApplyCheck, ApplyCreate, ApplySpawn, CancelRead, CancelSignal, CancelSave,
         RollbackRead, RollbackRestore, RollbackSave, RollbackDispatch, RequestRestart
<1>3. ASSUME NEW j \in Jobs, ApplyCreate(h, j) PROVE FirstVersion'
  <2>1. order' = Append(order, j) /\ UNCHANGED installed
    BY <1>3 DEF ApplyCreate
  <2>2. order' # <<>> /\ \A k \in Jobs : order' = <<k>> => order = <<>>
    BY <1>1, <2>1
  <2>3. order = <<>> => installed' = 1 /\ running' = 1 /\ \A k \in Jobs : named'[k] = None
    BY <1>2, <2>1 DEF FirstVersion
  <2>4. \A i \in DOMAIN files' : files'[i].name # None
    <3>1. ASSUME NEW i \in DOMAIN files PROVE files[i].name # None
      <4>1. files[i] \in Files
        BY DEF Sound, TypeOK
      <4> QED BY <4>1, NoneIsNothing, UpdateConstants DEF Files
    <3> QED BY <1>2, <3>1
  <2> QED BY <2>2, <2>3, <2>4 DEF FirstVersion
<1>4. CASE RollbackRestore(h)
  <2>1. PICK j \in Jobs : j = call[h].job
    BY <1>1, <1>4 DEF RollbackRestore, CallSound, Rolling
  <2>2. /\ rows[j] # None /\ task[j].pc \notin Prior /\ UNCHANGED <<task, order>> /\ \A g \in Handlers : ~(call[g].op = "applyCreated" /\ call[g].job = j)
    BY <1>1, <1>4, <2>1 DEF RollbackRestore, CallSound, Rolling
  <2>3. \A g \in Handlers : ~(call'[g].op = "applyCreated" /\ call'[g].job = j)
    BY <1>1, <1>4, <2>2 DEF RollbackRestore, CallStates
  <2>4. order # <<>> /\ \A k \in Jobs : order = <<k>> => k = j
    BY <2>2, OnlyJob
  <2>5. order = <<j>> /\ task[j].pc # "none" => running = 1 /\ \A i \in DOMAIN files : files[i].name = named[j] => files[i].version = 1
    BY DEF FirstVersion
  <2>6. task'[j].pc # "none" => task'[j].pc \notin {"none", "spawned"} \cup Working
    BY <2>2 DEF Prior
  <2> QED BY <1>2, <2>2, <2>3, <2>4, <2>5, <2>6 DEF FirstVersion
<1>5. ASSUME UNCHANGED <<order, installed>>,
             \A k \in Jobs : (task'[k].pc # "none" \/ \E g \in Handlers : call'[g].op = "applyCreated" /\ call'[g].job = k) =>
                 /\ task[k].pc # "none" \/ \E g \in Handlers : call[g].op = "applyCreated" /\ call[g].job = k
                 /\ task'[k].pc \in {"none", "spawned"} \cup Working => task[k].pc \in {"none", "spawned"} \cup Working
      PROVE  FirstVersion'
  <2> HIDE DEF Working
  <2> QED BY <1>2, <1>5 DEF FirstVersion
<1>6. CASE ApplySpawn(h)
  <2>1. PICK j \in Jobs : j = call[h].job
    BY <1>1, <1>6 DEF ApplySpawn, CallSound
  <2>2. /\ task[j].pc = "none" /\ call[h].op = "applyCreated" /\ call[h].job = j
        /\ \A k \in Jobs \ {j} : task'[k] = task[k]
        /\ \A g \in Handlers : call'[g].op = "applyCreated" => call[g].op = "applyCreated" /\ call'[g].job = call[g].job
    BY <1>1, <1>6, <2>1 DEF ApplySpawn, CallSound
  <2> HIDE DEF Working
  <2>3. UNCHANGED <<order, installed>>
    BY <1>6 DEF ApplySpawn
  <2> QED BY <1>5, <2>2, <2>3
<1>7. CASE ApplyCheck(h) \/ (\E j \in Jobs : CancelRead(h, j) \/ RollbackRead(h, j)) \/ CancelSignal(h)
           \/ CancelSave(h) \/ RollbackSave(h) \/ RollbackDispatch(h)
  <2>1. UNCHANGED <<order, installed>> /\ \A k \in Jobs : task'[k].pc = task[k].pc
    BY <1>1, <1>7 DEF ApplyCheck, CancelRead, RollbackRead, CancelSignal, CancelSave, RollbackSave, RollbackDispatch, TaskStates
  <2>2. call'[h].op # "applyCreated" /\ \A g \in Handlers \ {h} : call'[g] = call[g]
    <3>1. CASE ApplyCheck(h)
      BY <1>1, <3>1 DEF ApplyCheck, Idle
    <3>2. CASE \E j \in Jobs : CancelRead(h, j) \/ RollbackRead(h, j)
      BY <1>1, <3>2 DEF CancelRead, RollbackRead
    <3>3. CASE CancelSignal(h) \/ CancelSave(h) \/ RollbackSave(h) \/ RollbackDispatch(h)
      BY <1>1, <3>3 DEF CancelSignal, CancelSave, RollbackSave, RollbackDispatch, CallStates
    <3> QED BY <1>7, <3>1, <3>2, <3>3
  <2> HIDE DEF Working
  <2> QED BY <1>5, <2>1, <2>2
<1> QED BY <1>3, <1>4, <1>6, <1>7 DEF Handle

LEMMA ProcessFirst ==
    ASSUME Sound, FirstVersion, ProcessStep, troubles'.deploys = 0
    PROVE  FirstVersion'
<1> USE DEF store, disk, main
<1>1. TypeOK /\ Hosted /\ (order = <<>> => Latest = None)
  BY DEF Sound, Latest
<1>2. ~ \E v \in Versions : Deploy(v)
  BY <1>1, SpendGrows DEF Deploy
<1>3. UNCHANGED <<files, named, order>>
  BY DEF ProcessStep, StartProcess, BootSteps, ConfirmBoot, ConfirmIdle, ConfirmTarget, MismatchRestores, MismatchFails,
         ConfirmUnsaved, DeleteHandoff, Ensure, Restart, Stop, Check, Crash, Tick, Deploy
<1>4. order = <<>> => UNCHANGED installed /\ (UNCHANGED running \/ running' = installed)
  BY <1>1, <1>2 DEF Pending, Boot, ProcessStep, StartProcess, BootSteps, ConfirmBoot, ConfirmIdle, ConfirmTarget, MismatchRestores,
         MismatchFails, ConfirmUnsaved, DeleteHandoff, Ensure, Restart, Stop, Check, Crash, Tick
<1>5. Lose \/ (proc # "serving" /\ UNCHANGED <<task, call>>) \/ UNCHANGED <<task, call, installed, running>>
  BY <1>2 DEF ProcessStep, StartProcess, BootSteps, ConfirmBoot, ConfirmIdle, ConfirmTarget, MismatchRestores,
         MismatchFails, ConfirmUnsaved, DeleteHandoff, Ensure, Restart, Stop, Check, Crash, Tick
<1>6. \/ UNCHANGED <<task, call, installed, running>>
      \/ (\A j \in Jobs : task'[j].pc = "none") /\ \A h \in Handlers : call'[h].op = "idle"
  BY <1>1, <1>5 DEF Hosted, Lose, NoTask, Idle
<1> QED BY <1>3, <1>4, <1>6 DEF FirstVersion

LEMMA FirstStep == Sound /\ (troubles.deploys = 0 => FirstVersion) /\ [Next]_vars => (troubles'.deploys = 0 => FirstVersion')
<1> SUFFICES ASSUME Sound, troubles.deploys = 0 => FirstVersion, [Next]_vars, troubles'.deploys = 0 PROVE FirstVersion'
  OBVIOUS
<1>1. FirstVersion
  BY TroublesGrow DEF Sound
<1>2. UNCHANGED vars => FirstVersion'
  BY <1>1 DEF vars, store, disk, main, FirstVersion
<1> QED BY <1>1, <1>2, ExecuteFirst, HandleFirst, ProcessFirst DEF Next, ProcessStep

LEMMA BackupsAlways == Spec => []BackupsInv
<1>1. Init => BackupsInv
  <2> SUFFICES ASSUME Init PROVE BackupsInv
    OBVIOUS
  <2>1. /\ \A j \in Jobs : rows[j] = None /\ task[j].pc = "none"
        /\ \A h \in Handlers : call[h].op = "idle"
        /\ order = <<>> /\ installed = 1 /\ running = 1 /\ (\A j \in Jobs : named[j] = None) /\ ~restart
    BY DEF Init, NoTask, Idle
  <2>2. Apart
    BY <2>1 DEF Apart, AtWork, Counted, Rolling
  <2>3. FirstVersion
    BY <2>1 DEF FirstVersion
  <2> QED BY <2>2, <2>3 DEF BackupsInv
<1>2. Sound /\ BackupsInv /\ [Next]_vars => BackupsInv'
  BY ApartStep, FirstStep DEF BackupsInv
<1> QED BY <1>1, <1>2, SoundAlways, PTL DEF Spec

\* A job that waits for its restart can be undone (install and rollbackManagedBinaries,
\* service.go), for every retention that leaves room for the copies of one job: work on
\* two jobs that overlaps is the only way to lose the backup its row names.
THEOREM RestartUndoable == Spec => []RestartingCanBeUndone
<1>1. Sound /\ BackupsInv => RestartingCanBeUndone
  <2> SUFFICES ASSUME Sound, BackupsInv, KeepsOwnBackup, ~troubles.overlapped, NEW j \in Jobs, rows[j] # None, rows[j].status = "restarting"
               PROVE  /\ BackupExists(rows[j].backup)
                      /\ proc = "serving" /\ task[j].pc # "none" /\ troubles.deploys = 0 /\ order = <<j>> =>
                           BackupVersion(rows[j].backup) = running
    BY DEF RestartingCanBeUndone
  <2>1. rows[j].backup = j /\ Backups(j) # {}
    BY DEF Sound, JobSound, RowAgrees, BackupsInv, Apart, Counted
  <2>2. BackupExists(rows[j].backup)
    BY <2>1 DEF BackupExists
  <2>3. ASSUME task[j].pc # "none", troubles.deploys = 0, order = <<j>> PROVE BackupVersion(j) = running
    <3>1. running = 1 /\ \A i \in DOMAIN files : files[i].name = named[j] => files[i].version = 1
      BY <2>3 DEF BackupsInv, FirstVersion
    <3>2. (CHOOSE i \in Backups(j) : TRUE) \in Backups(j)
      BY <2>1
    <3> QED BY <3>1, <3>2 DEF BackupVersion, Backups
  <2> QED BY <2>1, <2>2, <2>3
<1> QED BY <1>1, SoundAlways, BackupsAlways, PTL

\* The restart request a process leaves on has its handoff on disk, and the backup the
\* supervisor would restore from it (dispatchRestart and writeHandoff, service.go and
\* handoff.go), unless a write has failed or jobs have overlapped.
THEOREM HandoffBeforeRestart == Spec => []RestartHasHandoff
<1>1. Sound /\ BackupsInv => RestartHasHandoff
  <2> SUFFICES ASSUME Sound, BackupsInv, KeepsOwnBackup, restart, troubles.faults = 0, ~troubles.overlapped
               PROVE  handoff # None /\ BackupExists(handoff.backup)
    BY DEF RestartHasHandoff
  <2>1. handoff # None /\ handoff.backup = handoff.job /\ Backups(handoff.job) # {} /\ handoff \in Handoff
    BY DEF BackupsInv, Apart, Sound, TypeOK
  <2> QED BY <2>1 DEF BackupExists, Handoff
<1> QED BY <1>1, SoundAlways, BackupsAlways, PTL

-----------------------------------------------------------------------------
(***************************************************************************)
(* Replacing the binary, one step so far, seen from inside (BinaryReplace).*)
(* Why copy-then-rename is safe, for any number of jobs, restores, inodes, *)
(* versions and crashes, until two restores are under way at once: the     *)
(* writers at work own their temporary names, and with them the inodes     *)
(* behind them.                                                            *)
(***************************************************************************)

Copying == {"copy1", "copy2"}

\* Who is copying has a file open, and nobody else.
Opened == \A w \in Writers : stage[w] \in Copying <=> fd[w] # Nothing

\* A temporary name has one writer at work.
Alone == \A v, w \in Writers : UnderWay(v) /\ UnderWay(w) /\ TempOf(v) = TempOf(w) => v = w

\* A writer that has a file open has it under its own name and nobody else's.
Exclusive ==
    /\ \A m, n \in Names : temp[m] = temp[n] /\ temp[m] # Nothing => m = n
    /\ \A n \in Names : temp[n] # path
    /\ \A w \in Writers : fd[w] # Nothing => fd[w] = temp[TempOf(w)]

\* The control point of a writer says how much of its inode it has written.
Progress ==
    \A w \in Writers :
        /\ stage[w] \in {"copy2", "rename"} /\ temp[TempOf(w)] # Nothing => half[temp[TempOf(w)]][1] = Binary[w]
        /\ stage[w] = "rename" /\ temp[TempOf(w)] # Nothing => half[temp[TempOf(w)]][2] = Binary[w]

Apiece == Alone /\ Exclusive /\ Progress /\ Whole(path)

ReplaceInv == ReplaceTypeOK /\ Opened /\ (~overlapped => Apiece)

USE BinaryConstants

\* Every writer has a temporary name, and only restores share one.
LEMMA TempNames == \A w \in Writers : TempOf(w) \in Names
BY DEF TempOf, Names, Writers

LEMMA TempShared == \A v, w \in Writers : TempOf(v) = TempOf(w) /\ v # w => v \in Restorers /\ w \in Restorers
BY DEF TempOf, Names, Writers

\* What every writer puts in place is a version, so it is not "nothing".
LEMMA BinaryIsVersion == \A w \in Writers : Binary[w] \in Version /\ Binary[w] # Nothing
BY DEF Version

LEMMA ReplaceInvInit == ReplaceInit => ReplaceInv
<1> SUFFICES ASSUME ReplaceInit PROVE ReplaceInv
  OBVIOUS
<1> USE DEF ReplaceInit
<1>1. half \in [Inodes -> [Halves -> Version \cup {Nothing}]]
  BY DEF Version
<1>2. ReplaceTypeOK /\ Opened /\ Alone
  BY <1>1 DEF ReplaceTypeOK, Opened, Alone, UnderWay, Copying
<1>3. Exclusive /\ Progress
  BY DEF Exclusive, Progress
<1>4. First # Nothing
  BY DEF Version
<1>5. Whole(path)
  BY <1>4 DEF Whole, Halves
<1> QED BY <1>2, <1>3, <1>5 DEF ReplaceInv, Apiece

\* The types, and who has a file open, do not depend on who shares a name.
LEMMA ReplaceTypeStep == ReplaceTypeOK /\ Opened /\ [ReplaceNext]_fileVars => ReplaceTypeOK' /\ Opened'
<1> SUFFICES ASSUME ReplaceTypeOK, Opened, [ReplaceNext]_fileVars PROVE ReplaceTypeOK' /\ Opened'
  OBVIOUS
<1> USE DEF ReplaceTypeOK, Goto
<1>1. ASSUME NEW w \in Writers, RemoveLeftover(w) \/ InstallBegins(w) PROVE ReplaceTypeOK' /\ Opened'
  BY <1>1 DEF RemoveLeftover, InstallBegins, UnderWay, Opened, Copying
<1>2. ASSUME NEW w \in Writers, Open(w) PROVE ReplaceTypeOK' /\ Opened'
  <2>1. PICK i \in Inodes : /\ temp' = [temp EXCEPT ![TempOf(w)] = i]
                            /\ fd' = [fd EXCEPT ![w] = i]
                            /\ half' = [half EXCEPT ![i] = [k \in Halves |-> Nothing]]
    BY <1>2 DEF Open
  <2>2. [k \in Halves |-> Nothing] \in [Halves -> Version \cup {Nothing}]
    OBVIOUS
  <2>3. half' \in [Inodes -> [Halves -> Version \cup {Nothing}]]
    BY <2>1, <2>2
  <2>4. temp' \in [Names -> Inodes \cup {Nothing}] /\ fd' \in [Writers -> Inodes \cup {Nothing}]
    BY <2>1
  <2>5. ReplaceTypeOK'
    BY <1>2, <2>3, <2>4 DEF Open
  <2> QED BY <1>2, <2>1, <2>5 DEF Open, Opened, Copying
<1>3. ASSUME NEW w \in Writers, NEW k \in Halves, NEW to \in {"copy2", "rename"},
             stage[w] \in Copying, Copy(w, k, stage[w], to)
      PROVE  ReplaceTypeOK'
  <2>1. fd[w] \in Inodes
    BY <1>3 DEF Opened
  <2> DEFINE new == [half[fd[w]] EXCEPT ![k] = Binary[w]]
  <2>2. new \in [Halves -> Version \cup {Nothing}]
    BY <2>1, BinaryIsVersion
  <2>3. half' = [half EXCEPT ![fd[w]] = new]
    BY <1>3 DEF Copy
  <2> HIDE DEF new
  <2>4. half' \in [Inodes -> [Halves -> Version \cup {Nothing}]]
    BY <2>1, <2>2, <2>3
  <2> QED BY <1>3, <2>4 DEF Copy
<1>4. ASSUME NEW w \in Writers, CopyFails(w) \/ RenameFails(w) \/ WriterDies(w) PROVE ReplaceTypeOK' /\ Opened'
  BY <1>4 DEF CopyFails, RenameFails, WriterDies, Opened, Copying
<1>5. ASSUME NEW w \in Writers, Rename(w) PROVE ReplaceTypeOK' /\ Opened'
  BY <1>5, TempNames DEF Rename, Opened, Copying
<1>6. CASE UNCHANGED fileVars
  BY <1>6 DEF fileVars, Opened
<1>7. ASSUME NEW w \in Writers, Copy(w, 1, "copy1", "copy2") \/ Copy(w, 2, "copy2", "rename")
      PROVE  ReplaceTypeOK' /\ Opened'
  <2>1. ReplaceTypeOK'
    BY <1>3, <1>7 DEF Copy, Copying, Halves
  <2> QED BY <1>7, <2>1 DEF Copy, Opened, Copying
<1> QED BY <1>1, <1>2, <1>4, <1>5, <1>6, <1>7 DEF ReplaceNext, Step

\* A restore that begins while none is at work has the shared name to itself.
LEMMA ReplaceAloneStep ==
    ASSUME ReplaceTypeOK, Alone, [ReplaceNext]_fileVars, ~overlapped'
    PROVE  Alone'
<1> USE DEF ReplaceTypeOK, Goto
<1>1. ASSUME NEW w \in Writers, RemoveLeftover(w) \/ InstallBegins(w) PROVE Alone'
  <2>1. ASSUME NEW v \in Writers, UnderWay(v), TempOf(v) = TempOf(w) PROVE v = w
    BY <1>1, <2>1, TempShared DEF RemoveLeftover, InstallBegins
  <2>2. \A v \in Writers : v # w => (UnderWay(v)' <=> UnderWay(v))
    BY <1>1 DEF RemoveLeftover, InstallBegins, UnderWay
  <2> QED BY <2>1, <2>2 DEF Alone
<1>2. ASSUME NEW w \in Writers,
             Open(w) \/ Copy(w, 1, "copy1", "copy2") \/ Copy(w, 2, "copy2", "rename") \/ CopyFails(w) \/ Rename(w)
                 \/ RenameFails(w) \/ WriterDies(w)
      PROVE  Alone'
  <2>1. \A v \in Writers : UnderWay(v)' => UnderWay(v)
    BY <1>2 DEF Open, Copy, CopyFails, Rename, RenameFails, WriterDies, UnderWay
  <2> QED BY <2>1 DEF Alone
<1>3. CASE UNCHANGED fileVars
  BY <1>3 DEF fileVars, Alone, UnderWay
<1> QED BY <1>1, <1>2, <1>3 DEF ReplaceNext, Step

LEMMA ReplaceApieceStep ==
    ASSUME ReplaceTypeOK, Opened, Alone, Exclusive, Progress, Whole(path), [ReplaceNext]_fileVars, ~overlapped'
    PROVE  Exclusive' /\ Progress' /\ Whole(path)'
<1> DEFINE Rest == Exclusive /\ Progress /\ Whole(path)
<1> USE DEF ReplaceTypeOK, Goto
<1>1. ASSUME NEW w \in Writers, UnderWay(w) \/ (RemoveLeftover(w) /\ ~overlapped')
      PROVE  \A v \in Writers : v # w /\ TempOf(v) = TempOf(w) => ~UnderWay(v)
  BY <1>1, TempShared DEF Alone, RemoveLeftover
<1>2. \A v \in Writers : ~UnderWay(v) => stage[v] \notin {"copy2", "rename"} /\ fd[v] = Nothing
  BY DEF UnderWay, Opened, Copying
<1>3. ASSUME NEW w \in Writers, RemoveLeftover(w) PROVE Rest'
  <2>1. TempOf(w) = RollbackTmp /\ RollbackTmp \in Names
    BY <1>3 DEF RemoveLeftover, TempOf, Names
  <2>2. fd[w] = Nothing
    BY <1>2, <1>3 DEF RemoveLeftover
  <2>3. \A v \in Writers : v # w /\ TempOf(v) = RollbackTmp => fd[v] = Nothing /\ stage[v] \notin {"copy2", "rename"}
    BY <1>1, <1>2, <1>3, <2>1
  <2>4. Exclusive'
    BY <1>3, <2>1, <2>2, <2>3, TempNames DEF RemoveLeftover, Exclusive
  <2>5. Progress'
    BY <1>3, <2>1, <2>2, <2>3, TempNames DEF RemoveLeftover, Progress
  <2> QED BY <1>3, <2>4, <2>5 DEF RemoveLeftover, Whole
<1>4. ASSUME NEW w \in Writers, InstallBegins(w) PROVE Rest'
  BY <1>4 DEF InstallBegins, Exclusive, Progress, Whole
<1>5. ASSUME NEW w \in Writers, Open(w) PROVE Rest'
  <2>1. \A v \in Writers : v # w /\ TempOf(v) = TempOf(w) => stage[v] \notin {"copy2", "rename"} /\ fd[v] = Nothing
    BY <1>1, <1>2, <1>5 DEF Open, UnderWay
  <2>2. PICK i \in Inodes : /\ IF temp[TempOf(w)] = Nothing THEN Unused(i) ELSE i = temp[TempOf(w)]
                            /\ temp' = [temp EXCEPT ![TempOf(w)] = i]
                            /\ fd' = [fd EXCEPT ![w] = i]
                            /\ half' = [half EXCEPT ![i] = [k \in Halves |-> Nothing]]
                            /\ stage' = [stage EXCEPT ![w] = "copy1"] /\ path' = path
    BY <1>5 DEF Open
  <2>3. i # path /\ \A n \in Names : n # TempOf(w) => temp[n] # i
    BY <2>2, TempNames DEF Exclusive, Unused
  <2>4. Exclusive'
    BY <2>1, <2>2, <2>3, TempNames DEF Exclusive
  <2>5. Progress'
    BY <2>1, <2>2, <2>3, TempNames DEF Progress
  <2> QED BY <2>2, <2>3, <2>4, <2>5 DEF Whole
<1>6. ASSUME NEW w \in Writers, Copy(w, 1, "copy1", "copy2") \/ Copy(w, 2, "copy2", "rename") PROVE Rest'
  <2> DEFINE i == fd[w]
  <2>1. /\ i \in Inodes /\ i = temp[TempOf(w)] /\ i # path
        /\ \A n \in Names : n # TempOf(w) => temp[n] # i
    BY <1>6, TempNames DEF Copy, Exclusive, Opened, Copying
  <2>2. \A v \in Writers : v # w /\ TempOf(v) = TempOf(w) => stage[v] \notin {"copy2", "rename"}
    BY <1>1, <1>2, <1>6 DEF Copy, UnderWay
  <2>3. Exclusive'
    BY <1>6 DEF Copy, Exclusive
  <2>4. Whole(path)'
    BY <1>6, <2>1 DEF Copy, Whole
  <2>5. CASE Copy(w, 1, "copy1", "copy2")
    <3>1. half' = [half EXCEPT ![i] = [half[i] EXCEPT ![1] = Binary[w]]]
      BY <2>5 DEF Copy
    <3>2. half'[i][1] = Binary[w] /\ \A n \in Names : n # TempOf(w) => half'[temp[n]] = half[temp[n]]
      BY <2>1, <3>1 DEF Halves
    <3>3. stage' = [stage EXCEPT ![w] = "copy2"] /\ temp' = temp
      BY <2>5 DEF Copy
    <3> HIDE DEF i
    <3>4. ASSUME NEW v \in Writers, v # w
          PROVE  /\ stage'[v] \in {"copy2", "rename"} /\ temp'[TempOf(v)] # Nothing => half'[temp'[TempOf(v)]][1] = Binary[v]
                 /\ stage'[v] = "rename" /\ temp'[TempOf(v)] # Nothing => half'[temp'[TempOf(v)]][2] = Binary[v]
      BY <2>2, <3>2, <3>3, <3>4, TempNames DEF Progress
    <3> QED BY <2>1, <2>3, <2>4, <3>2, <3>3, <3>4 DEF Progress
  <2>6. CASE Copy(w, 2, "copy2", "rename")
    <3>1. half' = [half EXCEPT ![i] = [half[i] EXCEPT ![2] = Binary[w]]]
      BY <2>6 DEF Copy
    <3>2. /\ half'[i][2] = Binary[w] /\ half'[i][1] = half[i][1]
          /\ \A n \in Names : n # TempOf(w) => half'[temp[n]] = half[temp[n]]
      BY <2>1, <3>1 DEF Halves
    <3>3. /\ stage' = [stage EXCEPT ![w] = "rename"] /\ temp' = temp
          /\ stage[w] = "copy2" /\ half[i][1] = Binary[w]
      BY <2>1, <2>6 DEF Copy, Progress
    <3> HIDE DEF i
    <3>4. ASSUME NEW v \in Writers, v # w
          PROVE  /\ stage'[v] \in {"copy2", "rename"} /\ temp'[TempOf(v)] # Nothing => half'[temp'[TempOf(v)]][1] = Binary[v]
                 /\ stage'[v] = "rename" /\ temp'[TempOf(v)] # Nothing => half'[temp'[TempOf(v)]][2] = Binary[v]
      BY <2>2, <3>2, <3>3, <3>4, TempNames DEF Progress
    <3> QED BY <2>1, <2>3, <2>4, <3>2, <3>3, <3>4 DEF Progress
  <2> QED BY <1>6, <2>5, <2>6
<1>7. ASSUME NEW w \in Writers, CopyFails(w) \/ RenameFails(w) PROVE Rest'
  <2>1. \A v \in Writers : v # w /\ TempOf(v) = TempOf(w) => stage[v] \notin {"copy2", "rename"} /\ fd[v] = Nothing
    BY <1>1, <1>2, <1>7 DEF CopyFails, RenameFails, UnderWay
  <2>2. /\ temp' = [temp EXCEPT ![TempOf(w)] = Nothing] /\ stage' = [stage EXCEPT ![w] = "failed"]
        /\ fd' = [fd EXCEPT ![w] = Nothing] /\ UNCHANGED <<path, half>>
    BY <1>7 DEF CopyFails, RenameFails, Opened, Copying
  <2> QED BY <2>1, <2>2, TempNames DEF Exclusive, Progress, Whole
<1>8. ASSUME NEW w \in Writers, Rename(w) PROVE Rest'
  <2>1. fd[w] = Nothing /\ Whole(temp[TempOf(w)])
    BY <1>8, BinaryIsVersion DEF Rename, Opened, Progress, Whole, Copying
  <2>2. \A v \in Writers : v # w /\ TempOf(v) = TempOf(w) => stage[v] \notin {"copy2", "rename"} /\ fd[v] = Nothing
    BY <1>1, <1>2, <1>8 DEF Rename, UnderWay
  <2> QED BY <1>8, <2>1, <2>2, TempNames DEF Rename, Exclusive, Progress, Whole
<1>9. ASSUME NEW w \in Writers, WriterDies(w) PROVE Rest'
  BY <1>9 DEF WriterDies, Exclusive, Progress, Whole
<1>10. CASE UNCHANGED fileVars
  BY <1>10 DEF fileVars, Exclusive, Progress, Whole
<1> QED BY <1>3, <1>4, <1>5, <1>6, <1>7, <1>8, <1>9, <1>10 DEF ReplaceNext, Step

\* Once two restores have overlapped the history says so for ever.
LEMMA ReplaceStep == ReplaceInv /\ [ReplaceNext]_fileVars => ReplaceInv'
<1> SUFFICES ASSUME ReplaceInv, [ReplaceNext]_fileVars PROVE ReplaceInv'
  OBVIOUS
<1>1. ReplaceTypeOK' /\ Opened'
  BY ReplaceTypeStep DEF ReplaceInv
<1>2. ~overlapped' => ~overlapped
  BY DEF ReplaceNext, Step, InstallBegins, RemoveLeftover, Open, Copy, CopyFails, Rename, RenameFails, WriterDies, fileVars,
         ReplaceInv, ReplaceTypeOK
<1>3. ~overlapped' => Apiece'
  BY <1>2, ReplaceAloneStep, ReplaceApieceStep DEF ReplaceInv, Apiece
<1> QED BY <1>1, <1>3 DEF ReplaceInv

\* "RestoreBackup atomically overwrites installPath": whatever installs, restores and
\* deaths of processes come together, the install path holds one whole binary that
\* nobody has open for writing, until two restores have been under way at once.
THEOREM ReplaceSafety == ReplaceSpec => [](InstalledWhole /\ NobodyWritesInstalled)
<1>1. ReplaceInv => InstalledWhole /\ NobodyWritesInstalled
  <2>1. ReplaceInv => NobodyWritesInstalled
    BY TempNames DEF NobodyWritesInstalled, ReplaceInv, Apiece, Exclusive, ReplaceTypeOK
  <2> QED BY <2>1 DEF ReplaceInv, Apiece, InstalledWhole
<1> QED BY <1>1, ReplaceInvInit, ReplaceStep, PTL DEF ReplaceSpec
=============================================================================
