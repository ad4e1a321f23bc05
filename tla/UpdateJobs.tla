----------------------------- MODULE UpdateJobs -----------------------------
(***************************************************************************)
(* The self-update service inside phantom-lancer (internal/selfupdate):    *)
(* the job rows in SQLite, one goroutine per applied job, the HTTP         *)
(* handlers that apply, cancel and roll back, the files they change, and   *)
(* what a process does with all of it when it boots (ConfirmBoot, Ensure)  *)
(* and when it is asked to restart.                                        *)
(*                                                                         *)
(* A version is a number, a newer release a larger one. A backup file is   *)
(* named by the version it replaces and the second it was made in, so that *)
(* two jobs can come to the same name; a name is written here as the first *)
(* job that used it. Replacing the installed binary is one step;           *)
(* BinaryReplace looks inside it.                                          *)
(***************************************************************************)
EXTENDS Naturals, Sequences, SequencesExt

CONSTANTS
    Jobs,             \* update job ids
    Earlier,          \* name of the backup of a job before, which failed and left it behind
    Handlers,         \* concurrent HTTP requests
    Requests,         \* what clients ask for: a subset of {"apply", "cancel", "rollback"}
    MaxVersion,       \* newest release
    BackupRetention,  \* Config.BackupRetention
    HasSupervisor,    \* a phantom-supervisor binary sits next to the main one
    RestartMode,      \* Config.RestartMode
    RestartTimeout,   \* Config.RestartTimeout, in ticks
    MaxTroubles,      \* bound on binaries an operator copies in by hand, failed writes
                      \* (database row, handoff, fsync), panics and deaths of the process
    None

ASSUME UpdateConstants ==
    /\ Requests \subseteq {"apply", "cancel", "rollback"}
    /\ MaxVersion \in Nat \ {0} /\ BackupRetention \in Nat
    /\ HasSupervisor \in BOOLEAN
    /\ RestartMode \in {"exit", "self-exec", "none"}
    /\ RestartTimeout \in Nat \ {0}
    /\ MaxTroubles \in Nat
    /\ Earlier \notin Jobs /\ Earlier # None

Versions == 1 .. MaxVersion

VARIABLES
    rows,      \* system_update_jobs: the row of each job, None before it exists
    order,     \* jobs by created_at
    age,       \* ticks since the row's completed_at was set
    check,     \* latest row of system_update_checks
    task,      \* goroutine of each job: control point, its copy of the row, its context
    call,      \* request in each handler and the row it read
    files,     \* updates/backups, oldest modification time first
    named,     \* name each job has given to its backup; a row that says j means that name
    installed, \* version at the install path
    handoff,   \* update-handoff.json
    handoffAge,
    proc,      \* where main() is
    running,   \* version of the running process
    restart,   \* restartRequested has a token
    selfExec,  \* selfExecPath is set
    troubles   \* deploys, faults and crashes so far; history: jobs have overlapped

store == <<rows, order, age, check>>
disk  == <<files, named, installed, handoff, handoffAge>>
main  == <<proc, running, restart, selfExec>>
vars  == <<store, task, call, disk, main, troubles>>

Active == {"queued", "running", "restarting"}
Row == [status : Active \cup {"completed", "failed", "cancelled"},
        phase  : {"created", "downloading", "verifying", "extracting", "installing", "restarting", "completed"},
        target : Versions,
        backup : Jobs \cup {None},   \* backup_binary_path
        rolled : BOOLEAN]            \* error_message says "rollback applied"
Handoff == [job : Jobs, backup : Jobs \cup {None}]

ASSUME NoneIsNothing == None \notin Jobs \cup Row \cup Handoff

ActiveJobs == {j \in Jobs : rows[j] # None /\ rows[j].status \in Active}
NoRow  == [status |-> "queued", phase |-> "created", target |-> 1, backup |-> None, rolled |-> FALSE]
NoTask == [pc |-> "none", job |-> NoRow, cancelled |-> FALSE]
Idle   == [op |-> "idle", job |-> None, row |-> NoRow]

Backups(j) == {i \in DOMAIN files : files[i].name = named[j] /\ files[i].kind = "main"}
BackupExists(j) == j # None /\ Backups(j) # {}
BackupVersion(j) == files[CHOOSE i \in Backups(j) : TRUE].version

Bump(n, cap) == IF n < cap THEN n + 1 ELSE cap
Spend(kind) ==
    /\ troubles.deploys + troubles.faults + troubles.crashes < MaxTroubles
    /\ troubles' = [troubles EXCEPT ![kind] = @ + 1]

\* The copies of one install; Earlier's are from a job that failed before it saved
\* its row, which nothing can change any more.
Copies(name, version) ==
    LET copy(kind) == [name |-> name, kind |-> kind, version |-> version]
    IN  IF HasSupervisor THEN <<copy("main"), copy("supervisor")>> ELSE <<copy("main")>>

Init ==
    /\ rows = [j \in Jobs |-> None] /\ order = <<>> /\ age = [j \in Jobs |-> 0]
    /\ check = [current |-> 1, latest |-> 1, canApply |-> FALSE]
    /\ task = [j \in Jobs |-> NoTask]
    /\ call = [h \in Handlers |-> Idle]
    /\ \E v \in Versions : files \in {<<>>, Copies(Earlier, v)}
    /\ named = [j \in Jobs |-> None]
    /\ installed = 1 /\ handoff = None /\ handoffAge = 0
    /\ proc = "down" /\ running = 1 /\ restart = FALSE /\ selfExec = FALSE
    /\ troubles = [deploys |-> 0, faults |-> 0, crashes |-> 0, overlapped |-> FALSE]

\* Somebody works on a job, or its restart is still to come.
Rolling == {"rollbackRead", "rollbackRestored", "rollbackSaved"}
AtWork(j) ==
    /\ rows[j] # None
    /\ \/ rows[j].status \in Active
       \/ task[j].pc \notin {"none", "end"}
       \/ \E h \in Handlers : call[h].op \in Rolling \cup {"applyCreated"} /\ call[h].job = j

\* Work on a job begins; nothing in the code keeps it apart from work on another.
Begin(j) ==
    troubles' = [troubles EXCEPT !.overlapped =
                    @ \/ \E k \in Jobs \ {j} : rows[k] # None /\ (restart \/ AtWork(k))]

\* SaveSystemUpdateJob overwrites the whole row, whatever it holds by now.
Save(j, row) == rows' = [rows EXCEPT ![j] = row]
\* A save that also stamps completed_at.
SaveEnded(j, row) == Save(j, row) /\ age' = [age EXCEPT ![j] = 0]

-----------------------------------------------------------------------------
\* Check: a release answer describes the running build, an error stores a row without
\* a release, and 304 keeps the old row.
NoRelease == 0

Check ==
    /\ proc = "serving"
    /\ \/ check' = [current |-> running, latest |-> MaxVersion, canApply |-> running < MaxVersion]
       \/ check' = [current |-> running, latest |-> NoRelease, canApply |-> FALSE]
    /\ UNCHANGED <<rows, order, age, task, call, disk, main, troubles>>

(***************************************************************************)
(* Apply: look for an active job, look at the latest check, insert the     *)
(* row, then register the cancel function and start the goroutine.         *)
(***************************************************************************)
ApplyCheck(h) ==
    /\ "apply" \in Requests /\ proc = "serving" /\ call[h] = Idle
    /\ ActiveJobs = {} /\ check.canApply
    /\ call' = [call EXCEPT ![h] = [Idle EXCEPT !.op = "applyChecked",
                                                !.row = [NoRow EXCEPT !.target = check.latest]]]
    /\ UNCHANGED <<store, task, disk, main, troubles>>

ApplyCreate(h, j) ==
    /\ call[h].op = "applyChecked" /\ rows[j] = None
    /\ Save(j, call[h].row)
    /\ order' = Append(order, j)
    /\ call' = [call EXCEPT ![h].op = "applyCreated", ![h].job = j]
    /\ Begin(j)
    /\ UNCHANGED <<age, check, task, disk, main>>

ApplySpawn(h) ==
    /\ call[h].op = "applyCreated"
    /\ task' = [task EXCEPT ![call[h].job] = [NoTask EXCEPT !.pc = "spawned"]]
    /\ call' = [call EXCEPT ![h] = Idle]
    /\ UNCHANGED <<store, disk, main, troubles>>

(***************************************************************************)
(* run and execute: the goroutine works on its own copy of the row and     *)
(* saves it under its cancellable context at every phase.                  *)
(***************************************************************************)
Load(j) ==
    /\ task[j].pc = "spawned"
    /\ LET row == [rows[j] EXCEPT !.status = "running"]
       IN  Save(j, row) /\ task' = [task EXCEPT ![j].pc = "loaded", ![j].job = row]
    /\ UNCHANGED <<order, age, check, call, disk, main, troubles>>

SavePhase(j, from, phase) ==
    /\ task[j].pc = from /\ ~task[j].cancelled
    /\ LET row == [task[j].job EXCEPT !.phase = phase]
       IN  Save(j, row) /\ task' = [task EXCEPT ![j].pc = phase, ![j].job = row]
    /\ UNCHANGED <<order, age, check, call, disk, main, troubles>>

\* install, first half: the database backup obeys the context, then the current
\* binaries are copied away. Within the second of the newest backup the name is that
\* one's, and copyFile writes over it.
BackupBinary(j) ==
    /\ task[j].pc = "installing" /\ ~task[j].cancelled
    /\ \E name \in {j} \cup {files[i].name : i \in DOMAIN files}, kept \in 0 .. Len(files) :
        /\ \A i \in DOMAIN files : files[i].name = name <=> i > kept
        /\ files' = SubSeq(files, 1, kept) \o Copies(name, installed)
        /\ named' = [named EXCEPT ![j] = name]
    /\ task' = [task EXCEPT ![j].pc = "backedUp"]
    /\ UNCHANGED <<store, call, installed, handoff, handoffAge, main, troubles>>

\* The rename: from here to the next save nothing looks at the context.
ReplaceBinary(j) ==
    /\ task[j].pc = "backedUp"
    /\ installed' = task[j].job.target
    /\ task' = [task EXCEPT ![j].pc = "replaced"]
    /\ UNCHANGED <<store, call, files, named, handoff, handoffAge, main, troubles>>

PruneOneTooMany(j) ==
    /\ task[j].pc = "replaced"
    /\ files' = IF BackupRetention = 0 \/ Len(files) < BackupRetention THEN files
                ELSE SubSeq(files, Len(files) - BackupRetention + 2, Len(files))
    /\ task' = [task EXCEPT ![j].pc = "pruned", ![j].job.backup = j]
    /\ UNCHANGED <<store, call, named, installed, handoff, handoffAge, main, troubles>>

BackupNotRecorded(j) ==
    /\ task[j].pc = "replaced"
    /\ task' = [task EXCEPT ![j].pc = "pruned"]
    /\ UNCHANGED <<store, call, disk, main, troubles>>

\* pruneBackups counts main and supervisor copies alike and drops the oldest.
PruneBackups(j) ==
    /\ task[j].pc = "replaced"
    /\ files' = IF BackupRetention = 0 \/ Len(files) <= BackupRetention THEN files
                ELSE SubSeq(files, Len(files) - BackupRetention + 1, Len(files))
    /\ task' = [task EXCEPT ![j].pc = "pruned", ![j].job.backup = j]
    /\ UNCHANGED <<store, call, named, installed, handoff, handoffAge, main, troubles>>

SaveInstalled(j) ==
    /\ task[j].pc = "pruned" /\ ~task[j].cancelled
    /\ Save(j, task[j].job)
    /\ task' = [task EXCEPT ![j].pc = "installSaved"]
    /\ UNCHANGED <<order, age, check, call, disk, main, troubles>>

SaveRestarting(j) ==
    /\ task[j].pc = "installSaved" /\ ~task[j].cancelled
    /\ LET row == [task[j].job EXCEPT !.status = "restarting", !.phase = "restarting"]
       IN  SaveEnded(j, row) /\ task' = [task EXCEPT ![j].pc = "dispatch", ![j].job = row]
    /\ UNCHANGED <<order, check, call, disk, main, troubles>>

\* dispatchRestart: the handoff goes to disk before the restart is requested; a
\* handoff that cannot be written is only logged.
WriteHandoff(j) == handoff' = [job |-> j, backup |-> j] /\ handoffAge' = 0

RequestRestart ==
    /\ restart' = (restart \/ RestartMode \in {"exit", "self-exec"})
    /\ selfExec' = (selfExec \/ RestartMode = "self-exec")
    /\ UNCHANGED <<proc, running>>

RestartThenHandoff(j) ==
    /\ task[j].pc = "dispatch"
    /\ IF restart
       THEN WriteHandoff(j) /\ task' = [task EXCEPT ![j].pc = "end"] /\ UNCHANGED main
       ELSE RequestRestart /\ UNCHANGED <<handoff, handoffAge, task>>
    /\ UNCHANGED <<store, call, files, named, installed, troubles>>

Dispatch(j) ==
    /\ task[j].pc = "dispatch"
    /\ \/ WriteHandoff(j) /\ UNCHANGED troubles
       \/ Spend("faults") /\ UNCHANGED <<handoff, handoffAge>>
    /\ RequestRestart
    /\ task' = [task EXCEPT ![j].pc = "end"]
    /\ UNCHANGED <<store, call, files, named, installed>>

\* Every step between Load and the restart can fail; run records it and ends. The
\* context may have been cancelled by then, which takes precedence.
Working == {"loaded", "downloading", "verifying", "extracting", "installing", "backedUp"}

Abort(j) ==
    /\ task[j].cancelled
    /\ \/ task[j].pc \in Working \cup {"pruned", "installSaved"} /\ UNCHANGED troubles
       \/ task[j].pc = "replaced" /\ Spend("faults")
    /\ SaveEnded(j, [task[j].job EXCEPT !.status = "cancelled"])
    /\ task' = [task EXCEPT ![j].pc = "end"]
    /\ UNCHANGED <<order, check, call, disk, main>>

Fail(j) ==
    /\ \/ task[j].pc \in Working /\ UNCHANGED troubles
       \/ task[j].pc \in {"replaced", "pruned", "installSaved"} /\ Spend("faults")
    /\ ~task[j].cancelled
    /\ SaveEnded(j, [task[j].job EXCEPT !.status = "failed"])
    /\ task' = [task EXCEPT ![j].pc = "end"]
    /\ UNCHANGED <<order, check, call, disk, main>>

\* The panic fence reloads the row instead of trusting the goroutine's copy.
Panic(j) ==
    /\ task[j].pc \in Working \cup {"spawned"} /\ Spend("crashes")
    /\ SaveEnded(j, [rows[j] EXCEPT !.status = "failed"])
    /\ task' = [task EXCEPT ![j].pc = "end"]
    /\ UNCHANGED <<order, check, call, disk, main>>

\* The error of the last save is ignored: the row keeps what it had.
EndUnsaved(j) ==
    /\ task[j].pc \notin {"none", "end"} /\ Spend("faults")
    /\ task' = [task EXCEPT ![j].pc = "end"]
    /\ UNCHANGED <<store, call, disk, main>>

-----------------------------------------------------------------------------
(***************************************************************************)
(* Cancel: read and judge the row, cancel the context, write back the row  *)
(* that was read. The save of a request fails when its client has left.    *)
(***************************************************************************)

CancelRead(h, j) ==
    /\ "cancel" \in Requests /\ proc = "serving" /\ call[h] = Idle /\ rows[j] # None
    /\ rows[j].phase \notin {"installing", "restarting"} /\ rows[j].status # "completed"
    /\ call' = [call EXCEPT ![h] = [op |-> "cancelRead", job |-> j, row |-> rows[j]]]
    /\ UNCHANGED <<store, task, disk, main, troubles>>

CancelSignal(h) ==
    /\ call[h].op = "cancelRead"
    /\ task' = [task EXCEPT ![call[h].job].cancelled = @ \/ task[call[h].job].pc \notin {"none", "end"}]
    /\ call' = [call EXCEPT ![h].op = "cancelSignalled"]
    /\ UNCHANGED <<store, disk, main, troubles>>

CancelSave(h) ==
    /\ call[h].op = "cancelSignalled"
    /\ \/ SaveEnded(call[h].job, [call[h].row EXCEPT !.status = "cancelled"])
       \/ UNCHANGED <<rows, age>>
    /\ call' = [call EXCEPT ![h] = Idle]
    /\ UNCHANGED <<order, check, task, disk, main, troubles>>

(***************************************************************************)
(* Rollback: put the backup in place, note it on the row that was read,    *)
(* and the first time leave a handoff and ask for a restart.               *)
(***************************************************************************)
RollbackRead(h, j) ==
    /\ "rollback" \in Requests /\ proc = "serving" /\ call[h] = Idle /\ rows[j] # None
    /\ rows[j].status \notin Active /\ BackupExists(rows[j].backup)
    /\ call' = [call EXCEPT ![h] = [op |-> "rollbackRead", job |-> j, row |-> rows[j]]]
    /\ Begin(j)
    /\ UNCHANGED <<store, task, disk, main>>

RollbackRestore(h) ==
    /\ call[h].op = "rollbackRead"
    /\ \/ /\ BackupExists(call[h].row.backup)
          /\ installed' = BackupVersion(call[h].row.backup)
          /\ call' = [call EXCEPT ![h].op = "rollbackRestored"]
       \/ UNCHANGED installed /\ call' = [call EXCEPT ![h] = Idle]
    /\ UNCHANGED <<store, task, files, named, handoff, handoffAge, main, troubles>>

RollbackSave(h) ==
    /\ call[h].op = "rollbackRestored"
    /\ \/ /\ SaveEnded(call[h].job, [call[h].row EXCEPT !.rolled = TRUE])
          /\ call' = [call EXCEPT ![h] = IF @.row.rolled THEN Idle ELSE [@ EXCEPT !.op = "rollbackSaved"]]
       \/ UNCHANGED <<rows, age>> /\ call' = [call EXCEPT ![h] = Idle]
    /\ UNCHANGED <<order, check, task, disk, main, troubles>>

RollbackDispatch(h) ==
    /\ call[h].op = "rollbackSaved"
    /\ \/ /\ handoff' = [job |-> call[h].job, backup |-> call[h].row.backup] /\ handoffAge' = 0
          /\ UNCHANGED troubles
       \/ Spend("faults") /\ UNCHANGED <<handoff, handoffAge>>
    /\ RequestRestart
    /\ call' = [call EXCEPT ![h] = Idle]
    /\ UNCHANGED <<store, task, files, named, installed>>

-----------------------------------------------------------------------------
(***************************************************************************)
(* The process. Whatever ends it also ends its goroutines and requests.    *)
(***************************************************************************)
Lose == task' = [j \in Jobs |-> NoTask] /\ call' = [h \in Handlers |-> Idle]

Boot ==
    /\ proc' = "booting" /\ running' = installed
    /\ restart' = FALSE /\ selfExec' = FALSE

StartProcess ==
    /\ proc = "down" /\ Boot
    /\ UNCHANGED <<store, task, call, disk, troubles>>

\* reconcileManualUpgradeMetadata does nothing while a job is active.
Reconciled ==
    IF ActiveJobs # {} \/ check.current = running THEN check
    ELSE IF check.latest # NoRelease /\ running > check.latest THEN [current |-> running, latest |-> running, canApply |-> FALSE]
    ELSE [check EXCEPT !.current = running]

Latest == IF order = <<>> THEN None ELSE Last(order)
Pending == Latest # None /\ rows[Latest].status = "restarting"
TimedOut == age[Latest] > RestartTimeout

\* ConfirmBoot with nothing to confirm, or with the update it was waiting for.
ConfirmIdle ==
    /\ proc = "booting" /\ ~Pending
    /\ check' = Reconciled /\ proc' = "confirmed"
    /\ UNCHANGED <<rows, order, age, task, call, disk, running, restart, selfExec, troubles>>

ConfirmTarget ==
    /\ proc = "booting" /\ Pending /\ rows[Latest].target = running
    /\ SaveEnded(Latest, [rows[Latest] EXCEPT !.status = "completed", !.phase = "completed"])
    /\ check' = Reconciled /\ proc' = "confirmed"
    /\ UNCHANGED <<order, task, call, disk, running, restart, selfExec, troubles>>

\* The wrong version came up: fail the job; past the watchdog restore the backup
\* first and execute it.
MismatchRestores ==
    /\ proc = "booting" /\ Pending /\ rows[Latest].target # running
    /\ TimedOut /\ BackupExists(rows[Latest].backup)
    /\ installed' = BackupVersion(rows[Latest].backup)
    /\ SaveEnded(Latest, [rows[Latest] EXCEPT !.status = "failed"])
    /\ check' = Reconciled /\ proc' = "rollbackExec"
    /\ UNCHANGED <<order, task, call, files, named, handoff, handoffAge, running, restart, selfExec, troubles>>

MismatchFails ==
    /\ proc = "booting" /\ Pending /\ rows[Latest].target # running
    /\ IF TimedOut /\ BackupExists(rows[Latest].backup) THEN Spend("faults") ELSE UNCHANGED troubles
    /\ SaveEnded(Latest, [rows[Latest] EXCEPT !.status = "failed"])
    /\ check' = Reconciled /\ proc' = "confirmed"
    /\ UNCHANGED <<order, task, call, disk, running, restart, selfExec>>

\* The row cannot be saved: ConfirmBoot goes on as if it had been.
ConfirmUnsaved ==
    /\ proc = "booting" /\ Pending /\ Spend("faults")
    /\ IF rows[Latest].target # running /\ TimedOut /\ BackupExists(rows[Latest].backup)
       THEN installed' = BackupVersion(rows[Latest].backup) /\ proc' = "rollbackExec"
       ELSE UNCHANGED installed /\ proc' = "confirmed"
    /\ check' = Reconciled
    /\ UNCHANGED <<rows, order, age, task, call, files, named, handoff, handoffAge, running, restart, selfExec>>

\* The deferred deleteHandoff, then Ensure (after the other services' Ensure), or
\* the execution of the restored binary.
DeleteHandoff ==
    /\ proc \in {"confirmed", "rollbackExec"}
    /\ handoff' = None /\ handoffAge' = 0
    /\ IF proc = "confirmed"
       THEN proc' = "ensuring" /\ UNCHANGED <<running, restart, selfExec>>
       ELSE Boot
    /\ UNCHANGED <<store, task, call, files, named, installed, troubles>>

EnsureRunningOnly ==
    /\ proc = "ensuring" /\ proc' = "serving"
    /\ rows' = [j \in Jobs |-> IF rows[j] # None /\ rows[j].status = "running"
                               THEN [rows[j] EXCEPT !.status = "failed"] ELSE rows[j]]
    /\ UNCHANGED <<order, age, check, task, call, disk, running, restart, selfExec, troubles>>

Ensure ==
    /\ proc = "ensuring" /\ proc' = "serving"
    /\ LET stale == {j \in Jobs : rows[j] # None /\ rows[j].status \in {"queued", "running"}}
       IN  /\ rows' = [j \in Jobs |-> IF j \in stale THEN [rows[j] EXCEPT !.status = "failed"] ELSE rows[j]]
           /\ age' = [j \in Jobs |-> IF j \in stale THEN 0 ELSE age[j]]
    /\ UNCHANGED <<order, check, task, call, disk, running, restart, selfExec, troubles>>

\* main() takes the restart token: self-exec when a path was prepared, else exit.
Restart ==
    /\ proc = "serving" /\ restart
    /\ \/ selfExec /\ Boot
       \/ proc' = "down" /\ UNCHANGED <<running, restart, selfExec>>
    /\ Lose
    /\ UNCHANGED <<store, disk, troubles>>

\* SIGTERM from the operator, the only restart in mode "none".
Stop ==
    /\ proc = "serving" /\ proc' = "down"
    /\ Lose
    /\ UNCHANGED <<store, disk, running, restart, selfExec, troubles>>

Crash ==
    /\ proc # "down" /\ proc' = "down" /\ Spend("crashes")
    /\ Lose
    /\ UNCHANGED <<store, disk, running, restart, selfExec>>

Deploy(v) ==
    /\ installed' = v /\ Spend("deploys")
    /\ UNCHANGED <<store, task, call, files, named, handoff, handoffAge, main>>

Tick ==
    /\ age' = [j \in Jobs |-> IF rows[j] # None /\ rows[j].status = "restarting"
                              THEN Bump(age[j], RestartTimeout + 1) ELSE age[j]]
    /\ handoffAge' = IF handoff = None THEN 0 ELSE Bump(handoffAge, RestartTimeout)
    /\ UNCHANGED <<rows, order, check, task, call, files, named, installed, handoff, main, troubles>>

-----------------------------------------------------------------------------
Execute(j) ==
    \/ Load(j)
    \/ SavePhase(j, "loaded", "downloading") \/ SavePhase(j, "downloading", "verifying")
    \/ SavePhase(j, "verifying", "extracting") \/ SavePhase(j, "extracting", "installing")
    \/ BackupBinary(j) \/ ReplaceBinary(j) \/ PruneBackups(j)
    \/ SaveInstalled(j) \/ SaveRestarting(j) \/ Dispatch(j)
    \/ Abort(j) \/ Fail(j) \/ Panic(j) \/ EndUnsaved(j)

Handle(h) ==
    \/ ApplyCheck(h) \/ ApplySpawn(h)
    \/ \E j \in Jobs : ApplyCreate(h, j) \/ CancelRead(h, j) \/ RollbackRead(h, j)
    \/ CancelSignal(h) \/ CancelSave(h)
    \/ RollbackRestore(h) \/ RollbackSave(h) \/ RollbackDispatch(h)

ConfirmBoot == ConfirmIdle \/ ConfirmTarget \/ MismatchRestores \/ MismatchFails \/ ConfirmUnsaved
BootSteps == ConfirmBoot \/ DeleteHandoff \/ Ensure

Next ==
    \/ \E j \in Jobs : Execute(j)
    \/ \E h \in Handlers : Handle(h)
    \/ StartProcess \/ BootSteps \/ Restart \/ Stop
    \/ Check \/ Crash \/ Tick \/ \E v \in Versions : Deploy(v)

Spec == Init /\ [][Next]_vars

-----------------------------------------------------------------------------
Labels == Working \cup {"none", "spawned", "replaced", "pruned", "installSaved", "dispatch", "end"}
TaskStates == [pc : Labels, job : Row, cancelled : BOOLEAN]
CallStates == [op : {"idle", "applyChecked", "applyCreated", "cancelRead", "cancelSignalled"} \cup Rolling,
               job : Jobs \cup {None}, row : Row]
Files    == [name : Jobs \cup {Earlier}, kind : {"main", "supervisor"}, version : Versions]
Troubles == [deploys : 0 .. MaxTroubles, faults : 0 .. MaxTroubles, crashes : 0 .. MaxTroubles, overlapped : BOOLEAN]

\* Every variable has its type; troubles never exceed their bound.
TypeOK ==
    /\ rows \in [Jobs -> Row \cup {None}] /\ order \in Seq(Jobs)
    /\ age \in [Jobs -> 0 .. RestartTimeout + 1]
    /\ check \in [current : Versions, latest : Versions \cup {NoRelease}, canApply : BOOLEAN]
    /\ task \in [Jobs -> TaskStates] /\ call \in [Handlers -> CallStates]
    /\ files \in Seq(Files) /\ named \in [Jobs -> Jobs \cup {Earlier, None}] /\ installed \in Versions
    /\ handoff \in Handoff \cup {None} /\ handoffAge \in 0 .. RestartTimeout
    /\ proc \in {"down", "booting", "confirmed", "rollbackExec", "ensuring", "serving"}
    /\ running \in Versions /\ restart \in BOOLEAN /\ selfExec \in BOOLEAN
    /\ troubles \in Troubles

\* The panic fence and Ensure exist so that no row stays queued or running with
\* nobody working on it, which would block Apply for ever: while requests are served
\* and no write has failed, each such row has a live goroutine or the Apply that is
\* about to start it, whatever Cancel and Rollback write over it.
ActiveHasOwner ==
    proc = "serving" /\ troubles.faults = 0 =>
        \A j \in Jobs : rows[j] # None /\ rows[j].status \in {"queued", "running"} =>
            \/ task[j].pc \notin {"none", "end"}
            \/ \E h \in Handlers : call[h].op = "applyCreated" /\ call[h].job = j

\* The retention leaves room for the copies of one install. The configuration accepts
\* any number from 0 (nothing is pruned), 3 by default.
KeepsOwnBackup == BackupRetention = 0 \/ BackupRetention >= (IF HasSupervisor THEN 2 ELSE 1)

\* A job that waits for its restart can be undone, although its install has pruned
\* older backups and its backup may have taken the name of one: the backup its row
\* names is on disk, if the retention leaves room for it and unless work on two jobs
\* has overlapped, and the first job's holds the version that was running when it
\* installed its own, unless an operator replaced the binary by hand meanwhile.
RestartingCanBeUndone ==
    KeepsOwnBackup /\ ~troubles.overlapped => \A j \in Jobs : rows[j] # None /\ rows[j].status = "restarting" =>
        /\ BackupExists(rows[j].backup)
        /\ proc = "serving" /\ task[j].pc # "none" /\ troubles.deploys = 0 /\ order = <<j>> =>
            BackupVersion(rows[j].backup) = running

\* "Write the handoff marker BEFORE dispatching the restart": a process never goes
\* down on a restart request without a handoff on disk whose backup exists, if the
\* retention leaves room for it, unless a write has failed or work on two jobs has
\* overlapped.
RestartHasHandoff ==
    restart /\ KeepsOwnBackup /\ troubles.faults = 0 /\ ~troubles.overlapped => handoff # None /\ BackupExists(handoff.backup)

\* "Before every update a backup of the old binary is kept"
\* (docs/self-update-feature-design.md:285), whatever the retention.
OldBinaryKept ==
    ~troubles.overlapped => \A j \in Jobs : rows[j] # None /\ rows[j].status = "restarting" => BackupExists(rows[j].backup)

\* The parts of a row agree whichever writer, request or boot wrote it last: a row
\* waits for a restart, is completed or rolled back only after its backup was
\* recorded, and names no backup before it installs.
RowsAgree ==
    \A j \in Jobs : rows[j] # None =>
        /\ rows[j].status = "restarting" => rows[j].phase = "restarting"
        /\ rows[j].status = "completed" => rows[j].phase = "completed"
        /\ rows[j].status \in {"restarting", "completed"} => rows[j].backup # None
        /\ rows[j].phase \in {"created", "downloading", "verifying", "extracting"} => rows[j].backup = None
        /\ rows[j].rolled => rows[j].backup # None

\* Cancel is refused once a job installs: a cancelled job, when it is the only one
\* there ever was, has left the installed binary alone.
CancelledNotInstalled ==
    \A j \in Jobs : rows[j] # None /\ rows[j].status = "cancelled" /\ order = <<j>> =>
        installed # rows[j].target

\* "Reconcile persisted version metadata with the actual running binary": after a
\* completed update the panel shows the version that serves it.
CheckShowsRunning ==
    proc = "serving" /\ ~Pending /\ Latest # None /\ rows[Latest].status = "completed" /\ ~rows[Latest].rolled
        => check.current = running

-----------------------------------------------------------------------------
(***************************************************************************)
(* Fairness: goroutines, handlers and main() keep running, and somebody    *)
(* (supervisor, systemd, operator) starts the process again.               *)
(***************************************************************************)
Fairness ==
    /\ \A j \in Jobs : WF_vars(Execute(j))
    /\ \A h \in Handlers : WF_vars(call[h] # Idle /\ Handle(h))
    /\ WF_vars(StartProcess) /\ WF_vars(BootSteps) /\ WF_vars(Restart)

FairSpec == Spec /\ Fairness

\* Every job settles: queued, running and restarting all end, with requests, crashes
\* and restarts in between, so that Apply is never blocked for good. A write that
\* failed may leave a row to the next boot.
JobsSettle == \A j \in Jobs : j \in ActiveJobs ~> (j \notin ActiveJobs \/ troubles.faults > 0)
=============================================================================
