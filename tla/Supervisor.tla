----------------------------- MODULE Supervisor -----------------------------
(***************************************************************************)
(* phantom-supervisor (internal/supervisor, cmd/phantom-supervisor): the   *)
(* process that owns the flock, keeps one phantom-lancer child running,    *)
(* backs off between restarts and, while an update handoff lies on disk,   *)
(* restores the backup binary after repeated short-lived boots or once the *)
(* handoff has expired.                                                    *)
(*                                                                         *)
(* Time is counted in ticks that saturate at the largest value the code    *)
(* compares with; a restart delay is remembered as the value BackoffStep   *)
(* chose and the sleep itself may last any number of ticks.                *)
(*                                                                         *)
(* The commands start and stop of scripts/manage.sh launch and signal the  *)
(* supervisor and write and remove its PID file as well; restart is stop   *)
(* and then start. Others (systemd, start.sh by hand) only launch it.      *)
(***************************************************************************)
EXTENDS Naturals, Sequences, FiniteSets

CONSTANTS
    Sups,               \* supervisor processes started over the life of the host
    Pids,               \* process ids available to children
    Scripts,            \* runs of scripts/manage.sh that can overlap
    Jobs,               \* update jobs a handoff can name
    Versions,           \* binaries that can be at the install path
    FastFailThreshold,  \* HandoffFastFailThreshold
    FastFailMaxUptime,  \* HandoffFastFailMaxUptime, in ticks
    StableAfter,        \* Config.StableAfter, in ticks
    RestartTimeout,     \* HandoffFile.timeout, in ticks
    MinDelay, MaxDelay, \* Config.RestartMinDelay, Config.RestartMaxDelay
    MaxCrashes,         \* bound on supervisor crashes
    None,               \* no process, no handoff, no job, no path
    Garbled             \* a handoff file the supervisor cannot use

ASSUME SupervisorConstants ==
    /\ FastFailThreshold \in Nat \ {0}
    /\ FastFailMaxUptime \in Nat \ {0}
    /\ StableAfter \in Nat
    /\ RestartTimeout \in Nat \ {0}
    /\ MinDelay \in Nat /\ MaxDelay \in Nat
    /\ MaxCrashes \in Nat
    /\ None \notin Sups \cup Pids \cup Jobs \cup Versions

VARIABLES
    lock,         \* holder of the flock on LockFile
    pidFile,      \* supervisor named by SupervisorPIDFile
    childPidFile, \* process named by ChildPIDFile
    pc,           \* control point of each supervisor's Bootstrap / Run
    term,         \* the context of Run has been cancelled (SIGTERM, SIGINT)
    child,        \* pid of the child the supervisor started last
    proc,         \* operating system state of each child process
    uptime,       \* ticks each child process has been running
    attempts,     \* BackoffTracker.attempts
    delay,        \* last value returned by NextDelay
    fastFail,     \* Supervisor.fastFailCount
    lastJob,      \* Supervisor.lastHandoffJob
    handoff,      \* update-handoff.json
    age,          \* ticks since handoff.requestedAt
    installed,    \* binary at the install path
    crashes,      \* supervisor crashes so far
    script,       \* where each manage.sh is, and the supervisor it has read or launched
    crossed       \* history: a launch or a manage.sh has met another one not yet done

tally   == <<attempts, delay, fastFail, lastJob>>
supVars == <<pc, term, child, tally>>
files   == <<pidFile, childPidFile>>
update  == <<handoff, age, installed>>
manage  == <<script, crossed>>
vars    == <<lock, files, supVars, proc, uptime, update, crashes, manage>>

(***************************************************************************)
(* BackoffStep: the fixed delay table, clamped to [MinDelay, MaxDelay].    *)
(***************************************************************************)
DelayTable == <<1, 2, 5, 10, 30>>

BackoffStep(attempt) ==
    LET entry == DelayTable[IF attempt > Len(DelayTable) THEN Len(DelayTable) ELSE attempt]
        low   == IF MinDelay > 0 /\ entry < MinDelay THEN MinDelay ELSE entry
    IN  IF attempt = 0 THEN 0
        ELSE IF MaxDelay > 0 /\ low > MaxDelay THEN MaxDelay ELSE low

\* The counter past the end of the table makes no difference to any delay.
Bump(n, cap) == IF n < cap THEN n + 1 ELSE cap

UptimeCap == IF StableAfter + 1 > FastFailMaxUptime THEN StableAfter + 1 ELSE FastFailMaxUptime

\* ReadHandoff: a file that is Garbled (malformed, or of another schema) gives an
\* error or no handoff, which has the same effect as None.
Handoffs   == [job : Jobs, backup : Versions \cup {None}]
HandoffJob == IF handoff \in Handoffs THEN handoff.job ELSE None

\* IsExpired; a stamp that does not parse is an age at the limit from the start.
Expired == age >= RestartTimeout

Idle        == [at |-> "idle", sup |-> None]
Starting(s) == pc[s] \in {"boot", "locked"}
UnderWay    == \E m \in Scripts : script[m] # Idle

-----------------------------------------------------------------------------
Init ==
    /\ lock = None /\ pidFile = None /\ childPidFile = None
    /\ pc = [s \in Sups |-> "off"]
    /\ term = [s \in Sups |-> FALSE]
    /\ child = [s \in Sups |-> None]
    /\ proc = [p \in Pids |-> "free"]
    /\ uptime = [p \in Pids |-> 0]
    /\ attempts = [s \in Sups |-> 0]
    /\ delay = [s \in Sups |-> 0]
    /\ fastFail = [s \in Sups |-> 0]
    /\ lastJob = [s \in Sups |-> None]
    /\ handoff = None /\ age = 0
    /\ installed \in Versions
    /\ crashes = 0
    /\ script = [m \in Scripts |-> Idle] /\ crossed = FALSE

Goto(s, label) == pc' = [pc EXCEPT ![s] = label]

(***************************************************************************)
(* Bootstrap: take the lock without waiting, then write the PID file; a    *)
(* failed write gives the lock back. A held lock makes the process exit.   *)
(***************************************************************************)
Launched(s) == pc[s] = "off" /\ Goto(s, "boot")

\* What a process kept in memory goes with it.
Exits(s) ==
    /\ Goto(s, "off")
    /\ term' = [term EXCEPT ![s] = FALSE]
    /\ child' = [child EXCEPT ![s] = None]
    /\ attempts' = [attempts EXCEPT ![s] = 0]
    /\ delay' = [delay EXCEPT ![s] = 0]
    /\ fastFail' = [fastFail EXCEPT ![s] = 0]
    /\ lastJob' = [lastJob EXCEPT ![s] = None]

\* Launched by anything but manage.sh.
Launch(s) ==
    /\ Launched(s)
    /\ crossed' = (crossed \/ UnderWay)
    /\ UNCHANGED <<lock, files, term, child, tally, proc, uptime, update, crashes, script>>

FlockShared(s) == lock' = s
Flock(s) == lock = None /\ lock' = s

AcquireLock(s) ==
    /\ pc[s] = "boot" /\ Flock(s)
    /\ Goto(s, "locked")
    /\ UNCHANGED <<files, term, child, tally, proc, uptime, update, crashes, manage>>

LockHeldByOther(s) ==
    /\ pc[s] = "boot" /\ lock # None
    /\ Exits(s)
    /\ UNCHANGED <<lock, files, proc, uptime, update, crashes, manage>>

WriteSupervisorPid(s) ==
    /\ pc[s] = "locked"
    /\ pidFile' = s
    /\ Goto(s, "top")
    /\ UNCHANGED <<lock, childPidFile, term, child, tally, proc, uptime, update, crashes, manage>>

\* The sync of the directory may fail when the new file is already in place.
PidWriteFails(s) ==
    /\ pc[s] = "locked"
    /\ pidFile' \in {pidFile, s}
    /\ lock' = None
    /\ Exits(s)
    /\ UNCHANGED <<childPidFile, proc, uptime, update, crashes, manage>>

(***************************************************************************)
(* The top of the Run loop and startChild. The child exists before its PID *)
(* file does, and the waiter goroutine starts after both.                  *)
(***************************************************************************)
Spawn(s, p) ==
    /\ pc[s] = "top" /\ ~term[s] /\ proc[p] = "free"
    /\ proc' = [proc EXCEPT ![p] = "alive"]
    /\ uptime' = [uptime EXCEPT ![p] = 0]
    /\ child' = [child EXCEPT ![s] = p]
    /\ Goto(s, "started")
    /\ UNCHANGED <<lock, files, term, tally, update, crashes, manage>>

WriteChildPid(s) ==
    /\ pc[s] = "started"
    /\ childPidFile' = child[s]
    /\ Goto(s, "wait")
    /\ UNCHANGED <<lock, pidFile, term, child, tally, proc, uptime, update, crashes, manage>>

\* WritePIDFile failing only logs a warning.
ChildPidWriteFails(s) ==
    /\ pc[s] = "started"
    /\ Goto(s, "wait")
    /\ UNCHANGED <<lock, files, term, child, tally, proc, uptime, update, crashes, manage>>

StartFailsGivesUp(s) ==
    /\ pc[s] = "top" /\ ~term[s]
    /\ Goto(s, "cleanup")
    /\ UNCHANGED <<lock, files, term, child, tally, proc, uptime, update, crashes, manage>>

\* The number of attempts never resets on a failed start: ObserveUptime(0).
StartFails(s) ==
    /\ pc[s] = "top" /\ ~term[s]
    /\ attempts' = [attempts EXCEPT ![s] = Bump(@, Len(DelayTable))]
    /\ delay' = [delay EXCEPT ![s] = BackoffStep(attempts'[s])]
    /\ Goto(s, "sleep")
    /\ UNCHANGED <<lock, files, term, child, fastFail, lastJob, proc, uptime, update, crashes, manage>>

StopAtTop(s) ==
    /\ pc[s] = "top" /\ term[s]
    /\ Goto(s, "cleanup")
    /\ UNCHANGED <<lock, files, term, child, tally, proc, uptime, update, crashes, manage>>

(***************************************************************************)
(* waitChild: the waiter reaps a dead child and removes the child PID file *)
(* before it hands the exit over to Run. A file that cannot be removed     *)
(* stays, here as in cleanupFinal.                                         *)
(***************************************************************************)
WaitChild(s) ==
    /\ pc[s] \in {"wait", "stopping"}
    /\ child[s] # None /\ proc[child[s]] = "zombie"
    /\ proc' = [proc EXCEPT ![child[s]] = "reaped"]
    /\ childPidFile' \in {None, childPidFile}
    /\ UNCHANGED <<lock, pidFile, supVars, uptime, update, crashes, manage>>

Reaped(s) == child[s] # None /\ proc[child[s]] = "reaped"
FreeChild(s) == /\ proc' = [proc EXCEPT ![child[s]] = "free"]
                /\ child' = [child EXCEPT ![s] = None]

(***************************************************************************)
(* handleHandoffAfterExit: bookkeeping first, then the rollback decision.  *)
(***************************************************************************)
FastFailAcrossJobs(s) ==
    IF uptime[child[s]] < FastFailMaxUptime THEN Bump(fastFail[s], FastFailThreshold) ELSE 0

FastFailAfter(s) ==
    LET base == IF HandoffJob = lastJob[s] THEN fastFail[s] ELSE 0
    IN  IF uptime[child[s]] < FastFailMaxUptime THEN Bump(base, FastFailThreshold) ELSE 0

MustRollback(s) ==
    /\ handoff \in Handoffs
    /\ FastFailAfter(s) >= FastFailThreshold \/ Expired
    /\ handoff.backup # None

\* BackoffTracker.ObserveUptime followed by NextDelay.
Reschedule(s, fresh) ==
    LET base == IF fresh \/ uptime[child[s]] > StableAfter THEN 0 ELSE attempts[s]
    IN  /\ attempts' = [attempts EXCEPT ![s] = Bump(base, Len(DelayTable))]
        /\ delay' = [delay EXCEPT ![s] = BackoffStep(attempts'[s])]
        /\ Goto(s, "sleep")

\* select takes the exit branch even when the context is already cancelled.
ExitWithoutRollback(s) ==
    /\ pc[s] = "wait" /\ Reaped(s)
    /\ ~MustRollback(s)
    /\ lastJob' = [lastJob EXCEPT ![s] = HandoffJob]
    /\ fastFail' = [fastFail EXCEPT ![s] = IF handoff \in Handoffs THEN FastFailAfter(s) ELSE 0]
    /\ Reschedule(s, FALSE)
    /\ FreeChild(s)
    /\ UNCHANGED <<lock, files, term, uptime, update, crashes, manage>>

RestoreUnreaped(s) ==
    /\ pc[s] = "wait" /\ child[s] # None /\ MustRollback(s)
    /\ installed' = handoff.backup
    /\ Goto(s, "sleep")
    /\ UNCHANGED <<lock, files, term, child, tally, proc, uptime, handoff, age, crashes, manage>>

\* Where the handoff names a backup of the supervisor's own binary that one is put
\* back too, if it can be; the model has no state for it, as nothing here reads it.
RestoreOk(s) ==
    /\ pc[s] = "wait" /\ Reaped(s)
    /\ MustRollback(s)
    /\ installed' = handoff.backup
    /\ lastJob' = [lastJob EXCEPT ![s] = HandoffJob]
    /\ fastFail' = [fastFail EXCEPT ![s] = 0]
    /\ Reschedule(s, TRUE)
    /\ FreeChild(s)
    /\ UNCHANGED <<lock, files, term, uptime, handoff, age, crashes, manage>>

\* RestoreBackup reports an error: the count stays and the loop goes on.
RestoreFails(s) ==
    /\ pc[s] = "wait" /\ Reaped(s)
    /\ MustRollback(s)
    /\ lastJob' = [lastJob EXCEPT ![s] = HandoffJob]
    /\ fastFail' = [fastFail EXCEPT ![s] = FastFailAfter(s)]
    /\ Reschedule(s, FALSE)
    /\ FreeChild(s)
    /\ UNCHANGED <<lock, files, term, uptime, update, crashes, manage>>

(***************************************************************************)
(* sleepOrStop and the cancel path of Run.                                 *)
(***************************************************************************)
Wake(s) ==
    /\ pc[s] = "sleep"
    /\ Goto(s, "top")
    /\ UNCHANGED <<lock, files, term, child, tally, proc, uptime, update, crashes, manage>>

StopAsleep(s) ==
    /\ pc[s] = "sleep" /\ term[s]
    /\ Goto(s, "cleanup")
    /\ UNCHANGED <<lock, files, term, child, tally, proc, uptime, update, crashes, manage>>

StopChildUnwaited(s) ==
    /\ pc[s] = "wait" /\ term[s]
    /\ Goto(s, "cleanup")
    /\ UNCHANGED <<lock, files, term, child, tally, proc, uptime, update, crashes, manage>>

StopChild(s) ==
    /\ pc[s] = "wait" /\ term[s]
    /\ Goto(s, "stopping")
    /\ UNCHANGED <<lock, files, term, child, tally, proc, uptime, update, crashes, manage>>

NoKill(s) == FALSE

\* StopTimeout has passed and the child is still there: SIGKILL.
KillChild(s) ==
    /\ pc[s] = "stopping" /\ proc[child[s]] = "alive"
    /\ proc' = [proc EXCEPT ![child[s]] = "zombie"]
    /\ UNCHANGED <<lock, files, supVars, uptime, update, crashes, manage>>

Stopped(s) ==
    /\ pc[s] = "stopping" /\ Reaped(s)
    /\ FreeChild(s)
    /\ Goto(s, "cleanup")
    /\ UNCHANGED <<lock, files, term, tally, uptime, update, crashes, manage>>

(***************************************************************************)
(* cleanupFinal: child PID file, supervisor PID file, lock, in this order. *)
(***************************************************************************)
UnlockFirst(s) ==
    /\ pc[s] = "cleanup"
    /\ childPidFile' = None /\ lock' = None
    /\ Goto(s, "cleanup2")
    /\ UNCHANGED <<pidFile, term, child, tally, proc, uptime, update, crashes, manage>>

RemoveChildPid(s) ==
    /\ pc[s] = "cleanup"
    /\ childPidFile' \in {None, childPidFile}
    /\ Goto(s, "cleanup2")
    /\ UNCHANGED <<lock, pidFile, term, child, tally, proc, uptime, update, crashes, manage>>

RemoveSupervisorPid(s) ==
    /\ pc[s] = "cleanup2"
    /\ pidFile' \in {None, pidFile}
    /\ Goto(s, "cleanup3")
    /\ UNCHANGED <<lock, childPidFile, term, child, tally, proc, uptime, update, crashes, manage>>

ReleaseLock(s) ==
    /\ pc[s] = "cleanup3"
    /\ lock' = None
    /\ Exits(s)
    /\ UNCHANGED <<files, proc, uptime, update, crashes, manage>>

-----------------------------------------------------------------------------
\* The signal goroutine of main cancels Run at any moment.
Cancelled(s) == term' = [term EXCEPT ![s] = TRUE]
Signal(s) ==
    /\ pc[s] \notin {"off", "boot", "locked"} /\ ~term[s]
    /\ Cancelled(s)
    /\ UNCHANGED <<lock, files, pc, child, tally, proc, uptime, update, crashes, manage>>

\* The process is gone: the kernel drops the flock, the child survives in its own
\* process group, the PID files stay.
Dies(s) ==
    /\ lock' = IF lock = s THEN None ELSE lock
    /\ Exits(s)

Orphaned(s) == [p \in Pids |-> IF p = child[s] /\ proc[p] \in {"zombie", "reaped"} THEN "free" ELSE proc[p]]

\* The supervisor itself dies (SIGKILL, power, a signal before main handles it).
SupervisorCrash(s) ==
    /\ pc[s] # "off" /\ crashes < MaxCrashes
    /\ crashes' = crashes + 1
    /\ Dies(s)
    /\ proc' = Orphaned(s)
    /\ UNCHANGED <<files, uptime, update, manage>>

\* A child exits by itself or obeys SIGTERM; init reaps one whose parent is gone.
Parent(p) == {s \in Sups : pc[s] # "off" /\ child[s] = p}
ChildExits(p) ==
    /\ proc[p] = "alive"
    /\ proc' = [proc EXCEPT ![p] = IF Parent(p) = {} THEN "free" ELSE "zombie"]
    /\ UNCHANGED <<lock, files, supVars, uptime, update, crashes, manage>>

\* What a running phantom-lancer does to the shared files: install a binary and
\* leave a handoff (selfupdate), or remove the handoff (ConfirmBoot).
ChildUpdates(p, v, h) ==
    /\ proc[p] = "alive"
    /\ installed' = v /\ handoff' = h /\ age' \in {0, RestartTimeout}
    /\ UNCHANGED <<lock, files, supVars, proc, uptime, crashes, manage>>

ChildConfirms(p) ==
    /\ proc[p] = "alive" /\ handoff # None
    /\ handoff' = None /\ age' = 0
    /\ UNCHANGED <<lock, files, supVars, proc, uptime, installed, crashes, manage>>

Tick ==
    /\ uptime' = [p \in Pids |-> IF proc[p] = "alive" THEN Bump(uptime[p], UptimeCap) ELSE uptime[p]]
    /\ age' = IF handoff = None THEN 0 ELSE Bump(age, RestartTimeout)
    /\ UNCHANGED <<lock, files, supVars, proc, handoff, installed, crashes, manage>>

-----------------------------------------------------------------------------
(***************************************************************************)
(* manage.sh start and stop, a shell script step by step. A command whose  *)
(* first look at the PID file ends it does nothing and is left out.        *)
(***************************************************************************)
Running(s) == s # None /\ pc[s] # "off"
Meets == UnderWay \/ \E s \in Sups : Starting(s)

At(m, label, s) == script' = [script EXCEPT ![m] = [at |-> label, sup |-> s]]
Done(m) == script' = [script EXCEPT ![m] = Idle]

StartReads(m) ==
    /\ script[m] = Idle /\ ~Running(pidFile)
    /\ At(m, "clear", pidFile) /\ crossed' = (crossed \/ Meets)
    /\ UNCHANGED <<lock, files, supVars, proc, uptime, update, crashes>>

StartClears(m) ==
    /\ script[m].at = "clear"
    /\ pidFile' = IF script[m].sup # None THEN None ELSE pidFile
    /\ childPidFile' = IF childPidFile # None /\ proc[childPidFile] \in {"alive", "zombie"} THEN childPidFile ELSE None
    /\ At(m, "launch", None)
    /\ UNCHANGED <<lock, supVars, proc, uptime, update, crashes, crossed>>

StartLaunches(m, s) ==
    /\ script[m].at = "launch" /\ Launched(s)
    /\ At(m, "name", s)
    /\ UNCHANGED <<lock, files, term, child, tally, proc, uptime, update, crashes, crossed>>

\* The redirection empties the file before printf writes to it.
StartTruncates(m) ==
    /\ script[m].at = "name"
    /\ pidFile' = None
    /\ At(m, "print", script[m].sup)
    /\ UNCHANGED <<lock, childPidFile, supVars, proc, uptime, update, crashes, crossed>>

StartPrints(m) ==
    /\ script[m].at = "print"
    /\ pidFile' = script[m].sup
    /\ At(m, "watch", script[m].sup)
    /\ UNCHANGED <<lock, childPidFile, supVars, proc, uptime, update, crashes, crossed>>

StartWatches(m) ==
    /\ script[m].at = "watch"
    /\ pidFile' = IF Running(script[m].sup) THEN pidFile ELSE None
    /\ Done(m)
    /\ UNCHANGED <<lock, childPidFile, supVars, proc, uptime, update, crashes, crossed>>

StopReads(m) ==
    /\ script[m] = Idle
    /\ IF Running(pidFile) THEN At(m, "kill", pidFile) ELSE At(m, "remove", None)
    /\ crossed' = (crossed \/ Meets)
    /\ UNCHANGED <<lock, files, supVars, proc, uptime, update, crashes>>

\* SIGTERM ends a process that main has not yet prepared for it.
StopSignals(m) ==
    LET s == script[m].sup
    IN  /\ script[m].at = "kill" /\ pc[s] # "off"
        /\ At(m, "await", s)
        /\ IF Starting(s) THEN Dies(s) ELSE Cancelled(s) /\ UNCHANGED <<lock, pc, child, tally>>
        /\ UNCHANGED <<files, proc, uptime, update, crashes, crossed>>

\* The kill of a process that is gone fails, and with it the script (set -e).
StopMisses(m) ==
    /\ script[m].at = "kill" /\ pc[script[m].sup] = "off"
    /\ Done(m)
    /\ UNCHANGED <<lock, files, supVars, proc, uptime, update, crashes, crossed>>

StopSees(m) ==
    /\ script[m].at = "await" /\ pc[script[m].sup] = "off"
    /\ At(m, "remove", None)
    /\ UNCHANGED <<lock, files, supVars, proc, uptime, update, crashes, crossed>>

\* STOP_TIMEOUT has passed: SIGKILL for the supervisor and for the child that the
\* child PID file names.
StopForces(m) ==
    LET s == script[m].sup
    IN  /\ script[m].at = "await" /\ pc[s] # "off" /\ crashes < MaxCrashes
        /\ crashes' = crashes + 1
        /\ Dies(s)
        /\ proc' = [p \in Pids |-> IF p = childPidFile /\ Orphaned(s)[p] = "alive" THEN "free" ELSE Orphaned(s)[p]]
        /\ At(m, "remove", None)
        /\ UNCHANGED <<files, uptime, update, crossed>>

StopRemoves(m) ==
    /\ script[m].at = "remove"
    /\ pidFile' = None /\ childPidFile' = None
    /\ Done(m)
    /\ UNCHANGED <<lock, supVars, proc, uptime, update, crashes, crossed>>

-----------------------------------------------------------------------------
(***************************************************************************)
(* The steps the supervisor takes on its own, and everything around it.    *)
(***************************************************************************)
Boot(s)  == AcquireLock(s) \/ LockHeldByOther(s) \/ WriteSupervisorPid(s) \/ PidWriteFails(s)
Start(s) == (\E p \in Pids : Spawn(s, p)) \/ WriteChildPid(s) \/ ChildPidWriteFails(s) \/ StartFails(s) \/ StopAtTop(s)
Exit(s)  == WaitChild(s) \/ ExitWithoutRollback(s) \/ RestoreOk(s) \/ RestoreFails(s) \/ Wake(s) \/ StopAsleep(s)
Stop(s)  == StopChild(s) \/ KillChild(s) \/ Stopped(s) \/ RemoveChildPid(s) \/ RemoveSupervisorPid(s) \/ ReleaseLock(s)
Loop(s)  == Start(s) \/ Exit(s) \/ Stop(s)

ManageStart(m) ==
    \/ StartReads(m) \/ StartClears(m) \/ (\E s \in Sups : StartLaunches(m, s))
    \/ StartTruncates(m) \/ StartPrints(m) \/ StartWatches(m)
ManageStop(m) == StopReads(m) \/ StopSignals(m) \/ StopMisses(m) \/ StopSees(m) \/ StopForces(m) \/ StopRemoves(m)

Environment ==
    \/ \E s \in Sups : Launch(s) \/ Signal(s) \/ SupervisorCrash(s)
    \/ \E m \in Scripts : ManageStart(m) \/ ManageStop(m)
    \/ \E p \in Pids : ChildExits(p) \/ ChildConfirms(p)
    \/ \E p \in Pids, v \in Versions, h \in Handoffs \cup {Garbled} : ChildUpdates(p, v, h)
    \/ Tick

Next == (\E s \in Sups : Boot(s) \/ Loop(s)) \/ Environment

Spec == Init /\ [][Next]_vars

(***************************************************************************)
(* Fairness: the supervisor's own code keeps running, and time passes. No  *)
(* start of the child is assumed to succeed.                               *)
(***************************************************************************)
Fairness ==
    \A s \in Sups :
        /\ WF_vars(Boot(s))
        /\ WF_vars(Start(s))
        /\ WF_vars(Exit(s))
        /\ WF_vars(Stop(s))

FairSpec == Spec /\ Fairness

-----------------------------------------------------------------------------
Labels == {"off", "boot", "locked", "top", "started", "wait", "sleep", "stopping",
           "cleanup", "cleanup2", "cleanup3"}
Steps  == {"idle", "clear", "launch", "name", "print", "watch", "kill", "await", "remove"}

\* Types of the variables; a saturating counter never passes its cap.
TypeOK ==
    /\ lock \in Sups \cup {None}
    /\ pidFile \in Sups \cup {None}
    /\ childPidFile \in Pids \cup {None}
    /\ pc \in [Sups -> Labels]
    /\ term \in [Sups -> BOOLEAN]
    /\ child \in [Sups -> Pids \cup {None}]
    /\ proc \in [Pids -> {"free", "alive", "zombie", "reaped"}]
    /\ uptime \in [Pids -> 0 .. UptimeCap]
    /\ attempts \in [Sups -> 0 .. Len(DelayTable)]
    /\ delay \in [Sups -> Nat]
    /\ fastFail \in [Sups -> 0 .. FastFailThreshold]
    /\ lastJob \in [Sups -> Jobs \cup {None}]
    /\ handoff \in Handoffs \cup {None, Garbled}
    /\ age \in 0 .. RestartTimeout
    /\ installed \in Versions
    /\ crashes \in 0 .. MaxCrashes
    /\ script \in [Scripts -> [at : Steps, sup : Sups \cup {None}]]
    /\ crossed \in BOOLEAN

\* Two supervisors are never past Bootstrap's lock at the same time, whatever
\* order they start, stop, fail and crash in (Bootstrap, cleanupFinal, flock).
OneSupervisor ==
    \A s, t \in Sups : pc[s] \notin {"off", "boot"} /\ pc[t] \notin {"off", "boot"} => s = t

\* From Bootstrap to the last step of cleanupFinal the PID file names the supervisor
\* that runs, so that "manage.sh stop" signals the right process: whatever order
\* supervisors start, fail, stop and are killed in, and although manage.sh writes and
\* removes the file without the lock. Two commands of manage.sh at once, or one that
\* meets a supervisor being launched, can break it (crossed; PidFilesConsistent), and
\* manage.sh start leaves the file empty for a moment.
Named(s) == pc[s] \in {"off", "boot", "locked", "cleanup3"} \/ pidFile = s
Printing == \E m \in Scripts : script[m].at = "print"

PidFileNamesSupervisor == ~crossed /\ ~Printing => \A s \in Sups : Named(s)

\* "manage.sh writes the same pid (from $! after nohup start) so both files are
\* consistent" (scripts/manage.sh:10): without the exception of commands that meet.
PidFilesConsistent == ~Printing => \A s \in Sups : Named(s)

\* As long as no supervisor is killed, a live phantom-lancer is always one that a
\* running supervisor started and will wait for: no exit path of Run (signal while
\* starting, waiting, sleeping or stopping) leaves a child behind.
NoStrayChild ==
    crashes = 0 =>
        \A p \in Pids : proc[p] # "free" =>
            \E s \in Sups : child[s] = p /\ pc[s] \in {"started", "wait", "stopping"}

\* The supervisor swaps the binary under nobody: when handleHandoffAfterExit
\* restores the backup, every process it manages has been reaped.
RestoreOnlyBetweenChildren ==
    [][\A s \in Sups : RestoreOk(s) /\ crashes = 0 => \A p \in Pids : proc[p] # "alive"]_vars

\* A stop request ends: the supervisor reaches its exit even if the child ignores
\* SIGTERM, dies on its own at the same moment, or has not been started yet.
StopEnds == \A s \in Sups : (pc[s] # "off" /\ term[s]) ~> pc[s] = "off"

\* A child that exits is replaced unless the supervisor is told to stop or killed,
\* whatever its exit code and whatever the handoff file holds, if the binary can be
\* started at all: of the starts that Run keeps attempting one succeeds (otherwise it
\* attempts them for ever, supervisor.go:345).
StartsSucceed(s) == SF_vars(\E p \in Pids : Spawn(s, p))

ChildIsReplaced ==
    \A s \in Sups :
        StartsSucceed(s) => (pc[s] = "wait" /\ Reaped(s)) ~> (pc[s] = "started" \/ term[s] \/ crashes > 0)

\* "It only returns when ctx is cancelled (nil error), when startChild repeatedly can't
\* even exec the binary (error), ..." (supervisor.go:329): starts that keep failing end.
FailedStartsEnd ==
    \A s \in Sups : (pc[s] = "top" /\ ~term[s]) ~> pc[s] \in {"started", "cleanup", "off"}
=============================================================================
