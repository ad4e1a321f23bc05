----------------------------- MODULE StrategyRuns -----------------------------
(***************************************************************************)
(* One strategy generation run (stockv2): a goroutine takes a codex process *)
(* through the pipeline's steps, up to two attempts each, and turns the    *)
(* last step's report into draft strategies; a restart fails what it finds *)
(* active. Each attempt has a task of its own in the AgentTaskPool.        *)
(*                                                                         *)
(* Prompts, traces and the decision ledger are left out; a result is good  *)
(* or fails the report's validation. A statement that fails is a fault.    *)
(***************************************************************************)
EXTENDS AgentTaskPool, FiniteSets

CONSTANTS
    NSteps,       \* the last of the steps is the formatter
    NDrafts,      \* drafts in a report
    MaxFaults,    \* bound: statements that fail
    MaxCrashes    \* bound: crashes of the main program

Steps       == 1..NSteps
maxAttempts == 2

ASSUME RunConstants ==
    /\ {NSteps, NDrafts} \subseteq Nat \ {0} /\ {MaxFaults, MaxCrashes} \subseteq Nat
    /\ Tasks = Steps \X (1..maxAttempts) /\ Results = {"good", "bad"}

VARIABLES
    run,       \* status of the row of stockv2_agent_runs
    stepRow,   \* status of each row of the run's steps
    drafts,    \* draft strategies in the database
    group,     \* the process group of each task's codex
    pc,        \* where the run's goroutine is
    task,      \* the step and attempt it is at
    timeUp,    \* the attempt's execCtx is done
    waiter,    \* the goroutine in waitForResult
    saw,       \* what the wait loop took: a result, an error, the timeout
    err,       \* what an attempt or a step returned
    report,    \* the result finalize works on
    lost,      \* history: a write of the run's row, or of a step's, has failed
    faults, crashes

goroutine == <<pc, task, timeUp, waiter, saw, err, report>>
database  == <<run, stepRow, drafts, lost>>
bounds    == <<faults, crashes>>
vars == <<pool, group, goroutine, database, bounds>>

SawNothing == [result |-> FALSE, error |-> FALSE, timeout |-> FALSE]
Ended == {"completed", "failed"}
IsFormatter == task[1] = NSteps

Init ==
    /\ PoolInit /\ group = [t \in Tasks |-> "off"]
    /\ pc = "start" /\ task = <<1, 1>> /\ timeUp = FALSE /\ waiter = "off"
    /\ saw = SawNothing /\ err = "none" /\ report = NoResult
    /\ run = "ready" /\ stepRow = [s \in Steps |-> "none"] /\ drafts = 0
    /\ lost = [run |-> FALSE, steps |-> {}]
    /\ faults = 0 /\ crashes = 0

Fault == faults < MaxFaults /\ faults' = faults + 1 /\ UNCHANGED crashes

\* UpdateAgentRun: an error is a warning in the log.
WriteRun(status) ==
    \/ run' = status /\ UNCHANGED <<lost, bounds>>
    \/ Fault /\ UNCHANGED run /\ lost' = [lost EXCEPT !.run = TRUE]

\* UpdateStrategyGenerationStep: its error is ignored, and without a row there is
\* nothing to update.
WriteStep(status) ==
    \/ stepRow' = [stepRow EXCEPT ![task[1]] = IF @ = "none" THEN @ ELSE status] /\ UNCHANGED <<lost, bounds>>
    \/ Fault /\ UNCHANGED stepRow /\ lost' = [lost EXCEPT !.steps = @ \cup {task[1]}]

-----------------------------------------------------------------------------
\* executeStrategyGenerationRun and the head of each step.

StartRun ==
    /\ pc = "start"
    /\ WriteRun("running")
    /\ pc' = "head"
    /\ UNCHANGED <<pool, group, task, timeUp, waiter, saw, err, report, stepRow, drafts>>

\* A step that cannot be created is carried out all the same.
CreateStep ==
    /\ pc = "head" /\ pc' = "opened"
    /\ \/ stepRow' = [stepRow EXCEPT ![task[1]] = "pending"] /\ UNCHANGED <<lost, bounds>>
       \/ Fault /\ UNCHANGED stepRow /\ lost' = [lost EXCEPT !.steps = @ \cup {task[1]}]
    /\ UNCHANGED <<pool, group, task, timeUp, waiter, saw, err, report, run, drafts>>

StartStep ==
    /\ pc = "opened" /\ pc' = "begin"
    /\ WriteStep("running")
    /\ UNCHANGED <<pool, group, task, timeUp, waiter, saw, err, report, run, drafts>>

\* createTask, a new id for every attempt, then the process. Before the process
\* is there the attempt may fail: no retry.
BeginAttempt ==
    /\ pc = "begin"
    /\ CreateTask(task)
    /\ saw' = SawNothing /\ timeUp' = FALSE
    /\ \/ pc' = "wait" /\ group' = [group EXCEPT ![task] = "running"] /\ waiter' = "waiting" /\ UNCHANGED err
       \/ pc' = "step" /\ err' = "notStarted" /\ waiter' = "off" /\ UNCHANGED group
    /\ UNCHANGED <<task, report, database, bounds>>

-----------------------------------------------------------------------------
\* The agent. Its call may come while it runs or be delayed past its end.

AgentSubmits(t, r) ==
    /\ group[t] # "off"
    /\ Submit(t, r)
    /\ UNCHANGED <<group, goroutine, database, bounds>>

\* The codex process exits, by itself or terminated when its context is done;
\* what it has started may run on in the group.
LeaderExits(t) ==
    /\ group[t] = "running"
    /\ group' = [group EXCEPT ![t] = "leaderless"]
    /\ UNCHANGED <<pool, goroutine, database, bounds>>

-----------------------------------------------------------------------------
\* executePromptWithOptions: the wait loop, and the stop of the group.

TimeoutFires ==
    /\ pc = "wait" /\ ~timeUp
    /\ timeUp' = TRUE
    /\ UNCHANGED <<pool, group, pc, task, waiter, saw, err, report, database, bounds>>

\* waitForResult: the channel or the context, at random when both are ready.
WaiterReturns ==
    /\ pc = "wait" /\ waiter = "waiting"
    /\ \/ pool[task].closed /\ waiter' = IF pool[task].result = NoResult THEN "error" ELSE "result"
       \/ timeUp /\ waiter' = "error"
    /\ UNCHANGED <<pool, group, pc, task, timeUp, saw, err, report, database, bounds>>

\* mutant of WaitLoop: does not look at the context
NoTimeout ==
    /\ pc = "wait"
    /\ \/ group[task] # "running" /\ pc' = "stop" /\ UNCHANGED <<saw, waiter>>
       \/ waiter = "result" /\ pc' = "stop" /\ saw' = [saw EXCEPT !.result = TRUE] /\ UNCHANGED waiter
       \/ waiter = "error" /\ saw' = [saw EXCEPT !.error = TRUE] /\ waiter' = "off" /\ UNCHANGED pc
    /\ UNCHANGED <<pool, group, task, timeUp, err, report, database, bounds>>
\* The select: an error of the waiter is noted and the loop goes on.
WaitLoop ==
    /\ pc = "wait"
    /\ \/ group[task] # "running" /\ pc' = "stop" /\ UNCHANGED <<saw, waiter>>
       \/ waiter = "result" /\ pc' = "stop" /\ saw' = [saw EXCEPT !.result = TRUE] /\ UNCHANGED waiter
       \/ waiter = "error" /\ saw' = [saw EXCEPT !.error = TRUE] /\ waiter' = "off" /\ UNCHANGED pc
       \/ timeUp /\ pc' = "stop" /\ saw' = [saw EXCEPT !.timeout = TRUE] /\ UNCHANGED waiter
    /\ UNCHANGED <<pool, group, task, timeUp, err, report, database, bounds>>

\* What the attempt returns: only what the wait loop took counts.
Verdict ==
    IF saw.result THEN "none" ELSE IF saw.error THEN "noResult"
    ELSE IF saw.timeout THEN "timedOut" ELSE "exited"

\* mutant of StopGroup: a process that has exited is left alone
StopLeader ==
    /\ pc = "stop"
    /\ pc' = "judge" /\ waiter' = "off" /\ err' = Verdict
    /\ group' = [group EXCEPT ![task] = IF @ = "running" THEN "gone" ELSE @]
    /\ UNCHANGED <<pool, task, timeUp, saw, report, database, bounds>>
\* A while for the process to end, SIGTERM, SIGKILL, and in any case SIGKILL to
\* the whole group before returning.
StopGroup ==
    /\ pc = "stop"
    /\ pc' = "judge" /\ waiter' = "off" /\ err' = Verdict
    /\ group' = [group EXCEPT ![task] = "gone"]
    /\ UNCHANGED <<pool, task, timeUp, saw, report, database, bounds>>

-----------------------------------------------------------------------------
\* executeStrategyGenerationStepWithRetry and the tail of each step.

FormatterInvalid == err = "none" /\ IsFormatter /\ pool[task].result = "bad"
LastAttempt == task[2] = maxAttempts

\* A timeout leaves its task behind, an invalid report is consumed.
RetryAttempt ==
    /\ pc = "judge" /\ ~LastAttempt
    /\ \/ err = "timedOut" /\ UNCHANGED pool
       \/ FormatterInvalid /\ Remove(task)
    /\ pc' = "begin" /\ task' = <<task[1], task[2] + 1>> /\ err' = "none"
    /\ UNCHANGED <<group, timeUp, waiter, saw, report, database, bounds>>

EndAttempts ==
    /\ pc = "judge"
    /\ ~(FormatterInvalid \/ err = "timedOut") \/ LastAttempt
    /\ pc' = "step" /\ err' = IF FormatterInvalid THEN "invalid" ELSE err
    /\ UNCHANGED <<pool, group, task, timeUp, waiter, saw, report, database, bounds>>

\* consumeAgentTaskSubmittedResult, and the run fails with the step. A result of another
\* type than the task's is refused by mcpSubmitResult and submitResult already.
FailStep ==
    /\ pc = "step"
    /\ err # "none" \/ pool[task].result = NoResult
    /\ Remove(task)
    /\ pc' = "fail" /\ WriteStep("failed")
    /\ UNCHANGED <<group, task, timeUp, waiter, saw, err, report, run, drafts>>

CompleteStep ==
    /\ pc = "step" /\ err = "none" /\ pool[task].result # NoResult /\ ~IsFormatter
    /\ Remove(task)
    /\ pc' = "head" /\ task' = <<task[1] + 1, 1>>
    /\ WriteStep("completed")
    /\ UNCHANGED <<group, timeUp, waiter, saw, err, report, run, drafts>>

\* The formatter's result is taken out and put back for finalize.
CompleteFormatter ==
    /\ pc = "step" /\ err = "none" /\ pool[task].result # NoResult /\ IsFormatter
    /\ Restore(task, pool[task].result)
    /\ pc' = "finalize" /\ WriteStep("completed")
    /\ UNCHANGED <<group, task, timeUp, waiter, saw, err, report, run, drafts>>

-----------------------------------------------------------------------------
\* finalizeAgentRunWithOutput.

\* Takes the result for good; if the run cannot be read nothing more happens,
\* and a report that fails the validation fails the run.
Finalize ==
    /\ pc = "finalize"
    /\ Remove(task) /\ report' = pool[task].result
    /\ \/ pc' = (IF report' = "good" THEN "drafts" ELSE "fail") /\ UNCHANGED bounds
          /\ UNCHANGED lost
       \/ pc' = "done" /\ Fault /\ lost' = [lost EXCEPT !.run = TRUE]
    /\ UNCHANGED <<group, task, timeUp, waiter, saw, err, run, stepRow, drafts>>

\* mutant of CreateDraft: one draft is enough to go on
FirstDraft ==
    /\ pc = "drafts"
    /\ \/ drafts' = drafts + 1 /\ pc' = "complete" /\ UNCHANGED bounds
       \/ pc' = "fail" /\ Fault /\ UNCHANGED drafts
    /\ UNCHANGED <<pool, group, task, timeUp, waiter, saw, err, report, run, stepRow, lost>>
\* createDraftStrategiesFromStrategyGeneration: a transaction for each draft.
CreateDraft ==
    /\ pc = "drafts"
    /\ \/ drafts' = drafts + 1 /\ pc' = (IF drafts' = NDrafts THEN "complete" ELSE pc) /\ UNCHANGED bounds
       \/ pc' = "fail" /\ Fault /\ UNCHANGED drafts
    /\ UNCHANGED <<pool, group, task, timeUp, waiter, saw, err, report, run, stepRow, lost>>

EndRun ==
    /\ \/ pc = "complete" /\ WriteRun("completed")
       \/ pc = "fail" /\ WriteRun("failed")
    /\ pc' = "done"
    /\ UNCHANGED <<pool, group, task, timeUp, waiter, saw, err, report, stepRow, drafts>>

-----------------------------------------------------------------------------
\* The pool's clock: no task is overdue before its own attempt is, by the
\* thirty seconds that its time to live has more.
PoolClock(t) ==
    /\ \/ (t # task \/ timeUp \/ pc \notin {"begin", "wait"}) /\ DeadlinePasses(t)
       \/ Expire(t)
       \/ (t # task \/ pc = "done") /\ Purge(t)
    /\ UNCHANGED <<group, goroutine, database, bounds>>

\* The pool and the goroutine go with the process, a codex group does not.
Crash ==
    /\ crashes < MaxCrashes /\ crashes' = crashes + 1
    /\ pool' = [t \in Tasks |-> Absent] /\ pc' = "down"
    /\ UNCHANGED <<group, task, timeUp, waiter, saw, err, report, database, faults>>

\* FailActiveAgentRuns: an error is a warning.
FailActiveAgentRuns == WriteRun(IF run \in Ended THEN run ELSE "failed")

Restart ==
    /\ pc = "down"
    /\ FailActiveAgentRuns
    /\ pc' = "done"
    /\ UNCHANGED <<pool, group, task, timeUp, waiter, saw, err, report, stepRow, drafts>>

-----------------------------------------------------------------------------
\* What the program does by itself, its timers included.
Work ==
    \/ StartRun \/ CreateStep \/ StartStep \/ BeginAttempt
    \/ TimeoutFires \/ WaiterReturns \/ WaitLoop \/ StopGroup
    \/ RetryAttempt \/ EndAttempts \/ FailStep \/ CompleteStep \/ CompleteFormatter
    \/ Finalize \/ CreateDraft \/ EndRun \/ Restart

Agent == \E t \in Tasks : LeaderExits(t) \/ \E r \in Results : AgentSubmits(t, r)

Next == Work \/ Agent \/ Crash \/ \E t \in Tasks : PoolClock(t)

\* The goroutine is scheduled, timers fire and the supervisor restarts the
\* program; nothing is assumed of the agent.
Fairness == WF_vars(Work) /\ \A t \in Tasks : WF_vars(PoolClock(t))
Spec == Init /\ [][Next]_vars /\ Fairness

-----------------------------------------------------------------------------
Labels == {"start", "head", "opened", "begin", "wait", "stop", "judge", "step", "finalize", "drafts",
           "complete", "fail", "done", "down"}

\* Every variable has its type; drafts never exceed the report's.
TypeOK ==
    /\ pool \in [Tasks -> Entries] /\ group \in [Tasks -> {"off", "running", "leaderless", "gone"}]
    /\ pc \in Labels /\ task \in Tasks /\ timeUp \in BOOLEAN
    /\ waiter \in {"off", "waiting", "result", "error"}
    /\ saw \in [result : BOOLEAN, error : BOOLEAN, timeout : BOOLEAN]
    /\ err \in {"none", "notStarted", "noResult", "timedOut", "exited", "invalid"}
    /\ report \in Results \cup {NoResult}
    /\ run \in {"ready", "running"} \cup Ended
    /\ stepRow \in [Steps -> {"none", "pending", "running", "completed", "failed"}]
    /\ lost \in [run : BOOLEAN, steps : SUBSET Steps]
    /\ drafts \in 0..NDrafts /\ faults \in 0..MaxFaults /\ crashes \in 0..MaxCrashes

\* A run is shown as completed only when every draft of the report is stored, as
\* finalize stores them first (agent_service.go:2302), and no step has failed; each
\* step's row says completed too, unless a write of it has failed, which the pipeline
\* ignores (agent_service.go:1672, 1731).
Shown(s) == stepRow[s] = "completed" \/ (s \in lost.steps /\ stepRow[s] # "failed")

CompletedIsWhole == run = "completed" => drafts = NDrafts /\ \A s \in Steps : Shown(s)

\* "each completed step remains persisted in the run record" (agent_service.go:1750):
\* without the exception.
StepsRemain == run = "completed" => \A s \in Steps : stepRow[s] = "completed"

\* The result channel of a task that waits is open: submitResult and
\* cleanupExpired each close it, and closing it twice would panic.
WaitingIsOpen == \A t \in Tasks : pool[t].status = "waiting" => ~pool[t].closed

Live(t) == group[t] \in {"running", "leaderless"}

\* At most one codex group of the run is alive: an attempt's group, with what
\* outlives its leader, is killed before a retry or the next step starts.
OneGroup == \A t, u \in Tasks : Live(t) /\ Live(u) => t = u

\* The first accepted result of a task is the only one, until it is taken: late,
\* repeated and expired submissions do not replace or clear it.
FirstResultWins ==
    [][\A t \in Tasks : pool[t].result # NoResult => pool'[t].result \in {pool[t].result, NoResult}
                                                     /\ (pool'[t].result = NoResult => pool'[t] = Absent)]_vars

\* An ended run stays as it ended, over restarts (service.go:196): only the market
\* scan's recovery reopens one, for a report that a later build's validation accepts.
EndedIsFinal == [][(run \in Ended) => run' = run]_vars

\* The goroutine ends, and the run with it unless its own row could not be read or
\* written: a silent agent, an expired task, a step or draft that cannot be stored or a
\* crash in any place leaves no run active.
RunEnds == <>[](pc = "done" /\ (run \in Ended \/ lost.run))

\* The pool empties: tasks of abandoned attempts and results that came too late
\* to be taken are dropped.
PoolDrains == <>[](\A t \in Tasks : ~Present(t))
===============================================================================
