-------------------------- MODULE StrategyRunsProofs --------------------------
(***************************************************************************)
(* Safety of a strategy generation run for any number of steps, of drafts, *)
(* of failed statements and of crashes. The invariant adds to the run's    *)
(* properties what the pool and the goroutine keep between their steps.    *)
(***************************************************************************)
EXTENDS StrategyRuns, TLAPS

\* A task that waits has no result and an open channel.
EntrySound(t) == pool[t].status = "waiting" => pool[t].result = NoResult /\ ~pool[t].closed

\* The goroutine has not come to this task yet.
Ahead(t) ==
    \/ t[1] > task[1]
    \/ t[1] = task[1] /\ t[2] > task[2]
    \/ t = task /\ pc \in {"start", "head", "opened", "begin"}
Fresh(t) == Ahead(t) => pool[t] = Absent /\ group[t] = "off"

\* A group that is alive is the current attempt's, or was when the process died.
OnlyCurrent(t) == Live(t) => t = task /\ pc \in {"wait", "stop", "down", "done"}

Early == {"opened", "begin", "wait", "stop", "judge", "step"}
AllShown == \A s \in Steps : Shown(s)

\* A row that is missing was lost; the current step has not failed before its tail.
StepUnderWay == stepRow[task[1]] # "failed" /\ (stepRow[task[1]] = "none" => task[1] \in lost.steps)

\* The rows follow the goroutine: the steps before the current one are over and shown,
\* those after it have no row, drafts come after all of them, the run ends last.
RowsFollow ==
    /\ pc \notin {"done", "down"} => run \notin Ended
    /\ pc = "start" => task = <<1, 1>>
    /\ pc \in Early \cup {"start", "head"} => \A s \in Steps : s < task[1] => Shown(s)
    /\ pc \in Early \cup {"start", "head"} => \A s \in Steps : s > task[1] => stepRow[s] = "none"
    /\ pc \in {"start", "head"} => stepRow[task[1]] = "none"
    /\ pc \in Early => StepUnderWay
    /\ pc \in Early \cup {"start", "head", "finalize"} => drafts = 0
    /\ pc \in {"finalize", "drafts", "complete"} => AllShown
    /\ pc = "drafts" => drafts < NDrafts
    /\ pc = "complete" => drafts = NDrafts
    /\ run = "completed" => drafts = NDrafts /\ AllShown

RunInv ==
    /\ TypeOK /\ RowsFollow
    /\ \A t \in Tasks : EntrySound(t) /\ Fresh(t) /\ OnlyCurrent(t)

Rows == {"none", "pending", "running", "completed", "failed"}
Losses == [run : BOOLEAN, steps : SUBSET Steps]

USE PoolConstants, RunConstants

LEMMA EntryTypes ==
    /\ Absent \in Entries /\ Waiting \in Entries /\ NoResult \notin Results
    /\ Absent.status = "none" /\ Absent.result = NoResult
    /\ Waiting.status = "waiting" /\ Waiting.result = NoResult /\ Waiting.closed = FALSE
BY DEF Absent, Waiting, Entries

LEMMA TaskTypes ==
    /\ \A t \in Tasks : t = <<t[1], t[2]>> /\ t[1] \in 1..NSteps /\ t[2] \in 1..2
    /\ \A s \in 1..NSteps, a \in 1..2 : <<s, a>> \in Tasks
BY DEF Steps, maxAttempts

LEMMA InitSound == Init => RunInv
<1> SUFFICES ASSUME Init PROVE RunInv
  OBVIOUS
<1>1. TypeOK
  <2>1. pool \in [Tasks -> Entries] /\ task \in Tasks
    <3>1. <<1, 1>> \in Tasks
      <4>1. 1 \in 1..NSteps /\ 1 \in 1..2
        OBVIOUS
      <4> QED BY <4>1, TaskTypes
    <3> QED BY <3>1, EntryTypes DEF Init, PoolInit
  <2>2. /\ group \in [Tasks -> {"off", "running", "leaderless", "gone"}]
        /\ stepRow \in [Steps -> Rows] /\ lost \in [run : BOOLEAN, steps : SUBSET Steps]
        /\ saw \in [result : BOOLEAN, error : BOOLEAN, timeout : BOOLEAN]
    BY DEF Init, SawNothing, Rows
  <2>3. drafts \in 0..NDrafts /\ faults \in 0..MaxFaults /\ crashes \in 0..MaxCrashes
    BY DEF Init
  <2> QED BY <2>1, <2>2, <2>3 DEF Init, TypeOK, Labels, Ended, Rows
<1>2. RowsFollow
  <2>1. \A s \in Steps : ~(s < 1)
    BY DEF Steps
  <2>2. stepRow = [s \in Steps |-> "none"] /\ task = <<1, 1>> /\ 1 \in Steps /\ pc = "start" /\ drafts = 0 /\ run = "ready"
    BY DEF Init, Steps
  <2> QED BY <2>1, <2>2 DEF RowsFollow, Ended, Early
<1>3. \A t \in Tasks : EntrySound(t) /\ Fresh(t) /\ OnlyCurrent(t)
  BY EntryTypes DEF Init, PoolInit, EntrySound, Fresh, OnlyCurrent, Live
<1> QED BY <1>1, <1>2, <1>3 DEF RunInv

-------------------------------------------------------------------------------
\* The pool by itself: each operation keeps the entries' type and soundness, and
\* a result goes only with its entry.
PoolOp(t) ==
    \/ CreateTask(t) \/ Remove(t) \/ DeadlinePasses(t) \/ Expire(t) \/ Purge(t)
    \/ \E r \in Results : Submit(t, r) \/ Restore(t, r)

LEMMA PoolOpSound ==
    ASSUME pool \in [Tasks -> Entries], NEW t \in Tasks, EntrySound(t), PoolOp(t)
    PROVE  /\ pool' \in [Tasks -> Entries] /\ EntrySound(t)'
           /\ \A u \in Tasks \ {t} : pool'[u] = pool[u]
<1> DEFINE e == pool[t]
<1>0. e \in Entries
  OBVIOUS
<1>1. \E entry \in Entries : pool' = [pool EXCEPT ![t] = entry]
                             /\ (entry.status = "waiting" => entry.result = NoResult /\ ~entry.closed)
  <2>1. CASE CreateTask(t) \/ Remove(t) \/ Purge(t)
    BY <2>1, EntryTypes DEF CreateTask, Remove, Purge, Update
  <2>2. CASE DeadlinePasses(t)
    <3>1. [e EXCEPT !.overdue = TRUE] \in Entries
      BY <1>0 DEF Entries
    <3> QED BY <3>1, <2>2, <1>0 DEF DeadlinePasses, Update, EntrySound, Entries
  <2>3. CASE Expire(t)
    <3>1. [e EXCEPT !.status = "expired", !.closed = TRUE] \in Entries
      BY <1>0 DEF Entries
    <3> QED BY <3>1, <2>3, <1>0 DEF Expire, Update, Entries
  <2>4. ASSUME NEW r \in Results, Submit(t, r) PROVE <1>1!:
    <3>1. [e EXCEPT !.status = "expired"] \in Entries
          /\ [e EXCEPT !.status = "submitted", !.result = r, !.closed = TRUE] \in Entries
      BY <1>0 DEF Entries
    <3> QED BY <3>1, <2>4, <1>0 DEF Submit, Update, Entries
  <2>5. ASSUME NEW r \in Results, Restore(t, r) PROVE <1>1!:
    <3>1. [Waiting EXCEPT !.status = "submitted", !.result = r, !.closed = TRUE] \in Entries
      BY EntryTypes DEF Entries
    <3> QED BY <3>1, <2>5, EntryTypes DEF Restore, Update, Entries
  <2> QED BY <2>1, <2>2, <2>3, <2>4, <2>5 DEF PoolOp
<1> QED BY <1>1 DEF EntrySound

\* In a step of the run an entry is operated on only as the current attempt's,
\* or when it is there already.
LEMMA StepTouches ==
    ASSUME RunInv, Next
    PROVE  \/ UNCHANGED pool
           \/ pool' = [t \in Tasks |-> Absent]
           \/ PoolOp(task)
           \/ \E t \in Tasks : PoolOp(t) /\ pool[t] # Absent
<1>1. task \in Tasks /\ pool \in [Tasks -> Entries]
  BY DEF RunInv, TypeOK
<1>2. ASSUME NEW t \in Tasks, PoolClock(t) PROVE PoolOp(t) /\ pool[t] # Absent
  BY <1>2, EntryTypes DEF PoolClock, PoolOp, DeadlinePasses, Expire, Purge, Present
<1>3. ASSUME NEW t \in Tasks, NEW r \in Results, AgentSubmits(t, r) PROVE PoolOp(t) /\ pool[t] # Absent
  BY <1>3 DEF AgentSubmits, Submit, PoolOp, Present
<1>4. CASE Work
  <2>1. CASE CompleteFormatter
    <3>1. pool[task].result \in Results
      BY <2>1, <1>1 DEF CompleteFormatter, Entries
    <3> QED BY <3>1, <2>1 DEF CompleteFormatter, PoolOp
  <2>2. CASE BeginAttempt \/ RetryAttempt \/ FailStep \/ CompleteStep \/ Finalize
    BY <2>2 DEF BeginAttempt, RetryAttempt, FailStep, CompleteStep, Finalize, PoolOp
  <2>3. CASE \/ StartRun \/ CreateStep \/ StartStep \/ TimeoutFires \/ WaiterReturns \/ WaitLoop \/ StopGroup
             \/ EndAttempts \/ CreateDraft \/ EndRun \/ Restart
    BY <2>3 DEF StartRun, CreateStep, StartStep, TimeoutFires, WaiterReturns, WaitLoop, StopGroup, EndAttempts,
                CreateDraft, EndRun, Restart
  <2> QED BY <1>4, <2>1, <2>2, <2>3 DEF Work
<1> QED BY <1>2, <1>3, <1>4 DEF Next, Agent, LeaderExits, Crash

LEMMA PoolStep ==
    ASSUME RunInv, [Next]_vars
    PROVE  pool' \in [Tasks -> Entries] /\ \A t \in Tasks : EntrySound(t)'
<1>1. pool \in [Tasks -> Entries] /\ task \in Tasks /\ \A t \in Tasks : EntrySound(t)
  BY DEF RunInv, TypeOK
<1>2. CASE UNCHANGED pool
  BY <1>1, <1>2 DEF EntrySound
<1>3. CASE pool' = [t \in Tasks |-> Absent]
  BY <1>3, EntryTypes DEF EntrySound
<1>4. ASSUME NEW t \in Tasks, PoolOp(t) PROVE pool' \in [Tasks -> Entries] /\ \A u \in Tasks : EntrySound(u)'
  BY <1>1, <1>4, PoolOpSound DEF EntrySound
<1> QED BY <1>1, <1>2, <1>3, <1>4, StepTouches DEF vars

-------------------------------------------------------------------------------
\* The rest of the types.
LEMMA TypeStep ==
    ASSUME RunInv, [Next]_vars
    PROVE  TypeOK'
<1>1. TypeOK /\ pool' \in [Tasks -> Entries]
  BY PoolStep DEF RunInv
<1>2. CASE UNCHANGED vars
  BY <1>1, <1>2 DEF TypeOK, vars, goroutine, database, bounds
<1>3. ASSUME NEW t \in Tasks, PoolClock(t) PROVE TypeOK'
  BY <1>1, <1>3 DEF TypeOK, PoolClock, goroutine, database, bounds
<1>4. ASSUME NEW t \in Tasks, LeaderExits(t) \/ \E r \in Results : AgentSubmits(t, r) PROVE TypeOK'
  BY <1>1, <1>4 DEF TypeOK, LeaderExits, AgentSubmits, goroutine, database, bounds
<1>5. CASE Crash
  BY <1>1, <1>5 DEF TypeOK, Crash, Labels, database
<1>16. Fault \/ UNCHANGED bounds => faults' \in 0..MaxFaults /\ crashes' \in 0..MaxCrashes
  BY <1>1 DEF TypeOK, Fault, bounds
<1>6. ASSUME NEW status \in {"ready", "running", "completed", "failed"}, WriteRun(status)
      PROVE  run' \in {"ready", "running"} \cup Ended /\ lost' \in Losses /\ faults' \in 0..MaxFaults /\ crashes' \in 0..MaxCrashes
  <2>1. lost \in Losses /\ [lost EXCEPT !.run = TRUE] \in Losses /\ run \in {"ready", "running"} \cup Ended
    BY <1>1 DEF TypeOK, Losses
  <2> QED BY <1>6, <1>16, <2>1 DEF WriteRun, Ended
<1>13. ASSUME NEW status \in Rows, WriteStep(status)
       PROVE  stepRow' \in [Steps -> Rows] /\ lost' \in Losses /\ faults' \in 0..MaxFaults /\ crashes' \in 0..MaxCrashes
  <2>1. task[1] \in Steps /\ stepRow \in [Steps -> Rows] /\ lost \in Losses
    BY <1>1, TaskTypes DEF TypeOK, Rows, Losses, Steps
  <2>2. stepRow' \in [Steps -> Rows]
    BY <1>13, <2>1 DEF WriteStep
  <2>3. lost' \in Losses
    BY <1>13, <2>1 DEF WriteStep, Losses
  <2> QED BY <1>1, <1>13, <2>2, <2>3 DEF TypeOK, WriteStep, Fault, bounds
<1>7. CASE StartRun \/ EndRun \/ Restart
  <2>1. stepRow' \in [Steps -> Rows]
    BY <1>1, <1>7 DEF TypeOK, StartRun, EndRun, Restart, Rows
  <2>2. PICK status \in {"ready", "running", "completed", "failed"} : WriteRun(status)
    BY <1>1, <1>7 DEF TypeOK, StartRun, EndRun, Restart, FailActiveAgentRuns, Ended
  <2>3. run' \in {"ready", "running"} \cup Ended /\ lost' \in Losses /\ faults' \in 0..MaxFaults /\ crashes' \in 0..MaxCrashes
    BY <1>6, <2>2
  <2> QED BY <2>1, <2>3, <1>1, <1>7 DEF TypeOK, StartRun, EndRun, Restart, Labels, Rows, Losses
<1>14. CASE CreateStep \/ StartStep
  <2>1. stepRow' \in [Steps -> Rows] /\ lost' \in Losses /\ faults' \in 0..MaxFaults /\ crashes' \in 0..MaxCrashes
    <3>1. task[1] \in Steps /\ stepRow \in [Steps -> Rows] /\ lost \in Losses
      BY <1>1, TaskTypes DEF TypeOK, Rows, Losses, Steps
    <3>2. CASE CreateStep
      <4>1. stepRow' \in [Steps -> Rows]
        BY <3>1, <3>2 DEF CreateStep, Rows
      <4>2. lost' \in Losses
        BY <3>1, <3>2 DEF CreateStep, Losses
      <4> QED BY <1>1, <3>2, <4>1, <4>2 DEF CreateStep, TypeOK, Fault, bounds
    <3>3. CASE StartStep
      BY <1>13, <3>3 DEF StartStep, Rows
    <3> QED BY <1>14, <3>2, <3>3
  <2> QED BY <2>1, <1>1, <1>14 DEF TypeOK, CreateStep, StartStep, Labels, Rows, Losses
<1>8. CASE BeginAttempt \/ StopGroup
  <2>1. group' \in [Tasks -> {"off", "running", "leaderless", "gone"}]
    BY <1>1, <1>8 DEF TypeOK, BeginAttempt, StopGroup
  <2>2. saw' \in [result : BOOLEAN, error : BOOLEAN, timeout : BOOLEAN]
    <3>1. SawNothing \in [result : BOOLEAN, error : BOOLEAN, timeout : BOOLEAN]
      BY DEF SawNothing
    <3> QED BY <3>1, <1>1, <1>8 DEF TypeOK, BeginAttempt, StopGroup
  <2>3. CASE BeginAttempt
    <3>1. pc' \in Labels /\ waiter' \in {"off", "waiting", "result", "error"}
      BY <2>3 DEF BeginAttempt, Labels
    <3>2. err' \in {"none", "notStarted", "noResult", "timedOut", "exited", "invalid"}
      BY <1>1, <2>3 DEF TypeOK, BeginAttempt
    <3>3. pool' \in [Tasks -> Entries] /\ timeUp' \in BOOLEAN
      BY <1>1, <2>3 DEF BeginAttempt
    <3> QED BY <3>1, <3>2, <3>3, <2>1, <2>2, <1>1, <2>3 DEF TypeOK, BeginAttempt, database, bounds
  <2>4. CASE StopGroup
    <3>1. err' \in {"none", "notStarted", "noResult", "timedOut", "exited", "invalid"}
      BY <1>1, <2>4 DEF StopGroup, Verdict
    <3>2. pc' \in Labels /\ waiter' = "off"
      BY <1>1, <2>4 DEF StopGroup, Labels
    <3> QED BY <1>1, <3>1, <3>2, <2>1, <2>4 DEF TypeOK, StopGroup, database, bounds
  <2> QED BY <1>8, <2>3, <2>4
<1>9. CASE TimeoutFires \/ WaiterReturns \/ WaitLoop
  <2>1. CASE TimeoutFires
    BY <1>1, <2>1 DEF TypeOK, TimeoutFires, Labels, database, bounds
  <2>2. CASE WaiterReturns
    BY <1>1, <2>2 DEF TypeOK, WaiterReturns, Labels, database, bounds
  <2>3. CASE WaitLoop
    <3>1. saw' \in [result : BOOLEAN, error : BOOLEAN, timeout : BOOLEAN]
      BY <1>1, <2>3 DEF TypeOK, WaitLoop
    <3>2. pc' \in Labels /\ waiter' \in {"off", "waiting", "result", "error"}
      BY <1>1, <2>3 DEF TypeOK, WaitLoop, Labels
    <3> QED BY <1>1, <3>1, <3>2, <2>3 DEF TypeOK, WaitLoop, database, bounds
  <2> QED BY <1>9, <2>1, <2>2, <2>3
<1>10. CASE RetryAttempt \/ CompleteStep
  <2>1. task' \in Tasks
    <3>1. CASE RetryAttempt
      <4>1. task[1] \in 1..NSteps /\ task[2] + 1 \in 1..2
        BY <1>1, <3>1, TaskTypes DEF TypeOK, RetryAttempt, LastAttempt, maxAttempts
      <4> QED BY <4>1, <3>1, TaskTypes DEF RetryAttempt
    <3>2. CASE CompleteStep
      <4>1. task[1] \in 1..NSteps
        BY <1>1, TaskTypes DEF TypeOK
      <4>2. task[1] + 1 \in 1..NSteps /\ 1 \in 1..2
        BY <4>1, <3>2 DEF CompleteStep, IsFormatter
      <4>3. <<task[1] + 1, 1>> \in Tasks
        BY <4>2, TaskTypes
      <4> QED BY <4>3, <3>2 DEF CompleteStep
    <3> QED BY <1>10, <3>1, <3>2
  <2>2. stepRow' \in [Steps -> Rows] /\ lost' \in Losses /\ faults' \in 0..MaxFaults /\ crashes' \in 0..MaxCrashes
    <3>1. CASE RetryAttempt
      BY <1>1, <3>1 DEF TypeOK, RetryAttempt, database, bounds, Rows, Losses
    <3>2. CASE CompleteStep
      BY <1>13, <3>2 DEF CompleteStep, Rows
    <3> QED BY <1>10, <3>1, <3>2
  <2> QED BY <2>1, <2>2, <1>1, <1>10 DEF TypeOK, RetryAttempt, CompleteStep, Labels, database, Rows, Losses
<1>11. CASE EndAttempts
  BY <1>1, <1>11 DEF TypeOK, EndAttempts, Labels, database, bounds
<1>15. CASE FailStep \/ CompleteFormatter
  <2>1. stepRow' \in [Steps -> Rows] /\ lost' \in Losses /\ faults' \in 0..MaxFaults /\ crashes' \in 0..MaxCrashes
    BY <1>13, <1>15 DEF FailStep, CompleteFormatter, Rows
  <2> QED BY <2>1, <1>1, <1>15 DEF TypeOK, FailStep, CompleteFormatter, Labels, Rows, Losses
<1>12. CASE Finalize \/ CreateDraft
  <2>1. report' \in Results \cup {NoResult}
    BY <1>1, <1>12 DEF TypeOK, Finalize, CreateDraft, Entries
  <2>2. drafts' \in 0..NDrafts
    BY <1>1, <1>12 DEF TypeOK, Finalize, CreateDraft, database, RunInv, RowsFollow
  <2>3. faults' \in 0..MaxFaults /\ crashes' \in 0..MaxCrashes /\ lost' \in Losses
    <3>1. lost \in Losses /\ [lost EXCEPT !.run = TRUE] \in Losses
      BY <1>1 DEF TypeOK, Losses
    <3> QED BY <1>12, <1>16, <3>1 DEF Finalize, CreateDraft
  <2> QED BY <2>1, <2>2, <2>3, <1>1, <1>12 DEF TypeOK, Finalize, CreateDraft, Labels, Losses
<1> QED BY <1>2, <1>3, <1>4, <1>5, <1>7, <1>8, <1>9, <1>10, <1>11, <1>12, <1>14, <1>15 DEF Next, Work, Agent

\* Tasks ahead of the goroutine stay untouched.
LEMMA FreshStep ==
    ASSUME RunInv, [Next]_vars
    PROVE  \A t \in Tasks : Fresh(t)'
<1> SUFFICES ASSUME NEW t \in Tasks, Ahead(t)' PROVE (pool[t] = Absent /\ group[t] = "off")'
  BY DEF Fresh
<1>0. TypeOK /\ Fresh(t) /\ task \in Tasks /\ pool \in [Tasks -> Entries] /\ group \in [Tasks -> {"off", "running", "leaderless", "gone"}]
  BY DEF RunInv, TypeOK
<1>a. t[1] \in 1..NSteps /\ t[2] \in 1..2 /\ task[1] \in 1..NSteps /\ task[2] \in 1..2
  BY <1>0, TaskTypes
<1>1. CASE Crash
  BY <1>0, <1>1 DEF Crash, Ahead, Fresh
<1>2. CASE UNCHANGED vars
  BY <1>0, <1>2 DEF vars, goroutine, Ahead, Fresh
<1>3. ASSUME NEW u \in Tasks, PoolClock(u) PROVE (pool[t] = Absent /\ group[t] = "off")'
  <2>1. pool[t] = Absent /\ group[t] = "off" /\ group' = group
    BY <1>0, <1>3 DEF PoolClock, goroutine, Ahead, Fresh
  <2>2. pool[u] # Absent
    BY <1>3, EntryTypes DEF PoolClock, DeadlinePasses, Expire, Purge, Present
  <2> QED BY <2>1, <2>2, <1>0, <1>3 DEF PoolClock, DeadlinePasses, Expire, Purge, Update, Remove
<1>4. ASSUME NEW u \in Tasks, LeaderExits(u) \/ \E r \in Results : AgentSubmits(u, r)
      PROVE  (pool[t] = Absent /\ group[t] = "off")'
  <2>1. pool[t] = Absent /\ group[t] = "off"
    BY <1>0, <1>4 DEF LeaderExits, AgentSubmits, goroutine, Ahead, Fresh
  <2>2. u # t
    BY <2>1, <1>4 DEF LeaderExits, AgentSubmits
  <2> QED BY <2>1, <2>2, <1>0, <1>4 DEF LeaderExits, AgentSubmits, Submit, Update
<1>5. CASE \/ StartRun \/ CreateStep \/ StartStep \/ TimeoutFires \/ WaiterReturns \/ WaitLoop \/ EndAttempts
           \/ CreateDraft \/ EndRun \/ Restart
  <2>1. Ahead(t)
    BY <1>5 DEF StartRun, CreateStep, StartStep, TimeoutFires, WaiterReturns, WaitLoop, EndAttempts, CreateDraft, EndRun, Restart, Ahead
  <2> QED BY <2>1, <1>0, <1>5 DEF StartRun, CreateStep, StartStep, TimeoutFires, WaiterReturns, WaitLoop, EndAttempts, CreateDraft,
                                  EndRun, Restart, Fresh
<1>6. CASE BeginAttempt \/ StopGroup \/ FailStep \/ CompleteFormatter \/ Finalize
  <2>1. Ahead(t) /\ t # task
    BY <1>6, <1>a DEF BeginAttempt, StopGroup, FailStep, CompleteFormatter, Finalize, Ahead
  <2> QED BY <2>1, <1>0, <1>6 DEF BeginAttempt, StopGroup, FailStep, CompleteFormatter, Finalize, Fresh,
                                  CreateTask, Remove, Restore, Update
<1>7. CASE RetryAttempt \/ CompleteStep
  <2>1. Ahead(t) /\ t # task
    <3>1. \/ task' = <<task[1], task[2] + 1>>
          \/ task' = <<task[1] + 1, 1>>
      BY <1>7 DEF RetryAttempt, CompleteStep
    <3>2. \/ t[1] > task'[1]
          \/ t[1] = task'[1] /\ t[2] >= task'[2]
      BY <1>a, <3>1 DEF Ahead
    <3> QED BY <3>1, <3>2, <1>a DEF Ahead
  <2> QED BY <2>1, <1>0, <1>7 DEF RetryAttempt, CompleteStep, Fresh, Remove, Update
<1> QED BY <1>1, <1>2, <1>3, <1>4, <1>5, <1>6, <1>7 DEF Next, Work, Agent

LEMMA GroupStep ==
    ASSUME RunInv, [Next]_vars
    PROVE  \A t \in Tasks : OnlyCurrent(t)'
<1> SUFFICES ASSUME NEW t \in Tasks, Live(t)' PROVE (t = task /\ pc \in {"wait", "stop", "down", "done"})'
  BY DEF OnlyCurrent
<1>0. OnlyCurrent(t) /\ task \in Tasks /\ group \in [Tasks -> {"off", "running", "leaderless", "gone"}]
  BY DEF RunInv, TypeOK
<1>1. CASE UNCHANGED <<group, task>>
  <2>1. t = task /\ pc \in {"wait", "stop", "down", "done"}
    BY <1>0, <1>1 DEF OnlyCurrent, Live
  <2>2. pc' \in {"wait", "stop", "down", "done"}
    BY <2>1, <1>1, <1>0 DEF Next, Work, Agent, vars, goroutine, StartRun, CreateStep, StartStep, BeginAttempt, TimeoutFires,
       WaiterReturns, WaitLoop, StopGroup, RetryAttempt, EndAttempts, FailStep, CompleteStep, CompleteFormatter,
       Finalize, CreateDraft, EndRun, Restart, LeaderExits, AgentSubmits, Crash, PoolClock, Live
  <2> QED BY <2>1, <2>2, <1>1
<1>2. ASSUME NEW u \in Tasks, LeaderExits(u) PROVE (t = task /\ pc \in {"wait", "stop", "down", "done"})'
  BY <1>0, <1>2 DEF LeaderExits, OnlyCurrent, Live, goroutine
<1>3. CASE BeginAttempt
  BY <1>0, <1>3 DEF BeginAttempt, OnlyCurrent, Live
<1>4. CASE StopGroup
  BY <1>0, <1>4 DEF StopGroup, OnlyCurrent, Live
<1>5. CASE RetryAttempt \/ CompleteStep
  BY <1>0, <1>5 DEF RetryAttempt, CompleteStep, OnlyCurrent, Live
<1>6. \/ UNCHANGED <<group, task>> \/ BeginAttempt \/ StopGroup \/ RetryAttempt \/ CompleteStep
      \/ \E u \in Tasks : LeaderExits(u)
  BY DEF Next, Work, Agent, vars, goroutine, StartRun, CreateStep, StartStep, TimeoutFires,
       WaiterReturns, WaitLoop, EndAttempts, FailStep, CompleteFormatter,
       Finalize, CreateDraft, EndRun, Restart, AgentSubmits, Crash, PoolClock
<1> QED BY <1>1, <1>2, <1>3, <1>4, <1>5, <1>6

LEMMA WriteStepRows ==
    ASSUME TypeOK, NEW status \in Rows, WriteStep(status)
    PROVE  /\ \A s \in Steps \ {task[1]} : stepRow'[s] = stepRow[s] /\ (s \in lost'.steps <=> s \in lost.steps)
           /\ \/ task[1] \in lost'.steps /\ stepRow'[task[1]] = stepRow[task[1]]
              \/ UNCHANGED lost /\ stepRow'[task[1]] = IF stepRow[task[1]] = "none" THEN "none" ELSE status
<1>1. task[1] \in Steps /\ stepRow \in [Steps -> Rows] /\ lost \in Losses
  BY TaskTypes DEF TypeOK, Rows, Losses, Steps
<1>2. CASE stepRow' = [stepRow EXCEPT ![task[1]] = IF @ = "none" THEN @ ELSE status] /\ UNCHANGED lost
  BY <1>1, <1>2
<1>3. CASE UNCHANGED stepRow /\ lost' = [lost EXCEPT !.steps = @ \cup {task[1]}]
  <2>1. lost'.steps = lost.steps \cup {task[1]}
    BY <1>1, <1>3 DEF Losses
  <2> QED BY <1>1, <1>3, <2>1
<1> QED BY <1>2, <1>3 DEF WriteStep

LEMMA RowsStep ==
    ASSUME RunInv, [Next]_vars
    PROVE  RowsFollow'
<1>0. TypeOK /\ RowsFollow /\ TypeOK'
  BY TypeStep DEF RunInv
<1>a. task[1] \in Steps /\ task[1] \in 1..NSteps /\ stepRow \in [Steps -> Rows] /\ lost \in Losses
  BY <1>0, TaskTypes DEF TypeOK, Rows, Losses, Steps
\* A step that leaves the rows and the drafts alone, or loses the run's own row.
<1>b. ASSUME stepRow' = stepRow, lost'.steps = lost.steps
      PROVE  \A s \in Steps : Shown(s) => Shown(s)'
  BY <1>b DEF Shown
<1>1. CASE UNCHANGED <<pc, task, database>>
  BY <1>0, <1>1 DEF RowsFollow, AllShown, Shown, StepUnderWay, database
<1>2. CASE Crash
  BY <1>0, <1>2 DEF Crash, RowsFollow, AllShown, Shown, database, Early
<1>c. ASSUME NEW status, WriteRun(status) PROVE lost'.steps = lost.steps /\ run' \in {run, status}
  BY <1>a, <1>c DEF WriteRun, Losses
<1>3. CASE StartRun
  <2>1. pc' = "head" /\ UNCHANGED <<task, stepRow, drafts>> /\ lost'.steps = lost.steps /\ run' \notin Ended /\ pc = "start"
    BY <1>0, <1>3, <1>c DEF StartRun, RowsFollow, Ended
  <2>2. \A s \in Steps : Shown(s) => Shown(s)'
    BY <1>b, <2>1
  <2> QED BY <1>0, <2>1, <2>2 DEF RowsFollow, Early, Ended
<1>14. CASE CreateStep
  <2>1. /\ pc = "head" /\ pc' = "opened" /\ UNCHANGED <<task, run, drafts>> /\ run \notin Ended /\ drafts = 0
        /\ \A s \in Steps \ {task[1]} : stepRow'[s] = stepRow[s] /\ (s \in lost'.steps <=> s \in lost.steps)
        /\ stepRow'[task[1]] = "pending" \/ (stepRow'[task[1]] = "none" /\ task[1] \in lost'.steps)
    BY <1>0, <1>14, <1>a DEF CreateStep, RowsFollow, Losses
  <2>2. StepUnderWay'
    BY <2>1 DEF StepUnderWay
  <2>3. \A s \in Steps : s < task[1] => Shown(s)'
    BY <1>0, <1>a, <2>1 DEF RowsFollow, Shown, Steps
  <2>4. \A s \in Steps : s > task[1] => stepRow'[s] = "none"
    BY <1>0, <1>a, <2>1 DEF RowsFollow, Steps
  <2> QED BY <2>1, <2>2, <2>3, <2>4 DEF RowsFollow, Early, Ended
\* What a write of the current step's row leaves of the others.
<1>d. ASSUME NEW status \in Rows, WriteStep(status), pc \in Early
      PROVE  /\ \A s \in Steps : s < task[1] => Shown(s)'
             /\ \A s \in Steps : s > task[1] => stepRow'[s] = "none"
             /\ stepRow'[task[1]] = status \/ (stepRow'[task[1]] # "failed" /\ task[1] \in lost'.steps)
  <2>1. /\ \A s \in Steps \ {task[1]} : stepRow'[s] = stepRow[s] /\ (s \in lost'.steps <=> s \in lost.steps)
        /\ \/ task[1] \in lost'.steps /\ stepRow'[task[1]] = stepRow[task[1]]
           \/ UNCHANGED lost /\ stepRow'[task[1]] = IF stepRow[task[1]] = "none" THEN "none" ELSE status
    BY <1>0, <1>d, WriteStepRows
  <2>2. StepUnderWay
    BY <1>0, <1>d DEF RowsFollow
  <2>3. \A s \in Steps : s < task[1] => Shown(s)'
    BY <1>0, <1>a, <1>d, <2>1 DEF RowsFollow, Shown, Steps
  <2>4. \A s \in Steps : s > task[1] => stepRow'[s] = "none"
    BY <1>0, <1>a, <1>d, <2>1 DEF RowsFollow, Steps
  <2> QED BY <2>1, <2>2, <2>3, <2>4 DEF StepUnderWay
<1>15. CASE StartStep
  <2>1. pc' = "begin" /\ UNCHANGED <<task, run, drafts>> /\ run \notin Ended /\ drafts = 0 /\ pc = "opened"
    BY <1>0, <1>15 DEF StartStep, RowsFollow, Early
  <2>2. /\ \A s \in Steps : s < task[1] => Shown(s)'
        /\ \A s \in Steps : s > task[1] => stepRow'[s] = "none"
        /\ stepRow'[task[1]] = "running" \/ (stepRow'[task[1]] # "failed" /\ task[1] \in lost'.steps)
    BY <1>15, <1>d DEF StartStep, Rows, Early
  <2>3. StepUnderWay'
    BY <2>1, <2>2 DEF StepUnderWay
  <2> QED BY <2>1, <2>2, <2>3 DEF RowsFollow, Early, Ended
<1>4. CASE \/ BeginAttempt \/ WaitLoop \/ StopGroup \/ EndAttempts
  BY <1>0, <1>4 DEF BeginAttempt, WaitLoop, StopGroup, EndAttempts, RowsFollow, AllShown, Shown, StepUnderWay, Early, database
<1>5. CASE RetryAttempt
  BY <1>0, <1>5 DEF RetryAttempt, RowsFollow, AllShown, Shown, StepUnderWay, Early, database
<1>6. CASE FailStep
  BY <1>0, <1>6 DEF FailStep, RowsFollow, Early, Ended
<1>7. CASE CompleteStep
  <2>1. run \notin Ended /\ drafts = 0 /\ pc \in Early
    BY <1>0, <1>7 DEF CompleteStep, RowsFollow, Early
  <2>2. pc' = "head" /\ task'[1] = task[1] + 1 /\ drafts' = 0 /\ run' \notin Ended
    BY <1>7, <2>1 DEF CompleteStep
  <2>3. /\ \A s \in Steps : s < task[1] => Shown(s)'
        /\ \A s \in Steps : s > task[1] => stepRow'[s] = "none"
        /\ stepRow'[task[1]] = "completed" \/ (stepRow'[task[1]] # "failed" /\ task[1] \in lost'.steps)
    BY <1>7, <2>1, <1>d DEF CompleteStep, Rows
  <2>5. \A s \in Steps : s < task'[1] => Shown(s)'
    BY <1>a, <2>2, <2>3 DEF Shown, Steps
  <2>6. task'[1] \in Steps /\ task'[1] > task[1] /\ \A s \in Steps : s > task'[1] => s > task[1]
    BY SMTT(30), <1>0, <1>a, <2>2, TaskTypes DEF TypeOK, Steps
  <2> QED BY <2>2, <2>3, <2>5, <2>6 DEF RowsFollow, Early, Ended
<1>8. CASE CompleteFormatter
  <2>1. run \notin Ended /\ drafts = 0 /\ pc \in Early /\ task[1] = NSteps
    BY <1>0, <1>8 DEF CompleteFormatter, RowsFollow, Early, IsFormatter
  <2>2. pc' = "finalize" /\ UNCHANGED <<task, drafts, run>>
    BY <1>8 DEF CompleteFormatter
  <2>3. /\ \A s \in Steps : s < task[1] => Shown(s)'
        /\ stepRow'[task[1]] = "completed" \/ (stepRow'[task[1]] # "failed" /\ task[1] \in lost'.steps)
    BY <1>8, <2>1, <1>d DEF CompleteFormatter, Rows
  <2>4. AllShown'
    BY <1>a, <2>1, <2>3 DEF AllShown, Shown, Steps
  <2> QED BY <2>1, <2>2, <2>4 DEF RowsFollow, Early, Ended
<1>9. CASE Finalize
  <2>1. UNCHANGED <<run, stepRow, drafts>> /\ lost'.steps = lost.steps /\ pc' \in {"drafts", "fail", "done"}
    BY <1>9, <1>a DEF Finalize, Losses
  <2>2. run \notin Ended /\ drafts = 0 /\ AllShown
    BY <1>0, <1>9 DEF Finalize, RowsFollow
  <2>3. AllShown'
    BY <1>b, <2>1, <2>2 DEF AllShown
  <2> QED BY <2>1, <2>2, <2>3 DEF RowsFollow, Early, Ended
<1>10. CASE CreateDraft
  <2>1. run' = run /\ UNCHANGED <<stepRow, lost>> /\ run \notin Ended /\ AllShown /\ drafts < NDrafts
    BY <1>0, <1>10 DEF CreateDraft, RowsFollow
  <2>2. drafts' \in 0..NDrafts /\ drafts \in 0..NDrafts
    BY <1>0 DEF TypeOK
  <2>3. \/ pc' = "drafts" /\ drafts' < NDrafts
        \/ pc' = "complete" /\ drafts' = NDrafts
        \/ pc' = "fail"
    BY <1>10, <2>1, <2>2 DEF CreateDraft
  <2> QED BY <2>1, <2>3 DEF RowsFollow, AllShown, Shown, Early, Ended
<1>11. CASE EndRun
  <2>1. UNCHANGED <<stepRow, drafts>> /\ lost'.steps = lost.steps /\ pc' = "done" /\ run \notin Ended
    BY <1>0, <1>11, <1>c DEF EndRun, RowsFollow
  <2>2. run' = "completed" => drafts = NDrafts /\ AllShown
    BY <1>0, <1>11, <1>c, <2>1 DEF EndRun, RowsFollow, Ended
  <2>3. AllShown => AllShown'
    BY <1>b, <2>1 DEF AllShown
  <2> QED BY <2>1, <2>2, <2>3 DEF RowsFollow, Early
<1>12. CASE Restart
  <2>1. /\ UNCHANGED <<stepRow, drafts>> /\ lost'.steps = lost.steps /\ pc' = "done"
        /\ run' = "completed" => run = "completed"
    BY <1>0, <1>12, <1>c DEF Restart, FailActiveAgentRuns
  <2>2. AllShown => AllShown'
    BY <1>b, <2>1 DEF AllShown
  <2> QED BY <1>0, <2>1, <2>2 DEF RowsFollow, Early
<1>13. \/ UNCHANGED <<pc, task, database>>
       \/ Crash \/ StartRun \/ CreateStep \/ StartStep \/ BeginAttempt \/ WaitLoop \/ StopGroup \/ EndAttempts
       \/ RetryAttempt \/ FailStep \/ CompleteStep \/ CompleteFormatter \/ Finalize \/ CreateDraft \/ EndRun \/ Restart
  BY DEF Next, Work, Agent, vars, goroutine, TimeoutFires, WaiterReturns, LeaderExits, AgentSubmits, PoolClock
<1> QED BY <1>1, <1>2, <1>3, <1>4, <1>5, <1>6, <1>7, <1>8, <1>9, <1>10, <1>11, <1>12, <1>13, <1>14, <1>15

-------------------------------------------------------------------------------
LEMMA Invariance == Spec => []RunInv
<1>1. RunInv /\ [Next]_vars => RunInv'
  BY TypeStep, RowsStep, PoolStep, FreshStep, GroupStep DEF RunInv
<1> QED BY <1>1, InitSound, PTL DEF Spec

\* Every variable keeps its type, and no report yields more drafts than it has
\* (CreateStrategy once for each draft).
THEOREM RunTypes == Spec => []TypeOK
BY Invariance, PTL DEF RunInv

\* A run is shown as completed only with all its drafts stored, no step failed, and the
\* steps' rows completed as far as they could be written (finalizeAgentRunWithOutput
\* writes the run last).
THEOREM CompletedRuns == Spec => []CompletedIsWhole
<1>1. RunInv => CompletedIsWhole
  BY DEF RunInv, RowsFollow, AllShown, CompletedIsWhole
<1> QED BY <1>1, Invariance, PTL

\* No channel of the pool is closed twice, whatever the agent posts and wherever the
\* program dies.
THEOREM PoolSafety == Spec => []WaitingIsOpen
<1>1. RunInv => WaitingIsOpen
  BY DEF RunInv, EntrySound, WaitingIsOpen
<1> QED BY <1>1, Invariance, PTL

\* No two codex groups of a run are alive together, over any number of restarts.
THEOREM OneGroupAlive == Spec => []OneGroup
<1>1. RunInv => OneGroup
  BY DEF RunInv, OnlyCurrent, OneGroup
<1> QED BY <1>1, Invariance, PTL

\* The first accepted result of a task is the one the program takes.
THEOREM FirstWins == Spec => FirstResultWins
<1> DEFINE Keeps(t) == pool'[t].result \in {pool[t].result, NoResult}
                       /\ (pool'[t].result = NoResult => pool'[t] = Absent)
<1>1. ASSUME RunInv, [Next]_vars, NEW t \in Tasks, pool[t].result # NoResult PROVE Keeps(t)
  <2>0. pool \in [Tasks -> Entries] /\ task \in Tasks /\ EntrySound(t) /\ Fresh(t)
    BY <1>1 DEF RunInv, TypeOK
  <2>a. \A e \in Entries :
          /\ [e EXCEPT !.status = "expired"].result = e.result
          /\ [e EXCEPT !.overdue = TRUE].result = e.result
          /\ [e EXCEPT !.status = "expired", !.closed = TRUE].result = e.result
    BY DEF Entries
  <2>1. ASSUME NEW u \in Tasks,
               \/ Remove(u) \/ DeadlinePasses(u) \/ Expire(u) \/ Purge(u)
               \/ (\E r \in Results : Submit(u, r)) \/ Restore(u, pool[u].result)
        PROVE  Keeps(t)
    <3>1. CASE Remove(u) \/ Purge(u)
      BY <1>1, <2>0, <3>1, EntryTypes DEF Remove, Purge, Update
    <3>2. CASE DeadlinePasses(u) \/ Expire(u)
      <4>1. pool[u] \in Entries
        BY <2>0
      <4>2. \E e \in Entries : pool' = [pool EXCEPT ![u] = e] /\ e.result = pool[u].result
        <5>1. [pool[u] EXCEPT !.overdue = TRUE] \in Entries
              /\ [pool[u] EXCEPT !.status = "expired", !.closed = TRUE] \in Entries
          BY <4>1 DEF Entries
        <5> QED BY <4>1, <5>1, <2>a, <3>2 DEF DeadlinePasses, Expire, Update
      <4> QED BY <4>2, <1>1, <2>0
    <3>3. CASE \E r \in Results : Submit(u, r)
      <4>1. CASE t = u
        <5>1. pool[t].status # "waiting" /\ pool[t] \in Entries
          BY <1>1, <2>0 DEF EntrySound
        <5>2. pool' = [pool EXCEPT ![t] = [pool[t] EXCEPT !.status = "expired"]]
          BY <5>1, <4>1, <3>3 DEF Submit, Update
        <5> QED BY <1>1, <5>1, <5>2, <2>0, <2>a
      <4>2. CASE t # u
        BY <4>2, <1>1, <2>0, <3>3 DEF Submit, Update
      <4> QED BY <4>1, <4>2
    <3>4. CASE Restore(u, pool[u].result)
      <4>1. [Waiting EXCEPT !.status = "submitted", !.result = pool[u].result, !.closed = TRUE].result = pool[u].result
        BY DEF Waiting, Absent
      <4> QED BY <4>1, <1>1, <2>0, <3>4 DEF Restore, Update
    <3> QED BY <2>1, <3>1, <3>2, <3>3, <3>4
  <2>2. CASE BeginAttempt
    <3>1. t # task
      BY <1>1, <2>0, <2>2, EntryTypes DEF BeginAttempt, Fresh, Ahead
    <3> QED BY <3>1, <1>1, <2>0, <2>2 DEF BeginAttempt, CreateTask, Update
  <2>3. CASE UNCHANGED pool
    BY <1>1, <2>3
  <2>4. CASE Crash
    BY <2>4, EntryTypes DEF Crash
  <2>5. CASE \/ RetryAttempt \/ FailStep \/ CompleteStep \/ CompleteFormatter \/ Finalize
    BY <2>0, <2>1, <2>3, <2>5 DEF RetryAttempt, FailStep, CompleteStep, CompleteFormatter, Finalize
  <2>6. ASSUME NEW u \in Tasks, PoolClock(u) \/ \E r \in Results : AgentSubmits(u, r)
        PROVE  Keeps(t)
    BY <2>1, <2>6 DEF PoolClock, AgentSubmits
  <2> QED BY <1>1, <2>2, <2>3, <2>4, <2>5, <2>6 DEF Next, Work, Agent, vars, StartRun, CreateStep, StartStep, TimeoutFires, WaiterReturns,
            WaitLoop, StopGroup, EndAttempts, CreateDraft, EndRun, Restart, LeaderExits
<1>2. RunInv /\ [Next]_vars =>
        [\A t \in Tasks : pool[t].result # NoResult => Keeps(t)]_vars
  BY <1>1
<1> QED BY <1>2, Invariance, PTL DEF Spec, FirstResultWins

\* An ended run stays as it ended: the goroutine writes it once, and a restart
\* fails only runs that are ready or running (FailActiveAgentRuns).
THEOREM EndedStays == Spec => EndedIsFinal
<1>1. RunInv /\ [Next]_vars => [(run \in Ended) => run' = run]_vars
  <2> SUFFICES ASSUME RunInv, [Next]_vars, run \in Ended PROVE run' = run
    OBVIOUS
  <2>1. pc \in {"done", "down"}
    BY DEF RunInv, RowsFollow
  <2> QED BY <2>1 DEF Next, Work, Agent, vars, database, StartRun, CreateStep, StartStep, BeginAttempt, TimeoutFires, WaiterReturns,
            WaitLoop, StopGroup, RetryAttempt, EndAttempts, FailStep, CompleteStep, CompleteFormatter, Finalize,
            CreateDraft, EndRun, Restart, FailActiveAgentRuns, WriteRun, LeaderExits, AgentSubmits, Crash, PoolClock
<1> QED BY <1>1, Invariance, PTL DEF Spec, EndedIsFinal
===============================================================================
