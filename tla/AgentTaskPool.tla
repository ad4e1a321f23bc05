---------------------------- MODULE AgentTaskPool ----------------------------
(***************************************************************************)
(* The in-memory pool of agent tasks (stockv2): the main program creates a *)
(* task, the agent's MCP call submits a result for it, a waiting executor  *)
(* is woken by a closed channel, the program takes the result out, and a   *)
(* ticker expires and drops what nobody took.                              *)
(*                                                                         *)
(* Each operation runs under the entry's mutex and is one step. A call that *)
(* found its entry before it was removed writes to an entry nobody reads,  *)
(* which is the same as coming too late.                                   *)
(***************************************************************************)
EXTENDS Naturals

CONSTANTS
    Tasks,      \* task ids, each created at most once
    Results,    \* what an agent may submit
    NoResult    \* submittedResult is nil

ASSUME PoolConstants == NoResult \notin Results

VARIABLE pool   \* agentTaskPool.tasks

\* overdue: the entry's deadline is past.
Absent  == [status |-> "none", result |-> NoResult, closed |-> FALSE, overdue |-> FALSE]
Waiting == [Absent EXCEPT !.status = "waiting"]

Entries == [status : {"none", "waiting", "submitted", "expired"},
            result : Results \cup {NoResult}, closed : BOOLEAN, overdue : BOOLEAN]

Present(t) == pool[t] # Absent
Update(t, entry) == pool' = [pool EXCEPT ![t] = entry]

PoolInit == pool = [t \in Tasks |-> Absent]

CreateTask(t) == Update(t, Waiting)
Remove(t) == Update(t, Absent)

\* restoreAgentTaskSubmittedResult: a fresh entry that is submitted already.
Restore(t, r) == Update(t, [Waiting EXCEPT !.status = "submitted", !.result = r, !.closed = TRUE])

\* mutant of Submit: does not ask whether a result is there
LastWins(t, r) ==
    /\ Present(t)
    /\ IF pool[t].overdue THEN Update(t, [pool[t] EXCEPT !.status = "expired"])
       ELSE /\ pool[t].status # "expired"
            /\ Update(t, [pool[t] EXCEPT !.status = "submitted", !.result = r, !.closed = TRUE])
\* submitResult. After the deadline it only marks the entry, whatever its
\* status, and wakes nobody; a duplicate changes nothing and is no step.
Submit(t, r) ==
    /\ Present(t)
    /\ IF pool[t].overdue THEN Update(t, [pool[t] EXCEPT !.status = "expired"])
       ELSE /\ pool[t].status = "waiting"
            /\ Update(t, [pool[t] EXCEPT !.status = "submitted", !.result = r, !.closed = TRUE])

DeadlinePasses(t) ==
    /\ Present(t) /\ ~pool[t].overdue
    /\ Update(t, [pool[t] EXCEPT !.overdue = TRUE])

\* mutant of Expire: wakes the waiter and leaves the status
ClosesOnly(t) ==
    /\ pool[t].status = "waiting" /\ pool[t].overdue
    /\ Update(t, [pool[t] EXCEPT !.closed = TRUE])
\* cleanupExpired, first half.
Expire(t) ==
    /\ pool[t].status = "waiting" /\ pool[t].overdue
    /\ Update(t, [pool[t] EXCEPT !.status = "expired", !.closed = TRUE])

\* mutant of Purge: an entry that was submitted stays
PurgesExpired(t) == pool[t].status = "expired" /\ pool[t].overdue /\ Remove(t)
\* cleanupExpired, second half: an hour after the result, or five minutes
\* after the deadline; either is long after the task's own attempt.
Purge(t) == pool[t].status \in {"submitted", "expired"} /\ pool[t].overdue /\ Remove(t)
==============================================================================
