---------------------------- MODULE MCSupervisor ----------------------------
(***************************************************************************)
(* Supervisor with a history of the boots that ended, to state what the    *)
(* fast-fail counter and the backoff table are for without using them.     *)
(***************************************************************************)
EXTENDS Supervisor

VARIABLES
    boots,   \* the last boots of each supervisor since its last rollback
    streak   \* boots in a row that were not stable, rollback or not

mcVars == <<vars, boots, streak>>

\* Longest streak that is told apart: one rollback and then one whole delay table.
StreakCap == FastFailThreshold + Len(DelayTable)

MCInit ==
    /\ Init
    /\ boots = [s \in Sups |-> <<>>]
    /\ streak = [s \in Sups |-> 0]

ThisBoot(s) == [job |-> HandoffJob, short |-> uptime[child[s]] < FastFailMaxUptime]

\* Only the last FastFailThreshold - 1 boots can matter to a later decision.
Remember(s) ==
    LET all == Append(boots[s], ThisBoot(s))
    IN  boots' = [boots EXCEPT ![s] = IF Len(all) < FastFailThreshold THEN all ELSE Tail(all)]

CountStreak(s) ==
    streak' = [streak EXCEPT ![s] = IF uptime[child[s]] > StableAfter THEN 0 ELSE Bump(@, StreakCap)]

MCNext ==
    \/ \E s \in Sups :
        \/ AcquireLock(s) /\ boots' = [boots EXCEPT ![s] = <<>>] /\ streak' = [streak EXCEPT ![s] = 0]
        \/ (ExitWithoutRollback(s) \/ RestoreFails(s)) /\ Remember(s) /\ CountStreak(s)
        \/ RestoreOk(s) /\ boots' = [boots EXCEPT ![s] = <<>>] /\ CountStreak(s)
        \/ /\ \/ LockHeldByOther(s) \/ WriteSupervisorPid(s) \/ PidWriteFails(s)
              \/ Start(s) \/ WaitChild(s) \/ Wake(s) \/ StopAsleep(s) \/ Stop(s)
           /\ UNCHANGED <<boots, streak>>
    \/ Environment /\ UNCHANGED <<boots, streak>>

\* Fairness of the actions; the history variables follow them.
MCSpec == MCInit /\ [][MCNext]_mcVars /\ Fairness

-----------------------------------------------------------------------------
\* handleHandoffAfterExit rolls back exactly when the handoff names a backup and
\* has expired, or when the boot that ended and the ones just before it, as many
\* as the threshold, were all short and all under this same handoff.
ShortUnderThisHandoff(s) ==
    LET window == Append(boots[s], ThisBoot(s))
    IN  /\ Len(window) >= FastFailThreshold
        /\ \A i \in DOMAIN window : window[i].short /\ window[i].job = HandoffJob

RollbackExactlyWhenDue ==
    [][\A s \in Sups :
        pc[s] = "wait" /\ pc'[s] = "sleep" =>
            (RestoreOk(s) \/ RestoreFails(s) <=>
                /\ handoff \in Handoffs /\ handoff.backup # None
                /\ ShortUnderThisHandoff(s) \/ age >= RestartTimeout)]_mcVars

\* The supervisor design promises 1s, 2s, 5s, 10s, 30s, 30s... for a child that keeps
\* failing: after one rollback and a full table of unstable boots the delay is maximal.
CrashLoopBacksOff ==
    \A s \in Sups :
        pc[s] = "sleep" /\ streak[s] = StreakCap => delay[s] = BackoffStep(Len(DelayTable))
=============================================================================
