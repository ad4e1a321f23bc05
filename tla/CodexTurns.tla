----------------------------- MODULE CodexTurns -----------------------------
(***************************************************************************)
(* Turns of the Codex client (codexclient/service.go, p1.go): the queue and *)
(* its scheduling lock, the goroutine that hands a turn to the app-server   *)
(* and saves what it knew before the call, notifications and requests that  *)
(* come back through two pumps, the owner's interrupt, the watchdog, and a  *)
(* restart of the main program. Each turn has a thread of its own, which an *)
(* owner may archive and take back at any time.                             *)
(*                                                                          *)
(* The app-server is seen through ServerOffer, which AppServerSupervisor    *)
(* implements; its process answers, asks, ends turns or stays silent.       *)
(***************************************************************************)
EXTENDS Integers, FiniteSets

CONSTANTS
    Turns,
    Setups,             \* the limit, the turns' workspaces, which turns ask, whose threads are
                        \* archived, which interrupts come (the last three are bounds)
    Interrupts,         \* requests that interrupt a turn
    Servers, None,      \* app-server processes; no server, no turn
    MaxTroubles         \* bound on failed reads and saves and restarts

ASSUME TurnConstants ==
    /\ None \notin Servers
    /\ IsFiniteSet(Turns) /\ None \notin Turns /\ "drain" \notin Turns \cup {None}
    /\ \A s \in Setups : s.limit \in Nat \ {0} /\ s.asking \cup s.archiving \subseteq Turns
    /\ MaxTroubles \in Nat

VARIABLES
    setup,      \* one of Setups
    row,        \* codex_cli_turns.status
    thread,     \* archived_at of the turn's thread: "listed", "archived", listed "again"
    input,      \* queuedInputs: turns whose prompt is in memory
    active,     \* activeTurns
    lock,       \* what turnScheduleMu is held for: None, a turn's insert, "drain"
    drain,      \* drainTurnQueue
    run,        \* the goroutine of each turn and the server it talks to
    call,       \* interrupt requests
    remote,     \* the turn as its server sees it: "none", "on", "ended"
    note,       \* its terminal notification: "none", "sent", "gone"
    ask,        \* its approval request, and the turn it was recorded for
    offered, spent,     \* ServerOffer
    astray,     \* history: turns whose row a stale copy was saved over when it had ended,
                \* or whose last save or whose save as running was lost
    troubles    \* bound

memory == <<input, active, lock, drain, run, call>>
server == <<remote, note, ask, offered, spent>>
vars == <<setup, row, thread, memory, server, astray, troubles>>

MaxConcurrentTurns == setup.limit
WorkspaceOf(t) == setup.workspace[t]

Live  == {"running", "waiting"}
Open  == Live \cup {"queued"}
Final == {"completed", "failed", "cancelled"}

LiveTurns == {t \in Turns : row[t] \in Live}

\* workspaceHasLiveTurn: archived threads are not looked at.
Seen(t)    == thread[t] # "archived"
Busy(w)    == \E t \in LiveTurns : Seen(t) /\ WorkspaceOf(t) = w
Waiting(w) == \E t \in Turns : row[t] = "queued" /\ Seen(t) /\ WorkspaceOf(t) = w
Full == Cardinality(LiveTurns) >= MaxConcurrentTurns

NoRun   == [at |-> "none", on |-> None]
NoDrain == [at |-> "off", left |-> {}, turn |-> None, did |-> FALSE]
NoCall  == [at |-> "ready", turn |-> None]
CallOver == [NoCall EXCEPT !.at = "over"]
NoAsk   == [at |-> "none", for |-> None]

Offer == INSTANCE ServerOffer

TypeOK ==
    /\ setup \in Setups
    /\ row \in [Turns -> {"absent"} \cup Open \cup Final]
    /\ thread \in [Turns -> {"listed", "archived", "again"}]
    /\ input \subseteq Turns
    /\ active \subseteq Turns
    /\ lock \in Turns \cup {None, "drain"}
    /\ drain \in [at : {"off", "count", "list", "save"}, left : SUBSET Turns,
                  turn : Turns \cup {None}, did : BOOLEAN]
    /\ run \in [Turns -> [at : {"none", "dispatch", "calling",
                                "watched", "exec", "over"},
                          on : Servers \cup {None}]]
    /\ call \in [Interrupts -> [at : {"ready", "take", "cancel", "over"}, turn : Turns \cup {None}]]
    /\ remote \in [Turns -> {"none", "on", "ended"}]
    /\ note \in [Turns -> {"none", "sent", "gone"}]
    /\ ask \in [Turns -> [at : {"none", "sent", "seen", "gone"}, for : Turns \cup {None}]]
    /\ Offer!TypeOK
    /\ astray \subseteq Turns
    /\ troubles \in 0..MaxTroubles

Init ==
    /\ setup \in Setups
    /\ row = [t \in Turns |-> "absent"]
    /\ thread = [t \in Turns |-> "listed"]
    /\ input = {}
    /\ active = {}
    /\ lock = None
    /\ drain = NoDrain
    /\ run = [t \in Turns |-> NoRun]
    /\ call = [c \in Interrupts |-> NoCall]
    /\ remote = [t \in Turns |-> "none"]
    /\ note = [t \in Turns |-> "none"]
    /\ ask = [t \in Turns |-> NoAsk]
    /\ Offer!Init
    /\ astray = {}
    /\ troubles = 0

Trouble == troubles < MaxTroubles /\ troubles' = troubles + 1

\* SaveCodexCliTurn: the whole row, whatever is in it.
Save(t, status) ==
    /\ row' = [row EXCEPT ![t] = status]
    /\ astray' = IF row[t] \in Final THEN astray \cup {t} ELSE astray

\* SaveCodexCliTurnIfStatus.
SaveIf(t, status, allowed) ==
    row' = IF row[t] \in allowed THEN [row EXCEPT ![t] = status] ELSE row

\* A turn that is over is left behind as it is.
LeftOpen(t) ==
    /\ Trouble
    /\ row' = row
    /\ astray' = IF row[t] \in Open THEN astray \cup {t} ELSE astray

\* finishTurnStatus of a turn nobody will close again; a failed save is logged.
Finish(t, status, allowed) ==
    \/ SaveIf(t, status, allowed) /\ UNCHANGED <<astray, troubles>>
    \/ LeftOpen(t)

Goto(t, from, to) == run[t].at = from /\ run' = [run EXCEPT ![t].at = to]

\* A way a turn of the app-server ends: its status and where it may come from.
Endings == {<<"completed", Live>>, <<"failed", Open>>, <<"cancelled", Open>>}

----------------------------------------------------------------------------
\* StartTurn, QueueTurn

\* A turn is inserted as running if there is room; a failing check queues it.
MayInsert(t, status) ==
    /\ lock = None
    /\ row[t] = "absent"
    /\ status = "running" => ~Full /\ ~Busy(WorkspaceOf(t)) /\ ~Waiting(WorkspaceOf(t))

\* Count, check and insert are one under turnScheduleMu; QueueTurn always queues.
StartTurn(t) ==
    /\ \E status \in {"running", "queued"} :
        /\ MayInsert(t, status)
        /\ row' = [row EXCEPT ![t] = status]
        /\ lock' = IF status = "queued" THEN t ELSE None
        /\ run' = IF status = "running" THEN [run EXCEPT ![t].at = "dispatch"] ELSE run
    /\ UNCHANGED <<input, active, drain, call, server, astray, troubles, setup>>

\* The inserted row cannot be read back, or binding the attachments fails and the
\* turn is failed, if that can be saved.
StartFails(t) ==
    /\ Trouble
    /\ \E status \in {"running", "queued"} :
        /\ MayInsert(t, status)
        /\ \E saved \in {status, "failed"} : row' = [row EXCEPT ![t] = saved]
    /\ astray' = IF row'[t] = "running" THEN astray \cup {t} ELSE astray
    /\ UNCHANGED <<memory, server, setup>>

\* The queued turn's prompt is kept in memory and the lock released.
Enqueue(t) ==
    /\ lock = t
    /\ input' = input \cup {t}
    /\ lock' = None
    /\ UNCHANGED <<row, active, drain, run, call, server, astray, troubles, setup>>

\* dispatchPreparedTurn: to "codex exec", or nowhere, or to the app-server, where
\* thread/start may fail before the turn is registered and turn/start sent.
DispatchExec(t) ==
    /\ Goto(t, "dispatch", "exec")
    /\ UNCHANGED <<row, input, active, lock, drain, call, server, astray, troubles, setup>>

DispatchFails(t) ==
    /\ Goto(t, "dispatch", "over")
    /\ Finish(t, "failed", Open)
    /\ UNCHANGED <<input, active, lock, drain, call, server, setup>>

DispatchToServer(t) ==
    /\ run[t].at = "dispatch"
    /\ offered # None
    /\ run' = [run EXCEPT ![t] = [at |-> "calling", on |-> offered]]
    /\ active' = active \cup {t}
    /\ remote' = [remote EXCEPT ![t] = "on"]
    /\ UNCHANGED <<row, input, lock, drain, call, note, ask, offered, spent, astray, troubles, setup>>

\* runExecTurn ends with completeTurn or failTurn.
ExecEnds(t) ==
    /\ Goto(t, "exec", "over")
    /\ \E e \in Endings : e[1] # "cancelled" /\ Finish(t, e[1], e[2])
    /\ UNCHANGED <<input, active, lock, drain, call, server, setup>>

----------------------------------------------------------------------------
\* runAppServerTurn from turn/start on

\* turn/start fails: connection lost, client closed, an error, 30 minutes.
CallFails(t) ==
    /\ Goto(t, "calling", "over")
    /\ Finish(t, "failed", Open)
    /\ active' = active \ {t}
    /\ UNCHANGED <<input, lock, drain, call, server, setup>>

\* turn/start was answered, some time ago: if the answer has a Codex id, the turn
\* as it was before the call is saved with it; the watchdog is started.
SaveStarted(t) ==
    /\ Goto(t, "calling", "watched")
    /\ Save(t, "running") \/ UNCHANGED <<row, astray>>
    /\ UNCHANGED <<input, active, lock, drain, call, server, troubles, setup>>

\* mutant of Watchdog: only a turn that is running is timed out
WatchRunningOnly(t) ==
    /\ Goto(t, "watched", "over")
    /\ \/ /\ t \in active /\ row[t] = "running"
          /\ row' = [row EXCEPT ![t] = "failed"]
          /\ active' = active \ {t}
          /\ UNCHANGED <<astray, troubles>>
       \/ /\ t \in active
          /\ LeftOpen(t)
          /\ UNCHANGED active
       \/ /\ ~(t \in active /\ row[t] = "running")
          /\ UNCHANGED <<row, active, astray, troubles>>
    /\ UNCHANGED <<input, lock, drain, call, server, setup>>

\* watchAppServerTurn after 30 minutes, once: a read or the save may fail.
Watchdog(t) ==
    /\ Goto(t, "watched", "over")
    /\ \/ /\ t \in active /\ row[t] \in Live
          /\ row' = [row EXCEPT ![t] = "failed"]
          /\ active' = active \ {t}
          /\ UNCHANGED <<astray, troubles>>
       \/ /\ t \in active
          /\ LeftOpen(t)
          /\ UNCHANGED active
       \/ /\ ~(t \in active /\ row[t] \in Live)
          /\ UNCHANGED <<row, active, astray, troubles>>
    /\ UNCHANGED <<input, lock, drain, call, server, setup>>

----------------------------------------------------------------------------
\* The app-server's side

OfferServer(g) ==
    /\ Offer!Offer(g)
    /\ UNCHANGED <<row, memory, remote, note, ask, astray, troubles, setup>>

WithdrawServer ==
    /\ offered # None
    /\ Offer!Discard({})
    /\ UNCHANGED <<row, memory, remote, note, ask, astray, troubles, setup>>

ServerEnds(t) ==
    /\ remote[t] = "on"
    /\ offered = run[t].on
    /\ remote' = [remote EXCEPT ![t] = "ended"]
    /\ note' = [note EXCEPT ![t] = "sent"]
    /\ UNCHANGED <<row, memory, ask, offered, spent, astray, troubles, setup>>

ServerAsks(t) ==
    /\ remote[t] = "on"
    /\ offered = run[t].on
    /\ t \in setup.asking
    /\ ask[t].at = "none"
    /\ ask' = [ask EXCEPT ![t].at = "sent"]
    /\ UNCHANGED <<row, memory, remote, note, offered, spent, astray, troubles, setup>>

\* activeForPayload: the turn the ids name, or else the only one there is.
ActiveFor(t) ==
    IF t \in active THEN {t}
    ELSE IF Cardinality(active) = 1 THEN active ELSE {}

\* handleNotification of a terminal state; the turn is not active afterwards, saved or
\* not, unless it cannot even be read.
HandleNote(t) ==
    /\ note[t] = "sent"
    /\ note' = [note EXCEPT ![t] = "gone"]
    /\ \/ \E a \in ActiveFor(t) :
            /\ \E e \in Endings : Finish(a, e[1], e[2])
            /\ active' = active \ {a}
       \/ ActiveFor(t) = {} /\ UNCHANGED <<row, active, astray, troubles>>
       \/ Trouble /\ UNCHANGED <<row, active, astray>>
    /\ UNCHANGED <<input, lock, drain, run, call, remote, ask, offered, spent, setup>>

\* The read loop of a withdrawn client drops what it has not passed on.
LoseNote(t) ==
    /\ note[t] = "sent"
    /\ offered # run[t].on
    /\ note' = [note EXCEPT ![t] = "gone"]
    /\ UNCHANGED <<row, memory, remote, ask, offered, spent, astray, troubles, setup>>

\* handleServerRequest: finds its turn, or declines.
HandleAsk(t) ==
    /\ ask[t].at = "sent"
    /\ IF ActiveFor(t) = {} THEN ask' = [ask EXCEPT ![t].at = "gone"]
       ELSE \E a \in ActiveFor(t) : ask' = [ask EXCEPT ![t] = [at |-> "seen", for |-> a]]
    /\ UNCHANGED <<row, memory, remote, note, offered, spent, astray, troubles, setup>>

\* recordApproval marks the turn, whatever became of it meanwhile, if that can be saved.
MarkWaiting(t) ==
    /\ ask[t].at = "seen"
    /\ ask' = [ask EXCEPT ![t].at = "gone"]
    /\ \/ Save(ask[t].for, "waiting") /\ UNCHANGED troubles
       \/ Trouble /\ UNCHANGED <<row, astray>>
    /\ UNCHANGED <<memory, remote, note, offered, spent, setup>>

\* failWaitingApprovalTurn: the approval could not be answered. If the turn cannot be
\* read or saved it stays active.
ApprovalFails(t) ==
    LET u == ask[t].for IN
    /\ ask[t].at = "gone"
    /\ u # None
    /\ row[u] \in Live
    /\ ask' = [ask EXCEPT ![t].for = None]
    /\ \/ /\ row' = [row EXCEPT ![u] = "failed"]
          /\ active' = active \ {u}
          /\ UNCHANGED troubles
       \/ Trouble /\ UNCHANGED <<row, active>>
    /\ UNCHANGED <<input, lock, drain, run, call, remote, note, offered, spent, astray, setup>>

----------------------------------------------------------------------------
\* InterruptTurn

\* What the row says decides how: a prompt to take back, or turn/interrupt to the server.
ReadTurn(c) ==
    /\ c \in setup.interrupts
    /\ call[c].at = "ready"
    /\ \E t \in Turns :
        /\ row[t] \in Open
        /\ call' = [call EXCEPT ![c] =
                        [at |-> IF row[t] = "queued" THEN "take" ELSE "cancel", turn |-> t]]
    /\ UNCHANGED <<row, input, active, lock, drain, run, server, astray, troubles, setup>>

\* takeQueuedInput; the prompt may be gone already.
TakeBack(c) ==
    /\ call[c].at = "take"
    /\ call' = [call EXCEPT ![c].at = "cancel"]
    /\ input' = input \ {call[c].turn}
    /\ UNCHANGED <<row, active, lock, drain, run, server, astray, troubles, setup>>

\* cancelTurn; the rest only if the row was still open and could be saved.
CancelTurn(c) ==
    LET t == call[c].turn IN
    /\ call[c].at = "cancel"
    /\ call' = [call EXCEPT ![c] = CallOver]
    /\ \/ /\ SaveIf(t, "cancelled", Open)
          /\ active' = IF row[t] \in Open THEN active \ {t} ELSE active
          /\ UNCHANGED troubles
       \/ Trouble /\ UNCHANGED <<row, active>>
    /\ UNCHANGED <<input, lock, drain, run, server, astray, setup>>

----------------------------------------------------------------------------
\* drainTurnQueue, after a turn that ended and every 15 minutes

Queued == {t \in Turns : row[t] = "queued"}

\* Another round: list, if there is room and something to list.
ListQueued == drain' = [NoDrain EXCEPT !.at = "list", !.left = Queued]

\* The lock is taken and the first round begins; a drain that finds the house
\* full or the queue empty changes nothing.
DrainBegin ==
    /\ lock = None
    /\ ~Full
    /\ Queued # {}
    /\ lock' = "drain"
    /\ ListQueued
    /\ UNCHANGED <<row, input, active, run, call, server, astray, troubles, setup>>

Release == lock' = None /\ drain' = NoDrain

DrainCount ==
    /\ drain.at = "count"
    /\ IF Full \/ Queued = {} THEN Release ELSE ListQueued /\ UNCHANGED lock
    /\ UNCHANGED <<row, input, active, run, call, server, astray, troubles, setup>>

\* A turn without a prompt is failed, if it can be, and the list goes on.
DrainFails(t) ==
    /\ drain.at = "list"
    /\ t \in drain.left \ input
    /\ \/ Save(t, "failed") /\ UNCHANGED troubles
       \/ Trouble /\ UNCHANGED <<row, astray>>
    /\ drain' = [drain EXCEPT !.left = @ \ {t}, !.did = TRUE]
    /\ UNCHANGED <<input, active, lock, run, call, server, setup>>

\* mutant of DrainTakes: the prompt stays in memory
DrainPeeks(t) ==
    /\ drain.at = "list"
    /\ t \in drain.left \cap input
    /\ drain' = IF Busy(WorkspaceOf(t))
                THEN [drain EXCEPT !.left = @ \ {t}]
                ELSE [drain EXCEPT !.at = "save", !.turn = t]
    /\ UNCHANGED <<row, input, active, lock, run, call, server, astray, troubles, setup>>

\* mutant of DrainTakes: the workspace is not looked at
DrainAnyWorkspace(t) ==
    /\ drain.at = "list"
    /\ t \in drain.left \cap input
    /\ drain' = [drain EXCEPT !.at = "save", !.turn = t]
    /\ input' = input \ {t}
    /\ UNCHANGED <<row, active, lock, run, call, server, astray, troubles, setup>>

\* takeQueuedInput; put back while the workspace has a live turn.
DrainTakes(t) ==
    /\ drain.at = "list"
    /\ t \in drain.left \cap input
    /\ IF Busy(WorkspaceOf(t))
       THEN drain' = [drain EXCEPT !.left = @ \ {t}] /\ UNCHANGED input
       ELSE /\ drain' = [drain EXCEPT !.at = "save", !.turn = t]
            /\ input' = input \ {t}
    /\ UNCHANGED <<row, active, lock, run, call, server, astray, troubles, setup>>

\* The thread or the workspace cannot be read: the prompt is lost. If it is the list of
\* threads, the workspace counts as busy and the prompt is put back.
DrainSkips(t) ==
    /\ drain.at = "list"
    /\ t \in drain.left \cap input
    /\ Trouble
    /\ drain' = [drain EXCEPT !.left = @ \ {t}]
    /\ input' \in {input, input \ {t}}
    /\ UNCHANGED <<row, active, lock, run, call, server, astray, setup>>

\* The row as it was listed is saved as running and the turn dispatched, also
\* when the save fails.
DrainStarts ==
    LET t == drain.turn IN
    /\ drain.at = "save"
    /\ \/ Save(t, "running") /\ UNCHANGED troubles
       \/ Trouble /\ astray' = astray \cup {t} /\ UNCHANGED row
    /\ run' = [run EXCEPT ![t].at = "dispatch"]
    /\ drain' = [NoDrain EXCEPT !.at = "count"]
    /\ UNCHANGED <<input, active, lock, call, server, setup>>

\* The live turns cannot be counted or the queue listed.
DrainGivesUp ==
    /\ drain.at = "count"
    /\ Trouble
    /\ Release
    /\ UNCHANGED <<row, input, active, run, call, server, astray, setup>>

\* The end of the list: once more if something was done, else unlock.
DrainEnds ==
    /\ drain.at = "list"
    /\ drain.left = {}
    /\ IF drain.did
       THEN drain' = [NoDrain EXCEPT !.at = "count"] /\ UNCHANGED lock
       ELSE Release
    /\ UNCHANGED <<row, input, active, run, call, server, astray, troubles, setup>>

----------------------------------------------------------------------------
\* ArchiveThread, whatever its turns do, and ResumeThread; a copy of the thread read
\* before and saved now has the same effects.
ArchiveThread(t) ==
    /\ t \in setup.archiving
    /\ Seen(t)
    /\ thread' = [thread EXCEPT ![t] = "archived"]
    /\ UNCHANGED <<row, memory, server, astray, troubles, setup>>

ResumeThread(t) ==
    /\ ~Seen(t)
    /\ thread' = [thread EXCEPT ![t] = "again"]
    /\ UNCHANGED <<row, memory, server, astray, troubles, setup>>

----------------------------------------------------------------------------
\* The main program dies, with the app-server, and starts again: Ensure fails
\* every open turn, as the prompts are gone.
Restart ==
    /\ Trouble
    /\ row' = [t \in Turns |-> IF row[t] \in Open THEN "failed" ELSE row[t]]
    /\ input' = {} /\ active' = {} /\ lock' = None /\ drain' = NoDrain
    /\ run' = [t \in Turns |-> IF run[t] = NoRun THEN NoRun ELSE [run[t] EXCEPT !.at = "over"]]
    /\ call' = [c \in Interrupts |-> IF call[c] = NoCall THEN NoCall ELSE CallOver]
    /\ note' = [t \in Turns |-> IF note[t] = "sent" THEN "gone" ELSE note[t]]
    /\ ask' = [t \in Turns |-> [ask[t] EXCEPT !.at = IF @ = "none" THEN @ ELSE "gone", !.for = None]]
    /\ Offer!Discard({})
    /\ UNCHANGED <<remote, astray, setup>>

----------------------------------------------------------------------------
Dispatch(t) == DispatchExec(t) \/ DispatchFails(t) \/ DispatchToServer(t)

RunTurn(t) == CallFails(t) \/ SaveStarted(t) \/ Watchdog(t)

DrainStep ==
    \/ DrainCount \/ DrainStarts \/ DrainEnds \/ DrainGivesUp
    \/ \E t \in Turns : DrainFails(t) \/ DrainTakes(t) \/ DrainSkips(t)

Interrupt(c) == ReadTurn(c) \/ TakeBack(c) \/ CancelTurn(c)

Server ==
    \/ \E g \in Servers : OfferServer(g)
    \/ WithdrawServer
    \/ \E t \in Turns : ServerEnds(t) \/ ServerAsks(t) \/ LoseNote(t)

Work ==
    \/ \E t \in Turns : \/ StartTurn(t) \/ StartFails(t) \/ Enqueue(t) \/ Dispatch(t)
                        \/ ExecEnds(t) \/ RunTurn(t)
                        \/ HandleNote(t) \/ HandleAsk(t) \/ MarkWaiting(t) \/ ApprovalFails(t)
    \/ \E c \in Interrupts : Interrupt(c)
    \/ DrainBegin \/ DrainStep \/ Server \/ Restart

Next ==
    \/ Work /\ UNCHANGED thread
    \/ \E t \in Turns : ArchiveThread(t) \/ ResumeThread(t)

Spec == Init /\ [][Next]_vars

\* The request and the goroutine of a turn run on, as calls, "codex exec" and the
\* watchdog have deadlines; the ticker drains the queue. The app-server owes
\* nothing, nor does an owner.
Fairness ==
    /\ \A t \in Turns : WF_vars((Enqueue(t) \/ Dispatch(t) \/ ExecEnds(t) \/ RunTurn(t)) /\ UNCHANGED thread)
    /\ WF_vars(DrainBegin /\ UNCHANGED thread)
    /\ WF_vars(DrainStep /\ UNCHANGED thread)

FairSpec == Spec /\ Fairness

----------------------------------------------------------------------------
\* No more turns run than the setting allows, and one per workspace unless a thread has
\* been archived meanwhile, whichever of StartTurn and drainTurnQueue lets them in; not
\* counted are turns that a stale copy reopened or a lost save left behind.
LimitKept ==
    /\ Cardinality(LiveTurns \ astray) <= MaxConcurrentTurns
    /\ \A t, u \in LiveTurns \ astray :
        WorkspaceOf(t) = WorkspaceOf(u) /\ thread[t] = "listed" /\ thread[u] = "listed" => t = u

\* A prompt is handed to an agent at most once: by StartTurn or by the drain that
\* took it out of memory, with interrupts, failed saves and restarts in between.
PromptSentOnce ==
    [][\A t \in Turns : run[t].at # "dispatch" /\ run'[t].at = "dispatch" => run[t].at = "none"]_vars

\* Every turn ends, although the server may never speak again, the queue is full of
\* others, requests interrupt at will and reads and saves on the way fail, unless the
\* save that would have ended it was lost or a turn gone astray stays in its way.
TurnsEnd ==
    \A t \in Turns :
        row[t] \in Open ~> row[t] \notin Open \/ t \in astray \/ astray \cap LiveTurns # {}

\* A turn stays active "until that terminal notification, an owner interrupt, or the
\* watchdog closes it" (codexclient/service.go:967). Not so: the answer to turn/start
\* comes later and saves the turn as it was before, running, with nobody to close it.
ClosedForGood ==
    [][\A t \in Turns : row[t] \in Final => row'[t] \notin Live]_vars

\* "Within one workspace serial by default" (docs/codex-cli-client-feature-design.md:859).
\* Not so: a turn goes on when its thread is archived, and is not looked at any more.
WorkspaceSerial ==
    \A t, u \in LiveTurns \ astray : WorkspaceOf(t) = WorkspaceOf(u) => t = u
=============================================================================
