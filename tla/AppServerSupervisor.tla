------------------------- MODULE AppServerSupervisor -------------------------
(***************************************************************************)
(* codexclient/appserver_supervisor.go and the life of the process behind   *)
(* codexclient/appserver_client.go: requests that start, stop and restart   *)
(* the managed "codex app-server", the watcher of each process, the         *)
(* liveness probe, and the process itself.                                  *)
(*                                                                          *)
(* A request launches at most one process, so the process, its client and   *)
(* its watcher carry the request's name. The supervisor's mutex makes each  *)
(* locked section one step; Close is one step, as its "closed" flag lets    *)
(* one caller in.                                                           *)
(***************************************************************************)
EXTENDS FiniteSets

CONSTANTS
    Requests,   \* calls of the control API, and the start at launch
    None        \* no client

ASSUME NoneIsNoRequest == None \notin Requests

VARIABLES
    state,      \* AppServerSupervisor.state
    client,     \* AppServerSupervisor.client
    pc,         \* where each request is
    again,      \* the request is a restart
    closing,    \* the client that a stopping request has taken out
    ctx,        \* the request's context: "open" or "done"
    proc,       \* the process: "none", "alive", "exited", or "killed" by its context
    closed,     \* AppServerClient.closed
    done,       \* AppServerClient.doneCh is closed
    watch,      \* the watcher of Done() has something to report yet
    probe       \* the client that probe looked at; condemned: Done() was seen

requestVars == <<pc, again, closing, ctx>>
processVars == <<proc, closed, done, watch>>
vars == <<state, client, requestVars, processVars, probe>>

Clients == Requests \cup {None}
Places == {"ready", "enter", "detect", "initialize", "publish", "failing", "closing", "return", "over"}
NoProbe == [of |-> None, condemned |-> FALSE]

TypeOK ==
    /\ state \in {"stopped", "starting", "running", "failed"}
    /\ client \in Clients
    /\ pc \in [Requests -> Places]
    /\ again \in [Requests -> BOOLEAN]
    /\ closing \in [Requests -> Clients]
    /\ ctx \in [Requests -> {"open", "done"}]
    /\ proc \in [Requests -> {"none", "alive", "exited", "killed"}]
    /\ closed \in [Requests -> BOOLEAN]
    /\ done \in [Requests -> BOOLEAN]
    /\ watch \in [Requests -> BOOLEAN]
    /\ probe \in [of : Clients, condemned : BOOLEAN]

Init ==
    /\ state = "stopped"
    /\ client = None
    /\ pc = [r \in Requests |-> "ready"]
    /\ again = [r \in Requests |-> FALSE]
    /\ closing = [r \in Requests |-> None]
    /\ ctx = [r \in Requests |-> "open"]
    /\ proc = [r \in Requests |-> "none"]
    /\ closed = [r \in Requests |-> FALSE]
    /\ done = [r \in Requests |-> FALSE]
    /\ watch = [r \in Requests |-> FALSE]
    /\ probe = NoProbe

Goto(r, from, to) == pc[r] = from /\ pc' = [pc EXCEPT ![r] = to]

\* AppServerClient.Close: kills and waits; a second caller finds it closed.
Close(g) ==
    IF g = None THEN UNCHANGED <<closed, proc>>
    ELSE /\ closed' = [closed EXCEPT ![g] = TRUE]
         /\ proc' = [proc EXCEPT ![g] = IF @ = "alive" THEN "exited" ELSE @]

\* setFailed: closes whichever client is offered; a stopped runtime stays so.
SetFailed ==
    /\ Close(client)
    /\ client' = None
    /\ state' = IF state = "stopped" THEN "stopped" ELSE "failed"

----------------------------------------------------------------------------
\* Requests

\* mutant of BeginStop: the client is closed under the lock and cleared with the next failure
ClearLate(r) ==
    \E restart \in BOOLEAN :
        /\ Goto(r, "ready", "closing")
        /\ again' = [again EXCEPT ![r] = restart]
        /\ closing' = [closing EXCEPT ![r] = client]
        /\ Close(client)
        /\ state' = "stopped"
        /\ UNCHANGED <<client, ctx, done, watch, probe>>

\* Stop, locked part; Restart begins with it.
BeginStop(r) ==
    \E restart \in BOOLEAN :
        /\ Goto(r, "ready", "closing")
        /\ again' = [again EXCEPT ![r] = restart]
        /\ closing' = [closing EXCEPT ![r] = client]
        /\ client' = None
        /\ state' = "stopped"
        /\ UNCHANGED <<ctx, processVars, probe>>

\* Stop, after the unlock.
CloseOld(r) ==
    /\ Goto(r, "closing", IF again[r] THEN "enter" ELSE "return")
    /\ Close(closing[r])
    /\ closing' = [closing EXCEPT ![r] = None]
    /\ UNCHANGED <<state, client, again, ctx, done, watch, probe>>

\* Start: one start at a time, unless a stop falls in between.
EnterStart(r) ==
    /\ pc[r] \in {"ready", "enter"}
    /\ IF state \in {"running", "starting"}
       THEN pc' = [pc EXCEPT ![r] = "return"] /\ UNCHANGED state
       ELSE pc' = [pc EXCEPT ![r] = "detect"] /\ state' = "starting"
    /\ UNCHANGED <<client, again, closing, ctx, processVars, probe>>

\* Settings, detection of the CLI or the launch itself say no.
Refuse(r) ==
    /\ Goto(r, "detect", "failing")
    /\ UNCHANGED <<state, client, again, closing, ctx, processVars, probe>>

\* StartAppServer and attachClientPumps; os/exec refuses a context that is done.
Launch(r) ==
    /\ Goto(r, "detect", "initialize")
    /\ ctx[r] = "open"
    /\ proc' = [proc EXCEPT ![r] = "alive"]
    /\ watch' = [watch EXCEPT ![r] = TRUE]
    /\ UNCHANGED <<state, client, again, closing, ctx, closed, done, probe>>

\* The handshake is answered.
Initialized(r) ==
    /\ Goto(r, "initialize", "publish")
    /\ proc[r] = "alive"
    /\ UNCHANGED <<state, client, again, closing, ctx, processVars, probe>>

\* The handshake fails or its 15 seconds pass.
NotInitialized(r) ==
    /\ Goto(r, "initialize", "failing")
    /\ Close(r)
    /\ UNCHANGED <<state, client, again, closing, ctx, done, watch, probe>>

\* mutant of Fail: the error is returned and the state is left as it is
FailSilently(r) ==
    /\ Goto(r, "failing", "return")
    /\ UNCHANGED <<state, client, again, closing, ctx, processVars, probe>>

\* setFailed of a start that did not come through.
Fail(r) ==
    /\ Goto(r, "failing", "return")
    /\ SetFailed
    /\ UNCHANGED <<again, closing, ctx, done, watch, probe>>

\* Start publishes without looking at the state or the client it replaces.
Publish(r) ==
    /\ Goto(r, "publish", "return")
    /\ client' = r
    /\ state' = "running"
    /\ UNCHANGED <<again, closing, ctx, processVars, probe>>

\* The handler returns (or startCtx is cancelled): the context of the request ends.
Return(r) ==
    /\ Goto(r, "return", "over")
    /\ ctx' = [ctx EXCEPT ![r] = "done"]
    /\ UNCHANGED <<state, client, again, closing, processVars, probe>>

\* The browser goes away, or the timeout of the start at launch passes.
Disconnect(r) ==
    /\ pc[r] \notin {"ready", "over"}
    /\ ctx[r] = "open"
    /\ ctx' = [ctx EXCEPT ![r] = "done"]
    /\ UNCHANGED <<state, client, pc, again, closing, processVars, probe>>

----------------------------------------------------------------------------
\* The process, its read loop and its watcher

Exit(g) ==
    /\ proc[g] = "alive"
    /\ proc' = [proc EXCEPT ![g] = "exited"]
    /\ UNCHANGED <<state, client, requestVars, closed, done, watch, probe>>

\* exec.CommandContext kills a process whose context is done.
KillByContext(g) ==
    /\ ctx[g] = "done"
    /\ proc[g] = "alive"
    /\ proc' = [proc EXCEPT ![g] = "killed"]
    /\ UNCHANGED <<state, client, requestVars, closed, done, watch, probe>>

\* readLoop meets the end of the pipe and closes doneCh.
ReadLoopEnds(g) ==
    /\ proc[g] \in {"exited", "killed"}
    /\ ~done[g]
    /\ done' = [done EXCEPT ![g] = TRUE]
    /\ UNCHANGED <<state, client, requestVars, proc, closed, watch, probe>>

\* The watcher reports the exit of its own client on whichever is offered.
Watch(g) ==
    /\ watch[g]
    /\ done[g]
    /\ watch' = [watch EXCEPT ![g] = FALSE]
    /\ SetFailed
    /\ UNCHANGED <<requestVars, done, probe>>

----------------------------------------------------------------------------
\* The liveness probe

\* mutant of ProbeTakes: the probe leaves exits to the watcher
ProbeCallsOnly ==
    /\ probe = NoProbe
    /\ state = "running"
    /\ client # None
    /\ ~done[client]
    /\ probe' = [of |-> client, condemned |-> FALSE]
    /\ UNCHANGED <<state, client, requestVars, processVars>>

ProbeTakes ==
    /\ probe = NoProbe
    /\ state = "running"
    /\ client # None
    /\ probe' = [of |-> client, condemned |-> done[client]]
    /\ UNCHANGED <<state, client, requestVars, processVars>>

\* mutant of ProbePasses: an answer puts the probed client (back) in place
ProbeRevives ==
    /\ probe # NoProbe
    /\ ~probe.condemned
    /\ probe' = NoProbe
    /\ client' = probe.of
    /\ state' = "running"
    /\ UNCHANGED <<requestVars, processVars>>

\* An answer, a protocol error or the deadline of 5 seconds: nothing is done.
ProbePasses ==
    /\ probe # NoProbe
    /\ ~probe.condemned
    /\ probe' = NoProbe
    /\ UNCHANGED <<state, client, requestVars, processVars>>

\* The probed client is gone: setFailed, whichever is offered by now.
ProbeFails ==
    /\ probe # NoProbe
    /\ probe.condemned \/ closed[probe.of] \/ proc[probe.of] # "alive"
    /\ probe' = NoProbe
    /\ SetFailed
    /\ UNCHANGED <<requestVars, done, watch>>

----------------------------------------------------------------------------
Request(r) ==
    \/ BeginStop(r) \/ CloseOld(r) \/ EnterStart(r) \/ Refuse(r) \/ Launch(r)
    \/ Initialized(r) \/ NotInitialized(r) \/ Fail(r) \/ Publish(r)
    \/ Return(r) \/ Disconnect(r)

Process(g) == Exit(g) \/ KillByContext(g) \/ ReadLoopEnds(g) \/ Watch(g)

Next ==
    \/ \E r \in Requests : Request(r) \/ Process(r)
    \/ ProbeTakes \/ ProbePasses \/ ProbeFails

Spec == Init /\ [][Next]_vars

\* Handlers run on, the kernel kills and reports, the goroutines that wait for
\* it are woken, the probe comes round. Nobody has to send a request.
Fairness ==
    /\ \A r \in Requests :
        /\ WF_vars(pc[r] # "ready" /\ Request(r))
        /\ WF_vars(KillByContext(r))
        /\ WF_vars(ReadLoopEnds(r))
        /\ WF_vars(Watch(r))
    /\ WF_vars(ProbeTakes)
    /\ WF_vars(ProbePasses \/ ProbeFails)

FairSpec == Spec /\ Fairness
----------------------------------------------------------------------------
\* What Client() hands out: nil unless the state is running.
Offered == IF state = "running" THEN client ELSE None

\* The state shown and the client handed out agree through late watchers, stops
\* in the middle of a start and failed starts: a client is held exactly while
\* the runtime is running (setFailed, Stop and Start write both in one section).
OfferedOrNot == (client # None) <=> (state = "running")

\* Whoever asks for the client gets one that nobody has closed: every path that
\* closes it takes it out of the supervisor first or in the same section.
OfferedIsOpen == client # None => ~closed[client]

\* Nothing can start while the state is starting, so a start that fails or whose
\* caller goes away must not leave it there.
StartingEnds == state = "starting" ~> state # "starting"

\* A process that dies while its client is offered is noticed, even when it died
\* between the handshake and the publication and its watcher has reported
\* already: then the probe finds it.
DeathIsNoticed ==
    \A g \in Requests : (client = g /\ proc[g] # "alive") ~> client # g

\* A client is offered at most once, and what was withdrawn stays so.
Offer == INSTANCE ServerOffer WITH
            Servers <- Requests,
            offered <- Offered,
            spent <- {r \in Requests : pc[r] \in {"return", "over"}}
OfferSpec == Offer!Spec

\* "one owner-triggered start, a periodic liveness probe and a clean stop"
\* (appserver_supervisor.go:38): what was started stays until it exits or is stopped.
\* Not so: the process is bound to the context of the request that started it.
StartLasts == \A g \in Requests : client = g /\ pc[g] = "over" => proc[g] # "killed"
==============================================================================
