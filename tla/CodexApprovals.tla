--------------------------- MODULE CodexApprovals ---------------------------
(***************************************************************************)
(* Approvals of the Codex client (codexclient/service.go): the app-server   *)
(* asks, the owner decides, and the decision goes back under the JSON-RPC   *)
(* id that pendingApprovalReqID keeps, to whichever server is offered then. *)
(* Decisions run concurrently with each other, with the ticker that expires *)
(* approvals and with restarts of the app-server and of the main program.   *)
(* Any read or write of a row may fail.                                     *)
(*                                                                          *)
(* A request is a server and an id; every server counts its ids from the    *)
(* start, so two servers use the same ones. What an approval does to its    *)
(* turn is in CodexTurns.                                                    *)
(***************************************************************************)
EXTENDS FiniteSets, Naturals

CONSTANTS
    Servers, Ids,   \* app-server processes, JSON-RPC ids
    Calls,          \* decisions of the owner
    None,
    MaxRestarts     \* bound on restarts of the main program

ASSUME ApprovalConstants ==
    /\ None \notin Servers \cup (Servers \X Ids)
    /\ "expiry" \notin Calls
    /\ MaxRestarts \in Nat

Requests == Servers \X Ids
ServerOf(a) == a[1]

VARIABLES
    asked,      \* requests that were read from the servers
    pumps,      \* servers whose pump reads their requests
    pump,       \* the request each server's pump is recording
    row,        \* codex_cli_approvals: "absent", "pending" or the decision
    orphaned,   \* rows whose recovery_status is orphaned
    lost,       \* history: rows a failed read or write has left without their id
    due,        \* rows whose expires_at has passed
    reqID,      \* pendingApprovalReqID
    call,       \* ResolveApprovalDecision
    expiry,     \* expireApprovals
    replies,    \* history: what was written to which server for which approval
    offered, spent,     \* ServerOffer
    restarts    \* bound

table == <<row, orphaned>>
server == <<offered, spent>>
vars == <<asked, pumps, pump, table, lost, due, reqID, call, expiry, replies, server, restarts>>

Offer == INSTANCE ServerOffer

Decisions == {"accept", "decline"}     \* cancel refuses as decline does
Resolved  == Decisions \cup {"stale", "expired", "respond_failed"}
NoCall    == [at |-> "ready", of |-> None, want |-> "accept", orphan |-> FALSE]
CallOver  == [NoCall EXCEPT !.at = "over"]
NoExpiry  == [at |-> "off", rows |-> {}]

TypeOK ==
    /\ asked \subseteq Requests
    /\ pumps \subseteq Servers
    /\ pump \in [Servers -> Requests \cup {None}]
    /\ row \in [Requests -> {"absent", "pending"} \cup Resolved]
    /\ orphaned \subseteq Requests
    /\ lost \subseteq Requests
    /\ due \subseteq Requests
    /\ reqID \subseteq Requests
    /\ call \in [Calls -> [at : {"ready", "take", "send", "resolve", "over"},
                           of : Requests \cup {None}, want : Resolved, orphan : BOOLEAN]]
    /\ expiry \in [at : {"off", "take", "decline"}, rows : SUBSET Requests]
    /\ replies \subseteq [for : Requests, to : Servers, decision : Decisions,
                          by : Calls \cup {"expiry"}]
    /\ Offer!TypeOK
    /\ restarts \in 0..MaxRestarts

Init ==
    /\ asked = {}
    /\ pumps = {}
    /\ pump = [g \in Servers |-> None]
    /\ row = [a \in Requests |-> "absent"]
    /\ orphaned = {}
    /\ lost = {}
    /\ due = {}
    /\ reqID = {}
    /\ call = [c \in Calls |-> NoCall]
    /\ expiry = NoExpiry
    /\ replies = {}
    /\ Offer!Init
    /\ restarts = 0

\* ResolveCodexCliApproval: only a pending row is changed.
Resolve(a, decision) ==
    row' = IF row[a] = "pending" THEN [row EXCEPT ![a] = decision] ELSE row

----------------------------------------------------------------------------
\* The app-server and its pump

OfferServer(g) ==
    /\ Offer!Offer(g)
    /\ pumps' = pumps \cup {g}
    /\ UNCHANGED <<asked, pump, table, lost, due, reqID, call, expiry, replies, restarts>>

\* Stopped, restarted or dead; its pump goes on with what it has of its requests.
WithdrawServer ==
    /\ offered # None
    /\ Offer!Discard({})
    /\ UNCHANGED <<asked, pumps, pump, table, lost, due, reqID, call, expiry, replies, restarts>>

\* recordApproval: first the row. A request that finds no turn is declined and one
\* that cannot be saved is dropped, both without a row; one that was saved and cannot
\* be read back leaves a row without an id.
RecordRow(a) ==
    LET g == ServerOf(a) IN
    /\ g \in pumps
    /\ a \notin asked
    /\ pump[g] = None
    /\ asked' = asked \cup {a}
    /\ \/ row' = [row EXCEPT ![a] = "pending"] /\ pump' = [pump EXCEPT ![g] = a] /\ UNCHANGED lost
       \/ row' = [row EXCEPT ![a] = "pending"] /\ lost' = lost \cup {a} /\ UNCHANGED pump
       \/ UNCHANGED <<row, pump, lost>>
    /\ UNCHANGED <<pumps, orphaned, due, reqID, call, expiry, replies, server, restarts>>

\* Then the id.
RecordId(g) ==
    /\ pump[g] # None
    /\ reqID' = reqID \cup {pump[g]}
    /\ pump' = [pump EXCEPT ![g] = None]
    /\ UNCHANGED <<asked, pumps, table, lost, due, call, expiry, replies, server, restarts>>

\* Ten minutes later.
Elapse(a) ==
    /\ row[a] # "absent"
    /\ a \notin due
    /\ due' = due \cup {a}
    /\ UNCHANGED <<asked, pumps, pump, table, lost, reqID, call, expiry, replies, server, restarts>>

----------------------------------------------------------------------------
\* ResolveApprovalDecision

\* The row is read, with what it says of its expiry and of a restart.
ReadApproval(c, a, decision) ==
    /\ call[c].at = "ready"
    /\ row[a] = "pending"
    /\ call' = [call EXCEPT ![c] =
                    [at |-> "take", of |-> a, orphan |-> a \in orphaned,
                     want |-> IF a \in due THEN "expired" ELSE decision]]
    /\ UNCHANGED <<asked, pumps, pump, table, lost, due, reqID, expiry, replies, server, restarts>>

Then(c, at, want) == call' = [call EXCEPT ![c].at = at, ![c].want = want]

\* mutant of TakeId: the id stays in the map
TakeLeaves(c) ==
    LET k == call[c] IN
    /\ k.at = "take"
    /\ IF k.want = "expired" THEN Then(c, "resolve", "expired")
       ELSE IF k.orphan \/ k.of \notin reqID THEN Then(c, "resolve", "stale")
       ELSE Then(c, "send", k.want)
    /\ UNCHANGED <<asked, pumps, pump, table, lost, due, reqID, expiry, replies, server, restarts>>

\* mutant of TakeId: a restart is not looked at
TakeOrphan(c) ==
    LET k == call[c] IN
    /\ k.at = "take"
    /\ reqID' = reqID \ {k.of}
    /\ IF k.want = "expired" THEN Then(c, "resolve", "expired")
       ELSE IF k.of \notin reqID THEN Then(c, "resolve", "stale")
       ELSE Then(c, "send", k.want)
    /\ UNCHANGED <<asked, pumps, pump, table, lost, due, expiry, replies, server, restarts>>

\* The id is taken out of the map; without it, or after a restart, or too late,
\* the decision is not sent.
TakeId(c) ==
    LET k == call[c] IN
    /\ k.at = "take"
    /\ reqID' = reqID \ {k.of}
    /\ IF k.want = "expired" THEN Then(c, "resolve", "expired")
       ELSE IF k.orphan \/ k.of \notin reqID THEN Then(c, "resolve", "stale")
       ELSE Then(c, "send", k.want)
    /\ UNCHANGED <<asked, pumps, pump, table, lost, due, expiry, replies, server, restarts>>

\* Client and Respond: no server, or the server that is offered now, or an error.
SendDecision(c) ==
    LET k == call[c] IN
    /\ k.at = "send"
    /\ \/ offered = None /\ Then(c, "resolve", "stale") /\ UNCHANGED replies
       \/ /\ offered # None
          /\ Then(c, "resolve", k.want)
          /\ replies' = replies \cup
                {[for |-> k.of, to |-> offered, decision |-> k.want, by |-> c]}
       \/ offered # None /\ Then(c, "resolve", "respond_failed") /\ UNCHANGED replies
    /\ UNCHANGED <<asked, pumps, pump, table, lost, due, reqID, expiry, server, restarts>>

\* Or the request returns the error, its id gone.
RecordDecision(c) ==
    /\ call[c].at = "resolve"
    /\ \/ Resolve(call[c].of, call[c].want) /\ UNCHANGED lost
       \/ /\ row[call[c].of] = "pending"
          /\ lost' = lost \cup {call[c].of} /\ UNCHANGED row
    /\ call' = [call EXCEPT ![c] = CallOver]
    /\ UNCHANGED <<asked, pumps, pump, orphaned, due, reqID, expiry, replies, server, restarts>>

----------------------------------------------------------------------------
\* expireApprovals, every 15 minutes

\* mutant of ExpireRows: only rows a reply can still be sent for
ExpireLive ==
    LET rows == {a \in due \ orphaned : row[a] = "pending"} IN
    /\ expiry.at = "off"
    /\ rows # {}
    /\ row' = [a \in Requests |-> IF a \in rows THEN "expired" ELSE row[a]]
    /\ expiry' = [at |-> "take", rows |-> rows]
    /\ UNCHANGED <<asked, pumps, pump, orphaned, lost, due, reqID, call, replies, server, restarts>>

\* ExpireCodexCliApprovals: one transaction.
ExpireRows ==
    LET rows == {a \in due : row[a] = "pending"} IN
    /\ expiry.at = "off"
    /\ rows # {}
    /\ row' = [a \in Requests |-> IF a \in rows THEN "expired" ELSE row[a]]
    /\ expiry' = [at |-> "take", rows |-> rows]
    /\ UNCHANGED <<asked, pumps, pump, orphaned, lost, due, reqID, call, replies, server, restarts>>

\* mutant of ExpireTakes: the map is emptied
ExpireClears ==
    /\ expiry.at = "take"
    /\ expiry' = [at |-> "decline", rows |-> expiry.rows \cap reqID]
    /\ reqID' = {}
    /\ UNCHANGED <<asked, pumps, pump, table, lost, due, call, replies, server, restarts>>

ExpireTakes ==
    /\ expiry.at = "take"
    /\ expiry' = [at |-> "decline", rows |-> expiry.rows \cap reqID]
    /\ reqID' = reqID \ expiry.rows
    /\ UNCHANGED <<asked, pumps, pump, table, lost, due, call, replies, server, restarts>>

\* Those whose id was there are declined, as far as the client writes them.
ExpireDeclines ==
    /\ expiry.at = "decline"
    /\ \E sent \in SUBSET expiry.rows :
        /\ offered = None => sent = {}
        /\ replies' = replies \cup
                {[for |-> a, to |-> offered, decision |-> "decline", by |-> "expiry"] : a \in sent}
    /\ expiry' = NoExpiry
    /\ UNCHANGED <<asked, pumps, pump, table, lost, due, reqID, call, server, restarts>>

----------------------------------------------------------------------------
\* The main program and the app-server with it: Ensure marks what is pending as
\* orphaned and restores the map from the rows it can list, at most 200 or none.
Restart ==
    LET left == {a \in Requests : row[a] = "pending"} IN
    /\ restarts < MaxRestarts
    /\ restarts' = restarts + 1
    /\ orphaned' = orphaned \cup left
    /\ reqID' \in SUBSET left
    /\ lost' = left \ reqID'
    /\ pumps' = {}
    /\ pump' = [g \in Servers |-> None]
    /\ call' = [c \in Calls |-> IF call[c] = NoCall THEN NoCall ELSE CallOver]
    /\ expiry' = NoExpiry
    /\ Offer!Discard({})
    /\ UNCHANGED <<asked, row, due, replies>>

----------------------------------------------------------------------------
Decide(c) ==
    \/ \E a \in Requests, d \in Decisions : ReadApproval(c, a, d)
    \/ TakeId(c) \/ SendDecision(c) \/ RecordDecision(c)

Expire == ExpireRows \/ ExpireTakes \/ ExpireDeclines

Next ==
    \/ \E g \in Servers : OfferServer(g) \/ RecordId(g)
    \/ WithdrawServer
    \/ \E a \in Requests : RecordRow(a) \/ Elapse(a)
    \/ \E c \in Calls : Decide(c)
    \/ Expire
    \/ Restart

Spec == Init /\ [][Next]_vars

\* Time passes and the ticker calls expireApprovals. Nobody owes a decision.
Fairness == WF_vars(Expire) /\ \A a \in Requests : WF_vars(Elapse(a))

FairSpec == Spec /\ Fairness

----------------------------------------------------------------------------
\* An app-server is told at most one decision on an approval: by one of the owner's
\* requests or by the expiry, whichever took the id out of pendingApprovalReqID. (Over
\* a restart a decision that was sent and not recorded may be sent to another one.)
ToldOnce ==
    \A p, q \in replies : p.for = q.for /\ p.to = q.to => p = q

\* "approval timeouts and restarts fail closed" (docs/codex-cli-client-feature-design.md:176):
\* no row is approved unless an app-server was told so in the life of the main
\* program that recorded the request.
ApprovedWasTold ==
    \A a \in Requests : row[a] = "accept" =>
        /\ a \notin orphaned
        /\ \E p \in replies : p.for = a /\ p.decision = "accept"

InHand(a) ==
    \/ a \in reqID
    \/ pump[ServerOf(a)] = a
    \/ \E c \in Calls : call[c].of = a /\ call[c].at \in {"send", "resolve"}

\* What the owner sees as pending can be answered: its id is in the map unless the
\* pump is about to put it there or a decision is about to resolve the row. Without
\* it ResolveApprovalDecision fails the turn. No order of decisions, expiry and
\* restarts takes the id from a pending row, only a read or write of that row that
\* failed after its id was taken or before it was put there.
AnswerableWhilePending ==
    \A a \in Requests : row[a] = "pending" => InHand(a) \/ a \in lost

\* "the JSON-RPC request id is held in memory so the decision can be returned to
\* app-server" (service.go:1313). Not once a read or write of the row has failed:
\* nothing puts the id back before a restart.
PendingResumable == \A a \in Requests : row[a] = "pending" => InHand(a)

\* No approval stays pending, whatever becomes of its server, its id and the program.
PendingSettles == \A a \in Requests : row[a] = "pending" ~> row[a] # "pending"

\* "all approvals are handled per single request" (docs/codex-cli-client-feature-design.md:392).
\* Not so: the id of a server that was replaced names another request of the new one.
DecisionGoesToAsker ==
    \A p \in replies : p.decision = "accept" => p.to = ServerOf(p.for)
=============================================================================
