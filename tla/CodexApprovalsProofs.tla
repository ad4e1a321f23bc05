------------------------ MODULE CodexApprovalsProofs ------------------------
(***************************************************************************)
(* Proofs about CodexApprovals for any number of app-servers, ids,          *)
(* decisions and restarts: types, one decision told per app-server, nothing *)
(* approved that was not sent, nothing pending that cannot be answered but  *)
(* by a failed read or write of its row.                                    *)
(*                                                                          *)
(* The right to answer an approval is held in one place at a time: in the   *)
(* map, by one decision that is about to send, by the expiry, or by the     *)
(* pump that is about to record the id. Who has it has not told the server  *)
(* that is offered now; a restart gives it back, but then no server that    *)
(* was ever told is offered again (ServerOffer).                            *)
(***************************************************************************)
EXTENDS CodexApprovals, TLAPS

Sends(c, a)  == call[c].at = "send" /\ call[c].of = a
Declines(a)  == expiry.at = "decline" /\ a \in expiry.rows
Pumped(a)    == pump[ServerOf(a)] = a
MayAnswer(a) ==
    a \notin asked \/ Pumped(a) \/ a \in reqID \/ Declines(a) \/ \E c \in Calls : Sends(c, a)

\* Every actor works on requests that were sent, each on its own server's.
OnlyAsked ==
    /\ \A g \in Servers : pump[g] # None => pump[g] \in asked /\ ServerOf(pump[g]) = g
    /\ reqID \subseteq asked
    /\ \A a \in Requests : row[a] # "absent" => a \in asked
    /\ lost \subseteq asked
    /\ \A c \in Calls : call[c].at \in {"take", "send", "resolve"} => call[c].of \in asked
    /\ expiry.rows \subseteq asked

\* One holder of the right to answer.
OneHolder ==
    /\ \A a \in Requests : Pumped(a) => a \notin reqID
    /\ \A a \in Requests : Declines(a) => ~Pumped(a) /\ a \notin reqID
    /\ \A a \in Requests, c \in Calls :
         Sends(c, a) => ~Pumped(a) /\ a \notin reqID /\ ~Declines(a)
    /\ \A a \in Requests, c, d \in Calls : Sends(c, a) /\ Sends(d, a) => c = d

\* Who holds it has not told the server that is offered; those that were told
\* have been offered before.
NotToldYet ==
    /\ offered # None => offered \in spent
    /\ \A p \in replies : p.to \in spent
    /\ \A p \in replies : MayAnswer(p.for) => p.to # offered

\* What a decision knows of the restart is still so, and an approval that is about
\* to be recorded was sent.
Informed ==
    /\ \A c \in Calls : call[c].at \in {"take", "send", "resolve"} =>
         (call[c].orphan <=> call[c].of \in orphaned)
    /\ \A c \in Calls : call[c].at = "take" => call[c].want \in Decisions \cup {"expired"}
    /\ \A c \in Calls : call[c].at = "send" => ~call[c].orphan /\ call[c].want \in Decisions
    /\ \A c \in Calls : call[c].at = "resolve" /\ call[c].want = "accept" =>
         /\ ~call[c].orphan
         /\ \E p \in replies : p.for = call[c].of /\ p.decision = "accept"

\* The rows whose ids the expiry takes are settled already.
ExpiredRows == expiry.at = "take" => \A a \in expiry.rows : row[a] # "pending"

ApprovalInv ==
    /\ TypeOK
    /\ OnlyAsked
    /\ OneHolder
    /\ NotToldYet
    /\ ToldOnce
    /\ Informed
    /\ ApprovedWasTold
    /\ ExpiredRows
    /\ AnswerableWhilePending

USE ApprovalConstants

CallStates == [at : {"ready", "take", "send", "resolve", "over"},
               of : Requests \cup {None}, want : Resolved, orphan : BOOLEAN]

\* A decision goes on to the next step and keeps what it has read.
GoesOn(c) ==
    /\ call'[c].of = call[c].of
    /\ call'[c].orphan = call[c].orphan
    /\ \A d \in Calls : d # c => call'[d] = call[d]

\* The program counter and the decision change, nothing else does.
LEMMA ThenMoves ==
    ASSUME TypeOK, NEW c \in Calls, NEW at \in {"send", "resolve"}, NEW want \in Resolved,
           Then(c, at, want)
    PROVE  /\ call' \in [Calls -> CallStates] /\ GoesOn(c)
           /\ call'[c].at = at /\ call'[c].want = want
<1> DEFINE k == [call[c] EXCEPT !.at = at, !.want = want]
<1>1. call \in [Calls -> CallStates]
    BY DEF TypeOK, CallStates
<1>2. call' = [call EXCEPT ![c] = k]
    BY <1>1 DEF Then
<1>3. k \in CallStates /\ k.at = at /\ k.want = want /\ k.of = call[c].of /\ k.orphan = call[c].orphan
    BY <1>1 DEF CallStates
<1> HIDE DEF k
<1> QED BY <1>1, <1>2, <1>3 DEF GoesOn

\* What the decision makes of the id it has taken or missed.
Taken(c) ==
    /\ call[c].at = "take" /\ reqID' = reqID \ {call[c].of}
    /\ UNCHANGED <<asked, pumps, pump, row, orphaned, lost, due, expiry, replies, offered, spent, restarts>>
    /\ call' \in [Calls -> CallStates] /\ GoesOn(c)
    /\ \/ /\ call'[c].at = "send" /\ call'[c].want = call[c].want
          /\ call[c].want # "expired" /\ ~call[c].orphan /\ call[c].of \in reqID
       \/ call'[c].at = "resolve" /\ call'[c].want \in {"expired", "stale"}

\* TakeId does that.
LEMMA TakeMoves ==
    ASSUME TypeOK, NEW c \in Calls, TakeId(c)
    PROVE  Taken(c)
<1>1. call[c].want \in Resolved
    BY DEF TypeOK
<1> USE DEF Taken, TakeId, table, server
<1>2. CASE call[c].want = "expired"
    BY <1>2, ThenMoves DEF Resolved
<1>3. CASE call[c].want # "expired" /\ (call[c].orphan \/ call[c].of \notin reqID)
    BY <1>3, ThenMoves DEF Resolved
<1>4. CASE call[c].want # "expired" /\ ~call[c].orphan /\ call[c].of \in reqID
    BY <1>1, <1>4, ThenMoves
<1> QED BY <1>2, <1>3, <1>4

\* It is sent to the server that is offered, or settled without.
Sent(c) ==
    /\ call[c].at = "send"
    /\ UNCHANGED <<asked, pumps, pump, row, orphaned, lost, due, reqID, expiry, offered, spent, restarts>>
    /\ call' \in [Calls -> CallStates] /\ GoesOn(c) /\ call'[c].at = "resolve"
    /\ \/ call'[c].want \in {"stale", "respond_failed"} /\ replies' = replies
       \/ /\ call'[c].want = call[c].want /\ offered # None
          /\ replies' = replies \cup
                {[for |-> call[c].of, to |-> offered, decision |-> call[c].want, by |-> c]}

\* SendDecision does that.
LEMMA SendMoves ==
    ASSUME TypeOK, NEW c \in Calls, SendDecision(c)
    PROVE  Sent(c)
<1>1. call[c].want \in Resolved
    BY DEF TypeOK
<1> QED BY <1>1, ThenMoves DEF Sent, SendDecision, Resolved, table, server

\* The call is over: its row is settled, or was before, or the row is left without its id.
Recorded(c) ==
    /\ call[c].at = "resolve"
    /\ call' \in [Calls -> CallStates] /\ call'[c].at = "over"
    /\ \A d \in Calls : d # c => call'[d] = call[d]
    /\ row' \in [Requests -> {"absent", "pending"} \cup Resolved]
    /\ \A a \in Requests : row'[a] = row[a]
         \/ (a = call[c].of /\ row[a] = "pending" /\ row'[a] = call[c].want)
    /\ call[c].of \in Requests =>
         row'[call[c].of] # "pending" \/ call[c].of \in lost'
    /\ lost \subseteq lost' /\ lost' \subseteq lost \cup {call[c].of}
    /\ UNCHANGED <<asked, pumps, pump, orphaned, due, reqID, expiry, replies, offered, spent, restarts>>

\* RecordDecision does that.
LEMMA RecordMoves ==
    ASSUME TypeOK, NEW c \in Calls, RecordDecision(c)
    PROVE  Recorded(c)
<1>1. CallOver \in CallStates /\ CallOver.at = "over"
    BY DEF CallStates, CallOver, NoCall, Resolved, Decisions
<1>2. call \in [Calls -> CallStates] /\ row \in [Requests -> {"absent", "pending"} \cup Resolved]
      /\ call[c].want \in Resolved /\ call[c].want # "pending"
    BY DEF TypeOK, CallStates, Resolved, Decisions
<1> HIDE DEF CallOver
<1> QED BY <1>1, <1>2 DEF Recorded, RecordDecision, Resolve, server

\* A request names one of the servers, and is not None.
LEMMA ServersOwn == \A a \in Requests : ServerOf(a) \in Servers /\ a # None
BY DEF Requests, ServerOf

\* Nothing of the old program is at work, and no server is offered.
Fresh ==
    /\ pump' \in [Servers -> Requests \cup {None}] /\ \A g \in Servers : pump'[g] = None
    /\ call' \in [Calls -> CallStates] /\ \A c \in Calls : call'[c].at \in {"ready", "over"}
    /\ expiry' = NoExpiry /\ offered' = None
    /\ orphaned' = orphaned \cup {a \in Requests : row[a] = "pending"}
    /\ reqID' \subseteq {a \in Requests : row[a] = "pending"}
    /\ lost' = {a \in Requests : row[a] = "pending"} \ reqID' /\ pumps' = {}
    /\ UNCHANGED <<asked, row, due, replies, spent>>

\* Restart does that.
LEMMA RestartMoves == ASSUME Restart PROVE Fresh
<1>1. NoCall \in CallStates /\ CallOver \in CallStates /\ NoCall.at = "ready" /\ CallOver.at = "over"
    BY DEF CallStates, NoCall, CallOver, Resolved, Decisions
<1> HIDE DEF NoCall, CallOver
<1> QED BY <1>1 DEF Restart, Fresh, Offer!Discard

\* The types of the rows, the map and each actor's own state.
LEMMA TypesStay == TypeOK /\ OnlyAsked /\ Informed /\ [Next]_vars => TypeOK'
<1> SUFFICES ASSUME TypeOK, OnlyAsked, Informed, [Next]_vars PROVE TypeOK'
    OBVIOUS
<1> USE DEF Requests, ServerOf, Offer!TypeOK
<1>1. ASSUME NEW g \in Servers, OfferServer(g) PROVE TypeOK'
    BY <1>1 DEF OfferServer, Offer!Offer, table, server, TypeOK, Resolved, Decisions
<1>2. ASSUME NEW g \in Servers, RecordId(g) PROVE TypeOK'
    BY <1>2 DEF RecordId, table, server, TypeOK, Resolved, Decisions
<1>3. CASE WithdrawServer
    BY <1>3 DEF WithdrawServer, Offer!Discard, table, server, TypeOK, Resolved, Decisions
<1>4. ASSUME NEW a \in Requests, RecordRow(a) PROVE TypeOK'
    BY SMTT(20), <1>4 DEF RecordRow, table, server, TypeOK, Resolved, Decisions
<1>5. ASSUME NEW a \in Requests, Elapse(a) PROVE TypeOK'
    BY <1>5 DEF Elapse, table, server, TypeOK, Resolved, Decisions
<1>6. ASSUME NEW c \in Calls, NEW a \in Requests, NEW d \in Decisions, ReadApproval(c, a, d) PROVE TypeOK'
    BY <1>6 DEF ReadApproval, table, server, TypeOK, Resolved, Decisions
<1>7. ASSUME NEW c \in Calls, TakeId(c) PROVE TypeOK'
    <2>1. Taken(c)
        BY <1>7, TakeMoves
    <2> QED BY <2>1 DEF Taken, GoesOn, TypeOK, CallStates
<1>8. ASSUME NEW c \in Calls, SendDecision(c) PROVE TypeOK'
    <2>1. Sent(c) /\ call[c].of \in Requests /\ call[c].want \in Decisions
        BY <1>8, SendMoves DEF Sent, OnlyAsked, Informed, TypeOK
    <2>2. replies' \subseteq [for : Requests, to : Servers, decision : Decisions, by : Calls \cup {"expiry"}]
        BY <2>1 DEF Sent, TypeOK
    <2> QED BY <2>1, <2>2 DEF Sent, TypeOK, CallStates
<1>9. ASSUME NEW c \in Calls, RecordDecision(c) PROVE TypeOK'
    <2>1. Recorded(c) /\ call[c].of \in Requests
        BY <1>9, RecordMoves DEF Recorded, OnlyAsked, TypeOK
    <2> QED BY <2>1 DEF Recorded, TypeOK, CallStates
<1>10. CASE ExpireRows
    BY <1>10 DEF ExpireRows, table, server, TypeOK, Resolved, Decisions
<1>11. CASE ExpireTakes
    BY <1>11 DEF ExpireTakes, table, server, TypeOK, Resolved, Decisions
<1>12. CASE ExpireDeclines
    BY <1>12 DEF ExpireDeclines, NoExpiry, table, server, TypeOK, Resolved, Decisions
<1>13. CASE Restart
    <2>1. Fresh /\ restarts' \in 0..MaxRestarts
        BY <1>13, RestartMoves DEF Restart, TypeOK
    <2> QED BY <2>1 DEF Fresh, NoExpiry, TypeOK, CallStates
<1>14. CASE UNCHANGED vars
    BY <1>14 DEF vars, table, server, TypeOK, Resolved, Decisions
<1> QED BY <1>1, <1>2, <1>3, <1>4, <1>5, <1>6, <1>7, <1>8, <1>9, <1>10, <1>11, <1>12, <1>13, <1>14 DEF Next, Decide, Expire

\* Requests come from the servers' pumps alone.
LEMMA AskedStays == TypeOK /\ OnlyAsked /\ [Next]_vars => OnlyAsked'
<1> SUFFICES ASSUME TypeOK, OnlyAsked, [Next]_vars PROVE OnlyAsked'
    OBVIOUS
<1> USE DEF OnlyAsked, Requests, ServerOf
<1>1. ASSUME NEW g \in Servers, OfferServer(g) PROVE OnlyAsked'
    BY <1>1 DEF OfferServer, Offer!Offer, table, server, TypeOK, Resolved, Decisions
<1>2. ASSUME NEW g \in Servers, RecordId(g) PROVE OnlyAsked'
    BY <1>2 DEF RecordId, table, server, TypeOK, Resolved, Decisions
<1>3. CASE WithdrawServer
    BY <1>3 DEF WithdrawServer, Offer!Discard, table, server, TypeOK, Resolved, Decisions
<1>4. ASSUME NEW a \in Requests, RecordRow(a) PROVE OnlyAsked'
    BY <1>4 DEF RecordRow, table, server, TypeOK, Resolved, Decisions
<1>5. ASSUME NEW a \in Requests, Elapse(a) PROVE OnlyAsked'
    BY <1>5 DEF Elapse, table, server, TypeOK, Resolved, Decisions
<1>6. ASSUME NEW c \in Calls, NEW a \in Requests, NEW d \in Decisions, ReadApproval(c, a, d) PROVE OnlyAsked'
    BY <1>6 DEF ReadApproval, table, server, TypeOK, Resolved, Decisions
<1>7. ASSUME NEW c \in Calls, TakeId(c) PROVE OnlyAsked'
    <2>1. Taken(c)
        BY <1>7, TakeMoves
    <2> QED BY <2>1 DEF Taken, GoesOn, TypeOK, CallStates
<1>8. ASSUME NEW c \in Calls, SendDecision(c) PROVE OnlyAsked'
    <2>1. Sent(c)
        BY <1>8, SendMoves
    <2> QED BY <2>1 DEF Sent, GoesOn, TypeOK, CallStates
<1>9. ASSUME NEW c \in Calls, RecordDecision(c) PROVE OnlyAsked'
    <2>1. Recorded(c)
        BY <1>9, RecordMoves
    <2> QED BY <2>1 DEF Recorded, TypeOK, CallStates
<1>10. CASE ExpireRows
    BY <1>10 DEF ExpireRows, table, server, TypeOK, Resolved, Decisions
<1>11. CASE ExpireTakes
    BY <1>11 DEF ExpireTakes, table, server, TypeOK, Resolved, Decisions
<1>12. CASE ExpireDeclines
    BY <1>12 DEF ExpireDeclines, NoExpiry, table, server, TypeOK, Resolved, Decisions
<1>13. CASE Restart
    <2>1. Fresh
        BY <1>13, RestartMoves
    <2> QED BY <2>1 DEF Fresh, NoExpiry, TypeOK
<1>14. CASE UNCHANGED vars
    BY <1>14 DEF vars, table, server, TypeOK, Resolved, Decisions
<1> QED BY <1>1, <1>2, <1>3, <1>4, <1>5, <1>6, <1>7, <1>8, <1>9, <1>10, <1>11, <1>12, <1>13, <1>14 DEF Next, Decide, Expire

\* The right to answer moves, and nobody keeps a copy.
LEMMA HolderStays == TypeOK /\ OnlyAsked /\ OneHolder /\ [Next]_vars => OneHolder'
<1> SUFFICES ASSUME TypeOK, OnlyAsked, OneHolder, [Next]_vars PROVE OneHolder'
    OBVIOUS
<1> USE DEF OnlyAsked, OneHolder, Sends, Declines, Pumped
<1>1. ASSUME NEW g \in Servers, OfferServer(g) PROVE OneHolder'
    BY <1>1 DEF OfferServer, Offer!Offer, table, server, TypeOK, Resolved, Decisions
<1>2. ASSUME NEW g \in Servers, RecordId(g) PROVE OneHolder'
    BY <1>2, ServersOwn DEF RecordId, table, server, TypeOK
<1>3. CASE WithdrawServer
    BY <1>3 DEF WithdrawServer, Offer!Discard, table, server, TypeOK, Resolved, Decisions
<1>4. ASSUME NEW a \in Requests, RecordRow(a) PROVE OneHolder'
    <2>1. \A b \in Requests : Pumped(b)' => Pumped(b) \/ (b = a /\ pump'[ServerOf(a)] = a)
        BY <1>4, ServersOwn DEF RecordRow, TypeOK
    <2> QED BY <1>4, <2>1, ServersOwn DEF RecordRow, table, server, TypeOK
<1>5. ASSUME NEW a \in Requests, Elapse(a) PROVE OneHolder'
    BY <1>5 DEF Elapse, table, server, TypeOK, Resolved, Decisions
<1>6. ASSUME NEW c \in Calls, NEW a \in Requests, NEW d \in Decisions, ReadApproval(c, a, d) PROVE OneHolder'
    BY <1>6 DEF ReadApproval, table, server, TypeOK, Resolved, Decisions
<1>7. ASSUME NEW c \in Calls, TakeId(c) PROVE OneHolder'
    <2>1. Taken(c)
        BY <1>7, TakeMoves
    <2>2. \A a \in Requests, d \in Calls : Sends(d, a)' =>
            Sends(d, a) \/ (d = c /\ a = call[c].of /\ a \in reqID /\ a \notin reqID')
        BY <2>1 DEF Taken, GoesOn
    <2> QED BY <2>1, <2>2 DEF Taken
<1>8. ASSUME NEW c \in Calls, SendDecision(c) PROVE OneHolder'
    <2>1. Sent(c)
        BY <1>8, SendMoves
    <2>2. \A a \in Requests, d \in Calls : Sends(d, a)' => Sends(d, a)
        BY <2>1 DEF Sent, GoesOn
    <2> QED BY SMTT(30), <2>1, <2>2 DEF Sent
<1>9. ASSUME NEW c \in Calls, RecordDecision(c) PROVE OneHolder'
    <2>1. Recorded(c)
        BY <1>9, RecordMoves
    <2>2. \A a \in Requests, d \in Calls : Sends(d, a)' => Sends(d, a)
        BY <2>1 DEF Recorded
    <2> QED BY <2>1, <2>2 DEF Recorded
<1>10. CASE ExpireRows
    BY <1>10 DEF ExpireRows, table, server, TypeOK, Resolved, Decisions
<1>11. CASE ExpireTakes
    BY <1>11 DEF ExpireTakes, table, server, TypeOK, Resolved, Decisions
<1>12. CASE ExpireDeclines
    BY <1>12 DEF ExpireDeclines, NoExpiry, table, server, TypeOK, Resolved, Decisions
<1>13. CASE Restart
    <2>1. Fresh
        BY <1>13, RestartMoves
    <2> QED BY <2>1, ServersOwn DEF Fresh, NoExpiry, TypeOK
<1>14. CASE UNCHANGED vars
    BY <1>14 DEF vars, table, server, TypeOK, Resolved, Decisions
<1> QED BY <1>1, <1>2, <1>3, <1>4, <1>5, <1>6, <1>7, <1>8, <1>9, <1>10, <1>11, <1>12, <1>13, <1>14 DEF Next, Decide, Expire

\* It is given up with the reply.
LEMMA NotToldStays == TypeOK /\ OnlyAsked /\ OneHolder /\ NotToldYet /\ [Next]_vars => NotToldYet'
<1> SUFFICES ASSUME TypeOK, OnlyAsked, OneHolder, NotToldYet, [Next]_vars PROVE NotToldYet'
    OBVIOUS
<1> USE DEF OnlyAsked, OneHolder, NotToldYet, MayAnswer, Sends, Declines, Pumped, Offer!TypeOK
<1>1. ASSUME NEW g \in Servers, OfferServer(g) PROVE NotToldYet'
    BY <1>1 DEF OfferServer, Offer!Offer, table, server, TypeOK, Resolved, Decisions
<1>2. ASSUME NEW g \in Servers, RecordId(g) PROVE NotToldYet'
    <2>1. \A b \in Requests : MayAnswer(b)' => MayAnswer(b)
        BY <1>2, ServersOwn DEF RecordId, table, server, TypeOK
    <2> QED BY <1>2, <2>1 DEF RecordId, server, TypeOK
<1>3. CASE WithdrawServer
    BY <1>3 DEF WithdrawServer, Offer!Discard, table, server, TypeOK, Resolved, Decisions
<1>4. ASSUME NEW a \in Requests, RecordRow(a) PROVE NotToldYet'
    <2>1. \A b \in Requests : MayAnswer(b)' => MayAnswer(b)
        BY <1>4, ServersOwn DEF RecordRow, table, server, TypeOK
    <2> QED BY <1>4, <2>1 DEF RecordRow, server, TypeOK
<1>5. ASSUME NEW a \in Requests, Elapse(a) PROVE NotToldYet'
    BY <1>5 DEF Elapse, table, server, TypeOK, Resolved, Decisions
<1>6. ASSUME NEW c \in Calls, NEW a \in Requests, NEW d \in Decisions, ReadApproval(c, a, d) PROVE NotToldYet'
    BY <1>6 DEF ReadApproval, table, server, TypeOK, Resolved, Decisions
<1>7. ASSUME NEW c \in Calls, TakeId(c) PROVE NotToldYet'
    <2>1. Taken(c)
        BY <1>7, TakeMoves
    <2> QED BY <2>1 DEF Taken, GoesOn, TypeOK, CallStates
<1>8. ASSUME NEW c \in Calls, SendDecision(c) PROVE NotToldYet'
    <2>1. Sent(c) /\ call[c].of \in asked
        BY <1>8, SendMoves DEF Sent
    <2>2. \A b \in Requests, d \in Calls : Sends(d, b)' => Sends(d, b) /\ d # c
        BY <2>1 DEF Sent, GoesOn
    <2>3. \A b \in Requests : MayAnswer(b)' => MayAnswer(b) /\ b # call[c].of
        BY <2>1, <2>2 DEF Sent
    <2>4. \A p \in replies' : p \in replies \/ (p.for = call[c].of /\ p.to = offered /\ offered # None)
        BY <2>1 DEF Sent
    <2>5. \A p \in replies : p.for \in Requests
        BY DEF TypeOK
    <2>6. call[c].of \in Requests
        BY <2>1 DEF TypeOK
    <2> QED BY <2>1, <2>3, <2>4, <2>5, <2>6 DEF Sent
<1>9. ASSUME NEW c \in Calls, RecordDecision(c) PROVE NotToldYet'
    <2>1. Recorded(c)
        BY <1>9, RecordMoves
    <2>2. \A b \in Requests, d \in Calls : Sends(d, b)' => Sends(d, b)
        BY <2>1 DEF Recorded
    <2> QED BY <2>1, <2>2 DEF Recorded, TypeOK
<1>10. CASE ExpireRows
    BY <1>10 DEF ExpireRows, table, server, TypeOK, Resolved, Decisions
<1>11. CASE ExpireTakes
    BY <1>11 DEF ExpireTakes, table, server, TypeOK, Resolved, Decisions
<1>12. CASE ExpireDeclines
    BY <1>12 DEF ExpireDeclines, NoExpiry, table, server, TypeOK, Resolved, Decisions
<1>13. CASE Restart
    <2>1. Fresh
        BY <1>13, RestartMoves
    <2> QED BY <2>1, ServersOwn DEF Fresh, NoExpiry, TypeOK
<1>14. CASE UNCHANGED vars
    BY <1>14 DEF vars, table, server, TypeOK, Resolved, Decisions
<1> QED BY <1>1, <1>2, <1>3, <1>4, <1>5, <1>6, <1>7, <1>8, <1>9, <1>10, <1>11, <1>12, <1>13, <1>14 DEF Next, Decide, Expire

\* A reply goes to a server that has none for that approval.
LEMMA ToldOnceStays == TypeOK /\ NotToldYet /\ ToldOnce /\ [Next]_vars => ToldOnce'
<1> SUFFICES ASSUME TypeOK, NotToldYet, ToldOnce, [Next]_vars PROVE ToldOnce'
    OBVIOUS
<1> USE DEF NotToldYet, ToldOnce, MayAnswer, Sends, Declines
<1>1. ASSUME NEW g \in Servers, OfferServer(g) PROVE ToldOnce'
    BY <1>1 DEF OfferServer, Offer!Offer, table, server, TypeOK, Resolved, Decisions
<1>2. ASSUME NEW g \in Servers, RecordId(g) PROVE ToldOnce'
    BY <1>2 DEF RecordId, table, server, TypeOK, Resolved, Decisions
<1>3. CASE WithdrawServer
    BY <1>3 DEF WithdrawServer, Offer!Discard, table, server, TypeOK, Resolved, Decisions
<1>4. ASSUME NEW a \in Requests, RecordRow(a) PROVE ToldOnce'
    BY <1>4 DEF RecordRow, table, server, TypeOK, Resolved, Decisions
<1>5. ASSUME NEW a \in Requests, Elapse(a) PROVE ToldOnce'
    BY <1>5 DEF Elapse, table, server, TypeOK, Resolved, Decisions
<1>6. ASSUME NEW c \in Calls, NEW a \in Requests, NEW d \in Decisions, ReadApproval(c, a, d) PROVE ToldOnce'
    BY <1>6 DEF ReadApproval, table, server, TypeOK, Resolved, Decisions
<1>7. ASSUME NEW c \in Calls, TakeId(c) PROVE ToldOnce'
    <2>1. Taken(c)
        BY <1>7, TakeMoves
    <2> QED BY <2>1 DEF Taken, GoesOn, TypeOK, CallStates
<1>8. ASSUME NEW c \in Calls, SendDecision(c) PROVE ToldOnce'
    <2>1. Sent(c)
        BY <1>8, SendMoves
    <2> QED BY <2>1 DEF Sent, GoesOn, TypeOK, CallStates
<1>9. ASSUME NEW c \in Calls, RecordDecision(c) PROVE ToldOnce'
    <2>1. Recorded(c)
        BY <1>9, RecordMoves
    <2> QED BY <2>1 DEF Recorded, TypeOK, CallStates
<1>10. CASE ExpireRows
    BY <1>10 DEF ExpireRows, table, server, TypeOK, Resolved, Decisions
<1>11. CASE ExpireTakes
    BY <1>11 DEF ExpireTakes, table, server, TypeOK, Resolved, Decisions
<1>12. CASE ExpireDeclines
    BY <1>12 DEF ExpireDeclines, NoExpiry, table, server, TypeOK, Resolved, Decisions
<1>13. CASE Restart
    <2>1. Fresh
        BY <1>13, RestartMoves
    <2> QED BY <2>1 DEF Fresh, NoExpiry, TypeOK
<1>14. CASE UNCHANGED vars
    BY <1>14 DEF vars, table, server, TypeOK, Resolved, Decisions
<1> QED BY <1>1, <1>2, <1>3, <1>4, <1>5, <1>6, <1>7, <1>8, <1>9, <1>10, <1>11, <1>12, <1>13, <1>14 DEF Next, Decide, Expire

\* A restart ends every decision under way, so none misses it.
LEMMA InformedStays == TypeOK /\ Informed /\ [Next]_vars => Informed'
<1> SUFFICES ASSUME TypeOK, Informed, [Next]_vars PROVE Informed'
    OBVIOUS
<1> USE DEF Informed
<1>1. ASSUME NEW g \in Servers, OfferServer(g) PROVE Informed'
    BY <1>1 DEF OfferServer, Offer!Offer, table, server, TypeOK, Resolved, Decisions
<1>2. ASSUME NEW g \in Servers, RecordId(g) PROVE Informed'
    BY <1>2 DEF RecordId, table, server, TypeOK, Resolved, Decisions
<1>3. CASE WithdrawServer
    BY <1>3 DEF WithdrawServer, Offer!Discard, table, server, TypeOK, Resolved, Decisions
<1>4. ASSUME NEW a \in Requests, RecordRow(a) PROVE Informed'
    BY <1>4 DEF RecordRow, table, server, TypeOK, Resolved, Decisions
<1>5. ASSUME NEW a \in Requests, Elapse(a) PROVE Informed'
    BY <1>5 DEF Elapse, table, server, TypeOK, Resolved, Decisions
<1>6. ASSUME NEW c \in Calls, NEW a \in Requests, NEW d \in Decisions, ReadApproval(c, a, d) PROVE Informed'
    <2>1. /\ call'[c].at = "take" /\ call'[c].of = a /\ (call'[c].orphan <=> a \in orphaned)
          /\ call'[c].want \in Decisions \cup {"expired"}
          /\ \A e \in Calls : e # c => call'[e] = call[e]
        BY <1>6 DEF ReadApproval, TypeOK
    <2> QED BY <1>6, <2>1 DEF ReadApproval, table
<1>7. ASSUME NEW c \in Calls, TakeId(c) PROVE Informed'
    <2>1. Taken(c)
        BY <1>7, TakeMoves
    <2> QED BY SMTT(20), <2>1 DEF Taken, GoesOn, TypeOK, CallStates
<1>8. ASSUME NEW c \in Calls, SendDecision(c) PROVE Informed'
    <2>1. Sent(c)
        BY <1>8, SendMoves
    <2>2. call'[c].want = "accept" => \E p \in replies' : p.for = call'[c].of /\ p.decision = "accept"
        <3> SUFFICES ASSUME call'[c].want = "accept"
                     PROVE  \E p \in replies' : p.for = call'[c].of /\ p.decision = "accept"
            OBVIOUS
        <3> DEFINE p == [for |-> call[c].of, to |-> offered, decision |-> call[c].want, by |-> c]
        <3>1. p \in replies' /\ call'[c].of = call[c].of /\ call[c].want = "accept"
            BY <2>1 DEF Sent, GoesOn
        <3>2. p.for = call[c].of /\ p.decision = call[c].want
            OBVIOUS
        <3> HIDE DEF p
        <3> QED BY <3>1, <3>2
    <2>3. \A p \in replies : p \in replies'
        BY <2>1 DEF Sent
    <2> QED BY <2>1, <2>2, <2>3 DEF Sent, GoesOn
<1>9. ASSUME NEW c \in Calls, RecordDecision(c) PROVE Informed'
    <2>1. Recorded(c)
        BY <1>9, RecordMoves
    <2> QED BY <2>1 DEF Recorded, TypeOK, CallStates
<1>10. CASE ExpireRows
    BY <1>10 DEF ExpireRows, table, server, TypeOK, Resolved, Decisions
<1>11. CASE ExpireTakes
    BY <1>11 DEF ExpireTakes, table, server, TypeOK, Resolved, Decisions
<1>12. CASE ExpireDeclines
    BY <1>12 DEF ExpireDeclines, NoExpiry, table, server, TypeOK, Resolved, Decisions
<1>13. CASE Restart
    <2>1. Fresh
        BY <1>13, RestartMoves
    <2> QED BY <2>1 DEF Fresh, NoExpiry, TypeOK
<1>14. CASE UNCHANGED vars
    BY <1>14 DEF vars, table, server, TypeOK, Resolved, Decisions
<1> QED BY <1>1, <1>2, <1>3, <1>4, <1>5, <1>6, <1>7, <1>8, <1>9, <1>10, <1>11, <1>12, <1>13, <1>14 DEF Next, Decide, Expire

\* A row is approved by a decision that was sent, and a restart marks pending rows only.
LEMMA ApprovedStays == TypeOK /\ OnlyAsked /\ Informed /\ ApprovedWasTold /\ [Next]_vars => ApprovedWasTold'
<1> SUFFICES ASSUME TypeOK, OnlyAsked, Informed, ApprovedWasTold, [Next]_vars PROVE ApprovedWasTold'
    OBVIOUS
<1> USE DEF OnlyAsked, Informed, ApprovedWasTold
<1>1. ASSUME NEW g \in Servers, OfferServer(g) PROVE ApprovedWasTold'
    BY <1>1 DEF OfferServer, Offer!Offer, table, server, TypeOK, Resolved, Decisions
<1>2. ASSUME NEW g \in Servers, RecordId(g) PROVE ApprovedWasTold'
    BY <1>2 DEF RecordId, table, server, TypeOK, Resolved, Decisions
<1>3. CASE WithdrawServer
    BY <1>3 DEF WithdrawServer, Offer!Discard, table, server, TypeOK, Resolved, Decisions
<1>4. ASSUME NEW a \in Requests, RecordRow(a) PROVE ApprovedWasTold'
    BY <1>4 DEF RecordRow, table, server, TypeOK, Resolved, Decisions
<1>5. ASSUME NEW a \in Requests, Elapse(a) PROVE ApprovedWasTold'
    BY <1>5 DEF Elapse, table, server, TypeOK, Resolved, Decisions
<1>6. ASSUME NEW c \in Calls, NEW a \in Requests, NEW d \in Decisions, ReadApproval(c, a, d) PROVE ApprovedWasTold'
    BY <1>6 DEF ReadApproval, table, server, TypeOK, Resolved, Decisions
<1>7. ASSUME NEW c \in Calls, TakeId(c) PROVE ApprovedWasTold'
    <2>1. Taken(c)
        BY <1>7, TakeMoves
    <2> QED BY <2>1 DEF Taken, GoesOn, TypeOK, CallStates
<1>8. ASSUME NEW c \in Calls, SendDecision(c) PROVE ApprovedWasTold'
    <2>1. Sent(c)
        BY <1>8, SendMoves
    <2> QED BY <2>1 DEF Sent, GoesOn, TypeOK, CallStates
<1>9. ASSUME NEW c \in Calls, RecordDecision(c) PROVE ApprovedWasTold'
    <2>1. Recorded(c)
        BY <1>9, RecordMoves
    <2> QED BY <2>1 DEF Recorded, TypeOK, CallStates
<1>10. CASE ExpireRows
    BY <1>10 DEF ExpireRows, table, server, TypeOK, Resolved, Decisions
<1>11. CASE ExpireTakes
    BY <1>11 DEF ExpireTakes, table, server, TypeOK, Resolved, Decisions
<1>12. CASE ExpireDeclines
    BY <1>12 DEF ExpireDeclines, NoExpiry, table, server, TypeOK, Resolved, Decisions
<1>13. CASE Restart
    <2>1. Fresh
        BY <1>13, RestartMoves
    <2> QED BY <2>1 DEF Fresh, NoExpiry, TypeOK
<1>14. CASE UNCHANGED vars
    BY <1>14 DEF vars, table, server, TypeOK, Resolved, Decisions
<1> QED BY <1>1, <1>2, <1>3, <1>4, <1>5, <1>6, <1>7, <1>8, <1>9, <1>10, <1>11, <1>12, <1>13, <1>14 DEF Next, Decide, Expire

\* Nothing makes a settled row pending.
LEMMA ExpiredStays == TypeOK /\ OnlyAsked /\ ExpiredRows /\ [Next]_vars => ExpiredRows'
<1> SUFFICES ASSUME TypeOK, OnlyAsked, ExpiredRows, [Next]_vars PROVE ExpiredRows'
    OBVIOUS
<1> USE DEF OnlyAsked, ExpiredRows
<1>1. ASSUME NEW g \in Servers, OfferServer(g) PROVE ExpiredRows'
    BY <1>1 DEF OfferServer, Offer!Offer, table, server, TypeOK, Resolved, Decisions
<1>2. ASSUME NEW g \in Servers, RecordId(g) PROVE ExpiredRows'
    BY <1>2 DEF RecordId, table, server, TypeOK, Resolved, Decisions
<1>3. CASE WithdrawServer
    BY <1>3 DEF WithdrawServer, Offer!Discard, table, server, TypeOK, Resolved, Decisions
<1>4. ASSUME NEW a \in Requests, RecordRow(a) PROVE ExpiredRows'
    BY <1>4 DEF RecordRow, table, server, TypeOK, Resolved, Decisions
<1>5. ASSUME NEW a \in Requests, Elapse(a) PROVE ExpiredRows'
    BY <1>5 DEF Elapse, table, server, TypeOK, Resolved, Decisions
<1>6. ASSUME NEW c \in Calls, NEW a \in Requests, NEW d \in Decisions, ReadApproval(c, a, d) PROVE ExpiredRows'
    BY <1>6 DEF ReadApproval, table, server, TypeOK, Resolved, Decisions
<1>7. ASSUME NEW c \in Calls, TakeId(c) PROVE ExpiredRows'
    <2>1. Taken(c)
        BY <1>7, TakeMoves
    <2> QED BY <2>1 DEF Taken, GoesOn, TypeOK, CallStates
<1>8. ASSUME NEW c \in Calls, SendDecision(c) PROVE ExpiredRows'
    <2>1. Sent(c)
        BY <1>8, SendMoves
    <2> QED BY <2>1 DEF Sent, GoesOn, TypeOK, CallStates
<1>9. ASSUME NEW c \in Calls, RecordDecision(c) PROVE ExpiredRows'
    <2>1. Recorded(c)
        BY <1>9, RecordMoves
    <2> QED BY <2>1 DEF Recorded, TypeOK, CallStates
<1>10. CASE ExpireRows
    BY <1>10 DEF ExpireRows, table, server, TypeOK, Resolved, Decisions
<1>11. CASE ExpireTakes
    BY <1>11 DEF ExpireTakes, table, server, TypeOK, Resolved, Decisions
<1>12. CASE ExpireDeclines
    BY <1>12 DEF ExpireDeclines, NoExpiry, table, server, TypeOK, Resolved, Decisions
<1>13. CASE Restart
    <2>1. Fresh
        BY <1>13, RestartMoves
    <2> QED BY <2>1 DEF Fresh, NoExpiry, TypeOK
<1>14. CASE UNCHANGED vars
    BY <1>14 DEF vars, table, server, TypeOK, Resolved, Decisions
<1> QED BY <1>1, <1>2, <1>3, <1>4, <1>5, <1>6, <1>7, <1>8, <1>9, <1>10, <1>11, <1>12, <1>13, <1>14 DEF Next, Decide, Expire

\* Who takes the id of a pending row settles the row.
LEMMA AnswerableStays == TypeOK /\ OnlyAsked /\ ExpiredRows /\ AnswerableWhilePending /\ [Next]_vars => AnswerableWhilePending'
<1> SUFFICES ASSUME TypeOK, OnlyAsked, ExpiredRows, AnswerableWhilePending, [Next]_vars PROVE AnswerableWhilePending'
    OBVIOUS
<1> USE DEF OnlyAsked, ExpiredRows, AnswerableWhilePending, InHand
<1>1. ASSUME NEW g \in Servers, OfferServer(g) PROVE AnswerableWhilePending'
    BY <1>1 DEF OfferServer, Offer!Offer, table, server, TypeOK, Resolved, Decisions
<1>2. ASSUME NEW g \in Servers, RecordId(g) PROVE AnswerableWhilePending'
    BY <1>2 DEF RecordId, table, server, TypeOK, Resolved, Decisions
<1>3. CASE WithdrawServer
    BY <1>3 DEF WithdrawServer, Offer!Discard, table, server, TypeOK, Resolved, Decisions
<1>4. ASSUME NEW a \in Requests, RecordRow(a) PROVE AnswerableWhilePending'
    BY <1>4, ServersOwn DEF RecordRow, table, server, TypeOK
<1>5. ASSUME NEW a \in Requests, Elapse(a) PROVE AnswerableWhilePending'
    BY <1>5 DEF Elapse, table, server, TypeOK, Resolved, Decisions
<1>6. ASSUME NEW c \in Calls, NEW a \in Requests, NEW d \in Decisions, ReadApproval(c, a, d) PROVE AnswerableWhilePending'
    BY <1>6 DEF ReadApproval, table, server, TypeOK, Resolved, Decisions
<1>7. ASSUME NEW c \in Calls, TakeId(c) PROVE AnswerableWhilePending'
    <2>1. Taken(c)
        BY <1>7, TakeMoves
    <2> QED BY <2>1 DEF Taken, GoesOn, TypeOK, CallStates
<1>8. ASSUME NEW c \in Calls, SendDecision(c) PROVE AnswerableWhilePending'
    <2>1. Sent(c)
        BY <1>8, SendMoves
    <2> QED BY SMTT(30), <2>1 DEF Sent, GoesOn
<1>9. ASSUME NEW c \in Calls, RecordDecision(c) PROVE AnswerableWhilePending'
    <2>1. Recorded(c)
        BY <1>9, RecordMoves
    <2> QED BY SMTT(30), <2>1 DEF Recorded, TypeOK, CallStates
<1>10. CASE ExpireRows
    BY <1>10 DEF ExpireRows, table, server, TypeOK, Resolved, Decisions
<1>11. CASE ExpireTakes
    BY <1>11 DEF ExpireTakes, table, server, TypeOK, Resolved, Decisions
<1>12. CASE ExpireDeclines
    BY <1>12 DEF ExpireDeclines, NoExpiry, table, server, TypeOK, Resolved, Decisions
<1>13. CASE Restart
    <2>1. Fresh
        BY <1>13, RestartMoves
    <2> QED BY <2>1 DEF Fresh, NoExpiry, TypeOK
<1>14. CASE UNCHANGED vars
    BY <1>14 DEF vars, table, server, TypeOK, Resolved, Decisions
<1> QED BY <1>1, <1>2, <1>3, <1>4, <1>5, <1>6, <1>7, <1>8, <1>9, <1>10, <1>11, <1>12, <1>13, <1>14 DEF Next, Decide, Expire

\* The decisions of one program and the requests of the servers start empty.
LEMMA ApprovalInit == Init => ApprovalInv
<1> SUFFICES ASSUME Init PROVE ApprovalInv
    OBVIOUS
<1> USE DEF Init, Offer!Init, NoCall, NoExpiry
<1>1. TypeOK
    BY DEF TypeOK, Offer!TypeOK, Resolved, Decisions
<1>2. OnlyAsked /\ ExpiredRows /\ Informed
    BY DEF OnlyAsked, ExpiredRows, Informed
<1>3. OneHolder
    BY ServersOwn DEF OneHolder, Sends, Declines, Pumped
<1>4. NotToldYet /\ ToldOnce /\ ApprovedWasTold /\ AnswerableWhilePending
    BY DEF NotToldYet, ToldOnce, ApprovedWasTold, AnswerableWhilePending, InHand
<1> QED BY <1>1, <1>2, <1>3, <1>4 DEF ApprovalInv

\* The invariant is inductive.
LEMMA ApprovalStep == ApprovalInv /\ [Next]_vars => ApprovalInv'
BY TypesStay, AskedStays, HolderStays, NotToldStays, ToldOnceStays, InformedStays,
   ApprovedStays, ExpiredStays, AnswerableStays DEF ApprovalInv

\* It holds of every state the program reaches.
LEMMA ApprovalSafety == Spec => []ApprovalInv
BY ApprovalInit, ApprovalStep, PTL DEF Spec

\* Every reachable state is well typed: only decisions of the owner or the expiry are
\* written to an app-server (ResolveApprovalDecision, expireApprovals).
THEOREM ApprovalTypes == Spec => []TypeOK
<1>1. ApprovalInv => TypeOK
    BY DEF ApprovalInv
<1> QED BY <1>1, ApprovalSafety, PTL

\* However many decisions race on an approval with each other and with the expiry, an
\* app-server is told one of them: whoever takes the id out of pendingApprovalReqID.
THEOREM OneDecisionTold == Spec => []ToldOnce
<1>1. ApprovalInv => ToldOnce
    BY DEF ApprovalInv
<1> QED BY <1>1, ApprovalSafety, PTL

\* A row ResolveApprovalDecision recorded as accepted was sent, and by the program
\* that recorded the request: timeouts and restarts fail closed.
THEOREM NothingApprovedUntold == Spec => []ApprovedWasTold
<1>1. ApprovalInv => ApprovedWasTold
    BY DEF ApprovalInv
<1> QED BY <1>1, ApprovalSafety, PTL

\* What the owner sees as pending has its id in pendingApprovalReqID, or is being
\* recorded or settled, unless a read or write of the row has failed: no order of
\* decisions, expiry and restarts loses the id of a pending approval.
THEOREM PendingAnswerable == Spec => []AnswerableWhilePending
<1>1. ApprovalInv => AnswerableWhilePending
    BY DEF ApprovalInv
<1> QED BY <1>1, ApprovalSafety, PTL
=============================================================================
