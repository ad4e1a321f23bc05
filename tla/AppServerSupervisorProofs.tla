---------------------- MODULE AppServerSupervisorProofs ----------------------
(***************************************************************************)
(* Proofs about AppServerSupervisor for any set of requests: types, the     *)
(* agreement of state and client, that no closed client is offered, and     *)
(* that it implements ServerOffer.                                          *)
(***************************************************************************)
EXTENDS AppServerSupervisor, TLAPS

Ended == {"return", "over"}

\* A client that is offered, or taken out to be closed, was published by a
\* request that has nothing left to do with it.
PublishedOnce ==
    /\ client # None => pc[client] \in Ended
    /\ \A r \in Requests : closing[r] # None =>
            /\ pc[closing[r]] \in Ended
            /\ closing[r] # client

\* A client is closed by its own failing start, or after it was taken out.
ClosedIsOut ==
    \A g \in Requests : closed[g] => /\ pc[g] \in Ended \cup {"failing"}
                                     /\ client # g

SupervisorInv == TypeOK /\ OfferedOrNot /\ PublishedOnce /\ ClosedIsOut

USE NoneIsNoRequest

\* What setFailed writes is of the right type.
LEMMA FailureTypes ==
    ASSUME TypeOK, SetFailed
    PROVE  /\ state' \in {"stopped", "starting", "running", "failed"}
           /\ client' \in Clients
           /\ proc' \in [Requests -> {"none", "alive", "exited", "killed"}]
           /\ closed' \in [Requests -> BOOLEAN]
<1> USE DEF TypeOK, SetFailed, Clients
<1>1. state' \in {"stopped", "starting", "running", "failed"} /\ client' \in Clients
    OBVIOUS
<1>2. CASE client = None
    BY <1>1, <1>2 DEF Close
<1>3. CASE client \in Requests
    <2>1. proc' \in [Requests -> {"none", "alive", "exited", "killed"}]
        BY <1>3 DEF Close
    <2>2. closed' \in [Requests -> BOOLEAN]
        BY <1>3 DEF Close
    <2> QED BY <1>1, <2>1, <2>2
<1> QED BY <1>2, <1>3

\* The types of the code's fields and of each request's own state.
LEMMA TypesStay == TypeOK /\ [Next]_vars => TypeOK'
<1> SUFFICES ASSUME TypeOK, [Next]_vars PROVE TypeOK'
    OBVIOUS
<1> USE DEF TypeOK, Places, Clients, NoProbe, Goto
<1>1. ASSUME NEW r \in Requests, Request(r) PROVE TypeOK'
    <2>1. CASE BeginStop(r)
        BY <2>1 DEF BeginStop, processVars
    <2>2. CASE CloseOld(r)
        BY ZenonT(40), <2>2 DEF CloseOld, Close
    <2>3. CASE EnterStart(r)
        BY <2>3 DEF EnterStart, processVars
    <2>4. CASE Refuse(r) \/ Initialized(r)
        BY <2>4 DEF Refuse, Initialized, processVars
    <2>5. CASE Launch(r)
        BY <2>5 DEF Launch
    <2>6. CASE NotInitialized(r)
        BY <2>6 DEF NotInitialized, Close
    <2>7. CASE Fail(r)
        BY <2>7, FailureTypes DEF Fail
    <2>8. CASE Publish(r)
        BY <2>8 DEF Publish, processVars
    <2>9. CASE Return(r) \/ Disconnect(r)
        BY <2>9 DEF Return, Disconnect, processVars
    <2> QED BY <1>1, <2>1, <2>2, <2>3, <2>4, <2>5, <2>6, <2>7, <2>8, <2>9 DEF Request
<1>2. ASSUME NEW g \in Requests, Process(g) PROVE TypeOK'
    <2>1. CASE Exit(g) \/ KillByContext(g)
        BY <2>1 DEF Exit, KillByContext, requestVars
    <2>2. CASE ReadLoopEnds(g)
        BY <2>2 DEF ReadLoopEnds, requestVars
    <2>3. CASE Watch(g)
        BY <2>3, FailureTypes DEF Watch, requestVars
    <2> QED BY <1>2, <2>1, <2>2, <2>3 DEF Process
<1>3. CASE ProbeTakes
    BY <1>3 DEF ProbeTakes, requestVars, processVars
<1>4. CASE ProbePasses
    BY <1>4 DEF ProbePasses, requestVars, processVars
<1>5. CASE ProbeFails
    BY <1>5, FailureTypes DEF ProbeFails, requestVars
<1>6. CASE UNCHANGED vars
    BY <1>6 DEF vars, requestVars, processVars
<1> QED BY <1>1, <1>2, <1>3, <1>4, <1>5, <1>6 DEF Next

\* Every locked section writes state and client together.
LEMMA AgreeStays == TypeOK /\ OfferedOrNot /\ [Next]_vars => OfferedOrNot'
<1> SUFFICES ASSUME TypeOK, OfferedOrNot, [Next]_vars PROVE OfferedOrNot'
    OBVIOUS
<1> USE DEF OfferedOrNot
<1>1. ASSUME NEW r \in Requests, Request(r) PROVE OfferedOrNot'
    <2>1. CASE BeginStop(r) \/ CloseOld(r) \/ EnterStart(r) \/ Launch(r)
        BY <2>1 DEF BeginStop, CloseOld, EnterStart, Launch
    <2>2. CASE Refuse(r) \/ Initialized(r) \/ NotInitialized(r) \/ Return(r) \/ Disconnect(r)
        BY <2>2 DEF Refuse, Initialized, NotInitialized, Return, Disconnect
    <2>3. CASE Fail(r) \/ Publish(r)
        BY <2>3 DEF Fail, Publish, SetFailed
    <2> QED BY <1>1, <2>1, <2>2, <2>3 DEF Request
<1>2. ASSUME NEW g \in Requests, Process(g) PROVE OfferedOrNot'
    BY <1>2 DEF Process, Exit, KillByContext, ReadLoopEnds, Watch, SetFailed
<1>3. CASE ProbeTakes \/ ProbePasses \/ ProbeFails \/ UNCHANGED vars
    BY <1>3 DEF ProbeTakes, ProbePasses, ProbeFails, SetFailed, vars
<1> QED BY <1>1, <1>2, <1>3 DEF Next

\* setFailed closes the client that is offered and no other.
LEMMA FailedKeepsOut ==
    ASSUME TypeOK, PublishedOnce, ClosedIsOut, SetFailed, UNCHANGED closing,
           \A g \in Requests : pc[g] \in Ended => pc'[g] \in Ended,
           \A g \in Requests : pc[g] = "failing" => pc'[g] \in Ended \cup {"failing"}
    PROVE  (PublishedOnce /\ ClosedIsOut)'
BY DEF TypeOK, Clients, PublishedOnce, ClosedIsOut, SetFailed, Close, Ended

\* The strengthening of OfferedIsOpen.
LEMMA OutStays == TypeOK /\ PublishedOnce /\ ClosedIsOut /\ [Next]_vars => (PublishedOnce /\ ClosedIsOut)'
<1> SUFFICES ASSUME TypeOK, PublishedOnce, ClosedIsOut, [Next]_vars
             PROVE  (PublishedOnce /\ ClosedIsOut)'
    OBVIOUS
<1> USE DEF TypeOK, Clients, Ended
<1>1. ASSUME NEW r \in Requests, Request(r) PROVE (PublishedOnce /\ ClosedIsOut)'
    <2>1. CASE BeginStop(r)
        BY <2>1 DEF BeginStop, Goto, processVars, PublishedOnce, ClosedIsOut
    <2>2. CASE CloseOld(r)
        BY <2>2 DEF CloseOld, Close, Goto, PublishedOnce, ClosedIsOut
    <2>3. CASE EnterStart(r)
        BY <2>3 DEF EnterStart, processVars, PublishedOnce, ClosedIsOut
    <2>4. CASE Refuse(r) \/ Initialized(r) \/ Launch(r)
        BY <2>4 DEF Refuse, Initialized, Launch, Goto, processVars, PublishedOnce, ClosedIsOut
    <2>5. CASE NotInitialized(r)
        BY <2>5 DEF NotInitialized, Close, Goto, PublishedOnce, ClosedIsOut
    <2>6. CASE Fail(r)
        <3>1. \A g \in Requests : pc[g] \in Ended => pc'[g] \in Ended
            BY <2>6 DEF Fail, Goto
        <3>2. \A g \in Requests : pc[g] = "failing" => pc'[g] \in Ended \cup {"failing"}
            BY <2>6 DEF Fail, Goto
        <3> QED BY <2>6, <3>1, <3>2, FailedKeepsOut DEF Fail
    <2>7. CASE Publish(r)
        BY <2>7 DEF Publish, Goto, processVars, PublishedOnce, ClosedIsOut
    <2>8. CASE Return(r) \/ Disconnect(r)
        BY <2>8 DEF Return, Disconnect, Goto, processVars, PublishedOnce, ClosedIsOut
    <2> QED BY <1>1, <2>1, <2>2, <2>3, <2>4, <2>5, <2>6, <2>7, <2>8 DEF Request
<1>2. ASSUME NEW g \in Requests, Process(g) PROVE (PublishedOnce /\ ClosedIsOut)'
    <2>1. CASE Exit(g) \/ KillByContext(g) \/ ReadLoopEnds(g)
        BY <2>1 DEF Exit, KillByContext, ReadLoopEnds, requestVars, PublishedOnce, ClosedIsOut
    <2>2. CASE Watch(g)
        BY <2>2, FailedKeepsOut DEF Watch, requestVars
    <2> QED BY <1>2, <2>1, <2>2 DEF Process
<1>3. CASE ProbeTakes \/ ProbePasses \/ UNCHANGED vars
    BY <1>3 DEF ProbeTakes, ProbePasses, vars, requestVars, processVars, PublishedOnce, ClosedIsOut
<1>4. CASE ProbeFails
    BY <1>4, FailedKeepsOut DEF ProbeFails, requestVars
<1> QED BY <1>1, <1>2, <1>3, <1>4 DEF Next

LEMMA SupervisorInvariant == Spec => []SupervisorInv
<1>1. Init => SupervisorInv
    BY DEF Init, SupervisorInv, TypeOK, Places, Clients, NoProbe, OfferedOrNot, PublishedOnce, ClosedIsOut
<1>2. SupervisorInv /\ [Next]_vars => SupervisorInv'
    BY TypesStay, AgreeStays, OutStays DEF SupervisorInv
<1> QED BY <1>1, <1>2, PTL DEF Spec

\* What the status shows and what Client() hands out never part, whatever the
\* order of starts, stops, failures and late watchers.
THEOREM ClientAgrees == Spec => []OfferedOrNot
<1>1. SupervisorInv => OfferedOrNot
    BY DEF SupervisorInv
<1> QED BY <1>1, SupervisorInvariant, PTL

\* No closed client is handed out.
THEOREM ClientOpen == Spec => []OfferedIsOpen
<1>1. SupervisorInv => OfferedIsOpen
    BY DEF SupervisorInv, TypeOK, Clients, ClosedIsOut, OfferedIsOpen
<1> QED BY <1>1, SupervisorInvariant, PTL

----------------------------------------------------------------------------
Spent == {r \in Requests : pc[r] \in {"return", "over"}}

\* A step that fails the runtime withdraws whatever was offered.
LEMMA FailureWithdraws == SetFailed => Offered' = None
BY DEF SetFailed, Offered

\* Every step of the supervisor is a step of ServerOffer or changes nothing it sees.
LEMMA StepOffers ==
    SupervisorInv /\ [Next]_vars => [Offer!Next]_<<Offered, Spent>>
<1> SUFFICES ASSUME SupervisorInv, [Next]_vars
             PROVE  Offer!Next \/ UNCHANGED <<Offered, Spent>>
    BY DEF Spent
<1> USE DEF SupervisorInv, TypeOK, Clients, Places
<1>1. ASSUME NEW r \in Requests, Request(r) PROVE Offer!Next \/ UNCHANGED <<Offered, Spent>>
    <2>1. CASE BeginStop(r)
        <3>1. Offered' = None /\ Spent' = Spent
            BY <2>1 DEF BeginStop, Goto, Offered, Spent
        <3> QED BY <3>1 DEF Offer!Next, Offer!Discard, Spent
    <2>2. CASE CloseOld(r)
        <3>1. Offered' = Offered /\ (Spent' = Spent \/ Spent' = Spent \cup {r})
            BY <2>2 DEF CloseOld, Goto, Offered, Spent
        <3> QED BY <3>1 DEF Offer!Next, Offer!GiveUp, Spent
    <2>3. CASE EnterStart(r)
        <3>1. Offered' = Offered /\ (Spent' = Spent \/ Spent' = Spent \cup {r})
            BY <2>3 DEF EnterStart, Offered, OfferedOrNot, Spent
        <3> QED BY <3>1 DEF Offer!Next, Offer!GiveUp, Spent
    <2>4. CASE Refuse(r) \/ Launch(r) \/ Initialized(r) \/ NotInitialized(r)
        BY <2>4 DEF Refuse, Launch, Initialized, NotInitialized, Goto, Offered, Spent
    <2>5. CASE Return(r) \/ Disconnect(r)
        BY <2>5 DEF Return, Disconnect, Goto, Offered, Spent
    <2>6. CASE Fail(r)
        <3>1. Offered' = None /\ Spent' = Spent \cup {r}
            BY <2>6, FailureWithdraws DEF Fail, Goto, Spent
        <3> QED BY <3>1 DEF Offer!Next, Offer!Discard, Spent
    <2>7. CASE Publish(r)
        <3>1. r \notin Spent /\ Offered' = r /\ Spent' = Spent \cup {r}
            BY <2>7 DEF Publish, Goto, Offered, Spent
        <3> QED BY <3>1 DEF Offer!Next, Offer!Offer, Spent
    <2> QED BY <1>1, <2>1, <2>2, <2>3, <2>4, <2>5, <2>6, <2>7 DEF Request
<1>2. ASSUME NEW g \in Requests, Process(g) PROVE Offer!Next \/ UNCHANGED <<Offered, Spent>>
    <2>1. CASE Exit(g) \/ KillByContext(g) \/ ReadLoopEnds(g)
        BY <2>1 DEF Exit, KillByContext, ReadLoopEnds, requestVars, Offered, Spent
    <2>2. CASE Watch(g)
        <3>1. Offered' = None /\ Spent' = Spent
            BY <2>2, FailureWithdraws DEF Watch, requestVars, Spent
        <3> QED BY <3>1 DEF Offer!Next, Offer!Discard, Spent
    <2> QED BY <1>2, <2>1, <2>2 DEF Process
<1>3. CASE ProbeFails
    <2>1. Offered' = None /\ Spent' = Spent
        BY <1>3, FailureWithdraws DEF ProbeFails, requestVars, Spent
    <2> QED BY <2>1 DEF Offer!Next, Offer!Discard, Spent
<1>4. CASE ProbeTakes \/ ProbePasses \/ UNCHANGED vars
    BY <1>4 DEF ProbeTakes, ProbePasses, vars, requestVars, Offered, Spent
<1> QED BY <1>1, <1>2, <1>3, <1>4 DEF Next

\* The supervisor keeps ServerOffer's promise to those who ask for the client.
THEOREM ServerOffered == Spec => OfferSpec
<1>1. Init => Offer!Init
    BY DEF Init, Offer!Init, Offered
<1>2. SupervisorInv /\ [Next]_vars => [Offer!Next]_<<Offered, {r \in Requests : pc[r] \in {"return", "over"}}>>
    BY StepOffers DEF Spent
<1> QED BY <1>1, <1>2, SupervisorInvariant, PTL DEF Spec, OfferSpec, Offer!Spec
==============================================================================
