-------------------------- MODULE CodexTurnsProofs --------------------------
(***************************************************************************)
(* Proofs about CodexTurns for any number of turns, servers, interrupts,    *)
(* failed saves and restarts and any limit: types, no prompt handed to an   *)
(* agent twice, and the limit for the turns that have not gone astray.      *)
(***************************************************************************)
EXTENDS CodexTurns, FiniteSetTheorems, TLAPS

USE TurnConstants

\* Who may still start a turn: the request that inserts it, or the drain that took its
\* prompt out of memory; nobody has started it before.
Startable ==
    /\ \A t \in Turns : run[t].at = "none" => run[t] = NoRun
    /\ \A t \in Turns : row[t] = "absent" => run[t].at = "none" /\ t \notin input /\ lock # t
    /\ \A t \in input : run[t].at = "none"
    /\ \A t \in Turns : lock = t => run[t].at = "none"
    /\ drain.at # "off" => lock = "drain"
    /\ \A t \in drain.left : row[t] # "absent"
    /\ drain.at = "save" => /\ drain.turn \in Turns \ input
                            /\ run[drain.turn].at = "none"
                            /\ row[drain.turn] # "absent"

\* What is active or asks for approval was started; what was started is live or over.
Started ==
    /\ \A t \in active : run[t].at # "none"
    /\ \A t \in Turns : ask[t].for # None => ask[t].for \in Turns /\ run[ask[t].for].at # "none"
    /\ \A t \in Turns : ask[t].at = "seen" => ask[t].for # None
    /\ \A t \in Turns \ astray : run[t].at # "none" => row[t] \in Live \cup Final

RowStates   == {"absent"} \cup Open \cup Final
DrainStates == [at : {"off", "count", "list", "save"}, left : SUBSET Turns,
                turn : Turns \cup {None}, did : BOOLEAN]
RunStates   == [at : {"none", "dispatch", "calling", "watched", "exec", "over"},
                on : Servers \cup {None}]
AskStates   == [at : {"none", "sent", "seen", "gone"}, for : Turns \cup {None}]
CallStates  == [at : {"ready", "take", "cancel", "over"}, turn : Turns \cup {None}]

\* The maps of TypeOK that most steps update.
LEMMA MapTypes ==
    ASSUME TypeOK
    PROVE  /\ row \in [Turns -> RowStates] /\ run \in [Turns -> RunStates]
           /\ ask \in [Turns -> AskStates] /\ drain \in DrainStates
           /\ input \subseteq Turns /\ active \subseteq Turns /\ astray \subseteq Turns
           /\ troubles \in 0..MaxTroubles
BY DEF TypeOK, RowStates, DrainStates, RunStates, AskStates

\* A save writes one of the statuses.
LEMMA SaveTypes ==
    ASSUME TypeOK, NEW t \in Turns, NEW status \in RowStates, Save(t, status) \/ UNCHANGED row
    PROVE  row' \in [Turns -> RowStates]
<1>1. row \in [Turns -> RowStates]
    BY MapTypes
<1> QED BY <1>1 DEF Save

\* A drain that is over, and one that has listed the queue.
LEMMA NoDrainFacts == NoDrain \in DrainStates /\ NoDrain.at = "off" /\ NoDrain.left = {}
BY DEF NoDrain, DrainStates

LEMMA ListFacts ==
    ASSUME ListQueued
    PROVE  drain' \in DrainStates /\ drain'.at = "list" /\ drain'.left = Queued
<1>1. Queued \subseteq Turns
    BY DEF Queued
<1> QED BY <1>1 DEF ListQueued, DrainStates, NoDrain

\* A turn is dropped from the list or taken.
LEMMA DrainFacts ==
    ASSUME TypeOK, NEW t \in Turns
    PROVE  /\ [drain EXCEPT !.left = @ \ {t}] \in DrainStates
           /\ [drain EXCEPT !.at = "save", !.turn = t] \in DrainStates
BY MapTypes DEF DrainStates

\* Another round is counted.
LEMMA CountFacts ==
    LET again == [NoDrain EXCEPT !.at = "count"] IN
    again \in DrainStates /\ again.at = "count" /\ again.left = {}
BY DEF NoDrain, DrainStates

\* Between two steps of the queue the drain lists it, counts again or releases the lock.
LEMMA DrainMoves ==
    ASSUME DrainCount \/ DrainEnds, TypeOK
    PROVE  /\ drain' \in DrainStates /\ drain'.at # "save"
           /\ drain'.left \subseteq Queued
           /\ (drain'.at = "list" => ~Full /\ drain.at = "count")
           /\ (lock' = None /\ drain'.at = "off") \/ (lock' = lock /\ drain'.at # "off")
           /\ UNCHANGED <<setup, row, input, active, run, call, remote, note, ask,
                          offered, spent, astray, troubles>>
<1>1. CASE DrainCount /\ (Full \/ Queued = {})
    BY <1>1, NoDrainFacts DEF DrainCount, Release, server
<1>2. CASE DrainCount /\ ~(Full \/ Queued = {})
    BY <1>2, ListFacts DEF DrainCount, server
<1>3. CASE DrainEnds /\ drain.did
    BY <1>3, CountFacts DEF DrainEnds, server
<1>4. CASE DrainEnds /\ ~drain.did
    BY <1>4, NoDrainFacts DEF DrainEnds, Release, server
<1> QED BY <1>1, <1>2, <1>3, <1>4

\* A restart leaves nothing at work: every open turn fails, requests are forgotten.
LEMMA RestartMoves ==
    ASSUME Restart, TypeOK
    PROVE  /\ run' \in [Turns -> RunStates] /\ ask' \in [Turns -> AskStates]
           /\ \A t \in Turns : run'[t] = run[t] \/ (run[t] # NoRun /\ run'[t].at = "over")
           /\ \A t \in Turns : ask'[t].for = None /\ ask'[t].at # "seen"
<1>1. ASSUME NEW t \in Turns
      PROVE  /\ run'[t] \in RunStates
             /\ run'[t] = run[t] \/ (run[t] # NoRun /\ run'[t].at = "over")
    <2>1. run[t] \in RunStates
        BY MapTypes
    <2>2. CASE run[t] = NoRun
        BY <2>1, <2>2 DEF Restart
    <2>3. CASE run[t] # NoRun
        <3>1. run'[t] = [run[t] EXCEPT !.at = "over"]
            BY <2>3 DEF Restart
        <3> QED BY <2>1, <2>3, <3>1 DEF RunStates
    <2> QED BY <2>2, <2>3
<1>2. ASSUME NEW t \in Turns
      PROVE  ask'[t] \in AskStates /\ ask'[t].for = None /\ ask'[t].at # "seen"
    <2>1. ask[t] \in AskStates
        BY MapTypes
    <2>2. ask'[t] = [ask[t] EXCEPT !.at = IF @ = "none" THEN @ ELSE "gone", !.for = None]
        BY DEF Restart
    <2> QED BY <2>1, <2>2 DEF AskStates
<1> QED BY <1>1, <1>2 DEF Restart

\* The goroutine of a turn goes on.
LEMMA GotoFacts ==
    ASSUME TypeOK, NEW t \in Turns, NEW from, NEW to \in {"dispatch", "calling", "watched", "exec", "over"},
           Goto(t, from, to)
    PROVE  /\ run' \in [Turns -> RunStates] /\ run[t].at = from /\ run'[t].at = to
           /\ \A u \in Turns : u # t => run'[u] = run[u]
<1>1. run \in [Turns -> RunStates] /\ run[t].at = from /\ run' = [run EXCEPT ![t].at = to]
    BY MapTypes DEF Goto
<1>2. run[t] \in RunStates /\ [run[t] EXCEPT !.at = to] \in RunStates
    BY <1>1 DEF RunStates
<1>3. run' = [run EXCEPT ![t] = [run[t] EXCEPT !.at = to]]
    BY <1>1
<1>4. run'[t].at = to
    BY <1>1, <1>2, <1>3 DEF RunStates
<1> QED BY <1>1, <1>2, <1>3, <1>4

\* The approval of a turn goes on.
LEMMA AskFacts ==
    ASSUME TypeOK, NEW t \in Turns, NEW to \in {"sent", "seen", "gone"}, ask' = [ask EXCEPT ![t].at = to]
    PROVE  ask' \in [Turns -> AskStates]
<1>1. ask \in [Turns -> AskStates] /\ [ask[t] EXCEPT !.at = to] \in AskStates
    BY MapTypes DEF AskStates
<1> QED BY <1>1

\* One more trouble is within the bound.
LEMMA TroubleFacts == ASSUME TypeOK, Trouble \/ UNCHANGED troubles PROVE troubles' \in 0..MaxTroubles
BY DEF Trouble, TypeOK

\* A turn is finished with one of the final states, or left as it is.
LEMMA FinishMoves ==
    ASSUME TypeOK, NEW t \in Turns, NEW status \in Final, NEW allowed, Finish(t, status, allowed)
    PROVE  /\ \A u \in Turns : row'[u] = row[u] \/ (u = t /\ row[t] \in allowed /\ row'[u] \in Final)
           /\ astray \subseteq astray'
BY DEF Finish, SaveIf, LeftOpen, TypeOK

\* Types after that.
LEMMA FinishTypes ==
    ASSUME TypeOK, NEW t \in Turns, NEW status \in Final, NEW allowed, Finish(t, status, allowed)
    PROVE  row' \in [Turns -> RowStates] /\ astray' \subseteq Turns /\ troubles' \in 0..MaxTroubles
<1>1. row' \in [Turns -> RowStates]
    BY MapTypes DEF Finish, SaveIf, LeftOpen, RowStates
<1>2. astray' \subseteq Turns /\ troubles' \in 0..MaxTroubles
    BY DEF Finish, LeftOpen, Trouble, TypeOK
<1> QED BY <1>1, <1>2

\* Types of the rows, of memory and of the app-server's side.
LEMMA WorkTypes == TypeOK /\ Startable /\ Started /\ Work /\ UNCHANGED thread => TypeOK'
<1> SUFFICES ASSUME TypeOK, Startable, Started, Work, UNCHANGED thread PROVE TypeOK'
    OBVIOUS
<1> USE DEF TypeOK, Offer!TypeOK, Open, Live, Final, NoRun, NoDrain, NoCall, NoAsk
<1>1. ASSUME NEW t \in Turns, StartTurn(t) PROVE TypeOK'
    BY <1>1 DEF StartTurn, memory, server
<1>2. ASSUME NEW t \in Turns, StartFails(t) PROVE TypeOK'
    <2>1. row' \in [Turns -> RowStates] /\ astray' \subseteq Turns /\ troubles' \in 0..MaxTroubles
        BY <1>2, MapTypes DEF StartFails, Trouble, RowStates, Open, Live, Final
    <2> QED BY <1>2, <2>1 DEF StartFails, memory, server, RowStates
<1>3. ASSUME NEW t \in Turns, Enqueue(t) PROVE TypeOK'
    BY <1>3 DEF Enqueue, memory, server
<1>4. ASSUME NEW t \in Turns, DispatchExec(t) PROVE TypeOK'
    <2>1. run' \in [Turns -> RunStates]
        BY <1>4, GotoFacts DEF DispatchExec
    <2> QED BY <1>4, <2>1 DEF DispatchExec, server, RunStates
<1>5. ASSUME NEW t \in Turns, DispatchFails(t) PROVE TypeOK'
    <2>1. run' \in [Turns -> RunStates]
        BY <1>5, GotoFacts DEF DispatchFails
    <2>2. row' \in [Turns -> RowStates] /\ astray' \subseteq Turns /\ troubles' \in 0..MaxTroubles
        BY <1>5, FinishTypes DEF DispatchFails, Final
    <2> QED BY <1>5, <2>1, <2>2 DEF DispatchFails, server, RowStates, RunStates
<1>6. ASSUME NEW t \in Turns, DispatchToServer(t) PROVE TypeOK'
    BY <1>6 DEF DispatchToServer, memory, server
<1>7. ASSUME NEW t \in Turns, ExecEnds(t) PROVE TypeOK'
    <2>1. run' \in [Turns -> RunStates]
        BY <1>7, GotoFacts DEF ExecEnds
    <2>2. row' \in [Turns -> RowStates] /\ astray' \subseteq Turns /\ troubles' \in 0..MaxTroubles
        BY <1>7, FinishTypes DEF ExecEnds, Endings, Final
    <2> QED BY <1>7, <2>1, <2>2 DEF ExecEnds, server, RowStates, RunStates
<1>8. ASSUME NEW t \in Turns, CallFails(t) PROVE TypeOK'
    <2>1. run' \in [Turns -> RunStates]
        BY <1>8, GotoFacts DEF CallFails
    <2>2. row' \in [Turns -> RowStates] /\ astray' \subseteq Turns /\ troubles' \in 0..MaxTroubles
        BY <1>8, FinishTypes DEF CallFails, Final
    <2> QED BY <1>8, <2>1, <2>2 DEF CallFails, server, RowStates, RunStates
<1>9. ASSUME NEW t \in Turns, SaveStarted(t) PROVE TypeOK'
    <2>1. row' \in [Turns -> RowStates]
        <3>1. Save(t, "running") \/ UNCHANGED row
            BY <1>9 DEF SaveStarted
        <3>2. "running" \in RowStates
            BY DEF RowStates, Open, Live
        <3> QED BY <3>1, <3>2, SaveTypes
    <2>2. run' \in [Turns -> RunStates]
        BY <1>9, GotoFacts DEF SaveStarted
    <2>3. astray' \subseteq Turns
        BY <1>9 DEF SaveStarted, Save
    <2> QED BY <1>9, <2>1, <2>2, <2>3 DEF SaveStarted, server, RowStates, RunStates
<1>10. ASSUME NEW t \in Turns, Watchdog(t) PROVE TypeOK'
    <2>1. run' \in [Turns -> RunStates]
        BY <1>10, GotoFacts DEF Watchdog
    <2>2. row' \in [Turns -> RowStates] /\ active' \subseteq Turns
        BY <1>10, MapTypes DEF Watchdog, LeftOpen, RowStates, Final
    <2>3. astray' \subseteq Turns /\ troubles' \in 0..MaxTroubles
        BY <1>10 DEF Watchdog, LeftOpen, Trouble
    <2> QED BY <1>10, <2>1, <2>2, <2>3 DEF Watchdog, server, RowStates, RunStates
<1>11. ASSUME NEW g \in Servers, OfferServer(g) PROVE TypeOK'
    BY <1>11 DEF OfferServer, Offer!Offer, memory, server
<1>12. CASE WithdrawServer
    BY <1>12 DEF WithdrawServer, Offer!Discard, memory, server
<1>13. ASSUME NEW t \in Turns, ServerEnds(t) PROVE TypeOK'
    BY <1>13 DEF ServerEnds, memory, server
<1>14. ASSUME NEW t \in Turns, ServerAsks(t) PROVE TypeOK'
    <2>1. ask' \in [Turns -> AskStates]
        <3>1. ask' = [ask EXCEPT ![t].at = "sent"]
            BY <1>14 DEF ServerAsks
        <3> QED BY <3>1, AskFacts
    <2> QED BY <1>14, <2>1 DEF ServerAsks, memory, AskStates
<1>15. ASSUME NEW t \in Turns, LoseNote(t) PROVE TypeOK'
    BY <1>15 DEF LoseNote, memory, server
<1>16. ASSUME NEW t \in Turns, HandleNote(t) PROVE TypeOK'
    <2> DEFINE Typed == row' \in [Turns -> RowStates] /\ active' \subseteq Turns
                        /\ astray' \subseteq Turns /\ troubles' \in 0..MaxTroubles
    <2>1. ASSUME UNCHANGED <<row, active, astray>>, Trouble \/ UNCHANGED troubles PROVE Typed
        BY <2>1, MapTypes, TroubleFacts
    <2>2. ASSUME NEW a \in ActiveFor(t), NEW e \in Endings, Finish(a, e[1], e[2]), active' = active \ {a}
          PROVE  Typed
        <3>1. e[1] \in Final /\ a \in Turns
            BY DEF Endings, ActiveFor
        <3> QED BY <2>2, <3>1, FinishTypes
    <2>3. Typed
        BY <1>16, <2>1, <2>2 DEF HandleNote
    <2> QED BY <1>16, <2>3 DEF HandleNote, RowStates
<1>17. ASSUME NEW t \in Turns, HandleAsk(t) PROVE TypeOK'
    BY SMTT(30), <1>17 DEF HandleAsk, ActiveFor, memory, server
<1>18. ASSUME NEW t \in Turns, MarkWaiting(t) PROVE TypeOK'
    <2>1. row' \in [Turns -> RowStates]
        BY SMTT(30), <1>18, MapTypes DEF MarkWaiting, Save, RowStates, Open, Live
    <2>2. ask' \in [Turns -> AskStates]
        BY <1>18, MapTypes DEF MarkWaiting, AskStates
    <2>3. astray' \subseteq Turns /\ troubles' \in 0..MaxTroubles
        <3>1. row[ask[t].for] \in Final => ask[t].for \in Turns
            BY <1>18 DEF MarkWaiting, Started
        <3>2. Trouble \/ UNCHANGED troubles
            BY <1>18 DEF MarkWaiting
        <3>3. astray' = astray \/ (astray' = astray \cup {ask[t].for} /\ row[ask[t].for] \in Final)
            BY <1>18 DEF MarkWaiting, Save
        <3> QED BY <3>1, <3>2, <3>3, TroubleFacts
    <2> QED BY <1>18, <2>1, <2>2, <2>3 DEF MarkWaiting, memory, RowStates, AskStates
<1>19. ASSUME NEW t \in Turns, ApprovalFails(t) PROVE TypeOK'
    <2>1. row' \in [Turns -> RowStates] /\ active' \subseteq Turns /\ troubles' \in 0..MaxTroubles
        BY SMTT(30), <1>19, MapTypes DEF ApprovalFails, Trouble, RowStates, Final
    <2>2. ask' \in [Turns -> AskStates]
        BY <1>19, MapTypes DEF ApprovalFails, AskStates
    <2> QED BY <1>19, <2>1, <2>2 DEF ApprovalFails, RowStates, AskStates
<1>20. ASSUME NEW c \in Interrupts, ReadTurn(c) PROVE TypeOK'
    BY <1>20 DEF ReadTurn, Open, Live, memory, server
<1>21. ASSUME NEW c \in Interrupts, TakeBack(c) PROVE TypeOK'
    BY <1>21 DEF TakeBack, memory, server
<1>22. ASSUME NEW c \in Interrupts, CancelTurn(c) PROVE TypeOK'
    <2>1. row' \in [Turns -> RowStates] /\ active' \subseteq Turns /\ troubles' \in 0..MaxTroubles
        BY <1>22, MapTypes DEF CancelTurn, SaveIf, Trouble, RowStates, Final
    <2>2. call' \in [Interrupts -> CallStates]
        BY <1>22 DEF CancelTurn, CallOver, CallStates
    <2> QED BY <1>22, <2>1, <2>2 DEF CancelTurn, server, RowStates, CallStates
<1>23. CASE DrainBegin
    BY <1>23 DEF DrainBegin, ListQueued, Queued, NoDrain, memory, server
<1>24. CASE DrainCount
    <2>1. lock' \in Turns \cup {None, "drain"}
        BY <1>24, DrainMoves
    <2> QED BY <1>24, <2>1, DrainMoves DEF DrainStates
<1>25. ASSUME NEW t \in Turns, DrainFails(t) PROVE TypeOK'
    <2>1. row' \in [Turns -> RowStates] /\ astray' \subseteq Turns /\ troubles' \in 0..MaxTroubles
        BY <1>25, MapTypes DEF DrainFails, Save, Trouble, RowStates, Final
    <2>2. drain' \in DrainStates
        BY <1>25, MapTypes DEF DrainFails, DrainStates
    <2> QED BY <1>25, <2>1, <2>2 DEF DrainFails, server, RowStates, DrainStates
<1>26. ASSUME NEW t \in Turns, DrainTakes(t) PROVE TypeOK'
    <2>1. drain' \in DrainStates
        <3>1. drain' \in {[drain EXCEPT !.left = @ \ {t}], [drain EXCEPT !.at = "save", !.turn = t]}
            BY ZenonT(40), <1>26 DEF DrainTakes
        <3> HIDE DEF TypeOK
        <3>2. /\ [drain EXCEPT !.left = @ \ {t}] \in DrainStates
              /\ [drain EXCEPT !.at = "save", !.turn = t] \in DrainStates
            BY DrainFacts
        <3> QED BY ONLY <3>1, <3>2
    <2>2. input' \subseteq Turns
        BY <1>26, MapTypes DEF DrainTakes
    <2> QED BY <1>26, <2>1, <2>2 DEF DrainTakes, server, DrainStates
<1>27. CASE DrainStarts
    <2>1. row' \in [Turns -> RowStates]
        <3>1. Save(drain.turn, "running") \/ UNCHANGED row
            BY <1>27 DEF DrainStarts
        <3>2. "running" \in RowStates
            BY DEF RowStates, Open, Live
        <3>3. row \in [Turns -> RowStates]
            BY MapTypes
        <3> QED BY <3>1, <3>2, <3>3 DEF Save
    <2>2. run' \in [Turns -> RunStates]
        <3>1. drain.turn \in Turns /\ Goto(drain.turn, run[drain.turn].at, "dispatch")
            BY <1>27 DEF DrainStarts, Startable, Goto
        <3> QED BY <3>1, GotoFacts
    <2>3. astray' \subseteq Turns
        <3>1. drain.turn \in Turns
            BY <1>27 DEF DrainStarts, Startable
        <3> QED BY <1>27, <3>1 DEF DrainStarts, Save
    <2>4. troubles' \in 0..MaxTroubles
        BY <1>27, TroubleFacts DEF DrainStarts
    <2>5. drain' \in DrainStates
        BY <1>27, CountFacts DEF DrainStarts
    <2> QED BY <1>27, <2>1, <2>2, <2>3, <2>4, <2>5 DEF DrainStarts, server, RowStates, RunStates, DrainStates
<1>28. CASE DrainEnds
    <2>1. lock' \in Turns \cup {None, "drain"}
        BY <1>28, DrainMoves
    <2> QED BY <1>28, <2>1, DrainMoves DEF DrainStates
<1>29. CASE Restart
    <2>1. run' \in [Turns -> RunStates] /\ ask' \in [Turns -> AskStates]
        BY <1>29, RestartMoves
    <2>2. call' \in [Interrupts -> CallStates]
        BY <1>29 DEF Restart, CallOver, CallStates
    <2>3. row' \in [Turns -> RowStates] /\ note' \in [Turns -> {"none", "sent", "gone"}]
        BY <1>29 DEF Restart, RowStates
    <2>4. drain' \in DrainStates
        BY <1>29, NoDrainFacts DEF Restart
    <2>5. troubles' \in 0..MaxTroubles
        <3>1. Trouble
            BY <1>29 DEF Restart
        <3> QED BY <3>1 DEF Trouble
    <2> QED BY <1>29, <2>1, <2>2, <2>3, <2>4, <2>5
            DEF Restart, Offer!Discard, RowStates, RunStates, AskStates, DrainStates, CallStates
<1>30. ASSUME NEW t \in Turns, DrainSkips(t) PROVE TypeOK'
    <2>1. drain' \in DrainStates
        BY <1>30, MapTypes DEF DrainSkips, DrainStates
    <2>2. input' \subseteq Turns
        BY <1>30, MapTypes DEF DrainSkips
    <2>3. troubles' \in 0..MaxTroubles
        BY <1>30, TroubleFacts DEF DrainSkips
    <2> QED BY <1>30, <2>1, <2>2, <2>3 DEF DrainSkips, server, DrainStates
<1>31. CASE DrainGivesUp
    <2>1. drain' \in DrainStates /\ lock' = None /\ troubles' \in 0..MaxTroubles
        BY <1>31, NoDrainFacts, TroubleFacts DEF DrainGivesUp, Release
    <2> QED BY <1>31, <2>1 DEF DrainGivesUp, server, DrainStates
<1> QED BY <1>1, <1>2, <1>3, <1>4, <1>5, <1>6, <1>7, <1>8, <1>9, <1>10, <1>11, <1>12, <1>13, <1>14, <1>15,
           <1>16, <1>17, <1>18, <1>19, <1>20, <1>21, <1>22, <1>23, <1>24, <1>25, <1>26, <1>27, <1>28, <1>29, <1>30, <1>31
        DEF Work, Dispatch, RunTurn, DrainStep, Interrupt, Server

\* Archiving and resuming change nothing but the thread.
LEMMA FilingMoves ==
    ASSUME \E t \in Turns : ArchiveThread(t) \/ ResumeThread(t), TypeOK
    PROVE  /\ thread' \in [Turns -> {"listed", "archived", "again"}]
           /\ \A u \in Turns : thread'[u] = "listed" => thread[u] = "listed"
           /\ UNCHANGED <<setup, row, input, active, lock, drain, run, call, remote, note, ask,
                          offered, spent, astray, troubles>>
<1>1. PICK t \in Turns : ArchiveThread(t) \/ ResumeThread(t)
    OBVIOUS
<1>2. PICK to \in {"archived", "again"} : thread' = [thread EXCEPT ![t] = to]
    BY <1>1 DEF ArchiveThread, ResumeThread
<1>3. UNCHANGED <<setup, row, memory, server, astray, troubles>>
    BY <1>1 DEF ArchiveThread, ResumeThread
<1> QED BY <1>2, <1>3 DEF TypeOK, memory, server

\* Types of every step.
LEMMA TypesStay == TypeOK /\ Startable /\ Started /\ [Next]_vars => TypeOK'
<1> SUFFICES ASSUME TypeOK, Startable, Started, [Next]_vars PROVE TypeOK'
    OBVIOUS
<1>1. CASE \E t \in Turns : ArchiveThread(t) \/ ResumeThread(t)
    BY <1>1, FilingMoves DEF TypeOK, Offer!TypeOK
<1>2. CASE UNCHANGED vars
    BY <1>2 DEF vars, memory, server, TypeOK, Offer!TypeOK
<1> QED BY <1>1, <1>2, WorkTypes DEF Next

\* A step that starts nothing and hands no prompt on keeps it.
LEMMA NothingStarted ==
    ASSUME TypeOK, Startable,
           \A t \in Turns : run'[t] = run[t] \/ (run[t].at # "none" /\ run'[t].at # "none"),
           \A t \in Turns : row'[t] = "absent" => row[t] = "absent",
           input' \subseteq input, lock' \in {lock, None},
           drain'.at # "off" => lock' = "drain",
           \A t \in drain'.left : row'[t] # "absent",
           drain'.at = "save" => drain' = drain
    PROVE  Startable'
<1> USE DEF Startable
<1>1. input' \subseteq Turns
    BY MapTypes
<1>2. drain'.at = "save" => /\ drain'.turn \in Turns \ input'
                            /\ run'[drain'.turn].at = "none"
                            /\ row'[drain'.turn] # "absent"
    OBVIOUS
<1>3. \A t \in Turns : lock' = t => run'[t].at = "none"
    OBVIOUS
<1> QED BY <1>1, <1>2, <1>3

\* A prompt leaves memory for one starter.
LEMMA StartableStays == TypeOK /\ Startable /\ [Next]_vars => Startable'
<1> SUFFICES ASSUME TypeOK, Startable, [Next]_vars PROVE Startable'
    OBVIOUS
<1> USE MapTypes
<1> USE DEF Startable
<1>1. ASSUME NEW t \in Turns, StartTurn(t) PROVE Startable'
    BY <1>1 DEF StartTurn, MayInsert, memory, server
<1>2. ASSUME NEW t \in Turns, StartFails(t) PROVE Startable'
    BY <1>2 DEF StartFails, MayInsert, memory, server
<1>3. ASSUME NEW t \in Turns, Enqueue(t) PROVE Startable'
    BY <1>3 DEF Enqueue, memory, server
<1>4. ASSUME NEW t \in Turns, DispatchExec(t) PROVE Startable'
    BY <1>4 DEF DispatchExec, Goto, memory, server
<1>5. ASSUME NEW t \in Turns, DispatchFails(t) PROVE Startable'
    <2>1. \A u \in Turns : run'[u] = run[u] \/ (run[u].at # "none" /\ run'[u].at # "none")
        BY <1>5, GotoFacts DEF DispatchFails
    <2>2. \A u \in Turns : row'[u] = "absent" => row[u] = "absent"
        <3>1. \A u \in Turns : row'[u] = row[u] \/ row'[u] \in Final
            BY <1>5, FinishMoves DEF DispatchFails, Final
        <3> QED BY <3>1 DEF Final
    <2>3. UNCHANGED <<input, lock, drain>>
        BY <1>5 DEF DispatchFails
    <2> QED BY <2>1, <2>2, <2>3, NothingStarted DEF DrainStates
<1>6. ASSUME NEW t \in Turns, DispatchToServer(t) PROVE Startable'
    BY <1>6 DEF DispatchToServer, memory, server
<1>7. ASSUME NEW t \in Turns, ExecEnds(t) PROVE Startable'
    <2>1. \A u \in Turns : run'[u] = run[u] \/ (run[u].at # "none" /\ run'[u].at # "none")
        BY <1>7, GotoFacts DEF ExecEnds
    <2>2. \A u \in Turns : row'[u] = "absent" => row[u] = "absent"
        <3>1. \A u \in Turns : row'[u] = row[u] \/ row'[u] \in Final
            BY <1>7, FinishMoves DEF ExecEnds, Endings, Final
        <3> QED BY <3>1 DEF Final
    <2>3. UNCHANGED <<input, lock, drain>>
        BY <1>7 DEF ExecEnds
    <2> QED BY <2>1, <2>2, <2>3, NothingStarted DEF DrainStates
<1>8. ASSUME NEW t \in Turns, CallFails(t) PROVE Startable'
    <2>1. \A u \in Turns : run'[u] = run[u] \/ (run[u].at # "none" /\ run'[u].at # "none")
        BY <1>8, GotoFacts DEF CallFails
    <2>2. \A u \in Turns : row'[u] = "absent" => row[u] = "absent"
        <3>1. \A u \in Turns : row'[u] = row[u] \/ row'[u] \in Final
            BY <1>8, FinishMoves DEF CallFails, Final
        <3> QED BY <3>1 DEF Final
    <2>3. UNCHANGED <<input, lock, drain>>
        BY <1>8 DEF CallFails
    <2> QED BY <2>1, <2>2, <2>3, NothingStarted DEF DrainStates
<1>9. ASSUME NEW t \in Turns, SaveStarted(t) PROVE Startable'
    <2>1. run[t].at # "none" /\ run'[t].at = "watched" /\ \A u \in Turns : u # t => run'[u] = run[u]
        BY <1>9, GotoFacts DEF SaveStarted
    <2>2. row[t] # "absent" /\ row'[t] # "absent" /\ \A u \in Turns : u # t => row'[u] = row[u]
        BY <1>9, <2>1 DEF SaveStarted, Save
    <2>3. \A u \in Turns : run'[u] = run[u] \/ (run[u].at # "none" /\ run'[u].at # "none")
        BY <2>1
    <2>4. \A u \in Turns : row'[u] = "absent" => row[u] = "absent"
        BY <2>2
    <2>5. UNCHANGED <<input, lock, drain>>
        BY <1>9 DEF SaveStarted
    <2> QED BY <2>3, <2>4, <2>5, NothingStarted DEF DrainStates
<1>10. ASSUME NEW t \in Turns, Watchdog(t) PROVE Startable'
    <2>1. run[t].at # "none" /\ run'[t].at = "over" /\ \A u \in Turns : u # t => run'[u] = run[u]
        BY <1>10, GotoFacts DEF Watchdog
    <2>2. row[t] # "absent" /\ row'[t] # "absent" /\ \A u \in Turns : u # t => row'[u] = row[u]
        BY <1>10, <2>1 DEF Watchdog, LeftOpen, Live
    <2>3. \A u \in Turns : run'[u] = run[u] \/ (run[u].at # "none" /\ run'[u].at # "none")
        BY <2>1
    <2>4. \A u \in Turns : row'[u] = "absent" => row[u] = "absent"
        BY <2>2
    <2>5. UNCHANGED <<input, lock, drain>>
        BY <1>10 DEF Watchdog
    <2> QED BY <2>3, <2>4, <2>5, NothingStarted DEF DrainStates
<1>11. ASSUME NEW g \in Servers, OfferServer(g) PROVE Startable'
    BY <1>11 DEF OfferServer, Offer!Offer, memory, server
<1>12. CASE WithdrawServer
    BY <1>12 DEF WithdrawServer, Offer!Discard, memory, server
<1>13. ASSUME NEW t \in Turns, ServerEnds(t) PROVE Startable'
    BY <1>13 DEF ServerEnds, memory, server
<1>14. ASSUME NEW t \in Turns, ServerAsks(t) PROVE Startable'
    BY <1>14 DEF ServerAsks, memory, server
<1>15. ASSUME NEW t \in Turns, LoseNote(t) PROVE Startable'
    BY <1>15 DEF LoseNote, memory, server
<1>16. ASSUME NEW t \in Turns, HandleNote(t) PROVE Startable'
    <2>1. \A u \in Turns : row'[u] = "absent" => row[u] = "absent"
        <3>1. ASSUME NEW a \in ActiveFor(t), NEW e \in Endings, Finish(a, e[1], e[2])
              PROVE  \A u \in Turns : row'[u] = "absent" => row[u] = "absent"
            <4>1. e[1] \in Final /\ a \in Turns
                BY DEF Endings, Final, ActiveFor
            <4>2. \A u \in Turns : row'[u] = row[u] \/ row'[u] \in Final
                BY <3>1, <4>1, FinishMoves
            <4> QED BY <4>1, <4>2 DEF Final
        <3> QED BY <1>16, <3>1 DEF HandleNote
    <2>2. UNCHANGED <<input, lock, drain, run>>
        BY <1>16 DEF HandleNote
    <2> QED BY <2>1, <2>2, NothingStarted DEF DrainStates
<1>17. ASSUME NEW t \in Turns, HandleAsk(t) PROVE Startable'
    <2>1. UNCHANGED <<row, input, lock, drain, run>>
        BY <1>17 DEF HandleAsk, memory
    <2> QED BY <2>1, NothingStarted DEF DrainStates
<1>18. ASSUME NEW t \in Turns, MarkWaiting(t) PROVE Startable'
    <2>1. \A u \in Turns : row'[u] = "absent" => row[u] = "absent"
        BY <1>18 DEF MarkWaiting, Save
    <2>2. UNCHANGED <<input, lock, drain, run>>
        BY <1>18 DEF MarkWaiting, memory
    <2> QED BY <2>1, <2>2, NothingStarted DEF DrainStates
<1>19. ASSUME NEW t \in Turns, ApprovalFails(t) PROVE Startable'
    <2>1. \A u \in Turns : row'[u] = "absent" => row[u] = "absent"
        BY <1>19 DEF ApprovalFails
    <2>2. UNCHANGED <<input, lock, drain, run>>
        BY <1>19 DEF ApprovalFails
    <2> QED BY <2>1, <2>2, NothingStarted DEF DrainStates
<1>20. ASSUME NEW c \in Interrupts, ReadTurn(c) PROVE Startable'
    BY <1>20 DEF ReadTurn, Open, Live, memory, server
<1>21. ASSUME NEW c \in Interrupts, TakeBack(c) PROVE Startable'
    BY <1>21 DEF TakeBack, memory, server
<1>22. ASSUME NEW c \in Interrupts, CancelTurn(c) PROVE Startable'
    <2>1. \A u \in Turns : row'[u] = "absent" => row[u] = "absent"
        BY <1>22 DEF CancelTurn, SaveIf
    <2>2. UNCHANGED <<input, lock, drain, run>>
        BY <1>22 DEF CancelTurn
    <2> QED BY <2>1, <2>2, NothingStarted DEF DrainStates
<1>23. CASE DrainBegin
    BY <1>23 DEF DrainBegin, ListQueued, Queued, NoDrain, memory, server
<1>24. CASE DrainCount
    <2>1. \A u \in drain'.left : row[u] # "absent"
        BY <1>24, DrainMoves DEF Queued
    <2>2. drain.at # "off"
        BY <1>24 DEF DrainCount, DrainEnds
    <2> QED BY <1>24, <2>1, <2>2, DrainMoves, NothingStarted
<1>25. ASSUME NEW t \in Turns, DrainFails(t) PROVE Startable'
    <2>1. \A u \in Turns : row'[u] = "absent" => row[u] = "absent"
        BY <1>25 DEF DrainFails, Save
    <2>2. drain'.left \subseteq drain.left /\ drain'.at = "list" /\ drain.at = "list"
        BY <1>25 DEF DrainFails, DrainStates
    <2>3. \A u \in drain'.left : row'[u] # "absent"
        BY <2>1, <2>2 DEF DrainStates
    <2>4. UNCHANGED <<input, lock, run>>
        BY <1>25 DEF DrainFails
    <2> QED BY <2>1, <2>2, <2>3, <2>4, NothingStarted
<1>26. ASSUME NEW t \in Turns, DrainTakes(t) PROVE Startable'
    <2>1. CASE Busy(WorkspaceOf(t))
        BY <1>26, <2>1 DEF DrainTakes, DrainStates
    <2>2. CASE ~Busy(WorkspaceOf(t))
        BY ZenonT(40), <1>26, <2>2 DEF DrainTakes, DrainStates
    <2> QED BY <2>1, <2>2
<1>27. CASE DrainStarts
    BY <1>27 DEF DrainStarts, Save, NoDrain, Trouble, memory, server
<1>28. CASE DrainEnds
    <2>1. \A u \in drain'.left : row[u] # "absent"
        BY <1>28, DrainMoves DEF Queued
    <2>2. drain.at # "off"
        BY <1>28 DEF DrainCount, DrainEnds
    <2> QED BY <1>28, <2>1, <2>2, DrainMoves, NothingStarted
<1>29. CASE Restart
    <2>1. \A u \in Turns : run'[u] = run[u] \/ (run[u].at # "none" /\ run'[u].at # "none")
        BY <1>29, RestartMoves
    <2>2. \A u \in Turns : row'[u] = "absent" => row[u] = "absent"
        BY <1>29 DEF Restart, Open, Live
    <2> QED BY <1>29, <2>1, <2>2, NothingStarted, NoDrainFacts DEF Restart
<1>30. ASSUME NEW t \in Turns, DrainSkips(t) PROVE Startable'
    <2>1. drain'.left \subseteq drain.left /\ drain'.at = drain.at /\ drain.at = "list"
        BY <1>30 DEF DrainSkips, DrainStates
    <2>2. UNCHANGED <<row, run, lock>> /\ input' \subseteq input
        BY <1>30 DEF DrainSkips
    <2> QED BY <2>1, <2>2, NothingStarted
<1>31. CASE DrainGivesUp
    BY <1>31, NoDrainFacts, NothingStarted DEF DrainGivesUp, Release
<1>32. CASE \E t \in Turns : ArchiveThread(t) \/ ResumeThread(t)
    BY <1>32, FilingMoves
<1>33. CASE UNCHANGED vars
    BY <1>33 DEF vars, memory, server
<1> QED BY <1>1, <1>2, <1>3, <1>4, <1>5, <1>6, <1>7, <1>8, <1>9, <1>10, <1>11, <1>12, <1>13, <1>14, <1>15,
           <1>16, <1>17, <1>18, <1>19, <1>20, <1>21, <1>22, <1>23, <1>24, <1>25, <1>26, <1>27, <1>28, <1>29, <1>30,
           <1>31, <1>32, <1>33
        DEF Next, Work, Dispatch, RunTurn, DrainStep, Interrupt, Server

\* Notifications and approvals find turns that were started.
LEMMA StartedStays == TypeOK /\ Startable /\ Started /\ [Next]_vars => Started'
<1> SUFFICES ASSUME TypeOK, Startable, Started, [Next]_vars PROVE Started'
    OBVIOUS
<1> USE MapTypes
<1> USE DEF Started, Startable, Final
<1>1. ASSUME NEW t \in Turns, StartTurn(t) PROVE Started'
    <2>1. \A u \in Turns : run'[u].at # "none" => run[u].at # "none" \/ (u = t /\ row'[t] = "running")
        BY <1>1 DEF StartTurn, MayInsert
    <2>2. \A u \in Turns : run[u].at # "none" => run'[u] = run[u] /\ row'[u] = row[u]
        BY <1>1 DEF StartTurn, MayInsert
    <2> QED BY <1>1, <2>1, <2>2 DEF StartTurn, Live, server
<1>2. ASSUME NEW t \in Turns, StartFails(t) PROVE Started'
    <2>1. \A u \in Turns : run[u].at # "none" => row'[u] = row[u]
        BY <1>2 DEF StartFails, MayInsert
    <2>2. astray \subseteq astray'
        BY <1>2 DEF StartFails
    <2> QED BY <1>2, <2>1, <2>2 DEF StartFails, memory, server
<1>3. ASSUME NEW t \in Turns, Enqueue(t) PROVE Started'
    BY <1>3 DEF Enqueue, memory, server
<1>4. ASSUME NEW t \in Turns, DispatchExec(t) PROVE Started'
    BY <1>4 DEF DispatchExec, Goto, memory, server
<1>5. ASSUME NEW t \in Turns, DispatchFails(t) PROVE Started'
    <2>1. \A u \in Turns : (run'[u].at # "none") <=> (run[u].at # "none")
        BY <1>5, GotoFacts DEF DispatchFails
    <2>2. (\A u \in Turns : row'[u] = row[u] \/ row'[u] \in Final) /\ astray \subseteq astray'
        BY <1>5, FinishMoves DEF DispatchFails
    <2>3. active' \subseteq active /\ ask' = ask
        BY <1>5 DEF DispatchFails, server
    <2> QED BY <2>1, <2>2, <2>3
<1>6. ASSUME NEW t \in Turns, DispatchToServer(t) PROVE Started'
    BY <1>6 DEF DispatchToServer, memory, server
<1>7. ASSUME NEW t \in Turns, ExecEnds(t) PROVE Started'
    <2>1. \A u \in Turns : (run'[u].at # "none") <=> (run[u].at # "none")
        BY <1>7, GotoFacts DEF ExecEnds
    <2>2. (\A u \in Turns : row'[u] = row[u] \/ row'[u] \in Final) /\ astray \subseteq astray'
        BY <1>7, FinishMoves DEF ExecEnds, Endings
    <2>3. active' \subseteq active /\ ask' = ask
        BY <1>7 DEF ExecEnds, server
    <2> QED BY <2>1, <2>2, <2>3
<1>8. ASSUME NEW t \in Turns, CallFails(t) PROVE Started'
    <2>1. \A u \in Turns : (run'[u].at # "none") <=> (run[u].at # "none")
        BY <1>8, GotoFacts DEF CallFails
    <2>2. (\A u \in Turns : row'[u] = row[u] \/ row'[u] \in Final) /\ astray \subseteq astray'
        BY <1>8, FinishMoves DEF CallFails
    <2>3. active' \subseteq active /\ ask' = ask
        BY <1>8 DEF CallFails, server
    <2> QED BY <2>1, <2>2, <2>3
<1>9. ASSUME NEW t \in Turns, SaveStarted(t) PROVE Started'
    <2>1. \A u \in Turns : (run'[u].at # "none") <=> (run[u].at # "none")
        BY <1>9, GotoFacts DEF SaveStarted
    <2>2. astray \subseteq astray' /\ \A u \in Turns : row'[u] = row[u] \/ row'[u] = "running"
        BY <1>9 DEF SaveStarted, Save
    <2> QED BY <1>9, <2>1, <2>2 DEF SaveStarted, Live, memory, server
<1>10. ASSUME NEW t \in Turns, Watchdog(t) PROVE Started'
    <2>1. \A u \in Turns : (run'[u].at # "none") <=> (run[u].at # "none")
        BY <1>10, GotoFacts DEF Watchdog
    <2>2. (\A u \in Turns : row'[u] = row[u] \/ row'[u] \in Final) /\ astray \subseteq astray'
        BY <1>10 DEF Watchdog, LeftOpen
    <2>3. active' \subseteq active /\ ask' = ask
        BY <1>10 DEF Watchdog, server
    <2> QED BY <2>1, <2>2, <2>3
<1>11. ASSUME NEW g \in Servers, OfferServer(g) PROVE Started'
    BY <1>11 DEF OfferServer, Offer!Offer, memory, server
<1>12. CASE WithdrawServer
    BY <1>12 DEF WithdrawServer, Offer!Discard, memory, server
<1>13. ASSUME NEW t \in Turns, ServerEnds(t) PROVE Started'
    BY <1>13 DEF ServerEnds, memory, server
<1>14. ASSUME NEW t \in Turns, ServerAsks(t) PROVE Started'
    BY <1>14 DEF ServerAsks, memory, server
<1>15. ASSUME NEW t \in Turns, LoseNote(t) PROVE Started'
    BY <1>15 DEF LoseNote, memory, server
<1>16. ASSUME NEW t \in Turns, HandleNote(t) PROVE Started'
    <2>1. (\A u \in Turns : row'[u] = row[u] \/ row'[u] \in Final) /\ astray \subseteq astray'
        <3>1. ASSUME NEW a \in ActiveFor(t), NEW e \in Endings, Finish(a, e[1], e[2])
              PROVE  (\A u \in Turns : row'[u] = row[u] \/ row'[u] \in Final) /\ astray \subseteq astray'
            <4>1. e[1] \in Final /\ a \in Turns
                BY DEF Endings, ActiveFor
            <4> QED BY <3>1, <4>1, FinishMoves
        <3> QED BY <1>16, <3>1 DEF HandleNote
    <2>2. active' \subseteq active
        BY <1>16 DEF HandleNote
    <2> QED BY <1>16, <2>1, <2>2 DEF HandleNote
<1>17. ASSUME NEW t \in Turns, HandleAsk(t) PROVE Started'
    <2>1. ActiveFor(t) \subseteq active
        BY DEF ActiveFor
    <2>2. \A u \in Turns : \/ ask'[u].for = ask[u].for /\ ask'[u].at \in {ask[u].at, "gone"}
                           \/ ask'[u].for \in active
        BY <1>17, <2>1 DEF HandleAsk, AskStates
    <2>3. \A u \in active : u # None
        OBVIOUS
    <2> QED BY <1>17, <2>2, <2>3 DEF HandleAsk, memory
<1>18. ASSUME NEW t \in Turns, MarkWaiting(t) PROVE Started'
    <2>1. \A u \in Turns : ask'[u].for = ask[u].for /\ (ask'[u].at = "seen" => ask[u].at = "seen")
        BY <1>18 DEF MarkWaiting
    <2>2. astray \subseteq astray' /\ \A u \in Turns : row'[u] = row[u] \/ row'[u] = "waiting"
        BY <1>18 DEF MarkWaiting, Save
    <2> QED BY <1>18, <2>1, <2>2 DEF MarkWaiting, Live, memory
<1>19. ASSUME NEW t \in Turns, ApprovalFails(t) PROVE Started'
    <2>1. \A u \in Turns : ask'[u].for \in {ask[u].for, None} /\ ask'[u].at = ask[u].at
        BY <1>19 DEF ApprovalFails, AskStates
    <2>2. \A u \in Turns : ask'[u].at = "seen" => ask'[u].for = ask[u].for
        BY <1>19, <2>1 DEF ApprovalFails, AskStates
    <2>3. (\A u \in Turns : row'[u] = row[u] \/ row'[u] \in Final) /\ active' \subseteq active
        BY <1>19 DEF ApprovalFails
    <2>4. astray' = astray /\ run' = run
        BY <1>19 DEF ApprovalFails
    <2> QED BY <2>1, <2>2, <2>3, <2>4
<1>20. ASSUME NEW c \in Interrupts, ReadTurn(c) PROVE Started'
    BY <1>20 DEF ReadTurn, Open, Live, memory, server
<1>21. ASSUME NEW c \in Interrupts, TakeBack(c) PROVE Started'
    BY <1>21 DEF TakeBack, memory, server
<1>22. ASSUME NEW c \in Interrupts, CancelTurn(c) PROVE Started'
    <2>1. (\A u \in Turns : row'[u] = row[u] \/ row'[u] \in Final) /\ active' \subseteq active
        BY <1>22 DEF CancelTurn, SaveIf
    <2> QED BY <1>22, <2>1 DEF CancelTurn, server
<1>23. CASE DrainBegin
    BY <1>23 DEF DrainBegin, ListQueued, Queued, NoDrain, memory, server
<1>24. CASE DrainCount
    BY <1>24 DEF DrainCount, Release, ListQueued, Queued, NoDrain, memory, server
<1>25. ASSUME NEW t \in Turns, DrainFails(t) PROVE Started'
    <2>1. (\A u \in Turns : row'[u] = row[u] \/ row'[u] \in Final) /\ astray \subseteq astray'
        BY <1>25 DEF DrainFails, Save
    <2> QED BY <1>25, <2>1 DEF DrainFails, server
<1>26. ASSUME NEW t \in Turns, DrainTakes(t) PROVE Started'
    BY <1>26 DEF DrainTakes, memory, server
<1>27. CASE DrainStarts
    <2>1. \A u \in Turns : run'[u].at # "none" => run[u].at # "none" \/ u = drain.turn
        BY <1>27 DEF DrainStarts
    <2>2. \A u \in Turns : run[u].at # "none" => run'[u].at # "none"
        BY <1>27 DEF DrainStarts
    <2>3. /\ astray \subseteq astray' /\ (drain.turn \in astray' \/ row'[drain.turn] = "running")
          /\ \A u \in Turns : u # drain.turn => row'[u] = row[u]
        BY <1>27 DEF DrainStarts, Save
    <2> QED BY <1>27, <2>1, <2>2, <2>3 DEF DrainStarts, Live, server
<1>28. CASE DrainEnds
    BY <1>28 DEF DrainEnds, Release, NoDrain, memory, server
<1>29. CASE Restart
    <2>1. \A u \in Turns : (run'[u].at # "none") => (run[u].at # "none")
        BY <1>29, RestartMoves DEF NoRun
    <2>2. \A u \in Turns : row'[u] = "failed" \/ (row[u] \notin Open /\ row'[u] = row[u])
        BY <1>29 DEF Restart
    <2> QED BY <1>29, <2>1, <2>2, RestartMoves DEF Restart, Live, Open
<1>30. ASSUME NEW t \in Turns, DrainSkips(t) PROVE Started'
    BY <1>30 DEF DrainSkips, server
<1>31. CASE DrainGivesUp
    BY <1>31 DEF DrainGivesUp, server
<1>32. CASE \E t \in Turns : ArchiveThread(t) \/ ResumeThread(t)
    BY <1>32, FilingMoves
<1>33. CASE UNCHANGED vars
    BY <1>33 DEF vars, memory, server
<1> QED BY <1>1, <1>2, <1>3, <1>4, <1>5, <1>6, <1>7, <1>8, <1>9, <1>10, <1>11, <1>12, <1>13, <1>14, <1>15,
           <1>16, <1>17, <1>18, <1>19, <1>20, <1>21, <1>22, <1>23, <1>24, <1>25, <1>26, <1>27, <1>28, <1>29, <1>30,
           <1>31, <1>32, <1>33
        DEF Next, Work, Dispatch, RunTurn, DrainStep, Interrupt, Server

\* The live turns that have not gone astray.
Kept == LiveTurns \ astray

\* A step that lets no turn in: those kept do not grow, no thread becomes as good as
\* never archived, and the drain goes on only where there was room.
Calm ==
    /\ setup' = setup
    /\ Kept' \subseteq Kept
    /\ \A t \in Turns : thread'[t] = "listed" => thread[t] = "listed"
    /\ drain'.at \in {"list", "save"} => drain.at \in {"list", "save"} \/ ~Full
    /\ drain'.at = "save" =>
         \/ ~Busy(WorkspaceOf(drain'.turn))
         \/ drain.at = "save" /\ drain'.turn = drain.turn

\* Turns that are closed, left as they are or gone astray.
LEMMA ClosingIsCalm ==
    ASSUME TypeOK,
           \A u \in Turns : row'[u] = row[u] \/ row'[u] \notin Live \/ row[u] \in Live \/ u \in astray',
           astray \subseteq astray', setup' = setup, thread' = thread,
           drain' = drain \/ drain'.at \notin {"list", "save"}
    PROVE  Calm
<1>1. Kept' \subseteq Kept
    BY DEF Kept, LiveTurns
<1> QED BY <1>1 DEF Calm

\* The steps of a turn's goroutine and of its requests.
LEMMA TurnIsCalm ==
    ASSUME TypeOK, Started, thread' = thread, NEW t \in Turns,
           \/ StartFails(t) \/ Enqueue(t) \/ Dispatch(t) \/ ExecEnds(t) \/ RunTurn(t)
           \/ HandleNote(t) \/ HandleAsk(t) \/ MarkWaiting(t) \/ ApprovalFails(t)
    PROVE  Calm
<1> DEFINE Closing == \A u \in Turns : row'[u] = row[u] \/ row'[u] \notin Live \/ row[u] \in Live \/ u \in astray'
<1> USE MapTypes
<1>1. CASE StartFails(t)
    <2>1. Closing
        BY <1>1 DEF StartFails, Live
    <2>2. astray \subseteq astray' /\ setup' = setup /\ drain' = drain
        BY <1>1 DEF StartFails, memory
    <2> QED BY <2>1, <2>2, ClosingIsCalm
<1>2. CASE Enqueue(t) \/ DispatchExec(t) \/ DispatchToServer(t) \/ HandleAsk(t)
    <2>1. UNCHANGED <<row, astray, setup, drain>>
        BY <1>2 DEF Enqueue, DispatchExec, DispatchToServer, HandleAsk, memory
    <2> QED BY <2>1, ClosingIsCalm
<1>3. CASE DispatchFails(t) \/ ExecEnds(t) \/ CallFails(t)
    <2>1. setup' = setup /\ drain' = drain
        BY <1>3 DEF DispatchFails, ExecEnds, CallFails
    <2>2. \E status \in Final, allowed \in {Live, Open} : Finish(t, status, allowed)
        BY <1>3 DEF DispatchFails, ExecEnds, CallFails, Endings, Final
    <2>3. Closing /\ astray \subseteq astray'
        BY <2>2, FinishMoves DEF Final, Live
    <2> QED BY <2>1, <2>3, ClosingIsCalm
<1>4. CASE SaveStarted(t)
    <2>1. row[t] \in Live \cup Final \/ t \in astray
        BY <1>4, GotoFacts DEF SaveStarted, Started
    <2>2. Closing /\ astray \subseteq astray'
        BY <1>4, <2>1 DEF SaveStarted, Save
    <2>3. setup' = setup /\ drain' = drain
        BY <1>4 DEF SaveStarted
    <2> QED BY <2>2, <2>3, ClosingIsCalm
<1>5. CASE Watchdog(t)
    <2>1. Closing /\ astray \subseteq astray'
        BY <1>5 DEF Watchdog, LeftOpen, Live
    <2>2. setup' = setup /\ drain' = drain
        BY <1>5 DEF Watchdog
    <2> QED BY <2>1, <2>2, ClosingIsCalm
<1>6. CASE HandleNote(t)
    <2>1. ASSUME NEW a \in ActiveFor(t), NEW e \in Endings, Finish(a, e[1], e[2])
          PROVE  Closing /\ astray \subseteq astray'
        <3>1. e[1] \in Final /\ a \in Turns
            BY DEF Endings, Final, ActiveFor
        <3> QED BY <2>1, <3>1, FinishMoves DEF Final, Live
    <2>2. Closing /\ astray \subseteq astray'
        BY <1>6, <2>1 DEF HandleNote
    <2>3. setup' = setup /\ drain' = drain
        BY <1>6 DEF HandleNote
    <2> QED BY <2>2, <2>3, ClosingIsCalm
<1>7. CASE MarkWaiting(t)
    <2>1. ask[t].for \in Turns /\ (row[ask[t].for] \in Live \cup Final \/ ask[t].for \in astray)
        BY <1>7 DEF MarkWaiting, Started
    <2>2. Closing /\ astray \subseteq astray'
        BY <1>7, <2>1 DEF MarkWaiting, Save
    <2>3. setup' = setup /\ drain' = drain
        BY <1>7 DEF MarkWaiting, memory
    <2> QED BY <2>2, <2>3, ClosingIsCalm
<1>8. CASE ApprovalFails(t)
    <2>1. Closing /\ astray' = astray
        BY <1>8 DEF ApprovalFails, Live
    <2>2. setup' = setup /\ drain' = drain
        BY <1>8 DEF ApprovalFails
    <2> QED BY <2>1, <2>2, ClosingIsCalm
<1> QED BY <1>1, <1>2, <1>3, <1>4, <1>5, <1>6, <1>7, <1>8 DEF Dispatch, RunTurn

\* The steps of the drain that start nothing.
LEMMA DrainIsCalm ==
    ASSUME TypeOK, Startable, thread' = thread, DrainBegin \/ DrainStep, ~DrainStarts
    PROVE  Calm
<1> USE MapTypes
<1>1. CASE DrainBegin
    <2>1. ~Full /\ drain'.at = "list" /\ UNCHANGED <<setup, row, astray>>
        BY <1>1, ListFacts DEF DrainBegin, server
    <2> QED BY <2>1 DEF Calm, Kept, LiveTurns
<1>2. CASE DrainCount \/ DrainEnds
    <2>1. drain'.at = "list" => ~Full
        BY <1>2, DrainMoves
    <2> QED BY <1>2, <2>1, DrainMoves DEF Calm, Kept, LiveTurns
<1>3. CASE DrainGivesUp
    BY <1>3, NoDrainFacts, ClosingIsCalm DEF DrainGivesUp, Release
<1>4. ASSUME NEW t \in Turns, DrainFails(t) \/ DrainSkips(t) PROVE Calm
    <2>1. drain.at = "list" /\ drain'.at = "list" /\ setup' = setup
        BY <1>4 DEF DrainFails, DrainSkips, DrainStates
    <2>2. Kept' \subseteq Kept
        BY <1>4 DEF DrainFails, DrainSkips, Save, Kept, LiveTurns, Live
    <2> QED BY <2>1, <2>2 DEF Calm
<1>5. ASSUME NEW t \in Turns, DrainTakes(t) PROVE Calm
    <2>1. drain.at = "list" /\ UNCHANGED <<setup, row, astray>>
        BY <1>5 DEF DrainTakes, server
    <2>2. CASE Busy(WorkspaceOf(t))
        <3>1. drain'.at = "list"
            BY <1>5, <2>2 DEF DrainTakes, DrainStates
        <3> QED BY <2>1, <3>1 DEF Calm, Kept, LiveTurns
    <2>3. CASE ~Busy(WorkspaceOf(t))
        <3>1. drain'.at = "save" /\ drain'.turn = t
            BY <1>5, <2>3 DEF DrainTakes, DrainStates
        <3> QED BY <2>1, <2>3, <3>1 DEF Calm, Kept, LiveTurns
    <2> QED BY <2>2, <2>3
<1> QED BY <1>1, <1>2, <1>3, <1>4, <1>5 DEF DrainStep

\* Only StartTurn and the drain let a turn in.
LEMMA OnlyTwoLetIn ==
    TypeOK /\ Startable /\ Started /\ [Next]_vars => Calm \/ DrainStarts \/ \E u \in Turns : StartTurn(u)
<1> SUFFICES ASSUME TypeOK, Startable, Started, [Next]_vars, ~DrainStarts, \A u \in Turns : ~StartTurn(u)
             PROVE  Calm
    OBVIOUS
<1>1. CASE \E t \in Turns : ArchiveThread(t) \/ ResumeThread(t)
    BY <1>1, FilingMoves DEF Calm, Kept, LiveTurns
<1>2. CASE UNCHANGED vars
    BY <1>2 DEF Calm, Kept, LiveTurns, vars, memory
<1>3. CASE Work /\ UNCHANGED thread
    <2>1. ASSUME NEW c \in Interrupts, Interrupt(c) PROVE Calm
        <3>1. UNCHANGED <<setup, drain, astray>>
            BY <2>1 DEF Interrupt, ReadTurn, TakeBack, CancelTurn, server
        <3>2. \A u \in Turns : row'[u] = row[u] \/ row'[u] \notin Live
            BY <2>1, MapTypes DEF Interrupt, ReadTurn, TakeBack, CancelTurn, SaveIf, Live
        <3> QED BY <1>3, <3>1, <3>2, ClosingIsCalm
    <2>2. CASE Server
        <3>1. UNCHANGED <<setup, drain, astray, row>>
            BY <2>2 DEF Server, OfferServer, WithdrawServer, ServerEnds, ServerAsks, LoseNote, memory
        <3> QED BY <1>3, <3>1, ClosingIsCalm
    <2>3. CASE Restart
        <3>1. \A u \in Turns : row'[u] = row[u] \/ row'[u] \notin Live
            BY <2>3, MapTypes DEF Restart, Live
        <3>2. setup' = setup /\ drain'.at = "off" /\ astray' = astray
            BY <2>3, NoDrainFacts DEF Restart
        <3> QED BY <1>3, <3>1, <3>2, ClosingIsCalm
    <2> QED BY <1>3, <2>1, <2>2, <2>3, TurnIsCalm, DrainIsCalm DEF Work
<1> QED BY <1>1, <1>2, <1>3 DEF Next

\* While the drain lists and takes, there is room, and in the workspace of the turn
\* it has taken nobody it would have seen.
Room ==
    /\ drain.at \in {"list", "save"} => Cardinality(Kept) < MaxConcurrentTurns
    /\ drain.at = "save" =>
         \A u \in Kept : thread[u] = "listed" => WorkspaceOf(u) # WorkspaceOf(drain.turn)

\* The limit of each setup is a number and the live turns are finitely many.
LEMMA LiveCount ==
    ASSUME TypeOK
    PROVE  /\ IsFiniteSet(LiveTurns) /\ Cardinality(LiveTurns) \in Nat /\ LiveTurns \subseteq Turns
           /\ IsFiniteSet(Kept) /\ Cardinality(Kept) \in Nat /\ Kept \subseteq LiveTurns
           /\ Cardinality(Kept) <= Cardinality(LiveTurns)
           /\ MaxConcurrentTurns \in Nat
<1>1. LiveTurns \subseteq Turns /\ Kept \subseteq LiveTurns
    BY DEF LiveTurns, Kept
<1>2. IsFiniteSet(LiveTurns) /\ IsFiniteSet(Kept) /\ Cardinality(Kept) <= Cardinality(LiveTurns)
    BY <1>1, FS_Subset
<1>3. setup \in Setups
    BY DEF TypeOK
<1> QED BY <1>1, <1>2, <1>3, FS_CardinalityType DEF MaxConcurrentTurns

\* If the check for room and workspace lets a turn in, there is room among those kept.
LEMMA RoomFound ==
    ASSUME TypeOK
    PROVE  /\ ~Full => Cardinality(Kept) < MaxConcurrentTurns
           /\ \A w : ~Busy(w) => \A u \in Kept : thread[u] = "listed" => WorkspaceOf(u) # w
<1>1. ~Full => Cardinality(Kept) < MaxConcurrentTurns
    BY LiveCount DEF Full
<1>2. \A w : ~Busy(w) => \A u \in Kept : thread[u] = "listed" => WorkspaceOf(u) # w
    BY DEF Busy, Seen, Kept
<1> QED BY <1>1, <1>2

\* With fewer turns kept there is no less room.
LEMMA FewerKept ==
    ASSUME TypeOK, TypeOK', Kept' \subseteq Kept
    PROVE  Cardinality(Kept') <= Cardinality(Kept) /\ Cardinality(Kept') \in Nat
BY LiveCount, FS_Subset, FS_CardinalityType

\* One more turn where there was room.
LEMMA OneMoreKept ==
    ASSUME TypeOK, TypeOK', NEW t \in Turns, setup' = setup, thread' = thread, Kept' \subseteq Kept \cup {t},
           Cardinality(Kept) < MaxConcurrentTurns,
           \A u \in Kept : thread[u] = "listed" => WorkspaceOf(u) # WorkspaceOf(t),
           LimitKept
    PROVE  LimitKept'
<1>1. Cardinality(Kept') <= MaxConcurrentTurns
    <2>1. Cardinality(Kept \cup {t}) <= Cardinality(Kept) + 1 /\ IsFiniteSet(Kept \cup {t})
        <3>1. CASE t \in Kept
            <4>1. Kept \cup {t} = Kept
                BY <3>1
            <4>2. Cardinality(Kept \cup {t}) = Cardinality(Kept) /\ IsFiniteSet(Kept \cup {t})
                BY <4>1, LiveCount, Zenon
            <4>3. Cardinality(Kept) \in Nat
                BY LiveCount
            <4> QED BY <4>2, <4>3
        <3>2. CASE t \notin Kept
            <4>1. IsFiniteSet(Kept \cup {t}) /\ Cardinality(Kept \cup {t}) = Cardinality(Kept) + 1
                BY <3>2, LiveCount, FS_AddElement
            <4>2. Cardinality(Kept) \in Nat
                BY LiveCount
            <4> QED BY <4>1, <4>2
        <3> QED BY <3>1, <3>2
    <2>2. Cardinality(Kept') <= Cardinality(Kept \cup {t}) /\ Cardinality(Kept') \in Nat
        <3>1. IsFiniteSet(Kept') /\ Cardinality(Kept') <= Cardinality(Kept \cup {t})
            BY <2>1, FS_Subset
        <3> QED BY <3>1, FS_CardinalityType
    <2>3. Cardinality(Kept \cup {t}) \in Nat
        BY <2>1, FS_CardinalityType
    <2> QED BY <2>1, <2>2, <2>3, LiveCount
<1>2. \A u, v \in Kept' :
        WorkspaceOf(u) = WorkspaceOf(v) /\ thread[u] = "listed" /\ thread[v] = "listed" => u = v
    BY DEF LimitKept, Kept
<1> QED BY <1>1, <1>2 DEF LimitKept, Kept, MaxConcurrentTurns, WorkspaceOf

\* The limit and the room for the next turn.
LEMMA LimitStays ==
    TypeOK /\ TypeOK' /\ Startable /\ Started /\ Room /\ LimitKept /\ [Next]_vars
      => (Room /\ LimitKept)'
<1> SUFFICES ASSUME TypeOK, TypeOK', Startable, Started, Room, LimitKept, [Next]_vars
             PROVE  (Room /\ LimitKept)'
    OBVIOUS
<1>1. CASE Calm
    <2>1. setup' = setup /\ Kept' \subseteq Kept
        BY <1>1 DEF Calm
    <2>2. /\ Cardinality(Kept') <= Cardinality(Kept) /\ Cardinality(Kept') \in Nat
          /\ Cardinality(Kept) \in Nat /\ MaxConcurrentTurns \in Nat
        BY <2>1, FewerKept, LiveCount
    <2>3. Kept' \subseteq Turns
        BY <2>1, LiveCount
    <2>4. Cardinality(Kept) <= MaxConcurrentTurns
        BY DEF LimitKept, Kept
    <2>5. Cardinality(Kept') <= MaxConcurrentTurns
        BY <2>2, <2>4
    <2>6. LimitKept'
        BY <1>1, <2>1, <2>3, <2>5 DEF Calm, LimitKept, Kept, MaxConcurrentTurns, WorkspaceOf
    <2>7. drain'.at \in {"list", "save"} => Cardinality(Kept) < MaxConcurrentTurns
        BY <1>1, RoomFound DEF Calm, Room
    <2>8. drain'.at \in {"list", "save"} => Cardinality(Kept') < MaxConcurrentTurns'
        BY <2>1, <2>2, <2>7 DEF MaxConcurrentTurns
    <2>9. drain'.at = "save" =>
            \A u \in Kept : thread[u] = "listed" => WorkspaceOf(u) # WorkspaceOf(drain'.turn)
        BY <1>1, RoomFound DEF Calm, Room
    <2>10. drain'.at = "save" =>
            \A u \in Kept' : thread'[u] = "listed" => WorkspaceOf(u)' # WorkspaceOf(drain.turn)'
        BY <1>1, <2>1, <2>3, <2>9 DEF Calm, WorkspaceOf
    <2> QED BY <2>6, <2>8, <2>10 DEF Room
<1>2. CASE DrainStarts /\ thread' = thread
    <2>1. drain.turn \in Turns /\ setup' = setup /\ drain'.at = "count" /\ drain.at = "save"
        BY <1>2, CountFacts DEF DrainStarts, Startable
    <2>2. Kept' \subseteq Kept \cup {drain.turn}
        BY <1>2, <2>1, MapTypes DEF DrainStarts, Save, Kept, LiveTurns, Live
    <2> QED BY <1>2, <2>1, <2>2, OneMoreKept DEF Room
<1>3. ASSUME NEW t \in Turns, StartTurn(t), thread' = thread PROVE (Room /\ LimitKept)'
    <2>1. drain.at = "off" /\ drain' = drain /\ setup' = setup /\ astray' = astray /\ row[t] = "absent"
        BY <1>3 DEF StartTurn, MayInsert, Startable
    <2>2. CASE row' = [row EXCEPT ![t] = "queued"]
        <3>1. Kept' = Kept
            BY <2>1, <2>2, MapTypes DEF Kept, LiveTurns, Live
        <3> QED BY <1>3, <2>1, <3>1 DEF LimitKept, Kept, Room, MaxConcurrentTurns, WorkspaceOf
    <2>3. CASE row' = [row EXCEPT ![t] = "running"] /\ ~Full /\ ~Busy(WorkspaceOf(t))
        <3>1. Kept' \subseteq Kept \cup {t}
            BY <2>1, <2>3, MapTypes DEF Kept, LiveTurns
        <3>2. LimitKept'
            BY <1>3, <2>1, <2>3, <3>1, RoomFound, OneMoreKept
        <3> QED BY <2>1, <3>2 DEF Room
    <2> QED BY <1>3, <2>2, <2>3 DEF StartTurn, MayInsert
<1>4. DrainStarts \/ (\E t \in Turns : StartTurn(t)) => thread' = thread \/ Calm
    <2>1. CASE \E t \in Turns : ArchiveThread(t) \/ ResumeThread(t)
        BY <2>1, FilingMoves DEF Calm, Kept, LiveTurns
    <2> QED BY <2>1 DEF Next, vars
<1> QED BY <1>1, <1>2, <1>3, <1>4, OnlyTwoLetIn

TurnInv == TypeOK /\ Startable /\ Started /\ Room /\ LimitKept

\* Nothing has been started, and nobody is live.
LEMMA TurnInit == Init => TurnInv
<1> SUFFICES ASSUME Init PROVE TurnInv
    OBVIOUS
<1> USE DEF Init, Offer!Init, NoRun, NoDrain, NoCall, NoAsk
<1>1. TypeOK
    <2>1. /\ setup \in Setups /\ row \in [Turns -> {"absent"} \cup Open \cup Final]
          /\ input \subseteq Turns /\ active \subseteq Turns
          /\ lock \in Turns \cup {None, "drain"} /\ astray \subseteq Turns
          /\ thread \in [Turns -> {"listed", "archived", "again"}]
        OBVIOUS
    <2>2. drain \in DrainStates
        BY NoDrainFacts
    <2>3. run \in [Turns -> RunStates] /\ ask \in [Turns -> AskStates]
        BY DEF RunStates, AskStates
    <2>4. call \in [Interrupts -> CallStates]
        BY DEF CallStates
    <2>5. remote \in [Turns -> {"none", "on", "ended"}] /\ note \in [Turns -> {"none", "sent", "gone"}]
        OBVIOUS
    <2>6. Offer!TypeOK
        BY DEF Offer!TypeOK
    <2>7. troubles \in 0..MaxTroubles
        OBVIOUS
    <2> QED BY <2>1, <2>2, <2>3, <2>4, <2>5, <2>6, <2>7
            DEF TypeOK, DrainStates, RunStates, AskStates, CallStates
<1>2. Startable /\ Started
    BY DEF Startable, Started
<1>3. LiveTurns = {}
    BY DEF LiveTurns, Live
<1>4. Room /\ LimitKept
    <2>1. Kept = {} /\ Cardinality(Kept) = 0 /\ MaxConcurrentTurns \in Nat
        BY <1>1, <1>3, LiveCount, FS_EmptySet DEF Kept
    <2> QED BY <2>1 DEF Room, LimitKept, Kept
<1> QED BY <1>1, <1>2, <1>4 DEF TurnInv

\* The invariant of every reachable state.
LEMMA TurnSafety == Spec => []TurnInv
<1>1. TurnInv /\ [Next]_vars => TurnInv'
    BY TypesStay, StartableStays, StartedStays, LimitStays DEF TurnInv
<1> QED BY <1>1, TurnInit, PTL DEF Spec

\* Every reachable state is well typed: SaveCodexCliTurn is given a status of the list.
THEOREM TurnTypes == Spec => []TypeOK
<1>1. TurnInv => TypeOK
    BY DEF TurnInv
<1> QED BY <1>1, TurnSafety, PTL

\* StartTurn and drainTurnQueue keep the limit and one turn per workspace, whatever
\* the setting, among the turns that no stale copy reopened and no lost save left behind
\* and, in a workspace, whose threads were never archived.
THEOREM LimitHolds == Spec => []LimitKept
<1>1. TurnInv => LimitKept
    BY DEF TurnInv
<1> QED BY <1>1, TurnSafety, PTL

\* StartTurn starts a turn it has just inserted, drainTurnQueue one whose prompt it has
\* taken out of memory: nobody has started either before.
THEOREM PromptOnce == Spec => PromptSentOnce
<1> DEFINE First(t) == run[t].at # "dispatch" /\ run'[t].at = "dispatch" => run[t].at = "none"
<1>1. TurnInv /\ [Next]_vars => \A t \in Turns : First(t)
    <2> SUFFICES ASSUME TurnInv, [Next]_vars, NEW t \in Turns PROVE First(t)
        OBVIOUS
    <2>0. TypeOK /\ Startable /\ run \in [Turns -> RunStates] /\ drain \in DrainStates
        BY MapTypes DEF TurnInv
    <2>1. CASE run'[t] = run[t] \/ run'[t].at # "dispatch"
        BY <2>1
    <2>2. ASSUME NEW u \in Turns, StartTurn(u) PROVE First(t)
        BY <2>0, <2>2 DEF StartTurn, MayInsert, Startable
    <2>3. CASE DrainStarts
        BY <2>0, <2>3 DEF DrainStarts, Startable
    <2>4. ASSUME NEW u \in Turns,
                 \/ DispatchExec(u) \/ DispatchFails(u) \/ DispatchToServer(u)
                 \/ ExecEnds(u) \/ CallFails(u) \/ SaveStarted(u) \/ Watchdog(u)
          PROVE  First(t)
        <3>1. \E to \in {"exec", "over", "watched"} :
                  run' = [run EXCEPT ![u].at = to] \/ run' = [run EXCEPT ![u] = [at |-> "calling", on |-> offered]]
            BY <2>4 DEF DispatchExec, DispatchFails, DispatchToServer, ExecEnds, CallFails,
                        SaveStarted, Watchdog, Goto
        <3>2. run'[t] = run[t] \/ run'[t].at # "dispatch"
            BY <2>0, <3>1 DEF RunStates
        <3> QED BY <2>1, <3>2
    <2>5. CASE Restart
        <3>1. run'[t] = run[t] \/ run'[t].at = "over"
            BY <2>0, <2>5, RestartMoves
        <3> QED BY <2>1, <3>1
    <2>6. CASE UNCHANGED run
        BY <2>1, <2>6
    <2>7. \/ \E u \in Turns :
                \/ StartTurn(u) \/ DispatchExec(u) \/ DispatchFails(u) \/ DispatchToServer(u)
                \/ ExecEnds(u) \/ CallFails(u) \/ SaveStarted(u) \/ Watchdog(u)
          \/ DrainStarts \/ Restart \/ UNCHANGED run
        <3>1. ASSUME NEW u \in Turns,
                     \/ StartFails(u) \/ Enqueue(u) \/ HandleNote(u) \/ HandleAsk(u)
                     \/ MarkWaiting(u) \/ ApprovalFails(u) \/ DrainFails(u) \/ DrainTakes(u)
                     \/ DrainSkips(u) \/ ServerEnds(u) \/ ServerAsks(u) \/ LoseNote(u)
                     \/ ArchiveThread(u) \/ ResumeThread(u)
              PROVE  UNCHANGED run
            BY <3>1 DEF StartFails, Enqueue, HandleNote, HandleAsk, MarkWaiting, ApprovalFails,
                        DrainFails, DrainTakes, DrainSkips, ServerEnds, ServerAsks, LoseNote,
                        ArchiveThread, ResumeThread, memory
        <3>2. ASSUME NEW c \in Interrupts, Interrupt(c) PROVE UNCHANGED run
            BY <3>2 DEF Interrupt, ReadTurn, TakeBack, CancelTurn
        <3>3. CASE DrainBegin \/ DrainCount \/ DrainEnds \/ DrainGivesUp
            BY <3>3 DEF DrainBegin, DrainCount, DrainEnds, DrainGivesUp
        <3>4. CASE WithdrawServer \/ (\E g \in Servers : OfferServer(g)) \/ UNCHANGED vars
            BY <3>4 DEF WithdrawServer, OfferServer, vars, memory
        <3> QED BY <3>1, <3>2, <3>3, <3>4 DEF Next, Work, Dispatch, RunTurn, DrainStep, Server
    <2> QED BY <2>2, <2>3, <2>4, <2>5, <2>6, <2>7
<1>2. Spec => [][\A t \in Turns : First(t)]_vars
    BY <1>1, TurnSafety, PTL DEF Spec
<1> QED BY <1>2 DEF PromptSentOnce
=============================================================================
