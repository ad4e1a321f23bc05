-------------------------- MODULE OperationReviews --------------------------
(***************************************************************************)
(* An operation review (stockv2): the agent or an operator saves a result, *)
(* an operator then accepts, rejects or defers it, and accepting a         *)
(* proposed operation records a transaction in the portfolio's books.      *)
(* Every call reads the review row once, decides on what it read, and at   *)
(* the end writes the whole row back.                                      *)
(*                                                                         *)
(* One review, whose proposal is to buy or sell PortfolioBook's symbol.     *)
(* Anything but a completed proposal is one output, "other", and carries   *)
(* no acceptance; a proposal may leave the quantity to the operator; the   *)
(* guardrails' quotes and position limit are a choice; the monitor hit and *)
(* the alert that follow a review in statements of their own are left out. *)
(***************************************************************************)
EXTENDS PortfolioBook, FiniteSets

CONSTANT ReviewKinds   \* operations on the review that the calls perform

ASSUME ReviewConstants == ReviewKinds \subseteq {"save", "accept", "reject", "defer"}

VARIABLES
    review,   \* the row of stockv2_operation_reviews
    draft     \* the review row each call has in memory

reviewVars == <<review, draft>>
vars == <<bookVars, reviewVars>>

\* guard is the guardrails' verdict at the save, row the transaction that an
\* accepted review names.
NoReview  == [output |-> "other", guard |-> "none", acceptance |-> "open", side |-> "buy", row |-> 0]
Decisions == {"accepted", "rejected"}
Terminal(r) == r.acceptance \in Decisions

\* What a call has in memory goes when it ends.
Forget(c) == draft' = [draft EXCEPT ![c] = IF call'[c] = IdleCall THEN NoReview ELSE @]

ReviewInit == review = NoReview /\ draft = [c \in Calls |-> NoReview]
Init == BookInit /\ ReviewInit

\* EvaluateExecutionGuardrails: cash and holding as read now; anything else
\* can only block more. "pass" includes degraded, which is acted on the same.
Blocked(order) ==
    IF order.side = "buy" THEN order.qty > 0 /\ cash < order.qty
    ELSE holding = NoHolding \/ holding.qty < order.qty
Guardrails(order) == IF Blocked(order) THEN {"blocked"} ELSE {"blocked", "pass"}

-----------------------------------------------------------------------------
\* saveOperationReviewResult, for a request or for a finished agent run.

BeginSave(c) ==
    /\ "save" \in ReviewKinds
    /\ ~Terminal(review)
    /\ Begin(c, "save", [IdleCall EXCEPT !.pc = "judge"])
    /\ UNCHANGED <<rows, reviewVars>>

Proposed(side, guard) == [NoReview EXCEPT !.output = "proposal", !.guard = guard, !.side = side]

\* The result takes the place of the old one, on the books as they are now.
JudgeResult(c) ==
    /\ At(c, "judge")
    /\ \/ draft' = [draft EXCEPT ![c] = NoReview]
       \/ \E side \in Sides : \E guard \in Guardrails([side |-> side, qty |-> 0]) :
            draft' = [draft EXCEPT ![c] = Proposed(side, guard)]
    /\ Goto(c, "result")
    /\ UNCHANGED <<rows, history, review>>

SaveResult(c) ==
    /\ At(c, "result")
    /\ review' = draft[c]
    /\ Finish(c)
    /\ Forget(c)
    /\ UNCHANGED <<rows, history>>

-----------------------------------------------------------------------------
\* AcceptOperationReview, RejectOperationReview, DeferOperationReview.

\* completedActionableReview and the check that nobody has decided yet.
\* mutant of Actionable: does not ask whether it is settled
AnyProposal == review.output = "proposal"
Actionable == review.output = "proposal" /\ ~Terminal(review)

BeginDecision(c, kind) ==
    /\ kind \in ReviewKinds
    /\ Actionable
    /\ kind = "accept" => review.guard = "pass"
    /\ Begin(c, kind, [IdleCall EXCEPT !.pc = IF kind = "accept" THEN "check" ELSE "mark"])
    /\ draft' = [draft EXCEPT ![c] = review]
    /\ UNCHANGED <<rows, review>>

\* The operator may set the quantity; the guardrails run again on the books.
CheckAccept(c) ==
    /\ At(c, "check")
    /\ \E q \in Quantities :
        LET order == [side |-> draft[c].side, qty |-> q] IN
        \E guard \in Guardrails(order) :
            IF guard = "pass"
            THEN call' = [call EXCEPT ![c].pc = "commit", ![c].order = order]
            ELSE Finish(c)
    /\ Forget(c)
    /\ UNCHANGED <<rows, history, review>>

DecisionOf(kind) == [accept |-> "accepted", reject |-> "rejected", defer |-> "deferred"][kind]

\* saveOperationReviewAcceptance: the row as read, with the decision on it.
Mark(c) ==
    /\ At(c, "mark")
    /\ review' = [draft[c] EXCEPT !.acceptance = DecisionOf(call[c].kind), !.row = call[c].row]
    /\ Finish(c)
    /\ Forget(c)
    /\ UNCHANGED <<rows, history>>

-----------------------------------------------------------------------------
ReviewStep(c) ==
    \/ BeginSave(c) \/ JudgeResult(c) \/ SaveResult(c)
    \/ \E kind \in {"accept", "reject", "defer"} : BeginDecision(c, kind)
    \/ CheckAccept(c) \/ Mark(c)

Next == \E c \in Calls : ReviewStep(c) \/ (BookStep(c) /\ Forget(c) /\ UNCHANGED review)

Spec == Init /\ [][Next]_vars

-----------------------------------------------------------------------------
Acceptances == {"open", "accepted", "rejected", "deferred"}
Holdings    == [id : Nat, qty : Nat]
SomeOrders  == Orders \cup {NoOrder}
Reviews     == [output : {"other", "proposal"},
                guard : {"none", "pass", "blocked"}, acceptance : Acceptances,
                side : Sides, row : Nat]
Kinds       == BookKinds \cup ReviewKinds \cup {"none"}
Labels      == {"idle", "commit", "value", "quotes", "rename", "edit", "judge", "result",
                "check", "mark"}
CallStates  == [kind : Kinds, pc : Labels, cash : Int, held : Holdings, order : SomeOrders, row : Nat]

\* Every variable has its type; transactions never exceed their bound.
TypeOK ==
    /\ cash \in Int /\ holding \in Holdings
    /\ trades \in Seq([side : Sides, qty : Quantities, by : {"operator", "review"}])
    /\ Len(trades) <= MaxTrades
    /\ call \in [Calls -> CallStates] /\ {mixed, renamed, cut} \subseteq BOOLEAN
    /\ review \in Reviews /\ draft \in [Calls -> Reviews]

\* A review that says accepted names a transaction that exists, was recorded for
\* a review, and goes the way the proposal went: the row is marked only after
\* RecordTransaction has committed, whatever was cut short or overlapped.
AcceptedIsTraded ==
    review.acceptance = "accepted" =>
        /\ review.row \in DOMAIN trades
        /\ trades[review.row].by = "review"
        /\ trades[review.row].side = review.side

\* No holding row is ever empty or oversold: the quantity is checked in the
\* transaction that takes it away, and the row goes when it reaches zero.
NeverOversold == holding # NoHolding => holding.qty > 0

Signed(trade) == IF trade.side = "sell" THEN trade.qty ELSE -trade.qty

\* What the transactions make of the cash, and, prices being one, of the holding.
CashByTrades ==
    LET after[n \in 0 .. Len(trades)] ==
            IF n = 0 THEN InitialCash ELSE after[n - 1] + Signed(trades[n])
    IN  after[Len(trades)]
HeldByTrades == InitialCash - CashByTrades

\* The portfolio's cash is what its transactions make it, as long as no edit of
\* the portfolio has overlapped with another call: RecordTransaction reads and
\* writes cash inside its transaction and no valuation writes it.
CashFollowsTrades == ~renamed => cash = CashByTrades

Ledger == INSTANCE PortfolioLedger WITH qty <- holding.qty

\* Until two calls overlap the books are a PortfolioLedger: cash and holding
\* move only in the step that writes a transaction row, also when calls are cut
\* short between the transaction, the valuation and the write-back.
LedgerUntilOverlap == Ledger!Init /\ [][~mixed' => [Ledger!Next]_Ledger!vars]_vars

TradesOfReview == {n \in DOMAIN trades : trades[n].by = "review"}

\* Until two calls overlap or an accept is cut short, a review is traded once.
OneTradeIfUndisturbed == ~mixed /\ ~cut => Cardinality(TradesOfReview) <= 1

\* A review is traded at most once: AcceptOperationReview refuses one that is
\* accepted (review_action_service_test.go).
OneTradePerReview == Cardinality(TradesOfReview) <= 1

\* The holding is what the transactions make it: a transaction is the only
\* source of change of a portfolio's assets (types.go, StockV2Transaction).
HoldingFollowsTrades == holding.qty = HeldByTrades
=============================================================================
