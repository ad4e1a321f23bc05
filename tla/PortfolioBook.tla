---------------------------- MODULE PortfolioBook ----------------------------
(***************************************************************************)
(* The books of one portfolio (stockv2): its cash, its holding of one      *)
(* symbol and its transaction rows, under the requests and the scheduled   *)
(* refreshes that read and write them. RecordTransaction works inside one  *)
(* SQLite transaction that begins with a write; every other writer reads a *)
(* row, leaves the database, and later writes the whole row back.          *)
(*                                                                         *)
(* A call is an HTTP request or a goroutine. Prices are one, so an amount  *)
(* is a quantity; market values and snapshots are left out.                *)
(***************************************************************************)
EXTENDS Integers, Sequences, SequencesExt

CONSTANTS
    Calls,        \* calls that may be in flight together
    BookKinds,    \* operations of this module that the calls perform
    InitialCash,
    Quantities,   \* quantities an operation may have
    MaxTrades     \* bound: transaction rows

ASSUME BookConstants ==
    /\ InitialCash \in Int /\ Quantities \subseteq Nat \ {0} /\ MaxTrades \in Nat
    /\ BookKinds \subseteq {"trade", "valuation", "rename", "edit"}

VARIABLES
    cash,      \* stockv2_portfolios.cash, may go below zero
    holding,   \* the symbol's row of stockv2_holdings
    trades,    \* rows of stockv2_transactions
    call,      \* each call: what it does, where it is, what it has read
    mixed,     \* history: two calls have been in flight together
    renamed,   \* history: one of them was an edit of the portfolio
    cut        \* history: an accept was cut short

bookVars == <<cash, holding, trades, call, mixed, renamed, cut>>
rows == <<cash, holding, trades>>
history == <<mixed, renamed, cut>>

\* A holding row; a row that was deleted and created again has another id.
NoHolding == [id |-> 0, qty |-> 0]
NoOrder   == [side |-> "buy", qty |-> 0]
IdleCall  == [kind |-> "none", pc |-> "idle", cash |-> 0, held |-> NoHolding, order |-> NoOrder, row |-> 0]

Sides  == {"buy", "sell"}
Orders == [side : Sides, qty : Quantities]

Idle(c) == call[c].pc = "idle"
At(c, label) == call[c].pc = label
Goto(c, label) == call' = [call EXCEPT ![c].pc = label]
Finish(c) == call' = [call EXCEPT ![c] = IdleCall]
InFlight(c) == {k \in {call[d].kind : d \in Calls \ {c}} : k # "none"}

\* A call of this kind comes in.
Begin(c, kind, local) ==
    /\ Idle(c)
    /\ call' = [call EXCEPT ![c] = [local EXCEPT !.kind = kind]]
    /\ mixed' = (mixed \/ InFlight(c) # {})
    /\ renamed' = (renamed \/ (InFlight(c) # {} /\ "rename" \in InFlight(c) \cup {kind}))
    /\ UNCHANGED cut

BookInit ==
    /\ cash = InitialCash /\ holding = NoHolding /\ trades = <<>>
    /\ call = [c \in Calls |-> IdleCall] /\ mixed = FALSE /\ renamed = FALSE /\ cut = FALSE

-----------------------------------------------------------------------------
\* RecordTransaction.

\* The holding after an order: bought into, created, reduced, or deleted at zero.
\* mutant of Bought: does not find the row that is there
BuysAfresh(order) == [id |-> Len(trades) + 1, qty |-> order.qty]
Bought(order) ==
    IF holding = NoHolding THEN [id |-> Len(trades) + 1, qty |-> order.qty]
    ELSE [holding EXCEPT !.qty = @ + order.qty]
\* mutant of Sold: leaves the row at zero
KeepsEmptyRow(order) == [holding EXCEPT !.qty = @ - order.qty]
Sold(order) == IF holding.qty = order.qty THEN NoHolding ELSE [holding EXCEPT !.qty = @ - order.qty]

Covered(order) == order.side = "sell" => holding # NoHolding /\ holding.qty >= order.qty

\* mutant of Commit: only a purchase is charged to the cash
ForgetsProceeds(order, by) ==
    /\ Len(trades) < MaxTrades
    /\ Covered(order)
    /\ trades' = Append(trades, [side |-> order.side, qty |-> order.qty, by |-> by])
    /\ cash' = cash - (IF order.side = "sell" THEN 0 ELSE order.qty)
    /\ holding' = IF order.side = "sell" THEN Sold(order) ELSE Bought(order)
\* The SQL transaction: row, cash and holding together, or none of them.
Commit(order, by) ==
    /\ Len(trades) < MaxTrades
    /\ Covered(order)
    /\ trades' = Append(trades, [side |-> order.side, qty |-> order.qty, by |-> by])
    /\ cash' = cash + (IF order.side = "sell" THEN order.qty ELSE -order.qty)
    /\ holding' = IF order.side = "sell" THEN Sold(order) ELSE Bought(order)

BeginTrade(c) ==
    /\ "trade" \in BookKinds
    /\ \E order \in Orders : Begin(c, "trade", [IdleCall EXCEPT !.pc = "commit", !.order = order])
    /\ UNCHANGED rows

CommitTrade(c) ==
    /\ At(c, "commit")
    /\ Commit(call[c].order, IF call[c].kind = "trade" THEN "operator" ELSE "review")
    /\ call' = [call EXCEPT ![c].pc = "value", ![c].row = Len(trades')]
    /\ UNCHANGED history

\* mutant of RefuseTrade: an accept ignores the error
IgnoresRefusal(c) ==
    /\ At(c, "commit") /\ ~Covered(call[c].order)
    /\ IF call[c].kind = "accept" THEN Goto(c, "mark") ELSE Finish(c)
    /\ UNCHANGED <<rows, history>>
\* ErrInsufficientHolding: the transaction is rolled back and the call ends.
RefuseTrade(c) ==
    /\ At(c, "commit") /\ ~Covered(call[c].order)
    /\ Finish(c)
    /\ UNCHANGED <<rows, history>>

-----------------------------------------------------------------------------
\* RefreshPortfolioValuation: after a trade, on request, on a schedule.

BeginValuation(c) ==
    /\ "valuation" \in BookKinds
    /\ Begin(c, "valuation", [IdleCall EXCEPT !.pc = "value"])
    /\ UNCHANGED rows

\* A valuation that belongs to an accepted review goes on to mark the review.
AfterValuation(c) == IF call[c].kind = "accept" THEN Goto(c, "mark") ELSE Finish(c)

\* Reads the holdings, then fetches their quotes.
ReadHoldings(c) ==
    /\ At(c, "value")
    /\ call' = [call EXCEPT ![c].pc = "quotes", ![c].held = holding]
    /\ UNCHANGED <<rows, history>>

\* UPDATE stockv2_holdings ... WHERE id = ?, every column.
WriteBack(held) == holding' = IF held.id = holding.id THEN held ELSE holding

SaveValuation(c) ==
    /\ At(c, "quotes")
    /\ WriteBack(call[c].held)
    /\ AfterValuation(c)
    /\ UNCHANGED <<cash, trades, history>>

\* Reading, quoting or saving failed: a warning after a trade, an error otherwise.
ValuationFails(c) ==
    /\ call[c].pc \in {"value", "quotes"}
    /\ AfterValuation(c)
    /\ UNCHANGED <<rows, history>>

-----------------------------------------------------------------------------
\* UpdatePortfolio and UpdateHolding of fields that are neither cash nor quantity.

BeginRename(c) ==
    /\ "rename" \in BookKinds
    /\ Begin(c, "rename", [IdleCall EXCEPT !.pc = "rename", !.cash = cash])
    /\ UNCHANGED rows

SaveRename(c) ==
    /\ At(c, "rename")
    /\ cash' = call[c].cash
    /\ Finish(c)
    /\ UNCHANGED <<holding, trades, history>>

BeginEdit(c) ==
    /\ "edit" \in BookKinds /\ holding # NoHolding
    /\ Begin(c, "edit", [IdleCall EXCEPT !.pc = "edit", !.held = holding])
    /\ UNCHANGED rows

SaveEdit(c) ==
    /\ At(c, "edit")
    /\ WriteBack(call[c].held)
    /\ Finish(c)
    /\ UNCHANGED <<cash, trades, history>>

-----------------------------------------------------------------------------
\* The client goes away, a statement fails or the process dies: the call does
\* no more, what it has written stays.
Abort(c) ==
    /\ ~Idle(c)
    /\ Finish(c)
    /\ cut' = (cut \/ call[c].kind = "accept")
    /\ UNCHANGED <<rows, mixed, renamed>>

BookStep(c) ==
    \/ BeginTrade(c) \/ CommitTrade(c) \/ RefuseTrade(c)
    \/ BeginValuation(c) \/ ReadHoldings(c) \/ SaveValuation(c) \/ ValuationFails(c)
    \/ BeginRename(c) \/ SaveRename(c) \/ BeginEdit(c) \/ SaveEdit(c)
    \/ Abort(c)
=============================================================================
