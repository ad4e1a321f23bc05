----------------------- MODULE OperationReviewsProofs -----------------------
(***************************************************************************)
(* What holds of the books and of a review for any number of concurrent    *)
(* calls, any quantities and any bound on transactions, and why the books  *)
(* are a PortfolioLedger until two calls overlap.                          *)
(***************************************************************************)
EXTENDS OperationReviews, FiniteSetTheorems, TLAPS

\* A holding row, stored or in memory, is there with a quantity or is not there.
HeldOrGone(h) == h = NoHolding \/ (h.id > 0 /\ h.qty > 0)
BooksSound ==
    /\ HeldOrGone(holding)
    /\ \A c \in Calls : HeldOrGone(call[c].held) /\ (call[c].pc = "commit" => call[c].order \in Orders)

\* The transaction of that number was recorded for a review, on that side.
Traded(row, side) == row \in DOMAIN trades /\ trades[row].by = "review" /\ trades[row].side = side

\* What a call holds of the review it decides: never an accepted row, and past
\* RecordTransaction the number of the transaction.
DraftSound(c) ==
    /\ draft[c].acceptance # "accepted"
    /\ call[c].pc = "mark" => call[c].kind \in {"accept", "reject", "defer"}
    /\ call[c].kind = "accept" /\ call[c].pc = "commit" => call[c].order.side = draft[c].side
    /\ call[c].kind = "accept" /\ call[c].pc \in {"value", "quotes", "mark"} =>
        Traded(call[c].row, draft[c].side)

ReviewInv == TypeOK /\ BooksSound /\ (\A c \in Calls : DraftSound(c)) /\ AcceptedIsTraded

\* Until calls overlap one call is in flight, and what it has read of the books
\* is still what is there.
Alone ==
    /\ \A c \in Calls : (call[c].kind = "none" <=> call[c].pc = "idle")
    /\ ~mixed =>
        /\ \A c, d \in Calls : call[c].pc # "idle" /\ call[d].pc # "idle" => c = d
        /\ \A c \in Calls :
            /\ call[c].pc \in {"quotes", "edit"} => call[c].held = holding
            /\ call[c].pc = "rename" => call[c].cash = cash

USE BookConstants, ReviewConstants

LEMMA ConstantTypes ==
    /\ IdleCall \in CallStates /\ NoReview \in Reviews /\ NoHolding \in Holdings
    /\ NoOrder \in SomeOrders /\ Orders \subseteq SomeOrders
BY DEF IdleCall, NoReview, NoHolding, NoOrder, SomeOrders, CallStates, Holdings, Reviews, Acceptances,
       Kinds, Labels, Orders, Sides

\* A call in flight moves on to a label, ends or begins.
LEMMA CallTypes ==
    ASSUME TypeOK, NEW c \in Calls
    PROVE  /\ \A label \in Labels : Goto(c, label) => call' \in [Calls -> CallStates]
           /\ Finish(c) => call' \in [Calls -> CallStates]
           /\ \A kind \in Kinds, local \in CallStates :
                Begin(c, kind, local) => call' \in [Calls -> CallStates] /\ {mixed, renamed, cut}' \subseteq BOOLEAN
<1>1. ASSUME NEW label \in Labels, Goto(c, label) PROVE call' \in [Calls -> CallStates]
  BY <1>1 DEF TypeOK, Goto, CallStates
<1>2. ASSUME Finish(c) PROVE call' \in [Calls -> CallStates]
  BY <1>2, ConstantTypes DEF TypeOK, Finish
<1>3. ASSUME NEW kind \in Kinds, NEW local \in CallStates, Begin(c, kind, local)
      PROVE  call' \in [Calls -> CallStates] /\ {mixed, renamed, cut}' \subseteq BOOLEAN
  <2>1. [local EXCEPT !.kind = kind] \in CallStates
    BY DEF CallStates
  <2>2. call' \in [Calls -> CallStates]
    BY <1>3, <2>1 DEF TypeOK, Begin
  <2>3. mixed' \in BOOLEAN /\ renamed' \in BOOLEAN /\ cut' \in BOOLEAN
    BY <1>3 DEF TypeOK, Begin
  <2> QED BY <2>2, <2>3
<1> QED BY <1>1, <1>2, <1>3

LEMMA ForgetTypes ==
    ASSUME TypeOK, NEW c \in Calls, Forget(c)
    PROVE  draft' \in [Calls -> Reviews]
BY ConstantTypes DEF TypeOK, Forget

Books == [side : Sides, qty : Quantities, by : {"operator", "review"}]

\* The holding that an order leaves, and the rest of what Commit writes.
LEMMA CommitTypes ==
    ASSUME TypeOK, BooksSound, NEW order \in Orders, NEW by \in {"operator", "review"}, Commit(order, by)
    PROVE  /\ cash' \in Int /\ holding' \in Holdings /\ HeldOrGone(holding')
           /\ trades' \in Seq(Books) /\ Len(trades') = Len(trades) + 1 /\ Len(trades') <= MaxTrades
           /\ \A n \in DOMAIN trades : n \in DOMAIN trades' /\ trades'[n] = trades[n]
           /\ Len(trades') \in DOMAIN trades' /\ trades'[Len(trades')] = [side |-> order.side, qty |-> order.qty, by |-> by]
<1> DEFINE new == [side |-> order.side, qty |-> order.qty, by |-> by]
<1>1. new \in Books /\ order.qty \in Nat \ {0} /\ order.side \in Sides
  BY DEF Orders, Books
<1>2. trades \in Seq(Books) /\ Len(trades) \in Nat /\ trades' = Append(trades, new)
  BY DEF TypeOK, Commit, Books
<1> HIDE DEF new
<1>3. trades' \in Seq(Books) /\ Len(trades') = Len(trades) + 1 /\ trades'[Len(trades')] = new
  BY <1>1, <1>2
<1>4. \A n \in DOMAIN trades : n \in DOMAIN trades' /\ trades'[n] = trades[n]
  BY <1>1, <1>2
<1>5. Len(trades') <= MaxTrades /\ Len(trades') \in DOMAIN trades'
  BY <1>2, <1>3 DEF Commit, TypeOK
<1>6. cash' \in Int
  BY <1>1 DEF Commit, TypeOK
<1>7. holding \in Holdings /\ HeldOrGone(holding)
  BY DEF TypeOK, BooksSound
<1>8. Bought(order) \in Holdings /\ HeldOrGone(Bought(order))
  BY SMTT(20), <1>1, <1>2, <1>7 DEF Bought, Holdings, HeldOrGone, NoHolding
<1>9. Covered(order) /\ order.side = "sell" => Sold(order) \in Holdings /\ HeldOrGone(Sold(order))
  BY <1>1, <1>7 DEF Covered, Sold, Holdings, HeldOrGone, NoHolding
<1>10. holding' \in Holdings /\ HeldOrGone(holding')
  BY <1>1, <1>8, <1>9 DEF Commit, Sides
<1> QED BY <1>3, <1>4, <1>5, <1>6, <1>10 DEF new

LEMMA ReviewStepTypes ==
    ASSUME TypeOK, NEW c \in Calls, DraftSound(c), ReviewStep(c)
    PROVE  TypeOK'
<1> USE DEF TypeOK
<1>1. CASE BeginSave(c)
  <2>1. [IdleCall EXCEPT !.pc = "judge"] \in CallStates /\ "save" \in Kinds
    BY <1>1, ConstantTypes DEF BeginSave, CallStates, Labels, Kinds
  <2> QED BY <1>1, <2>1, CallTypes DEF BeginSave, reviewVars, rows
<1>2. CASE JudgeResult(c)
  <2>1. \A order : Guardrails(order) \subseteq {"blocked", "pass"}
    BY DEF Guardrails
  <2>2. \A side \in Sides, guard \in {"blocked", "pass"} : Proposed(side, guard) \in Reviews
    BY ConstantTypes DEF Proposed, Reviews
  <2>3. draft' \in [Calls -> Reviews]
    BY <1>2, <2>1, <2>2, ConstantTypes DEF JudgeResult
  <2> QED BY <1>2, <2>3, CallTypes DEF JudgeResult, rows, history, Labels
<1>3. CASE SaveResult(c)
  BY <1>3, CallTypes, ForgetTypes DEF SaveResult, rows, history
<1>4. ASSUME NEW kind \in {"accept", "reject", "defer"}, BeginDecision(c, kind) PROVE TypeOK'
  <2> DEFINE local == [IdleCall EXCEPT !.pc = IF kind = "accept" THEN "check" ELSE "mark"]
  <2>1. local \in CallStates /\ kind \in Kinds
    BY <1>4, ConstantTypes DEF BeginDecision, CallStates, Labels, Kinds
  <2>2. Begin(c, kind, local)
    BY <1>4 DEF BeginDecision
  <2> HIDE DEF local
  <2>3. call' \in [Calls -> CallStates] /\ {mixed, renamed, cut}' \subseteq BOOLEAN
    BY <2>1, <2>2, CallTypes
  <2> QED BY <1>4, <2>3 DEF BeginDecision, rows
<1>5. CASE CheckAccept(c)
  <2>1. PICK q \in Quantities :
          \/ call' = [call EXCEPT ![c].pc = "commit", ![c].order = [side |-> draft[c].side, qty |-> q]]
          \/ Finish(c)
    BY <1>5 DEF CheckAccept
  <2>2. [side |-> draft[c].side, qty |-> q] \in SomeOrders
    BY DEF Reviews, SomeOrders, Orders
  <2> DEFINE order == [side |-> draft[c].side, qty |-> q]
             new == [call[c] EXCEPT !.pc = "commit", !.order = order]
  <2>3. new \in CallStates
    BY <2>2 DEF CallStates, Labels
  <2>4. call' = [call EXCEPT ![c] = new] \/ Finish(c)
    BY <2>1
  <2> HIDE DEF new
  <2>5. call' \in [Calls -> CallStates]
    BY <2>3, <2>4, CallTypes
  <2> QED BY <1>5, <2>5, ForgetTypes DEF CheckAccept, rows, history
<1>6. CASE Mark(c)
  <2> DEFINE kind == call[c].kind
  <2>1. DecisionOf(kind) \in Acceptances /\ call[c].row \in Nat
    BY <1>6 DEF Mark, At, DraftSound, DecisionOf, Acceptances, CallStates
  <2>2. review' = [draft[c] EXCEPT !.acceptance = DecisionOf(kind), !.row = call[c].row]
    BY <1>6 DEF Mark
  <2> HIDE DEF kind
  <2>3. review' \in Reviews
    BY <2>1, <2>2 DEF Reviews
  <2> QED BY <1>6, <2>3, CallTypes, ForgetTypes DEF Mark, rows, history
<1> QED BY <1>1, <1>2, <1>3, <1>4, <1>5, <1>6 DEF ReviewStep

LEMMA BookStepTypes ==
    ASSUME TypeOK, BooksSound, NEW c \in Calls, BookStep(c), Forget(c), UNCHANGED review
    PROVE  TypeOK'
<1>1. review' \in Reviews /\ draft' \in [Calls -> Reviews]
  BY ForgetTypes DEF TypeOK
<1>2. {mixed, renamed, cut} \subseteq BOOLEAN /\ call[c] \in CallStates
  BY DEF TypeOK
<1> DEFINE RowsOK ==
      /\ cash \in Int /\ holding \in Holdings /\ trades \in Seq(Books) /\ Len(trades) <= MaxTrades
           CallsOK == call \in [Calls -> CallStates] /\ {mixed, renamed, cut} \subseteq BOOLEAN
<1>3. RowsOK /\ CallsOK
  BY DEF TypeOK, Books
<1>4. UNCHANGED rows => RowsOK'
  BY <1>3 DEF rows
<1>5. UNCHANGED history /\ call' \in [Calls -> CallStates] => CallsOK'
  BY <1>2 DEF history
<1>6. AfterValuation(c) => call' \in [Calls -> CallStates]
  BY CallTypes DEF AfterValuation, Labels
<1>7. \A c2 \in Calls : WriteBack(call[c2].held) => holding' \in Holdings
  BY <1>3 DEF WriteBack, CallStates
<1>8. CASE BeginTrade(c)
  <2>1. PICK order \in Orders : Begin(c, "trade", [IdleCall EXCEPT !.pc = "commit", !.order = order])
    BY <1>8 DEF BeginTrade
  <2>2. [IdleCall EXCEPT !.pc = "commit", !.order = order] \in CallStates /\ "trade" \in Kinds
    BY <1>8, ConstantTypes DEF BeginTrade, CallStates, Labels, Kinds
  <2>3. CallsOK'
    BY <2>1, <2>2, CallTypes
  <2> QED BY <1>1, <1>4, <1>8, <2>3 DEF BeginTrade, TypeOK, Books
<1>9. CASE CommitTrade(c)
  <2> DEFINE by == IF call[c].kind = "trade" THEN "operator" ELSE "review"
             new == [call[c] EXCEPT !.pc = "value", !.row = Len(trades')]
  <2>1. call[c].order \in Orders /\ Commit(call[c].order, by)
    BY <1>9 DEF CommitTrade, At, BooksSound
  <2>2. RowsOK'
    BY <2>1, CommitTypes
  <2> HIDE DEF RowsOK
  <2>3. new \in CallStates
    <3>1. Len(trades') \in Nat
      BY <2>2 DEF RowsOK
    <3> QED BY <1>2, <3>1 DEF CallStates, Labels
  <2>4. call' = [call EXCEPT ![c] = new]
    BY <1>9 DEF CommitTrade
  <2> HIDE DEF new
  <2>5. call' \in [Calls -> CallStates]
    BY <1>3, <2>3, <2>4
  <2> QED BY <1>1, <1>5, <1>9, <2>2, <2>5 DEF CommitTrade, TypeOK, Books, RowsOK
<1>10. CASE RefuseTrade(c) \/ ValuationFails(c)
  <2>1. UNCHANGED <<rows, history>> /\ call' \in [Calls -> CallStates]
    BY <1>6, <1>10, CallTypes DEF RefuseTrade, ValuationFails
  <2> QED BY <1>1, <1>4, <1>5, <2>1 DEF TypeOK, Books
<1>11. CASE BeginValuation(c)
  <2>1. [IdleCall EXCEPT !.pc = "value"] \in CallStates /\ "valuation" \in Kinds
    BY <1>11, ConstantTypes DEF BeginValuation, CallStates, Labels, Kinds
  <2>2. CallsOK'
    BY <1>11, <2>1, CallTypes DEF BeginValuation
  <2> QED BY <1>1, <1>4, <1>11, <2>2 DEF BeginValuation, TypeOK, Books
<1>12. CASE ReadHoldings(c)
  <2> DEFINE new == [call[c] EXCEPT !.pc = "quotes", !.held = holding]
  <2>1. new \in CallStates /\ call' = [call EXCEPT ![c] = new]
    BY <1>2, <1>3, <1>12 DEF ReadHoldings, CallStates, Labels
  <2> HIDE DEF new
  <2>2. call' \in [Calls -> CallStates]
    BY <1>3, <2>1
  <2> QED BY <1>1, <1>4, <1>5, <1>12, <2>2 DEF ReadHoldings, TypeOK, Books
<1>13. CASE SaveValuation(c)
  BY <1>1, <1>3, <1>5, <1>6, <1>7, <1>13 DEF SaveValuation, TypeOK, Books
<1>14. CASE BeginRename(c)
  <2>1. [IdleCall EXCEPT !.pc = "rename", !.cash = cash] \in CallStates /\ "rename" \in Kinds
    BY <1>3, <1>14, ConstantTypes DEF BeginRename, CallStates, Labels, Kinds
  <2>2. CallsOK'
    BY <1>14, <2>1, CallTypes DEF BeginRename
  <2> QED BY <1>1, <1>4, <1>14, <2>2 DEF BeginRename, TypeOK, Books
<1>15. CASE SaveRename(c)
  <2>1. cash' \in Int
    BY <1>2, <1>15 DEF SaveRename, CallStates
  <2> QED BY <1>1, <1>3, <1>5, <1>15, <2>1, CallTypes DEF SaveRename, TypeOK, Books
<1>16. CASE BeginEdit(c)
  <2>1. [IdleCall EXCEPT !.pc = "edit", !.held = holding] \in CallStates /\ "edit" \in Kinds
    BY <1>3, <1>16, ConstantTypes DEF BeginEdit, CallStates, Labels, Kinds
  <2>2. CallsOK'
    BY <1>16, <2>1, CallTypes DEF BeginEdit
  <2> QED BY <1>1, <1>4, <1>16, <2>2 DEF BeginEdit, TypeOK, Books
<1>17. CASE SaveEdit(c)
  BY <1>1, <1>3, <1>5, <1>7, <1>17, CallTypes DEF SaveEdit, TypeOK, Books
<1>18. CASE Abort(c)
  <2>1. CallsOK'
    BY <1>2, <1>18, CallTypes DEF Abort
  <2>2. UNCHANGED rows
    BY <1>18 DEF Abort
  <2> QED BY <1>1, <1>4, <2>1, <2>2 DEF TypeOK, Books
<1> QED BY <1>8, <1>9, <1>10, <1>11, <1>12, <1>13, <1>14, <1>15, <1>16, <1>17, <1>18 DEF BookStep

-----------------------------------------------------------------------------
\* A step of one call leaves the other calls alone, and no step takes a
\* transaction row back.
LEMMA OnlyOwnState ==
    ASSUME TypeOK, NEW c \in Calls, ReviewStep(c) \/ (BookStep(c) /\ Forget(c)),
           NEW d \in Calls, d # c
    PROVE  call'[d] = call[d] /\ draft'[d] = draft[d]
BY DEF TypeOK, ReviewStep, BookStep, Forget, Goto, Finish, Begin, BeginSave, JudgeResult, SaveResult,
       BeginDecision, CheckAccept, Mark, BeginTrade, CommitTrade, RefuseTrade, BeginValuation, ReadHoldings,
       SaveValuation, ValuationFails, AfterValuation, BeginRename, SaveRename, BeginEdit, SaveEdit, Abort, reviewVars

LEMMA TradesStay ==
    ASSUME TypeOK, BooksSound, NEW c \in Calls, BookStep(c) \/ ReviewStep(c), NEW n \in DOMAIN trades
    PROVE  n \in DOMAIN trades' /\ trades'[n] = trades[n]
<1>1. CASE CommitTrade(c)
  <2>1. call[c].order \in Orders /\ Commit(call[c].order, IF call[c].kind = "trade" THEN "operator" ELSE "review")
    BY <1>1 DEF CommitTrade, At, BooksSound
  <2> QED BY <2>1, CommitTypes
<1>2. CASE ReviewStep(c)
  BY <1>2 DEF ReviewStep, BeginSave, JudgeResult, SaveResult, BeginDecision, CheckAccept, Mark, rows
<1>3. CASE BookStep(c) /\ ~CommitTrade(c)
  BY <1>3 DEF BookStep, BeginTrade, RefuseTrade, BeginValuation, ReadHoldings, SaveValuation, ValuationFails,
      BeginRename, SaveRename, BeginEdit, SaveEdit, Abort, rows
<1> QED BY <1>1, <1>2, <1>3

\* What the call's own record is after it ends or moves on.
LEMMA CallMoves ==
    ASSUME TypeOK, NEW c \in Calls
    PROVE  /\ Finish(c) => call'[c] = IdleCall
           /\ \A label : Goto(c, label) => /\ call'[c].pc = label
                                           /\ \A f \in {"kind", "held", "order", "row"} : call'[c][f] = call[c][f]
<1> USE DEF TypeOK, CallStates
<1>1. Finish(c) => call'[c] = IdleCall
  BY DEF Finish
<1>2. ASSUME NEW label, Goto(c, label)
      PROVE  call'[c].pc = label /\ \A f \in {"kind", "held", "order", "row"} : call'[c][f] = call[c][f]
  BY <1>2 DEF Goto
<1> QED BY <1>1, <1>2

LEMMA IdleFields ==
    /\ IdleCall.held = NoHolding /\ IdleCall.pc = "idle" /\ IdleCall.kind = "none" /\ HeldOrGone(NoHolding)
BY DEF IdleCall, HeldOrGone

\* The step of a call keeps its own part of BooksSound and the stored holding.
LEMMA BookStepSound ==
    ASSUME TypeOK, BooksSound, NEW c \in Calls, BookStep(c)
    PROVE  /\ HeldOrGone(holding') /\ HeldOrGone(call'[c].held)
           /\ call'[c].pc = "commit" => call'[c].order \in Orders
<1> USE DEF TypeOK, BooksSound
<1>2. CASE CommitTrade(c)
  <2>1. call[c].order \in Orders /\ Commit(call[c].order, IF call[c].kind = "trade" THEN "operator" ELSE "review")
    BY <1>2 DEF CommitTrade, At
  <2>2. HeldOrGone(holding')
    BY <2>1, CommitTypes
  <2>3. call'[c].held = call[c].held /\ call'[c].pc = "value"
    BY <1>2 DEF CommitTrade, CallStates
  <2> QED BY <2>2, <2>3
<1>4. CASE BeginTrade(c)
  <2>1. PICK order \in Orders : Begin(c, "trade", [IdleCall EXCEPT !.pc = "commit", !.order = order])
    BY <1>4 DEF BeginTrade
  <2>2. call'[c].held = NoHolding /\ call'[c].order = order
    BY <2>1 DEF Begin, IdleCall
  <2> QED BY <1>4, <2>2, IdleFields DEF BeginTrade, rows
<1>5. CASE BeginValuation(c) \/ BeginRename(c)
  <2>1. call'[c].held = NoHolding /\ call'[c].pc \in {"value", "rename"}
    BY <1>5 DEF BeginValuation, BeginRename, Begin, IdleCall
  <2> QED BY <1>5, <2>1, IdleFields DEF BeginValuation, BeginRename, rows
<1>6. CASE BeginEdit(c)
  <2>1. call'[c].held = holding /\ call'[c].pc = "edit"
    BY <1>6 DEF BeginEdit, Begin, IdleCall
  <2> QED BY <1>6, <2>1 DEF BeginEdit, rows
<1>7. CASE ReadHoldings(c)
  BY <1>7 DEF ReadHoldings, rows, CallStates
<1>8. AfterValuation(c) => HeldOrGone(call'[c].held) /\ call'[c].pc # "commit"
  BY CallMoves, IdleFields DEF AfterValuation
<1>9. Finish(c) => HeldOrGone(call'[c].held) /\ call'[c].pc # "commit"
  BY CallMoves, IdleFields
<1>10. CASE RefuseTrade(c) \/ ValuationFails(c) \/ Abort(c) \/ SaveRename(c)
  BY <1>8, <1>9, <1>10 DEF RefuseTrade, ValuationFails, Abort, SaveRename, rows
<1>11. CASE SaveValuation(c) \/ SaveEdit(c)
  BY <1>8, <1>9, <1>11 DEF SaveValuation, SaveEdit, WriteBack
<1> QED BY <1>2, <1>4, <1>5, <1>6, <1>7, <1>10, <1>11 DEF BookStep

LEMMA ReviewStepSound ==
    ASSUME TypeOK, BooksSound, NEW c \in Calls, DraftSound(c), ReviewStep(c)
    PROVE  /\ HeldOrGone(holding') /\ HeldOrGone(call'[c].held)
           /\ call'[c].pc = "commit" => call'[c].order \in Orders
<1> USE DEF TypeOK, BooksSound
<1>2. CASE BeginSave(c) \/ \E kind \in {"accept", "reject", "defer"} : BeginDecision(c, kind)
  <2>1. ASSUME BeginSave(c) PROVE call'[c].held = NoHolding /\ call'[c].pc = "judge"
    BY <2>1 DEF BeginSave, Begin, IdleCall
  <2>2. ASSUME NEW kind, BeginDecision(c, kind) PROVE call'[c].held = NoHolding /\ call'[c].pc \in {"check", "mark"}
    BY <2>2 DEF BeginDecision, Begin, IdleCall
  <2> QED BY <1>2, <2>1, <2>2, IdleFields DEF BeginSave, BeginDecision, rows
<1>3. CASE JudgeResult(c) \/ SaveResult(c) \/ Mark(c)
  <2>1. HeldOrGone(call'[c].held) /\ call'[c].pc # "commit"
    BY <1>3, CallMoves, IdleFields DEF JudgeResult, SaveResult, Mark
  <2> QED BY <1>3, <2>1 DEF JudgeResult, SaveResult, Mark, rows
<1>4. CASE CheckAccept(c)
  <2>1. PICK q \in Quantities :
          \/ call' = [call EXCEPT ![c].pc = "commit", ![c].order = [side |-> draft[c].side, qty |-> q]]
          \/ Finish(c)
    BY <1>4 DEF CheckAccept
  <2>2. [side |-> draft[c].side, qty |-> q] \in Orders
    BY DEF Reviews, SomeOrders, Orders
  <2> DEFINE order == [side |-> draft[c].side, qty |-> q]
  <2> HIDE DEF order
  <2>3. CASE call' = [call EXCEPT ![c].pc = "commit", ![c].order = order]
    BY <1>4, <2>2, <2>3 DEF CheckAccept, rows, CallStates, order
  <2>4. CASE Finish(c)
    BY <1>4, <2>4, CallMoves, IdleFields DEF CheckAccept, rows
  <2> QED BY <2>1, <2>3, <2>4 DEF order
<1> QED BY <1>2, <1>3, <1>4 DEF ReviewStep

-----------------------------------------------------------------------------
\* A call that ends has no draft.
LEMMA EndedSound ==
    ASSUME TypeOK, NEW c \in Calls, Finish(c), Forget(c)
    PROVE  DraftSound(c)'
<1>1. call'[c] = IdleCall /\ draft'[c] = NoReview
  BY CallMoves DEF Forget, TypeOK
<1> QED BY <1>1 DEF DraftSound, IdleCall, NoReview

\* A call that goes on keeps the draft it has.
LEMMA DraftKept ==
    ASSUME TypeOK, NEW c \in Calls, Forget(c)
    PROVE  /\ call'[c].pc # "idle" => draft'[c] = draft[c]
           /\ draft'[c] = draft[c] \/ draft'[c].acceptance = "open"
BY DEF Forget, TypeOK, IdleCall, NoReview

LEMMA BookStepDraft ==
    ASSUME TypeOK, BooksSound, NEW c \in Calls, DraftSound(c), BookStep(c), Forget(c)
    PROVE  DraftSound(c)'
<1> USE DEF TypeOK
<1>1. CASE BeginTrade(c) \/ BeginValuation(c) \/ BeginRename(c) \/ BeginEdit(c)
  <2>1. BeginTrade(c) => call'[c].kind = "trade" /\ call'[c].pc = "commit"
    BY DEF BeginTrade, Begin, IdleCall
  <2>2. BeginValuation(c) => call'[c].kind = "valuation" /\ call'[c].pc = "value"
    BY DEF BeginValuation, Begin, IdleCall
  <2>3. BeginRename(c) => call'[c].kind = "rename" /\ call'[c].pc = "rename"
    BY DEF BeginRename, Begin, IdleCall
  <2>4. BeginEdit(c) => call'[c].kind = "edit" /\ call'[c].pc = "edit"
    BY DEF BeginEdit, Begin, IdleCall
  <2> QED BY <1>1, <2>1, <2>2, <2>3, <2>4, DraftKept DEF DraftSound
<1>2. CASE CommitTrade(c)
  <2> DEFINE by == IF call[c].kind = "trade" THEN "operator" ELSE "review"
  <2>1. call[c].order \in Orders /\ Commit(call[c].order, by) /\ call[c].pc = "commit"
    BY <1>2 DEF CommitTrade, At, BooksSound
  <2>2. call'[c].pc = "value" /\ call'[c].row = Len(trades') /\ call'[c].kind = call[c].kind
    BY <1>2 DEF CommitTrade, CallStates
  <2>3. draft'[c] = draft[c]
    BY <2>2, DraftKept
  <2>4. Len(trades') \in DOMAIN trades' /\ trades'[Len(trades')] = [side |-> call[c].order.side, qty |-> call[c].order.qty, by |-> by]
    BY <2>1, CommitTypes
  <2>5. call[c].kind = "accept" => Traded(call[c].row, draft[c].side)'
    BY <2>1, <2>2, <2>3, <2>4 DEF Traded, DraftSound
  <2> QED BY <2>2, <2>3, <2>5 DEF DraftSound
<1>3. CASE ReadHoldings(c)
  <2>1. call'[c].pc = "quotes" /\ call'[c].kind = call[c].kind /\ call'[c].row = call[c].row /\ call[c].pc = "value"
    BY <1>3 DEF ReadHoldings, At, CallStates
  <2>2. draft'[c] = draft[c] /\ trades' = trades
    BY <1>3, <2>1, DraftKept DEF ReadHoldings, rows
  <2> QED BY <2>1, <2>2 DEF DraftSound, Traded
<1>4. ASSUME call[c].kind = "accept", Goto(c, "mark"), call[c].pc \in {"value", "quotes"}, trades' = trades
      PROVE  DraftSound(c)'
  <2>1. call'[c].pc = "mark" /\ call'[c].kind = "accept" /\ call'[c].row = call[c].row
    BY <1>4 DEF Goto, CallStates
  <2>2. draft'[c] = draft[c]
    BY <2>1, DraftKept
  <2> QED BY <1>4, <2>1, <2>2 DEF DraftSound, Traded
<1>5. CASE SaveValuation(c) \/ ValuationFails(c)
  <2>1. AfterValuation(c) /\ call[c].pc \in {"value", "quotes"} /\ trades' = trades
    BY <1>5 DEF SaveValuation, ValuationFails, At, rows
  <2> QED BY <1>4, <2>1, EndedSound DEF AfterValuation
<1>6. CASE RefuseTrade(c) \/ SaveRename(c) \/ SaveEdit(c) \/ Abort(c)
  BY <1>6, EndedSound DEF RefuseTrade, SaveRename, SaveEdit, Abort
<1> QED BY <1>1, <1>2, <1>3, <1>5, <1>6 DEF BookStep

LEMMA ReviewStepDraft ==
    ASSUME TypeOK, NEW c \in Calls, DraftSound(c), AcceptedIsTraded, ReviewStep(c)
    PROVE  DraftSound(c)' /\ AcceptedIsTraded'
<1> USE DEF TypeOK
<1>1. trades' = trades
  BY DEF ReviewStep, BeginSave, JudgeResult, SaveResult, BeginDecision, CheckAccept, Mark, rows
<1>2. UNCHANGED review => AcceptedIsTraded'
  BY <1>1 DEF AcceptedIsTraded
<1>3. CASE BeginSave(c)
  <2>1. call'[c].kind = "save" /\ call'[c].pc = "judge"
    BY <1>3 DEF BeginSave, Begin, IdleCall
  <2> QED BY <1>2, <1>3, <2>1 DEF BeginSave, reviewVars, DraftSound
<1>4. CASE JudgeResult(c)
  <2>1. call'[c].pc = "result"
    BY <1>4 DEF JudgeResult, Goto, CallStates
  <2>2. draft'[c].acceptance = "open"
    <3>1. \A side, guard : Proposed(side, guard).acceptance = "open"
      BY DEF Proposed, NoReview
    <3>2. CASE draft' = [draft EXCEPT ![c] = NoReview]
      BY <3>2 DEF NoReview
    <3>3. ASSUME NEW side, NEW guard, draft' = [draft EXCEPT ![c] = Proposed(side, guard)]
          PROVE  draft'[c].acceptance = "open"
      BY <3>1, <3>3
    <3> QED BY <1>4, <3>2, <3>3 DEF JudgeResult
  <2> QED BY <1>2, <1>4, <2>1, <2>2 DEF JudgeResult, DraftSound
<1>5. CASE SaveResult(c)
  BY <1>5, EndedSound DEF SaveResult, DraftSound, AcceptedIsTraded
<1>6. ASSUME NEW kind \in {"accept", "reject", "defer"}, BeginDecision(c, kind) PROVE DraftSound(c)' /\ AcceptedIsTraded'
  <2>1. call'[c].kind = kind /\ call'[c].pc = IF kind = "accept" THEN "check" ELSE "mark"
    BY <1>6 DEF BeginDecision, Begin, IdleCall
  <2>2. draft'[c].acceptance # "accepted"
    BY <1>6 DEF BeginDecision, Actionable, Terminal, Decisions
  <2> QED BY <1>2, <1>6, <2>1, <2>2 DEF BeginDecision, DraftSound
<1>7. CASE CheckAccept(c)
  <2>1. PICK q \in Quantities :
          \/ call' = [call EXCEPT ![c].pc = "commit", ![c].order = [side |-> draft[c].side, qty |-> q]]
          \/ Finish(c)
    BY <1>7 DEF CheckAccept
  <2>2. Forget(c) /\ UNCHANGED review
    BY <1>7 DEF CheckAccept
  <2> DEFINE order == [side |-> draft[c].side, qty |-> q]
  <2>3. order.side = draft[c].side
    OBVIOUS
  <2> HIDE DEF order
  <2>4. CASE call' = [call EXCEPT ![c].pc = "commit", ![c].order = order]
    <3>1. call'[c].pc = "commit" /\ call'[c].order = order
      BY <2>4 DEF CallStates
    <3> QED BY <1>2, <2>2, <2>3, <3>1, DraftKept DEF DraftSound
  <2> QED BY <1>2, <2>1, <2>2, <2>4, EndedSound DEF order
<1>8. CASE Mark(c)
  <2>1. call[c].pc = "mark" /\ review' = [draft[c] EXCEPT !.acceptance = DecisionOf(call[c].kind), !.row = call[c].row]
    BY <1>8 DEF Mark, At
  <2>2. review'.acceptance = DecisionOf(call[c].kind) /\ review'.row = call[c].row /\ review'.side = draft[c].side
    BY <2>1 DEF Reviews
  <2>3. call[c].kind \in {"accept", "reject", "defer"} /\ (DecisionOf(call[c].kind) = "accepted" => call[c].kind = "accept")
    BY <2>1 DEF DraftSound, DecisionOf
  <2>4. AcceptedIsTraded'
    BY <1>1, <2>1, <2>2, <2>3 DEF DraftSound, Traded, AcceptedIsTraded
  <2> QED BY <1>8, <2>4, EndedSound DEF Mark
<1> QED BY <1>3, <1>4, <1>5, <1>6, <1>7, <1>8 DEF ReviewStep

LEMMA ReviewInvInit == Init => ReviewInv
<1> SUFFICES ASSUME Init PROVE ReviewInv
  OBVIOUS
<1> USE DEF Init, BookInit, ReviewInit
<1>1. TypeOK
  <2>1. trades \in Seq([side : Sides, qty : Quantities, by : {"operator", "review"}]) /\ Len(trades) = 0
    OBVIOUS
  <2>2. call \in [Calls -> CallStates] /\ draft \in [Calls -> Reviews]
    BY ConstantTypes
  <2>3. {mixed, renamed, cut} \subseteq BOOLEAN
    OBVIOUS
  <2>4. cash \in Int /\ holding \in Holdings /\ review \in Reviews /\ Len(trades) <= MaxTrades
    BY <2>1, ConstantTypes
  <2> QED BY <2>1, <2>2, <2>3, <2>4 DEF TypeOK
<1>2. BooksSound
  BY IdleFields DEF BooksSound
<1>3. (\A c \in Calls : DraftSound(c)) /\ AcceptedIsTraded
  BY DEF DraftSound, IdleCall, NoReview, AcceptedIsTraded
<1> QED BY <1>1, <1>2, <1>3 DEF ReviewInv

LEMMA ReviewInvStep == ReviewInv /\ [Next]_vars => ReviewInv'
<1> SUFFICES ASSUME ReviewInv, [Next]_vars PROVE ReviewInv'
  OBVIOUS
<1>1. TypeOK /\ BooksSound /\ (\A c \in Calls : DraftSound(c)) /\ AcceptedIsTraded
  BY DEF ReviewInv
<1>2. ASSUME NEW c \in Calls, ReviewStep(c) \/ (BookStep(c) /\ Forget(c) /\ UNCHANGED review)
      PROVE  ReviewInv'
  <2>1. TypeOK'
    BY <1>1, <1>2, ReviewStepTypes, BookStepTypes
  <2>2. HeldOrGone(holding') /\ HeldOrGone(call'[c].held) /\ (call'[c].pc = "commit" => call'[c].order \in Orders)
    BY <1>1, <1>2, ReviewStepSound, BookStepSound
  <2>3. \A d \in Calls \ {c} : call'[d] = call[d] /\ draft'[d] = draft[d]
    BY <1>1, <1>2, OnlyOwnState
  <2>4. \A n \in DOMAIN trades : n \in DOMAIN trades' /\ trades'[n] = trades[n]
    BY <1>1, <1>2, TradesStay
  <2>5. BooksSound'
    BY <1>1, <2>2, <2>3 DEF BooksSound
  <2>6. DraftSound(c)'
    BY <1>1, <1>2, ReviewStepDraft, BookStepDraft
  <2>7. \A d \in Calls \ {c} : DraftSound(d)'
    BY <1>1, <2>3, <2>4 DEF DraftSound, Traded
  <2>8. AcceptedIsTraded'
    <3>1. CASE ReviewStep(c)
      BY <1>1, <3>1, ReviewStepDraft
    <3>2. CASE UNCHANGED review
      BY <1>1, <2>4, <3>2 DEF AcceptedIsTraded
    <3> QED BY <1>2, <3>1, <3>2
  <2> QED BY <2>1, <2>5, <2>6, <2>7, <2>8 DEF ReviewInv
<1>3. CASE UNCHANGED vars
  BY <1>1, <1>3 DEF vars, bookVars, reviewVars, ReviewInv, TypeOK, BooksSound, DraftSound, Traded, AcceptedIsTraded
<1> QED BY <1>2, <1>3 DEF Next

\* Every variable keeps its type, whatever calls overlap or are cut short.
THEOREM ReviewTypes == Spec => []TypeOK
<1>1. ReviewInv => TypeOK
  BY DEF ReviewInv
<1> QED BY <1>1, ReviewInvInit, ReviewInvStep, PTL DEF Spec

\* AcceptOperationReview marks a review only after RecordTransaction has
\* committed, and no other writer brings an accepted row with it: an accepted
\* review names a transaction of its own side.
THEOREM AcceptedTraded == Spec => []AcceptedIsTraded
<1>1. ReviewInv => AcceptedIsTraded
  BY DEF ReviewInv
<1> QED BY <1>1, ReviewInvInit, ReviewInvStep, PTL DEF Spec

\* RecordTransaction checks the quantity where it takes it away: no row is
\* oversold or left at zero, though valuations write stale rows over new ones.
THEOREM HoldingPositive == Spec => []NeverOversold
<1>1. ReviewInv => NeverOversold
  BY DEF ReviewInv, BooksSound, HeldOrGone, NeverOversold
<1> QED BY <1>1, ReviewInvInit, ReviewInvStep, PTL DEF Spec

-----------------------------------------------------------------------------
\* The refinement: while nothing overlaps, what the one call in flight has read
\* of the books is what is there, so writing it back changes nothing.

\* What a call may be at once it has begun, moved on or ended.
OwnSound(c) ==
    /\ (call[c].kind = "none" <=> call[c].pc = "idle")
    /\ ~mixed /\ call[c].pc \in {"quotes", "edit"} => call[c].held = holding
    /\ ~mixed /\ call[c].pc = "rename" => call[c].cash = cash

LEMMA EndedOwn == ASSUME TypeOK, NEW c \in Calls, Finish(c) PROVE OwnSound(c)' /\ call'[c].pc = "idle"
BY CallMoves, IdleFields DEF OwnSound

\* A call that is begun while others are in flight leaves the history mixed.
LEMMA BegunAlone ==
    ASSUME TypeOK, Alone, NEW c \in Calls, NEW kind, NEW local, Begin(c, kind, local), ~mixed'
    PROVE  ~mixed /\ \A d \in Calls : call[d].pc = "idle"
<1>1. ~mixed /\ InFlight(c) = {} /\ call[c].pc = "idle"
  BY DEF Begin, Idle, TypeOK
<1>2. \A d \in Calls \ {c} : call[d].kind = "none"
  BY <1>1 DEF InFlight
<1> QED BY <1>1, <1>2 DEF Alone

LEMMA BookStepAlone ==
    ASSUME TypeOK, BooksSound, Alone, NEW c \in Calls, BookStep(c)
    PROVE  /\ OwnSound(c)'
           /\ ~mixed' => /\ ~mixed
                         /\ call[c].pc = "idle" => \A d \in Calls : call[d].pc = "idle"
           /\ ~mixed' => [Ledger!Next]_(Ledger!vars)
<1> USE DEF TypeOK
<1>1. ASSUME NEW kind, NEW local, Begin(c, kind, local)
      PROVE  ~mixed' => ~mixed /\ \A d \in Calls : call[d].pc = "idle"
  BY <1>1, BegunAlone
<1>2. UNCHANGED rows => UNCHANGED Ledger!vars
  BY DEF rows, Ledger!vars
<1>3. CASE BeginTrade(c)
  <2>1. OwnSound(c)'
    BY <1>3 DEF BeginTrade, Begin, IdleCall, OwnSound
  <2> QED BY <1>1, <1>2, <1>3, <2>1 DEF BeginTrade
<1>4. CASE BeginValuation(c)
  <2>1. OwnSound(c)'
    BY <1>4 DEF BeginValuation, Begin, IdleCall, OwnSound
  <2> QED BY <1>1, <1>2, <1>4, <2>1 DEF BeginValuation
<1>5. CASE BeginRename(c)
  <2>1. OwnSound(c)'
    BY <1>5 DEF BeginRename, Begin, IdleCall, OwnSound, rows
  <2> QED BY <1>1, <1>2, <1>5, <2>1 DEF BeginRename
<1>6. CASE BeginEdit(c)
  <2>1. OwnSound(c)'
    BY <1>6 DEF BeginEdit, Begin, IdleCall, OwnSound, rows
  <2> QED BY <1>1, <1>2, <1>6, <2>1 DEF BeginEdit
<1>7. CASE CommitTrade(c)
  <2>1. call[c].pc = "commit" /\ UNCHANGED history
        /\ Commit(call[c].order, IF call[c].kind = "trade" THEN "operator" ELSE "review")
    BY <1>7 DEF CommitTrade, At
  <2>2. call'[c].pc = "value" /\ call'[c].kind = call[c].kind
    BY <1>7 DEF CommitTrade, CallStates
  <2>3. OwnSound(c)'
    BY <2>1, <2>2 DEF OwnSound, Alone
  <2>4. Ledger!Next
    <3> DEFINE order == call[c].order
               by == IF call[c].kind = "trade" THEN "operator" ELSE "review"
    <3>1. order \in Orders /\ Commit(order, by) /\ by \in {"operator", "review"}
      BY <2>1 DEF BooksSound
    <3> HIDE DEF order, by
    <3>2. order.side \in Sides /\ order.qty \in Quantities /\ order.qty \in Int
      <4>1. \A o \in Orders : o.side \in Sides /\ o.qty \in Quantities
        BY DEF Orders
      <4>2. order.side \in Sides /\ order.qty \in Quantities
        BY <3>1, <4>1
      <4>3. \A n \in Quantities : n \in Int
        BY BookConstants
      <4> QED BY <4>2, <4>3
    <3>3. order.side = "sell" => order.qty <= holding.qty
      BY <3>1, <3>2 DEF Commit, Covered, Holdings
    <3>4. holding'.qty = holding.qty + (IF order.side = "sell" THEN -order.qty ELSE order.qty)
      BY <3>1, <3>2 DEF Commit, Covered, Sold, Bought, Holdings, NoHolding
    <3>5. Ledger!Trade(order.side, order.qty)
      BY <3>1, <3>2, <3>3, <3>4 DEF Commit, Ledger!Trade
    <3> QED BY <3>2, <3>5 DEF Ledger!Next, Sides
  <2> QED BY <2>1, <2>3, <2>4 DEF history
<1>8. CASE RefuseTrade(c)
  BY <1>2, <1>8, EndedOwn DEF RefuseTrade, At, history
<1>9. CASE ReadHoldings(c)
  <2>1. call'[c].pc = "quotes" /\ call'[c].held = holding /\ call'[c].kind = call[c].kind /\ call[c].pc = "value"
    BY <1>9 DEF ReadHoldings, At, CallStates
  <2>2. OwnSound(c)'
    BY <1>9, <2>1 DEF ReadHoldings, OwnSound, Alone, rows
  <2> QED BY <1>2, <1>9, <2>1, <2>2 DEF ReadHoldings, history
<1>10. ASSUME AfterValuation(c), call[c].pc \in {"value", "quotes"} PROVE OwnSound(c)'
  <2>1. CASE Finish(c)
    BY <2>1, EndedOwn
  <2>2. CASE call[c].kind = "accept" /\ Goto(c, "mark")
    BY <2>2, CallMoves DEF OwnSound, Goto, CallStates
  <2> QED BY <1>10, <2>1, <2>2 DEF AfterValuation
<1>11. ASSUME call[c].pc \in {"quotes", "edit"}, WriteBack(call[c].held), ~mixed PROVE holding' = holding
  BY <1>11 DEF WriteBack, Alone
<1>12. CASE SaveValuation(c)
  BY <1>10, <1>11, <1>12 DEF SaveValuation, At, history, Ledger!vars
<1>13. CASE ValuationFails(c)
  BY <1>2, <1>10, <1>13 DEF ValuationFails, history
<1>14. CASE SaveRename(c)
  <2>1. ~mixed => cash' = cash
    BY <1>14 DEF SaveRename, At, Alone
  <2> QED BY <1>14, <2>1, EndedOwn DEF SaveRename, At, history, Ledger!vars
<1>15. CASE SaveEdit(c)
  BY <1>11, <1>15, EndedOwn DEF SaveEdit, At, history, Ledger!vars
<1>16. CASE Abort(c)
  BY <1>2, <1>16, EndedOwn DEF Abort, Idle
<1> QED BY <1>3, <1>4, <1>5, <1>6, <1>7, <1>8, <1>9, <1>12, <1>13, <1>14, <1>15, <1>16 DEF BookStep

LEMMA ReviewStepAlone ==
    ASSUME TypeOK, Alone, NEW c \in Calls, DraftSound(c), ReviewStep(c)
    PROVE  /\ OwnSound(c)'
           /\ ~mixed' => /\ ~mixed
                         /\ call[c].pc = "idle" => \A d \in Calls : call[d].pc = "idle"
           /\ UNCHANGED rows
<1> USE DEF TypeOK
<1>1. ASSUME NEW kind, NEW local, Begin(c, kind, local)
      PROVE  ~mixed' => ~mixed /\ \A d \in Calls : call[d].pc = "idle"
  BY <1>1, BegunAlone
<1>2. CASE BeginSave(c)
  <2>1. OwnSound(c)'
    BY <1>2 DEF BeginSave, Begin, IdleCall, OwnSound
  <2> QED BY <1>1, <1>2, <2>1 DEF BeginSave
<1>3. ASSUME NEW kind \in {"accept", "reject", "defer"}, BeginDecision(c, kind)
      PROVE  OwnSound(c)' /\ UNCHANGED rows /\ (~mixed' => ~mixed /\ \A d \in Calls : call[d].pc = "idle")
  <2>1. OwnSound(c)'
    BY <1>3 DEF BeginDecision, Begin, IdleCall, OwnSound
  <2> QED BY <1>1, <1>3, <2>1 DEF BeginDecision
<1>4. CASE JudgeResult(c)
  <2>1. call'[c].pc = "result" /\ call'[c].kind = call[c].kind /\ call[c].pc = "judge"
    BY <1>4 DEF JudgeResult, Goto, At, CallStates
  <2> QED BY <1>4, <2>1 DEF JudgeResult, OwnSound, Alone, history
<1>5. CASE SaveResult(c) \/ Mark(c)
  BY <1>5, EndedOwn DEF SaveResult, Mark, At, history
<1>6. CASE CheckAccept(c)
  <2>1. PICK q \in Quantities :
          \/ call' = [call EXCEPT ![c].pc = "commit", ![c].order = [side |-> draft[c].side, qty |-> q]]
          \/ Finish(c)
    BY <1>6 DEF CheckAccept
  <2>2. call[c].pc = "check" /\ UNCHANGED <<rows, history>>
    BY <1>6 DEF CheckAccept, At
  <2> DEFINE order == [side |-> draft[c].side, qty |-> q]
  <2> HIDE DEF order
  <2>3. CASE call' = [call EXCEPT ![c].pc = "commit", ![c].order = order]
    <3>1. call'[c].pc = "commit" /\ call'[c].kind = call[c].kind
      BY <2>3 DEF CallStates
    <3> QED BY <2>2, <3>1 DEF OwnSound, Alone, history
  <2> QED BY <2>1, <2>2, <2>3, EndedOwn DEF order, history
<1> QED BY <1>2, <1>3, <1>4, <1>5, <1>6 DEF ReviewStep

LEMMA AloneInit == Init => Alone
BY IdleFields DEF Init, BookInit, Alone, IdleCall

LEMMA AloneStep ==
    ASSUME ReviewInv, Alone, [Next]_vars
    PROVE  Alone' /\ [~mixed' => [Ledger!Next]_(Ledger!vars)]_(Ledger!vars)
<1>1. TypeOK /\ BooksSound /\ \A c \in Calls : DraftSound(c)
  BY DEF ReviewInv
<1>2. ASSUME NEW c \in Calls, ReviewStep(c) \/ (BookStep(c) /\ Forget(c) /\ UNCHANGED review)
      PROVE  Alone' /\ (~mixed' => [Ledger!Next]_(Ledger!vars))
  <2>1. OwnSound(c)' /\ (~mixed' => ~mixed /\ (call[c].pc = "idle" => \A d \in Calls : call[d].pc = "idle"))
    BY <1>1, <1>2, ReviewStepAlone, BookStepAlone
  <2>2. ~mixed' => [Ledger!Next]_(Ledger!vars)
    BY <1>1, <1>2, ReviewStepAlone, BookStepAlone DEF rows, Ledger!vars
  <2>3. \A d \in Calls \ {c} : call'[d] = call[d]
    BY <1>1, <1>2, OnlyOwnState
  <2>4. call[c].pc # "idle" \/ (~mixed' => \A d \in Calls : call[d].pc = "idle")
    BY <2>1
  <2>5. ~mixed' => \A d \in Calls \ {c} : call'[d].pc = "idle"
    BY <2>1, <2>3, <2>4 DEF Alone
  <2>6. Alone'
    BY <2>1, <2>3, <2>5 DEF Alone, OwnSound
  <2> QED BY <2>2, <2>6
<1>3. CASE UNCHANGED vars
  BY <1>3 DEF vars, bookVars, Alone, Ledger!vars
<1> QED BY <1>2, <1>3 DEF Next

\* Until two calls overlap the books implement the ledger of types.go: cash and
\* holding move only in the step that writes a transaction row, whatever is cut
\* short between the transaction, the valuation and the write-back.
THEOREM BooksAreLedger == Spec => LedgerUntilOverlap
<1>1. Init => Ledger!Init
  BY DEF Init, BookInit, NoHolding, Ledger!Init
<1>2. ReviewInv /\ Alone /\ [Next]_vars => Alone' /\ [~mixed' => [Ledger!Next]_(Ledger!vars)]_(Ledger!vars)
  BY AloneStep
<1> QED BY <1>1, <1>2, ReviewInvInit, ReviewInvStep, AloneInit, PTL DEF Spec, LedgerUntilOverlap

-----------------------------------------------------------------------------
\* CashFollowsTrades. The sum over the transactions is a recursive function; the
\* invariant says that there is such a function and that each one ends in the cash, so
\* that a new transaction extends it and nothing needs induction over the rows.

IsSum(b) == b = [n \in 0 .. Len(trades) |-> IF n = 0 THEN InitialCash ELSE b[n - 1] + Signed(trades[n])]

Summed == (\E b : IsSum(b)) /\ \A b : IsSum(b) => b[Len(trades)] = cash

\* Until an edit of the portfolio overlaps, one that is in flight is alone, and the
\* cash it has read is still there.
EditAlone ==
    /\ \A c \in Calls : /\ (call[c].kind = "none" <=> call[c].pc = "idle")
                        /\ (call[c].kind = "rename" <=> call[c].pc = "rename")
    /\ ~renamed => \A c \in Calls : call[c].kind = "rename" =>
                        /\ call[c].cash = cash
                        /\ \A d \in Calls : call[d].kind # "none" => d = c

CashInv == EditAlone /\ (~renamed => Summed)

LEMMA SumMeansCash == Summed => CashByTrades = cash
BY DEF Summed, IsSum, CashByTrades

\* No transactions, the initial cash.
LEMMA EmptySum == ASSUME trades = <<>>, cash = InitialCash PROVE Summed
<1>1. Len(trades) = 0 /\ 0 .. Len(trades) = {0}
  OBVIOUS
<1> DEFINE f == [n \in 0 .. Len(trades) |-> InitialCash]
<1>2. IsSum(f)
  BY <1>1 DEF IsSum
<1>3. \A b : IsSum(b) => b[Len(trades)] = cash
  BY <1>1 DEF IsSum
<1> QED BY <1>2, <1>3 DEF Summed

\* One more transaction, and its amount on the cash.
LEMMA SumGrows ==
    ASSUME TypeOK, Summed, NEW t \in Books, trades' = Append(trades, t), cash' = cash + Signed(t)
    PROVE  Summed'
<1> DEFINE N == Len(trades)
<1>1. N \in Nat /\ Len(trades') = N + 1 /\ trades'[N + 1] = t /\ \A n \in 1 .. N : trades'[n] = trades[n]
  BY DEF TypeOK, Books
<1> HIDE DEF N
<1>2. \E b : IsSum(b)'
  <2>1. PICK b : IsSum(b)
    BY DEF Summed
  <2> DEFINE f == [n \in 0 .. N + 1 |-> IF n = N + 1 THEN cash' ELSE b[n]]
  <2>2. b[N] = cash
    BY <2>1 DEF Summed, N
  <2>3. ASSUME NEW n \in 0 .. N + 1
        PROVE  f[n] = IF n = 0 THEN InitialCash ELSE f[n - 1] + Signed(trades'[n])
    <3>1. CASE n = N + 1
      BY <1>1, <2>2, <3>1
    <3>2. CASE n # N + 1
      <4>1. n \in 0 .. N /\ f[n] = b[n] /\ (n # 0 => n \in 1 .. N /\ f[n - 1] = b[n - 1])
        BY <1>1, <3>2
      <4>2. b[n] = IF n = 0 THEN InitialCash ELSE b[n - 1] + Signed(trades[n])
        BY <2>1, <4>1 DEF IsSum, N
      <4> QED BY <1>1, <4>1, <4>2
    <3> QED BY <3>1, <3>2
  <2>4. f = [n \in 0 .. N + 1 |-> IF n = 0 THEN InitialCash ELSE f[n - 1] + Signed(trades'[n])]
    BY <2>3
  <2> QED BY <1>1, <2>4 DEF IsSum
<1>3. ASSUME NEW b, IsSum(b)' PROVE b[Len(trades')] = cash'
  <2> DEFINE f == [n \in 0 .. N |-> b[n]]
  <2>1. \A n \in 0 .. N + 1 : b[n] = IF n = 0 THEN InitialCash ELSE b[n - 1] + Signed(trades'[n])
    BY <1>1, <1>3 DEF IsSum
  <2>2. ASSUME NEW n \in 0 .. N
        PROVE  f[n] = IF n = 0 THEN InitialCash ELSE f[n - 1] + Signed(trades[n])
    <3>1. b[n] = IF n = 0 THEN InitialCash ELSE b[n - 1] + Signed(trades'[n])
      BY <1>1, <2>1
    <3>2. n # 0 => n - 1 \in 0 .. N /\ n \in 1 .. N
      BY <1>1
    <3> QED BY <1>1, <3>1, <3>2
  <2>3. f = [n \in 0 .. N |-> IF n = 0 THEN InitialCash ELSE f[n - 1] + Signed(trades[n])]
    BY <2>2
  <2>4. f[N] = cash
    BY <2>3 DEF IsSum, Summed, N
  <2> QED BY <1>1, <2>1, <2>4
<1> QED BY <1>2, <1>3 DEF Summed

\* A call comes in: what it is, and whether an edit now overlaps.
Begun(c) ==
    /\ call[c].pc = "idle" /\ call'[c].kind # "none" /\ call'[c].pc # "idle"
    /\ (call'[c].kind = "rename" <=> call'[c].pc = "rename")
    /\ call'[c].kind = "rename" => call'[c].cash = cash
    /\ renamed' = (renamed \/ (InFlight(c) # {} /\ "rename" \in InFlight(c) \cup {call'[c].kind}))
    /\ UNCHANGED <<cash, trades>>

\* A call ends or goes on as what it is.
Continued(c) ==
    /\ call[c].pc # "idle" /\ renamed' = renamed
    /\ \/ call'[c] = IdleCall
       \/ call'[c].kind = call[c].kind /\ call[c].pc # "rename" /\ call'[c].pc \notin {"idle", "rename"}
    /\ \/ UNCHANGED <<cash, trades>>
       \/ CommitTrade(c)
       \/ call[c].pc = "rename" /\ cash' = call[c].cash /\ UNCHANGED trades

LEMMA BookStepShape ==
    ASSUME TypeOK, NEW c \in Calls, BookStep(c)
    PROVE  Begun(c) \/ Continued(c)
<1> USE DEF TypeOK
<1>1. CASE BeginTrade(c) \/ BeginValuation(c) \/ BeginRename(c) \/ BeginEdit(c)
  <2>1. BeginTrade(c) => Begun(c)
    BY DEF BeginTrade, Begin, Idle, IdleCall, Begun, rows
  <2>2. BeginValuation(c) => Begun(c)
    BY DEF BeginValuation, Begin, Idle, IdleCall, Begun, rows
  <2>3. BeginRename(c) => Begun(c)
    BY DEF BeginRename, Begin, Idle, IdleCall, Begun, rows
  <2>4. BeginEdit(c) => Begun(c)
    BY DEF BeginEdit, Begin, Idle, IdleCall, Begun, rows
  <2> QED BY <1>1, <2>1, <2>2, <2>3, <2>4
<1>2. CASE CommitTrade(c)
  BY <1>2 DEF CommitTrade, At, history, Continued, CallStates
<1>3. CASE ReadHoldings(c)
  BY <1>3 DEF ReadHoldings, At, rows, history, Continued, CallStates
<1>4. CASE RefuseTrade(c) \/ SaveRename(c) \/ SaveEdit(c) \/ Abort(c)
  BY <1>4, CallMoves DEF RefuseTrade, SaveRename, SaveEdit, Abort, At, Idle, rows, history, Continued
<1>5. CASE SaveValuation(c) \/ ValuationFails(c)
  <2>1. AfterValuation(c) /\ call[c].pc \in {"value", "quotes"} /\ UNCHANGED <<cash, trades, history>>
    BY <1>5 DEF SaveValuation, ValuationFails, At, rows
  <2>2. call'[c] = IdleCall \/ (call'[c].kind = call[c].kind /\ call'[c].pc = "mark")
    BY <2>1, CallMoves DEF AfterValuation
  <2> QED BY <2>1, <2>2 DEF Continued, history
<1> QED BY <1>1, <1>2, <1>3, <1>4, <1>5 DEF BookStep

LEMMA ReviewStepShape ==
    ASSUME TypeOK, NEW c \in Calls, ReviewStep(c)
    PROVE  Begun(c) \/ Continued(c)
<1> USE DEF TypeOK
<1>1. BeginSave(c) => Begun(c)
  BY DEF BeginSave, Begin, Idle, IdleCall, Begun, rows
<1>2. ASSUME NEW kind \in {"accept", "reject", "defer"}, BeginDecision(c, kind) PROVE Begun(c)
  BY <1>2 DEF BeginDecision, Begin, Idle, IdleCall, Begun, rows
<1>3. CASE JudgeResult(c)
  <2>1. call'[c].kind = call[c].kind /\ call'[c].pc = "result" /\ call[c].pc = "judge"
    BY <1>3, CallMoves DEF JudgeResult, At
  <2> QED BY <1>3, <2>1 DEF JudgeResult, rows, history, Continued
<1>4. CASE SaveResult(c) \/ Mark(c)
  BY <1>4, CallMoves DEF SaveResult, Mark, At, rows, history, Continued
<1>5. CASE CheckAccept(c)
  <2>1. PICK q \in Quantities :
          \/ call' = [call EXCEPT ![c].pc = "commit", ![c].order = [side |-> draft[c].side, qty |-> q]]
          \/ Finish(c)
    BY <1>5 DEF CheckAccept
  <2> DEFINE order == [side |-> draft[c].side, qty |-> q]
  <2> HIDE DEF order
  <2>2. CASE call' = [call EXCEPT ![c].pc = "commit", ![c].order = order]
    <3>1. call'[c].pc = "commit" /\ call'[c].kind = call[c].kind
      BY <2>2 DEF CallStates
    <3> QED BY <1>5, <3>1 DEF CheckAccept, At, rows, history, Continued
  <2>3. CASE Finish(c)
    BY <1>5, <2>3, CallMoves DEF CheckAccept, At, rows, history, Continued
  <2> QED BY <2>1, <2>2, <2>3 DEF order
<1> QED BY <1>1, <1>2, <1>3, <1>4, <1>5 DEF ReviewStep

LEMMA CashInit == Init => CashInv
<1> SUFFICES ASSUME Init PROVE CashInv
  OBVIOUS
<1>1. EditAlone
  BY DEF Init, BookInit, IdleCall, EditAlone
<1>2. Summed
  BY EmptySum DEF Init, BookInit
<1> QED BY <1>1, <1>2 DEF CashInv

LEMMA EditAloneStep ==
    ASSUME TypeOK, EditAlone, NEW c \in Calls, Begun(c) \/ Continued(c),
           \A d \in Calls \ {c} : call'[d] = call[d]
    PROVE  EditAlone'
<1> DEFINE Labelled(d) == /\ (call'[d].kind = "none" <=> call'[d].pc = "idle")
                          /\ (call'[d].kind = "rename" <=> call'[d].pc = "rename")
<1>1. Labelled(c)
  BY IdleFields DEF Begun, Continued, EditAlone
<1>2. \A d \in Calls : Labelled(d)
  BY <1>1 DEF EditAlone
<1>3. ASSUME ~renamed', NEW d \in Calls, call'[d].kind = "rename"
      PROVE  call'[d].cash = cash' /\ \A e \in Calls : call'[e].kind # "none" => e = d
  <2>1. CASE Begun(c)
    <3>1. ~renamed
      BY <1>3, <2>1 DEF Begun
    <3>2. InFlight(c) = {} \/ ~("rename" \in InFlight(c) \cup {call'[c].kind})
      BY <1>3, <2>1 DEF Begun
    <3>3. CASE d = c
      <4>1. InFlight(c) = {}
        BY <1>3, <3>2, <3>3
      <4>2. \A e \in Calls \ {c} : call[e].kind = "none"
        BY <4>1 DEF InFlight
      <4> QED BY <1>3, <2>1, <3>3, <4>2 DEF Begun
    <3>4. CASE d # c
      <4>1. call[d].kind = "rename" /\ "rename" \in InFlight(c)
        BY <1>3, <3>4 DEF InFlight
      <4> QED BY <3>2, <4>1
    <3> QED BY <3>3, <3>4
  <2>2. CASE Continued(c)
    <3>1. ~renamed /\ call[c].kind # "none"
      BY <1>3, <2>2 DEF Continued, EditAlone
    <3>2. d # c
      BY <1>3, <2>2, IdleFields DEF Continued, EditAlone
    <3>3. call[d].kind = "rename"
      BY <1>3, <3>2
    <3>4. c = d
      BY <3>1, <3>3 DEF EditAlone
    <3> QED BY <3>2, <3>4
  <2> QED BY <2>1, <2>2
<1> QED BY <1>2, <1>3 DEF EditAlone

LEMMA CashStep == ReviewInv /\ CashInv /\ [Next]_vars => CashInv'
<1> SUFFICES ASSUME ReviewInv, CashInv, [Next]_vars PROVE CashInv'
  OBVIOUS
<1>1. TypeOK /\ BooksSound /\ EditAlone /\ (~renamed => Summed)
  BY DEF ReviewInv, CashInv
<1>2. ASSUME NEW c \in Calls, ReviewStep(c) \/ (BookStep(c) /\ Forget(c) /\ UNCHANGED review)
      PROVE  CashInv'
  <2>1. Begun(c) \/ Continued(c)
    BY <1>1, <1>2, BookStepShape, ReviewStepShape
  <2>2. EditAlone'
    BY <1>1, <1>2, <2>1, OnlyOwnState, EditAloneStep
  <2>3. ASSUME ~renamed' PROVE Summed'
    <3>1. ~renamed /\ Summed
      <4>1. Begun(c) => ~renamed
        BY <2>3 DEF Begun
      <4>2. Continued(c) => ~renamed
        BY <2>3 DEF Continued
      <4> QED BY <1>1, <2>1, <4>1, <4>2
    <3>2. CASE UNCHANGED <<cash, trades>>
      BY <3>1, <3>2 DEF Summed, IsSum
    <3>3. CASE CommitTrade(c)
      <4> DEFINE order == call[c].order
                 by == IF call[c].kind = "trade" THEN "operator" ELSE "review"
                 t == [side |-> order.side, qty |-> order.qty, by |-> by]
      <4>1. order \in Orders /\ Commit(order, by) /\ by \in {"operator", "review"}
        BY <1>1, <3>3 DEF CommitTrade, At, BooksSound
      <4> HIDE DEF order, by
      <4>2. t \in Books /\ trades' = Append(trades, t) /\ cash' = cash + Signed(t)
        BY <4>1 DEF Commit, Orders, Books, Signed
      <4> QED BY <1>1, <3>1, <4>2, SumGrows
    <3>4. CASE call[c].pc = "rename" /\ cash' = call[c].cash /\ UNCHANGED trades
      <4>1. cash' = cash
        BY <1>1, <3>1, <3>4 DEF EditAlone
      <4> QED BY <3>1, <3>4, <4>1 DEF Summed, IsSum
    <3> QED BY <2>1, <3>2, <3>3, <3>4 DEF Begun, Continued
  <2> QED BY <2>2, <2>3 DEF CashInv
<1>3. CASE UNCHANGED vars
  BY <1>1, <1>3 DEF vars, bookVars, CashInv, EditAlone, Summed, IsSum
<1> QED BY <1>2, <1>3 DEF Next

\* Until an edit of the portfolio overlaps with another call the cash is what the
\* transactions make it: RecordTransaction reads and writes it inside its transaction and
\* no valuation, cut short or late, writes it.
THEOREM CashFollows == Spec => []CashFollowsTrades
<1>1. CashInv => CashFollowsTrades
  BY SumMeansCash DEF CashInv, CashFollowsTrades
<1> QED BY <1>1, ReviewInvInit, ReviewInvStep, CashInit, CashStep, PTL DEF Spec

-----------------------------------------------------------------------------
\* OneTradeIfUndisturbed: from the transaction to the mark the accept that made it is
\* alone, and behind the mark the review is settled and nobody is at it.

Deciding == {"save", "accept", "reject", "defer"}
KindSound(c) ==
    /\ call[c].pc = "commit" => call[c].kind \in {"trade", "accept"}
    /\ call[c].pc = "check" => call[c].kind = "accept"
    /\ call[c].pc \in {"judge", "result"} => call[c].kind = "save"

\* The accept has recorded its transaction and not yet marked the review.
Recorded(c) == call[c].kind = "accept" /\ call[c].pc \in {"value", "quotes", "mark"}

OnceInv ==
    /\ \A c \in Calls : KindSound(c)
    /\ ~mixed /\ ~cut /\ TradesOfReview # {} =>
        /\ \A m, n \in TradesOfReview : m = n
        /\ \/ review.acceptance = "accepted" /\ \A c \in Calls : call[c].kind \notin Deciding
           \/ \E c \in Calls : Recorded(c)

LEMMA OnceMeansOne ==
    ASSUME TypeOK, OnceInv
    PROVE  OneTradeIfUndisturbed
<1> SUFFICES ASSUME ~mixed, ~cut PROVE Cardinality(TradesOfReview) <= 1
  BY DEF OneTradeIfUndisturbed
<1>1. CASE TradesOfReview = {}
  BY <1>1, FS_EmptySet
<1>2. CASE TradesOfReview # {}
  <2>1. PICK n \in TradesOfReview : TradesOfReview = {n}
    BY <1>2 DEF OnceInv
  <2>2. Cardinality({n}) = 1
    BY FS_Singleton
  <2> QED BY <2>1, <2>2
<1> QED BY <1>1, <1>2

\* A step of a call in flight that records nothing: what it is stays, only one that
\* decides touches the review, and an accept that has recorded ends in the mark.
Moved(c) ==
    /\ UNCHANGED trades /\ mixed' = mixed
    /\ (~cut' => ~cut)
    /\ call'[c].kind \in {call[c].kind, "none"} /\ KindSound(c)'
    /\ call[c].kind \notin Deciding => review' = review
    /\ Recorded(c) /\ ~cut' => Recorded(c)' \/ (review'.acceptance = "accepted" /\ call'[c] = IdleCall)

LEMMA BookMoves ==
    ASSUME TypeOK, NEW c \in Calls, BookStep(c), review' = review, call[c].pc # "idle", KindSound(c)
    PROVE  Moved(c) \/ CommitTrade(c)
<1> USE DEF TypeOK
<1>1. ~(BeginTrade(c) \/ BeginValuation(c) \/ BeginRename(c) \/ BeginEdit(c))
  BY DEF BeginTrade, BeginValuation, BeginRename, BeginEdit, Begin, Idle
<1>2. Finish(c) => call'[c].kind = "none" /\ KindSound(c)'
  BY CallMoves, IdleFields DEF KindSound
<1>3. CASE ReadHoldings(c)
  <2>1. call'[c].pc = "quotes" /\ call'[c].kind = call[c].kind
    BY <1>3 DEF ReadHoldings, CallStates
  <2> QED BY <1>3, <2>1 DEF ReadHoldings, Moved, KindSound, Recorded, rows, history
<1>4. CASE RefuseTrade(c) \/ SaveRename(c) \/ SaveEdit(c)
  BY <1>2, <1>4 DEF RefuseTrade, SaveRename, SaveEdit, At, Moved, Recorded, rows, history
<1>5. CASE SaveValuation(c) \/ ValuationFails(c)
  <2>1. AfterValuation(c) /\ UNCHANGED <<trades, history>>
    BY <1>5 DEF SaveValuation, ValuationFails, rows
  <2>2. CASE call[c].kind = "accept" /\ Goto(c, "mark")
    <3>1. call'[c].pc = "mark" /\ call'[c].kind = "accept"
      BY <2>2, CallMoves
    <3> QED BY <2>1, <2>2, <3>1 DEF Moved, KindSound, Recorded, history
  <2>3. CASE call[c].kind # "accept" /\ Finish(c)
    BY <1>2, <2>1, <2>3 DEF Moved, Recorded, history
  <2> QED BY <2>1, <2>2, <2>3 DEF AfterValuation
<1>6. CASE Abort(c)
  <2>1. cut' = (cut \/ call[c].kind = "accept") /\ UNCHANGED <<trades, mixed>> /\ Finish(c)
    BY <1>6 DEF Abort, rows
  <2> QED BY <1>2, <2>1 DEF Moved, Recorded
<1> QED BY <1>1, <1>3, <1>4, <1>5, <1>6 DEF BookStep

LEMMA ReviewMoves ==
    ASSUME TypeOK, NEW c \in Calls, ReviewStep(c), call[c].pc # "idle", KindSound(c), DraftSound(c)
    PROVE  Moved(c)
<1> USE DEF TypeOK
<1>1. ~BeginSave(c) /\ \A kind : ~BeginDecision(c, kind)
  BY DEF BeginSave, BeginDecision, Begin, Idle
<1>2. Finish(c) => call'[c].kind = "none" /\ KindSound(c)'
  BY CallMoves, IdleFields DEF KindSound
<1>3. CASE JudgeResult(c)
  <2>1. call[c].pc = "judge" /\ call'[c].pc = "result" /\ call'[c].kind = call[c].kind
    BY <1>3, CallMoves DEF JudgeResult, At
  <2> QED BY <1>3, <2>1 DEF JudgeResult, Moved, KindSound, Recorded, rows, history
<1>4. CASE SaveResult(c)
  <2>1. call[c].kind = "save" /\ UNCHANGED <<trades, history>> /\ Finish(c)
    BY <1>4 DEF SaveResult, At, KindSound, rows
  <2> QED BY <1>2, <2>1 DEF Moved, Recorded, Deciding, history
<1>5. CASE CheckAccept(c)
  <2>1. PICK q \in Quantities :
          \/ call' = [call EXCEPT ![c].pc = "commit", ![c].order = [side |-> draft[c].side, qty |-> q]]
          \/ Finish(c)
    BY <1>5 DEF CheckAccept
  <2>2. call[c].pc = "check" /\ UNCHANGED <<trades, history, review>>
    BY <1>5 DEF CheckAccept, At, rows
  <2> DEFINE order == [side |-> draft[c].side, qty |-> q]
  <2> HIDE DEF order
  <2>3. CASE call' = [call EXCEPT ![c].pc = "commit", ![c].order = order]
    <3>1. call'[c].pc = "commit" /\ call'[c].kind = call[c].kind
      BY <2>3 DEF CallStates
    <3> QED BY <2>2, <3>1 DEF Moved, KindSound, Recorded, history
  <2>4. CASE Finish(c)
    BY <1>2, <2>2, <2>4 DEF Moved, Recorded, history
  <2> QED BY <2>1, <2>3, <2>4 DEF order
<1>6. CASE Mark(c)
  <2>1. call[c].kind \in Deciding /\ UNCHANGED <<trades, history>> /\ Finish(c) /\ call'[c] = IdleCall
    BY <1>6, CallMoves DEF Mark, At, DraftSound, Deciding, rows
  <2>2. call[c].kind = "accept" => review'.acceptance = "accepted"
    BY <1>6 DEF Mark, DecisionOf, Reviews
  <2>3. call'[c].kind = "none" /\ KindSound(c)'
    BY <1>2, <2>1
  <2> QED BY <2>1, <2>2, <2>3 DEF Moved, Recorded, history
<1> QED BY <1>1, <1>3, <1>4, <1>5, <1>6 DEF ReviewStep

\* A call that comes in alone finds the review settled if a transaction was recorded
\* for it, so it is none that decides.
LEMMA OnceBegun ==
    ASSUME TypeOK, NEW c \in Calls, call[c].pc = "idle",
           ReviewStep(c) \/ (BookStep(c) /\ UNCHANGED review)
    PROVE  /\ KindSound(c)' /\ UNCHANGED <<trades, review, cut>>
           /\ review.acceptance = "accepted" => call'[c].kind \notin Deciding
<1> USE DEF TypeOK
<1>1. CASE BeginTrade(c) \/ BeginValuation(c) \/ BeginRename(c) \/ BeginEdit(c)
  <2>1. BeginTrade(c) => call'[c].kind = "trade" /\ call'[c].pc = "commit" /\ UNCHANGED <<trades, cut>>
    BY DEF BeginTrade, Begin, IdleCall, rows
  <2>2. BeginValuation(c) => call'[c].kind = "valuation" /\ call'[c].pc = "value" /\ UNCHANGED <<trades, cut>>
    BY DEF BeginValuation, Begin, IdleCall, rows
  <2>3. BeginRename(c) => call'[c].kind = "rename" /\ call'[c].pc = "rename" /\ UNCHANGED <<trades, cut>>
    BY DEF BeginRename, Begin, IdleCall, rows
  <2>4. BeginEdit(c) => call'[c].kind = "edit" /\ call'[c].pc = "edit" /\ UNCHANGED <<trades, cut>>
    BY DEF BeginEdit, Begin, IdleCall, rows
  <2>5. UNCHANGED review
    BY <1>1 DEF BeginTrade, BeginValuation, BeginRename, BeginEdit, Begin, Idle, ReviewStep, BeginSave,
                BeginDecision, JudgeResult, SaveResult, CheckAccept, Mark, At, reviewVars
  <2> QED BY <1>1, <2>1, <2>2, <2>3, <2>4, <2>5 DEF KindSound, Deciding
<1>2. CASE BeginSave(c)
  <2>1. call'[c].kind = "save" /\ call'[c].pc = "judge"
    BY <1>2 DEF BeginSave, Begin, IdleCall
  <2> QED BY <1>2, <2>1 DEF BeginSave, Begin, Terminal, Decisions, KindSound, rows, reviewVars
<1>3. ASSUME NEW kind \in {"accept", "reject", "defer"}, BeginDecision(c, kind)
      PROVE  KindSound(c)' /\ UNCHANGED <<trades, review, cut>> /\ review.acceptance # "accepted"
  <2>1. call'[c].kind = kind /\ call'[c].pc = IF kind = "accept" THEN "check" ELSE "mark"
    BY <1>3 DEF BeginDecision, Begin, IdleCall
  <2>2. UNCHANGED <<trades, review, cut>> /\ review.acceptance # "accepted"
    BY <1>3 DEF BeginDecision, Begin, Actionable, Terminal, Decisions, rows
  <2> QED BY <2>1, <2>2 DEF KindSound
<1>4. ~(CommitTrade(c) \/ RefuseTrade(c) \/ ReadHoldings(c) \/ SaveValuation(c) \/ ValuationFails(c)
        \/ SaveRename(c) \/ SaveEdit(c) \/ Abort(c) \/ JudgeResult(c) \/ SaveResult(c) \/ CheckAccept(c) \/ Mark(c))
  BY DEF CommitTrade, RefuseTrade, ReadHoldings, SaveValuation, ValuationFails, SaveRename, SaveEdit, Abort,
         JudgeResult, SaveResult, CheckAccept, Mark, At, Idle
<1>5. CASE ReviewStep(c)
  BY <1>2, <1>3, <1>4, <1>5 DEF ReviewStep
<1>6. CASE BookStep(c) /\ UNCHANGED review
  BY <1>1, <1>4, <1>6 DEF BookStep
<1> QED BY <1>5, <1>6

\* One more transaction, recorded for a review or not.
LEMMA TradesGrow ==
    ASSUME TypeOK, NEW t, trades' = Append(trades, t)
    PROVE  /\ t.by # "review" => TradesOfReview' = TradesOfReview
           /\ TradesOfReview = {} => \A m, n \in TradesOfReview' : m = n
<1>1. Len(trades) \in Nat /\ DOMAIN trades = 1 .. Len(trades)
  BY DEF TypeOK
<1>2. DOMAIN trades' = 1 .. Len(trades) + 1 /\ trades'[Len(trades) + 1] = t
  BY <1>1 DEF TypeOK
<1>3. \A n \in 1 .. Len(trades) : trades'[n] = trades[n]
  BY <1>1 DEF TypeOK
<1> QED BY <1>1, <1>2, <1>3 DEF TradesOfReview

LEMMA OnceInit == Init => OnceInv
BY DEF Init, BookInit, IdleCall, OnceInv, KindSound, TradesOfReview

LEMMA OnceStep == ReviewInv /\ Alone /\ Alone' /\ OnceInv /\ [Next]_vars => OnceInv'
<1> SUFFICES ASSUME ReviewInv, Alone, Alone', OnceInv, [Next]_vars PROVE OnceInv'
  OBVIOUS
<1>1. TypeOK /\ BooksSound /\ \A c \in Calls : DraftSound(c)
  BY DEF ReviewInv
<1>2. ASSUME NEW c \in Calls, ReviewStep(c) \/ (BookStep(c) /\ Forget(c) /\ UNCHANGED review)
      PROVE  OnceInv'
  <2>1. \A d \in Calls \ {c} : call'[d] = call[d]
    BY <1>1, <1>2, OnlyOwnState
  <2>2. ~mixed' => ~mixed /\ (call[c].pc = "idle" => \A d \in Calls : call[d].pc = "idle")
    BY <1>1, <1>2, ReviewStepAlone, BookStepAlone
  <2>3. KindSound(c) /\ DraftSound(c)
    BY <1>1 DEF OnceInv
  <2>4. KindSound(c)' => \A d \in Calls : KindSound(d)'
    BY <2>1 DEF OnceInv, KindSound
  <2>5. CASE call[c].pc = "idle"
    <3>1. /\ KindSound(c)' /\ UNCHANGED <<trades, review, cut>>
          /\ review.acceptance = "accepted" => call'[c].kind \notin Deciding
      BY <1>1, <1>2, <2>5, OnceBegun
    <3>2. ASSUME ~mixed', ~cut', TradesOfReview' # {}
          PROVE  /\ \A m, n \in TradesOfReview' : m = n
                 /\ review'.acceptance = "accepted" /\ \A d \in Calls : call'[d].kind \notin Deciding
      <4>1. ~mixed /\ ~cut /\ TradesOfReview # {} /\ TradesOfReview' = TradesOfReview
        BY <2>2, <3>1, <3>2 DEF TradesOfReview
      <4>2. \A d \in Calls : call[d].pc = "idle" /\ call[d].kind = "none"
        BY <2>2, <2>5, <3>2 DEF Alone
      <4>3. review.acceptance = "accepted" /\ \A m, n \in TradesOfReview : m = n
        BY <4>1, <4>2 DEF OnceInv, Recorded
      <4> QED BY <2>1, <3>1, <4>1, <4>2, <4>3 DEF Deciding
    <3> QED BY <2>4, <3>1, <3>2 DEF OnceInv
  <2>6. CASE call[c].pc # "idle" /\ CommitTrade(c)
    <3> DEFINE by == IF call[c].kind = "trade" THEN "operator" ELSE "review"
               t == [side |-> call[c].order.side, qty |-> call[c].order.qty, by |-> by]
    <3>1. trades' = Append(trades, t) /\ UNCHANGED history /\ call[c].pc = "commit"
      BY <2>6 DEF CommitTrade, Commit, At
    <3>2. call'[c].pc = "value" /\ call'[c].kind = call[c].kind
      BY <1>1, <2>6 DEF CommitTrade, TypeOK, CallStates
    <3>3. KindSound(c)' /\ call[c].kind \in {"trade", "accept"} /\ ~Recorded(c)
      BY <2>3, <3>1, <3>2 DEF KindSound, Recorded
    <3>4. UNCHANGED review
      BY <1>2, <3>1 DEF ReviewStep, BeginSave, BeginDecision, JudgeResult, SaveResult, CheckAccept, Mark,
                        Begin, Idle, At
    <3>5. ASSUME ~mixed', ~cut', TradesOfReview' # {}
          PROVE  /\ \A m, n \in TradesOfReview' : m = n
                 /\ \/ review'.acceptance = "accepted" /\ \A d \in Calls : call'[d].kind \notin Deciding
                    \/ \E d \in Calls : Recorded(d)'
      <4>1. ~mixed /\ ~cut
        BY <3>1, <3>5 DEF history
      <4>2. \A d \in Calls : ~Recorded(d)
        BY <2>6, <3>3, <4>1 DEF Alone, Recorded
      <4>3. CASE call[c].kind = "accept"
        <5>1. TradesOfReview = {}
          BY <4>1, <4>2, <4>3 DEF OnceInv, Deciding
        <5> QED BY <1>1, <3>1, <3>2, <4>3, <5>1, TradesGrow DEF Recorded
      <4>4. CASE call[c].kind = "trade"
        <5>1. TradesOfReview' = TradesOfReview
          BY <1>1, <3>1, <4>4, TradesGrow
        <5>2. /\ \A m, n \in TradesOfReview : m = n
              /\ review.acceptance = "accepted" /\ \A d \in Calls : call[d].kind \notin Deciding
          BY <3>5, <4>1, <4>2, <5>1 DEF OnceInv
        <5>3. \A d \in Calls : call'[d].kind = call[d].kind
          BY <2>1, <3>2
        <5> QED BY <3>4, <5>1, <5>2, <5>3
      <4> QED BY <3>3, <4>3, <4>4
    <3> QED BY <2>4, <3>3, <3>5 DEF OnceInv
  <2>7. CASE call[c].pc # "idle" /\ ~CommitTrade(c)
    <3>1. Moved(c)
      BY <1>1, <1>2, <2>3, <2>7, BookMoves, ReviewMoves
    <3>2. ASSUME ~mixed', ~cut', TradesOfReview' # {}
          PROVE  /\ \A m, n \in TradesOfReview' : m = n
                 /\ \/ review'.acceptance = "accepted" /\ \A d \in Calls : call'[d].kind \notin Deciding
                    \/ \E d \in Calls : Recorded(d)'
      <4>1. ~mixed /\ ~cut /\ TradesOfReview' = TradesOfReview
        BY <2>2, <3>1, <3>2 DEF Moved, TradesOfReview
      <4>2. CASE review.acceptance = "accepted" /\ \A d \in Calls : call[d].kind \notin Deciding
        <5>1. call'[c].kind \notin Deciding /\ review' = review
          BY <3>1, <4>2 DEF Moved, Deciding
        <5>2. \A d \in Calls : call'[d].kind \notin Deciding
          BY <2>1, <4>2, <5>1
        <5> QED BY <3>2, <4>1, <4>2, <5>1, <5>2 DEF OnceInv
      <4>3. CASE \E d \in Calls : Recorded(d)
        <5>1. Recorded(c) /\ \A d \in Calls \ {c} : call[d].kind = "none"
          BY <2>7, <4>1, <4>3 DEF Alone, Recorded
        <5>2. Recorded(c)' \/ (review'.acceptance = "accepted" /\ call'[c] = IdleCall)
          BY <3>1, <3>2, <5>1 DEF Moved
        <5>3. call'[c] = IdleCall => \A d \in Calls : call'[d].kind \notin Deciding
          BY <2>1, <5>1, IdleFields DEF Deciding
        <5> QED BY <3>2, <4>1, <5>2, <5>3 DEF OnceInv
      <4> QED BY <3>2, <4>1, <4>2, <4>3 DEF OnceInv
    <3>3. KindSound(c)'
      BY <3>1 DEF Moved
    <3> QED BY <2>4, <3>2, <3>3 DEF OnceInv
  <2> QED BY <2>5, <2>6, <2>7
<1>3. CASE UNCHANGED vars
  BY <1>3 DEF vars, bookVars, reviewVars, OnceInv, KindSound, Recorded, TradesOfReview
<1> QED BY <1>2, <1>3 DEF Next

\* Until two calls overlap or an accept is cut short, a review is traded once:
\* AcceptOperationReview asks whether it is settled, and the mark settles it before
\* the next call comes in.
THEOREM OneTrade == Spec => []OneTradeIfUndisturbed
<1>1. ReviewInv /\ OnceInv => OneTradeIfUndisturbed
  BY OnceMeansOne DEF ReviewInv
<1>2. ReviewInv /\ Alone /\ [Next]_vars => Alone'
  BY AloneStep
<1> QED BY <1>1, <1>2, ReviewInvInit, ReviewInvStep, AloneInit, OnceInit, OnceStep, PTL DEF Spec


=============================================================================
