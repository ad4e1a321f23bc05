--------------------------- MODULE PortfolioLedger ---------------------------
(***************************************************************************)
(* What stockv2/types.go promises of a portfolio: a row of the transaction *)
(* table is the only thing that moves its cash and its holding, both in    *)
(* the step that writes the row. One portfolio, one symbol, price one, as  *)
(* in PortfolioBook.                                                       *)
(***************************************************************************)
EXTENDS Integers, Sequences

CONSTANTS InitialCash, Quantities

VARIABLES cash, qty, trades

vars == <<cash, qty, trades>>

Init == cash = InitialCash /\ qty = 0 /\ trades = <<>>

Trade(side, q) ==
    /\ side = "sell" => q <= qty
    /\ cash' = cash + (IF side = "sell" THEN q ELSE -q)
    /\ qty' = qty + (IF side = "sell" THEN -q ELSE q)
    /\ \E by \in {"operator", "review"} : trades' = Append(trades, [side |-> side, qty |-> q, by |-> by])

Next == \E side \in {"buy", "sell"}, q \in Quantities : Trade(side, q)

Spec == Init /\ [][Next]_vars
=============================================================================
