CONSTANTS
    c1 = c1
    c2 = c2
    Calls = {c1, c2}
    BookKinds = {"trade", "valuation", "rename", "edit"}
    ReviewKinds = {"save", "accept", "reject", "defer"}
    InitialCash = 2
    Quantities = {1}
    MaxTrades = 3
SYMMETRY Symmetry
SPECIFICATION Spec
INVARIANTS AcceptedIsTraded NeverOversold CashFollowsTrades OneTradeIfUndisturbed
PROPERTY LedgerUntilOverlap
