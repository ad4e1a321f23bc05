CONSTANTS
    Servers = {g1, g2}
    Ids = {1}
    Calls = {c1, c2}
    None = None
    MaxRestarts = 1
SPECIFICATION FairSpec
INVARIANTS
    ToldOnce
    ApprovedWasTold
    AnswerableWhilePending
PROPERTY PendingSettles
CHECK_DEADLOCK FALSE
