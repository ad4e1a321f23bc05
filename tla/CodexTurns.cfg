CONSTANTS
    t1 = t1
    t2 = t2
    w1 = w1
    w2 = w2
    Turns = {t1, t2}
    Setups <- BothSetups
    Interrupts = {c1}
    Servers = {g1}
    None = None
    MaxTroubles = 1
SPECIFICATION FairSpec
INVARIANT LimitKept
PROPERTIES
    PromptSentOnce
    TurnsEnd
CHECK_DEADLOCK FALSE
