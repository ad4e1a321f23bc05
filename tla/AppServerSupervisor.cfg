CONSTANTS
    Requests = {r1, r2}
    None = None
SPECIFICATION FairSpec
INVARIANT OfferedIsOpen
PROPERTIES
    StartingEnds
    DeathIsNoticed
    OfferSpec
CHECK_DEADLOCK FALSE
