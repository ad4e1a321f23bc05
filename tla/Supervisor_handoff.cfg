CONSTANTS
    Sups = {s1}
    Pids = {p1}
    Scripts = {}
    Jobs = {j1, j2}
    Versions = {v1}
    FastFailThreshold = 2
    FastFailMaxUptime = 1
    StableAfter = 1
    RestartTimeout = 2
    MinDelay = 1
    MaxDelay = 5
    MaxCrashes = 0
    None = None
    Garbled = Garbled
SPECIFICATION MCSpec
PROPERTIES RollbackExactlyWhenDue StopEnds ChildIsReplaced
CHECK_DEADLOCK FALSE
