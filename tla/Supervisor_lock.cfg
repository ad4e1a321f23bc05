CONSTANTS
    Sups = {s1, s2}
    Pids = {p1, p2}
    Scripts = {m1}
    Jobs = {j1}
    Versions = {v1}
    FastFailThreshold = 1
    FastFailMaxUptime = 1
    StableAfter = 0
    RestartTimeout = 1
    MinDelay = 1
    MaxDelay = 2
    MaxCrashes = 1
    None = None
    Garbled = Garbled
SYMMETRY Symmetry
SPECIFICATION Spec
INVARIANTS OneSupervisor PidFileNamesSupervisor NoStrayChild
PROPERTIES RestoreOnlyBetweenChildren
CHECK_DEADLOCK FALSE
