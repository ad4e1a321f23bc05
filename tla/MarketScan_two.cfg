SPECIFICATION Spec
CONSTANTS
    MaxRuns = 2
    MaxRounds = 2
    MaxResearches = 2
    MaxGenerations = 1
    MaxDay = 2
    MaxPatches = 1
    MaxLates = 1
    MaxTroubles = 1
INVARIANTS
    OneActive
    OneAutoPerDate
CHECK_DEADLOCK FALSE
