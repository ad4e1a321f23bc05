SPECIFICATION FairSpec
CONSTANTS
    MaxRuns = 1
    MaxRounds = 2
    MaxResearches = 5
    MaxGenerations = 5
    MaxDay = 1
    MaxPatches = 0
    MaxLates = 0
    MaxTroubles = 1
INVARIANTS
    
    RetriesBounded
PROPERTIES
    ScanEnds
CHECK_DEADLOCK FALSE
