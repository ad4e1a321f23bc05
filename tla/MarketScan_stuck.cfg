SPECIFICATION FairSpec
CONSTANTS
    MaxRuns = 1
    MaxRounds = 1
    MaxResearches = 1
    MaxGenerations = 1
    MaxDay = 1
    MaxPatches = 0
    MaxLates = 0
    MaxTroubles = 1
PROPERTIES
    ScanEndsAfterRestart
CHECK_DEADLOCK FALSE
