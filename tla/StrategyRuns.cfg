CONSTANTS
    Tasks <- MCTasks
    Results = {"good", "bad"}
    NoResult = NoResult
    NSteps = 2
    NDrafts = 2
    MaxFaults = 1
    MaxCrashes = 1
SPECIFICATION Spec
INVARIANTS CompletedIsWhole WaitingIsOpen OneGroup
PROPERTIES FirstResultWins RunEnds PoolDrains
CHECK_DEADLOCK FALSE
