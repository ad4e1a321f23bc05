CONSTANTS
    Jobs = {j1}
    Earlier = Earlier
    Handlers = {h1, h2}
    Requests = {"apply", "cancel", "rollback"}
    MaxVersion = 2
    BackupRetention = 2
    HasSupervisor = TRUE
    RestartMode = "self-exec"
    RestartTimeout = 1
    MaxTroubles = 1
    None = None
SPECIFICATION FairSpec
INVARIANTS ActiveHasOwner RestartingCanBeUndone RestartHasHandoff RowsAgree
 
