SPECIFICATION RepairingSpec
CONSTANTS
    p1 = p1
    p2 = p2
    None = None
    Dead = Dead
    Procs <- TwoProcs
    Mode = "repo"
    Agent = FALSE
    Commands <- LockedCommands
    MaxLaunches = 2
CHECK_DEADLOCK FALSE
INVARIANTS
    CatalogMatchesVm
    RunningIsProvisionedOrResumable
PROPERTIES
    DestroyAuthorised
    LockEventuallyFreed
    DestroyFinishes
