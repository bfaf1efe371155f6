SPECIFICATION FairSpec
CONSTANTS
    base = base
    a = a
    x = x
    none = none
    Commits <- ThreeCommits
    Ancestry <- ThreeAncestry
    NoCommit = none
    Base = base
    MaxFaults = 1
    Ops = {"sync", "close", "discard", "repair"}
    Beside = {"gc", "unlocked"}
CHECK_DEADLOCK FALSE
INVARIANTS
    CleanMeansPublished
    StagedWorkIsKept
PROPERTIES
    RefsPromise
    DestroyOnlyPublished
    OnlyLateWorkIsLost
    SettledIsPublished
