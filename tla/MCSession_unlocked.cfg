SPECIFICATION Spec
CONSTANTS
    p1 = p1
    p2 = p2
    None = None
    Dead = Dead
    Procs <- TwoProcs
    Mode = "sandbox"
    Agent = TRUE
    Commands <- EveryCommand
    MaxLaunches = 2
CHECK_DEADLOCK FALSE
SYMMETRY Symmetry
INVARIANTS
    CheckpointHonest
    ClosedMeansGone
PROPERTIES
    ForgottenOnlyWhenComplete
    ImplementsRegistry
