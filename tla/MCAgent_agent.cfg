SPECIFICATION Spec
CONSTANTS
    p1 = p1
    p2 = p2
    Procs <- TwoProcs
    Providers <- TwoProviders
    None = "none"
    Files <- Credentials
    Users <- AnyUser
    MaxWindows = 3
CHECK_DEADLOCK FALSE
SYMMETRY Symmetry
INVARIANTS
    RecordedFilesInGuest
    ShellOutlivesAgent
    RowTellsGuest
PROPERTIES
    ImportsOnlyWithConsent
