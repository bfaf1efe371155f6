SPECIFICATION Spec
CONSTANTS
    p1 = p1
    p2 = p2
    Procs <- OneProc
    Providers <- TwoProviders
    None = "none"
    Files <- Credentials
    Users <- Attaching
    MaxWindows = 2
CHECK_DEADLOCK FALSE
INVARIANT
    AttachFindsWindow
