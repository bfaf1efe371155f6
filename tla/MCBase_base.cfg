SPECIFICATION FairSpec
CONSTANTS
    p1 = p1
    p2 = p2
    p3 = p3
    v1 = v1
    v2 = v2
    Procs = {p1, p2, p3}
    Prints = {v1, v2}
    NoPrint = NoPrint
    MaxFaults = 1
    MaxActs = 1
CHECK_DEADLOCK FALSE
INVARIANTS
    ClonesAreProvisioned
PROPERTIES
    CloneUndisturbed
    PrepareHeals
