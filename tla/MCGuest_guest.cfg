SPECIFICATION Spec
CONSTANTS
    Requests <- MCRequests
    Services <- MCServices
    Rivals <- MCRivals
    MaxBreaks = 1
    Calls = {c1, c2}
    NoCall = NoCall
CHECK_DEADLOCK FALSE
SYMMETRY CallSymmetry
INVARIANTS
    ForwardsArePublished
    NoStaleSecrets
    SecretsAreKept
