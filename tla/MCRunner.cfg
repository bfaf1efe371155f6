SPECIFICATION FairSpec
CONSTANTS
    Child = "command"
    Helpers = {"helper", "daemon"}
    Escaped = {"daemon"}
    PipeSize = 1
    CaptureLimit = 1
    MaxOutput = 2
    MaxInput = 2
    MaxInterrupts = 1
CHECK_DEADLOCK FALSE
INVARIANTS
    OkIsComplete
    KilledIsGone
    OneCallPerInterrupt
PROPERTIES
    CallReturns
