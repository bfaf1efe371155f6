SPECIFICATION FairSpec
CONSTANTS
    NoRow = "none"
    Closed = "closed"
    Opening = "cloning"
    Stopped = "stopped"
    Running = "running"
    Lives <- SomeLives
    Active <- SomeActive
    Tools <- AllTools
    Columns <- SomeColumns
    Fresh = "c1"
    MaxEvents = 3
CHECK_DEADLOCK FALSE
PROPERTIES
    ImplementsFeed
    EveryEventShown
    WatchCatchesUp
    PsShowsWhatRuns
