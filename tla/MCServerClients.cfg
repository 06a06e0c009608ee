SPECIFICATION FairServerSpec
CONSTANTS
    c1 = c1
    c2 = c2
    d1 = d1
    Root = Root
    Manager = Manager
    None = None
    Client <- MCClient
    Device <- MCDevice
    CounterSize = 8
    UnwatchedRelease = FALSE
    MaxCalls = 3
CHECK_DEADLOCK FALSE
INVARIANTS
    DeviceOutlivesTasks
    CallersAreWatched
    RemovedQueuesDrain
    WatchersCount
PROPERTIES
    QuitsWithLastClient
    Answered
