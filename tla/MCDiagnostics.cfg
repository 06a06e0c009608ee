SPECIFICATION FairServiceSpec
CONSTANTS
    d1 = d1
    eth = eth
    lo = lo
    c1 = c1
    Root = Root
    Manager = Manager
    None = None
    UDN <- MCUDN
    IP <- MCIP
    Loopback <- MCLoopback
    Client <- MCClient
    MaxArrivals = 3
    MaxCalls = 2
    CounterSize = 8
    PublishCanFail = FALSE
    SubscriptionCanLapse = FALSE
    UnwatchedRelease = FALSE
CHECK_DEADLOCK FALSE
INVARIANTS
    ActionsHaveProxies
    StalledCanBeCancelled
PROPERTIES
    ImplementsServer
    LostDeviceIsQuiet
