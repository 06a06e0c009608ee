SPECIFICATION FairSpec
CONSTANTS
    d1 = d1
    d2 = d2
    eth = eth
    wifi = wifi
    lo = lo
    None = None
    UDN <- MCUDN
    IP <- MCTwoIP
    Loopback <- MCLoopback
    MaxArrivals = 4
    PublishCanFail = FALSE
    SubscriptionCanLapse = TRUE
CHECK_DEADLOCK FALSE
INVARIANT ContextsMirrorNetwork
PROPERTIES
    SeenIsListed
    Resubscribed
    ConstructionKept
