SPECIFICATION Spec
CONSTANTS
    d1 = d1
    d2 = d2
    eth = eth
    wifi = wifi
    lo = lo
    None = None
    UDN <- MCOneUDN
    IP <- MCIP
    Loopback <- MCLoopback
    MaxArrivals = 4
    PublishCanFail = FALSE
    SubscriptionCanLapse = TRUE
CHECK_DEADLOCK FALSE
INVARIANT EventsThroughPreferred
