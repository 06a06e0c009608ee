SPECIFICATION Spec
CONSTANTS
    d1 = d1
    d2 = d2
    eth = eth
    wifi = wifi
    lo = lo
    None = None
    UDN <- MCOneUDN
    IP <- MCEthernet
    Loopback <- MCNoLoopback
    MaxArrivals = 4
    PublishCanFail = FALSE
    SubscriptionCanLapse = FALSE
CHECK_DEADLOCK FALSE
INVARIANT ListedIsSubscribed
