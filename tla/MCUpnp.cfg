SPECIFICATION Spec
CONSTANTS
    d1 = d1
    d2 = d2
    eth = eth
    wifi = wifi
    lo = lo
    None = None
    UDN <- MCUDN
    IP <- MCIP
    Loopback <- MCLoopback
    MaxArrivals = 4
    PublishCanFail = TRUE
    SubscriptionCanLapse = TRUE
SYMMETRY Symmetry
CHECK_DEADLOCK FALSE
INVARIANTS
    TypeOK
    StraysGaveUp
    NotifiedWhileSubscribed
    DevicesTracked
    ConstructionOnTrack
    ListedIsComplete
    NoDanglingTimer
PROPERTIES
    SubscriptionHandedOver
    ArmedUntilSubscribed
    ImplementsDirectory
