SPECIFICATION Spec
CONSTANTS
    eth = eth
    wifi = wifi
    IP <- MCIP
    Size = 4
SYMMETRY Symmetry
INVARIANTS
    SubDevicesTypeOK
    ContextsMatchTrees
    CalledOnce
