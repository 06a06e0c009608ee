SPECIFICATION ClientSpec
CONSTANTS
    c1 = c1
    c2 = c2
    c3 = c3
    c4 = c4
    Client <- MCClient
    CounterSize = 8
    UnwatchedRelease = TRUE
CHECK_DEADLOCK FALSE
PROPERTY QuitsWithLastClient
