SPECIFICATION Spec
CONSTANTS
    c1 = c1
    c2 = c2
    eth0 = eth0
    None = None
    Client <- MCOneClient
    Requests <- MCOneRequest
    Entry <- MCEntry
    Statuses <- MCStatuses
    IdLists <- MCIdLists
    IdSize = 4
    LongMax = 16
    MaxChanges = 2
CHECK_DEADLOCK FALSE
INVARIANT MandatoryIsProvided
