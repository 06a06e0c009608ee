SPECIFICATION Spec
CONSTANTS
    s1 = s1
    s2 = s2
    long = long
    None = None
    Text <- MCText
    TooLong = long
    UInt = {0, 1, 3}
    MaxUInt = 3
    Atoi <- MCAtoi
    Split <- MCSplit
    Documents <- MCDocuments
CHECK_DEADLOCK FALSE
INVARIANTS
    ResultsTypeOK
    AnswersAreReplies
    LookupsNewestFirst
