SPECIFICATION FairSpec
CONSTANTS
    ip1 = ip1
    ip2 = ip2
    Name <- MCName
    IP <- MCIP
    MaxRevision = 3
    MaxQueue = 3
    MaxVersion = 2
    MaxIncarnation = 1
INVARIANTS
    NothingLost
    Inv
PROPERTIES
    NeverBackwards
    Isolation
    EventuallyAdvertised
CHECK_DEADLOCK FALSE
