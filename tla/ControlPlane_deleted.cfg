SPECIFICATION Spec
CONSTANTS
    ip1 = ip1
    ip2 = ip2
    Name <- Tracked
    IP <- MCIP
    MaxRevision = 3
    MaxQueue = 2
    MaxVersion = 3
    MaxIncarnation = 0
INVARIANTS
    DeletedIsWithdrawn
CHECK_DEADLOCK FALSE
