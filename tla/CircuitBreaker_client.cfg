SPECIFICATION FairSpec
CONSTANTS
    c1 = c1
    c2 = c2
    c3 = c3
    Call <- MCCall
    Reply <- MCReply
    Settings <- MCTwoProbes
    MaxGeneration = 3
    MaxCounted = 4
INVARIANTS
    TypeOK
    Accounted
    ProbesBounded
PROPERTIES
    OnlyInfrastructureTrips
    Recovers
CHECK_DEADLOCK FALSE
