SPECIFICATION FairMeshSpec
CONSTANTS
    ip1 = ip1
    ip2 = ip2
    gateway = gateway
    Name <- Tracked
    IP = {ip1}
    Client <- MCClient
    Target <- MCTarget
    MaxRevision = 3
    MaxQueue = 2
    MaxVersion = 2
    MaxIncarnation = 1
INVARIANTS
    MeshInv
PROPERTIES
    ImplementsDirectory
    EventuallyRouted
CHECK_DEADLOCK FALSE
