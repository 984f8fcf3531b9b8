SPECIFICATION FairOrderSpec
CONSTANTS
    Call = {c1, c2}
    Rate = 5
    Burst = 5
    Probe <- MCProbe
    Period <- MCPeriod
    Threshold = 2
    MaxWindow = 1
    Settings <- MCSettings
    Pause = 1
    MaxStray = 1
INVARIANTS
    OrderTypeOK
    WithinRate
    ProbesSpared
PROPERTIES
    GatewayRecovers
    Readmitted
