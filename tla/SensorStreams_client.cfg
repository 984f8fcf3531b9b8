SPECIFICATION FairSpec
CONSTANTS
    EOF = EOF
    Error = Error
    Updates = 5
    Readings <- MCReadings
    MaxBreaks = 2
INVARIANTS
    TypeOK
    AlertsInOrder
    ExitsWithAllAlerts
PROPERTIES
    WholeClientExits
CHECK_DEADLOCK FALSE
