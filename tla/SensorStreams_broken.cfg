SPECIFICATION FairSpec
CONSTANTS
    EOF = EOF
    Error = Error
    Updates = 5
    Readings <- MCReadings
    MaxBreaks = 1
PROPERTIES
    ClientExits
CHECK_DEADLOCK FALSE
