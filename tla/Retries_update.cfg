SPECIFICATION FairSpec
CONSTANTS
    Call = {c1, c2}
    MaxAttempts = 4
    FailFirst = 2
    MaxCuts = 2
INVARIANTS
    Inv
    FailuresAreHidden
    AppliedOnce
PROPERTIES
    CallsEnd
CHECK_DEADLOCK FALSE
