SPECIFICATION FairSpec
CONSTANTS
    r1 = r1
    r2 = r2
    Forever = Forever
    Rpc <- MCRpc
    Duration <- MCDuration
    MetricsTimeout = 2
    DrainTimeout = 5
    HttpTimeout = 4
    FlushTimeout = 25
    Grace = 15
INVARIANTS
    TypeOK
    KilledOnlyInFlush
    ZeroDropped
    StoppedIsClean
PROPERTIES
    Terminates
CHECK_DEADLOCK FALSE
