CONSTANTS
    Threads = {t1, t2, t3}
    Lo = 1
    Hi = 3
    NoPort = NoPort
    MaxGrants = 7
SPECIFICATION PortSpec
INVARIANT DistinctInAnyRange
PROPERTY AtomicGrant
CHECK_DEADLOCK FALSE
