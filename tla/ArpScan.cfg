\* A tick is 250 ms and a block 125 addresses: a /22 has eight blocks.
CONSTANTS
    Blocks = 8
    Live = {1, 5, 8}
    Settle = 1
    SendTime = 1
    Pause = 6
    RetryTime = 2
    Quiet = 10
    HardCap = 40
    JoinTimeout = 44
    Latency = 1
    NONE = none
SPECIFICATION FairSpec
INVARIANTS TypeOK FirstPassReported NothingDiscarded
PROPERTY ScanReturns
CHECK_DEADLOCK FALSE
