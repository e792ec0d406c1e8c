CONSTANTS
    Targets = {h1, h2}
    TcpPorts = {80, 443}
    MaxConcurrent = 1
    Lo = 51000
    Hi = 51003
    Pingable = {h1, h2}
    Listening = {h1}
    SkipsHeader = {TRUE, FALSE}
    MaxOthers = 1
SPECIFICATION FairSpec
INVARIANTS TypeOK NoPanic CreditedByPorts HeardAreFound
PROPERTY SweepReturns
CHECK_DEADLOCK FALSE
