CONSTANTS
    Targets = {h1, h2}
    TcpPorts = {80, 443}
    MaxConcurrent = 1
    Lo = 51000
    Hi = 51003
    Pingable = {h1, h2}
    Listening = {h1, h2}
    SkipsHeader = {TRUE}
    MaxOthers = 0
SPECIFICATION Spec
INVARIANT RespondersFound
CHECK_DEADLOCK FALSE
