CONSTANTS
    mA = mA
    mB = mB
    Macs = {mA, mB}
    Ips <- MCIps
    Facts <- MCFacts
    Values <- MCValues
    Services <- MCServices
    Categories <- MCCategories
    Unknown = "Unknown"
    NONE = none
    Times = {0}
    Tags <- MCTags
    generate <- MCgenerate
    words <- MCwords
    Sessions <- MCSessions
    Replies <- MCReplies
    Alive <- MCAlive
    Datagrams <- MCDatagrams
    stack <- MCstack
    Ports = {80, 443}
    BlockingThreads = 3
    score <- MCscore
    oui <- MCoui
    MaxFound = 2
    MaxHeard = 2
    Frames <- MCFrames
    igd <- MCigd
    Responders <- MCResponders
    MaxReplies = 2
SPECIFICATION FairSpec
INVARIANTS TypeOK SubnetCovered NamesSurviveFailures DescribedByItself
     StrongestEvidenceDecides OverlapOnlyByUpnp
    NeighboursProposed LiveMeansAnswered
PROPERTIES FoundIsKept SavedHostsStay CommandReturns
CHECK_DEADLOCK FALSE
