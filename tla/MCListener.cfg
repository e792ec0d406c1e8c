CONSTANTS
    m1 = m1
    m2 = m2
    i1 = i1
    i2 = i2
    o1 = o1
    s1 = s1
    v1 = v1
    vendor = vendor
    Macs = {m1, m2, ff, nil}
    Ips = {i1, i2, o1, zero}
    Facts = {vendor}
    Values = {v1}
    Services = {s1}
    Categories = {unknown}
    Unknown = unknown
    NONE = none
    Times = {0}
    Tags <- MCTags
    generate <- MCgenerate
    Broadcast = ff
    Nil = nil
    Unspecified = zero
    Loopback = {}
    Multicast = {}
    LocalSubnet = {i1, i2}
    oui <- MCoui
    Capabilities = {"RawSocket", "ArpTable", "MdnsOnly"}
    Frames <- MCFrames
    ArpTable <- MCArpTable
    Packets <- MCPackets
    InitialStores <- Scanned
    SaveMayFail = TRUE
    MaxReceived = 4
SPECIFICATION Spec
INVARIANTS TypeOK DiskIsCurrent CapturedIsKnown
CHECK_DEADLOCK FALSE
