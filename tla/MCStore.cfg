CONSTANTS
    m1 = m1
    i1 = i1
    Macs = {m1, m2}
    Ips = {i1, i2, i3}
    Facts = {vendor}
    Values = {v1, v2}
    Services = {s1}
    Categories = {unknown, phone, tv}
    Unknown = unknown
    NONE = none
    Times <- MCTimes
    Tags <- MCTags
    generate <- MCgenerate
    Devices <- MCDevices
    UserTags <- MCUserTags
    MaxSightings = 4
SPECIFICATION StoreSpec
INVARIANTS IdentityInv UniqueLastIp EverySightingCounted
PROPERTY RecordsEvolve
CHECK_DEADLOCK FALSE
