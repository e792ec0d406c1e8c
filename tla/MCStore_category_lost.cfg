CONSTANTS
    m1 = m1
    i1 = i1
    Macs = {m1}
    Ips = {i1, i2}
    Facts = {}
    Values = {}
    Services = {}
    Categories = {unknown, phone, tv}
    Unknown = unknown
    NONE = none
    Times = {0}
    Tags <- MCTags
    generate <- MCgenerate
    Devices <- MCDevices
    UserTags <- MCUserTags
    MaxSightings = 5
SPECIFICATION StoreSpec
PROPERTY CategorySurvives
CHECK_DEADLOCK FALSE
