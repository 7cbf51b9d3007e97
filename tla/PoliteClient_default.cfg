SPECIFICATION PoliteSpec
CONSTANTS
    Unknown = Unknown
    Absent = Absent
    NoBucket = NoBucket
    Ip = {Unknown}
    Req = {r1}
    BucketId = {b1, b2}
    Capacity = 3
    RefillTokens = 120
    RefillPeriodSeconds = 60
    TicksPerSecond = 4
    IdleTTL = 12
    MaxSize = 1
    MaxStall = 2
    TrustForwardedFor = FALSE
INVARIANT WaitingIsEnough
