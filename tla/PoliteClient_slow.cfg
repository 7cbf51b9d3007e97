SPECIFICATION PoliteSpec
CONSTANTS
    Unknown = Unknown
    Absent = Absent
    NoBucket = NoBucket
    Ip = {Unknown}
    Req = {r1}
    BucketId = {b1, b2}
    Capacity = 3
    RefillTokens = 3
    RefillPeriodSeconds = 60
    TicksPerSecond = 2
    IdleTTL = 1200
    MaxSize = 1
    MaxStall = 2
    TrustForwardedFor = TRUE
INVARIANT WaitingIsEnough
