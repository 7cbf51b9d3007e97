SPECIFICATION RateSpec
SYMMETRY BucketSymmetry
CONSTANTS
    Unknown = Unknown
    Absent = Absent
    NoBucket = NoBucket
    Ip = {a, Unknown}
    Watched = a
    Req = {r1, r2}
    BucketId = {b1, b2, b3}
    Capacity = 2
    RefillTokens = 1
    RefillPeriodSeconds = 2
    TicksPerSecond = 1
    IdleTTL = 5
    MaxSize = 2
    MaxStall = 1
    MaxWindow = 11
    TrustForwardedFor = TRUE
INVARIANTS
    Attached
    Replenished
    RateIsBounded
PROPERTIES
    ImplementsTokenBucket
