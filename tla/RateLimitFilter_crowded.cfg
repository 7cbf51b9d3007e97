SPECIFICATION Spec
SYMMETRY BucketSymmetry
CONSTANTS
    Unknown = Unknown
    Absent = Absent
    NoBucket = NoBucket
    Ip = {a, Unknown}
    Req = {r1, r2}
    BucketId = {b1, b2, b3, b4}
    Capacity = 2
    RefillTokens = 1
    RefillPeriodSeconds = 2
    TicksPerSecond = 1
    IdleTTL = 5
    MaxSize = 1
    MaxStall = 1
    TrustForwardedFor = TRUE
INVARIANTS
    TypeOK
    BucketsArePrivate
PROPERTIES
    Isolation
