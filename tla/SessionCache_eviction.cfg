SPECIFICATION Spec
SYMMETRY RequestSymmetry
CONSTANTS
    Course = {1}
    Asset = {1}
    License = {"approved"}
    SortOrder = {0}
    Kind <- MCKind
    NotFound = NotFound
    None = None
    Req = {r1, r2}
    CacheTTL = 2
    MaxLoad = 1
    MaxEdits = 3
    MaxFailures = 0
INVARIANT EvictionIsTheGuarantee
