SPECIFICATION FairSpec
CONSTANTS
    Course = {1, 2}
    Asset = {1}
    License = {"null", "approved"}
    SortOrder = {0}
    Kind <- MCKind
    NotFound = NotFound
    None = None
    Req = {r1, r2}
    CacheTTL = 2
    MaxLoad = 1
    MaxEdits = 3
    MaxFailures = 1
INVARIANTS TypeOK BoundedStaleness ManifestMatchesCourse
PROPERTY EventuallyFresh
