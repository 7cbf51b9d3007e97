SPECIFICATION Spec
CONSTANTS
    Course = {2}
    Asset = {2, 4}
    License = {"blank", "approved"}
    SortOrder = {0}
    Kind <- MCKind
    NotFound = NotFound
    Steps = 6
    Cosine <- MCCosine
    FetchTimeout = 1
    DefaultHumidity = 3
    Missing = Missing
    BaseGain <- MCBaseGain
    GainCurve <- MCGainCurve
    ReverbCurve <- MCReverbCurve
    Omitted <- MCOmitted
INVARIANT AmbientIsNotAPad
