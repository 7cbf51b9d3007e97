SPECIFICATION FairSpec
CONSTANTS
    Course = {2}
    Asset = {1, 2, 3, 4, 5}
    License = {"blank", "approved"}
    SortOrder = {0, 1}
    Kind <- MCKind
    NotFound = NotFound
    Steps = 6
    Cosine <- MCCosine
    FetchTimeout = 1
    DefaultHumidity = 3
    Missing = Missing
    BaseGain <- MCBaseGain
    GainCurve <- MCGainCurve
    ReverbCurve <- MCReverbCurve
    Omitted <- MCOmitted
INVARIANTS PlaybackOK ControlOK ManifestIsExact PlaysTheListedCourse
    GainsFollowTheirLayer DirectSoundRemains
PROPERTIES DrivesOnePage EditsAreLocal WetterIsNeverDrier LoadEnds
