SPECIFICATION Spec
CONSTANTS
    ZoomLevels = {1}
    FineZoom = 1
    Updaters = {u1, u2}
    Prefetchers = {p1}
    Cameras <- PanCameras
    Archive <- PanArchive
    SourceMaxZoom = 1
    SourceMayFail = TRUE
    Ring = 1
    Budget = 4
    Nominal = 1
    None = None
INVARIANTS
    TypeOK
    UsedIsSum
    OlderIsTotal
    CacheIsTruthful
    OverBudgetOnlyForAViewport
PROPERTIES
    OwnViewportKept
