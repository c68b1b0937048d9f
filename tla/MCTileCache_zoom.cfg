SPECIFICATION FairSpec
CONSTANTS
    ZoomLevels = {0, 1, 2}
    FineZoom = 2
    Updaters = {u1}
    Prefetchers = {p1}
    Cameras <- AllCameras
    Archive <- Pyramid
    SourceMaxZoom = 1
    SourceMayFail = TRUE
    Ring = 1
    Budget = 3
    Nominal = 1
    None = None
INVARIANTS
    FrameIsSnapshot
PROPERTIES
    UpdateReturns
