SPECIFICATION AppFairSpec
CONSTANTS
    ZoomLevels = {0, 1, 2}
    FineZoom = 2
    App = app
    Updaters = {app}
    Prefetchers = {}
    Cameras <- AllCameras
    FirstCamera <- Narrow
    Archive <- Pyramid
    Shapes <- Contents
    Extent = 1
    SourceMaxZoom = 1
    SourceMayFail = TRUE
    Ring = 0
    Budget = 4
    Nominal = 1
    None = None
INVARIANTS
    SceneIsCurrent
    BlankMeansAbsent
PROPERTIES
    RetryHeals
