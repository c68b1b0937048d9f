SPECIFICATION Spec
CONSTANTS
    GridZoom = 14
    BucketZoom = 6
    Extent = 64
    SimplifyPx = 4
    TileRenderPx = 256
    ZoomLevels = {8, 10, 12, 14}
    AggMaxZoom = 12
    RoadAggMaxZoom = 12
    MinBlobPixels = 12
    Maps <- TheMaps
    CameraZooms = {8, 10, 16, 18, 20, 22, 23, 24, 26, 28, 30, 32, 34}
    Viewport <- TheViewport
INVARIANTS
    ShapesAreShown
    AreasCoverOnce
    StrokesAreWelded
    JunctionsHold
