SPECIFICATION FairSpec
CONSTANTS
    r1 = r1
    r2 = r2
    r3 = r3
    tileA = tileA
    tileB = tileB
    Workers = {w1, w2}
    BucketCount = 2
    Records <- AllRecords
    TileOf <- Tile
    Extracts <- WholeOrPart
    Route <- RouteTo
    BufferSize = 3
    OpenMayFail = FALSE
    ReuseForOther = FALSE
    MaxRuns = 2
    None = None
INVARIANTS
    TypeOK
    NothingLost
PROPERTIES
    BuildSpec
    RunEnds
CHECK_DEADLOCK FALSE
