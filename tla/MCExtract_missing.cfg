SPECIFICATION ExtractSpec
CONSTANTS
    WordBits = 4
    BlockWords = 2
    Capacity = 22
    Blocks <- WayBlocks
    Ways <- BlockWays
    ParsedInt <- Ints
    ParsedTenths <- Tenths
    MaxParallelDist = 1
    OsmFile <- TheFile
    OldIndexes <- Indexes
    ToX <- Xs30
    ToY <- Ys30
    WaterShapes <- TheWater
    MapNodes <- Nodes
    MapWays <- TheWays
    MapRelations <- TheRelations
    MapPolygons <- ThePolygons
    Dropped = {6}
    EmptyKeysVals = FALSE
INVARIANT MissingNodesAreSkipped
