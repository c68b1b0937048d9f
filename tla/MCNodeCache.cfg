SPECIFICATION FairSpec
CONSTANTS
    WordBits = 2
    BlockWords = 2
    Capacity = 6
    Workers = {w1, w2}
    NodeBlocks <- ThreeBlocks
    Coord <- Coords
    Filters <- OneFilter
    FilterMayChange = FALSE
    MaxRuns = 3
    None = None
INVARIANTS
    TypeOK
    StoreIsRight
    BboxIsRight
PROPERTY RunEnds
CHECK_DEADLOCK FALSE
