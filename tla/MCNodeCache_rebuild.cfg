SPECIFICATION Spec
CONSTANTS
    WordBits = 2
    BlockWords = 2
    Capacity = 6
    Workers = {w1, w2}
    NodeBlocks <- ThreeBlocks
    Coord <- Coords
    Filters <- TwoFilters
    FilterMayChange = TRUE
    MaxRuns = 3
    None = None
INVARIANT StoreIsRight
CHECK_DEADLOCK FALSE
