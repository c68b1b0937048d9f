SPECIFICATION FairSpec
CONSTANTS
    sea = sea
    land = land
    town = town
    wood = wood
    VarintBits = 3
    RootMax = 16
    MinLeaf = 1
    LeafShare = 4
    Archives <- Coasts
    Size <- Lengths
    Readers = {k1, k2}
    Batches <- Views
    Gap = 1
    LeafCap = 2
    Cuts = {0, 9, 20, 40}
    ReadMayFail = TRUE
    Failed = Failed
    None = None
INVARIANTS
    TypeOK
    LeafCacheIsTruthful
    FileIsClustered
    HeaderIsRight
    HilbertIsAPath
PROPERTIES
    ReadsWhatWasWritten
    CallReturns
CHECK_DEADLOCK FALSE
