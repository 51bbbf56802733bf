SPECIFICATION SpecOnTrack
CONSTANTS
    NumBlocks = 5
    Radix = 2
    Sizes = {1, 2, 3}
INVARIANTS
    TypeOK
    BlocksPartitioned
    HeapIndexesFreeExtents
    AbortsOnlyWhenFull
    RecoverableState
PROPERTY ImplementsPool
