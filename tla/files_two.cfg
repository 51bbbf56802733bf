SPECIFICATION Spec
CONSTANTS
    NumBlocks = 3
    Radix = 2
    Threads = {t1, t2}
    BlockSize = 2
    MaxInodes = 2
    MaxExtents = 3
    Offsets = {0, 3}
    Lengths = {2}
SYMMETRY Interchangeable
CONSTRAINT OnTrack
PROPERTIES LogicalBlocksStay ImplementsAllocator
