SPECIFICATION FairSpec
CONSTANTS
    NumBlocks = 4
    Radix = 2
    Threads = {t1}
    BlockSize = 2
    MaxInodes = 2
    MaxExtents = 4
    Offsets = {0, 2, 5}
    Lengths = {3}
INVARIANTS TypeOK  BlocksMatchLength
PROPERTY CallsReturn
