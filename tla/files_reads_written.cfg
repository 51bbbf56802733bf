SPECIFICATION Spec
CONSTANTS
    NumBlocks = 4
    Radix = 2
    Threads = {t1}
    BlockSize = 2
    MaxInodes = 1
    MaxExtents = 4
    Offsets = {0, 1}
    Lengths = {1}
PROPERTY ReadsWrittenBytes
