SPECIFICATION Spec
CONSTANTS
    BlockSize = 2
    PagefileBlocks = 2
    FileExtents <- MCFileExtents
    PageExtents <- MCPageExtents
    WriteOffset = 10
    Depth = 2
    Addresses = {0, 1, 2, 3, 6}
    Sizes = {1, 2, 3, 4, 5, 7}
    Blocks = {0, 1, 2, 3, 4, 5, 6, 7, 8, 9, 10, 11, 12, 13, 14, 15}
    Operators = {o1, o2}
CHECK_DEADLOCK FALSE
INVARIANT VisitsExtents
