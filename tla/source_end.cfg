SPECIFICATION Spec
CONSTANTS
    BufferSize = 2
    Lengths = {0, 1, 2, 3, 4, 5, 6}
    MaxForeign = 1
CHECK_DEADLOCK FALSE
INVARIANT ReadsWithinFile
