SPECIFICATION NumbersSpec
CONSTANTS
    Width <- MCWidth
    Written = {0, 1, 2, 3, 4, 7, 8, 15, 16, 17, 31, 32, 33, 64}
INVARIANT OverflowIsRejected
CHECK_DEADLOCK FALSE
