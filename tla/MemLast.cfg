SPECIFICATION Spec
CONSTANTS
    MinSlice = 1
    Requests = {1, 2, 3}
    MemSizes = {3, 4}
    DefaultSize = 4
    MaxPid = 3
INVARIANT LastBlockIsGiven
CHECK_DEADLOCK FALSE
