SPECIFICATION Spec
CONSTANTS
    MinSlice = 1
    Requests = {1, 2, 3}
    MemSizes = {5, 8}
    DefaultSize = 8
    MaxPid = 5
INVARIANTS
    TypeOK
    
    ListInOrder

    
CHECK_DEADLOCK FALSE
