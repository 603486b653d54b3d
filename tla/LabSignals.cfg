SPECIFICATION ProgramsSpec
CONSTANTS
    Iterations = 4
    Count = 3
    PipeSize = 6
    Room = 4
    Pages = {0, 1, 2, 3}
    MaxFrames = 3
    References = 7
    Words = {"a", "b", "q"}
    StreamLimit = 12
    ByteBits = 3
    Size = 9
PROPERTIES
    ChildrenAnnounceTheirEnd
CHECK_DEADLOCK FALSE
