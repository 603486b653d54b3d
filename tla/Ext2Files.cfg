SPECIFICATION Spec
CONSTANTS
    Names = {n1}
    FileNames = {n1}
    ByteBits = 2
    InodeCount = 4
    BlockCount = 4
    EntriesPerBlock = 3
    MaxBlocks = 2
    OpenSlots = 3
    Attributes = {"x-"}
    Texts = {0, 2, 5}
VIEW Visible
INVARIANTS
    TypeOK
    BlockOwnership
    SizeFitsBlocks
    LiveInodesMarked
    FreeCountCovers
    OpenTableLive
PROPERTIES
    NewInodesAreFresh
CHECK_DEADLOCK TRUE
