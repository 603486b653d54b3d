SPECIFICATION Spec
CONSTANTS
    Names = {n1, n2}
    FileNames = {n1}
    ByteBits = 3
    InodeCount = 6
    BlockCount = 3
    EntriesPerBlock = 3
    MaxBlocks = 2
    OpenSlots = 2
    Attributes = {}
    Texts = {}
VIEW Visible
INVARIANTS
    TreeShape
    SizeCountsEntries
    PartialHasFreeSlot
    PathNamesCurrentDir
PROPERTIES
    OthersKeepEntries
    ImplementsFileTree
CHECK_DEADLOCK TRUE
