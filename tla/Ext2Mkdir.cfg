SPECIFICATION Spec
CONSTANTS
    Names = {n1}
    FileNames = {n1}
    ByteBits = 2
    InodeCount = 6
    BlockCount = 6
    EntriesPerBlock = 3
    MaxBlocks = 2
    OpenSlots = 2
    Attributes = {}
    Texts = {0, 2, 5}
PROPERTY CommandsKeepTheTree
