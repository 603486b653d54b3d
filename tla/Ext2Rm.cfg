SPECIFICATION Spec
CONSTANTS
    Names = {n1, n2, n3}
    FileNames = {n1, n2, n3}
    ByteBits = 2
    InodeCount = 4
    BlockCount = 2
    EntriesPerBlock = 5
    MaxBlocks = 1
    OpenSlots = 3
    Attributes = {}
    Texts = {}
INVARIANTS
    RemovedFilesAreClosed
