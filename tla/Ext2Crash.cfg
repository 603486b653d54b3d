SPECIFICATION CrashSpec
CONSTANTS
    Names = {n1}
    FileNames = {n1}
    ByteBits = 1
    InodeCount = 3
    BlockCount = 4
    EntriesPerBlock = 3
    MaxBlocks = 2
    OpenSlots = 2
    Attributes = {}
    Texts = {0, 5}
    MaxCrashes = 2
VIEW VisibleCrash
INVARIANTS
    CrashTypeOK
    OwnershipSurvives
    SizesSurvive
    LiveInodesMarked
    TearIsOneInode
PROPERTIES
    GrowthNeverTears
    CrashIsAllOrNothing
CHECK_DEADLOCK TRUE
