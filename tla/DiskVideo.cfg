CONSTANTS
    BLOCK_LEN = 4
    HASH_SIZE = 2
    WRITE_GAP = 2
    NEntries = 2
    PRESET = 101
    Sessions <- BothSessions
    Colors = {0, 9}
    FileByte = 200
    Failures = {"open", "reopen"}
    Request = 4
    MinQueue = 1
    PointsPut <- TwoPoints
SPECIFICATION QSpec
INVARIANT CacheInv
PROPERTIES
    ImplementsPixelStore
    TargaWritten
    ImplementsQueue
