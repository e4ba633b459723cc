CONSTANTS
    Rows = 3
    Cols = 1
    CheckInterval = 0
    Platform = "x11"
    Batches <- EitherWay
    Overwrite = FALSE
    Commands = {"orbit", "save", "redraw", "restore", "browse"}
    MaxKeys = 2
    MaxImages = 2
    MaxFaults = 1
    MaxNames = 6
SPECIFICATION FairSpec
INVARIANTS
    KeysSafe
    BatchInv
PROPERTIES
    TimedSavesOneFile
    NoForeignOverwrite
    SavesSurvive
    ComesToAnEnd
