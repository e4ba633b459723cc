CONSTANTS
    MaxCalcWork = 2
    XDots = 4
    YDots = 5
    Sym = "XY_AXIS"
    Axis <- AxisNearCorner
    Between <- BetweenPixels
    CalcMode = "ONE_PASS"
    Yields = TRUE
    Commands = {"redraw"}
    Kept <- NothingKept
    MaxKeys = 2
    MaxSlices = 1
SPECIFICATION FairSpec
INVARIANTS
    TypeOK
    RoomForItem
PROPERTIES
    InterruptSavesItem
    ImageCompletes
