CONSTANTS
    MaxCalcWork = 4
    XDots = 3
    YDots = 3
    Sym = "NONE"
    Axis <- OffScreen
    Between <- OnPixels
    CalcMode = "ONE_PASS"
    Yields = TRUE
    Commands = {"redraw"}
    Kept <- NothingKept
    MaxKeys = 2
    MaxSlices = 1
SPECIFICATION Spec
INVARIANT CompletedMeansDone
