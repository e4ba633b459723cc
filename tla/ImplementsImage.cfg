CONSTANTS
    MaxCalcWork = 3
    XDots = 2
    YDots = 5
    Sym = "X_AXIS"
    Axis <- AxisNearTop
    Between <- BetweenPixels
    CalcMode = "TWO_PASS"
    Yields = FALSE
    Commands = {"redraw", "more_iterations"}
    Kept <- KeptColumns
    MaxKeys = 4
    MaxSlices = 0
SPECIFICATION FairSpec
INVARIANT ResumableMeansSaved
PROPERTY ImplementsImage
