CONSTANTS
    MaxCalcWork = 4
    XDots = 7
    YDots = 7
    Sym = "ORIGIN"
    Axis <- AxisNearFarCorner
    Between <- BetweenPixels
    CalcMode = "TWO_PASS"
    Yields = FALSE
    Commands = {"redraw", "zoom"}
    Kept <- NothingKept
    MaxKeys = 4
    MaxSlices = 0
SPECIFICATION Spec
INVARIANTS
    NoPixelLost
    OnScreen
PROPERTY FinalStays
