CONSTANTS
    MaxCalcWork = 3
    XDots = 6
    YDots = 5
    Sym = "XY_AXIS"
    HomeAxis <- AxisInside
    Between <- BetweenColumns
    CalcMode = "TWO_PASS"
    CompletedPans <- AnyWay
    SuspendedPans <- Sideways
    MaxPans = 2
    MaxStops = 3
SPECIFICATION Spec
INVARIANTS
    PanInv
    NothingLeftOut
PROPERTY FinishedStays
