SPECIFICATION Spec
CONSTANTS
    MaxCalcWork = 6
    Images <- MCImages
    MaxInterrupts = 1
    PackBits = 3
    WordBits = 2
    RowsPerBlock = 8
INVARIANTS
    ScreenInv
    AllPainted
    OnlyIslandsMissed
    ExactInTheEnd
    GuessesFit
PROPERTIES
    CalculatedStays
    PaintsInWindow
    Completes
