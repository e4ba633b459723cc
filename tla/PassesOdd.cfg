SPECIFICATION Spec
CONSTANTS
    MaxCalcWork = 6
    Images <- OddWidth
    MaxInterrupts = 0
    PackBits = 3
    WordBits = 2
    RowsPerBlock = 8
INVARIANT StaysOnScreen
