CONSTANTS
    NPixels = 2
    Escape <- EarlyAndNever
    Limit = 4
    CheckFreq = 2
    StarTrail = FALSE
    TrailLimit = 3
    Distance = FALSE
    Places = {a, b}
    KeysTyped = {"orbit", "other"}
    MaxKeys = 3
SPECIFICATION FairSpec
INVARIANT PixelInv
PROPERTIES
    PlottedAsUndisturbed
    RowCompletes
    OrbitScrubbed
