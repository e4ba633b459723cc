CONSTANTS
    MaxCalcWork = 4
    Pool <- MCPool
SPECIFICATION Spec
INVARIANTS
    NothingForgotten
    NoOverlap
    Tidy
