SPECIFICATION Spec
CONSTANTS
    a = a
    b = b
    v1 = v1
    v2 = v2
    None = None
    Files = {a, b}
    Versions = {v1, v2}
    MaxBlocks = 3
CHECK_DEADLOCK FALSE
INVARIANT TypeOK
INVARIANT ButtonsUsable
INVARIANT FingerprintOfSelected
INVARIANT ResultMeansFull
PROPERTY CalculationEnds
