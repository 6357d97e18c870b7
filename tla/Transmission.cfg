SPECIFICATION Spec
CONSTANTS
    Encodings <- MCEncodings
    Seeds <- MCSeeds
    MaxPixel = 6
INVARIANTS
    TypeOK
    ResidualsSentOnce
    CanvasExact
    CanvasRebuilt
    CorrectedFromArrived
    TokensCorrectedOnce
PROPERTIES
    Finishes
CHECK_DEADLOCK FALSE
