SPECIFICATION Spec
CONSTANTS
    MaxInt = 11
    Sizes <- MCSizes
INVARIANTS
    NeverPanics
    PositionsRoundTrip
CHECK_DEADLOCK FALSE
