SPECIFICATION Spec
CONSTANTS
    Nil = Nil
    Heaps <- MCHeaps
    Arguments <- MCArguments
INVARIANTS
    RowsInProgress
    UnitIsCopy
    SizesAreFinal
    ErrorIsJustified
    DescentIsBounded
CHECK_DEADLOCK FALSE
