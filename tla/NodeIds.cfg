SPECIFICATION CounterSpec
CONSTANTS
    Numbers = {0, 1, 3}
    Zeros = {0, 1}
    Names = {"root"}
    MaxCounter = 4
INVARIANTS
    Reserved
PROPERTIES
    FreshIsNew
CHECK_DEADLOCK FALSE
