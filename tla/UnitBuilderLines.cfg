SPECIFICATION Spec
CONSTANTS
    Nil = Nil
    Heaps <- MCHeaps
    Arguments <- MCArguments
INVARIANT
    LineTablesAgree
CHECK_DEADLOCK FALSE
