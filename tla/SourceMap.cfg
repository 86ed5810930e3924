SPECIFICATION Spec
CONSTANTS
    MaxEdges = 2
    MaxSpare = 1
    Trees <- MCTrees
    Outputs <- AnyOutputs
INVARIANTS
    FirstPathsRecorded
    EntriesAreFaithful
    ErrorIsJustified
CHECK_DEADLOCK FALSE
