SPECIFICATION Spec
CONSTANTS
    MaxEdges = 2
    MaxSpare = 0
    Trees <- MCParsedTrees
    Outputs <- ParsedOutputs
INVARIANTS
    MapsEveryParsedFile
CHECK_DEADLOCK FALSE
