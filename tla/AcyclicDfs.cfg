SPECIFICATION FairSpec
CONSTANTS
    Ids = {a, b, c}
    MaxRefs = 2
    Graphs <- MCGraphs
INVARIANTS
    AcceptedIsAcyclic
    RejectedIsCyclic
    SearchInv
PROPERTIES
    Decides
    Terminates
CHECK_DEADLOCK FALSE
