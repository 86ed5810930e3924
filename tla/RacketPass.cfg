SPECIFICATION FairRacketSpec
CONSTANTS
    n1 = n1
    n2 = n2
    n3 = n3
    GoKinds <- MCGoKinds
    Holds <- MCHolds
    Units <- MCUnits
    Passes <- MCPasses
    Trees <- MCTrees
INVARIANTS
    KindCheckIsExact
    TreeIsTable
    ErrorIsJustified
    OneResultPerId
    PassIsRowwise
PROPERTIES
    Finishes
CHECK_DEADLOCK FALSE
