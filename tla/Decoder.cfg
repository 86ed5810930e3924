SPECIFICATION Spec
CONSTANTS
    Nil = Nil
    NoOrigin = NoOrigin
    KindFields <- MCKinds
    Registered = {"ADD", "SUB"}
    MaxInt = 9
    Sizes <- MCSizes
    Ids = {"n1", "n2"}
    Units <- MCUnits
INVARIANTS
    DecodedIsCopy
    DecodedIsGoAST
    ErrorIsJustified
PROPERTIES
    BuildsFileSet
CHECK_DEADLOCK FALSE
