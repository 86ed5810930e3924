SPECIFICATION FairSpec
CONSTANTS
    Nil = Nil
    NoOrigin = NoOrigin
    a = a
    b = b
    c = c
    Objects = {a, b, c}
    KindFields <- MCKinds
    Registered = {"ADD", "SUB"}
    Inputs <- MCInputs
    MaxInt = 5
    Sizes <- MCSizes
    MCPositions = {0, 1, 3, 4, 5}
INVARIANTS
    RoundTrip
    NeverRefused
    EncoderInv
    ErrorIsJustified
PROPERTIES
    WrittenStays
    Arrives
CHECK_DEADLOCK FALSE
