SPECIFICATION Spec
CONSTANTS
    Versions <- MCVersions
    Unencodable = {4}
    Invalid = {3}
    Unmappable = {2}
    MaxFaults = 3
INVARIANTS
    OkMeansWritten
    FaultlessRunDecides
    OutputsBelongTogether
    BrokenDocumentsAreNotRead
CHECK_DEADLOCK FALSE
