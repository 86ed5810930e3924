SPECIFICATION Spec
CONSTANTS
    Nil = Nil
    a = a
    b = b
    c = c
    Objects = {a, b, c}
    Heaps <- MCHeaps
    Roots <- MCRoots
    Namings <- MCNamings
INVARIANTS
    EqualIsBisimilar
    DifferentIsNotBisimilar
    NoPairIsNested
CHECK_DEADLOCK FALSE
