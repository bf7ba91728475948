SPECIFICATION FairSpec
CONSTANTS
    NLsid = 3
    NWindow = 4
    Maps = {m1, m2}
    Roots = {1}
    Pages = {p1, p2}
    Frames = {1, 2}
    MaxWrites = 1
    UNMAPPED = UNMAPPED
    NULL = NULL
INVARIANTS
    MapOwnership
    NoDanglingMmap
PROPERTIES
    RemovalEnds
