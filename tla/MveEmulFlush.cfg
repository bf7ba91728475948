SPECIFICATION Spec
CONSTANTS
    NLsid = 2
    NWindow = 2
    Maps = {m1, m2}
    Roots = {1}
    Pages = {p1, p2}
    Frames = {1, 2}
    MaxWrites = 2
    UNMAPPED = UNMAPPED
    NULL = NULL
PROPERTIES
    FlushEmptiesTlb
