SPECIFICATION FairSpec
CONSTANTS
    NReads = 4
    UserptrCount = 2
    MinCapture = {1, 2}
    SecureCounts = {1, 2}
    SecureResetCounts = {1, 2}
    ChangeAt = {1, 3}
    Depth = 2
    MaxErrors = 1
INVARIANTS
    PendingExact
    DoneComplete
    NoStall
PROPERTIES
    Ends
