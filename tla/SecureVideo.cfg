SPECIFICATION FairSpec
CONSTANTS
    NReads = 3
    ChangeAt = {1, 3}
    Depth = 2
    MaxErrors = 1
    Grants = {1, 2}
    ResetGrants = {1, 3}
    Job = {fw, mem}
    Firmware = {fw}
    HasIonMap = TRUE
    MaxFd = 7
INVARIANTS
    FlagsExact
    WrittenUsable
PROPERTIES
    ImplementsPlayer
