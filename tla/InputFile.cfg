SPECIFICATION Spec
CONSTANTS
    BufLen = 4
    ReadLen = 5
    PacketLen = 3
    MaxCells = 6
    MaxBytes = 8
    MaxLong = 12
    MaxPackets = 5
INVARIANTS
    OneFrameEach
    NothingLost
    StaleOnlyAtEnd
    OneUnitEach
PROPERTIES
    EndsOrFull
