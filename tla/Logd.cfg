SPECIFICATION FairSpec
CONSTANTS
    WordBytes = 2
    MaxLength = 9
    HeaderRest = 2
    MaxTail = 1
    Lengths = {0, 3, 9, 10}
    MaxMessages = 2
INVARIANTS
    InStep
PROPERTIES
    FollowPrints
    Ends
