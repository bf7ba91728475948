SPECIFICATION FairSpec
CONSTANTS
    Encoders = {TRUE, FALSE}
    EofLates = {TRUE, FALSE}
    FrameLimits = {0, 2}
    NFrames = 3
    GeneralBefore = {1, 3, 4}
    TryStop = TRUE
    InCount = 2
    OutCount = 1
    ExtraCount = 1
    MinCapture = {1, 2}
    ChangeAt = {1, 3}
    Depth = 2
    MaxErrors = 1
    MayFail = TRUE
INVARIANTS
    TypeOK
    PendingExact
    BufferOwnership
    StopAfterLast
    NothingAfterLast
    NoStall
PROPERTIES
    ResetOnlyOnChange
    UnansweredOnlyBeforeEvent
    ImplementsStream
    ChangeAnswered
