SPECIFICATION ThreadSpec
CONSTANTS
    Encoders = {TRUE}
    NFrames = 4
    EofLates = {TRUE, FALSE}
    GeneralBefore = {1, 3, 5}
    FrameLimits = {0, 3}
    TryStop = FALSE
    InCount = 2
    OutCount = 1
    ExtraCount = 1
    MinCapture = {1}
    ChangeAt = {}
    Depth = 2
    MaxErrors = 1
    MayFail = TRUE
INVARIANTS
    InputExitComplete
PROPERTIES
    ImplementsStream
