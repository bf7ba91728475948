SPECIFICATION Spec
CONSTANTS
    DataSize = 500
    TextLength = 3
    Long = 450
    CountMax = 17
INVARIANTS
    DataExact
    CutOnlyLists
    
    SignalTold
    StringIntact
    PrintsWhatWasSent
