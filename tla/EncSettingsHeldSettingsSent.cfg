SPECIFICATION Spec
CONSTANTS
    FpsValues = {0, 3}
    BpsValues = {0, 5, 20}
    MinQpValues = {0, 2, 4}
    MaxQpValues = {0, 1, 3, 5}
    FixedQpValues = {0, 3}
    NotGiven = NotGiven
    Fraction = 4
    Word = 8
    BpsStep = 5
    FwMinQp = 1
    FwMaxQp = 3
INVARIANTS
    HeldSettingsSent
