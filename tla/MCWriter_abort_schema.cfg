CONSTANTS
    c1 = c1
    c2 = c2
    Names <- MCNames
    Vals <- MCOneVal
    InsertSizes <- MCInsertSizes
    Types = {"I64", "Time"}
    MaxRows = 2
    MaxTable = 1
    MaxCalls = 3
    ContinueAfterError = FALSE

SPECIFICATION Spec

INVARIANT RollbackForgetsNewNames

SYMMETRY MCSymmetry
