CONSTANTS
    c1 = c1
    c2 = c2
    Names <- MCNames
    Vals <- MCOneVal
    InsertSizes <- MCInsertSizes
    Types = {"String", "Bool"}
    MaxRows = 2
    MaxTable = 1
    MaxCalls = 3
    ContinueAfterError = TRUE

SPECIFICATION Spec

INVARIANT BatchRowsUniform
INVARIANT CommitCannotPanic
INVARIANT StatsMatchContents

SYMMETRY MCSymmetry
