CONSTANTS
    c1 = c1
    c2 = c2
    Names <- MCNames
    Vals <- MCOneVal
    InsertSizes <- MCInsertSizes
    Types = {"I64", "Time", "Bool"}
    MaxRows = 3
    MaxTable = 1
    MaxCalls = 3
    ContinueAfterError = FALSE

SPECIFICATION Spec

INVARIANT BatchRowsUniform
INVARIANT CommitCannotPanic
INVARIANT RollbackRestores
INVARIANT StatsMatchContents

INVARIANT ColumnLengthsAgree
INVARIANT MinMaxMatchContents
SYMMETRY MCSymmetry
