CONSTANTS
    c1 = c1
    c2 = c2
    Names <- MCNames
    Vals <- MCVals
    InsertSizes <- MCInsertSizes
    Types = {"Tag"}
    MaxRows = 3
    MaxTable = 2
    MaxCalls = 2
    ContinueAfterError = FALSE

SPECIFICATION Spec

INVARIANT TypeOK
INVARIANT BatchRowsUniform
INVARIANT CommitCannotPanic
INVARIANT RollbackRestores
INVARIANT StatsMatchContents
INVARIANT DictCodesLive
INVARIANT DictFirstUseOrder
INVARIANT ColumnLengthsAgree
INVARIANT MinMaxMatchContents
PROPERTY DistinctCountExact
SYMMETRY MCSymmetry
