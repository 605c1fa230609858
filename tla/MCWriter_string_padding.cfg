CONSTANTS
    c1 = c1
    c2 = c2
    Names <- MCNames
    Vals <- MCOneVal
    InsertSizes <- MCInsertSizes
    Types = {"String"}
    MaxRows = 3
    MaxTable = 1
    MaxCalls = 3
    ContinueAfterError = FALSE

SPECIFICATION Spec

INVARIANT ColumnLengthsAgree

SYMMETRY MCSymmetry
