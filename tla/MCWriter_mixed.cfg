CONSTANTS
    c1 = c1
    c2 = c2
    Names <- MCNames
    Vals <- MCOneVal
    InsertSizes <- MCInsertSizes
    Types = {"F64", "I64", "U64", "Bool", "Tag", "Time"}
    MaxRows = 2
    MaxTable = 1
    MaxCalls = 3
    ContinueAfterError = FALSE

SPECIFICATION Spec

INVARIANT CommitCannotPanic
INVARIANT RollbackRestores
PROPERTY CommitNeverPanics

SYMMETRY MCSymmetry
