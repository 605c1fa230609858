CONSTANTS
    c1 = c1
    c2 = c2
    Names <- MCNames
    Vals <- MCVals
    InsertSizes <- MCInsertSizes
    Types = {"F64", "Time"}
    MaxRows = 3
    MaxTable = 1
    MaxCalls = 2
    ContinueAfterError = FALSE

SPECIFICATION Spec

PROPERTY AtomicBatchSpec
SYMMETRY MCSymmetry
