CONSTANTS
    c1 = c1
    c2 = c2
    Names <- MCNames
    Vals <- MCOneVal
    InsertSizes <- MCInsertSizes
    Types = {"Bool"}
    MaxRows = 3
    MaxTable = 1
    MaxCalls = 3
    ContinueAfterError = TRUE

SPECIFICATION Spec

PROPERTY AtomicBatchSpec

SYMMETRY MCSymmetry
