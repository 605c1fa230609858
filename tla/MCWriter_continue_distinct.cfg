CONSTANTS
    c1 = c1
    c2 = c2
    Names <- MCNames
    Vals <- MCVals
    InsertSizes <- MCInsertSizes
    Types = {"Tag"}
    MaxRows = 3
    MaxTable = 1
    MaxCalls = 3
    ContinueAfterError = TRUE

SPECIFICATION Spec

PROPERTY DistinctCountExact

SYMMETRY MCSymmetry
