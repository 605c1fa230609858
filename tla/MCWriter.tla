------------------------------ MODULE MCWriter ------------------------------
(***************************************************************************)
(* Model-checking instance of Writer: two column names, two payload       *)
(* values, Writers of 0, 1 or 2 rows on a batch of at most 3 rows.        *)
(***************************************************************************)
EXTENDS WriterRefinement

CONSTANTS c1, c2

MCNames == {c1, c2}
MCVals == {1, 2}
\* one payload value is enough where no dictionary tells values apart
MCOneVal == {1}
MCInsertSizes == {0, 1, 2}

\* the column names are interchangeable
MCSymmetry == Permutations(MCNames)
=============================================================================
