-------------------------- MODULE WriterRefinement --------------------------
(***************************************************************************)
(* Writer implements AtomicBatch. The batch a reader sees is the table of  *)
(* logical cells of every column: a row's cell is its value when its      *)
(* validity bit is set (a tag's value is its dictionary entry) and null   *)
(* otherwise; a name with no column reads as nulls. While a Writer is     *)
(* open the abstract table is the batch as the Writer found it, since     *)
(* nothing a Writer does is visible before commit.                        *)
(*                                                                         *)
(* Steps: New is Begin; a successful write is Stage; a write that fails  *)
(* after registering a new name is Register; other failed writes stutter; *)
(* a panic and Drop are Abort; a successful commit is Commit.             *)
(***************************************************************************)
EXTENDS Writer

\* the cell a reader sees at row i of column col
Cell(col, i) ==
    IF i <= Len(col.valid) /\ col.valid[i] /\ i <= Len(col.data)
    THEN IF col.type = "Tag" THEN <<col.dict[col.data[i] + 1]>> ELSE <<col.data[i]>>
    ELSE <<>>

\* the logical table of a batch with `rows` rows
View(names, cols, rows) ==
    [n \in Names |-> IF n \in DOMAIN names
                     THEN [i \in 1..rows |-> Cell(cols[names[n]], i)]
                     ELSE [i \in 1..rows |-> <<>>]]

AB == INSTANCE AtomicBatch WITH
        Payloads <- Vals \cup {0, 1},
        table <- IF open THEN View(pre.names, pre.columns, pre.rows)
                 ELSE View(columnNames, columns, rowCount),
        types <- [n \in DOMAIN columnNames |-> columns[columnNames[n]].type],
        rows  <- rowCount,
        txn   <- IF open THEN [open |-> TRUE, size |-> toInsert, staged |-> intended]
                 ELSE [open |-> FALSE, size |-> 0, staged |-> <<>>]

\* Every behaviour of the Writer is a behaviour of AtomicBatch: a commit
\* appends to every column exactly the cells the successful writes of the
\* Writer supplied (nulls for the others) and a dropped or panicking
\* Writer leaves every value of the batch as it was (writer.rs commit and
\* Drop).
AtomicBatchSpec == AB!Spec
=============================================================================
