------------------------------- MODULE Writer -------------------------------
(***************************************************************************)
(* The row-append transaction of mutable_batch (src/mutable_batch/src/    *)
(* writer.rs) together with the part of MutableBatch, Column, the tag     *)
(* Dictionary and StatValues that the Writer mutates.                     *)
(*                                                                         *)
(* Data is abstracted to small integers: Vals stands for the f64, i64,    *)
(* u64 and string payloads; 0 is the slot a null row holds (0_f64, 0_i64, *)
(* an unset bit, an empty string) and INVALID_DID the code of a null tag. *)
(* Column indices are 1-based here, 0-based in the code.                  *)
(***************************************************************************)
EXTENDS Integers, Sequences, FiniteSets, SequencesExt, TLC

CONSTANTS
    Names,              \* column names (model values)
    Types,              \* the InfluxColumnTypes the caller writes
    Vals,               \* payload values
    InsertSizes,        \* the `to_insert` values a Writer is created with
    MaxRows,            \* bound on MutableBatch::row_count
    MaxTable,           \* bound on the local value table of write_tag_dict
    MaxCalls,           \* bound on the write calls made on one Writer
    ContinueAfterError  \* may the caller keep using a Writer after an Err?

AllTypes == {"F64", "I64", "U64", "Bool", "String", "Tag", "Time"}

ASSUME /\ Types \subseteq AllTypes
       /\ Vals \subseteq Nat \ {0}
       /\ InsertSizes \subseteq Nat /\ 0 \in InsertSizes
       /\ MaxRows \in Nat /\ MaxTable \in Nat /\ MaxCalls \in Nat
       /\ ContinueAfterError \in BOOLEAN

\* the Statistics variant commit's match pairs with a column's data: a
\* timestamp column stores I64 data, a tag column String statistics
StatsKind == [t \in AllTypes |-> CASE t = "Time" -> "I64"
                                   [] t = "Tag"  -> "String"
                                   [] OTHER      -> t]

NULL_SLOT == 0
INVALID_DID == -1
None == <<>>
Some(x) == <<x>>

VARIABLES
    columnNames,  \* MutableBatch::column_names: name -> column index
    columns,      \* MutableBatch::columns
    rowCount,     \* MutableBatch::row_count
    open,         \* a Writer borrows the batch
    initialRows,  \* Writer::initial_rows
    toInsert,     \* Writer::to_insert
    statistics,   \* Writer::statistics: <<column index, StatValues>>
    failed,       \* a write call of this Writer returned Err
    calls,        \* write calls made on this Writer (bounded by MaxCalls)
    ended,        \* how the last Writer ended: "none", "commit", "rollback"
    pre,          \* the batch when the current Writer was created (history)
    intended      \* name -> the cells the Writer's successful writes supplied (history)

vars == <<columnNames, columns, rowCount, open, initialRows, toInsert,
          statistics, failed, calls, ended, pre, intended>>

(***************************************************************************)
(* Sequence helpers: Vec::resize and Vec::truncate                         *)
(***************************************************************************)
Resize(s, n, x) == [i \in 1..n |-> IF i <= Len(s) THEN s[i] ELSE x]
Truncate(s, n) == IF Len(s) <= n THEN s ELSE SubSeq(s, 1, n)

\* s with vs[j] stored at 0-based offset offs[j], for j in DOMAIN vs
Place(s, offs, vs) ==
    [i \in DOMAIN s |-> IF \E j \in DOMAIN vs : offs[j] + 1 = i
                        THEN vs[CHOOSE j \in DOMAIN vs : offs[j] + 1 = i]
                        ELSE s[i]]

(***************************************************************************)
(* Collaborators (column.rs, dictionary, StatValues), modelled from spec  *)
(***************************************************************************)
Stats == [total : Nat, nulls : Nat, distinct : Nat, min : Seq(Int), max : Seq(Int)]

\* the smallest and the largest of the values of a sequence, if any
MinOf(vs) == IF vs = <<>> THEN None ELSE Some(Min(Range(vs)))
MaxOf(vs) == IF vs = <<>> THEN None ELSE Some(Max(Range(vs)))

\* StatValues::update_from: counts add up, min and max combine
MergeStats(s, new) ==
    [s EXCEPT !.total = @ + new.total, !.nulls = @ + new.nulls,
              !.min = MinOf(@ \o new.min), !.max = MaxOf(@ \o new.max)]

\* Column::new(row_count, type): row_count null rows
NewColumn(rows, type) ==
    [type  |-> type,
     valid |-> [i \in 1..rows |-> FALSE],
     data  |-> [i \in 1..rows |-> IF type = "Tag" THEN INVALID_DID ELSE NULL_SLOT],
     dict  |-> <<>>,
     stats |-> [total |-> rows, nulls |-> rows, distinct |-> 0, min |-> None, max |-> None]]

\* Column::push_nulls_to_len: pad the bitmap and the value store with
\* `delta` null entries; the bit set and the string array append them, a
\* Vec-backed store is resized to `len`
PushNullsToLen(col, len) ==
    LET delta == len - Len(col.valid)
        slot  == IF col.type = "Tag" THEN INVALID_DID ELSE NULL_SLOT
    IN  [col EXCEPT !.valid = @ \o [i \in 1..delta |-> FALSE],
                    !.data  = IF col.type \in {"Bool", "String"}
                              THEN @ \o [i \in 1..delta |-> slot]
                              ELSE Resize(@, len, slot),
                    !.stats = [@ EXCEPT !.total = @ + delta, !.nulls = @ + delta]]

\* Dictionary::lookup_value_or_insert, folded over the values of one call
Intern(dict, vs) ==
    FoldLeft(LAMBDA d, v : IF v \in Range(d) THEN d ELSE Append(d, v), dict, vs)

\* the code of a value: its insertion position
Code(dict, v) == (CHOOSE i \in DOMAIN dict : dict[i] = v) - 1

(***************************************************************************)
(* writer.rs helpers                                                       *)
(***************************************************************************)
\* set_position_iterator: the offsets a write fills, in increasing order
SetPositions(mask, n) ==
    IF mask = None THEN [i \in 1..n |-> i - 1]
    ELSE SetToSortSeq({i \in mask[1] : i < n}, <)

\* append_valid_mask: `n` bits taken from the mask, or all set
AppendValidMask(col, mask, n) ==
    [col EXCEPT !.valid = @ \o [i \in 1..n |-> mask = None \/ (i - 1) \in mask[1]]]

\* mutants of ColumnMut: the name is registered one slot off / no row check
ColumnMutNameOffByOne(name, type) ==
    LET isNew == name \notin DOMAIN columnNames
        idx   == IF isNew THEN Len(columns) + 1 ELSE columnNames[name]
        cols  == IF isNew THEN Append(columns, NewColumn(initialRows, type)) ELSE columns
    IN  [names  |-> IF isNew THEN columnNames @@ (name :> Len(columns)) ELSE columnNames,
         cols   |-> cols, idx |-> idx,
         result |-> CASE cols[idx].type # type               -> "TypeMismatch"
                      [] Len(cols[idx].valid) # initialRows -> "Panic"
                      [] OTHER                              -> "Ok"]
ColumnMutNoAssert(name, type) ==
    LET isNew == name \notin DOMAIN columnNames
        idx   == IF isNew THEN Len(columns) + 1 ELSE columnNames[name]
        cols  == IF isNew THEN Append(columns, NewColumn(initialRows, type)) ELSE columns
    IN  [names  |-> IF isNew THEN columnNames @@ (name :> idx) ELSE columnNames,
         cols   |-> cols, idx |-> idx,
         result |-> IF cols[idx].type # type THEN "TypeMismatch" ELSE "Ok"]

\* Writer::column_mut: register an unknown name, check type and row count
ColumnMut(name, type) ==
    LET isNew == name \notin DOMAIN columnNames
        idx   == IF isNew THEN Len(columns) + 1 ELSE columnNames[name]
        cols  == IF isNew THEN Append(columns, NewColumn(initialRows, type))
                 ELSE columns
    IN  [names  |-> IF isNew THEN columnNames @@ (name :> idx) ELSE columnNames,
         cols   |-> cols,
         idx    |-> idx,
         result |-> CASE cols[idx].type # type               -> "TypeMismatch"
                      [] Len(cols[idx].valid) # initialRows -> "Panic"
                      [] OTHER                              -> "Ok"]

\* mutants of RollbackColumn: the dictionary keeps one code too few / the
\* value store is not truncated
RollbackColumnOffByOne(col) ==
    LET data == Truncate(col.data, initialRows)
    IN  [col EXCEPT !.valid = Truncate(@, initialRows), !.data = data,
            !.dict = IF col.type # "Tag" THEN @ ELSE IF data = <<>> THEN <<>>
                     ELSE Truncate(@, Max(Range(data)))]
RollbackColumnKeepData(col) ==
    [col EXCEPT !.valid = Truncate(@, initialRows),
        !.dict = IF col.type # "Tag" THEN @ ELSE IF col.data = <<>> THEN <<>>
                 ELSE Truncate(@, Max(Range(col.data)) + 1)]

\* Drop for Writer with success == false: truncate every column, and each
\* tag dictionary to the largest code the retained rows still hold
RollbackColumn(col) ==
    LET data == Truncate(col.data, initialRows)
    IN  [col EXCEPT
            !.valid = Truncate(@, initialRows),
            !.data  = data,
            !.dict  = IF col.type # "Tag" THEN @
                      ELSE IF data = <<>> THEN <<>>
                      ELSE Truncate(@, Max(Range(data)) + 1)]

Rollback(cols) == [i \in DOMAIN cols |-> RollbackColumn(cols[i])]

\* The Writer is dropped (or unwinds from a panic) with the batch in state
\* <<names, cols>>: the rollback runs and the borrow ends.
Unwind(names, cols) ==
    /\ columnNames' = names
    /\ columns' = Rollback(cols)
    /\ open' = FALSE
    /\ ended' = "rollback"
    /\ intended' = <<>>
    /\ UNCHANGED <<rowCount, initialRows, toInsert, statistics, failed, pre>>

(***************************************************************************)
(* Writer operations                                                       *)
(***************************************************************************)
\* Writer::new: borrow the batch for `n` new rows
New(n) ==
    /\ ~open
    /\ rowCount + n <= MaxRows
    /\ open' = TRUE
    /\ initialRows' = rowCount
    /\ toInsert' = n
    /\ statistics' = <<>>
    /\ failed' = FALSE
    /\ calls' = 0
    /\ intended' = <<>>
    /\ pre' = [names |-> columnNames, columns |-> columns, rows |-> rowCount]
    /\ UNCHANGED <<columnNames, columns, rowCount, ended>>

\* mutant of WriteStats: update_for_nulls is forgotten
WriteStatsNoNulls(vals) ==
    [total |-> Len(vals), nulls |-> 0, distinct |-> 0, min |-> MinOf(vals), max |-> MaxOf(vals)]

\* mutant of WriteStats: the maximum is overwritten by each value
WriteStatsLastMax(vals) ==
    [total |-> toInsert, nulls |-> toInsert - Len(vals), distinct |-> 0,
     min |-> MinOf(vals), max |-> IF vals = <<>> THEN None ELSE Some(Last(vals))]

\* the StatValues a successful write defers: update(value) for each value
\* (count, min, max), then update_for_nulls(to_insert - total_count)
WriteStats(vals) ==
    [total |-> toInsert, nulls |-> toInsert - Len(vals), distinct |-> 0,
     min |-> MinOf(vals), max |-> MaxOf(vals)]

\* the cells a successful write supplies: vals[j] at row offset pos[j],
\* null elsewhere (history for the refinement mapping, not code)
Block(pos, vals) ==
    [i \in 1..toInsert |-> IF \E j \in DOMAIN vals : pos[j] = i - 1
                           THEN <<vals[CHOOSE j \in DOMAIN vals : pos[j] = i - 1]>>
                           ELSE <<>>]

\* The shape shared by every write_* after column_mut (`cm`): the loop over
\* the set positions leaves the column as `filled`, stopping early with an
\* Err (`err`) or a panic (`panics`); on success the validity bits and the
\* deferred StatValues of the values `vals` follow, as the Statistics
\* variant `kind`.
WriteColumn(name, cm, mask, kind, vals, err, panics, filled, block) ==
    LET stats == WriteStats(vals)
    IN
    /\ open
    /\ ~failed \/ ContinueAfterError
    /\ calls < MaxCalls
    /\ calls' = calls + 1
    /\ CASE cm.result = "TypeMismatch" ->
                /\ columnNames' = cm.names
                /\ columns' = cm.cols
                /\ failed' = TRUE
                /\ UNCHANGED <<rowCount, open, initialRows, toInsert, statistics, ended, pre, intended>>
         [] cm.result = "Panic" \/ (cm.result = "Ok" /\ panics) ->
                Unwind(cm.names, cm.cols)
         [] cm.result = "Ok" /\ ~panics /\ err ->
                /\ columnNames' = cm.names
                /\ columns' = [cm.cols EXCEPT ![cm.idx] = filled]
                /\ failed' = TRUE
                /\ UNCHANGED <<rowCount, open, initialRows, toInsert, statistics, ended, pre, intended>>
         [] cm.result = "Ok" /\ ~panics /\ ~err ->
                /\ columnNames' = cm.names
                /\ columns' = [cm.cols EXCEPT ![cm.idx] = AppendValidMask(filled, mask, toInsert)]
                /\ statistics' = Append(statistics, <<cm.idx, kind, stats>>)
                /\ intended' = intended @@ (name :> block)
                /\ UNCHANGED <<rowCount, open, initialRows, toInsert, failed, ended, pre>>

\* the valid masks a caller can pass for `n` rows: none, or one byte whose
\* bits may also be set past `n` (bit n stands for all of them), which
\* set_position_iterator's take_while and append_bits both leave out
Masks(n) == {None} \cup {Some(m) : m \in SUBSET (0..n)}

\* mutant of VecFill: values are stored at the mask offset, not after the
\* rows already in the batch
VecFillNoOffset(col, pos, vals) ==
    [col EXCEPT !.data = Place(Resize(@, initialRows + toInsert, NULL_SLOT),
                               [j \in 1..Len(vals) |-> pos[j]], vals)]

\* the loop of write_f64 / write_i64 / write_u64 / write_time: resize the
\* Vec to the new length, store each value at its row
VecFill(col, pos, vals) ==
    [col EXCEPT !.data = Place(Resize(@, initialRows + toInsert, NULL_SLOT),
                               [j \in 1..Len(vals) |-> initialRows + pos[j]], vals)]

\* mutant of WriteNumeric: every numeric write pushes Statistics::I64, the
\* variant of the method it was copied from
WriteNumericI64Stats(type) ==
    \E name \in Names, mask \in Masks(toInsert) :
    LET pos == SetPositions(mask, toInsert) IN
    \E vals \in BoundedSeq(Vals, Len(pos)) :
    LET cm == ColumnMut(name, type) IN
    WriteColumn(name, cm, mask, "I64", vals, Len(vals) < Len(pos), FALSE,
                VecFill(cm.cols[cm.idx], pos, vals), Block(pos, vals))

\* write_f64 / write_i64 / write_u64
WriteNumeric(type) ==
    \E name \in Names, mask \in Masks(toInsert) :
    LET pos == SetPositions(mask, toInsert) IN
    \E vals \in BoundedSeq(Vals, Len(pos)) :
    LET cm == ColumnMut(name, type) IN
    WriteColumn(name, cm, mask, type, vals, Len(vals) < Len(pos), FALSE,
                VecFill(cm.cols[cm.idx], pos, vals), Block(pos, vals))

\* write_time: no mask, every row needs a value
WriteTime ==
    \E name \in Names :
    LET pos == SetPositions(None, toInsert) IN
    \E vals \in BoundedSeq(Vals, toInsert) :
    LET cm == ColumnMut(name, "Time") IN
    WriteColumn(name, cm, None, "I64", vals, Len(vals) < toInsert, FALSE,
                VecFill(cm.cols[cm.idx], pos, vals), Block(pos, vals))

\* the rows of the true values among the first values of a bool write
TrueRows(pos, vals) ==
    LET trues == SelectSeq([j \in 1..Len(vals) |-> <<j, vals[j]>>], LAMBDA p : p[2])
    IN  [j \in 1..Len(trues) |-> initialRows + pos[trues[j][1]]]

\* mutant of BoolFill: the bit set is not grown before the values are set
BoolFillNoAppend(col, pos, vals) ==
    [col EXCEPT !.data = Place(@, TrueRows(pos, vals), [j \in DOMAIN TrueRows(pos, vals) |-> 1])]

\* the loop of write_bool: append `to_insert` unset bits, set the true values
BoolFill(col, pos, vals) ==
    [col EXCEPT !.data = Place(@ \o [i \in 1..toInsert |-> NULL_SLOT],
                               TrueRows(pos, vals),
                               [j \in DOMAIN TrueRows(pos, vals) |-> 1])]

\* write_bool
WriteBool ==
    \E name \in Names, mask \in Masks(toInsert) :
    LET pos == SetPositions(mask, toInsert) IN
    \E vals \in BoundedSeq(BOOLEAN, Len(pos)) :
    LET cm   == ColumnMut(name, "Bool")
        bits == [j \in DOMAIN vals |-> IF vals[j] THEN 1 ELSE 0]
    IN  WriteColumn(name, cm, mask, "Bool", bits, Len(vals) < Len(pos), FALSE,
                    BoolFill(cm.cols[cm.idx], pos, vals), Block(pos, bits))

\* the loop of write_string: per value, extend with empty strings up to its
\* row and append it; nothing pads after the last value
StringFill(col, pos, vals) ==
    [col EXCEPT !.data =
        IF vals = <<>> THEN @
        ELSE Place(Resize(@, initialRows + pos[Len(vals)] + 1, NULL_SLOT),
                   [j \in 1..Len(vals) |-> initialRows + pos[j]], vals)]

\* write_string: `initial_rows + idx - col_data.len()` underflows, a panic,
\* when the array already reaches past the first row to fill
WriteString ==
    \E name \in Names, mask \in Masks(toInsert) :
    LET pos == SetPositions(mask, toInsert) IN
    \E vals \in BoundedSeq(Vals, Len(pos)) :
    LET cm  == ColumnMut(name, "String")
        col == cm.cols[cm.idx]
    IN  WriteColumn(name, cm, mask, "String", vals, Len(vals) < Len(pos),
                    vals # <<>> /\ initialRows + pos[1] < Len(col.data),
                    StringFill(col, pos, vals), Block(pos, vals))

\* mutant of TagFill: the code array is not resized before the codes are set
TagFillNoResize(col, pos, vals) ==
    LET dict == Intern(col.dict, vals)
    IN  [col EXCEPT !.dict = dict,
            !.data = Place(@, [j \in 1..Len(vals) |-> initialRows + pos[j]],
                              [j \in 1..Len(vals) |-> Code(dict, vals[j])])]

\* the loop of write_tag / write_tag_dict: codes from the column dictionary
TagFill(col, pos, vals) ==
    LET dict == Intern(col.dict, vals)
    IN  [col EXCEPT
            !.dict = dict,
            !.data = Place(Resize(@, initialRows + toInsert, INVALID_DID),
                           [j \in 1..Len(vals) |-> initialRows + pos[j]],
                           [j \in 1..Len(vals) |-> Code(dict, vals[j])])]

\* write_tag
WriteTag ==
    \E name \in Names, mask \in Masks(toInsert) :
    LET pos == SetPositions(mask, toInsert) IN
    \E vals \in BoundedSeq(Vals, Len(pos)) :
    LET cm == ColumnMut(name, "Tag") IN
    WriteColumn(name, cm, mask, "String", vals, Len(vals) < Len(pos), FALSE,
                TagFill(cm.cols[cm.idx], pos, vals), Block(pos, vals))

\* the values write_tag_dict resolves before it stops: keys are read in
\* order, and the first key past the local table is KeyNotFound
KeyedValues(keys, table) ==
    LET bad == {j \in DOMAIN keys : keys[j] >= Len(table)}
        k   == IF bad = {} THEN Len(keys) ELSE Min(bad) - 1
    IN  [j \in 1..k |-> table[keys[j] + 1]]

\* mutant of WriteTagDict: every entry of the local table is interned up
\* front instead of lazily
WriteTagDictEager ==
    \E name \in Names, mask \in Masks(toInsert), table \in BoundedSeq(Vals, MaxTable) :
    LET pos == SetPositions(mask, toInsert) IN
    \E keys \in BoundedSeq(0..MaxTable, Len(pos)) :
    LET cm   == ColumnMut(name, "Tag")
        vals == KeyedValues(keys, table)
    IN  WriteColumn(name, cm, mask, "String", vals, Len(vals) < Len(pos), FALSE,
            TagFill([cm.cols[cm.idx] EXCEPT !.dict = Intern(@, table)], pos, vals),
            Block(pos, vals))

\* write_tag_dict: values of the local table are interned lazily, only when
\* a key refers to them (the per-entry cache does not change which codes
\* lookup_value_or_insert returns)
WriteTagDict ==
    \E name \in Names, mask \in Masks(toInsert), table \in BoundedSeq(Vals, MaxTable) :
    LET pos == SetPositions(mask, toInsert) IN
    \E keys \in BoundedSeq(0..MaxTable, Len(pos)) :
    LET cm   == ColumnMut(name, "Tag")
        vals == KeyedValues(keys, table)
    IN  WriteColumn(name, cm, mask, "String", vals, Len(vals) < Len(pos), FALSE,
                    TagFill(cm.cols[cm.idx], pos, vals), Block(pos, vals))

\* mutant of CommitMerge: the null bucket is decided by the write's own
\* null count instead of the merged one
CommitMergeNewNulls(col, new) ==
    LET s == MergeStats(col.stats, new)
    IN  [col EXCEPT !.stats =
            IF col.type # "Tag" THEN s
            ELSE [s EXCEPT !.distinct = Len(col.dict) + (IF new.nulls = 0 THEN 0 ELSE 1)]]

\* commit's match arm for a written column: update_from, and for a tag the
\* distinct count from the dictionary size and the merged null count
CommitMerge(col, new) ==
    LET s == MergeStats(col.stats, new)
    IN  [col EXCEPT !.stats =
            IF col.type # "Tag" THEN s
            ELSE [s EXCEPT !.distinct = Len(col.dict) + (IF s.nulls = 0 THEN 0 ELSE 1)]]

\* mutant of CommitColumn: an unwritten column is not padded
CommitColumnNoPad(col, final, rec) ==
    IF Len(col.valid) = initialRows THEN col ELSE CommitMerge(col, rec)

\* the body of commit's loop for one column: pad it if it was not written,
\* else merge its statistics record `rec`
CommitColumn(col, final, rec) ==
    IF Len(col.valid) = initialRows THEN PushNullsToLen(col, final)
    ELSE CommitMerge(col, rec)

\* mutant of SortedStatistics: the records are left in write order
SortedStatisticsUnsorted == statistics

\* commit's sort_unstable_by_key on the column index (at most one record per
\* column, so stability does not matter)
SortedStatistics == SortSeq(statistics, LAMBDA a, b : a[1] < b[1])

\* Writer::commit: sort the deferred statistics by column, pad every column
\* that was not written with nulls, merge the statistics of the written
\* ones, set row_count. A failing assert, `unwrap` or a record of the wrong
\* Statistics variant (`unreachable!`) panics part-way, and Drop then rolls
\* back with the columns before the failing one already padded and merged.
Commit ==
    /\ open
    /\ ~failed \/ ContinueAfterError
    /\ LET final  == initialRows + toInsert
           sorted == SortedStatistics
           n      == Len(columns)
           written(i) == Len(columns[i].valid) # initialRows
           next(i) == Cardinality({j \in 1..i - 1 : written(j)}) + 1
           ok(i)   == \/ ~written(i)
                      \/ /\ Len(columns[i].valid) = final
                         /\ next(i) <= Len(sorted)
                         /\ sorted[next(i)][1] = i
                         /\ sorted[next(i)][2] = StatsKind[columns[i].type]
           done(i) == CommitColumn(columns[i], final,
                                   IF written(i) THEN sorted[next(i)][3] ELSE None)
           bad == {i \in 1..n : ~ok(i)}
       IN  IF bad = {}
           THEN /\ columns' = [i \in 1..n |-> done(i)]
                /\ rowCount' = final
                /\ open' = FALSE
                /\ ended' = "commit"
                /\ intended' = <<>>
                /\ UNCHANGED <<columnNames, initialRows, toInsert, statistics, failed, calls, pre>>
           ELSE /\ Unwind(columnNames, [i \in 1..n |-> IF i < Min(bad) THEN done(i) ELSE columns[i]])
                /\ UNCHANGED calls

\* The caller drops the Writer without committing
Drop ==
    /\ open
    /\ Unwind(columnNames, columns)
    /\ UNCHANGED calls

Init ==
    /\ columnNames = <<>>
    /\ columns = <<>>
    /\ rowCount = 0
    /\ open = FALSE
    /\ initialRows = 0
    /\ toInsert = 0
    /\ statistics = <<>>
    /\ failed = FALSE
    /\ calls = 0
    /\ intended = <<>>
    /\ ended = "none"
    /\ pre = [names |-> columnNames, columns |-> columns, rows |-> rowCount]

Next ==
    \/ \E n \in InsertSizes : New(n)
    \/ \E t \in Types \cap {"F64", "I64", "U64"} : WriteNumeric(t)
    \/ "Time" \in Types /\ WriteTime
    \/ "Bool" \in Types /\ WriteBool
    \/ "String" \in Types /\ WriteString
    \/ "Tag" \in Types /\ WriteTag
    \/ "Tag" \in Types /\ WriteTagDict
    \/ Commit
    \/ Drop

Spec == Init /\ [][Next]_vars

(***************************************************************************)
(* Properties                                                              *)
(***************************************************************************)
ColumnT == [type : AllTypes, valid : Seq(BOOLEAN), data : Seq(Int),
            dict : Seq(Vals), stats : Stats]

TypeOK ==
    /\ DOMAIN columnNames \subseteq Names
    /\ \A n \in DOMAIN columnNames : columnNames[n] \in 1..Len(columns)
    /\ columns \in Seq(ColumnT)
    /\ rowCount \in 0..MaxRows
    /\ open \in BOOLEAN /\ failed \in BOOLEAN /\ calls \in 0..MaxCalls
    /\ initialRows \in 0..MaxRows /\ toInsert \in InsertSizes
    /\ statistics \in Seq((1..Len(columns)) \X Range(StatsKind) \X Stats)
    /\ ended \in {"none", "commit", "rollback"}

NullRows(col) == Cardinality({r \in DOMAIN col.valid : ~col.valid[r]})

\* Spec 3 (batch invariant) and 4.5: outside a Writer every column's
\* validity bitmap has exactly row_count bits, whether the last Writer
\* committed (writes plus null padding) or was dropped (truncation).
BatchRowsUniform ==
    ~open => \A i \in DOMAIN columns : Len(columns[i].valid) = rowCount

\* Writer::commit never panics: while a Writer with rows to add is live,
\* each column is either untouched (initial_rows bits) or fully written
\* (initial_rows + to_insert bits), and the deferred statistics hold exactly
\* one record per fully written column, of the Statistics variant that
\* matches the column's data, as commit's asserts, `statistics.next()
\* .unwrap()` and the `unreachable!` arm of its match require.
CommitCannotPanic ==
    open /\ toInsert > 0 =>
        LET written == {i \in DOMAIN columns : Len(columns[i].valid) # initialRows}
        IN  /\ \A i \in written : Len(columns[i].valid) = initialRows + toInsert
            /\ Len(statistics) = Cardinality(written)
            /\ {statistics[j][1] : j \in DOMAIN statistics} = written
            /\ \A j \in DOMAIN statistics :
                   statistics[j][2] = StatsKind[columns[statistics[j][1]].type]

\* Spec 8 atomicity: after a Writer is dropped without commit (after an
\* Err, a panic, or by the caller) the row count, every column that existed
\* before, its tag dictionary and its statistics are exactly as they were;
\* a column the Writer created stays registered but holds only null rows.
RollbackRestores ==
    ~open /\ ended = "rollback" =>
        /\ rowCount = pre.rows
        /\ \A n \in DOMAIN pre.names : columnNames[n] = pre.names[n]
        /\ \A i \in DOMAIN pre.columns : columns[i] = pre.columns[i]
        /\ \A i \in DOMAIN columns \ DOMAIN pre.columns :
               columns[i] = NewColumn(pre.rows, columns[i].type)

\* Deferred statistics (spec 9): outside a Writer a column's statistics
\* count exactly its rows and its null rows, so statistics of dropped
\* Writers never leak in and padding is counted.
StatsMatchContents ==
    ~open => \A i \in DOMAIN columns :
        /\ columns[i].stats.total = Len(columns[i].valid)
        /\ columns[i].stats.nulls = NullRows(columns[i])

\* Spec 3 dictionary invariant: outside a Writer a tag dictionary holds
\* distinct values, every row's code is a dictionary code exactly when the
\* row is valid, and every dictionary code is used by some row (which is
\* what lets Drop truncate to the largest retained code).
DictCodesLive ==
    ~open => \A i \in DOMAIN columns : columns[i].type = "Tag" =>
        LET c == columns[i] IN
        /\ IsInjective(c.dict)
        /\ \A r \in DOMAIN c.data \cap DOMAIN c.valid :
               c.data[r] \in (IF c.valid[r] THEN 0..Len(c.dict) - 1 ELSE {INVALID_DID})
        /\ \A code \in 0..Len(c.dict) - 1 : \E r \in DOMAIN c.data : c.data[r] = code

\* Spec 3 and 4.4: dictionary codes are assigned in order of first use.
\* Outside a Writer, the code of each row of a tag column is at most the
\* number of distinct codes in the rows before it, so code k first shows
\* up after codes 0..k-1. write_tag interns in row order, and
\* write_tag_dict holds this only because it resolves local table entries
\* lazily, in key order, rather than in table order.
DictFirstUseOrder ==
    ~open => \A i \in DOMAIN columns : columns[i].type = "Tag" =>
        LET c == columns[i] IN
        \A r \in DOMAIN c.data :
            c.data[r] <= Cardinality({c.data[q] : q \in 1..r - 1} \ {INVALID_DID})

\* Spec 2: all columns of a batch have the same length. Outside a Writer
\* every column's value store holds as many rows as its validity bitmap.
ColumnLengthsAgree ==
    ~open => \A i \in DOMAIN columns : Len(columns[i].data) = Len(columns[i].valid)

\* Spec 8 atomicity, read literally: a Writer dropped without commit leaves
\* the batch's set of columns as it was, so a name the batch did not know
\* is still unknown and a later write may give it any type.
RollbackForgetsNewNames ==
    ~open /\ ended = "rollback" => DOMAIN columnNames = DOMAIN pre.names


\* the values a reader finds in the valid rows of a column
ValidValues(c) ==
    {IF c.type = "Tag" THEN c.dict[c.data[r] + 1] ELSE c.data[r] :
        r \in {r \in DOMAIN c.valid \cap DOMAIN c.data : c.valid[r]}}

\* Outside a Writer every column's min and max statistics are the smallest
\* and largest value its valid rows hold, or absent when none is valid:
\* each write folds exactly the values it stored (writer.rs stats.update in
\* every write loop), Drop discards the deferred records, and commit merges
\* them (update_from) only for the columns whose rows it keeps.
MinMaxMatchContents ==
    ~open => \A i \in DOMAIN columns :
        LET vs == ValidValues(columns[i])
        IN  /\ columns[i].stats.min = (IF vs = {} THEN None ELSE Some(Min(vs)))
            /\ columns[i].stats.max = (IF vs = {} THEN None ELSE Some(Max(vs)))

\* the number of distinct values among the valid rows of a tag column,
\* plus the null bucket when some row is null (spec glossary)
DistinctCells(c) ==
    Cardinality({c.dict[c.data[r] + 1] : r \in {r \in DOMAIN c.valid : c.valid[r]}})
    + (IF \E r \in DOMAIN c.valid : ~c.valid[r] THEN 1 ELSE 0)

\* A commit (writer.rs commit, lines 522-527) leaves every tag column it
\* merged a write into with a distinct_count equal to the number of
\* distinct values its rows hold, counting null once: the code derives it
\* from the dictionary's size and the merged null count, which is right
\* only if every dictionary entry is in use.
DistinctCountExact ==
    [][open /\ ~open' /\ ended' = "commit" =>
         \A i \in DOMAIN columns :
             columns[i].type = "Tag" /\ Len(columns[i].valid) # initialRows =>
                 columns'[i].stats.distinct = DistinctCells(columns'[i])]_vars


\* Writer::commit never panics: every commit step finishes the commit
\* (row_count set, `success`) instead of unwinding through Drop from a
\* failed assert, `statistics.next().unwrap()` or the `unreachable!` arm.
\* This needs the records sorted into column order (line 485) when the
\* Writer wrote its columns out of order, and holds for empty Writers.
CommitNeverPanics == [][Commit => ended' = "commit"]_vars

=============================================================================
