# TLA+ model of the mutable_batch Writer

This directory holds a TLC-checked model of `src/mutable_batch/src/writer.rs`. That file is the
row-append transaction of IOx's in-memory `MutableBatch`. The model also covers the parts of `Column`,
the tag dictionary and `StatValues` that the Writer changes. Those collaborators are not in this
repository snapshot, so they are modelled from `spec.md`.

## 1. Inventory

### Components and their state

| Component | State | Operations (that change state) | In source |
|---|---|---|---|
| **Writer** (transaction) | `batch` (exclusive borrow), `initial_rows`, `to_insert`, `statistics: Vec<(col_idx, Statistics)>`, `success` | `new`, `write_f64/i64/u64/bool/string/tag/tag_dict/time`, `column_mut`, `commit`, `Drop` (rollback) | writer.rs |
| **MutableBatch** | `row_count`, `columns`, `column_names` (name to index) | changed only through the Writer | lib.rs (absent) |
| **Column** | `influx_type`, `valid` bitmap, `data` (F64/I64/U64 `Vec`, Bool bit set, `PackedStringArray`, Tag codes plus dictionary), cumulative `StatValues` | `Column::new`, `push_nulls_to_len`, truncation in Drop | column.rs (absent) |
| **Dictionary** | interned strings, with codes dense in insertion order | `lookup_value_or_insert`, `truncate(max_code)`, `clear` | arrow_util (absent) |
| **Statistics** | min, max, total_count, null_count, distinct_count | `update`, `update_for_nulls`, `update_from` | data_types (absent) |
| **Validity bitmap** | bits | `append_bits`, `append_set`, `truncate` | arrow_util (absent) |

### How they interact

Everything is single-threaded and synchronous. A `Writer` mutably borrows the batch for its whole
lifetime.
- Each `write_*` call starts with `column_mut`. That call registers an unknown name and pushes a new
  column of `initial_rows` nulls. It then checks the type (recoverable `TypeMismatch`) and asserts
  that the column still has `initial_rows` bits (a panic on a second write of the same column).
- The write then grows the value store. It loops over the set positions of the mask, pulling values
  from the iterator (`InsufficientValues`) or, for `write_tag_dict`, local keys (`KeyNotFound`).
  Tag values are interned in the column dictionary.
- Only after the loop does the write append the validity bits and push a deferred statistics record.
- `commit` sorts the records by column index. Columns that were not written are padded with nulls;
  written columns merge their record (tags also get a distinct count), then `row_count` is set.
- `Drop` with `success == false` truncates every column to `initial_rows`. Each tag dictionary is
  truncated to the largest code the retained rows still hold. Drop runs when the caller drops the
  Writer, when an Err is propagated with `?`, and when a panic (a failed assert, an underflow)
  unwinds through the Writer.

### What is hard

- **Partial failure.** A write can fail after it has resized the store, stored some values and
  interned some dictionary entries, but before it has appended the validity bits. Rollback by length
  has to undo all of it, and so does commit if the caller carries on.
- **Panics as control flow.** A second write of a column, or the `write_string` underflow, unwinds
  through `Drop`.
- **Ordering.** Statistics are produced in write order and consumed in column order.
- **Protocol sequences over several Writers.** Dictionary entries left behind by one Writer change
  what a later rollback does.
- **Boundaries.** `to_insert = 0`, all-null masks, and a tag column whose retained rows are all null
  (max code `INVALID_DID`).

### Properties that make each component correct

- Writer and Batch:
  - every column has `row_count` bits outside a Writer;
  - commit's asserts cannot fail;
  - a dropped Writer restores the batch exactly (spec §8 atomicity);
  - statistics are deferred, so a dropped Writer leaves none behind.
- Column: the value store has as many rows as the bitmap.
- Dictionary:
  - entries are distinct;
  - a row holds a code exactly when it is valid;
  - every code is used by some row, which is what makes Drop's truncation correct.
- Statistics:
  - the total and null counts match the bitmap;
  - min/max are the extremes of the valid rows;
  - a tag's distinct count is its number of distinct values plus the null bucket.

## 2. Plan

1. **Writer.tla** (done in this sitting). The whole writer.rs plus the collaborator operations it
   uses. One action per public operation: `New`, `WriteNumeric(t)` (f64/i64/u64), `WriteTime`,
   `WriteBool`, `WriteString`, `WriteTag`, `WriteTagDict`, `Commit`, `Drop`.
2. **MCWriter.tla** plus cfgs (done): the passing runs and the violation runs listed below.
3. **AtomicBatch.tla** and **WriterRefinement.tla** (done). An abstract specification of what the
   Writer promises: the batch is a table of cells (a value or null) per name. Its only
   table-changing step is "append a block of rows to every column at once", and name registration is
   a separate step. Writer.tla implements it under the refinement mapping "table = the logical cells
   of `pre` while a Writer is open, else of the current batch", checked as a PROPERTY.
4. **Statistics, distinct counts, more refinement runs** (done in the second sitting):
   - min/max in the statistics, checked by `MinMaxMatchContents`;
   - `DistinctCountExact`, an action property on commit's tag distinct count;
   - the refinement for f64 and timestamp columns;
   - the refinement under `ContinueAfterError = TRUE`, which fails for `write_bool` retries;
   - valid masks with bits set past `to_insert`.
5. **Statistics variants and a mixed-type run** (done in the third sitting). Each deferred record
   carries its `Statistics` variant, and commit's match panics (`unreachable!`) on a record that
   does not fit the column's data. The run `mixed_types` puts six column types in one batch.
6. **Dictionary first-use order** (done in the fourth sitting). `DictFirstUseOrder` states
   spec §4.4's guarantee that codes are assigned in order of first use. It is checked in
   tag_dictionary, whose local tables now have up to two entries (`MaxTable = 2`). With two
   entries, resolving the table in table order would break it.
7. Left open: the tag `distinct_count` of columns that are only padded. This waits until
   `push_nulls_to_len`'s handling of it is pinned down (see §6).

## 3. Modules

### Writer.tla

| Model | Code |
|---|---|
| `columnNames`, `columns`, `rowCount` | `MutableBatch::column_names`, `columns`, `row_count` |
| `open`, `initialRows`, `toInsert`, `statistics` | the live `Writer` and its fields; `success` is folded into `Commit`, which ends the Writer |
| `failed`, `calls` | caller-side: a write returned Err; the number of write calls (bounded by `MaxCalls`) |
| `ended`, `pre` | history: how the last Writer ended, and the batch when it was created |
| column record | `type`, `valid` (bits), `data` (value store), `dict` (tag dictionary), `stats` (`total`, `nulls`, `distinct`, `min`, `max`) |

Data abstraction:
- Payloads are small integers (`Vals`); 0 is what a null slot holds, and `INVALID_DID = -1`.
- Bool data is 0/1 bits.
- min/max are kept as optional values (`MinOf`, `MaxOf`). A bool's are over its 0/1 bits and a
  tag's are over its values.
- A valid mask is a single byte, and its bits may be set past `to_insert`. Bit `to_insert` stands
  for all such bits, which `set_position_iterator` and `append_bits` both ignore.

Each write is one atomic step, since nothing interleaves inside a call. The step takes one of four
outcomes, in the code's order:
- `TypeMismatch`: the name may be registered; nothing else changes.
- A panic (the assert, or the `write_string` underflow): `Unwind`, which is Drop's rollback.
- An Err part-way: the store is partially filled and the dictionary partly interned; no validity
  bits, no statistics record.
- Success.

A statistics record is `<<column index, variant, StatValues>>`. `StatsKind` maps a column type to
the variant that commit's match pairs with its data:
- a timestamp column takes `I64`;
- a tag column takes `String`.

`Commit` computes the first column at which an assert, the `unwrap` or the `unreachable!` arm
would fail. If there is one, the
columns before it are padded and merged and then rolled back by Drop.

The collaborators are modelled from the spec. `Column::push_nulls_to_len` pads with `delta` null
entries: the bit set and the string array append them, and `Vec` stores are resized to the target
length, as the name says.

`intended` is a history variable that is not part of the code. It records, per name, the cells that
a successful write supplied (`Block`). It exists only for the refinement mapping.

### AtomicBatch.tla

This is the abstract specification, written from spec §1, §4.6 and §8. Its state is:
- `table`: name to a sequence of cells, where a cell is `<<>>` (null) or `<<v>>`;
- `types` and `rows`;
- `txn`: whether a transaction is open, its size, and the blocks staged so far.

Its actions:
- `Begin(k)`.
- `Register(n, t)`.
- `Stage(n, t, block)`. There is one block per column, except that empty blocks may repeat, and
  timestamp blocks have no nulls.
- `Commit`: every column grows at once, by its staged block or by nulls.
- `Abort`: the table is untouched.

### WriterRefinement.tla

This module EXTENDS Writer and instantiates AtomicBatch as `AB`. The mapping:
- `Cell(col, i)` is the value a reader sees: the stored value when the validity bit is set (a tag's
  value is its dictionary entry), otherwise null.
- `View` applies `Cell` to every name. A name with no column reads as nulls.
- `table` is the view of `pre` while a Writer is open, else the view of the current batch.
- `txn.staged` is `intended`.

Each Writer step corresponds to one abstract step, or to a stutter:

| Writer step | AtomicBatch step |
|---|---|
| `New` | `Begin` |
| successful write | `Stage` |
| failed write on a new name | `Register` |
| other failed write | stutter |
| panic, `Drop` | `Abort` |
| successful commit | `Commit` |

`AtomicBatchSpec == AB!Spec` is checked as a PROPERTY.

### MCWriter.tla

MCWriter EXTENDS WriterRefinement, so that every run can check the refinement property. It uses two column names (model values, with symmetry), payloads `{1,2}` (or `{1}` where no dictionary
tells values apart), `to_insert ∈ {0,1,2}`, and `MaxRows` 2 or 3.
- `MaxCalls` is 2 or 3 write calls per Writer. Two calls are enough to write one name twice, which
  triggers the double-write panic. Three calls also write both names and then one of them again.
- `MaxTable` is 1 or 2:
  - Keys range over `0..MaxTable`, which makes the out-of-range key `KeyNotFound` reachable.
  - A short key list leaves a table entry unused.
  - With two entries (tag_dictionary), keys can refer to the table out of table order, which is
    what tells lazy resolution from eager resolution.

## 4. Runs

| Run | cfg | Expect | What it shows |
|---|---|---|---|
| tag_dictionary | MCWriter_tag.cfg | pass | Tags via write_tag and write_tag_dict with failures and panics, MaxRows 3, two write calls, local tables of up to 2 entries (79k states): dictionary codes follow first use, dictionary codes stay live and dense, rollback restores dictionary, rows and statistics, commit never panics. |
| fields_and_time | MCWriter_fields.cfg | pass | i64 field, timestamp (sharing the i64 store: type mismatches) and bool columns, MaxRows 3. |
| continue_after_error | MCWriter_continue.cfg | pass | The caller may keep writing and commit after an Err (string and bool columns, MaxRows 2): bitmaps, statistics and commit's asserts stay consistent, including the write_string underflow panic. |
| mixed_types | MCWriter_mixed.cfg | pass | f64, i64, u64, bool, tag and timestamp columns in one batch (MaxRows 2, three write calls, 193k states). Every record has the variant commit expects, and every commit step completes, even for columns written out of order, and rollback restores columns of every type. String is left out: its padding bug (string_padding) makes a later rollback lengthen the short array, which is not a restoration. |
| atomic_batch_refinement | MCWriter_refinement.cfg | pass | i64, bool, string and tag columns together (MaxRows 2, two write calls per Writer, 154k states): every behaviour refines AtomicBatch. Every committed value is in the row its mask gave it, in the column it was written to; a dropped or panicking Writer changes no value a reader sees. |
| atomic_batch_refinement_fields | MCWriter_refinement_fields.cfg | pass | f64 and timestamp columns, MaxRows 3: every behaviour refines AtomicBatch. This includes timestamp writes without a mask, and type mismatches when one name is used for both types. |
| continue_distinct | MCWriter_continue_distinct.cfg | violation | After a failed write_tag and a successful retry, commit counts the dead dictionary entry in `distinct_count`. |
| continue_bool_values | MCWriter_continue_bool_values.cfg | violation | A retried write_bool keeps a TRUE bit from its failed first attempt, so a reader sees TRUE where FALSE was written. |
| string_padding | MCWriter_string_padding.cfg | violation | write_string leaves trailing null rows out of the string array. |
| continue_bool | MCWriter_continue_bool.cfg | violation | commit after a failed write_bool pads an already grown bit set. |
| continue_tag | MCWriter_continue_tag.cfg | violation | a retried tag write leaves unused dictionary entries that a later rollback deletes. |
| abort_schema | MCWriter_abort_schema.cfg | violation | a dropped Writer leaves its new columns registered (spec §8 against §4.6/§9). |

### Mutants

Each property of a passing run is checked against a plausible bug in the code it covers. The bug
is an operator defined just before the original in Writer.tla, and the property must fail when the
bug is substituted:
- `ColumnMutNameOffByOne`: the new column's index is off by one.
- `ColumnMutNoAssert`: the row-count assert is dropped.
- `RollbackColumnOffByOne`, `RollbackColumnKeepData`: the rollback is wrong.
- `WriteStatsNoNulls`: `update_for_nulls` is forgotten.
- `WriteTagDictEager`: the whole local table is interned.
- `TagFillNoResize`, `BoolFillNoAppend`: the store grows wrongly.
- `CommitColumnNoPad`: unwritten columns are not padded.
- `SortedStatisticsUnsorted`: commit leaves the records in write order. This breaks
  `CommitNeverPanics` in mixed_types.
- `WriteNumericI64Stats`: every numeric write pushes `Statistics::I64`, a copy-paste slip. This
  breaks `CommitCannotPanic` in mixed_types.
- `WriteStatsLastMax`: the maximum is overwritten by each value. This breaks `MinMaxMatchContents`.
- `CommitMergeNewNulls`: the null bucket is decided by the write's own null count. This breaks
  `DistinctCountExact`.
- `VecFillNoOffset`: a value is stored without the `initial_rows` offset. Only the refinement
  property catches this one.

### Properties

- `DistinctCountExact` is an action property `[][commit => ...]_vars`. At a successful commit,
  every tag column that the commit merged a write into gets a `distinct_count` equal to the number
  of distinct values in its valid rows, plus one if any row is null.
- `CommitNeverPanics` is an action property `[][Commit => ended' = "commit"]_vars`. Every commit
  step completes rather than unwinding through Drop. It covers what `CommitCannotPanic` cannot see:
  - the order of the records, which the sort at line 485 puts into column order when a Writer
    wrote its columns out of order;
  - Writers of zero rows.
- `DictFirstUseOrder` is an invariant. Outside a Writer, each row's code is at most the number of
  distinct codes in the rows before it. `WriteTagDictEager` breaks it, because it resolves the
  local table in table order.
- `MinMaxMatchContents` is an invariant. Outside a Writer, each column's min and max are the
  extremes of its valid rows' values.
- These sit beside the invariants listed in §1.

### Findings

- **write_string does not pad trailing nulls (code bug, writer.rs:274).** Writing one row with an
  all-null mask and committing leaves a column with one validity bit and an empty string array.
  Every other `write_*` resizes its store to `initial_rows + to_insert`. `push_nulls_to_len` at a
  later commit does not repair this, because it pads by the bitmap's delta.
- **Continuing after an Err (spec §7 allows "attempt a different write").**
  - `write_bool` grows its bit set before the loop, so commit pads it a second time.
  - Retried tag writes leave unused dictionary entries. A later Writer that is dropped then deletes
    them, so that rollback changes the dictionary.
- **Retries leave stale results behind.** These two findings also come from continuing after an
  Err:
  - `write_bool` sets the bits of true values but never clears one (writer.rs:229). A first
    attempt that set a bit and then failed leaves it set, and the successful retry writes FALSE
    over it without effect. After commit, a reader sees TRUE in a row the caller wrote as FALSE,
    while the statistics say min = max = false. This is found by the refinement check
    (continue_bool_values).
  - A failed `write_tag` keeps the entries it interned. Commit derives `distinct_count` from the
    dictionary's size, so it counts values no row holds (writer.rs:523, continue_distinct).
- **New columns survive rollback.** This is the open question of spec §9. The Writer leaves the
  name registered, and its type then constrains later writes.

## 5. Fairness and liveness

The Writer has no concurrency and no waiting. Rust's scoping guarantees that `Drop` runs, so
termination of a transaction is a property of the caller, not of this code. No liveness property
is stated. Deadlock is checked: `New(0)` and `Drop` are always possible.

## 6. Not modelled

- Column storage and Statistics are `partly` modelled. This is because `Column::new`,
  `push_nulls_to_len`, `StatValues::update_from` and the dictionary are not in this repository
  snapshot; they are modelled from the spec. For the same reason, the `distinct_count` of a
  column that is only padded is not stated.
- A validity mask shorter than `to_insert` (a panic in `append_bits`).
- Values iterators longer than needed: the extra values are ignored, as in the code.
- Hash-map details of `column_names`.
- Everything outside writer.rs that the Writer does not call. This covers line protocol parsing,
  persistence and query, which are listed as `not_modelled`. MutableBatch, the validity bitmap
  and the tag dictionary stay `partly` modelled: only their operations that writer.rs calls are
  modelled, from the spec, because their code is not in this snapshot.
- Liveness. No operation waits and the Writer has no scheduler, so there is no fairness to assume
  (§5).
