---------------------------- MODULE AtomicBatch ----------------------------
(***************************************************************************)
(* What the mutable_batch Writer promises (spec 1, 4.6, 8): a batch is a  *)
(* table of cells per column name, all columns row_count long. A          *)
(* transaction stages at most one block of `size` cells per column and   *)
(* then either appends every staged block (and nulls for the other       *)
(* columns) in one step, or is abandoned and leaves the table as it was. *)
(* Registering a column's type is a step of its own that an abandoned     *)
(* transaction does not undo (spec 9).                                    *)
(*                                                                         *)
(* A cell is <<>> (null) or <<v>>.                                        *)
(***************************************************************************)
EXTENDS Naturals, Sequences, TLC

CONSTANTS Names, Types, Payloads, MaxRows

VARIABLES table, types, rows, txn

vars == <<table, types, rows, txn>>

Cells == {<<>>} \cup {<<v>> : v \in Payloads}
NullBlock(k) == [i \in 1..k |-> <<>>]

TypeOK ==
    /\ table \in [Names -> Seq(Cells)]
    /\ DOMAIN types \subseteq Names /\ \A n \in DOMAIN types : types[n] \in Types
    /\ rows \in 0..MaxRows
    /\ txn.open \in BOOLEAN /\ txn.size \in 0..MaxRows
    /\ DOMAIN txn.staged \subseteq Names

Init ==
    /\ table = [n \in Names |-> <<>>]
    /\ types = <<>>
    /\ rows = 0
    /\ txn = [open |-> FALSE, size |-> 0, staged |-> <<>>]

\* a transaction for k new rows starts
Begin(k) ==
    /\ ~txn.open
    /\ rows + k <= MaxRows
    /\ txn' = [open |-> TRUE, size |-> k, staged |-> <<>>]
    /\ UNCHANGED <<table, types, rows>>

\* a column name is given its type
Register(n, t) ==
    /\ txn.open
    /\ n \notin DOMAIN types
    /\ types' = types @@ (n :> t)
    /\ UNCHANGED <<table, rows, txn>>

\* one column's block is staged, registering the column if it is new;
\* timestamps have no nulls; a block of no rows may be staged again
Stage(n, t, block) ==
    /\ txn.open
    /\ n \in DOMAIN types => types[n] = t
    /\ n \notin DOMAIN txn.staged \/ txn.size = 0
    /\ Len(block) = txn.size
    /\ t = "Time" => \A i \in DOMAIN block : block[i] # <<>>
    /\ types' = IF n \in DOMAIN types THEN types ELSE types @@ (n :> t)
    /\ txn' = [txn EXCEPT !.staged = @ @@ (n :> block)]
    /\ UNCHANGED <<table, rows>>

\* every column grows by the transaction's rows at once
Commit ==
    /\ txn.open
    /\ table' = [n \in Names |-> table[n] \o
                   IF n \in DOMAIN txn.staged THEN txn.staged[n] ELSE NullBlock(txn.size)]
    /\ rows' = rows + txn.size
    /\ txn' = [open |-> FALSE, size |-> 0, staged |-> <<>>]
    /\ UNCHANGED types

\* the transaction is abandoned: the table is untouched
Abort ==
    /\ txn.open
    /\ txn' = [open |-> FALSE, size |-> 0, staged |-> <<>>]
    /\ UNCHANGED <<table, types, rows>>

Next ==
    \/ \E k \in 0..MaxRows : Begin(k)
    \/ \E n \in Names, t \in Types : Register(n, t)
    \/ \E n \in Names, t \in Types, block \in [1..txn.size -> Cells] : Stage(n, t, block)
    \/ Commit
    \/ Abort

Spec == Init /\ [][Next]_vars

\* every column has exactly `rows` cells
ColumnsAligned == \A n \in Names : Len(table[n]) = rows
=============================================================================
