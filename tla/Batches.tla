-------------------------------- MODULE Batches --------------------------------
(***************************************************************************)
(* CLI/commands/common/common_functions.js: how a file of records becomes  *)
(* the calls of a ...Multi function.  The records are cut into batches, a  *)
(* batch is turned into one array per column, and the contract walks these *)
(* arrays with one index.                                                  *)
(***************************************************************************)
EXTENDS Integers, SequencesExt

\* How many batches of this size hold this many records.
BatchCount(length, size) == (length + size - 1) \div size

\* Where batch number k ends: the last one may be short.
BatchEnd(length, size, k) == IF k * size <= length THEN k * size ELSE length

SplitIntoBatches(data, size) ==
  [k \in 1 .. BatchCount(Len(data), size) |->
     SubSeq(data, (k - 1) * size + 1, BatchEnd(Len(data), size, k))]

\* The columns of every batch: TransposeBatches(b)[c][k] is the array that
\* column c contributes to call k.
TransposeBatches(batches) ==
  IF Len(batches) > 0 /\ Len(batches[1]) > 0
    THEN [c \in 1 .. Len(batches[1][1]) |->
            [k \in 1 .. Len(batches) |->
               [r \in 1 .. Len(batches[k]) |-> batches[k][r][c]]]]
    ELSE << >>

\* What a ...Multi function makes of the arrays of call k: record by record,
\* the entries of the columns at the same index.
RowsOfCall(columns, k) ==
  [r \in 1 .. Len(columns[1][k]) |->
     [c \in 1 .. Len(columns) |-> columns[c][k][r]]]

\* The function itself: one record after the other, all of them or none.  What
\* a record does to a state is the set of states it leads to, empty when the
\* call reverts.
InTurn(state, rows, Step(_, _)) ==
  LET after[k \in 0 .. Len(rows)] ==
        IF k = 0 THEN {state} ELSE UNION {Step(s, rows[k]) : s \in after[k - 1]}
  IN  after[Len(rows)]

\* The records of a file that are wanted, in the order of the file.
RowsIn(rows, wanted) ==
  LET kept[k \in 0 .. Len(rows)] ==
        IF k = 0 THEN << >>
        ELSE IF rows[k] \in wanted THEN Append(kept[k - 1], rows[k]) ELSE kept[k - 1]
  IN  kept[Len(rows)]

\* The calls of one command over a file, in the order they are sent.
CallsOf(op, data, size) ==
  LET batches == SplitIntoBatches(data, size)
      columns == TransposeBatches(batches)
  IN  [k \in 1 .. Len(batches) |-> [op |-> op, rows |-> RowsOfCall(columns, k)]]

=============================================================================
