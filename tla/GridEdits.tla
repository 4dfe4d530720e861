----------------------------- MODULE GridEdits -----------------------------
(***************************************************************************)
(* Grid edits (src/core/grid_edit.rs, src/wire/grid_edit.rs): an edit      *)
(* arrives as a columnar op, the edit history applies it to its table and  *)
(* keeps the op that takes it back, and the row delta of every op that was *)
(* applied goes to a client which holds the rows by their key.             *)
(*                                                                         *)
(* A table is its schema, a name, type and metadata each, and its columns, *)
(* a name, type and cells each.  A cell is a pair <<tag, text>>; the zeros *)
(* are one cell.  A row number is the code's, from 0.                      *)
(***************************************************************************)
EXTENDS Integers, Sequences, SequencesExt

CONSTANTS
  Name,                \* the names a column may have
  Text,                \* the texts a cell may hold and a column be described with
  Tables,              \* the tables a history may begin with
  Edits,               \* the edits that may arrive
  Capacity,            \* the capacity a history is asked for
  KeyField,            \* the row identity the grid declares
  InstantDigits,       \* the fraction digits of each instant's text
  EvalPipeline(_, _),  \* eval_pipeline: what it answers for a table
  MaxRows              \* bound: no append grows a table past this many rows

ASSUME CapacityAssumption == Capacity \in Nat
ASSUME TextAssumption == "" \in Text

TimestampDigits == [timestamp |-> 0, timestampMs |-> 3, timestampUs |-> 6, timestampNs |-> 9]
ColumnType == {"int", "float", "bool", "str", "date", "decimal"} \cup DOMAIN TimestampDigits

CellValue == {"null", "int", "float", "bool", "str", "date", "decimal", "timestamp"} \X Text
SchemaEntry == [name : Name, type : ColumnType, meta : Text]
DataColumn == [name : Name, type : ColumnType, cells : Seq(CellValue)]
Table == [schema : Seq(SchemaEntry), columns : Seq(DataColumn)]

Null == <<"null", "">>
NaN == <<"float", "NaN">>

VARIABLES
  table,     \* the history's live table
  undo,      \* the edits that can be undone, the most recent first
  redo,      \* the edits that were undone, the most recently undone first
  client,    \* the rows the client holds, by key
  follows    \* since its last full refresh every table the client was shown had
             \* one key for each row

vars == <<table, undo, redo, client, follows>>

\* The equality of cells: NaN is not equal to itself.
Same(x, y) == x = y /\ x # NaN

----------------------------------------------------------------------------
(* The table.                                                              *)

RowCount(t) == IF t.columns = <<>> THEN 0 ELSE Len(t.columns[1].cells)
Named(t, name) == {i \in DOMAIN t.columns : t.columns[i].name = name}
Has(t, name) == Named(t, name) # {}
Position(t, name) == CHOOSE i \in Named(t, name) : \A j \in Named(t, name) : i <= j
Find(t, name) == t.columns[Position(t, name)]

UnitOfDigits(d) ==
  CASE d = 0 -> "timestamp" [] d \in 1 .. 3 -> "timestampMs"
    [] d \in 4 .. 6 -> "timestampUs" [] OTHER -> "timestampNs"

CellFits(type, c) ==
  \/ c = Null
  \/ c[1] = "int" /\ type \in {"int", "float", "decimal"}
  \/ c[1] \notin {"int", "timestamp"} /\ c[1] = type
  \/ /\ c[1] = "timestamp"
     /\ type \in DOMAIN TimestampDigits
     /\ TimestampDigits[UnitOfDigits(InstantDigits[c[2]])] <= TimestampDigits[type]

Entry(col) == [name |-> col.name, type |-> col.type, meta |-> ""]

WithColumn(t, col) ==
  [schema |-> [i \in DOMAIN t.schema |->
      IF t.schema[i].name = col.name /\ t.schema[i].type # col.type
      THEN Entry(col) ELSE t.schema[i]],
   columns |-> [i \in DOMAIN t.columns |->
      IF t.columns[i].name = col.name THEN col ELSE t.columns[i]]]

ColumnFits(col) == \A i \in DOMAIN col.cells : CellFits(col.type, col.cells[i])

\* Schema and columns name the same columns in the same order with the same types,
\* no name twice, every column is as long as the first, and every cell fits.
WellFormed(t) ==
  /\ Len(t.schema) = Len(t.columns)
  /\ \A i \in DOMAIN t.columns :
       LET c == t.columns[i]
       IN  /\ c.name = t.schema[i].name /\ c.type = t.schema[i].type
           /\ Named(t, c.name) = {i}
           /\ Len(c.cells) = RowCount(t)
           /\ ColumnFits(c)

\* A history begins with a table that is well formed.
ASSUME TablesAssumption == \A t \in Tables : t \in Table /\ WellFormed(t)

----------------------------------------------------------------------------
(* Applying an op and taking it back.                                      *)

\* The ops: the members each kind has.
IsOp(op) ==
  \/ op \in [kind : {"setCell"}, col : Name, row : Int, value : CellValue]
  \/ op \in [kind : {"setColumn"}, column : DataColumn]
  \/ op \in [kind : {"insertColumn"}, index : Int, column : DataColumn]
  \/ op \in [kind : {"removeColumn"}, name : Name]
  \/ op \in [kind : {"appendRows"}, rows : Seq(Seq([col : Name, value : CellValue]))]
  \/ op.kind = "applyTransform"

\* What an edit carries besides is for the codec to refuse; the row identity it
\* names is the one the grid declares (grid_edit.rs:33).
ASSUME EditsAssumption ==
  \A edit \in Edits :
    /\ IsOp(edit.op)
    /\ "rowKeyField" \in DOMAIN edit => edit.rowKeyField \in {"", KeyField}

Done(t) == [ok |-> TRUE, table |-> t, token |-> ""]
Refuse(token) == [ok |-> FALSE, table |-> [schema |-> <<>>, columns |-> <<>>], token |-> token]

SetCell(op, t) ==
  IF ~Has(t, op.col) THEN Refuse("noSuchColumn")
  ELSE IF op.row \notin 0 .. RowCount(t) - 1 THEN Refuse("rowOutOfRange")
  ELSE LET c == Find(t, op.col)
       IN  IF ~CellFits(c.type, op.value) THEN Refuse("cellTypeMismatch")
           ELSE Done(WithColumn(t, [c EXCEPT !.cells[op.row + 1] = op.value]))

SetColumn(op, t) ==
  IF ~Has(t, op.column.name) THEN Refuse("noSuchColumn")
  ELSE IF Len(op.column.cells) # RowCount(t) THEN Refuse("columnLengthMismatch")
  ELSE Done(WithColumn(t, op.column))

\* The position an index stands for, clamped into the columns there are.
Clamped(index, n) == IF index < 0 THEN 1 ELSE IF index > n THEN n + 1 ELSE index + 1

InsertColumn(op, t) ==
  IF Has(t, op.column.name) THEN Refuse("duplicateColumn")
  ELSE IF t.columns # <<>> /\ Len(op.column.cells) # RowCount(t)
       THEN Refuse("columnLengthMismatch")
  ELSE LET i == Clamped(op.index, Len(t.columns))
       IN  Done([schema |-> InsertAt(t.schema, i, Entry(op.column)),
                 columns |-> InsertAt(t.columns, i, op.column)])

\* The entries of another name.
Without(s, name) ==
  FoldLeft(LAMBDA kept, e : IF e.name = name THEN kept ELSE Append(kept, e), <<>>, s)

RemoveColumn(op, t) ==
  IF ~Has(t, op.name) THEN Refuse("noSuchColumn")
  ELSE Done([schema |-> Without(t.schema, op.name), columns |-> Without(t.columns, op.name)])

\* What a row says of a column: the first cell it names for it.
Mentions(row, name) == {i \in DOMAIN row : row[i].col = name}
Says(row, name) ==
  IF Mentions(row, name) = {} THEN Null
  ELSE row[CHOOSE i \in Mentions(row, name) : \A j \in Mentions(row, name) : i <= j].value

\* Why a row's cells are refused, the first of them that is.
Fault(t, cell) ==
  IF ~Has(t, cell.col) THEN "rowShapeUnknownColumn"
  ELSE IF ~CellFits(Find(t, cell.col).type, cell.value) THEN "cellTypeMismatch" ELSE ""

\* The cells that are, by row and place in it.
Faulty(t, rows) ==
  {p \in UNION {{r} \X DOMAIN rows[r] : r \in DOMAIN rows} : Fault(t, rows[p[1]][p[2]]) # ""}

Grown(c, rows) ==
  [c EXCEPT !.cells = @ \o [r \in DOMAIN rows |-> Says(rows[r], c.name)]]

AppendRows(op, t) ==
  LET faulty == Faulty(t, op.rows)
      first == CHOOSE p \in faulty :
                 \A q \in faulty : p[1] < q[1] \/ (p[1] = q[1] /\ p[2] <= q[2])
  IN  IF faulty # {} THEN Refuse(Fault(t, op.rows[first[1]][first[2]]))
      ELSE Done([t EXCEPT !.columns = [i \in DOMAIN @ |-> Grown(@[i], op.rows)]])

ApplyTransform(op, t) ==
  LET r == EvalPipeline(op.pipeline, t)
  IN  IF r.ok THEN Done(r.table) ELSE Refuse("transformRejected")

ApplyColumnOp(op, t) ==
  CASE op.kind = "setCell" -> SetCell(op, t)
    [] op.kind = "setColumn" -> SetColumn(op, t)
    [] op.kind = "insertColumn" -> InsertColumn(op, t)
    [] op.kind = "removeColumn" -> RemoveColumn(op, t)
    [] op.kind = "appendRows" -> AppendRows(op, t)
    [] op.kind = "applyTransform" -> ApplyTransform(op, t)

Invertible(op) == op.kind \notin {"appendRows", "applyTransform"}

\* Mutant: a removed column is put back one to the right.
InverseOneColumnOn(op, t) ==
  IF op.kind = "removeColumn"
  THEN [kind |-> "insertColumn", index |-> Position(t, op.name), column |-> Find(t, op.name)]
  ELSE CASE op.kind = "setCell" -> [op EXCEPT !.value = Find(t, op.col).cells[op.row + 1]]
         [] op.kind = "setColumn" -> [op EXCEPT !.column = Find(t, op.column.name)]
         [] op.kind = "insertColumn" -> [kind |-> "removeColumn", name |-> op.column.name]

\* The op that takes op back, read from the table op is applied to.
InvertOp(op, t) ==
  CASE op.kind = "setCell" -> [op EXCEPT !.value = Find(t, op.col).cells[op.row + 1]]
    [] op.kind = "setColumn" -> [op EXCEPT !.column = Find(t, op.column.name)]
    [] op.kind = "insertColumn" -> [kind |-> "removeColumn", name |-> op.column.name]
    [] op.kind = "removeColumn" ->
         [kind |-> "insertColumn", index |-> Position(t, op.name) - 1, column |-> Find(t, op.name)]

----------------------------------------------------------------------------
(* The row delta, and the client that follows it.                          *)

FullRefresh == [full |-> TRUE, rows |-> {}]
RowSet(rows) == [full |-> FALSE, rows |-> rows]

\* The key of every row; a row whose key is null, and every row of a table without
\* the column, has none.
KeysOf(t, field) ==
  IF Has(t, field) THEN Find(t, field).cells ELSE [r \in 1 .. RowCount(t) |-> Null]

\* Mutant: a row whose key changed is said to have changed under its old key.
SetCellDeltaByOldKey(op, before, k0, k1) ==
  LET r == op.row + 1
  IN  IF Null \in {k0[r], k1[r]} THEN FullRefresh
      ELSE IF Same(Find(before, op.col).cells[r], op.value) THEN RowSet({})
      ELSE RowSet({<<k0[r], "changed">>})

SetCellDelta(op, before, k0, k1) ==
  LET r == op.row + 1
  IN  IF Null \in {k0[r], k1[r]} THEN FullRefresh
      ELSE IF Same(Find(before, op.col).cells[r], op.value) THEN RowSet({})
      ELSE IF k0[r] = k1[r] THEN RowSet({<<k0[r], "changed">>})
      ELSE RowSet({<<k0[r], "removed">>, <<k1[r], "added">>})

SetColumnDelta(op, before, k0, k1) ==
  LET old == Find(before, op.column.name).cells
  IN  IF k0 # k1 \/ Null \in Range(k0) THEN FullRefresh
      ELSE RowSet({<<k0[r], "changed">> : r \in {i \in DOMAIN k0 : ~Same(old[i], op.column.cells[i])}})

AppendRowsDelta(k0, k1) ==
  LET added == Len(k0) + 1 .. Len(k1)
      fresh(r) == k1[r] # Null /\ \A s \in 1 .. r - 1 : k1[s] # k1[r]
  IN  IF \A r \in added : fresh(r) THEN RowSet({<<k1[r], "added">> : r \in added})
      ELSE FullRefresh

GridEditDelta(field, before, op) ==
  LET after == ApplyColumnOp(op, before)
      k0 == KeysOf(before, field)
      k1 == KeysOf(after.table, field)
  IN  IF op.kind \in {"insertColumn", "removeColumn", "applyTransform"} \/ ~after.ok
      THEN FullRefresh
      ELSE CASE op.kind = "setCell" -> SetCellDelta(op, before, k0, k1)
             [] op.kind = "setColumn" -> SetColumnDelta(op, before, k0, k1)
             [] op.kind = "appendRows" -> AppendRowsDelta(k0, k1)

\* One key for each row.
Keyed(t) ==
  LET ks == KeysOf(t, KeyField)
  IN  /\ Null \notin Range(ks)
      /\ \A r, s \in DOMAIN ks : ks[r] = ks[s] => r = s

Row(t, r) == {<<t.columns[i].name, t.columns[i].cells[r]>> : i \in DOMAIN t.columns}
RowOf(t, k) == UNION {Row(t, r) : r \in {i \in DOMAIN KeysOf(t, KeyField) : KeysOf(t, KeyField)[i] = k}}
View(t) == [k \in Range(KeysOf(t, KeyField)) |-> RowOf(t, k)]

\* The keys a delta names with a change.
Told(delta, change) == {k \in {row[1] : row \in delta.rows} : <<k, change>> \in delta.rows}

\* The client takes what a delta names from the table it comes with.
Patched(held, delta, t) ==
  LET keys == (DOMAIN held \ Told(delta, "removed")) \cup Told(delta, "added")
      sent == Told(delta, "added") \cup Told(delta, "changed")
  IN  [k \in keys |-> IF k \in sent THEN RowOf(t, k) ELSE held[k]]

Deliver(delta, t) ==
  /\ follows' = (Keyed(t) /\ (delta.full \/ follows))
  /\ client' = IF ~follows' THEN <<>> ELSE IF delta.full THEN View(t) ELSE Patched(client, delta, t)

----------------------------------------------------------------------------
(* The codec.                                                              *)

\* Mutant: a column is taken without looking at its cells.
DecodeAnyColumnOp(op) == TRUE

DecodeColumnOp(op) ==
  op.kind \in {"setColumn", "insertColumn"} => ColumnFits(op.column)

\* The strict envelope: no member but its own, a key, and a row identity that is
\* a name where there is one.
DecodeGridEdit(edit) ==
  /\ DOMAIN edit \subseteq {"key", "op", "rowKeyField"}
  /\ edit.key # ""
  /\ "rowKeyField" \in DOMAIN edit => edit.rowKeyField # ""
  /\ DecodeColumnOp(edit.op)

\* The delta an edit induces: without a row identity, the whole table.
EditDelta(edit, before) ==
  IF "rowKeyField" \in DOMAIN edit THEN GridEditDelta(edit.rowKeyField, before, edit.op)
  ELSE FullRefresh

----------------------------------------------------------------------------
(* The history.                                                            *)

Depth == IF Capacity < 1 THEN 1 ELSE Capacity

Pushed(entry) == SubSeq(<<entry>> \o undo, 1, IF Len(undo) < Depth THEN Len(undo) + 1 ELSE Depth)

Init ==
  /\ table \in Tables
  /\ undo = <<>> /\ redo = <<>>
  /\ follows = Keyed(table)
  /\ client = IF follows THEN View(table) ELSE <<>>

\* Mutant: a new edit leaves what could be redone.
ApplyKeepingRedo(edit) ==
  LET r == ApplyColumnOp(edit.op, table)
  IN  /\ DecodeGridEdit(edit)
      /\ r.ok
      /\ RowCount(r.table) <= MaxRows
      /\ table' = r.table
      /\ undo' = IF Invertible(edit.op)
                 THEN Pushed([op |-> edit.op, inverse |-> InvertOp(edit.op, table)]) ELSE <<>>
      /\ redo' = redo
      /\ Deliver(EditDelta(edit, table), r.table)

Apply(edit) ==
  LET r == ApplyColumnOp(edit.op, table)
  IN  /\ DecodeGridEdit(edit)
      /\ r.ok
      /\ RowCount(r.table) <= MaxRows
      /\ table' = r.table
      /\ undo' = IF Invertible(edit.op)
                 THEN Pushed([op |-> edit.op, inverse |-> InvertOp(edit.op, table)]) ELSE <<>>
      /\ redo' = <<>>
      /\ Deliver(EditDelta(edit, table), r.table)

Undo ==
  /\ undo # <<>>
  /\ LET r == ApplyColumnOp(Head(undo).inverse, table)
     IN  /\ r.ok
         /\ table' = r.table
         /\ Deliver(GridEditDelta(KeyField, table, Head(undo).inverse), r.table)
  /\ redo' = <<Head(undo)>> \o redo
  /\ undo' = Tail(undo)

Redo ==
  /\ redo # <<>>
  /\ LET r == ApplyColumnOp(Head(redo).op, table)
     IN  /\ r.ok
         /\ table' = r.table
         /\ Deliver(GridEditDelta(KeyField, table, Head(redo).op), r.table)
  /\ undo' = Pushed(Head(redo))
  /\ redo' = Tail(redo)

Next == (\E edit \in Edits : Apply(edit)) \/ Undo \/ Redo

Spec == Init /\ [][Next]_vars

----------------------------------------------------------------------------
(* Properties.                                                             *)

\* The table stays one the rest of the data layer can hold: schema and columns name
\* the same columns in the same order with the same types, no name twice, every
\* column is as long as the first, and every cell fits its column.  The codec checks
\* the columns an edit brings, each op what it changes; no step checks the whole.
TableIsWellFormed == WellFormed(table)

\* The undone and the undoable edits together never outgrow the capacity the
\* history was given (grid_edit.rs:460-465 truncates the one list only).
HistoryIsBounded == Len(undo) + Len(redo) <= Depth

\* The nearest undo and the nearest redo are never refused: whatever was edited,
\* undone and redone in between, the table is one their op applies to.
GesturesAreNeverRefused ==
  /\ undo # <<>> => ApplyColumnOp(Head(undo).inverse, table).ok
  /\ redo # <<>> => ApplyColumnOp(Head(redo).op, table).ok

\* A client that only ever took the deltas holds the rows of the table, as long as
\* every table had one key for each row: an op's delta, built from the op and the
\* table before it, names every row that differs and no key too many.
ClientIsCurrent == follows => client = View(table)

\* What undo and redo would put back, read off the ops the history keeps: the table
\* after each of them in turn, its schema's metadata aside.
Shown(t) == [names |-> [i \in DOMAIN t.schema |-> t.schema[i].name], columns |-> t.columns]
Walked(ops, t) ==
  LET f[i \in 0 .. Len(ops)] ==
        IF i = 0 THEN t ELSE ApplyColumnOp(ops[i], f[i - 1]).table
  IN  [i \in 1 .. Len(ops) |-> Shown(f[i])]
Unwound == Walked([i \in DOMAIN undo |-> undo[i].inverse], table)
Rewound == Walked([i \in DOMAIN redo |-> redo[i].op], table)

Log == INSTANCE EditLog WITH past <- Unwound, present <- Shown(table), future <- Rewound

\* The history is the edit log it stands for: undo puts back exactly the columns the
\* edit was made on, redo exactly those it made, in the order they were undone, for
\* every mix of edits and gestures up to the capacity.
IsEditLog == Log!Spec
=============================================================================
