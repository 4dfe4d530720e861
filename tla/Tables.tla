------------------------------- MODULE Tables -------------------------------
(***************************************************************************)
(* The verbs of a transform pipeline (src/core/transform.rs): each takes a *)
(* frame, the evaluator's row-oriented table, to the next frame or to the  *)
(* EvalError that ends the pipeline.                                       *)
(***************************************************************************)
EXTENDS Columns

Frame(cols, rows) == [err |-> "", cols |-> cols, rows |-> rows]
Fail(kind) == [err |-> kind, cols |-> <<>>, rows |-> <<>>]

\* A table holds its schema and its columns by name: a frame read back from it
\* takes, for every entry of the schema, the first column of that name.
OfFrame(f) ==
    [schema |-> f.cols,
     columns |-> [i \in DOMAIN f.cols |->
        [name |-> f.cols[i].name, cells |-> [r \in DOMAIN f.rows |-> f.rows[r][i]]]]]

ToFrame(t) ==
    LET n == IF t.columns = <<>> THEN 0 ELSE Len(t.columns[1].cells)
        cell(name, r) ==
            IF ~HasCol(t.columns, name) THEN Null
            ELSE LET cells == t.columns[ColIndex(t.columns, name)].cells
                 IN  IF r <= Len(cells) THEN cells[r] ELSE Null
    IN  Frame(t.schema,
              [r \in 1..n |-> [i \in DOMAIN t.schema |-> cell(t.schema[i].name, r)]])

\* Does a present cell belong to a column's type?  An int widens.
Fits(c, type) ==
    \/ IsNull(c)
    \/ Tag(c) = type
    \/ Tag(c) = "int" /\ type \in {"float", "decimal"}
    \/ Tag(c) = "timestamp" /\ type \in TimestampTypes

\* The key a row is grouped and deduplicated by: the identities of its cells.
RowKey(row, places) == [k \in DOMAIN places |-> Token(row[places[k]])]
IndexOf(cols, names) == [k \in DOMAIN names |-> ColIndex(cols, names[k])]
AllKnown(cols, names) == \A k \in DOMAIN names : HasCol(cols, names[k])
Repeats(names) == \E i, j \in DOMAIN names : i < j /\ names[i] = names[j]

\* The values of a sequence without its repeats, in order of first appearance.
FirstSeen(s) == FoldLeft(LAMBDA acc, x : IF x \in Range(acc) THEN acc ELSE Append(acc, x), <<>>, s)
Keys(rows, places) == FirstSeen([r \in DOMAIN rows |-> RowKey(rows[r], places)])
Column(rows, i) == [r \in DOMAIN rows |-> rows[r][i]]

----------------------------------------------------------------------------
(* Aggregates.                                                             *)

AggFns == {"sum", "mean", "min", "max", "count", "median", "stddev", "first", "last",
           "countDistinct"}

Mean(qs) == IF qs = <<>> THEN Null ELSE Float(DivQ(SumQ(qs), Whole(Len(qs))))

Median(qs) ==
    LET sorted == SortSeq(qs, LAMBDA p, q : CompareFloat(p, q) = -1)
        mid == Len(qs) \div 2
    IN  CASE qs = <<>> -> Null
          [] Len(qs) % 2 = 1 -> Float(sorted[mid + 1])
          [] OTHER -> Float(DivQ(AddQ(sorted[mid], sorted[mid + 1]), Whole(2)))

StdDev(qs) ==
    LET mean == DivQ(SumQ(qs), Whole(Len(qs)))
        square(i) == MulQ(SubQ(qs[i], mean), SubQ(qs[i], mean))
    IN  IF qs = <<>> THEN Null
        ELSE Float(HostMath("sqrt", <<DivQ(SumQ([i \in DOMAIN qs |-> square(i)]), Whole(Len(qs)))>>))

\* Min keeps the first of equals, Max the last, and an incomparable pair the
\* incumbent.
Extreme(func, present) ==
    LET pick(acc, c) ==
            LET k == CompareCells(acc, c)
            IN  IF k = Incomparable \/ ((func = "min") <=> (k # 1)) THEN acc ELSE c
    IN  IF present = <<>> THEN Null ELSE FoldLeft(pick, present[1], Tail(present))

Nums(cells) ==
    LET nums == SelectSeq(cells, IsNum) IN [i \in DOMAIN nums |-> AsNum(nums[i])]

\* The answers that do not depend on the column's type.
AggPresent(func, cells, present, qs) ==
    CASE func = "count" -> Int_(Len(present))
      [] func = "countDistinct" -> Int_(Cardinality({Token(c) : c \in Range(present)}))
      [] func = "first" -> IF cells = <<>> THEN Null ELSE cells[1]
      [] func = "last" -> IF cells = <<>> THEN Null ELSE Last(cells)
      [] func \in {"min", "max"} -> Extreme(func, present)
      [] func = "mean" -> Mean(qs)
      [] func = "median" -> Median(qs)
      [] func = "stddev" -> StdDev(qs)

Present(cells) == SelectSeq(cells, LAMBDA c : ~IsNull(c))

\* A decimal column's cells are admitted first: a present cell that is not exact
\* is refused, whatever the aggregate.
AggDecimal(func, cells) ==
    LET admitted == [i \in DOMAIN cells |->
                        IF IsNull(cells[i]) THEN Null ELSE Decimal(AsNum(cells[i]))]
        present == Present(admitted)
        qs == [i \in DOMAIN present |-> Val(present[i])]
    IN  CASE \E i \in DOMAIN cells : ~IsNull(cells[i]) /\ ~IsExact(cells[i]) -> Err("AggError")
          [] func = "sum" -> IF qs = <<>> THEN Null ELSE Decimal(SumQ(qs))
          [] OTHER -> AggPresent(func, admitted, present, qs)

AggCells(func, type, cells) ==
    LET qs == Nums(cells)
    IN  CASE type = "decimal" -> AggDecimal(func, cells)
          [] func # "sum" -> AggPresent(func, cells, Present(cells), qs)
          [] qs = <<>> -> Null
          [] type = "int" -> Int_(FoldLeft(LAMBDA acc, q : acc + TruncQ(q), 0, qs))
          [] OTHER -> Float(SumQ(qs))

AggType(func, type) ==
    CASE func \in {"count", "countDistinct"} -> "int"
      [] func \in {"mean", "median", "stddev"} -> "float"
      [] OTHER -> type

----------------------------------------------------------------------------
(* Filter, Project, Derive.                                                *)

EvalRows(f, e, env) == [r \in DOMAIN f.rows |-> EvalExpr(f.cols, f.rows[r], e, env)]

\* The rows of a frame at these places, in their order.
InOrder(f, places) == Frame(f.cols, [k \in DOMAIN places |-> f.rows[places[k]]])

KeepRows(f, vs) ==
    InOrder(f, SelectSeq([r \in DOMAIN f.rows |-> r], LAMBDA r : vs[r] = Bool(TRUE)))

EvalProject(f, s) ==
    CASE ~AllKnown(f.cols, s.from) -> Fail("UnknownColumn")
      [] Repeats(s.to) -> Fail("TypeError")
      [] OTHER ->
            LET at == IndexOf(f.cols, s.from)
            IN  Frame([k \in DOMAIN at |-> [f.cols[at[k]] EXCEPT !.name = s.to[k]]],
                      [r \in DOMAIN f.rows |-> RowKey(f.rows[r], at)])

\* The column is replaced where the frame has it, and appended where it has not.
WithColumn(f, entry, cells) ==
    LET i == IF HasCol(f.cols, entry.name) THEN ColIndex(f.cols, entry.name)
             ELSE Len(f.cols) + 1
        put(s, x) == IF i > Len(s) THEN Append(s, x) ELSE [s EXCEPT ![i] = x]
    IN  Frame(put(f.cols, entry), [r \in DOMAIN f.rows |-> put(f.rows[r], cells[r])])

DeriveColumn(f, name, unit, type, vs) ==
    IF type = Refused THEN Fail("TypeError") ELSE WithColumn(f, Entry(name, type, unit), vs)

\* The first error a row meets ends the pipeline.
EvalFilter(f, vs) ==
    IF Errors(vs) # {} THEN Fail(Val(FirstStop(vs, Errors(vs)))) ELSE KeepRows(f, vs)

EvalDerive(f, s, unit, dt, vs) ==
    CASE dt = Refused -> Fail("TypeError")
      [] Errors(vs) # {} -> Fail(Val(FirstStop(vs, Errors(vs))))
      [] OTHER -> DeriveColumn(f, s.name, unit, ColumnTypeBy(dt, vs), vs)

ExprStepOver(f, s, unit, dt, vs) ==
    IF s.verb = "filter" THEN EvalFilter(f, vs) ELSE EvalDerive(f, s, unit, dt, vs)

\* The units, and a derived column's typing, are read off the schema before any
\* row.
EvalExprStep(f, s, env, r) ==
    IF ~r.ok THEN Fail("UnitMismatch")
    ELSE ExprStepOver(f, s, r.unit, DerivedTypingIn(env, f.cols, r.expr),
                      EvalRows(f, r.expr, env))

----------------------------------------------------------------------------
(* GroupBy, Pivot, Unpivot.                                                *)

\* One aggregate: its output's name, its function and its source column.
AggEntry(cols, name, func, of) ==
    Entry(name, AggType(func, cols[ColIndex(cols, of)].type),
          AggregateUnit(func, ColUnit(cols, of)))
AggOver(f, rows, func, of) ==
    AggCells(func, f.cols[ColIndex(f.cols, of)].type, Column(rows, ColIndex(f.cols, of)))

WithKey(f, places, key) == SelectSeq(f.rows, LAMBDA row : RowKey(row, places) = key)

\* Rows that hold an aggregate's refusal fail the verb.
Checked(cols, rows) ==
    LET bad == {r \in DOMAIN rows : Errors(rows[r]) # {}}
    IN  IF bad = {} THEN Frame(cols, rows) ELSE Fail("AggError")

EvalGroupBy(f, s) ==
    LET at == IndexOf(f.cols, s.keys)
        keys == Keys(f.rows, at)
        outs == s.keys \o [k \in DOMAIN s.aggs |-> s.aggs[k].name]
        row(key) == key \o [k \in DOMAIN s.aggs |->
                        AggOver(f, WithKey(f, at, key), s.aggs[k].func, s.aggs[k].of)]
    IN  CASE ~AllKnown(f.cols, s.keys) -> Fail("UnknownColumn")
          [] \E k \in DOMAIN s.aggs : ~HasCol(f.cols, s.aggs[k].of) -> Fail("UnknownColumn")
          [] Repeats(outs) -> Fail("TypeError")
          [] OTHER -> Checked(
                [k \in DOMAIN at |-> f.cols[at[k]]]
                    \o [k \in DOMAIN s.aggs |->
                           AggEntry(f.cols, s.aggs[k].name, s.aggs[k].func, s.aggs[k].of)],
                [k \in DOMAIN keys |-> row(keys[k])])

ColumnName(text) == FoldLeft(LAMBDA acc, ch : acc \o ch, "", text)

\* The distinct on values, in the order of their texts.
OnValues(f, on) ==
    SortSeq(FirstSeen(Present(Column(f.rows, ColIndex(f.cols, on)))),
            LAMBDA a, b : CompareText(CellString(a), CellString(b)) = -1)

EvalPivot(f, s) ==
    LET at == IndexOf(f.cols, s.index)
        ons == OnValues(f, s.on)
        names == [k \in DOMAIN ons |-> ColumnName(CellString(ons[k]))]
        keys == Keys(f.rows, at)
        matching(key, on) ==
            SelectSeq(WithKey(f, at, key), LAMBDA row : CellEq(row[ColIndex(f.cols, s.on)], on))
        row(key) == key \o [k \in DOMAIN ons |->
                        AggOver(f, matching(key, ons[k]), s.agg, s.values)]
    IN  CASE ~AllKnown(f.cols, s.index \o <<s.on, s.values>>) -> Fail("UnknownColumn")
          [] Repeats(s.index \o names) -> Fail("TypeError")
          [] OTHER -> Checked(
                [k \in DOMAIN at |-> f.cols[at[k]]]
                    \o [k \in DOMAIN ons |-> AggEntry(f.cols, names[k], s.agg, s.values)],
                [k \in DOMAIN keys |-> row(keys[k])])

EvalUnpivot(f, s) ==
    LET ids == IndexOf(f.cols, s.ids)
        vals == IndexOf(f.cols, s.vals)
        dt == UnpivotTyping([k \in DOMAIN vals |-> f.cols[vals[k]].type])
        melt(row) == [k \in DOMAIN vals |->
                        RowKey(row, ids) \o <<Str(<<s.vals[k]>>), row[vals[k]]>>]
        rows == FlattenSeq([r \in DOMAIN f.rows |-> melt(f.rows[r])])
        type == ColumnTypeBy(dt, Column(rows, Len(s.ids) + 2))
    IN  CASE ~AllKnown(f.cols, s.ids \o s.vals) -> Fail("UnknownColumn")
          [] Repeats(s.ids \o <<"variable", "value">>) -> Fail("TypeError")
          [] dt = Refused -> Fail("TypeError")
          [] type = Refused -> Fail("TypeError")
          [] OTHER -> Frame([k \in DOMAIN ids |-> f.cols[ids[k]]]
                              \o <<Entry("variable", "str", {}),
                                   Entry("value", type, SharedUnit(f.cols, s.vals))>>,
                            rows)

----------------------------------------------------------------------------
(* Sort, Distinct, Limit.                                                  *)

\* A null sorts last in either direction.
DirCompare(a, b, dir, k) ==
    CASE IsNull(a) /\ IsNull(b) -> 0
      [] IsNull(a) -> 1
      [] IsNull(b) -> -1
      [] k = Incomparable -> 0
      [] OTHER -> IF dir = "asc" THEN k ELSE -k

\* A sort key whose column the frame has not is skipped.
KeyCompare(cols, key, r1, r2) ==
    LET a == r1[ColIndex(cols, key.col)]
        b == r2[ColIndex(cols, key.col)]
    IN  IF HasCol(cols, key.col) THEN DirCompare(a, b, key.dir, CompareCells(a, b)) ELSE 0

RowCompare(cols, by, r1, r2) ==
    FoldLeft(LAMBDA acc, key : IF acc # 0 THEN acc ELSE KeyCompare(cols, key, r1, r2), 0, by)

\* The places of the rows in sorted order; equals keep theirs.
SortedPlaces(cols, by, rows) ==
    SortSeq([i \in DOMAIN rows |-> i],
            LAMBDA i, j : RowCompare(cols, by, rows[i], rows[j]) < (IF i < j THEN 1 ELSE 0))

EvalSort(f, s) == InOrder(f, SortedPlaces(f.cols, s.by, f.rows))

EvalDistinct(f) == Frame(f.cols, FirstSeen(f.rows))

EvalLimit(f, s) ==
    LET at(n) == IF n < 0 THEN 0 ELSE IF n > Len(f.rows) THEN Len(f.rows) ELSE n
        start == at(s.offset)
    IN  Frame(f.cols, SubSeq(f.rows, start + 1, at(start + (IF s.n < 0 THEN 0 ELSE s.n))))

----------------------------------------------------------------------------
(* Join, Union, Intersect, Except.                                         *)

Nulls(cols) == [i \in DOMAIN cols |-> Null]

JoinCols(f, right) ==
    f.cols \o [i \in DOMAIN right.cols |->
        IF HasCol(f.cols, right.cols[i].name)
        THEN [right.cols[i] EXCEPT !.name = right.cols[i].name \o "_right"]
        ELSE right.cols[i]]

KeyMatch(s, f, right, lr, rr) ==
    \A k \in DOMAIN s.on :
        CellEq(lr[ColIndex(f.cols, s.on[k][1])], rr[ColIndex(right.cols, s.on[k][2])])

JoinRows(f, right, s) ==
    LET matches(lr) == SelectSeq(right.rows, LAMBDA rr : KeyMatch(s, f, right, lr, rr))
        joined(lr) ==
            LET ms == matches(lr)
            IN  IF ms # <<>> THEN [k \in DOMAIN ms |-> lr \o ms[k]]
                ELSE IF s.how \in {"left", "outer"} THEN <<lr \o Nulls(right.cols)>> ELSE <<>>
        unmatched == SelectSeq(right.rows,
            LAMBDA rr : ~\E l \in DOMAIN f.rows : KeyMatch(s, f, right, f.rows[l], rr))
    IN  FlattenSeq([l \in DOMAIN f.rows |-> joined(f.rows[l])])
          \o IF s.how \in {"right", "outer"}
             THEN [k \in DOMAIN unmatched |-> Nulls(f.cols) \o unmatched[k]] ELSE <<>>

EvalJoin(f, right, s) ==
    CASE \E k \in DOMAIN s.on : ~HasCol(f.cols, s.on[k][1]) \/ ~HasCol(right.cols, s.on[k][2]) ->
            Fail("UnknownColumn")
      [] \E k \in DOMAIN s.on : UnitsClash(f.cols[ColIndex(f.cols, s.on[k][1])],
                                           right.cols[ColIndex(right.cols, s.on[k][2])]) ->
            Fail("UnitMismatch")
      [] OTHER -> Frame(JoinCols(f, right), JoinRows(f, right, s))

\* A mutant: the left side's type is kept.
UnionEntryLeftType(l, r) == [l EXCEPT !.unit = IF l.unit = {} THEN r.unit ELSE l.unit]

\* A union's column takes the join of the two sides' types, its ints packed under
\* it, and the one unit they state.
UnionEntry(l, r) ==
    [l EXCEPT !.type = JoinType(l.type, r.type), !.unit = IF l.unit = {} THEN r.unit ELSE l.unit]

Pack(c, type) ==
    IF Tag(c) = "int" /\ type \in {"float", "decimal"} THEN <<type, Whole(Val(c))>> ELSE c

SidesClash(f, other) == \E i \in DOMAIN f.cols : UnitsClash(f.cols[i], other.cols[i])

EvalUnion(f, other) ==
    LET cols == [i \in DOMAIN f.cols |-> UnionEntry(f.cols[i], other.cols[i])]
        rows == f.rows \o other.rows
    IN  CASE Names(f.cols) # Names(other.cols) -> Fail("JoinError")
          [] SidesClash(f, other) -> Fail("UnitMismatch")
          [] \E i \in DOMAIN f.cols : ~Widens(f.cols[i].type, other.cols[i].type) ->
                Fail("TypeError")
          [] OTHER -> Frame(cols, [r \in DOMAIN rows |->
                                     [i \in DOMAIN cols |-> Pack(rows[r][i], cols[i].type)]])

\* Intersect and Except keep the left's order and multiplicity.
EvalSetOp(f, other, keepPresent) ==
    CASE Names(f.cols) # Names(other.cols) -> Fail("JoinError")
      [] SidesClash(f, other) -> Fail("UnitMismatch")
      [] OTHER -> Frame(f.cols, SelectSeq(f.rows,
                            LAMBDA row : (row \in Range(other.rows)) = keepPresent))

----------------------------------------------------------------------------
(* Window.                                                                 *)

\* The values of one ordered partition; ranks are dense.
Ranks(cols, by, rows) ==
    LET fresh == {i \in DOMAIN rows : i = 1 \/ RowCompare(cols, by, rows[i - 1], rows[i]) # 0}
    IN  [i \in DOMAIN rows |-> Int_(Cardinality({j \in fresh : j <= i}))]

\* A mutant: only the float family is read.
ReadableAsFloat(c, decimal) == IsNum(c)

\* What a running figure reads of a cell: an exact one over a decimal column,
\* the int and float family over another.
Readable(c, decimal) == IF decimal THEN IsExact(c) ELSE IsNum(c)
RunningSum(vals, decimal) ==
    LET total(i) == LET seen == SelectSeq(SubSeq(vals, 1, i), LAMBDA c : Readable(c, decimal))
                    IN  SumQ([k \in DOMAIN seen |-> AsNum(seen[k])])
    IN  [i \in DOMAIN vals |-> IF decimal THEN Decimal(total(i)) ELSE Float(total(i))]

RollingMean(vals) ==
    [i \in DOMAIN vals |->
        LET seen == SelectSeq(SubSeq(vals, IF i < 3 THEN 1 ELSE i - 2, i),
                              LAMBDA c : IsNum(c) \/ IsExact(c))
        IN  Mean([k \in DOMAIN seen |-> AsNum(seen[k])])]

WindowValues(f, s, rows, vals) ==
    CASE s.func = "rowNumber" -> [i \in DOMAIN rows |-> Int_(i)]
      [] s.func = "rank" -> Ranks(f.cols, s.orderBy, rows)
      [] s.func = "lag" -> [i \in DOMAIN vals |-> IF i = 1 THEN Null ELSE vals[i - 1]]
      [] s.func = "lead" -> [i \in DOMAIN vals |-> IF i = Len(vals) THEN Null ELSE vals[i + 1]]
      [] s.func = "cumulSum" -> RunningSum(vals, f.cols[ColIndex(f.cols, s.of)].type = "decimal")
      [] s.func = "rollingMean" -> RollingMean(vals)

WindowType(cols, s) ==
    LET source == IF HasCol(cols, s.of) THEN cols[ColIndex(cols, s.of)].type ELSE "str"
    IN  CASE s.func \in {"rowNumber", "rank"} -> "int"
          [] s.func \in {"lag", "lead"} -> source
          [] s.func = "cumulSum" /\ source = "decimal" -> "decimal"
          [] OTHER -> "float"

\* The members of a row's partition, in the window's order, by their places.
Members(f, at, r) ==
    SelectSeq([i \in DOMAIN f.rows |-> i], LAMBDA i : RowKey(f.rows[i], at) = RowKey(f.rows[r], at))
Ordered(f, by, places) ==
    LET order == SortedPlaces(f.cols, by, [k \in DOMAIN places |-> f.rows[places[k]]])
    IN  [k \in DOMAIN order |-> places[order[k]]]

\* The window's value for the row at place r among the places of its partition.
WindowCell(f, s, places, r) ==
    LET rows == [k \in DOMAIN places |-> f.rows[places[k]]]
        vals == IF HasCol(f.cols, s.of) THEN Column(rows, ColIndex(f.cols, s.of)) ELSE <<>>
    IN  WindowValues(f, s, rows, vals)[CHOOSE k \in DOMAIN places : places[k] = r]

\* A partition column the frame has not is skipped.
EvalWindow(f, s) ==
    LET known == SelectSeq(s.partitionBy, LAMBDA n : HasCol(f.cols, n))
        at == IndexOf(f.cols, known)
        entry == Entry(s.alias, WindowType(f.cols, s), WindowUnit(s.func, ColUnit(f.cols, s.of)))
    IN  IF ~HasCol(f.cols, s.of) /\ s.func \notin {"rowNumber", "rank"}
        THEN Fail("UnknownColumn")
        ELSE Frame(Append(f.cols, entry),
                   [r \in DOMAIN f.rows |-> Append(f.rows[r], 
                                     WindowCell(f, s, Ordered(f, s.orderBy, Members(f, at, r)), r))])

----------------------------------------------------------------------------
(* One step.                                                               *)

\* The resolver knows tables by name; a source it does not know fails the step.
Source(tables, name) ==
    IF name \in DOMAIN tables THEN ToFrame(tables[name]) ELSE Fail("UnresolvedSource")

WithSource(s, f, other) ==
    CASE other.err # "" -> other
      [] s.verb = "join" -> EvalJoin(f, other, s)
      [] s.verb = "union" -> EvalUnion(f, other)
      [] s.verb = "intersect" -> EvalSetOp(f, other, TRUE)
      [] s.verb = "except" -> EvalSetOp(f, other, FALSE)

EvalStep(tables, f, s, env) ==
    CASE s.verb \in {"filter", "derive"} ->
            EvalExprStep(f, s, env, ResolveUnits(f.cols, s.expr))
      [] s.verb = "project" -> EvalProject(f, s)
      [] s.verb = "groupBy" -> EvalGroupBy(f, s)
      [] s.verb = "sort" -> EvalSort(f, s)
      [] s.verb = "distinct" -> EvalDistinct(f)
      [] s.verb = "limit" -> EvalLimit(f, s)
      [] s.verb = "window" -> EvalWindow(f, s)
      [] s.verb = "pivot" -> EvalPivot(f, s)
      [] s.verb = "unpivot" -> EvalUnpivot(f, s)
      [] OTHER -> WithSource(s, f, Source(tables, s.source))

\* The steps of a pipeline in order; an error ends it.
RECURSIVE EvalPipeline(_, _, _, _)
EvalPipeline(tables, f, steps, env) ==
    IF steps = <<>> \/ f.err # "" THEN f
    ELSE EvalPipeline(tables, EvalStep(tables, f, Head(steps), env), Tail(steps), env)

============================================================================
