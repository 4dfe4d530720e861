------------------------------ MODULE WireCompute ------------------------------
(*
  The words of the compute layer on the wire: tables of cells, expressions over a row and the steps
  of a pipeline, with what is read and what is written of each.
*)
EXTENDS WireForms, SequencesExt

CT == <<"ColExpr">>
TXT == <<"text">>
TXTS == <<"list", "text">>

ColumnTypes ==
  {"int", "float", "bool", "string", "date", "timestamp", "decimal", "timestamp_ms", "timestamp_us",
   "timestamp_ns"}

AggFns ==
  {"sum", "mean", "min", "max", "count", "median", "stddev", "first", "last", "countDistinct"}

ComputeEnums ==
  [ ColumnType |-> ColumnTypes,
    BinOp |-> {"add", "sub", "mul", "div", "mod", "eq", "ne", "lt", "le", "gt", "ge", "and", "or",
               "contains", "startsWith", "endsWith"},
    ScalarFn |-> {"abs", "round", "floor", "ceil", "length", "lower", "upper", "substr", "datePart",
                  "concat", "trim", "replace", "dateDiffDays", "pow", "exp", "ln", "log10", "least",
                  "greatest"},
    AggFn |-> AggFns, PivotFn |-> AggFns,
    JoinKind |-> {"inner", "left", "right", "outer"},
    WindowFn |-> {"rowNumber", "rank", "lag", "lead", "cumulSum", "rollingMean"},
    SortDir |-> {"asc", "desc"},
    RoundingMode |-> {"halfEven", "halfUp", "down"} ]

ComputeSpellings == [AggFn |-> [avg |-> "mean"], WindowFn |-> [cumSum |-> "cumulSum"]]

ComputeTags ==
  [ Cell |-> {"Null", "Int", "Float", "Bool", "Str", "Date", "Timestamp", "Decimal"},
    ColExpr |-> {"Col", "Param", "Lit", "Binary", "Not", "Coalesce", "Case", "Cast", "Apply", "InList",
                 "InParam", "IsNull", "Quotient", "Rounded", "Convert"},
    RoundingScale |-> {"Lit", "Param"},
    DataSource |-> {"Ref", "Embedded"},
    TransformStep |-> {"Filter", "Project", "Derive", "GroupBy", "Join", "Window", "Pivot", "Unpivot",
                       "Sort", "Distinct", "Limit", "Union", "Intersect", "Except"} ]

ComputeTypes ==
  [ Cell_Null |-> NoMembers, Cell_Int |-> [value |-> <<"truncated">>], Cell_Float |-> [value |-> <<"number">>],
    Cell_Bool |-> [value |-> <<"bool">>], Cell_Str |-> [value |-> TXT], Cell_Date |-> [value |-> TXT],
    Cell_Timestamp |-> [value |-> TXT], Cell_Decimal |-> [value |-> <<"decimal">>],
    SchemaEntry |-> [name |-> TXT, type |-> <<"ColumnType">>, unit |-> <<"maybe", "unit">>,
          label |-> <<"maybe", "text">>, description |-> <<"maybe", "text">>, ext |-> <<"map", "text">>],
    DataColumn |-> [name |-> TXT, type |-> <<"ColumnType">>, cells |-> <<"list", "Cell">>],
    DataSource_Ref |-> [name |-> TXT],
    DataSource_Embedded |-> [schema |-> <<"list", "SchemaEntry">>, columns |-> <<"list", "DataColumn">>],
    ColExpr_Col |-> [name |-> TXT], ColExpr_Param |-> [name |-> TXT], ColExpr_Lit |-> [cell |-> <<"Cell">>],
    ColExpr_Binary |-> [op |-> <<"BinOp">>, left |-> CT, right |-> CT], ColExpr_Not |-> [expr |-> CT],
    ColExpr_Coalesce |-> [exprs |-> <<"list", "ColExpr">>],
    ColExpr_Case |-> [cases |-> <<"list", "CaseArm">>, else |-> CT],
    CaseArm |-> [when |-> CT, then |-> CT],
    ColExpr_Cast |-> [type |-> <<"ColumnType">>, expr |-> CT],
    ColExpr_Apply |-> [fn |-> <<"ScalarFn">>, args |-> <<"list", "ColExpr">>],
    ColExpr_InList |-> [expr |-> CT, items |-> <<"list", "ColExpr">>],
    ColExpr_InParam |-> [expr |-> CT, param |-> TXT], ColExpr_IsNull |-> [expr |-> CT],
    ColExpr_Quotient |-> [dividend |-> CT, divisor |-> CT, rounding |-> <<"Rounding">>],
    ColExpr_Rounded |-> [expr |-> CT, rounding |-> <<"Rounding">>],
    ColExpr_Convert |-> [expr |-> CT, unit |-> <<"unit">>],
    Rounding |-> [mode |-> <<"RoundingMode">>, scale |-> <<"RoundingScale">>],
    RoundingScale_Lit |-> [m0 |-> <<"int">>], RoundingScale_Param |-> [m0 |-> TXT],
    ColPair |-> [a |-> TXT, b |-> TXT],
    Agg |-> [name |-> TXT, fn |-> <<"AggFn">>, of |-> TXT],
    SortKey |-> [column |-> TXT, dir |-> <<"SortDir">>],
    TransformStep_Filter |-> [pred |-> CT], TransformStep_Project |-> [columns |-> <<"list", "ColPair">>],
    TransformStep_Derive |-> [name |-> TXT, expr |-> CT],
    TransformStep_GroupBy |-> [keys |-> TXTS, aggs |-> <<"list", "Agg">>],
    TransformStep_Join |-> [source |-> <<"DataSource">>, on |-> <<"list", "ColPair">>, how |-> <<"JoinKind">>],
    TransformStep_Window |-> [partitionBy |-> TXTS, orderBy |-> <<"list", "SortKey">>,
          fn |-> <<"WindowFn">>, of |-> TXT, as |-> TXT],
    TransformStep_Pivot |-> [index |-> TXTS, on |-> TXT, values |-> TXT, agg |-> <<"PivotFn">>],
    TransformStep_Unpivot |-> [idVars |-> TXTS, valueVars |-> TXTS],
    TransformStep_Sort |-> [by |-> <<"list", "SortKey">>], TransformStep_Distinct |-> NoMembers,
    TransformStep_Limit |-> [n |-> <<"int">>, offset |-> <<"int">>],
    TransformStep_Union |-> [source |-> <<"DataSource">>],
    TransformStep_Intersect |-> [source |-> <<"DataSource">>],
    TransformStep_Except |-> [source |-> <<"DataSource">>] ]

-----------------------------------------------------------------------------
(* What is read. *)

\* A member under exactly one of its names.
c_field_aliased(key, aliases, type) == Sole(Also(Req(key, type), aliases))

\* A lone `expr` stands for a list of one.
expr_args == Otherwise(Req("args", <<"list", "ColExpr">>), Into(Req("expr", <<"single", "ColExpr">>), "args"))

decode_cell_lit ==
  [ Cell |-> [tag \in ComputeTags.Cell |-> "Cell_" \o tag],
    Cell_Null |-> <<>>, Cell_Int |-> <<Req("value", <<"truncated">>)>>,
    Cell_Float |-> <<Req("value", <<"number">>)>>, Cell_Bool |-> <<Req("value", <<"truth">>)>>,
    Cell_Str |-> <<Req("value", TXT)>>, Cell_Date |-> <<Req("value", TXT)>>,
    Cell_Timestamp |-> <<Req("value", TXT)>>, Cell_Decimal |-> <<Req("value", <<"decimal">>)>> ]

decode_schema_entry ==
  [ SchemaEntry |-> <<Req("name", TXT), Req("type", <<"ColumnType">>), Opt("unit", <<"unit">>),
      Opt("label", TXT), Opt("description", TXT), Or("ext", <<"map", "text">>, Object(NoMembers))>> ]

decode_rounding ==
  [ Rounding |-> <<Req("mode", <<"RoundingMode">>), Req("scale", <<"RoundingScale">>)>>,
    RoundingScale_Param |-> <<Into(Req("$param", TXT), "m0")>> ]

\* The tags of the flat spellings: a comparison, a predicate on texts, a connective, a function.
FlatComparisons == {"contains", "startsWith", "endsWith", "eq", "ne", "lt", "le", "gt", "ge", "and", "or"}
Connectives == {"and", "or"}
FlatOwner(tag) == "Flat_" \o tag
ExprsOwner(tag) == "Flat_" \o tag \o "Exprs"

ColExprCases ==
  [ col |-> "ColExpr_Col", param |-> "ColExpr_Param", lit |-> "ColExpr_Lit", binary |-> "ColExpr_Binary",
    not |-> "ColExpr_Not", coalesce |-> "ColExpr_Coalesce", case |-> "ColExpr_Case",
    cast |-> "ColExpr_Cast", apply |-> "ColExpr_Apply", call |-> "ColExpr_Apply", fn |-> "ColExpr_Apply",
    inItems |-> "ColExpr_InList", inParam |-> "ColExpr_InParam", isNull |-> "ColExpr_IsNull",
    quotient |-> "ColExpr_Quotient", rounded |-> "ColExpr_Rounded", convert |-> "ColExpr_Convert",
    andExprs |-> ExprsOwner("and"), orExprs |-> ExprsOwner("or") ] @@
  [tag \in FlatComparisons \cup ComputeEnums.ScalarFn |-> FlatOwner(tag)]

decode_flat ==
  [o \in {FlatOwner(tag) : tag \in FlatComparisons} |->
     <<c_field_aliased("left", <<"expr">>, CT), c_field_aliased("right", <<"other">>, CT)>>]
  @@ [o \in {FlatOwner(tag) : tag \in ComputeEnums.ScalarFn} |-> <<expr_args>>]
  @@ [o \in {ExprsOwner(tag) : tag \in Connectives} |-> <<Req("exprs", <<"list", "ColExpr">>)>>]

decode_col_expr ==
  [ ColExpr |-> ColExprCases,
    ColExpr_Col |-> <<Req("name", TXT)>>, ColExpr_Param |-> <<Req("name", TXT)>>,
    ColExpr_Lit |-> <<Req("cell", <<"Cell">>)>>,
    ColExpr_Binary |-> <<Req("op", <<"BinOp">>), Req("left", CT), Req("right", CT)>>,
    ColExpr_Not |-> <<Req("expr", CT)>>, ColExpr_Coalesce |-> <<Req("exprs", <<"list", "ColExpr">>)>>,
    ColExpr_Case |-> <<Req("cases", <<"list", "CaseArm">>), Req("else", CT)>>,
    CaseArm |-> <<Req("when", CT), Req("then", CT)>>,
    ColExpr_Cast |-> <<Req("type", <<"ColumnType">>), Req("expr", CT)>>,
    ColExpr_Apply |-> <<Req("fn", <<"ScalarFn">>), expr_args>>,
    ColExpr_InList |-> <<Req("expr", CT), Req("items", <<"list", "ColExpr">>)>>,
    ColExpr_InParam |-> <<Req("expr", CT), Req("param", TXT)>>, ColExpr_IsNull |-> <<Req("expr", CT)>>,
    ColExpr_Quotient |-> <<Req("dividend", CT), Req("divisor", CT), Req("rounding", <<"Rounding">>)>>,
    ColExpr_Rounded |-> <<Req("expr", CT), Req("rounding", <<"Rounding">>)>>,
    ColExpr_Convert |-> <<Req("unit", <<"unit">>), Req("expr", CT)>> ]

decode_col_pair == [ColPair |-> <<Req("a", TXT), Req("b", TXT)>>]

decode_agg ==
  [ Agg |-> <<c_field_aliased("name", <<"as">>, TXT), c_field_aliased("fn", <<"op">>, <<"AggFn">>),
      c_field_aliased("of", <<"column">>, TXT)>> ]

\* A direction is any text, of which only "desc" descends; else a flag; else there is none.
decode_order ==
  [ SortKey |-> <<c_field_aliased("column", <<"col">>, TXT),
      Otherwise(Also(Req("dir", <<"dir">>), <<"direction">>),
                Into(Or("descending", <<"descending">>, Str("asc")), "dir"))>> ]

SourceOnly == <<Req("source", <<"DataSource">>)>>

decode_transform_step ==
  [ TransformStep |->
      [ filter |-> "TransformStep_Filter", filterFlat |-> "FlatFilter", project |-> "TransformStep_Project",
        derive |-> "TransformStep_Derive", groupBy |-> "TransformStep_GroupBy",
        join |-> "TransformStep_Join", window |-> "TransformStep_Window", pivot |-> "TransformStep_Pivot",
        unpivot |-> "TransformStep_Unpivot", sort |-> "TransformStep_Sort",
        distinct |-> "TransformStep_Distinct", limit |-> "TransformStep_Limit",
        union |-> "TransformStep_Union", intersect |-> "TransformStep_Intersect",
        except |-> "TransformStep_Except" ],
    TransformStep_Filter |-> <<Also(Req("pred", CT), <<"predicate">>)>>,
    FlatFilter |-> <<Req("column", TXT), Req("op", <<"BinOp">>),
      Otherwise(Into(Req("param", <<"paramName">>), "right"), Into(Req("value", <<"scalar">>), "right"))>>,
    TransformStep_Project |-> <<c_field_aliased("columns", <<"cols">>, <<"list", "ColPair">>)>>,
    TransformStep_Derive |-> <<Req("name", TXT), Req("expr", CT)>>,
    TransformStep_GroupBy |-> <<c_field_aliased("keys", <<"by">>, TXTS),
      c_field_aliased("aggs", <<"aggregations">>, <<"list", "Agg">>)>>,
    TransformStep_Join |-> SourceOnly \o <<Req("on", <<"list", "ColPair">>), Req("how", <<"JoinKind">>)>>,
    TransformStep_Window |-> <<Req("partitionBy", TXTS), Req("orderBy", <<"list", "SortKey">>),
      Req("fn", <<"WindowFn">>), Req("of", TXT), Req("as", TXT)>>,
    TransformStep_Pivot |-> <<Req("index", TXTS), Req("on", TXT), Req("values", TXT), Req("agg", <<"PivotFn">>)>>,
    TransformStep_Unpivot |-> <<Req("idVars", TXTS), Req("valueVars", TXTS)>>,
    TransformStep_Sort |-> <<c_field_aliased("by", <<"keys">>, <<"list", "SortKey">>)>>,
    TransformStep_Distinct |-> <<>>,
    TransformStep_Limit |-> <<c_field_aliased("n", <<"count">>, <<"whole">>), Or("offset", <<"whole">>, Num(0))>>,
    TransformStep_Union |-> SourceOnly, TransformStep_Intersect |-> SourceOnly,
    TransformStep_Except |-> SourceOnly ]

ComputeReads ==
  decode_cell_lit @@ decode_schema_entry @@ decode_rounding @@ decode_flat @@ decode_col_expr @@
  decode_col_pair @@ decode_agg @@ decode_order @@ decode_transform_step

-----------------------------------------------------------------------------
(* What is written. *)

cell_lit ==
  [ Cell_Null |-> Tag("Null") ] @@
  [o \in {"Cell_" \o t : t \in ComputeTags.Cell \ {"Null"}} |->
     Tag(CHOOSE t \in ComputeTags.Cell : o = "Cell_" \o t) @@ Put({"value"})]

schema_entry == [ SchemaEntry |-> Put({"name", "type"}) @@ Given({"unit", "label", "description"}) @@ NonEmpty({"ext"}) ]

\* A reference is written with a schema of no entries.
data_source ==
  [ DataSource_Ref |-> Rule("empty", "schema", "name", None) @@ PutAs("ref", "name"),
    DataSource_Embedded |-> Put({"schema"}) @@ Rule("keyed", "columns", "columns", None),
    DataColumn |-> Rule("values", "values", "cells", None) @@ Rule("validity", "validity", "cells", None) ]

col_expr ==
  [ ColExpr_Col |-> Tag("col") @@ Put({"name"}), ColExpr_Param |-> Tag("param") @@ Put({"name"}),
    ColExpr_Lit |-> Tag("lit") @@ Put({"cell"}),
    ColExpr_Binary |-> Tag("binary") @@ Put({"op", "left", "right"}),
    ColExpr_Not |-> Tag("not") @@ Put({"expr"}), ColExpr_Coalesce |-> Tag("coalesce") @@ Put({"exprs"}),
    ColExpr_Case |-> Tag("case") @@ Put({"cases", "else"}), CaseArm |-> Put({"when", "then"}),
    ColExpr_Cast |-> Tag("cast") @@ Put({"type", "expr"}),
    ColExpr_Apply |-> Tag("apply") @@ Put({"fn", "args"}),
    ColExpr_InList |-> Tag("in") @@ Put({"expr", "items"}),
    ColExpr_InParam |-> Tag("in") @@ Put({"expr", "param"}),
    ColExpr_IsNull |-> Tag("isNull") @@ Put({"expr"}),
    ColExpr_Quotient |-> Tag("quotient") @@ Put({"dividend", "divisor", "rounding"}),
    ColExpr_Rounded |-> Tag("rounded") @@ Put({"expr", "rounding"}),
    ColExpr_Convert |-> Tag("convert") @@ Put({"expr", "unit"}) ]

rounding_json ==
  [ Rounding |-> Put({"mode", "scale"}), RoundingScale_Param |-> PutAs("$param", "m0") ]

col_pair == [ ColPair |-> Put({"a", "b"}) ]
agg_json == [ Agg |-> Put({"name", "fn", "of"}) ]
order_json == [ SortKey |-> Put({"column", "dir"}) ]

transform_step ==
  [ TransformStep_Filter |-> Tag("filter") @@ Put({"pred"}),
    TransformStep_Project |-> Tag("project") @@ Put({"columns"}),
    TransformStep_Derive |-> Tag("derive") @@ Put({"name", "expr"}),
    TransformStep_GroupBy |-> Tag("groupBy") @@ Put({"keys", "aggs"}),
    TransformStep_Join |-> Tag("join") @@ Put({"source", "on", "how"}),
    TransformStep_Window |-> Tag("window") @@ Put({"partitionBy", "orderBy", "fn", "of", "as"}),
    TransformStep_Pivot |-> Tag("pivot") @@ Put({"index", "on", "values", "agg"}),
    TransformStep_Unpivot |-> Tag("unpivot") @@ Put({"idVars", "valueVars"}),
    TransformStep_Sort |-> Tag("sort") @@ Put({"by"}), TransformStep_Distinct |-> Tag("distinct"),
    TransformStep_Limit |-> Tag("limit") @@ Put({"n", "offset"}),
    TransformStep_Union |-> Tag("union") @@ Put({"source"}),
    TransformStep_Intersect |-> Tag("intersect") @@ Put({"source"}),
    TransformStep_Except |-> Tag("except") @@ Put({"source"}) ]

ComputeWrites ==
  cell_lit @@ schema_entry @@ data_source @@ col_expr @@ rounding_json @@ col_pair @@ agg_json @@
  order_json @@ transform_step

-----------------------------------------------------------------------------
(* The cells of a column, in the column's own type. *)

Cell(kind, value) == Record("Cell_" \o kind, [value |-> value])
NoCell == Record("Cell_Null", NoMembers)

\* The units and the decimals a text may spell, each with its one canonical text.
Units == "m" :> "m" @@ "m^1" :> "m"
Decimals == "1" :> "1" @@ "1.0" :> "1" @@ "0" :> "0"

\* The fraction digits of the texts that are an instant.
instant_fraction_digits ==
  "1970-01-01T00:00:00Z" :> 0 @@ "1970-01-01T00:00:01Z" :> 0 @@ "1970-01-01T00:00:00.001Z" :> 3 @@
  "1970-01-01T00:00:00.000001Z" :> 6 @@ "1970-01-01T00:00:00.000000001Z" :> 9

timestamp_digits == [timestamp |-> 0, timestamp_ms |-> 3, timestamp_us |-> 6, timestamp_ns |-> 9]

\* The instant a count names: of seconds in a column of seconds, else of the column's own unit.
EpochText(type, n) ==
  IF n = 0 THEN "1970-01-01T00:00:00Z"
  ELSE IF type = "timestamp" THEN "1970-01-01T00:00:01Z"
  ELSE CHOOSE s \in DOMAIN instant_fraction_digits : instant_fraction_digits[s] = timestamp_digits[type]

decode_instant(type, j) ==
  CASE j.j = "str" /\ j.s \in DOMAIN instant_fraction_digits ->
         IF instant_fraction_digits[j.s] <= timestamp_digits[type] THEN Cell("Timestamp", j) ELSE None
    [] j.j = "num" /\ j.n \in {0, 1} -> Cell("Timestamp", Str(EpochText(type, j.n)))
    [] OTHER -> None

decimal_of(j) ==
  CASE j.j = "str" /\ j.s \in DOMAIN Decimals -> Str(Decimals[j.s])
    [] j.j = "num" -> Str(ToString(j.n))
    [] OTHER -> None

decode_column_cell(type, j) ==
  CASE type = "int" /\ j.j = "num" -> Cell("Int", j)
    [] type = "float" /\ j.j \in {"num", "half", "huge"} -> Cell("Float", j)
    [] type = "bool" /\ j.j = "bool" -> Cell("Bool", j)
    [] type = "string" /\ j.j = "str" -> Cell("Str", j)
    [] type = "date" /\ j.j = "str" -> Cell("Date", j)
    [] type = "decimal" -> IF decimal_of(j) = None THEN None ELSE Cell("Decimal", decimal_of(j))
    [] type \in DOMAIN timestamp_digits -> decode_instant(type, j)
    [] OTHER -> None

\* An entry that says nothing but its name and its type.
SchemaEntry(name, type) ==
  Record("SchemaEntry", [name |-> Str(name), type |-> Str(type), unit |-> None, label |-> None,
                         description |-> None, ext |-> Object(NoMembers)])

\* What stands under an empty cell, and an int that widened into its column.
cell_column_wire(type, cell) ==
  CASE cell = NoCell -> (CASE type = "bool" -> Bool(FALSE) [] type \in {"int", "float"} -> Num(0)
                           [] type = "decimal" -> Str("0") [] OTHER -> Str(""))
    [] cell.r = "Cell_Int" /\ type = "decimal" -> Str(ToString(cell.m.value.n))
    [] OTHER -> cell.m.value

\* A column is a bare list of values, or the values with a mark on those that are there.
Bare(col) == col.j = "arr"
Under(col, key) == IF Bare(col) THEN col ELSE col.f[key]
AllThere(values) == [i \in DOMAIN values |-> Bool(TRUE)]
column_parts(col) ==
  LET whole == col.j = "obj" /\ "values" \in DOMAIN col.f /\ col.f["values"].j = "arr"
      values == Under(col, "values").a
      marked == ~Bare(col) /\ "validity" \in DOMAIN col.f
  IN IF ~Bare(col) /\ ~whole THEN None
     ELSE IF marked /\ col.f["validity"].j # "arr" THEN None
     ELSE Record("Parts", [values |-> values, there |-> IF marked THEN col.f["validity"].a ELSE AllThere(values)])

decode_data_column(name, type, col) ==
  LET parts == column_parts(col).m
      cells == [i \in DOMAIN parts.values |->
                  CASE parts.there[i] = Bool(FALSE) -> NoCell
                    [] parts.there[i] = Bool(TRUE) -> decode_column_cell(type, parts.values[i])
                    [] OTHER -> None]
  IN IF column_parts(col) = None THEN None
     ELSE IF Len(parts.values) # Len(parts.there) \/ None \in Range(cells) THEN None
     ELSE Record("DataColumn", [name |-> Str(name), type |-> Str(type), cells |-> List(cells)])

\* The one type the values of a column without a declared one are of, or none.
infer_column_type(values) ==
  LET kinds == {v.j : v \in Range(values)}
  IN CASE kinds = {"num"} -> "int"
       [] kinds # {} /\ kinds \subseteq {"num", "half", "huge"} -> "float"
       [] kinds = {"bool"} -> "bool"
       [] kinds = {"str"} -> "string"
       [] OTHER -> "none"

\* An array of row objects is turned on its side: the first row's keys name the columns.
transpose_row_major(j) ==
  IF j.j = "arr" /\ j.a # <<>> /\ j.a[1].j = "obj"
  THEN LET cell(row, k) == IF row.j = "obj" /\ k \in DOMAIN row.f THEN row.f[k] ELSE Null
           column(k) == List([i \in DOMAIN j.a |-> cell(j.a[i], k)])
       IN Object([columns |-> Object([k \in DOMAIN j.a[1].f |-> column(k)])])
  ELSE j

empty_embedded_source == Record("DataSource_Embedded", [schema |-> List(<<>>), columns |-> List(<<>>)])
=============================================================================
