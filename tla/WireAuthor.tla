------------------------------ MODULE WireAuthor ------------------------------
(*
  Documents an author may write: of every record and union case a plain value, and each of the
  values that differ from it in one member.
*)
EXTENDS WireTypes, FiniteSets

\* The case of a union that stands for it.
Plain ==
  [ NodeKind |-> "SkeletonSpec", Action |-> "Action_Dispatch", BoxLayout |-> "BoxLayout_Auto",
    CallResultTarget |-> "CallResultTarget_State", CellFormat |-> "CellFormat_None",
    CellKindErased |-> "CellKindErased_Text", ChartAnnotation |-> "ChartAnnotation_EventMarker",
    ChartAnnotationRange |-> "ChartAnnotationRange_ValueRange",
    ChartAnnotationX |-> "ChartAnnotationX_Category", ColumnWidth |-> "ColumnWidth_Auto",
    CurveCommand |-> "CurveCommand_Close", Format |-> "Format_Number", HoleDecl |-> "HoleDecl_Slot",
    HoleValueSpace |-> "HoleValueSpace_AnyString", LocalFlushTrigger |-> "LocalFlushTrigger_OnBlur",
    LocaleSource |-> "LocaleSource_Ambient", MediaKind |-> "MediaKind_Audio",
    FragmentScalar |-> "FragmentScalar_Int", Shape |-> "Shape_Group",
    TextSource |-> "TextSource_Literal", TreeOp |-> "TreeOp_RemoveNode", Binding |-> "Binding_Query",
    Cell |-> "Cell_Int", ColExpr |-> "ColExpr_Lit", TransformStep |-> "TransformStep_Distinct",
    DataSource |-> "DataSource_Ref", RoundingScale |-> "RoundingScale_Lit" ]

Text == Str("x")
Scalars == {Text, Num(1), Bool(TRUE)}
PlainOf ==
  [ bool |-> Bool(FALSE), string |-> Text, closure |-> OPAQUE, int |-> Num(1), float |-> Num(1),
    json |-> Text, text |-> Text,
    number |-> Num(1), truncated |-> Num(1), decimal |-> Str("1"), unit |-> Str("m") ]

\* Members whose laws a plain value would break.
Particular ==
  [ FieldRule |-> [format |-> Str("email")],
    StyleDelta |-> [tone |-> Str("Brand")],
    StaticRows |-> [rows |-> List(<<List(<<Holding("TextSource_Literal", Text)>>)>>)],
    TableCitation |-> [row |-> Num(0), column |-> Num(0)],
    FormFieldKind_Tokens |-> [suggestions |-> Record("Binding_Computed", NoMembers)],
    SelectSpec |-> [value |-> Record("Binding_Computed", NoMembers)],
    ChartAnnotationX_Date |-> [m0 |-> Str("2024-01-01")],
    Action_SetState |-> [value |-> Text] ]

RECURSIVE Base(_)
Base(type) ==
  LET t == type[1]
      owner == IF t \in DOMAIN Plain THEN Plain[t] ELSE t
      particular == IF owner \in DOMAIN Particular THEN Particular[owner] ELSE NoMembers
      own(k) == IF k \in DOMAIN particular THEN particular[k] ELSE Base(Types[owner][k])
  IN CASE t = "maybe" -> None
       [] t = "list" -> List(<<>>)
       [] t = "map" -> Object(NoMembers)
       [] t = "closure" -> CLOSURE
       [] t \in DOMAIN PlainOf \ {"closure"} -> PlainOf[t]
       [] t \in DOMAIN Enums -> Str(CHOOSE x \in Enums[t] : TRUE)
       [] t = "StaticValue" -> Holding("Ast", Text)
       [] t = "TransformSource" -> Holding("Data", Base(<<"DataSource">>))
       [] t = "SwitchCondition" -> Holding("Match", Text)
       [] t = "I18nArg" -> Holding("Literal", Text)
       [] t = "FragmentArg" -> Holding("Value", Base(<<"FragmentScalar">>))
       [] t = "FormFieldKind" -> Record("FormFieldKind_Text", [onChange |-> None, value |-> Base(<<"Binding">>)])
       [] OTHER -> Record(owner, [k \in DOMAIN Types[owner] |-> own(k)])

CasesOf(union) == {o \in DOMAIN Types : \E tag \in Tags[union] : o = union \o "_" \o tag}

\* The cases of a binding that mean the same in every slot.
AnySlot == CasesOf("Binding") \ {"Binding_Static", "Binding_State"}
BindingOf(case) ==
  IF case \in {"Binding_Filter", "Binding_Selection"}
  THEN Record(case, [k \in DOMAIN Types[case] |-> IF k \in {"defaultValue", "field"} THEN None ELSE Text])
  ELSE Base(<<case>>)

\* A column of every type, with a value that is there and one that is not.
Sample(type) ==
  CASE type = "int" -> Cell("Int", Num(1))
    [] type = "float" -> Cell("Float", Half)
    [] type = "bool" -> Cell("Bool", Bool(TRUE))
    [] type = "string" -> Cell("Str", Text)
    [] type = "date" -> Cell("Date", Text)
    [] type = "decimal" -> Cell("Decimal", Str("1"))
    [] type \in DOMAIN timestamp_digits -> Cell("Timestamp", Str(EpochText(type, 1)))

Column(name, type, cells) ==
  Record("DataColumn", [name |-> Str(name), type |-> Str(type), cells |-> List(cells)])
Table(columns) ==
  Record("DataSource_Embedded",
         [schema |-> List([i \in DOMAIN columns |-> SchemaEntry(columns[i].m.name.s, columns[i].m.type.s)]),
          columns |-> List(columns)])

Full(type) == <<Sample(type), Sample(type)>>
Holed(type) == <<Sample(type), NoCell>>
Sources ==
  {Base(<<"DataSource">>), empty_embedded_source,
   Table(<<Column("x", "int", Full("int")), Column("y", "string", Full("string"))>>)} \cup
  {Table(<<Column("x", t, cells)>>) : t \in {"timestamp_ms"}, cells \in {Full("timestamp")}} \cup
  UNION {{Table(<<Column("x", t, Full(t))>>), Table(<<Column("x", t, Holed(t))>>)} : t \in ColumnTypes}

\* A binding over rows is what it starts from, if it carries any.
Rows == List(<<Object([x |-> Text])>>)
RowsOf(b, rows) ==
  Record("Live", [m0 |-> b, initial |-> IF rows = List(<<>>) THEN empty_embedded_source
                                         ELSE Table(<<Column("x", "string", <<Sample("string")>>)>>)])
LiveSources ==
  {RowsOf(Base(<<"Binding_Query">>), List(<<>>)),
   RowsOf(Record("Binding_State", [key |-> Text, defaultValue |-> Holding("Rows", List(<<>>)),
                                   defaultDeclared |-> Bool(FALSE)]), List(<<>>))} \cup
  {RowsOf(Record("Binding_State", [key |-> Text, defaultValue |-> Holding("Rows", rows),
                                   defaultDeclared |-> Bool(TRUE)]), rows) : rows \in {List(<<>>), Rows}} \cup
  {RowsOf([BindingOf("Binding_Selection") EXCEPT !.m.defaultValue = Holding("Rows", rows)], rows) :
     rows \in {List(<<>>), Rows}}

RECURSIVE Values(_)
Values(type) ==
  LET t == type[1] IN
  CASE t = "maybe" -> {None} \cup Values(Tail(type))
    [] t = "list" -> {List(<<>>)} \cup {List(<<v>>) : v \in Values(Tail(type))}
    [] t = "map" -> {Object(NoMembers)} \cup {Object([x |-> v]) : v \in Values(Tail(type))}
    [] t = "bool" -> {Bool(TRUE), Bool(FALSE)}
    [] t = "float" -> {Num(1), Half, Str("NaN")}
    [] t = "json" -> Scalars \cup {List(<<Text>>), Object([x |-> Text])}
    [] t \in DOMAIN Enums -> {Str(x) : x \in Enums[t]}
    [] t = "Binding" -> {BindingOf(c) : c \in AnySlot}
    [] t = "number" -> {Num(1), Half}
    [] t = "decimal" -> {Str("0"), Str("1")}
    [] t = "DataSource" -> Sources
    [] t = "TransformSource" -> {Holding("Data", s) : s \in Sources} \cup LiveSources
    [] t = "SwitchCondition" -> {Holding("Match", Text), Holding("When", Base(<<"Binding">>))}
    [] t = "I18nArg" -> {Holding("Literal", Text), Holding("Bound", Base(<<"Binding">>))}
    [] t = "FragmentArg" -> {Holding("Value", Base(<<"FragmentScalar_Str">>)),
                             Record("FragmentArg_Slot", [tree |-> Base(<<"Node">>)])}
    [] t = "NodeKind" -> {Base(<<"SkeletonSpec">>), Base(<<"DisclosureSpec">>), Base(<<"LinkSpec">>)}
    [] t \in DOMAIN Tags \ {"FragmentArg", "FormFieldKind"} -> {Base(<<c>>) : c \in CasesOf(t)}
    [] OTHER -> {Base(type)}

-----------------------------------------------------------------------------
(* Bindings that carry a value, each in a slot of its own type. *)

Literals ==
  LET holding(slot, values) == {Holding(slot, v) : v \in values}
      one(type) == {List(<<>>), List(<<Base(type)>>)}
  IN
  [ Untyped |-> holding("Ast", Scalars \cup {Null}), Str |-> holding("Ast", {Text, Str("")}),
    Bool |-> holding("Ast", {Bool(TRUE), Bool(FALSE)}), Float |-> holding("Ast", {Num(0), Num(1), Half}),
    Int |-> holding("Ast", {Num(0), Num(1)}), StringOpt |-> holding("StringOpt", {Text, None}),
    Options |-> holding("Options", one(<<"SelectOption">>)),
    StringList |-> holding("StringList", one(<<"string">>)),
    FloatSeq |-> holding("FloatSeq", one(<<"float">>)),
    Markers |-> holding("Markers", one(<<"MapMarker">>)),
    Rows |-> holding("Rows", {List(<<>>), List(<<Object([x |-> Text])>>)}),
    FloatPair |-> {Record("FloatPair", [min |-> Num(0), max |-> Num(1)])},
    StringPair |-> {Record("StringPair", [from |-> Str("2024-01-01"), to |-> Str("2025-01-01")])} ]

\* A declared default is a value; a state that declares none has the value its slot stands at.
Absent == {Holding("StringOpt", None), Holding("Ast", Null)}
StateOf(key, value, declared) ==
  Record("Binding_State", [key |-> key, defaultValue |-> value, defaultDeclared |-> Bool(declared)])

Valued(slot, unset) ==
  LET declared == Literals[slot] \ Absent
      bare(case) == BindingOf(case).m
  IN {Record("Binding_Static", [value |-> v]) : v \in Literals[slot]} \cup
     {StateOf(Text, v, TRUE) : v \in declared} \cup {StateOf(Text, unset, FALSE)} \cup
     {Record(c, [bare(c) EXCEPT !.defaultValue = v]) :
        c \in {"Binding_Filter", "Binding_Selection"}, v \in declared}

-----------------------------------------------------------------------------
(* Controls, in a field or a filter chip whose name they may bind themselves to. *)

ControlSlot ==
  [ FormFieldKind_Text |-> "Str", FormFieldKind_TextArea |-> "Str", FormFieldKind_DateTime |-> "Str",
    FormFieldKind_Number |-> "Float", FormFieldKind_RangedNumber |-> "Float",
    FormFieldKind_Rating |-> "Float", FormFieldKind_Checkbox |-> "Bool",
    FormFieldKind_Toggle |-> "Bool", FormFieldKind_Choice |-> "StringOpt",
    FormFieldKind_Combobox |-> "StringOpt", FormFieldKind_SegmentedChoice |-> "StringOpt",
    FormFieldKind_Range |-> "FloatPair", FormFieldKind_DateTimeRange |-> "StringPair",
    FormFieldKind_Tokens |-> "StringList", FormFieldKind_Color |-> "Str" ]

\* The binding a control has when it says nothing of one.
Itself(owner, initial) ==
  IF owner = "FilterSpec" THEN BindingOf("Binding_Filter") ELSE StateOf(Text, initial, FALSE)

ControlValues(owner, kind, initial) ==
  LET literals == IF kind = "FormFieldKind_Color" THEN {Holding("Ast", Str("#000000"))}
                  ELSE Literals[ControlSlot[kind]]
  IN {Base(<<"Binding">>), Itself(owner, initial)} \cup
     {StateOf(Text, v, TRUE) : v \in literals \ (Absent \cup {initial})} \cup
     {Record("Binding_Static", [value |-> v]) : v \in literals}

\* A value of an owner that differs from the plain one in at most a member.
Varied(owner) ==
  LET plain == Base(<<owner>>)
  IN {plain} \cup UNION {{[plain EXCEPT !.m[k] = v] : v \in Values(Types[owner][k])} : k \in DOMAIN Types[owner]}

Controls(owner, initial) ==
  UNION {{[Base(<<k>>) EXCEPT !.m.value = v] : v \in ControlValues(owner, k, initial[k])} \cup
         {[c EXCEPT !.m.value = Itself(owner, initial[k])] : c \in Varied(k)} : k \in DOMAIN ControlSlot}

-----------------------------------------------------------------------------
\* The laws an owner lays on its members together.
Present(m, members) == {k \in members : m[k] # None}

Lawful(v) ==
  LET m == v.m IN
  CASE v.r = "SelectSpec" -> (m.multiple = Bool(TRUE)) <=> (m.value = None)
    [] v.r = "Action_SetState" -> Cardinality(Present(m, {"value", "valueFrom"})) = 1
    [] v.r = "Action_Confirm" -> "Action_Confirm" \notin {m.onConfirm.r, m.onCancel.r}
    [] v.r = "Binding_Local" ->
         Cardinality(Present(m, {"onCommit", "commitTo"})) < 2 /\ m.codec.r \in {"None", "Format_Number"}
    [] v.r = "Binding_Transform" -> m.params # List(<<>>)
    [] v.r = "Binding_Expr" ->
         /\ m.params # List(<<>>) /\ m.expr.r # "ColExpr_Col"
         /\ m.expr.r \in {"ColExpr_Param", "ColExpr_InParam"} => m.params # None
    [] v.r = "Binding_Query" -> m.dependsOn # List(<<>>)
    [] v.r = "FieldRule" -> Present(m, DOMAIN m \ {"message"}) # {}
    [] v.r = "StyleDelta" -> Present(m, DOMAIN m) # {}
    [] v.r = "FormFieldKind_Tokens" -> m.allowFreeText = Bool(TRUE) \/ m.suggestions # None
    [] v.r = "ChartAnnotationX_Date" -> m.m0 # Text
    [] v.r = "ChartAnnotation_ReferenceLine" -> m.value.j # "str"
    [] v.r = "ChartAnnotationRange_ValueRange" -> {m.from.j, m.to.j} \cap {"str"} = {}
    [] OTHER -> TRUE

\* Expressions and steps that have a shorter spelling, and an expression that asks for a parameter.
Literal(kind, value) == Record("ColExpr_Lit", [cell |-> Cell(kind, value)])
BinaryOf(op, left, right) == Record("ColExpr_Binary", [op |-> Str(op), left |-> left, right |-> right])
Operands ==
  {Literal("Str", Text), Literal("Int", Num(1)), Literal("Float", Half), Literal("Bool", Bool(TRUE)),
   Base(<<"ColExpr_Param">>)}
Computed ==
  {BinaryOf(op, BinaryOf(op, x, Base(<<"ColExpr_Col">>)), Base(<<"ColExpr_Param">>)) :
     op \in Connectives, x \in Operands} \cup
  {Record("TransformStep_Filter", [pred |-> BinaryOf("lt", Base(<<"ColExpr_Col">>), x)]) : x \in Operands} \cup
  {[Base(<<"Binding_Expr">>) EXCEPT !.m.params = List(<<Base(<<"TransformParam">>)>>), !.m.expr = x] :
     x \in {Base(<<"ColExpr_Param">>), Base(<<"ColExpr_InParam">>),
            BinaryOf("lt", Base(<<"ColExpr_Lit">>), Base(<<"ColExpr_Param">>))}}

\* Values that differ from the plain one in more than a member, or carry a binding with a value.
Combined(initial) ==
  Computed \cup Sources \cup
  {[Base(<<"SelectSpec">>) EXCEPT !.m.multiple = Bool(TRUE), !.m.value = None],
   [Base(<<"Action_SetState">>) EXCEPT !.m.value = None, !.m.valueFrom = Base(<<"Binding">>)]} \cup
  {[Base(<<"SwitchSpec">>) EXCEPT !.m.on = b] :
     b \in {StateOf(Text, Holding("Ast", Text), TRUE), StateOf(Text, Holding("Ast", Null), FALSE)}} \cup
  UNION {{[Base(<<o>>) EXCEPT !.m.kind = c] : c \in {d \in Controls(o, initial) : Lawful(d)}} :
           o \in {"FormField", "FilterSpec"}}

Owners ==
  DOMAIN Types \ ({"Binding_Static", "Binding_State", "TextSource_Literal", "DataSource_Embedded", "DataColumn"}
                    \cup DOMAIN ControlSlot)

Authored(initial) ==
  {v \in UNION {Varied(o) : o \in Owners} \cup Combined(initial) : Lawful(v)}
=============================================================================
