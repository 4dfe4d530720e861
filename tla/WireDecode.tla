------------------------------ MODULE WireDecode ------------------------------
(*
  The decoder. A document is read at a type: the type says which parts of it to read next, each at
  its own type, and what to build of what they gave. The first part that is refused refuses the
  whole, at that part's own path.

  A compute payload (a data source, a pipeline, an expression) has a codec of its own, which knows no
  paths: whatever it refuses is refused at the payload. The limits on depth and size are left out.
*)
EXTENDS WireTypes, SequencesExt, FiniteSetsExt

\* A dialect d is what there is to read: the entries of every owner and the cases of every union
\* (d.reads), and those of a binding for each kind of slot it may stand in (d.bindings).

Ok(v) == [ok |-> TRUE, v |-> v]
Refused(at, code) == [ok |-> FALSE, at |-> at, code |-> code]
Part(type, at, v) == [type |-> type, at |-> at, v |-> v]

IsObject(j) == j.j = "obj"
Has(j, keys) == IsObject(j) /\ keys \subseteq DOMAIN j.f
TagOf(j) == IF Has(j, {"$type"}) /\ j.f["$type"].j = "str" THEN j.f["$type"].s ELSE ""

\* Mutant: a missing member is told as an ill-typed one.
missing_field_as_ill_typed(at, key) == Part(<<"refuse", "WRONG_TYPE">>, Append(at, key), Null)

missing_field(at, key) == Part(<<"refuse", "MISSING_FIELD">>, Append(at, key), Null)
wrong_type(at) == Part(<<"refuse", "WRONG_TYPE">>, at, Null)
unknown_du_case(at) == Part(<<"refuse", "UNKNOWN_DU_CASE">>, Append(at, "$type"), Null)

unwrap_static_envelope(j) == IF TagOf(j) = "Static" /\ Has(j, {"value"}) THEN j.f["value"] ELSE j

-----------------------------------------------------------------------------
(* Scalars and enumerations. *)

Numbers == {"num", "half", "huge"}
Sentinels == {"NaN", "Infinity", "-Infinity"}

as_str(at, j) ==
  LET u == unwrap_static_envelope(j) IN IF u.j = "str" THEN Ok(u) ELSE Refused(at, "WRONG_TYPE")

as_bool(at, j) ==
  LET u == unwrap_static_envelope(j) IN IF u.j = "bool" THEN Ok(u) ELSE Refused(at, "WRONG_TYPE")

as_int(at, j) ==
  LET u == unwrap_static_envelope(j) IN IF u.j = "num" THEN Ok(u) ELSE Refused(at, "WRONG_TYPE")

as_float(at, j) ==
  LET u == unwrap_static_envelope(j)
  IN IF u.j \in Numbers \/ (u.j = "str" /\ u.s \in Sentinels) THEN Ok(u) ELSE Refused(at, "WRONG_TYPE")

\* Spellings of prominence from the two vocabularies that share the name `emphasis`.
Prominent == {"Loud", "Strong", "Bold"}
Modest == {"Quiet", "Subtle", "Muted"}

decode_emphasis(at, j) ==
  LET u == unwrap_static_envelope(j)
  IN CASE u.j = "bool" -> Ok(Str(IF u.b THEN "Loud" ELSE "Normal"))
       [] u.j # "str" /\ u.j # "bool" -> Refused(at, "WRONG_TYPE")
       [] u.j = "str" ->
            IF u.s \in Prominent THEN Ok(Str("Loud"))
            ELSE IF u.s \in Modest THEN Ok(Str("Quiet"))
            ELSE IF u.s = "Normal" THEN Ok(u) ELSE Refused(at, "UNKNOWN_DU_CASE")

decode_emphasis_flag(at, j) ==
  LET u == unwrap_static_envelope(j)
  IN IF u.j = "bool" THEN Ok(u)
     ELSE IF u.j = "str" /\ u.s \in Prominent THEN Ok(Bool(TRUE))
     ELSE IF u.j = "str" /\ u.s \in Modest \cup {"Normal"} THEN Ok(Bool(FALSE))
     ELSE Refused(at, "WRONG_TYPE")

\* Enumerations that, like a plain scalar, are read through a Static envelope.
Enveloped == {"BoxRole", "HashStrictness", "HostEffect", "DeterminismSource", "ChannelDirection"}

decode_enum(enum, at, j) ==
  LET u == IF enum \in Enveloped THEN unwrap_static_envelope(j) ELSE j
      foreign == IF enum \in DOMAIN Spellings THEN Spellings[enum] ELSE <<>>
  IN IF u.j # "str" THEN Refused(at, "WRONG_TYPE")
     ELSE IF u.s \in Enums[enum] THEN Ok(u)
     ELSE IF u.s \in DOMAIN foreign THEN Ok(Str(foreign[u.s]))
     ELSE Refused(at, "UNKNOWN_DU_CASE")

positive_width(at, j) == IF j.j = "num" /\ j.n > 0 THEN Ok(j) ELSE Refused(at, "WRONG_TYPE")

non_empty_id(at, j) ==
  LET id == as_str(at, j) IN IF id.ok /\ id.v = Str("") THEN Refused(at, "EMPTY_NODE_ID") ELSE id

\* The scalars of the compute layer, which looks through no envelope.
c_int(at, j) == IF j.j = "num" THEN Ok(j) ELSE Refused(at, "WRONG_TYPE")

\* The whole part of a number; one no slot holds stays as it is.
c_truncated(at, j) ==
  CASE j.j \in {"num", "huge"} -> Ok(j)
    [] j.j = "half" -> Ok(Num(0))
    [] OTHER -> Refused(at, "WRONG_TYPE")

c_number(at, j) == IF j.j \in Numbers THEN Ok(j) ELSE Refused(at, "WRONG_TYPE")
c_bool(at, j) == IF j.j = "bool" THEN Ok(j) ELSE Refused(at, "WRONG_TYPE")
c_decimal(at, j) == IF decimal_of(j) = None THEN Refused(at, "WRONG_TYPE") ELSE Ok(decimal_of(j))
c_unit(at, j) ==
  IF j.j = "str" /\ j.s \in DOMAIN Units THEN Ok(Str(Units[j.s])) ELSE Refused(at, "WRONG_TYPE")

Direction(descends) == Ok(Str(IF descends THEN "desc" ELSE "asc"))
c_direction(at, j) == IF j.j = "str" THEN Direction(j.s = "desc") ELSE Refused(at, "WRONG_TYPE")
c_descending(at, j) == IF j.j = "bool" THEN Direction(j.b) ELSE Refused(at, "WRONG_TYPE")

Constant(kind, value) == Record("ColExpr_Lit", [cell |-> Cell(kind, value)])
flat_value(at, j) ==
  CASE j.j = "str" -> Ok(Constant("Str", j))
    [] j.j \in {"num", "huge"} -> Ok(Constant("Int", j))
    [] j.j = "half" -> Ok(Constant("Float", j))
    [] j.j = "bool" -> Ok(Constant("Bool", j))
    [] OTHER -> Refused(at, "WRONG_TYPE")

flat_param(at, j) ==
  IF j.j = "str" THEN Ok(Record("ColExpr_Param", [name |-> j])) ELSE Refused(at, "WRONG_TYPE")

ComputeLeaves ==
  {"whole", "truncated", "number", "truth", "decimal", "unit", "dir", "descending", "scalar", "paramName"}

ComputeLeaf(word, at, j) ==
  CASE word = "whole" -> c_int(at, j)
    [] word = "truncated" -> c_truncated(at, j)
    [] word = "number" -> c_number(at, j)
    [] word = "truth" -> c_bool(at, j)
    [] word = "decimal" -> c_decimal(at, j)
    [] word = "unit" -> c_unit(at, j)
    [] word = "dir" -> c_direction(at, j)
    [] word = "descending" -> c_descending(at, j)
    [] word = "scalar" -> flat_value(at, j)
    [] word = "paramName" -> flat_param(at, j)

LeafTypes ==
  {"refuse", "is", "string", "text", "bool", "int", "float", "closure", "payload", "flag", "pixels",
   "nodeId", "timeOnly"} \cup DOMAIN Enums \cup ComputeLeaves

Leaf(type, at, j) ==
  CASE type[1] = "refuse" -> Refused(at, type[2])
    [] type[1] = "is" -> Ok(j)
    [] type[1] = "string" -> as_str(at, j)
    [] type[1] \in {"text", "payload"} -> IF j.j = "str" THEN Ok(j) ELSE Refused(at, "WRONG_TYPE")
    [] type[1] = "bool" -> as_bool(at, j)
    [] type[1] = "int" -> as_int(at, j)
    [] type[1] = "float" -> as_float(at, j)
    [] type[1] = "closure" -> Ok(CLOSURE)
    [] type[1] = "flag" -> decode_emphasis_flag(at, j)
    [] type[1] = "pixels" -> positive_width(at, j)
    [] type[1] = "nodeId" -> non_empty_id(at, j)
    [] type[1] = "Emphasis" -> decode_emphasis(at, j)
    [] type[1] \in ComputeLeaves -> ComputeLeaf(type[1], at, j)
    [] type[1] = "timeOnly" -> IF j = Str("Time") THEN Ok(j) ELSE Refused(at, "WRONG_TYPE")
    [] type[1] \in DOMAIN Enums \ {"Emphasis"} -> decode_enum(type[1], at, j)

-----------------------------------------------------------------------------
(* What is refused about an owner as a whole, before its members are read. *)

A11Y_NEAR_MISSES ==
  {"aria-label", "ariaLabel", "aria-labelledby", "ariaLabelledBy", "labelledby", "aria-describedby",
   "ariaDescribedBy", "describedby", "aria-role", "ariaRole", "aria-live", "ariaLive", "live",
   "liveregion", "aria-hidden", "ariaHidden"}
FORM_FIELD_NEAR_MISSES == {"validation", "constraints", "validate"}
GRID_NEAR_MISSES ==
  {"currentPage", "page", "pageIndex", "sortable", "onEdit", "behaviour", "behavior"}
COLUMN_NEAR_MISSES == {"readOnly"}

Retired ==
  [ Accessibility |-> A11Y_NEAR_MISSES, FormField |-> FORM_FIELD_NEAR_MISSES,
    GridSpec |-> GRID_NEAR_MISSES, ColumnErased |-> COLUMN_NEAR_MISSES,
    TreeOp_InsertChild |-> {"position"}, TreeOp_MoveNode |-> {"newPosition"} ]

Members(f) == DOMAIN f \ {"$type"}
OnlyOneOf(f, first, second) == ~ {first, second} \subseteq DOMAIN f

\* A Select of one value must carry it; of several, `value` is read and dropped.
select_needs_value(at, f) ==
  LET single == "multiple" \notin DOMAIN f \/ f["multiple"] = Bool(FALSE)
  IN IF single /\ "value" \notin DOMAIN f THEN <<missing_field(at, "value")>> ELSE <<>>

Before(owner, at, f) ==
  LET stray == IF owner \in DOMAIN Retired THEN Retired[owner] \cap DOMAIN f
               ELSE IF owner = "Action_Print" THEN Members(f) ELSE {}
  IN CASE stray # {} -> <<wrong_type(Append(at, CHOOSE k \in stray : TRUE))>>
       [] owner = "SwitchCase" /\ ~OnlyOneOf(f, "match", "when") -> <<wrong_type(Append(at, "when"))>>
       [] owner = "Action_SetState" /\ ~OnlyOneOf(f, "value", "valueFrom") ->
            <<wrong_type(Append(at, "valueFrom"))>>
       [] owner = "Action_SetState" /\ {"value", "valueFrom"} \cap DOMAIN f = {} ->
            <<missing_field(at, "value")>>
       [] owner = "SelectSpec" -> select_needs_value(at, f)
       [] owner = "FlatFilter" /\ ~OnlyOneOf(f, "param", "value") -> <<wrong_type(at)>>
       [] owner \in {ExprsOwner(t) : t \in Connectives} /\ f["exprs"] = List(<<>>) -> <<wrong_type(at)>>
       [] OTHER -> <<>>

-----------------------------------------------------------------------------
(* The parts of a document at a type. *)

Index(i) == "[" \o ToString(i - 1) \o "]"
Each(type, at, items) == [i \in DOMAIN items |-> Part(type, Append(at, Index(i)), items[i])]

Keys(f) == SetToSeq(DOMAIN f)
EachKey(type, at, f) == [i \in DOMAIN Keys(f) |-> Part(type, Append(at, Keys(f)[i]), f[Keys(f)[i]])]

decode_jval(at, j) ==
  CASE j.j = "null" -> <<wrong_type(at)>>
    [] j.j = "arr" -> Each(<<"json">>, at, j.a)
    [] j.j = "obj" -> EachKey(<<"json">>, at, j.f)
    [] OTHER -> <<>>

\* Mutant: the control is given its label for a name.
Control_by_label(type, at, f) ==
  LET name == as_str(Append(at, "label"), f["label"])
  IN IF ~{"label", "kind"} \subseteq DOMAIN f THEN missing_field(at, "kind")
     ELSE Part(<<"control", type[2], IF name.ok THEN name.v.s ELSE "">>, Append(at, "kind"), f["kind"])

\* The control of a field or a filter chip is read with the name it may bind itself to.
Control(type, at, f) ==
  LET names == IF type[2] = "FormFieldId" THEN {"id", "name"} ELSE {"name"}
      key == IF type[3] \in DOMAIN f THEN type[3] ELSE "name"
      name == as_str(Append(at, type[3]), f[key])
  IN IF names \cap DOMAIN f = {} THEN missing_field(at, type[3])
     ELSE IF ~name.ok THEN wrong_type(Append(at, type[3]))
     ELSE IF "kind" \notin DOMAIN f THEN missing_field(at, "kind")
     ELSE Part(<<"control", type[2], name.v.s>>, Append(at, "kind"), f["kind"])

\* A member is read under its own key, else under the first of its other spellings there is.
FieldOf(e, at, f) ==
  LET keys == SelectSeq(<<e.key>> \o e.also, LAMBDA k : k \in DOMAIN f)
  IN IF e.type[1] = "control" THEN Control(e.type, at, f)
     ELSE IF e.sole /\ Len(keys) > 1 THEN wrong_type(at)
     ELSE IF keys # <<>> THEN Part(e.type, Append(at, e.key), f[keys[1]])
     ELSE IF e.need THEN missing_field(at, e.key)
     ELSE IF e.or = Null THEN Part(e.type, Append(at, e.key), Null)
     ELSE Part(<<"is">>, at, e.or)

Chosen(e, f) ==
  IF e.instead # <<>> /\ ({e.key} \cup Range(e.also)) \cap DOMAIN f = {} THEN e.instead[1] ELSE e

BindingCases == {"Binding_" \o tag : tag \in Tags.Binding}
Controls == {"FormFieldKind_" \o tag : tag \in Tags.FormFieldKind}

\* Under the tag Time the variant is Time, and may be left out.
temporal_variant(e) ==
  IF e.key = "variant" THEN Or("variant", <<"timeOnly">>, Str("Time")) ELSE e

EntriesOf(d, type) ==
  IF type[1] \in BindingCases THEN d.bindings[type[2]][type[1]]
  ELSE IF type[1] \in Controls /\ Len(type) = 4
       THEN [i \in DOMAIN d.reads[type[1]] |-> temporal_variant(d.reads[type[1]][i])]
  ELSE d.reads[type[1]]

Owner(d, type, at, j) ==
  IF ~IsObject(j) THEN <<wrong_type(at)>>
  ELSE LET before == Before(type[1], at, j.f)
       IN IF before # <<>> THEN before
          ELSE LET entries == EntriesOf(d, type)
               IN [i \in DOMAIN entries |-> FieldOf(Chosen(entries[i], j.f), at, j.f)]

\* The case an object's tag names, where a host spelling of a tag stands for another case.
CaseOf(union, j) ==
  LET tag == TagOf(j)
  IN CASE union \in {"Format", "CellFormat"} /\ tag = "Date" -> "DateTime"
       [] union = "CellKindErased" /\ tag = "Pill" /\ DOMAIN j.f \cap {"map", "toneMap", "tones"} # {} ->
            "TonedPill"
       [] union = "BoxLayout" /\ tag = "Grid" /\ DOMAIN j.f \cap {"cols", "columns", "templateColumns"} = {} ->
            "Auto"
       [] union = "FormFieldKind" /\ tag \in {"Date", "Time"} -> "DateTime"
       [] union = "FormFieldKind" /\ tag \in {"DateRange", "TimeRange"} -> "DateTimeRange"
       [] union = "ColExpr" /\ tag \in Connectives /\ "exprs" \in DOMAIN j.f -> tag \o "Exprs"
       [] union = "ColExpr" /\ tag = "in" /\ OnlyOneOf(j.f, "items", "param") ->
            IF "param" \in DOMAIN j.f THEN "inParam" ELSE "inItems"
       [] union = "TransformStep" /\ tag = "filter" /\ DOMAIN j.f \cap {"pred", "predicate"} = {} ->
            "filterFlat"
       [] OTHER -> tag

\* An object read by its tag: Cases gives the owner each tag names.
Tagged(union, cases, rest, at, j) ==
  IF ~IsObject(j) THEN <<wrong_type(at)>>
  ELSE IF "$type" \notin DOMAIN j.f THEN <<missing_field(at, "$type")>>
  ELSE IF j.f["$type"].j # "str" THEN <<wrong_type(Append(at, "$type"))>>
  ELSE LET tag == CaseOf(union, j)
       IN IF tag \in DOMAIN cases THEN <<Part(<<cases[tag]>> \o rest, at, j)>>
          ELSE IF union = "NodeKind"
               THEN <<Part(<<"refuse", "WRONG_NODE_KIND">>, Append(at, "$type"), Null)>>
          ELSE <<unknown_du_case(at)>>

Prefixed(prefix, tags) == [tag \in tags |-> prefix \o tag]

Binding(slot, at, j) ==
  CASE j.j \in {"arr", "str", "bool"} \cup Numbers -> <<Part(<<"static", slot>>, at, j)>>
    [] TagOf(j) = "Bound" ->
         IF Has(j, {"binding"}) THEN <<Part(<<"slot", slot>>, Append(at, "binding"), j.f["binding"])>>
         ELSE <<missing_field(at, "binding")>>
    [] OTHER -> Tagged("Binding", Prefixed("Binding_", Tags.Binding), <<slot>>, at, j)

\* Element type of the slots that hold a list.
ElementOf ==
  [Options |-> <<"SelectOption">>, StringList |-> <<"string">>, FloatSeq |-> <<"float">>,
   Markers |-> <<"MapMarker">>, Rows |-> <<"row">>]
ScalarOf == [Str |-> <<"string">>, Bool |-> <<"bool">>, Float |-> <<"float">>, Int |-> <<"int">>]

PairKeys == [FloatPair |-> <<"min", "max">>, StringPair |-> <<"from", "to">>]
PairType == [FloatPair |-> <<"float">>, StringPair |-> <<"string">>]
IsBarePair(slot, j) == ~Has(j, {"$type"}) /\ Has(j, Range(PairKeys[slot]))

StaticSlot_parse(slot, at, j) ==
  CASE slot = "Untyped" -> <<>>
    [] slot \in DOMAIN ScalarOf -> <<Part(ScalarOf[slot], at, j)>>
    [] slot = "StringOpt" -> IF j = Null THEN <<>> ELSE <<Part(<<"text">>, at, j)>>
    [] slot \in DOMAIN ElementOf ->
         IF j = Null \/ j = OPAQUE THEN <<>> ELSE <<Part(<<"list">> \o ElementOf[slot], at, j)>>
    [] slot \in DOMAIN PairKeys ->
         IF Has(j, Range(PairKeys[slot]))
         THEN [i \in 1..2 |-> Part(PairType[slot], Append(at, PairKeys[slot][i]), j.f[PairKeys[slot][i]])]
         ELSE IF j.j = "arr" /\ Len(j.a) = 2 THEN Each(PairType[slot], at, j.a)
         ELSE <<wrong_type(at)>>

\* The data inside a wrapper, else the data itself.
DataOf(j) ==
  IF TagOf(j) \in {"Static", "Bound"} /\ Has(j, {"defaultValue"}) THEN j.f["defaultValue"]
  ELSE IF TagOf(j) \in {"Static", "Bound"} /\ Has(j, {"value"}) THEN j.f["value"] ELSE j

\* What a live source starts from: the rows its binding carries under `defaultValue`, if it does.
Initial(at, j) ==
  LET carried == IF Has(j, {"defaultValue"}) THEN j.f["defaultValue"] ELSE Null
      rows == transpose_row_major(carried)
  IN IF TagOf(j) # "State" THEN Part(<<"lenient", "compute", "DataSource">>, at, rows)
     ELSE IF carried \in {Null, List(<<>>)} THEN Part(<<"is">>, at, empty_embedded_source)
     ELSE Part(<<"compute", "DataSource">>, at, rows)

\* A live source stays a binding over rows; anything else is data, taken out of its wrapper.
normalise_transform_source(at, j) ==
  IF TagOf(j) \in {"State", "Selection", "Query"} THEN <<Part(<<"slot", "Rows">>, at, j), Initial(at, j)>>
  ELSE <<Part(<<"as", "Data", "compute", "DataSource">>, at, transpose_row_major(DataOf(j)))>>

decode_i18n_arg(at, j) ==
  IF ~Has(j, {"$type"}) THEN <<Part(<<"as", "Literal", "json">>, at, j)>>
  ELSE IF TagOf(j) = "Static" /\ Has(j, {"value"}) /\ j.f["value"] # Null
       THEN <<Part(<<"as", "Literal", "json">>, Append(at, "value"), j.f["value"])>>
  ELSE <<Part(<<"as", "Bound", "slot", "Untyped">>, at, j)>>

decode_fragment_arg(at, j) ==
  IF TagOf(j) \in Tags.FragmentScalar THEN <<Part(<<"as", "Value", "FragmentScalar">>, at, j)>>
  ELSE Tagged("FragmentArg", [SlotArg |-> "FragmentArg_Slot"], <<>>, at, j)

decode_text_source(d, at, j) ==
  IF ~IsObject(j) THEN <<Part(<<"as", "TextSource_Literal", "string">>, at, j)>>
  ELSE Tagged("TextSource", d.reads["TextSource"], <<>>, at, j)

decode_select_option(at, j) ==
  IF j.j = "str" THEN <<Part(<<"is">>, at, Record("SelectOption",
                               [value |-> j, label |-> Holding("TextSource_Literal", j)]))>>
  ELSE <<>>

\* Parameters come as a list, or as an object from names to bindings.
decode_binding_params(at, j) ==
  IF IsObject(j)
  THEN [i \in DOMAIN Keys(j.f) |->
          Part(<<"param", Keys(j.f)[i]>>, at \o <<Keys(j.f)[i], "from">>, j.f[Keys(j.f)[i]])]
  ELSE IF j.j = "arr" THEN [i \in DOMAIN j.a |-> Part(<<"TransformParam">>, Append(at, "[]"), j.a[i])]
  ELSE <<wrong_type(at)>>

\* The schema and the name of a source; its columns are read once the schema is known.
decode_data_source(at, j) ==
  IF ~IsObject(j) THEN <<wrong_type(at)>>
  ELSE (IF "schema" \in DOMAIN j.f THEN <<Part(<<"list", "SchemaEntry">>, at, j.f["schema"])>> ELSE <<>>) \o
       (IF "ref" \notin DOMAIN j.f THEN <<>>
        ELSE IF "schema" \in DOMAIN j.f THEN <<Part(<<"text">>, at, j.f["ref"])>> ELSE <<wrong_type(at)>>)

OneKey(key, type, at, j) ==
  IF ~IsObject(j) THEN <<wrong_type(at)>>
  ELSE IF key \notin DOMAIN j.f THEN <<missing_field(at, key)>>
  ELSE <<Part(type, Append(at, key), j.f[key])>>

Unions ==
  (DOMAIN Tags \ {"Binding", "FormFieldKind", "FragmentArg", "TextSource", "DataSource", "RoundingScale"})
    \cup {"NodeKind"}

Parts(d, type, at, j) ==
  LET t == type[1] IN
  CASE t = "list" -> IF j.j = "arr" THEN Each(Tail(type), at, j.a) ELSE <<wrong_type(at)>>
    [] t = "names" -> IF j.j = "arr" THEN [i \in DOMAIN j.a |-> Part(<<"string">>, Append(at, "[]"), j.a[i])]
                      ELSE <<wrong_type(at)>>
    [] t = "map" -> IF IsObject(j) THEN EachKey(Tail(type), at, j.f) ELSE <<wrong_type(at)>>
    [] t = "json" -> decode_jval(at, j)
    [] t = "row" -> IF IsObject(j) THEN <<>> ELSE <<wrong_type(at)>>
    [] t = "as" -> <<Part(Tail(Tail(type)), at, j)>>
    [] t \in {"lenient", "compute", "single"} -> <<Part(Tail(type), at, j)>>
    [] t = "DataSource" -> decode_data_source(at, j)
    [] t = "RoundingScale" -> <<Part(IF IsObject(j) THEN <<"RoundingScale_Param">>
                                     ELSE <<"as", "RoundingScale_Lit", "whole">>, at, j)>>
    [] t = "declared" -> IF j = Null THEN <<wrong_type(at)>> ELSE <<Part(<<"static", type[2]>>, at, j)>>
    [] t = "static" -> StaticSlot_parse(type[2], at, j)
    [] t = "slot" -> Binding(type[2], at, j)
    [] t = "pair" -> <<Part(<<IF IsBarePair(type[2], j) THEN "static" ELSE "slot", type[2]>>, at, j)>>
    [] t = "stateKey" -> <<Part(<<"string">>, at, j)>>
    [] t = "button" -> OneKey("label", <<"TextSource">>, at, j)
    [] t = "param" -> <<Part(<<"slot", "Untyped">>, at, j)>>
    [] t = "params" -> decode_binding_params(at, j)
    [] t = "TransformSource" -> normalise_transform_source(at, j)
    [] t = "I18nArg" -> decode_i18n_arg(at, j)
    [] t = "FragmentArg" -> decode_fragment_arg(at, j)
    [] t = "TextSource" -> decode_text_source(d, at, j)
    [] t = "SelectOption" /\ j.j = "str" -> decode_select_option(at, j)
    [] t = "control" ->
         Tagged("FormFieldKind", Prefixed("FormFieldKind_", Tags.FormFieldKind),
           <<type[2], type[3]>> \o (IF TagOf(j) \in {"Time", "TimeRange"} THEN <<"Time">> ELSE <<>>), at, j)
    [] t \in Unions -> Tagged(t, d.reads[t], <<>>, at, j)
    [] OTHER -> Owner(d, type, at, j)

-----------------------------------------------------------------------------
(* What is refused about an owner once its members are read: the first flaw there is. *)

Flaw(holds, path) == [holds |-> holds, path |-> path]

NotPositive(x) == x # None /\ x.n <= 0
Finite(x) == x.j \in Numbers
Repeats(items, i) == \E k \in 1..(i - 1) : items[k] = items[i]

\* How many slots a pattern names, for the patterns that name any.
SlotsIn(text) == IF text = "set {value}" THEN 1 ELSE 0
check_affordance(affordance, slots) ==
  LET list(key, want) ==
        LET items == affordance.m[key].a
        IN [i \in DOMAIN items |->
              Flaw(items[i] = Str("") \/ SlotsIn(items[i].s) # want, <<"affordance", key, Index(i)>>)]
  IN IF affordance = None THEN <<>> ELSE list("patterns", slots) \o list("readPatterns", 0)

check_grid(m) == <<Flaw(NotPositive(m.pageSize), <<"pageSize">>)>>

check_file_upload(m) ==
  <<Flaw(m.destination = Str(""), <<"destination">>),
    Flaw(NotPositive(m.maxBytes), <<"maxBytes">>), Flaw(NotPositive(m.maxFiles), <<"maxFiles">>)>>

\* A list of citations is not written empty, and its names are unlike.
check_markdown(f, m) ==
  LET names == [i \in DOMAIN m.citations.a |-> m.citations.a[i].m.name]
  IN <<Flaw(names = <<>> /\ "citations" \in DOMAIN f, <<"citations">>)>> \o
     [i \in DOMAIN names |->
        Flaw(names[i] = Str("") \/ Repeats(names, i), <<"citations", Index(i), "name">>)]

\* An option is named by one group at most, and only where the Select is known to carry it.
check_select_groups(m) ==
  LET groups == m.groups.a
      source == m.source
      options == IF source.r = "Binding_Static" THEN source.m.value.m.m0.a ELSE <<>>
      values == {options[i].m.value : i \in DOMAIN options}
      known == source.r = "Binding_Static" /\ OPAQUE \notin values
      named == FlattenSeq([g \in DOMAIN groups |->
                 [i \in DOMAIN groups[g].m.values.a |-> <<g, i, groups[g].m.values.a[i]>>]])
      names == [k \in DOMAIN named |-> named[k][3]]
  IN [k \in DOMAIN named |->
        Flaw(Repeats(names, k) \/ (known /\ names[k] \notin values),
             <<"groups", Index(named[k][1]), "values", Index(named[k][2])>>)]

check_select(m) == check_affordance(m.affordance, 1) \o check_select_groups(m)

check_switch(m) == <<Flaw(NotPositive(m.autoAdvanceMs), <<"autoAdvanceMs">>)>>

check_field_rule(m) ==
  <<Flaw(\A k \in {"format", "pattern", "minLength", "maxLength", "compare"} : m[k] = None, <<>>),
    Flaw(m.minLength # None /\ m.maxLength # None /\ m.minLength.n > m.maxLength.n, <<>>)>>

\* A citation names a cell the table has, and no cell is cited twice.
check_static_rows(f, m) ==
  LET cites == [i \in DOMAIN m.citations.a |-> m.citations.a[i].m]
      cells == [i \in DOMAIN cites |-> <<cites[i].row, cites[i].column>>]
      rows == m.rows.a
      row(i) == cites[i].row.n + 1
  IN <<Flaw(cites = <<>> /\ "citations" \in DOMAIN f, <<"citations">>)>> \o
     FlattenSeq([i \in DOMAIN cites |->
       <<Flaw(row(i) \notin DOMAIN rows, <<"citations", Index(i), "row">>),
         Flaw(row(i) \in DOMAIN rows /\ cites[i].column.n + 1 \notin DOMAIN rows[row(i)].a,
              <<"citations", Index(i), "column">>),
         Flaw(Repeats(cells, i), <<"citations", Index(i)>>)>>])

RECURSIVE refuse_nested_confirm(_, _)
refuse_nested_confirm(action, path) ==
  IF action.r = "Action_Confirm" THEN <<Flaw(TRUE, path)>>
  ELSE IF action.r = "Action_Chain"
       THEN FlattenSeq([i \in DOMAIN action.m.m0.a |->
              refuse_nested_confirm(action.m.m0.a[i], path \o <<"ops", Index(i)>>)])
  ELSE <<>>

check_confirm(m) ==
  refuse_nested_confirm(m.onConfirm, <<"onConfirm">>) \o
  (IF m.onCancel = None THEN <<>> ELSE refuse_nested_confirm(m.onCancel, <<"onCancel">>))

Days == <<Str("2024-01-01"), Str("2025-01-01")>>
Later(a, b) == a = Days[2] /\ b = Days[1]
check_annotation_date(m) == <<Flaw(m.m0 \notin Range(Days), <<"iso">>)>>
check_value_range(m) ==
  <<Flaw(~Finite(m.from), <<"from">>), Flaw(~Finite(m.to), <<"to">>),
    Flaw(m.from.j = "num" /\ m.to.j = "num" /\ m.from.n > m.to.n, <<>>)>>
check_x_range(m) ==
  <<Flaw(m.from.r = "ChartAnnotationX_Date" /\ m.to.r = "ChartAnnotationX_Date" /\
         Later(m.from.m.m0, m.to.m.m0), <<>>)>>

MAX_SKELETON_ROWS == 10000

is_hex_colour(x) == x = Str("#000000")
check_color(m) ==
  <<Flaw(m.value.r = "Binding_Static" /\ m.value.m.value.m.m0.j = "str" /\
         ~is_hex_colour(m.value.m.value.m.m0), <<"value">>)>>

check_local(m) ==
  <<Flaw(m.codec # None /\ m.codec.r # "Format_Number", <<"codec">>),
    Flaw(m.onCommit # None /\ m.commitTo # None, <<"commitTo">>)>>

\* Every sub-expression of an expression, and the parameters it asks for. The scale of a rounding may
\* be a parameter too, and is not looked at.
expr_children(e) ==
  LET types == Types[e.r]
      of(type) == {e.m[k] : k \in {x \in DOMAIN types : types[x] = type}}
      arms == UNION {Range(x.a) : x \in of(<<"list", "CaseArm">>)}
  IN of(CT) \cup UNION {Range(x.a) : x \in of(<<"list", "ColExpr">>)} \cup
     {a.m.when : a \in arms} \cup {a.m.then : a \in arms}

RECURSIVE first_col_reference(_)
first_col_reference(e) == e.r = "ColExpr_Col" \/ \E x \in expr_children(e) : first_col_reference(x)

ParamOf(e) == IF e.r = "ColExpr_Param" THEN {e.m.name} ELSE IF e.r = "ColExpr_InParam" THEN {e.m.param} ELSE {}
RECURSIVE first_unbound_param(_, _)
first_unbound_param(e, bound) ==
  ParamOf(e) \ bound # {} \/ \E x \in expr_children(e) : first_unbound_param(x, bound)

\* An expression that stands alone has no row and no parameters but its own.
check_expr(m) ==
  LET bound == IF m.params = None THEN {} ELSE {p.m.name : p \in Range(m.params.a)}
  IN <<Flaw(first_col_reference(m.expr) \/ first_unbound_param(m.expr, bound), <<"expr">>)>>

Flaws(owner, f, m) ==
  CASE owner = "ButtonSpec" -> check_affordance(m.affordance, 0)
    [] owner = "FormField" -> check_affordance(m.affordance, 1)
    [] owner = "GridSpec" -> check_grid(m)
    [] owner = "FileUploadSpec" -> check_file_upload(m)
    [] owner = "MarkdownSpec" -> check_markdown(f, m)
    [] owner = "SelectSpec" -> check_select(m)
    [] owner = "SkeletonSpec" -> <<Flaw(m.rows.n > MAX_SKELETON_ROWS, <<"rows">>)>>
    [] owner = "SwitchSpec" -> check_switch(m)
    [] owner = "DefaultSort" -> <<Flaw(m.column.n < 0, <<"column">>)>>
    [] owner = "FieldRule" -> check_field_rule(m)
    [] owner = "StaticRows" -> check_static_rows(f, m)
    [] owner = "StyleDelta" -> <<Flaw(\A k \in DOMAIN m : m[k] = None, <<>>)>>
    [] owner = "Action_Confirm" -> check_confirm(m)
    [] owner = "BoxLayout_Masonry" -> <<Flaw(m.cols.n <= 0, <<"cols">>)>>
    [] owner = "ChartAnnotation_ReferenceLine" -> <<Flaw(~Finite(m.value), <<"value">>)>>
    [] owner = "ChartAnnotationX_Date" -> check_annotation_date(m)
    [] owner = "ChartAnnotationRange_ValueRange" -> check_value_range(m)
    [] owner = "ChartAnnotationRange_XRange" -> check_x_range(m)
    [] owner = "FormFieldKind_Tokens" ->
         <<Flaw(m.allowFreeText = Bool(FALSE) /\ m.suggestions = None, <<"allowFreeText">>)>>
    [] owner = "FormFieldKind_Rating" -> <<Flaw(m.max.n < 1, <<"max">>)>>
    [] owner = "FormFieldKind_Color" -> check_color(m)
    [] owner = "Binding_Local" -> check_local(m)
    [] owner = "Binding_Expr" -> check_expr(m)
    [] OTHER -> <<>>

-----------------------------------------------------------------------------
(* What the parts make. *)

Option(x) == Record("SelectOption", [value |-> x, label |-> Holding("TextSource_Literal", x)])

placeholder(slot) ==
  CASE slot = "Untyped" -> Holding("Ast", OPAQUE)
    [] slot = "Str" -> Holding("Ast", Str(""))
    [] slot = "Bool" -> Holding("Ast", Bool(FALSE))
    [] slot \in {"Float", "Int"} -> Holding("Ast", Num(0))
    [] slot = "Options" -> Holding("Options", List(<<Option(OPAQUE)>>))
    [] slot = "StringOpt" -> Holding("StringOpt", OPAQUE)
    [] slot = "StringList" -> Holding("StringList", List(<<OPAQUE>>))
    [] slot \in {"FloatSeq", "Markers", "Rows"} -> Holding(slot, List(<<>>))
    [] slot = "FloatPair" -> Record(slot, [min |-> Num(0), max |-> Num(0)])
    [] slot = "StringPair" -> Record(slot, [from |-> Str(""), to |-> Str("")])

\* Mutant: the ends are swapped.
Pair_swapped(slot, v) == Record(slot, PairKeys[slot][1] :> v[2] @@ PairKeys[slot][2] :> v[1])

Pair(slot, v) == Record(slot, PairKeys[slot][1] :> v[1] @@ PairKeys[slot][2] :> v[2])

Static(slot, at, j, v) ==
  CASE slot = "Untyped" -> Ok(Holding("Ast", j))
    [] slot \in DOMAIN ScalarOf -> Ok(Holding("Ast", v[1]))
    [] slot = "StringOpt" -> Ok(Holding(slot, IF j = Null THEN None ELSE v[1]))
    [] slot \in DOMAIN ElementOf ->
         Ok(IF j = Null THEN Holding(slot, List(<<>>)) ELSE IF j = OPAQUE THEN placeholder(slot)
            ELSE Holding(slot, v[1]))
    [] slot \in DOMAIN PairKeys ->
         IF Later(v[1], v[2]) THEN Refused(at, "WRONG_TYPE") ELSE Ok(Pair(slot, v))

Literal(value) == Record("Binding_Static", [value |-> value])

State(key, default, declared) ==
  Record("Binding_State", [key |-> key, defaultValue |-> default, defaultDeclared |-> Bool(declared)])

\* What a control without a value is bound to.
auto_binding(kind, name, default) ==
  IF kind = "FilterChip" THEN Record("Binding_Filter", [name |-> Str(name), defaultValue |-> None])
  ELSE State(Str(name), default, FALSE)

Binary(op, left, right) == Record("ColExpr_Binary", [op |-> op, left |-> left, right |-> right])
Nested(op, exprs) == FoldLeft(LAMBDA left, right : Binary(op, left, right), exprs[1], Tail(exprs))

\* A flat spelling stands for the nested form.
Unflattened(owner, m) ==
  IF owner = "FlatFilter"
  THEN Record("TransformStep_Filter",
              [pred |-> Binary(m.op, Record("ColExpr_Col", [name |-> m.column]), m.right)])
  ELSE LET tag == CHOOSE t \in FlatComparisons \cup ComputeEnums.ScalarFn : owner \in {FlatOwner(t), ExprsOwner(t)}
       IN IF tag \notin FlatComparisons THEN Record("ColExpr_Apply", [fn |-> Str(tag), args |-> m.args])
          ELSE IF owner = ExprsOwner(tag) THEN Nested(Str(tag), m.exprs.a)
          ELSE Binary(Str(tag), m.left, m.right)

\* Mutant: a Select that speaks of several values loses its one value, whatever it says.
Filled_any_multiple(type, f, m) ==
  CASE type[1] = "Binding_State" ->
         IF m.defaultValue = None THEN State(m.key, placeholder(type[2]), FALSE)
         ELSE State(m.key, m.defaultValue, TRUE)
    [] type[1] \in Controls ->
         Record(type[1], IF m.value.r # "Auto" THEN m
                         ELSE [m EXCEPT !.value = auto_binding(type[2], type[3], m.value.m.m0)])
    [] type[1] = "SelectSpec" /\ "multiple" \in DOMAIN f -> Record(type[1], [m EXCEPT !.value = None])
    [] type[1] \in DOMAIN decode_flat \cup {"FlatFilter"} -> Unflattened(type[1], m)
    [] OTHER -> Record(type[1], m)

Filled(type, f, m) ==
  CASE type[1] = "Binding_State" ->
         IF m.defaultValue = None THEN State(m.key, placeholder(type[2]), FALSE)
         ELSE State(m.key, m.defaultValue, TRUE)
    [] type[1] \in Controls ->
         Record(type[1], IF m.value.r # "Auto" THEN m
                         ELSE [m EXCEPT !.value = auto_binding(type[2], type[3], m.value.m.m0)])
    [] type[1] = "SelectSpec" /\ "multiple" \in DOMAIN f /\ f["multiple"] = Bool(TRUE) ->
         Record(type[1], [m EXCEPT !.value = None])
    [] type[1] \in DOMAIN decode_flat \cup {"FlatFilter"} -> Unflattened(type[1], m)
    [] OTHER -> Record(type[1], m)

\* The names columns have here, in their order.
Ordinal == <<"junk", "x", "y">>

\* A source without a schema has one entry for each column, of the type its values are of.
Inferred(columns) ==
  LET names == SelectSeq(Ordinal, LAMBDA k : k \in DOMAIN columns)
      type(k) == LET parts == column_parts(columns[k])
                 IN IF parts = None THEN "none" ELSE infer_column_type(parts.m.values)
  IN [i \in DOMAIN names |-> SchemaEntry(names[i], type(names[i]))]

Embedded(at, columns, schema) ==
  LET column(e) == IF e.m.name.s \in DOMAIN columns /\ e.m.type.s # "none"
                   THEN decode_data_column(e.m.name.s, e.m.type.s, columns[e.m.name.s]) ELSE None
      read == [i \in DOMAIN schema |-> column(schema[i])]
  IN IF None \in Range(read) THEN Refused(at, "WRONG_TYPE")
     ELSE Ok(Record("DataSource_Embedded", [schema |-> List(schema), columns |-> List(read)]))

DataSource(at, f, v) ==
  IF "ref" \in DOMAIN f THEN Ok(Record("DataSource_Ref", [name |-> v[2]]))
  ELSE IF "columns" \notin DOMAIN f THEN Refused(at, "MISSING_FIELD")
  ELSE IF ~IsObject(f["columns"]) THEN Refused(at, "WRONG_TYPE")
  ELSE Embedded(at, f["columns"].f, IF v = <<>> THEN Inferred(f["columns"].f) ELSE v[1].a)

Built(d, type, at, f, v) ==
  LET entries == EntriesOf(d, type)
      chosen == [i \in DOMAIN entries |-> Chosen(entries[i], f)]
      members == {chosen[i].member : i \in DOMAIN chosen}
      read == [x \in members |-> v[CHOOSE i \in DOMAIN chosen : chosen[i].member = x]]
      whole == Filled(type, f, read)
      flaws == SelectSeq(Flaws(type[1], f, whole.m), LAMBDA x : x.holds)
      code == IF type[1] = "SkeletonSpec" THEN "LIMIT_EXCEEDED" ELSE "WRONG_TYPE"
  IN IF flaws = <<>> THEN Ok(whole) ELSE Refused(at \o flaws[1].path, code)

Build(d, type, at, j, v) ==
  LET t == type[1]
      keyed == Object([k \in DOMAIN j.f |-> v[CHOOSE i \in DOMAIN v : Keys(j.f)[i] = k]])
  IN
  CASE t \in {"list", "names", "params"} -> Ok(List(v))
    [] t = "map" -> Ok(keyed)
    [] t = "json" -> Ok(IF j.j = "arr" THEN List(v) ELSE IF j.j = "obj" THEN keyed ELSE j)
    [] t = "row" -> Ok(j)
    [] t = "as" -> Ok(Holding(type[2], v[1]))
    [] t = "static" -> Static(type[2], at, j, v)
    [] t = "slot" -> Ok(IF IsObject(j) THEN v[1] ELSE Literal(v[1]))
    [] t = "pair" -> Ok(IF IsBarePair(type[2], j) THEN Literal(v[1]) ELSE v[1])
    [] t = "stateKey" -> Ok(State(v[1], Holding("Ast", Null), FALSE))
    [] t = "param" -> Ok(Record("TransformParam", [name |-> Str(type[2]), from |-> v[1]]))
    [] t = "single" -> Ok(List(v))
    [] t = "DataSource" -> DataSource(at, j.f, v)
    [] t = "TransformSource" /\ Len(v) = 2 ->
         Ok(Record("Live", [m0 |-> v[1], initial |-> IF v[2] = None THEN empty_embedded_source ELSE v[2]]))
    [] t \in {"declared", "button", "I18nArg", "FragmentArg", "TextSource", "TransformSource",
            "control", "compute", "RoundingScale"} \cup Unions -> Ok(v[1])
    [] t = "SelectOption" /\ j.j = "str" -> Ok(v[1])
    [] OTHER -> Built(d, type, at, j.f, v)

\* What the parts gave decides the whole: a part read leniently gives what it can, or nothing.
Whole(d, p, got) ==
  LET refused == {i \in DOMAIN got : ~got[i].ok}
  IN IF p.type[1] = "lenient" THEN IF refused = {} THEN got[1] ELSE Ok(None)
     ELSE IF refused # {} /\ p.type[1] = "compute" THEN Refused(p.at, "WRONG_TYPE")
     ELSE IF refused # {} THEN got[Min(refused)]
     ELSE Build(d, p.type, p.at, p.v, [i \in DOMAIN got |-> got[i].v])

RECURSIVE DecodePart(_, _)
DecodePart(d, p) ==
  IF p.type[1] \in LeafTypes THEN Leaf(p.type, p.at, p.v)
  ELSE LET parts == Parts(d, p.type, p.at, p.v)
       IN Whole(d, p, [i \in DOMAIN parts |-> DecodePart(d, parts[i])])

Decode(d, type, text) == DecodePart(d, Part(type, <<>>, text))
=============================================================================
