------------------------------ MODULE WireEncode ------------------------------
(*
  The encoder. A value is written from what it holds alone: an owner's rules say which keys it has,
  and what is under each is written in turn. It never fails: an encoder that has nothing to put
  after a key leaves a hole, and the whole is then no JSON at all.
*)
EXTENDS WireCompute, SequencesExt

\* A dialect w is what there is to write: for every owner, when each key is and what is under it.

IsOwner(v) == "r" \in DOMAIN v

\* A best-effort payload: a structure in it is written as a sentinel.
obj_value(j) == IF j.j \in {"arr", "obj"} THEN OPAQUE ELSE j

\* An empty cell of a row has no key.
row(cells) ==
  LET kept == {k \in DOMAIN cells : cells[k] # Null} IN Object([k \in kept |-> obj_value(cells[k])])

static_is_absent(value) == value \in {Holding("StringOpt", None), Holding("Ast", Null)}

static_value(value) ==
  CASE value.r = "Ast" -> obj_value(value.m.m0)
    [] value.r = "StringOpt" -> IF value.m.m0 = None THEN Nothing ELSE value.m.m0
    [] value.r = "Rows" -> List([i \in DOMAIN value.m.m0.a |-> row(value.m.m0.a[i].f)])
    [] value.r \in {"FloatPair", "StringPair"} -> Object(value.m)
    [] OTHER -> value.m.m0

StaticValues ==
  {"Ast", "StringOpt", "Rows", "FloatPair", "StringPair", "Options", "StringList", "FloatSeq", "Markers"}

\* Owners that leave no trace: what they hold is written in their place.
Transparent == {"TextSource_Literal", "Literal", "Bound", "Value", "Live", "Data", "RoundingScale_Lit"}

-----------------------------------------------------------------------------
(* A control, written knowing the name it binds itself to. *)

control_placeholder ==
  LET text(s) == Holding("Ast", Str(s))
      number == Holding("Ast", Num(0))
      checkbox == Holding("Ast", Bool(FALSE))
      choice == Holding("StringOpt", None)
  IN
  [ FormFieldKind_Text |-> text(""), FormFieldKind_TextArea |-> text(""),
    FormFieldKind_DateTime |-> text(""), FormFieldKind_Color |-> text("#000000"),
    FormFieldKind_Number |-> number, FormFieldKind_RangedNumber |-> number,
    FormFieldKind_Rating |-> number,
    FormFieldKind_Checkbox |-> checkbox, FormFieldKind_Toggle |-> checkbox,
    FormFieldKind_Choice |-> choice, FormFieldKind_Combobox |-> choice,
    FormFieldKind_SegmentedChoice |-> choice,
    FormFieldKind_Range |-> Record("FloatPair", [min |-> Num(0), max |-> Num(0)]),
    FormFieldKind_DateTimeRange |-> Record("StringPair", [from |-> Str(""), to |-> Str("")]),
    FormFieldKind_Tokens |-> Holding("StringList", List(<<>>)) ]

\* Mutant: any state under the field's own name counts.
is_auto_by_name(context, name, kind) ==
  LET value == kind.m.value
  IN \/ context = "name" /\ value.r = "Binding_Filter" /\ value.m.name = name
     \/ context = "id" /\ value.r = "Binding_State" /\ value.m.key = name

\* Whether a default was declared is not asked: spelt out in full, it is the same binding.
is_auto(context, name, kind) ==
  LET value == kind.m.value
  IN \/ /\ context = "name" /\ value.r = "Binding_Filter"
        /\ value.m.name = name /\ value.m.defaultValue = None
     \/ /\ context = "id" /\ value.r = "Binding_State"
        /\ value.m.key = name /\ value.m.defaultValue = control_placeholder[kind.r]

\* A literal pair is written without the binding around it.
bare_pair(value) ==
  IF value.r = "Binding_Static" /\ value.m.value.r \in {"FloatPair", "StringPair"}
  THEN value.m.value ELSE value

auto_bound(context, name, kind) ==
  [kind EXCEPT !.m.value = IF is_auto(context, name, kind) THEN None ELSE bare_pair(kind.m.value)]

-----------------------------------------------------------------------------
(* One owner. *)

Empty == {List(<<>>), Object(NoMembers)}

Written(rule, m) ==
  CASE rule.when \in {"tag", "always", "mark", "buttons", "control", "empty", "keyed", "values", "validity"} -> TRUE
    [] rule.when = "given" -> m[rule.of] # None
    [] rule.when = "filled" -> m[rule.of] \notin Empty
    [] rule.when = "filledOption" -> m[rule.of] # None /\ m[rule.of] \notin Empty
    [] rule.when = "unless" -> m[rule.of] # rule.eq
    [] rule.when = "payload" -> ~static_is_absent(m[rule.of])
    [] rule.when = "declared" -> m.defaultDeclared = Bool(TRUE)
    [] rule.when \in {"undeclared", "otherOn"} ->
         (rule.when = "undeclared") <=>
         (m.on.r = "Binding_State" /\ m.on.m.defaultDeclared = Bool(FALSE))
    [] rule.when = "case" -> m[rule.of].r = rule.eq

\* An item of a button group is its label and a handler.
button(label) == Object([label |-> label, onClick |-> CLOSURE])

\* The columns of a source, under the names its schema gives; one that is not there is empty.
keyed_columns(m) ==
  LET names == {e.m.name.s : e \in Range(m.schema.a)}
      named(k) == SelectSeq(m.columns.a, LAMBDA c : c.m.name = Str(k))
      empty(k) == Record("DataColumn", [name |-> Str(k), type |-> Str("string"), cells |-> List(<<>>)])
  IN Object([k \in names |-> IF named(k) = <<>> THEN empty(k) ELSE named(k)[1]])

Carried(rule, m) ==
  CASE rule.when = "tag" -> Str(rule.of)
    [] rule.when = "mark" -> CLOSURE
    [] rule.when = "empty" -> List(<<>>)
    [] rule.when = "keyed" -> keyed_columns(m)
    [] rule.when = "values" ->
         List([i \in DOMAIN m.cells.a |-> cell_column_wire(m.type.s, m.cells.a[i])])
    [] rule.when = "validity" -> List([i \in DOMAIN m.cells.a |-> Bool(m.cells.a[i] # NoCell)])
    [] rule.when = "undeclared" -> m.on.m.key
    [] rule.when = "case" -> m[rule.of].m.m0
    [] rule.when = "control" -> auto_bound(rule.eq, m[rule.eq], m.kind)
    [] rule.when = "buttons" -> List([i \in DOMAIN m[rule.of].a |-> button(m[rule.of].a[i])])
    [] OTHER -> m[rule.of]

case_obj(rules, m) ==
  LET keys == {k \in DOMAIN rules : Written(rules[k], m)}
  IN Object([k \in keys |-> Carried(rules[k], m)])

-----------------------------------------------------------------------------
\* What a value shows of itself: JSON whose items are still to be written.
Shown(w, v) ==
  IF ~IsOwner(v) THEN v
  ELSE IF v.r \in StaticValues THEN static_value(v)
  ELSE case_obj(w[v.r], v.m)

Items(shown) == IF shown.j = "arr" THEN shown.a ELSE IF shown.j = "obj" THEN shown.f ELSE <<>>

Text(shown, texts) ==
  IF Nothing \in {texts[k] : k \in DOMAIN texts} THEN Nothing
  ELSE IF shown.j = "arr" THEN List(texts) ELSE IF shown.j = "obj" THEN Object(texts) ELSE shown

RECURSIVE Encode(_, _)
Encode(w, v) ==
  LET bare == IsOwner(v) /\ v.r \in Transparent
      shown == IF bare THEN List(<<v.m.m0>>) ELSE Shown(w, v)
      items == Items(shown)
      texts == [k \in DOMAIN items |-> Encode(w, items[k])]
  IN IF bare THEN texts[1] ELSE Text(shown, texts)
=============================================================================
