--------------------------------- MODULE Relay ---------------------------------
(*
  A document on its way. An author writes a value; on the way its text may come to be spelt another
  way that means the same, or be damaged in one member; a host reads it and writes what it read for
  the next host, which reads it in turn.

  A text is edited once at most, while nobody has read it.
*)
EXTENDS WireReads, WireWrites, WireDecode, WireEncode

CONSTANTS
  Documents,    \* what authors may mean: the type it is read at and the value
  Junk,         \* what a damaged member may hold
  NullDefaults, \* whether it may be a default that is null
  SeedAliases,  \* whether a live source may carry its rows under another name of the member
  Hops          \* how many hosts read a document

ASSUME HopsAssumption == Hops \in Nat

VARIABLES doc, text, edit, seen, hops
vars == <<doc, text, edit, seen, hops>>

Unread == [ok |-> FALSE, at |-> <<>>, code |-> "UNREAD"]
Kept(how) == [how |-> how, key |-> "", code |-> ""]
Damaged(how, key, code) == [how |-> how, key |-> key, code |-> code]
Untouched == Kept("untouched")

Faithful == edit.key = ""

\* The entries the document's own owner is read by.
Subject == IF doc.type[1] = "slot" THEN <<doc.means.r, doc.type[2]>> ELSE <<doc.means.r>>
Entry ==
  IF Subject[1] \in DOMAIN Dialect.reads \cup BindingCases THEN Range(EntriesOf(Dialect, Subject)) ELSE {}

Init ==
  /\ doc \in Documents
  /\ text = Nothing
  /\ edit = Untouched
  /\ seen = Unread
  /\ hops = 0

\* The author writes the document; a host that has read it writes what it read.
Send ==
  /\ IF hops = 0 THEN text = Nothing ELSE seen.ok
  /\ text' = Encode(DialectWrites, IF hops = 0 THEN doc.means ELSE seen.v)
  /\ seen' = Unread
  /\ UNCHANGED <<doc, edit, hops>>

Receive ==
  /\ text # Nothing /\ seen = Unread /\ hops < Hops
  /\ seen' = Decode(Dialect, doc.type, text)
  /\ hops' = hops + 1
  /\ UNCHANGED <<doc, text, edit>>

-----------------------------------------------------------------------------
(* Other spellings of the same. *)

Edit(members, how) ==
  /\ text' = Object(members)
  /\ edit' = how
  /\ UNCHANGED <<doc, seen, hops>>

Without(f, key) == Restrict(f, DOMAIN f \ {key})

\* A member under another of its names.
Respell(e) ==
  \E alias \in Range(e.also) :
    /\ e.key \in DOMAIN text.f /\ alias \notin DOMAIN text.f
    /\ Edit(alias :> text.f[e.key] @@ Without(text.f, e.key), Kept("respelt"))

\* A member that is left out, at what its absence means. A list of citations is not written empty.
SpellOut(e) ==
  /\ e.key # "citations"
  /\ e.key \notin DOMAIN text.f /\ ~e.need /\ e.instead = <<>> /\ e.type[1] # "lenient"
  /\ IF IsOwner(e.or) THEN e.or.r \notin {"None", "Auto"} ELSE e.or # Null
  /\ Edit(e.key :> Encode(DialectWrites, e.or) @@ text.f, Kept("spelt out"))

Enveloping(j) == Object("$type" :> Str("Static") @@ [value |-> j])

\* A source of data, written with its schema and its marks, said otherwise: with its columns bare,
\* with no schema where the values tell, in other words for the same cells, as rows.
TypeNamed(j, k) == (CHOOSE e \in Range(j.f["schema"].a) : e.f["name"] = Str(k)).f["type"].s
Recolumned(j, Column(_, _)) ==
  [j EXCEPT !.f.columns.f = [k \in DOMAIN @ |-> Column(TypeNamed(j, k), @[k].f)]]

Marks(j) == UNION {Range(c.f["validity"].a) : c \in Range(j.f["columns"].f)}
Full(j) == Bool(FALSE) \notin Marks(j)
TypeTold(type, values) ==
  values # <<>> /\ (type \in {"int", "bool", "string"} \/ (type = "float" /\ Half \in Range(values)))
Telling(j) == \A k \in DOMAIN j.f["columns"].f : TypeTold(TypeNamed(j, k), j.f["columns"].f[k].f["values"].a)

Reckoned(type, v) ==
  CASE type = "decimal" /\ v = Str("1") -> Num(1)
    [] type \in DOMAIN timestamp_digits /\ v = Str(EpochText(type, 1)) -> Num(1)
    [] OTHER -> v
Counted(type, c) == Object([c EXCEPT !["values"] = List([i \in DOMAIN @.a |-> Reckoned(type, @.a[i])])])
Bared(type, c) == c["values"]

RowsOf(j) ==
  LET columns == j.f["columns"].f
      height == Max({Len(c.f["values"].a) : c \in Range(columns)} \cup {0})
  IN List([i \in 1..height |-> Object([k \in DOMAIN columns |-> columns[k].f["values"].a[i]])])

OtherSources(j) ==
  IF ~Has(j, {"columns"}) THEN {}
  ELSE {Recolumned(j, Counted)} \cup
       (IF Full(j) THEN {Recolumned(j, Bared)} ELSE {}) \cup
       (IF Telling(j) THEN {Object(Without(j.f, "schema"))} ELSE {})

\* Data may come wrapped, or as rows; a State may name the rows it starts from otherwise.
Seed(j, alias) == Object(alias :> j.f["defaultValue"] @@ Without(j.f, "defaultValue"))
OtherTransformSources(j) ==
  IF TagOf(j) = "State" THEN
    IF SeedAliases /\ Has(j, {"defaultValue"}) THEN {Seed(j, a) : a \in {"initialValue", "default"}} ELSE {}
  ELSE IF Has(j, {"columns"}) THEN
    OtherSources(j) \cup {Enveloping(j)} \cup
    (IF Telling(j) /\ Full(j) /\ DOMAIN j.f["columns"].f # {} THEN {RowsOf(j)} ELSE {})
  ELSE {}

Parameters(j) == Object([k \in {p.f["name"].s : p \in Range(j.a)} |->
                          (CHOOSE p \in Range(j.a) : p.f["name"].s = k).f["from"]])

Wrapping(j) == Object("$type" :> Str("Bound") @@ [binding |-> j])
Spelling(word, j) ==
  CASE word \in {"string", "bool", "int", "float"} \cup Enveloped -> {Enveloping(j)}
    [] word = "Emphasis" /\ j = Str("Loud") -> {Bool(TRUE), Str("Strong"), Enveloping(j)}
    [] word = "flag" /\ j = Bool(TRUE) -> {Str("Bold"), Enveloping(j)}
    [] word \in DOMAIN Spellings -> {Str(x) : x \in {y \in DOMAIN Spellings[word] : Spellings[word][y] = j.s}}
    [] word = "unit" /\ j = Str("m") -> {Str("m^1")}
    [] word = "decimal" /\ j = Str("1") -> {Num(1), Str("1.0")}
    [] word = "DataSource" -> OtherSources(j)
    [] word = "TransformSource" -> OtherTransformSources(j)
    [] word = "params" /\ j.j = "arr" -> {Parameters(j)}
    [] word = "TextSource" /\ j.j = "str" -> {Object("$type" :> Str("Literal") @@ [text |-> j])}
    [] word \in {"slot", "pair"} /\ Has(j, {"$type"}) -> {Wrapping(j)}
    [] OTHER -> {}

\* A member's value said otherwise.
Reword(e) ==
  /\ e.key \in DOMAIN text.f
  /\ \E j \in Spelling(e.type[1], text.f[e.key]) :
       Edit([text.f EXCEPT ![e.key] = j], Kept("reworded"))

\* A case under a tag of another vocabulary.
ForeignTags ==
  [ CellFormat_DateTime |-> "Date", Format_DateTime |-> "Date", BoxLayout_Auto |-> "Grid",
    CellKindErased_TonedPill |-> "Pill" ]
Retag ==
  /\ doc.means.r \in DOMAIN ForeignTags
  /\ Edit([text.f EXCEPT !["$type"] = Str(ForeignTags[doc.means.r])], Kept("retagged"))

\* A source, an expression, a step or a sorting key in a shorter form that stands for it.
Terms(f) ==
  IF TagOf(f["left"]) = "binary" /\ f["left"].f["op"] = f["op"]
  THEN <<f["left"].f["left"], f["left"].f["right"], f["right"]>> ELSE <<f["left"], f["right"]>>

Tagging(tag, members) == "$type" :> Str(tag) @@ members

FlatBinary(f) ==
  LET op == f["op"].s
  IN IF op \notin FlatComparisons THEN {}
     ELSE {Tagging(op, [left |-> f["left"], right |-> f["right"]]),
           Tagging(op, [expr |-> f["left"], other |-> f["right"]])} \cup
          (IF op \in Connectives THEN {Tagging(op, [exprs |-> List(Terms(f))])} ELSE {})

FlatApply(f) ==
  LET fn == f["fn"].s
      alone == IF Len(f["args"].a) = 1 THEN {[expr |-> f["args"].a[1]]} ELSE {}
  IN {Tagging(fn, args) : args \in {[args |-> f["args"]]} \cup alone} \cup
     {Tagging(call, "fn" :> f["fn"] @@ args) : call \in {"apply", "call", "fn"}, args \in alone}

FlatFilterOf(f) ==
  LET p == f["pred"].f
      right == p["right"].f
      given == IF TagOf(p["right"]) = "param" THEN [param |-> right["name"]]
               ELSE [value |-> right["cell"].f["value"]]
  IN IF TagOf(f["pred"]) # "binary" THEN {}
     ELSE IF TagOf(p["left"]) # "col" THEN {}
     ELSE {Tagging("filter", [column |-> p["left"].f["name"], op |-> p["op"]] @@ given)}

Undirected(f) ==
  {"descending" :> Bool(f["dir"] = Str("desc")) @@ Without(f, "dir")} \cup
  (IF f["dir"] = Str("asc") THEN {Without(f, "dir")} ELSE {})

Shorter ==
  CASE doc.means.r = "ColExpr_Binary" -> FlatBinary(text.f)
    [] doc.means.r = "ColExpr_Apply" -> FlatApply(text.f)
    [] doc.means.r = "TransformStep_Filter" -> FlatFilterOf(text.f)
    [] doc.means.r = "SortKey" -> Undirected(text.f)
    [] doc.means.r = "DataSource_Embedded" -> {j.f : j \in OtherSources(text)}
    [] OTHER -> {}
Shorten == \E f \in Shorter : Edit(f, Kept("shortened"))

\* A member of a later dialect, which this one has no name for.
Extend ==
  /\ doc.means.r # "Action_Print"
  /\ Edit("laterMember" :> Str("later") @@ text.f, Kept("extended"))

-----------------------------------------------------------------------------
(* Damage to one member. *)

\* A literal without its value is read as a null one, and a parameter nobody binds is no missing member.
IllTyped == {<<"Binding_Static", "value">>, <<"Binding_Expr", "params">>}
Drop(key) ==
  LET code == IF <<doc.means.r, key>> \in IllTyped THEN "WRONG_TYPE" ELSE "MISSING_FIELD"
  IN Edit(Without(text.f, key), Damaged("dropped", key, code))

Garble(key) ==
  \E j \in Junk :
    /\ j # text.f[key]
    /\ j = Null => (NullDefaults \/ key # "defaultValue")
    /\ Edit([text.f EXCEPT ![key] = j], Damaged("garbled", key, ""))

\* A member under a name this dialect has given up.
Retire ==
  /\ doc.means.r \in DOMAIN Retired
  /\ \E key \in Retired[doc.means.r] \ DOMAIN text.f :
       Edit(key :> Str("x") @@ text.f, Damaged("retired", key, "WRONG_TYPE"))

Editable == hops = 0 /\ seen = Unread /\ edit = Untouched /\ IsObject(text)

Rephrase == Editable /\ (Retag \/ Shorten \/ Extend \/ \E e \in Entry : Respell(e) \/ SpellOut(e) \/ Reword(e))
Damage == Editable /\ (Retire \/ \E key \in DOMAIN text.f : Drop(key) \/ Garble(key))

Next == Send \/ Rephrase \/ Damage \/ Receive

Spec == Init /\ [][Next]_vars

-----------------------------------------------------------------------------
(* Each member of a value is of its type. *)

Kinds == Range(ReadsToastToNodeKind["NodeKind"])
CasesOf(union) == {union \o "_" \o tag : tag \in Tags[union]}

CellFits(type, cell) ==
  \/ cell = NoCell
  \/ cell.r = CASE type = "int" -> "Cell_Int" [] type = "float" -> "Cell_Float"
                [] type = "bool" -> "Cell_Bool" [] type = "string" -> "Cell_Str"
                [] type = "date" -> "Cell_Date" [] type = "decimal" -> "Cell_Decimal"
                [] OTHER -> "Cell_Timestamp"

RECURSIVE Fits(_, _)
Fits(type, v) ==
  LET t == type[1] IN
  CASE t = "maybe" -> v = None \/ Fits(Tail(type), v)
    [] t = "list" -> v.j = "arr" /\ \A i \in DOMAIN v.a : Fits(Tail(type), v.a[i])
    [] t = "map" -> v.j = "obj" /\ \A k \in DOMAIN v.f : Fits(Tail(type), v.f[k])
    [] t = "compute" -> Fits(Tail(type), v)
    [] t \in {"string", "text", "decimal", "unit"} -> v.j = "str"
    [] t = "number" -> v.j \in Numbers
    [] t = "DataColumn" ->
         \A i \in DOMAIN v.m.cells.a : CellFits(v.m.type.s, v.m.cells.a[i])
    [] t = "DataSource" -> v.r \in CasesOf(t) /\ Fits(<<v.r>>, v)
    [] t = "bool" -> v.j = "bool"
    [] t = "int" -> v.j = "num"
    [] t = "truncated" -> v.j \in {"num", "huge"}
    [] t = "float" -> v.j \in Numbers \cup {"str"}
    [] t = "closure" -> v = CLOSURE
    [] t \in DOMAIN Enums -> v \in {Str(x) : x \in Enums[t]}
    [] t = "json" -> v # Null
    [] t = "I18nArg" -> v.r \in {"Literal", "Bound"}
    [] t = "TransformSource" ->
         (v.r = "Data" /\ Fits(<<"DataSource">>, v.m.m0)) \/ (v.r = "Live" /\ Fits(<<"DataSource">>, v.m.initial))
    [] t = "SwitchCondition" -> v.r \in {"Match", "When"}
    [] t = "StaticValue" -> v.r \in StaticValues
    [] t = "FragmentArg" -> v.r \in {"Value", "FragmentArg_Slot"}
    [] t = "NodeKind" -> v.r \in Kinds
    [] t \in DOMAIN Tags \ {"FragmentArg"} -> v.r \in CasesOf(t)
    [] OTHER -> v.r = t /\ \A k \in DOMAIN Types[t] : Fits(Types[t][k], v.m[k])

-----------------------------------------------------------------------------
(* Properties. *)

\* The name an owner has in the manifest; a node and the edits of a tree have none there.
Claim(owner) ==
  LET names == ReadsToastToNodeKind["NodeKind"]
      kinds == {t \in DOMAIN names : names[t] = owner}
      scalars == {t \in Tags.FragmentScalar : owner = "FragmentScalar_" \o t}
  IN IF kinds # {} THEN "Kind_" \o (CHOOSE t \in kinds : TRUE)
     ELSE IF scalars # {} THEN "FragmentArg_" \o (CHOOSE t \in scalars : TRUE)
     ELSE IF owner = "MountChannel" THEN "GuestChannel" ELSE owner

\* The reader gives values of the types it declares, whatever it is given.
TypeOK ==
  /\ hops \in 0..Hops
  /\ seen.ok => /\ Fits(IF doc.type[1] = "slot" THEN <<"Binding">> ELSE doc.type, seen.v)
                /\ Fits(<<seen.v.r>>, seen.v)

\* However a document is spelt, every host on its way reads what its author meant.
MeaningSurvives == Faithful /\ seen # Unread => seen = Ok(doc.means)

\* Members that stand or fall by another: an alternative to it, what refers into it, what it decides.
AnswersFor ==
  [ valueFrom |-> {"value"}, on |-> {"stateKey"}, when |-> {"match"}, multiple |-> {"value"},
    rows |-> {"citations"}, params |-> {"expr"}, schema |-> {"columns"}, name |-> {"kind"}, id |-> {"kind"} ]
Touched ==
  {edit.key} \cup (IF edit.key \in DOMAIN AnswersFor THEN AnswersFor[edit.key] ELSE {})

\* A refusal is about a damaged document, and it names the member that is damaged; one that is
\* missing is called missing.
RefusalNamesTheDamage ==
  ~seen.ok /\ seen # Unread =>
    /\ ~Faithful
    /\ seen.at = <<>> \/ seen.at[1] \in Touched
    /\ seen.at = <<>> \/ edit.code \in {"", seen.code}

\* A damaged member that is read for something takes with it no other member than it decides. A
\* grid with no columns is a layout of the automatic kind.
DamageIsContained ==
  ~Faithful /\ seen.ok =>
    IF seen.v.r # doc.means.r THEN doc.means.r = "BoxLayout_Grid" /\ edit.key = "cols"
    ELSE LET changed == {k \in DOMAIN seen.v.m : seen.v.m[k] # doc.means.m[k]}
         IN Cardinality(changed \ (Touched \cup {"defaultDeclared"})) <=
              IF changed \cap Touched = {} THEN 1 ELSE 0

\* What a host has read it can write: no key is left without a value.
NoHoleIsWritten == hops > 0 => text # Nothing

\* What a host has read fits the types of its model, it can write it, and the next one reads that.
ForwardedIsReadable ==
  /\ TypeOK
  /\ NoHoleIsWritten
  /\ hops > 1 /\ seen # Unread => seen.ok

\* A live source starts from the rows its binding carries: it is empty only if they are.
CarriedRows(b) ==
  IF b.r = "Binding_State" \/ (b.r = "Binding_Selection" /\ b.m.defaultValue # None) THEN b.m.defaultValue.m.m0.a
  ELSE <<>>
SnapshotIsCarried ==
  seen.ok =>
    (seen.v.r = "Binding_Transform" /\ seen.v.m.source.r = "Live" =>
       LET source == seen.v.m.source
       IN source.m.initial = empty_embedded_source <=> CarriedRows(source.m.m0) = <<>>)

\* A host writes no member it does not claim to know.
WrittenIsClaimed ==
  (hops > 0 \/ edit = Untouched) /\ seen = Unread /\ IsObject(text) =>
    LET claim == Claim(doc.means.r)
    IN claim \in DOMAIN Tokens => Members(text.f) \subseteq Tokens[claim]

\* Whatever a document is like, its first host brings it into a form the others leave alone.
ForwardedIsSettled == [][hops > 1 => text' = text]_vars
=============================================================================
