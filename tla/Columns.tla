------------------------------ MODULE Columns ------------------------------
(***************************************************************************)
(* Column expressions (src/core/transform.rs, src/core/unit.rs): their     *)
(* evaluation against a row, the static typing that decides a derived      *)
(* column's type from the schema alone, the unit check that rewrites every *)
(* conversion before a row is read, and the substitution of params.        *)
(*                                                                         *)
(* Every node of an expression is one record: its constructor op, the      *)
(* operator, function, type or rounding mode f it carries, its operands    *)
(* args in evaluation order, and its leaf payload: a name, a cell, a       *)
(* rounding scale or a unit.  A Case's operands are its arms' conditions   *)
(* and answers in turn, and last its else.  A schema entry is a name, a    *)
(* type and the set of the one unit it states, empty where it states none. *)
(***************************************************************************)
EXTENDS Cells

CONSTANTS
    Atoms,        \* the unit atoms, a prefixed one an atom of its own
    DimensionOf,  \* the dimension of each atom
    ScaleOf,      \* each atom's exact scale relative to its coherent base
    MaxPower      \* the largest exponent the unit algebra carries

Entry(name, type, unit) == [name |-> name, type |-> type, unit |-> unit]

\* The columns of one name, the first of which is the one a name reads.
Places(cols, name) == {i \in DOMAIN cols : cols[i].name = name}
ColIndex(cols, name) ==
    CHOOSE i \in Places(cols, name) : \A j \in Places(cols, name) : i <= j
HasCol(cols, name) == Places(cols, name) # {}
Names(cols) == [i \in DOMAIN cols |-> cols[i].name]
ColUnit(cols, name) == IF HasCol(cols, name) THEN cols[ColIndex(cols, name)].unit ELSE {}

----------------------------------------------------------------------------
(* The unit algebra.  A unit gives every atom its exponent.                *)

Dimensionless == [a \in Atoms |-> 0]
Carries(u) == \A a \in Atoms : Magnitude(u[a]) <= MaxPower
MulUnit(u, v) == [a \in Atoms |-> u[a] + v[a]]
DivUnit(u, v) == [a \in Atoms |-> u[a] - v[a]]
PowUnit(u, n) == [a \in Atoms |-> u[a] * n]

Dims == {DimensionOf[a] : a \in Atoms}
DimExponent(u, d) ==
    FoldLeft(LAMBDA acc, a : acc + u[a], 0, SetToSeq({a \in Atoms : DimensionOf[a] = d}))
Compatible(u, v) == \A d \in Dims : DimExponent(u, d) = DimExponent(v, d)

RECURSIVE PowQ(_, _)
PowQ(q, n) ==
    CASE n = 0 -> Whole(1) [] n > 0 -> MulQ(q, PowQ(q, n - 1))
      [] OTHER -> DivQ(PowQ(q, n + 1), q)

\* A unit's scale, and the factor that turns a value in u into the same quantity
\* in v.
UnitScale(u) ==
    FoldLeft(LAMBDA acc, a : MulQ(acc, PowQ(ScaleOf[a], u[a])), Whole(1), SetToSeq(Atoms))
ConversionFactor(u, v) == UnitScale(DivUnit(u, v))

----------------------------------------------------------------------------
(* The unit check: a static walk over the schema, which answers the        *)
(* expression's unit and the expression with every Convert resolved.       *)

Resolved(unit, expr) == [ok |-> TRUE, unit |-> unit, expr |-> expr]
UnitMismatch == [ok |-> FALSE]

Lit(c) == [op |-> "Lit", f |-> "", args |-> <<>>, leaf |-> c]
Node(op, f, args) == [op |-> op, f |-> f, args |-> args, leaf |-> ""]

Stated(units) == UNION Range(units)
UnitIn(stated) == CHOOSE u \in stated : TRUE

\* One unit among the operands that state one, and the answer carries it.
Agree(units, expr) ==
    IF Cardinality(Stated(units)) > 1 THEN UnitMismatch ELSE Resolved(Stated(units), expr)

\* No unit, where the operands have to agree or have to be dimensionless.
Bare(ok, expr) == IF ok THEN Resolved({}, expr) ELSE UnitMismatch
InRange(unit, expr) == IF Carries(unit) THEN Resolved({unit}, expr) ELSE UnitMismatch

ProductUnit(units, expr) ==
    IF units[1] = {} \/ units[2] = {} THEN Resolved(units[1] \cup units[2], expr)
    ELSE InRange(MulUnit(UnitIn(units[1]), UnitIn(units[2])), expr)

\* An unconstrained dividend is dimensionless over a stated divisor.
QuotientUnit(units, expr) ==
    IF units[2] = {} THEN Resolved(units[1], expr)
    ELSE InRange(DivUnit(IF units[1] = {} THEN Dimensionless ELSE UnitIn(units[1]),
                         UnitIn(units[2])), expr)

PowerUnit(units, expr) ==
    LET n == expr.args[2] IN
    CASE Len(units) # 2 \/ n.op # "Lit" \/ Tag(n.leaf) # "int" ->
            Bare(Stated(units) \subseteq {Dimensionless}, expr)
      [] units[1] = {} \/ Val(n.leaf) = 0 -> Resolved({}, expr)
      [] OTHER -> InRange(PowUnit(UnitIn(units[1]), Val(n.leaf)), expr)

BinaryUnit(units, expr) ==
    CASE expr.f \in {"add", "sub"} -> Agree(units, expr)
      [] expr.f \in ComparisonOps -> Bare(Cardinality(Stated(units)) <= 1, expr)
      [] expr.f = "mul" -> ProductUnit(units, expr)
      [] expr.f = "div" -> QuotientUnit(units, expr)
      [] expr.f = "mod" -> Resolved(units[1], expr)
      [] OTHER -> Resolved({}, expr)

ApplyUnit(units, expr) ==
    CASE expr.f \in {"least", "greatest"} -> Agree(units, expr)
      [] expr.f \in {"abs", "round", "floor", "ceil"} ->
            Resolved(IF units = <<>> THEN {} ELSE units[1], expr)
      [] expr.f = "pow" -> PowerUnit(units, expr)
      [] expr.f \in {"exp", "ln", "log10"} ->
            Bare(Stated(units) \subseteq {Dimensionless}, expr)
      [] OTHER -> Resolved({}, expr)

\* The answers of a Case: every second operand, and the last.
Answers(args) ==
    [i \in 1 .. (Len(args) + 1) \div 2 |-> IF 2 * i > Len(args) THEN Last(args) ELSE args[2 * i]]

\* A mutant: a conversion only relabels.
ConvertUnitAsATag(units, expr) ==
    IF units[1] = {} \/ Compatible(UnitIn(units[1]), expr.leaf)
    THEN Resolved({expr.leaf}, Node("Cast", "float", expr.args)) ELSE UnitMismatch

\* Over an operand stating no unit a conversion is a tag; over a compatible unit
\* the float times the exact factor.
ConvertUnit(units, expr) ==
    LET cast == Node("Cast", "float", expr.args)
        source == UnitIn(units[1])
    IN  CASE units[1] = {} \/ units[1] = {expr.leaf} -> Resolved({expr.leaf}, cast)
          [] ~Compatible(source, expr.leaf) -> UnitMismatch
          [] OTHER -> Resolved({expr.leaf},
                Node("Binary", "mul",
                     <<cast, Lit(Float(ConversionFactor(source, expr.leaf)))>>))

UnitOf(cols, units, expr) ==
    CASE expr.op = "Col" -> Resolved(ColUnit(cols, expr.leaf), expr)
      [] expr.op = "Binary" -> BinaryUnit(units, expr)
      [] expr.op = "Apply" -> ApplyUnit(units, expr)
      [] expr.op = "Coalesce" -> Agree(units, expr)
      [] expr.op = "Case" -> Agree(Answers(units), expr)
      [] expr.op = "InList" -> Bare(Cardinality(Stated(units)) <= 1, expr)
      [] expr.op = "Quotient" -> QuotientUnit(units, expr)
      [] expr.op \in {"Cast", "Rounded"} -> Resolved(units[1], expr)
      [] expr.op = "Convert" -> ConvertUnit(units, expr)
      [] OTHER -> Resolved({}, expr)

RECURSIVE ResolveUnits(_, _)
ResolveUnits(cols, e) ==
    LET rs == [i \in DOMAIN e.args |-> ResolveUnits(cols, e.args[i])]
    IN  IF \E i \in DOMAIN rs : ~rs[i].ok THEN UnitMismatch
        ELSE UnitOf(cols, [i \in DOMAIN rs |-> rs[i].unit],
                    [e EXCEPT !.args = [i \in DOMAIN rs |-> rs[i].expr]])

AggregateUnit(func, source) == IF func \in {"count", "countDistinct"} THEN {} ELSE source
WindowUnit(func, source) == IF func \in {"rowNumber", "rank"} THEN {} ELSE source

\* An unpivot's value column states the one unit every value column states.
SharedUnit(cols, names) ==
    LET first == ColUnit(cols, names[1])
    IN  IF names # <<>> /\ \A i \in DOMAIN names : ColUnit(cols, names[i]) = first
        THEN first ELSE {}

\* Two columns met as one: the unit the pair states, unless it states two.
UnitsClash(l, r) == l.unit # {} /\ r.unit # {} /\ l.unit # r.unit

----------------------------------------------------------------------------
(* Evaluation against one row.                                             *)

\* The first of the values an evaluation in order stops at, if it stops.
FirstStop(vs, stops) == vs[CHOOSE i \in stops : \A j \in stops : i <= j]
Errors(vs) == {i \in DOMAIN vs : IsErr(vs[i])}

EvalCase(vs) ==
    LET whens == {i \in 1 .. Len(vs) - 1 : i % 2 = 1}
        stops == {i \in whens : IsErr(vs[i]) \/ vs[i] = Bool(TRUE)}
        i == CHOOSE i \in stops : \A j \in stops : i <= j
    IN  IF stops = {} THEN Last(vs) ELSE IF IsErr(vs[i]) THEN vs[i] ELSE vs[i + 1]

\* The constructors that evaluate every operand before they answer.
EvalStrict(e, vs) ==
    IF Errors(vs) # {} THEN FirstStop(vs, Errors(vs))
    ELSE CASE e.op = "Binary" -> Binary(e.f, vs[1], vs[2])
           [] e.op = "Not" -> Not(vs[1])
           [] e.op = "Cast" -> CastCell(e.f, vs[1])
           [] e.op = "Apply" -> ApplyScalar(e.f, vs)
           [] e.op = "IsNull" -> Bool(IsNull(vs[1]))

EvalRounding(e, vs, scale) ==
    CASE IsErr(scale) -> scale
      [] Errors(vs) # {} -> FirstStop(vs, Errors(vs))
      [] e.op = "Rounded" -> RoundedCell(e.f, Val(scale), vs[1])
      [] OTHER -> QuotientCell(e.f, Val(scale), vs[1], vs[2])

RECURSIVE EvalExpr(_, _, _, _)
EvalExpr(cols, row, e, env) ==
    LET vs == [i \in DOMAIN e.args |-> EvalExpr(cols, row, e.args[i], env)]
        present == {i \in DOMAIN vs : ~IsNull(vs[i])}
    IN  CASE e.op = "Col" -> IF HasCol(cols, e.leaf) THEN row[ColIndex(cols, e.leaf)]
                             ELSE Err("UnknownColumn")
          [] e.op = "Lit" -> e.leaf
          [] e.op = "Param" -> IF e.leaf \in DOMAIN env THEN env[e.leaf] ELSE Err("UnboundParam")
          [] e.op = "InParam" -> Err("UnboundParam")
          [] e.op = "Coalesce" -> IF present = {} THEN Null ELSE FirstStop(vs, present)
          [] e.op = "Case" -> EvalCase(vs)
          [] e.op = "InList" -> IF IsErr(vs[1]) THEN vs[1] ELSE Member(vs[1], Tail(vs))
          [] e.op \in {"Quotient", "Rounded"} -> EvalRounding(e, vs, ResolveScale(env, e.leaf))
          [] e.op = "Convert" ->
                LET r == ResolveUnits(cols, e)
                IN  IF r.ok THEN EvalExpr(cols, row, r.expr, env) ELSE Err("UnitMismatch")
          [] OTHER -> EvalStrict(e, vs)

----------------------------------------------------------------------------
(* Static typing: the type of every present value an expression can        *)
(* answer.  Absent where there is none, Unknown where the schema does not  *)
(* decide.                                                                 *)

Absent == "absent"
Unknown == "unknown"

CellType(c) == IF IsNull(c) THEN Absent ELSE Tag(c)
JoinTyping(a, b) == CASE a = Absent -> b [] b = Absent -> a [] a = b -> a [] OTHER -> Unknown
JoinAll(ts) == FoldLeft(JoinTyping, Absent, ts)

NumericType(t) == t \in {"int", "float"}
ExactType(t) == t \in {"int", "decimal"}
DecimalPair(a, b) == ExactType(a) /\ ExactType(b) /\ "decimal" \in {a, b}

TypingBinary(op, a, b) ==
    CASE op \in LogicalOps ->
            IF {a, b} \subseteq {Absent, "bool"} THEN JoinTyping(a, b) ELSE Unknown
      [] a = Absent \/ b = Absent -> Absent
      [] op \in {"add", "sub", "mul", "mod"} /\ a = "int" /\ b = "int" -> "int"
      [] op \in {"add", "sub", "mul", "div"} /\ NumericType(a) /\ NumericType(b) -> "float"
      [] op \in {"add", "sub", "mul", "mod"} /\ DecimalPair(a, b) -> "decimal"
      [] op \in ComparisonOps /\ NumericType(a) /\ NumericType(b) -> "bool"
      [] op \in ComparisonOps /\ ExactType(a) /\ ExactType(b) -> "bool"
      [] op \in ComparisonOps /\ a = b /\ a \notin {"int", "float", "decimal", Unknown} -> "bool"
      [] op \in StringPreds /\ a = "str" /\ b = "str" -> "bool"
      [] OTHER -> Unknown

TypingPow(a, b) ==
    CASE a = Absent \/ b = Absent -> Absent
      [] Unknown \in {a, b} \/ {a, b} = {"int"} -> Unknown
      [] OTHER -> "float"

\* A power under a literal int exponent, whose sign decides.
TypingPowLit(n, b) ==
    CASE b \in {Absent, Unknown} -> b [] b = "int" /\ n >= 0 -> "int" [] OTHER -> "float"

TypingUnary(func, t) ==
    CASE t = Absent -> Absent
      [] func = "abs" -> IF t \in {"int", "float", "decimal"} THEN t ELSE Unknown
      [] func \in {"round", "floor", "ceil"} -> IF t \in {"decimal", Unknown} THEN t ELSE "float"
      [] func = "length" -> "int"
      [] func \in {"lower", "upper", "trim"} -> "str"
      [] OTHER -> "float"

\* An arity the function refuses is an error on every row, so no present value.
TypingApply(func, ts) ==
    LET absent == \E i \in DOMAIN ts : ts[i] = Absent
    IN  CASE func \in VariadicFns ->
                IF ts = <<>> \/ absent THEN Absent
                ELSE IF func = "concat" THEN "str" ELSE JoinAll(ts)
          [] Len(ts) # Arity(func) -> Absent
          [] func \in UnaryFns -> TypingUnary(func, ts[1])
          [] func = "substr" -> IF ts[1] = Absent THEN Absent ELSE "str"
          [] func = "datePart" -> IF ts[2] = Absent THEN Absent ELSE "int"
          [] func = "replace" -> IF absent THEN Absent ELSE "str"
          [] func = "dateDiffDays" -> IF absent THEN Absent ELSE "int"
          [] func = "pow" -> TypingPow(ts[1], ts[2])

IsPowLit(e) ==
    e.op = "Apply" /\ e.f = "pow" /\ Len(e.args) = 2
        /\ e.args[2].op = "Lit" /\ Tag(e.args[2].leaf) = "int"

TypingNode(cols, e, ts) ==
    CASE e.op = "Col" ->
            IF HasCol(cols, e.leaf) THEN cols[ColIndex(cols, e.leaf)].type ELSE Unknown
      [] e.op = "Lit" -> CellType(e.leaf)
      [] e.op = "Param" -> Unknown
      [] e.op = "Binary" -> TypingBinary(e.f, ts[1], ts[2])
      [] e.op = "Not" -> IF ts[1] \in {Absent, "bool"} THEN ts[1] ELSE Unknown
      [] e.op = "Coalesce" -> JoinAll(ts)
      [] e.op = "Case" -> JoinAll(Answers(ts))
      [] IsPowLit(e) -> TypingPowLit(Val(e.args[2].leaf), ts[1])
      [] e.op = "Apply" -> TypingApply(e.f, ts)
      [] e.op = "IsNull" -> "bool"
      [] ts[1] = Absent \/ (e.op = "Quotient" /\ ts[2] = Absent) -> Absent
      [] e.op = "Cast" -> e.f
      [] e.op = "Convert" -> "float"
      [] e.op \in {"InList", "InParam"} -> "bool"
      [] e.op = "Rounded" -> IF ExactType(ts[1]) THEN "decimal" ELSE Unknown
      [] e.op = "Quotient" -> IF ExactType(ts[1]) /\ ExactType(ts[2]) THEN "decimal" ELSE Unknown

RECURSIVE Typing(_, _)
Typing(cols, e) == TypingNode(cols, e, [i \in DOMAIN e.args |-> Typing(cols, e.args[i])])

----------------------------------------------------------------------------
(* How a derived column is typed: a column type where the schema decides   *)
(* it, and otherwise by its cells, or refused where a float arm stands     *)
(* beside a decimal one.                                                   *)

ByCells == "by cells"
Refused == "refused"

\* The typings of the arms a Case's or a Coalesce's answer is drawn from.
RECURSIVE ArmTypings(_, _)
ArmTypings(cols, e) ==
    LET arms == IF e.op = "Case" THEN Answers(e.args) ELSE e.args
    IN  IF e.op \in {"Case", "Coalesce"}
        THEN UNION {ArmTypings(cols, arms[i]) : i \in DOMAIN arms}
        ELSE {Typing(cols, e)}

DerivedTyping(cols, e) ==
    LET t == Typing(cols, e)
    IN  CASE {"float", "decimal"} \subseteq ArmTypings(cols, e) -> Refused
          [] t = Absent -> "str"
          [] t = Unknown -> ByCells
          [] OTHER -> t

\* A mutant: the operands' params are bound, a rounding's own scale is not.
SubstituteParamsNotScales(env, e) ==
    IF e.op = "Param" /\ e.leaf \in DOMAIN env THEN Lit(env[e.leaf])
    ELSE [e EXCEPT !.args = [i \in DOMAIN e.args |->
            IF e.args[i].op = "Param" /\ e.args[i].leaf \in DOMAIN env
            THEN Lit(env[e.args[i].leaf]) ELSE e.args[i]]]

\* Every param the env binds replaced by its literal.
RECURSIVE SubstituteParams(_, _)
SubstituteParams(env, e) ==
    LET sub == [i \in DOMAIN e.args |-> SubstituteParams(env, e.args[i])]
        scale == ResolveScale(env, e.leaf)
    IN  CASE e.op = "Param" -> IF e.leaf \in DOMAIN env THEN Lit(env[e.leaf]) ELSE e
          [] e.op \in {"Quotient", "Rounded"} /\ ~IsErr(scale) ->
                [e EXCEPT !.args = sub, !.leaf = [param |-> "", lit |-> Val(scale)]]
          [] OTHER -> [e EXCEPT !.args = sub]

\* Every list param the list env binds rewritten to the literal membership test.
RECURSIVE SubstituteListParams(_, _)
SubstituteListParams(listEnv, e) ==
    LET sub == [i \in DOMAIN e.args |-> SubstituteListParams(listEnv, e.args[i])]
    IN  IF e.op = "InParam" /\ e.leaf \in DOMAIN listEnv
        THEN Node("InList", "", sub \o [i \in DOMAIN listEnv[e.leaf] |-> Lit(listEnv[e.leaf][i])])
        ELSE [e EXCEPT !.args = sub]

DerivedTypingIn(env, cols, e) ==
    LET static == DerivedTyping(cols, e)
        bound  == DerivedTyping(cols, SubstituteParams(env, e))
    IN  IF static # ByCells THEN static ELSE IF bound = Refused THEN ByCells ELSE bound

\* The least type two types both widen into.
Widens(a, b) == a = b \/ {a, b} \in {{"int", "float"}, {"int", "decimal"}}
JoinType(a, b) == IF a = "int" THEN b ELSE a

JoinDeclared(ts) ==
    LET join(acc, t) == CASE acc = Absent -> t
                          [] acc = ByCells -> ByCells
                          [] Widens(acc, t) -> JoinType(acc, t)
                          [] OTHER -> ByCells
    IN  FoldLeft(join, Absent, ts)

UnpivotTyping(ts) ==
    LET t == JoinDeclared(ts)
    IN  CASE {"float", "decimal"} \subseteq Range(ts) -> Refused
          [] t = Absent -> "str"
          [] OTHER -> t

\* The cells' half of the rule: Refused where they hold two types no column type
\* holds together.
TypeFromCells(cells) ==
    LET present == SelectSeq([i \in DOMAIN cells |-> CellType(cells[i])], LAMBDA t : t # Absent)
        t == JoinDeclared(present)
    IN  CASE t = Absent -> "str" [] t = ByCells -> Refused [] OTHER -> t

\* A mutant: a column is always typed by its cells.
ColumnTypeByRows(dt, cells) == TypeFromCells(cells)

ColumnTypeBy(dt, cells) == IF dt = ByCells THEN TypeFromCells(cells) ELSE dt

============================================================================
